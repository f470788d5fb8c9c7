------------------------- MODULE SyncFuzzersProofs -------------------------
(***************************************************************************)
(* What sync_fuzzers guarantees for every number of nodes, whichever of    *)
(* them are main nodes, are killed or are started over.                    *)
(***************************************************************************)
EXTENDS SyncFuzzers, SequenceTheorems, FiniteSetTheorems, TLAPS

-----------------------------------------------------------------------------
(* The inductive invariant                                                  *)

\* A node has seen what it has queued.
Learned == \A n \in Nodes : \A i \in 1 .. Len(queue[n]) : queue[n][i] \in seen[n]

\* No queue holds a case twice, so that there are no more files than cases.
NoEcho == \A n \in Nodes : IsInjective(queue[n])

\* A list has no more files than there are cases.
Listed ==
  \A n \in Nodes :
    pc[n] = "import" => next[n] <= upto[n] /\ upto[n] <= Cardinality(Cases)

IInv == TypeOK /\ Learned /\ NoEcho /\ Listed /\ MainIsSeen

\* Of a node that imports: the files listed are still there, and those before
\* the next one were run.
Ran ==
  \A n \in Nodes : pc[n] = "import" =>
    /\ upto[n] <= Len(queue[party[n]])
    /\ \A i \in 1 .. next[n] : queue[party[n]][i] \in seen[n]

-----------------------------------------------------------------------------
(* Queues                                                                   *)

\* A queue without repetitions is no longer than there are cases.
LEMMA QueueBound ==
  ASSUME NEW s \in Seq(Cases), IsInjective(s)
  PROVE  Len(s) <= Cardinality(Cases) /\ Cardinality(Cases) \in Nat
<1>1. s \in Injection(1 .. Len(s), Cases) /\ Len(s) \in Nat
  BY DEF IsInjective, Injection
<1>2. Cardinality(1 .. Len(s)) = Len(s)
  <2>1. \A k \in Nat : Cardinality(1 .. k) = IF 1 > k THEN 0 ELSE k - 1 + 1
    BY FS_Interval
  <2> QED BY <1>1, <2>1
<1>3. Cardinality(1 .. Len(s)) <= Cardinality(Cases)
  BY Zenon, <1>1, CasesAssumption, FS_Injection
<1> QED BY Zenon, <1>2, <1>3, CasesAssumption, FS_CardinalityType

\* Nothing that was queued or seen goes away.
Grows ==
  \A p \in Nodes : /\ seen[p] \subseteq seen'[p]
                   /\ Len(queue[p]) <= Len(queue'[p])
                   /\ \A i \in 1 .. Len(queue[p]) : queue'[p][i] = queue[p][i]

\* save_if_interesting queues a case once, and keeps what there is.
LEMMA SaveKeeps ==
  ASSUME TypeOK, Learned, NoEcho, NEW n \in Nodes, NEW c \in Cases, Save(n, c)
  PROVE  /\ queue' \in [Nodes -> Seq(Cases)] /\ seen' \in [Nodes -> SUBSET Cases]
         /\ Grows /\ c \in seen'[n]
         /\ Learned' /\ NoEcho'
<1> USE DEF TypeOK
<1>1. /\ seen' \in [Nodes -> SUBSET Cases] /\ seen'[n] = seen[n] \cup {c}
      /\ \A p \in Nodes : p # n => seen'[p] = seen[p]
  BY Zenon DEF Save
<1>2. CASE c \in seen[n]
  BY <1>1, <1>2 DEF Save, Grows, Learned, NoEcho
<1>3. CASE c \notin seen[n]
  <2>1. /\ queue'[n] = Append(queue[n], c)
        /\ \A p \in Nodes : p # n => queue'[p] = queue[p]
    BY Zenon, <1>3 DEF Save
  <2>2. /\ queue'[n] \in Seq(Cases) /\ Len(queue'[n]) = Len(queue[n]) + 1
        /\ \A i \in 1 .. Len(queue[n]) : queue'[n][i] = queue[n][i]
        /\ queue'[n][Len(queue[n]) + 1] = c
    BY <2>1, AppendProperties
  <2>3. queue' \in [Nodes -> Seq(Cases)]
    BY Zenon, <1>3, <2>2 DEF Save
  <2>4. \A p \in Nodes : Len(queue[p]) \in Nat
    OBVIOUS
  <2>5. Grows
    <3> SUFFICES ASSUME NEW p \in Nodes
                 PROVE  /\ seen[p] \subseteq seen'[p]
                        /\ Len(queue[p]) <= Len(queue'[p])
                        /\ \A i \in 1 .. Len(queue[p]) : queue'[p][i] = queue[p][i]
      BY Zenon DEF Grows
    <3>1. CASE p = n
      <4>1. Len(queue[n]) <= Len(queue'[n])
        BY <2>2, <2>4
      <4> QED BY Zenon, <1>1, <2>2, <3>1, <4>1
    <3>2. CASE p # n
      <4>1. queue'[p] = queue[p] /\ seen'[p] = seen[p]
        BY Zenon, <1>1, <2>1, <3>2
      <4> QED BY <2>4, <4>1
    <3> QED BY Zenon, <3>1, <3>2
  <2>6. Learned'
    <3> SUFFICES ASSUME NEW p \in Nodes, NEW i \in 1 .. Len(queue'[p])
                 PROVE  queue'[p][i] \in seen'[p]
      BY Zenon DEF Learned
    <3>1. CASE p = n
      <4>1. i \in 1 .. Len(queue[n]) \/ i = Len(queue[n]) + 1
        BY <2>2, <2>4, <3>1
      <4> QED BY Zenon, <1>1, <2>2, <3>1, <4>1 DEF Learned
    <3>2. CASE p # n
      BY Zenon, <1>1, <2>1, <3>2 DEF Learned
    <3> QED BY Zenon, <3>1, <3>2
  <2>7. IsInjective(queue'[n])
    <3>1. \A i \in 1 .. Len(queue[n]) : queue[n][i] # c
      BY Zenon, <1>3 DEF Learned
    <3>2. DOMAIN queue'[n] = 1 .. Len(queue[n]) + 1 /\ DOMAIN queue[n] = 1 .. Len(queue[n])
      BY <2>2
    <3>3. IsInjective(queue[n])
      BY Zenon DEF NoEcho
    <3> SUFFICES ASSUME NEW i \in 1 .. Len(queue[n]) + 1, NEW j \in 1 .. Len(queue[n]) + 1,
                        queue'[n][i] = queue'[n][j]
                 PROVE  i = j
      BY Zenon, <3>2 DEF IsInjective
    <3>4. /\ i \in 1 .. Len(queue[n]) \/ i = Len(queue[n]) + 1
          /\ j \in 1 .. Len(queue[n]) \/ j = Len(queue[n]) + 1
      BY <2>4
    <3> QED BY Zenon, <2>2, <3>1, <3>2, <3>3, <3>4 DEF IsInjective
  <2>8. NoEcho'
    BY Zenon, <2>1, <2>7 DEF NoEcho
  <2> QED BY Zenon, <1>1, <2>3, <2>5, <2>6, <2>8
<1> QED BY Zenon, <1>2, <1>3

-----------------------------------------------------------------------------
(* A step                                                                   *)

\* Steps other than saving a case and starting over keep queue/ and
\* virgin_bits.
Quiet(n) == \/ StartSync(n) \/ NextEntry(n) \/ Downgrade(n) \/ List(n) \/ Imported(n)
            \/ EndSync(n) \/ Stop(n) \/ Crash(n)

\* What is done to queue/ and virgin_bits: a case is saved, a queue starts
\* over, or nothing.
LEMMA QueueStep ==
  ASSUME TypeOK, NEW n \in Nodes, Find(n) \/ Sync(n) \/ Stop(n) \/ StartOver(n) \/ Crash(n)
  PROVE  \/ \E c \in Cases : Save(n, c)
         \/ StartOver(n)
         \/ UNCHANGED <<queue, seen>>
<1>1. CASE Find(n)
  BY Zenon, <1>1 DEF Find
<1>2. CASE Import(n)
  <2>1. CASE next[n] < Len(queue[party[n]])
    <3>1. party[n] \in Nodes /\ next[n] \in Nat
      BY DEF TypeOK
    <3>2. queue[party[n]] \in Seq(Cases)
      BY Zenon, <3>1 DEF TypeOK
    <3>3. next[n] + 1 \in 1 .. Len(queue[party[n]])
      BY <2>1, <3>1, <3>2
    <3>4. queue[party[n]][next[n] + 1] \in Cases
      BY <3>2, <3>3
    <3> QED BY Zenon, <1>2, <2>1, <3>4 DEF Import
  <2> QED BY Zenon, <1>2, <2>1 DEF Import
<1>3. CASE Quiet(n)
  BY Zenon, <1>3 DEF Quiet, StartSync, NextEntry, Downgrade, List, Imported, EndSync, Stop, Crash
<1> QED BY Zenon, <1>1, <1>2, <1>3 DEF Sync, Quiet

\* Each node's queue stays without repetitions and within what it has seen.
LEMMA LearnedStep ==
  ASSUME TypeOK, Learned, NoEcho, NEW n \in Nodes,
         Find(n) \/ Sync(n) \/ Stop(n) \/ StartOver(n) \/ Crash(n)
  PROVE  /\ queue' \in [Nodes -> Seq(Cases)] /\ seen' \in [Nodes -> SUBSET Cases]
         /\ Learned' /\ NoEcho'
         /\ Grows \/ StartOver(n)
<1>1. CASE \E c \in Cases : Save(n, c)
  BY Zenon, <1>1, SaveKeeps
<1>2. CASE StartOver(n)
  <2>1. /\ queue' = [queue EXCEPT ![n] = <<>>] /\ seen' = [seen EXCEPT ![n] = {}]
    BY Zenon, <1>2 DEF StartOver
  <2>2. queue' \in [Nodes -> Seq(Cases)] /\ seen' \in [Nodes -> SUBSET Cases]
    BY <2>1 DEF TypeOK
  <2>3. /\ queue'[n] = <<>> /\ seen'[n] = {}
        /\ \A p \in Nodes : p # n => queue'[p] = queue[p] /\ seen'[p] = seen[p]
    BY Zenon, <2>1 DEF TypeOK
  <2>4. Learned'
    BY <2>3 DEF Learned
  <2>5. IsInjective(queue'[n])
    BY <2>3 DEF IsInjective
  <2>6. NoEcho'
    BY Zenon, <2>3, <2>5 DEF NoEcho
  <2> QED BY Zenon, <1>2, <2>2, <2>4, <2>6
<1>3. CASE UNCHANGED <<queue, seen>>
  <2>1. \A p \in Nodes : Len(queue[p]) \in Nat
    BY DEF TypeOK
  <2> QED BY <1>3, <2>1 DEF TypeOK, Learned, NoEcho, Grows
<1> QED BY Zenon, <1>1, <1>2, <1>3, QueueStep

\* The flags and the files that say so agree.
LEMMA MainStep ==
  ASSUME TypeOK, MainIsSeen, NEW n \in Nodes,
         Find(n) \/ Sync(n) \/ Stop(n) \/ StartOver(n) \/ Crash(n)
  PROVE  /\ up' \in SUBSET Nodes /\ flag' \in SUBSET Nodes /\ replaced' \in SUBSET Nodes
         /\ is_main_node' \in [Nodes -> BOOLEAN]
         /\ MainIsSeen'
<1> USE DEF TypeOK, MainIsSeen
<1>1. CASE UNCHANGED <<up, flag, replaced, is_main_node>>
  BY Zenon, <1>1
<1>2. CASE Downgrade(n)
  BY Zenon, <1>2 DEF Downgrade, Demoted
<1>3. CASE EndSync(n)
  BY Zenon, <1>3 DEF EndSync
<1>4. CASE Stop(n)
  BY Zenon, <1>4 DEF Stop, Exit
<1>5. CASE StartOver(n)
  <2>1. /\ up' = up \cup {n} /\ replaced' = replaced \cup {n}
        /\ is_main_node' = [is_main_node EXCEPT ![n] = n \in Mains]
        /\ flag' = IF n \in Mains THEN flag \cup {n} ELSE flag
    BY Zenon, <1>5 DEF StartOver
  <2>2. /\ up' \in SUBSET Nodes /\ flag' \in SUBSET Nodes /\ replaced' \in SUBSET Nodes
        /\ is_main_node' \in [Nodes -> BOOLEAN]
    BY <2>1
  <2>3. is_main_node'[n] => n \in flag'
    BY Zenon, <2>1
  <2>4. \A p \in up : p # n => is_main_node'[p] = is_main_node[p] /\ (p \in flag => p \in flag')
    BY Zenon, <2>1
  <2> QED BY Zenon, <2>1, <2>2, <2>3, <2>4
<1>6. CASE Crash(n)
  BY Zenon, <1>6 DEF Crash, Exit
<1>7. Find(n) \/ StartSync(n) \/ NextEntry(n) \/ List(n) \/ Import(n) \/ Imported(n)
      => UNCHANGED <<up, flag, replaced, is_main_node>>
  BY Zenon DEF Find, StartSync, NextEntry, List, Import, Imported, known
<1> QED BY Zenon, <1>1, <1>2, <1>3, <1>4, <1>5, <1>6, <1>7 DEF Sync

\* The locals of sync_fuzzers keep their kinds, and the file numbers stay
\* within the files there can be.
LEMMA NumbersStep ==
  ASSUME TypeOK, Listed, NoEcho, NEW n \in Nodes,
         Find(n) \/ Sync(n) \/ Stop(n) \/ StartOver(n) \/ Crash(n)
  PROVE  /\ min_accept' \in [Nodes -> [Nodes -> 0 .. Cardinality(Cases)]]
         /\ pc' \in [Nodes -> {"fuzz", "scan", "downgrade", "list", "import"}]
         /\ todo' \in [Nodes -> SUBSET Nodes]
         /\ entries' \in [Nodes -> BOOLEAN] /\ synced' \in [Nodes -> BOOLEAN]
         /\ party' \in [Nodes -> Nodes]
         /\ upto' \in [Nodes -> Nat] /\ next' \in [Nodes -> 0 .. Cardinality(Cases)]
         /\ Listed'
<1> USE DEF TypeOK, Listed
<1>0. /\ Cardinality(Cases) \in Nat
      /\ \A p \in Nodes : Len(queue[p]) \in Nat /\ Len(queue[p]) <= Cardinality(Cases)
  BY CasesAssumption, FS_CardinalityType, QueueBound DEF NoEcho
<1>1. CASE Find(n)
  BY Zenon, <1>1 DEF Find
<1>2. CASE StartSync(n)
  BY Zenon, <1>2 DEF StartSync, Goto
<1>3. CASE NextEntry(n)
  <2> PICK p \in todo[n] :
         /\ todo' = [todo EXCEPT ![n] = @ \ {p}]
         /\ entries' = [entries EXCEPT ![n] = TRUE]
         /\ \/ UNCHANGED <<pc, party, synced>>
            \/ /\ party' = [party EXCEPT ![n] = p]
               /\ synced' = [synced EXCEPT ![n] = TRUE]
               /\ \E where \in {"downgrade", "list"} : pc' = [pc EXCEPT ![n] = where]
    BY Zenon, <1>3 DEF NextEntry, Goto
  <2>1. p \in Nodes /\ UNCHANGED <<min_accept, upto, next>>
    BY Zenon, <1>3 DEF NextEntry
  <2>2. CASE UNCHANGED <<pc, party, synced>>
    BY Zenon, <2>1, <2>2
  <2>3. CASE /\ party' = [party EXCEPT ![n] = p]
             /\ synced' = [synced EXCEPT ![n] = TRUE]
             /\ \E where \in {"downgrade", "list"} : pc' = [pc EXCEPT ![n] = where]
    BY <2>1, <2>3
  <2> QED BY Zenon, <2>2, <2>3
<1>4. CASE Downgrade(n)
  BY Zenon, <1>4 DEF Downgrade, Goto
<1>5. CASE List(n)
  <2>1. party[n] \in Nodes
    BY Zenon
  <2>0. UNCHANGED <<min_accept, todo, entries, synced>>
    BY Zenon, <1>5 DEF List
  <2>2. CASE min_accept[n][party[n]] < Len(queue[party[n]])
    <3>1. /\ upto' = [upto EXCEPT ![n] = Len(queue[party[n]])]
          /\ next' = [next EXCEPT ![n] = min_accept[n][party[n]]]
          /\ pc' = [pc EXCEPT ![n] = "import"]
          /\ UNCHANGED party
      BY Zenon, <1>5, <2>2 DEF List, Goto
    <3>2. /\ min_accept[n][party[n]] \in 0 .. Cardinality(Cases)
          /\ Len(queue[party[n]]) \in Nat /\ Len(queue[party[n]]) <= Cardinality(Cases)
          /\ min_accept[n][party[n]] <= Len(queue[party[n]])
      BY <1>0, <2>1, <2>2
    <3> QED BY Zenon, <2>0, <3>1, <3>2
  <2>3. CASE ~(min_accept[n][party[n]] < Len(queue[party[n]]))
    <3>1. /\ party' = [party EXCEPT ![n] = n]
          /\ upto' = [upto EXCEPT ![n] = 0] /\ next' = [next EXCEPT ![n] = 0]
          /\ pc' = [pc EXCEPT ![n] = "scan"]
      BY Zenon, <1>5, <2>3 DEF List, Goto, Forget
    <3> QED BY <1>0, <2>0, <3>1
  <2> QED BY Zenon, <2>2, <2>3
<1>6. CASE Import(n)
  <2>1. next[n] + 1 \in 0 .. Cardinality(Cases) /\ next[n] + 1 <= upto[n]
    BY <1>0, <1>6 DEF Import
  <2>2. /\ next' = [next EXCEPT ![n] = next[n] + 1]
        /\ UNCHANGED <<min_accept, pc, todo, entries, synced, party, upto>>
    BY Zenon, <1>6 DEF Import
  <2> QED BY Zenon, <2>1, <2>2
<1>7. CASE Imported(n)
  <2>1. party[n] \in Nodes /\ next[n] \in 0 .. Cardinality(Cases)
    BY Zenon
  <2>2. min_accept' \in [Nodes -> [Nodes -> 0 .. Cardinality(Cases)]]
    BY Zenon, <1>7, <2>1 DEF Imported, Accepted
  <2>3. /\ pc' = [pc EXCEPT ![n] = "scan"]
        /\ party' = [party EXCEPT ![n] = n]
        /\ upto' = [upto EXCEPT ![n] = 0] /\ next' = [next EXCEPT ![n] = 0]
        /\ UNCHANGED <<todo, entries, synced>>
    BY Zenon, <1>7 DEF Imported, Goto, Forget
  <2> QED BY <1>0, <2>2, <2>3
<1>8. CASE EndSync(n)
  BY Zenon, <1>8 DEF EndSync, Goto
<1>9. CASE Stop(n) \/ Crash(n)
  <2>1. /\ pc' = [pc EXCEPT ![n] = "fuzz"]
        /\ party' = [party EXCEPT ![n] = n]
        /\ upto' = [upto EXCEPT ![n] = 0] /\ next' = [next EXCEPT ![n] = 0]
        /\ entries' = [entries EXCEPT ![n] = FALSE]
        /\ synced' = [synced EXCEPT ![n] = FALSE]
        /\ todo' = [todo EXCEPT ![n] = {}]
        /\ UNCHANGED min_accept
    BY Zenon, <1>9 DEF Stop, Crash, Exit, Goto, Forget
  <2> QED BY <1>0, <2>1
<1>10. CASE StartOver(n)
  BY <1>0, <1>10 DEF StartOver
<1> QED BY Zenon, <1>1, <1>2, <1>3, <1>4, <1>5, <1>6, <1>7, <1>8, <1>9, <1>10 DEF Sync

-----------------------------------------------------------------------------
(* The theorems                                                             *)

\* sync_fuzzers starts with empty queues and with the files of the nodes that
\* were started as main nodes.
LEMMA InitIInv == Init => IInv
<1> SUFFICES ASSUME Init PROVE IInv
  BY Zenon
<1>1. Cardinality(Cases) \in Nat
  BY Zenon, CasesAssumption, FS_CardinalityType
<1>2. TypeOK
  BY <1>1, MainsAssumption DEF Init, TypeOK
<1>3. Learned
  BY DEF Init, Learned
<1>4. NoEcho
  BY DEF Init, NoEcho, IsInjective
<1>5. Listed
  BY Zenon DEF Init, Listed
<1>6. MainIsSeen
  BY Zenon DEF Init, MainIsSeen
<1> QED BY Zenon, <1>2, <1>3, <1>4, <1>5, <1>6 DEF IInv

\* Every step of a node keeps the invariant.
LEMMA NextIInv == IInv /\ [Next]_vars => IInv'
<1> SUFFICES ASSUME IInv, [Next]_vars PROVE IInv'
  BY Zenon
<1>1. CASE UNCHANGED vars
  BY Zenon, <1>1 DEF vars, IInv, TypeOK, Learned, NoEcho, Listed, MainIsSeen
<1>2. ASSUME NEW n \in Nodes, Find(n) \/ Sync(n) \/ Stop(n) \/ StartOver(n) \/ Crash(n)
      PROVE  IInv'
  <2>1. TypeOK /\ Learned /\ NoEcho /\ Listed /\ MainIsSeen
    BY Zenon DEF IInv
  <2>2. /\ queue' \in [Nodes -> Seq(Cases)] /\ seen' \in [Nodes -> SUBSET Cases]
        /\ Learned' /\ NoEcho'
    BY Zenon, <1>2, <2>1, LearnedStep
  <2>3. /\ up' \in SUBSET Nodes /\ flag' \in SUBSET Nodes /\ replaced' \in SUBSET Nodes
        /\ is_main_node' \in [Nodes -> BOOLEAN]
        /\ MainIsSeen'
    BY Zenon, <1>2, <2>1, MainStep
  <2>4. /\ min_accept' \in [Nodes -> [Nodes -> 0 .. Cardinality(Cases)]]
        /\ pc' \in [Nodes -> {"fuzz", "scan", "downgrade", "list", "import"}]
        /\ todo' \in [Nodes -> SUBSET Nodes]
        /\ entries' \in [Nodes -> BOOLEAN] /\ synced' \in [Nodes -> BOOLEAN]
        /\ party' \in [Nodes -> Nodes]
        /\ upto' \in [Nodes -> Nat] /\ next' \in [Nodes -> 0 .. Cardinality(Cases)]
        /\ Listed'
    BY Zenon, <1>2, <2>1, NumbersStep
  <2> QED BY Zenon, <2>2, <2>3, <2>4 DEF IInv, TypeOK
<1> QED BY Zenon, <1>1, <1>2 DEF Next

\* Whatever the nodes do, the invariant holds.
LEMMA Invariance == Spec => []IInv
<1> QED BY InitIInv, NextIInv, PTL DEF Spec

\* Every variable of sync_fuzzers holds a value of its kind, and the numbers
\* kept in .synced/ are those of files there can be.
THEOREM TypeCorrect == Spec => []TypeOK
<1>1. IInv => TypeOK
  BY Zenon DEF IInv
<1> QED BY <1>1, Invariance, PTL

\* A node that runs as main node has its is_main_node file, through elections,
\* demotions, stops, kills and restarts.
THEOREM MainIsSeenHolds == Spec => []MainIsSeen
<1>1. IInv => MainIsSeen
  BY Zenon DEF IInv
<1> QED BY <1>1, Invariance, PTL

\* A node's step leaves the locals and the numbers of the others alone, and
\* only importing takes it to a file.
LEMMA OwnStep ==
  ASSUME TypeOK, NEW n \in Nodes, Find(n) \/ Sync(n) \/ Crash(n)
  PROVE  /\ \A q \in Nodes : q # n =>
                /\ pc'[q] = pc[q] /\ party'[q] = party[q]
                /\ upto'[q] = upto[q] /\ next'[q] = next[q]
                /\ min_accept'[q] = min_accept[q]
         /\ Import(n) \/ List(n) \/ pc'[n] # "import"
         /\ Imported(n) \/ min_accept' = min_accept
<1> USE DEF TypeOK
<1>1. CASE Find(n)
  BY Zenon, <1>1 DEF Find
<1>2. CASE StartSync(n)
  BY Zenon, <1>2 DEF StartSync, Goto
<1>3. CASE NextEntry(n)
  <2>1. UNCHANGED <<upto, next, min_accept>>
    BY Zenon, <1>3 DEF NextEntry
  <2>2. pc[n] = "scan" /\ \/ UNCHANGED <<pc, party>>
                          \/ \E p \in todo[n], where \in {"downgrade", "list"} :
                               /\ party' = [party EXCEPT ![n] = p]
                               /\ pc' = [pc EXCEPT ![n] = where]
    BY Zenon, <1>3 DEF NextEntry, Goto
  <2>3. /\ pc'[n] # "import"
        /\ \A q \in Nodes : q # n => pc'[q] = pc[q] /\ party'[q] = party[q]
    BY Zenon, <2>2
  <2> QED BY Zenon, <2>1, <2>3
<1>4. CASE Downgrade(n)
  BY Zenon, <1>4 DEF Downgrade, Goto
<1>5. CASE List(n)
  <2>1. min_accept' = min_accept
    BY Zenon, <1>5 DEF List
  <2>2. \A q \in Nodes : q # n => /\ pc'[q] = pc[q] /\ party'[q] = party[q]
                                 /\ upto'[q] = upto[q] /\ next'[q] = next[q]
    BY <1>5 DEF List, Goto, Forget
  <2> QED BY Zenon, <1>5, <2>1, <2>2
<1>6. CASE Import(n)
  <2>1. /\ next' = [next EXCEPT ![n] = @ + 1]
        /\ UNCHANGED <<min_accept, pc, party, upto>>
    BY Zenon, <1>6 DEF Import
  <2> QED BY Zenon, <1>6, <2>1
<1>7. CASE Imported(n)
  BY Zenon, <1>7 DEF Imported, Goto, Forget
<1>8. CASE EndSync(n)
  BY Zenon, <1>8 DEF EndSync, Goto
<1>9. CASE Crash(n)
  BY <1>9 DEF Crash, Exit, Goto, Forget
<1> QED BY Zenon, <1>1, <1>2, <1>3, <1>4, <1>5, <1>6, <1>7, <1>8, <1>9 DEF Sync

\* Where no node is started over, a step keeps the files that were listed and
\* those that were run.
LEMMA HonestStep ==
  ASSUME Replaced = {}
  PROVE  IInv /\ Ran /\ NothingSkipped /\ [Next]_vars => Ran' /\ NothingSkipped'
<1> SUFFICES ASSUME IInv, Ran, NothingSkipped, [Next]_vars PROVE Ran' /\ NothingSkipped'
  BY Zenon
<1>1. CASE UNCHANGED vars
  BY Zenon, <1>1 DEF vars, Ran, NothingSkipped
<1>2. ASSUME NEW n \in Nodes, Find(n) \/ Sync(n) \/ Stop(n) \/ StartOver(n) \/ Crash(n)
      PROVE  Ran' /\ NothingSkipped'
  <2>1. TypeOK /\ Learned /\ NoEcho /\ Listed /\ TypeOK'
    BY Zenon, NextIInv DEF IInv
  <2>queues. \A p \in Nodes : /\ queue[p] \in Seq(Cases)
                              /\ Len(queue[p]) \in Nat /\ Len(queue'[p]) \in Nat
    <3>1. queue \in [Nodes -> Seq(Cases)] /\ queue' \in [Nodes -> Seq(Cases)]
      BY Zenon, <2>1 DEF TypeOK
    <3> QED BY <3>1
  <2>locals. \A q \in Nodes : /\ party[q] \in Nodes /\ upto[q] \in Nat /\ next[q] \in Nat
                              /\ \A p \in Nodes : min_accept[q][p] \in Nat
    <3>1. TypeOK => /\ party \in [Nodes -> Nodes] /\ upto \in [Nodes -> Nat]
                    /\ next \in [Nodes -> 0 .. Cardinality(Cases)]
                    /\ min_accept \in [Nodes -> [Nodes -> 0 .. Cardinality(Cases)]]
      BY Zenon DEF TypeOK
    <3>2. 0 .. Cardinality(Cases) \subseteq Nat
      BY CasesAssumption, FS_CardinalityType
    <3> QED BY Zenon, <2>1, <3>1, <3>2
  <2>2. ~StartOver(n) /\ ~Stop(n)
    BY Zenon DEF StartOver, Stop
  <2>3. Grows
    BY Zenon, <1>2, <2>1, <2>2, LearnedStep
  <2>4. \A p, q \in Nodes, k \in Nat : \A i \in 1 .. k :
           k <= Len(queue[p]) /\ queue[p][i] \in seen[q]
           => k <= Len(queue'[p]) /\ queue'[p][i] \in seen'[q]
    <3> SUFFICES ASSUME NEW p \in Nodes, NEW q \in Nodes, NEW k \in Nat, NEW i \in 1 .. k,
                        k <= Len(queue[p]), queue[p][i] \in seen[q]
                 PROVE  k <= Len(queue'[p]) /\ queue'[p][i] \in seen'[q]
      BY Zenon
    <3>1. Len(queue[p]) \in Nat /\ Len(queue'[p]) \in Nat
      BY Zenon, <2>queues
    <3>2. i \in 1 .. Len(queue[p])
      BY <3>1
    <3> QED BY <2>3, <3>1, <3>2 DEF Grows
  <2>5. ASSUME NEW q \in Nodes, pc'[q] = "import"
        PROVE  /\ upto'[q] <= Len(queue'[party'[q]])
               /\ \A i \in 1 .. next'[q] : queue'[party'[q]][i] \in seen'[q]
    <3>0. /\ party[q] \in Nodes /\ Len(queue[party[q]]) \in Nat
          /\ Len(queue'[party[q]]) \in Nat
          /\ upto[q] \in Nat /\ next[q] \in Nat
          /\ Len(queue[party[q]]) <= Len(queue'[party[q]])
      BY Zenon, <2>queues, <2>locals, <2>3 DEF Grows
    <3>1. CASE q # n
      <4>1. /\ pc[q] = "import" /\ party'[q] = party[q]
            /\ upto'[q] = upto[q] /\ next'[q] = next[q]
        BY Zenon, <1>2, <2>1, <2>2, <2>5, <3>1, OwnStep
      <4>2. /\ next[q] <= upto[q] /\ upto[q] <= Len(queue[party[q]])
            /\ \A i \in 1 .. next[q] : queue[party[q]][i] \in seen[q]
        BY Zenon, <2>1, <4>1 DEF Ran, Listed
      <4>3. next[q] <= Len(queue[party[q]]) /\ upto[q] <= Len(queue'[party[q]])
        BY <3>0, <4>2
      <4> QED BY Zenon, <2>4, <3>0, <4>1, <4>2, <4>3
    <3>2. CASE q = n /\ List(n)
      <4>1. /\ min_accept[n][party[n]] < Len(queue[party[n]])
            /\ upto'[n] = Len(queue[party[n]]) /\ next'[n] = min_accept[n][party[n]]
            /\ party'[n] = party[n] /\ queue' = queue /\ seen' = seen
        BY <2>1, <2>5, <3>2 DEF List, Goto, TypeOK
      <4>2. \A i \in 1 .. min_accept[n][party[n]] : queue[party[n]][i] \in seen[n]
        BY Zenon, <3>0, <3>2 DEF NothingSkipped
      <4> QED BY Zenon, <3>0, <3>2, <4>1, <4>2
    <3>3. CASE q = n /\ Import(n)
      <4>1. /\ pc[n] = "import" /\ next[n] < upto[n] /\ next'[n] = next[n] + 1
            /\ upto'[n] = upto[n] /\ party'[n] = party[n]
        BY Zenon, <2>1, <3>3 DEF Import, TypeOK
      <4>2. /\ upto[n] <= Len(queue[party[n]])
            /\ \A i \in 1 .. next[n] : queue[party[n]][i] \in seen[n]
        BY Zenon, <4>1 DEF Ran
      <4>3. next[n] < Len(queue[party[n]]) /\ upto[n] <= Len(queue'[party[n]])
        <5>1. q = n
          BY Zenon, <3>3
        <5>2. next[n] < upto[n] /\ upto[n] <= Len(queue[party[n]])
          BY Zenon, <4>1, <4>2
        <5> QED BY <3>0, <5>1, <5>2
      <4>4. Save(n, queue[party[n]][next[n] + 1])
        BY Zenon, <3>3, <4>3 DEF Import
      <4>5. next[n] + 1 \in 1 .. Len(queue[party[n]])
        <5>1. q = n
          BY Zenon, <3>3
        <5> QED BY <3>0, <4>3, <5>1
      <4>6. queue[party[n]][next[n] + 1] \in Cases
        BY <2>queues, <3>0, <3>3, <4>5
      <4>7. queue[party[n]][next[n] + 1] \in seen'[n]
        BY Zenon, <2>1, <4>4, <4>6, SaveKeeps
      <4>8. queue'[party[n]][next[n] + 1] \in seen'[n]
        BY Zenon, <2>3, <3>0, <3>3, <4>5, <4>7 DEF Grows
      <4>9. \A i \in 1 .. next[n] : queue'[party[n]][i] \in seen'[n]
        BY SMTT(20), <2>4, <3>0, <3>3, <4>2, <4>3
      <4>10. \A i \in 1 .. next[n] + 1 : i \in 1 .. next[n] \/ i = next[n] + 1
        BY <3>0, <3>3
      <4> QED BY Zenon, <3>3, <4>1, <4>3, <4>8, <4>9, <4>10
    <3> QED BY Zenon, <1>2, <2>1, <2>2, <2>5, <3>1, <3>2, <3>3, OwnStep
  <2>6. Ran'
    BY Zenon, <2>5 DEF Ran
  <2>7. ASSUME NEW q \in Nodes, NEW p \in Nodes, NEW i \in 1 .. min_accept'[q][p]
        PROVE  i <= Len(queue'[p]) /\ queue'[p][i] \in seen'[q]
    <3>0. /\ min_accept[q][p] \in Nat /\ party[q] \in Nodes /\ next[q] \in Nat
          /\ Len(queue[p]) \in Nat /\ upto[q] \in Nat
      BY Zenon, <2>queues, <2>locals
    <3>1. CASE min_accept'[q][p] = min_accept[q][p]
      <4>1. i \in Nat /\ i \in 1 .. i /\ i <= Len(queue[p]) /\ queue[p][i] \in seen[q]
        BY <3>0, <3>1 DEF NothingSkipped
      <4> QED BY Zenon, <2>4, <4>1
    <3>2. CASE Imported(n) /\ min_accept'[q][p] # min_accept[q][p]
      <4>1. q = n /\ p = party[n] /\ min_accept'[q][p] = next[n] /\ pc[n] = "import"
        BY <2>1, <3>2 DEF Imported, Accepted, TypeOK
      <4>2. /\ next[n] <= upto[n] /\ upto[n] <= Len(queue[party[n]])
            /\ \A j \in 1 .. next[n] : queue[party[n]][j] \in seen[n]
        BY Zenon, <2>1, <4>1 DEF Ran, Listed
      <4>3. i \in Nat /\ i \in 1 .. i /\ i <= Len(queue[p]) /\ queue[p][i] \in seen[q]
        BY <3>0, <4>1, <4>2
      <4> QED BY Zenon, <2>4, <4>3
    <3> QED BY Zenon, <1>2, <2>1, <2>2, <3>1, <3>2, OwnStep
  <2>8. NothingSkipped'
    BY Zenon, <2>7 DEF NothingSkipped
  <2> QED BY Zenon, <2>6, <2>8
<1> QED BY Zenon, <1>1, <1>2 DEF Next

\* Where no node is started over in a new directory, the number that
\* sync_fuzzers writes to .synced/ is honest: every file below it was run,
\* however the other node's queue grew meanwhile and whoever was killed.
THEOREM NothingSkippedHolds ==
  ASSUME Replaced = {} PROVE Spec => []NothingSkipped
<1>1. Init => Ran /\ NothingSkipped
  BY DEF Init, Ran, NothingSkipped
<1>2. IInv /\ Ran /\ NothingSkipped /\ [Next]_vars => Ran' /\ NothingSkipped'
  BY Zenon, HonestStep
<1> QED BY <1>1, <1>2, Invariance, PTL DEF Spec
=============================================================================
