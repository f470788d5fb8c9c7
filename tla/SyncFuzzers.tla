---------------------------- MODULE SyncFuzzers ----------------------------
(***************************************************************************)
(* sync_fuzzers (AFLplusplus/src/afl-fuzz-run.c): afl-fuzz instances that   *)
(* share a sync directory take each other's queue entries.  A secondary    *)
(* node takes from the main node only, and makes itself a temporary main   *)
(* node when it finds none; all that the nodes know of each other is the    *)
(* files in the directory.                                                 *)
(*                                                                         *)
(* A test case stands for the coverage it has; it is interesting to a node *)
(* that has not seen it.  queue[n][i + 1] is the file id:i of node n.       *)
(***************************************************************************)
EXTENDS Naturals, Sequences, FiniteSets, Functions

CONSTANTS
  Nodes,      \* the instances, each with a directory
  Mains,      \* those started with -M, the others are secondary nodes
  Cases,      \* the test cases there are to find
  Crashes,    \* nodes that may be killed
  Replaced    \* nodes that may be started over in a new directory, once each

ASSUME MainsAssumption == Mains \subseteq Nodes
ASSUME ReplacedAssumption == Replaced \subseteq Nodes
ASSUME CrashesAssumption == Crashes \subseteq Nodes
ASSUME CasesAssumption == IsFiniteSet(Cases)

VARIABLES
  up,             \* the nodes that run
  is_main_node,   \* their flag, and
  flag,           \* whose is_main_node file there is
  queue,          \* queue/
  seen,           \* virgin_bits: what is no longer interesting
  min_accept,     \* .synced/: how far each node is with each other
  pc, todo,       \* where a node is in sync_fuzzers; directories to come
  entries, synced, \* its locals: are there others; did it sync with one
  party, upto, next, \* the node it syncs with, namelist's end, next_min_accept
  replaced

known == <<up, flag, replaced>>
vars == <<up, is_main_node, flag, queue, seen, min_accept, pc, todo, entries,
          synced, party, upto, next, replaced>>

Init ==
  /\ up = Nodes
  /\ is_main_node = [n \in Nodes |-> n \in Mains]
  /\ flag = Mains
  /\ queue = [n \in Nodes |-> <<>>]
  /\ seen = [n \in Nodes |-> {}]
  /\ min_accept = [n \in Nodes |-> [p \in Nodes |-> 0]]
  /\ pc = [n \in Nodes |-> "fuzz"]
  /\ todo = [n \in Nodes |-> {}]
  /\ entries = [n \in Nodes |-> FALSE] /\ synced = [n \in Nodes |-> FALSE]
  /\ party = [n \in Nodes |-> n]
  /\ upto = [n \in Nodes |-> 0] /\ next = [n \in Nodes |-> 0]
  /\ replaced = {}

Goto(n, where) == pc' = [pc EXCEPT ![n] = where]

\* The locals of the loop over a directory's files are dead after it.
Forget(n) ==
  /\ party' = [party EXCEPT ![n] = n]
  /\ upto' = [upto EXCEPT ![n] = 0] /\ next' = [next EXCEPT ![n] = 0]

\* save_if_interesting
Save(n, c) ==
  /\ seen' = [seen EXCEPT ![n] = @ \cup {c}]
  /\ queue' = IF c \in seen[n] THEN queue ELSE [queue EXCEPT ![n] = Append(@, c)]

\* Fuzzing, and reading seeds, finds something new.
Find(n) ==
  /\ n \in up /\ pc[n] = "fuzz"
  /\ \E c \in Cases \ seen[n] : Save(n, c)
  /\ UNCHANGED <<known, is_main_node, min_accept, pc, todo, entries, synced, party,
                 upto, next>>

-----------------------------------------------------------------------------
(* sync_fuzzers                                                             *)

\* opendir(sync_dir), "skip ... our own output directory"
StartSync(n) ==
  /\ n \in up /\ pc[n] = "fuzz"
  /\ todo' = [todo EXCEPT ![n] = Nodes \ {n}]
  /\ Goto(n, "scan")
  /\ UNCHANGED <<known, is_main_node, queue, seen, min_accept, entries, synced, party,
                 upto, next>>

\* "secondary nodes only syncs from main, the main node syncs from everyone":
\* access(is_main_node) decides whether to skip p, and whether to step down.
Secondary(n) == n \notin Mains

SkipsAll(n, p) == p \notin flag
Skips(n, p) == Secondary(n) /\ ~is_main_node[n] /\ p \notin flag

NextEntry(n) ==
  /\ n \in up /\ pc[n] = "scan"
  /\ \E p \in todo[n] :
       /\ todo' = [todo EXCEPT ![n] = @ \ {p}]
       /\ entries' = [entries EXCEPT ![n] = TRUE]
       /\ IF Skips(n, p)
          THEN UNCHANGED <<pc, party, synced>>
          ELSE /\ party' = [party EXCEPT ![n] = p]
               /\ synced' = [synced EXCEPT ![n] = TRUE]
               /\ Goto(n, IF Secondary(n) /\ is_main_node[n] /\ p \in flag
                          THEN "downgrade" ELSE "list")
  /\ UNCHANGED <<known, is_main_node, queue, seen, min_accept, upto, next>>

\* "there is another main node? downgrade."
Demoted(n) == [is_main_node EXCEPT ![n] = FALSE]

Downgrade(n) ==
  /\ n \in up /\ pc[n] = "downgrade"
  /\ is_main_node' = Demoted(n)
  /\ flag' = flag \ {n}
  /\ Goto(n, "list")
  /\ UNCHANGED <<up, queue, seen, min_accept, todo, entries, synced, party, upto,
                 next, replaced>>

\* scandir(queue) and the search for id:min_accept: from there on, all files
\* in the order of their numbers; if there is no such file, nothing.
List(n) ==
  /\ n \in up /\ pc[n] = "list"
  /\ LET p == party[n]
     IN IF min_accept[n][p] < Len(queue[p])
        THEN /\ upto' = [upto EXCEPT ![n] = Len(queue[p])]
             /\ next' = [next EXCEPT ![n] = min_accept[n][p]]
             /\ Goto(n, "import")
             /\ UNCHANGED party
        ELSE Goto(n, "scan") /\ Forget(n)
  /\ UNCHANGED <<known, is_main_node, queue, seen, min_accept, todo, entries, synced>>

\* One file: the other node may have taken it away meanwhile.
Import(n) ==
  /\ n \in up /\ pc[n] = "import"
  /\ next[n] < upto[n]
  /\ next' = [next EXCEPT ![n] = @ + 1]
  /\ IF next[n] < Len(queue[party[n]])
     THEN Save(n, queue[party[n]][next[n] + 1])
     ELSE UNCHANGED <<queue, seen>>
  /\ UNCHANGED <<known, is_main_node, min_accept, pc, todo, entries, synced, party,
                 upto>>

\* ck_write(id_fd, &next_min_accept)
AcceptedPlusOne(n) == next[n] + 1
Accepted(n) == next[n]

Imported(n) ==
  /\ n \in up /\ pc[n] = "import"
  /\ next[n] = upto[n]
  /\ min_accept' = [min_accept EXCEPT ![n][party[n]] = Accepted(n)]
  /\ Goto(n, "scan") /\ Forget(n)
  /\ UNCHANGED <<known, is_main_node, queue, seen, todo, entries, synced>>

\* "If we are a secondary and no main was found to sync then become the main"
ElectsNever(n) == FALSE
Elects(n) == ~synced[n] /\ entries[n] /\ Secondary(n)

EndSync(n) ==
  /\ n \in up /\ pc[n] = "scan" /\ todo[n] = {}
  /\ IF Elects(n)
     THEN /\ is_main_node' = [is_main_node EXCEPT ![n] = TRUE]
          /\ flag' = flag \cup {n}
     ELSE UNCHANGED <<is_main_node, flag>>
  /\ entries' = [entries EXCEPT ![n] = FALSE]
  /\ synced' = [synced EXCEPT ![n] = FALSE]
  /\ Goto(n, "fuzz")
  /\ UNCHANGED <<up, queue, seen, min_accept, todo, party, upto, next, replaced>>

-----------------------------------------------------------------------------
(* The end of a node                                                        *)

\* What a process has in memory is gone with it.
Exit(n) ==
  /\ up' = up \ {n}
  /\ Goto(n, "fuzz") /\ Forget(n)
  /\ entries' = [entries EXCEPT ![n] = FALSE]
  /\ synced' = [synced EXCEPT ![n] = FALSE]
  /\ todo' = [todo EXCEPT ![n] = {}]

\* The user stops it: no number is recorded if it was importing, the rest of
\* the directory is gone through without effect, and the file that says it is
\* the main node goes.
Stop(n) ==
  /\ n \in up /\ n \in Replaced \ replaced
  /\ flag' = IF is_main_node[n] THEN flag \ {n} ELSE flag
  /\ Exit(n)
  /\ UNCHANGED <<is_main_node, queue, seen, min_accept, replaced>>

\* It is started again with the same name and without resuming: the old
\* queue/ and .synced/ are deleted, an is_main_node file is not, and numbers
\* start from 0.
StartOver(n) ==
  /\ n \in Replaced \ (up \cup replaced)
  /\ up' = up \cup {n}
  /\ replaced' = replaced \cup {n}
  /\ is_main_node' = [is_main_node EXCEPT ![n] = n \in Mains]
  /\ flag' = IF n \in Mains THEN flag \cup {n} ELSE flag
  /\ queue' = [queue EXCEPT ![n] = <<>>]
  /\ seen' = [seen EXCEPT ![n] = {}]
  /\ min_accept' = [min_accept EXCEPT ![n] = [p \in Nodes |-> 0]]
  /\ UNCHANGED <<pc, todo, entries, synced, party, upto, next>>

\* It is killed.
Crash(n) ==
  /\ n \in up \cap Crashes
  /\ Exit(n)
  /\ UNCHANGED <<is_main_node, flag, queue, seen, min_accept, replaced>>

Sync(n) == \/ StartSync(n) \/ NextEntry(n) \/ Downgrade(n) \/ List(n) \/ Import(n)
           \/ Imported(n) \/ EndSync(n)

Next == \E n \in Nodes : Find(n) \/ Sync(n) \/ Stop(n) \/ StartOver(n) \/ Crash(n)

\* A node that runs calls sync_fuzzers again and again and gets on with it.
Spec == Init /\ [][Next]_vars /\ \A n \in Nodes : WF_vars(Sync(n))

-----------------------------------------------------------------------------
\* Every variable holds a value of its C type, and the numbers are those of
\* files there can be.
TypeOK ==
  /\ up \in SUBSET Nodes /\ flag \in SUBSET Nodes /\ replaced \in SUBSET Nodes
  /\ is_main_node \in [Nodes -> BOOLEAN]
  /\ queue \in [Nodes -> Seq(Cases)]
  /\ seen \in [Nodes -> SUBSET Cases]
  /\ min_accept \in [Nodes -> [Nodes -> 0 .. Cardinality(Cases)]]
  /\ pc \in [Nodes -> {"fuzz", "scan", "downgrade", "list", "import"}]
  /\ todo \in [Nodes -> SUBSET Nodes]
  /\ entries \in [Nodes -> BOOLEAN] /\ synced \in [Nodes -> BOOLEAN]
  /\ party \in [Nodes -> Nodes]
  /\ upto \in [Nodes -> Nat] /\ next \in [Nodes -> 0 .. Cardinality(Cases)]

\* The number kept in .synced/ is honest: every file below it was run, however
\* the other node's queue grew meanwhile.
NothingSkipped ==
  \A n, p \in Nodes : \A i \in 1 .. min_accept[n][p] :
    i <= Len(queue[p]) /\ queue[p][i] \in seen[n]

\* A node acts as main node only while the others can see that it does: its
\* flag and its file agree through elections, demotions and restarts.
MainIsSeen == \A n \in up : is_main_node[n] => n \in flag

\* "The main node will pick it up and make it available to the other secondary
\* nodes over time": what one node has found, all learn.
CaseSpreads ==
  \A c \in Cases :
    (\E p \in up : c \in Range(queue[p])) ~> (\A n \in up : c \in seen[n])

\* Whoever stops and in whatever order elections and demotions happen, the nodes
\* that run get a main node, unless one that was killed has left its is_main_node
\* file: only the file is looked at (line 707), and nobody removes it.
MainIsElected ==
  \A n \in Nodes :
    (n \in up) ~> (up \cap flag # {} \/ n \notin up \/ flag \ up # {})

-----------------------------------------------------------------------------
\* What the repository's words promise and the code does not keep; README.md
\* says in which situation.

\* "If no main node is present at a sync one secondary node automatically
\* becomes a temporary main node" (docs/Changelog.md:637): whoever is killed.
AlwaysElected == \A n \in Nodes : (n \in up) ~> (up \cap flag # {} \/ n \notin up)

\* "the first temporary main node running again will demote themselves so this
\* is not an issue": stepping down for another main node leaves one.
AMainRemains == [][flag # {} => flag' # {}]_vars
=============================================================================
