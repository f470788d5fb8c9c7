------------------------ MODULE CanaryMonitorProofs ------------------------
(***************************************************************************)
(* What CanaryMonitor guarantees for every set of bugs, every number of    *)
(* target processes and every length of a campaign.                        *)
(***************************************************************************)
EXTENDS CanaryMonitor, TLAPS

\* No counter of d is above that of e.
Le(d, e) == \A b \in Bugs : /\ d[b].reached   <= e[b].reached
                            /\ d[b].triggered <= e[b].triggered

\* Only the first poll sees a file that is missing or has no bytes.
Created == /\ file = "absent" => mpc = "sleep"
           /\ file = "empty"  <=> mpc = "truncate"

\* Until the monitor has cleared the file nothing was published or polled.
SetUp ==
  file # "sized" \/ mpc \in {"truncate", "memset"} =>
    ~consumed /\ consumer_buffer = Zero /\ last = Zero /\ published = Zero

\* consumed says who owns consumer_buffer.  The target copies into it only
\* while consumed is true ...
TargetOwns ==
  pc = "copy" => /\ consumed
                 /\ \A b \in copied : consumer_buffer[b] = producer_buffer[b]

\* ... the monitor copies out of it only while consumed is false ...
MonitorOwns ==
  mpc = "copy" => /\ ~consumed
                  /\ \A b \in fetched : data[b] = consumer_buffer[b]

\* ... and while it is false the buffer is what was published.
Handed == ~consumed => consumer_buffer = published

\* A poll lags behind what is published, which lags behind the target.
Lag == Le(last, published) /\ Le(published, producer_buffer)

IInv == TypeOK /\ Created /\ SetUp /\ TargetOwns /\ MonitorOwns /\ Handed /\ Lag

\* The invariant holds before the monitor and the first target run.
LEMMA InitIInv == Init => IInv
<1> SUFFICES ASSUME Init PROVE IInv
  OBVIOUS
<1> USE DEF Init
<1>1. Zero \in Buffer
  BY DEF Zero, Buffer, Canary
<1>2. TypeOK
  BY <1>1 DEF TypeOK, Storage, PCs, MPCs
<1>3. Created /\ SetUp /\ TargetOwns /\ MonitorOwns /\ Handed
  BY DEF Created, SetUp, TargetOwns, MonitorOwns, Handed
<1>4. Lag
  BY DEF Lag, Le, Zero
<1> QED BY <1>2, <1>3, <1>4 DEF IInv

\* The target's increments keep a buffer a buffer ...
LEMMA BumpType ==
  \A d \in Buffer, b \in Bugs, r, t \in Nat : Bump(d, b, r, t) \in Buffer
BY DEF Bump, Buffer, Canary

\* ... and the two increments of magma_log lower no counter.
LEMMA BumpRaises ==
  \A d \in Buffer, b \in Bugs, r, t \in Nat : Le(d, Bump(d, b, r, t))
BY DEF Le, Bump, Buffer, Canary

\* Type correctness, one step per action.
LEMMA TypeStep == TypeOK /\ [Next]_vars => TypeOK'
<1> SUFFICES ASSUME TypeOK, [Next]_vars PROVE TypeOK'
  OBVIOUS
<1> USE DEF TypeOK, Storage, PCs, MPCs, shared, statics, producer, monitor
<1>1. CASE Spawn
  <2>1. spawned' \in Nat
    BY <1>1 DEF Spawn
  <2> QED BY <1>1, <2>1 DEF Spawn
<1>2. CASE Exit
  BY <1>2 DEF Exit
<1>3. ASSUME NEW b \in Bugs, NEW c \in {0, 1}, MagmaLog(b, c) PROVE TypeOK'
  BY <1>3 DEF MagmaLog, Return
<1>4. CASE Reached
  BY <1>4, BumpType DEF Reached
<1>5. CASE Triggered
  BY <1>5, BumpType DEF Triggered
<1>6. CASE CheckConsumed
  BY <1>6 DEF CheckConsumed
<1>7. ASSUME NEW b \in Bugs, CopySlot(b) PROVE TypeOK'
  BY <1>7 DEF CopySlot, Buffer
<1>8. CASE Publish
  BY <1>8 DEF Publish
<1>9. CASE Fault
  BY <1>9 DEF Fault, Return
<1>10. CASE Open
  BY <1>10 DEF Open
<1>11. CASE Truncate
  BY <1>11 DEF Truncate
<1>12. CASE Memset
  BY <1>12 DEF Memset, Buffer, Canary, Zero
<1>13. CASE CheckNew
  BY <1>13 DEF CheckNew
<1>14. ASSUME NEW b \in Bugs, FetchSlot(b) PROVE TypeOK'
  BY <1>14 DEF FetchSlot, Buffer
<1>15. CASE Consume
  BY <1>15 DEF Consume
<1>16. CASE UNCHANGED vars
  BY <1>16 DEF vars
<1> QED
  BY <1>1, <1>2, <1>3, <1>4, <1>5, <1>6, <1>7, <1>8, <1>9, <1>10, <1>11,
     <1>12, <1>13, <1>14, <1>15, <1>16 DEF Next, Target, Poll

\* Le, by which polls are compared, is reflexive on buffers ...
LEMMA LeRefl == \A d \in Buffer : Le(d, d)
BY DEF Le, Buffer, Canary

\* ... and transitive.
LEMMA LeTrans == \A d, e, f \in Buffer : Le(d, e) /\ Le(e, f) => Le(d, f)
BY DEF Le, Buffer, Canary

\* The inductive step.
LEMMA StepIInv == IInv /\ [Next]_vars => IInv'
<1> SUFFICES ASSUME IInv, [Next]_vars PROVE IInv'
  OBVIOUS
<1>t. TypeOK /\ TypeOK'
  BY TypeStep DEF IInv
<1> DEFINE Rest == Created /\ SetUp /\ TargetOwns /\ MonitorOwns /\ Handed /\ Lag
<1> SUFFICES Rest'
  BY <1>t DEF IInv
<1> USE <1>t DEF IInv, shared, statics, producer, monitor
<1> USE DEF Created, SetUp, TargetOwns, MonitorOwns, Handed
<1>1. CASE Spawn
  BY <1>1 DEF Spawn, Lag, Le
<1>2. CASE Exit
  BY <1>2 DEF Exit, Lag, Le
<1>3. ASSUME NEW b \in Bugs, NEW c \in {0, 1}, MagmaLog(b, c) PROVE Rest'
  BY <1>3 DEF MagmaLog, Return, Lag, Le
<1>4. CASE Reached
  <2>1. Le(producer_buffer, producer_buffer')
    BY <1>4, BumpRaises, LeRefl DEF Reached, TypeOK
  <2> QED BY <1>4, <2>1, LeTrans DEF Reached, Lag, TypeOK
<1>5. CASE Triggered
  <2>1. Le(producer_buffer, producer_buffer')
    BY <1>5, BumpRaises DEF Triggered, TypeOK
  <2> QED BY <1>5, <2>1, LeTrans DEF Triggered, Lag, TypeOK
<1>6. CASE CheckConsumed
  BY <1>6 DEF CheckConsumed, Lag, Le
<1>7. ASSUME NEW b \in Bugs, CopySlot(b) PROVE Rest'
  BY <1>7 DEF CopySlot, Lag, Le, TypeOK, Buffer
<1>8. CASE Publish
  <2>1. consumer_buffer = producer_buffer
    BY <1>8 DEF Publish, TypeOK, Buffer
  <2>2. Lag'
    BY <1>8, LeRefl, LeTrans DEF Publish, Lag, TypeOK
  <2> QED BY <1>8, <2>1, <2>2 DEF Publish
<1>9. CASE Fault
  BY <1>9 DEF Fault, Return, Lag, Le
<1>10. CASE Open
  BY <1>10 DEF Open, Lag, Le, TypeOK, Storage
<1>11. CASE Truncate
  BY <1>11 DEF Truncate, Lag, Le
<1>12. CASE Memset
  <2>1. Lag'
    BY <1>12, LeRefl DEF Memset, Lag, TypeOK
  <2> QED BY <1>12, <2>1 DEF Memset
<1>13. CASE CheckNew
  BY <1>13 DEF CheckNew, Lag, Le
<1>14. ASSUME NEW b \in Bugs, FetchSlot(b) PROVE Rest'
  BY <1>14 DEF FetchSlot, Lag, Le, TypeOK, Buffer
<1>15. CASE Consume
  <2>1. data = published
    BY <1>15 DEF Consume, TypeOK, Buffer
  <2>2. Lag'
    BY <1>15, <2>1, LeRefl DEF Consume, Lag, TypeOK
  <2> QED BY <1>15, <2>2 DEF Consume, TypeOK, Storage
<1>16. CASE UNCHANGED vars
  BY <1>16 DEF vars, Lag, Le
<1> QED
  BY <1>1, <1>2, <1>3, <1>4, <1>5, <1>6, <1>7, <1>8, <1>9, <1>10, <1>11,
     <1>12, <1>13, <1>14, <1>15, <1>16 DEF Next, Target, Poll

\* The protocol of canary.c and monitor.c keeps its invariant: at any time the
\* flag consumed tells which side owns consumer_buffer.
THEOREM Invariance == Spec => []IInv
BY InitIInv, StepIInv, PTL DEF Spec

\* Every variable of the shared file, of the target and of the monitor keeps
\* its type.
THEOREM TypeCorrect == Spec => []TypeOK
<1>1. IInv => TypeOK
  BY DEF IInv
<1> QED BY <1>1, Invariance, PTL

\* fetch_file never returns a torn copy: what a successful poll dumps is
\* producer_buffer as it stood when magma_log cleared consumed.
THEOREM NoTornSnapshot == Spec => []SnapshotConsistent
<1>1. IInv => SnapshotConsistent
  BY DEF IInv, TypeOK, MonitorOwns, Handed, SnapshotConsistent, Buffer
<1> QED BY <1>1, Invariance, PTL

\* The counters written by successive polls never go down.
THEOREM PollsNeverGoBack == Spec => PollsMonotone
<1> DEFINE Up == \A b \in Bugs : /\ last[b].reached   <= last'[b].reached
                                 /\ last[b].triggered <= last'[b].triggered
<1>1. IInv /\ [Next]_vars => [Up]_vars
  <2> SUFFICES ASSUME IInv, [Next]_vars PROVE Up
    OBVIOUS
  <2>1. CASE last' = last
    BY <2>1, LeRefl DEF IInv, TypeOK, Le
  <2>2. CASE Consume
    <3>1. data = published
      BY <2>2 DEF Consume, IInv, TypeOK, Buffer, MonitorOwns, Handed
    <3> QED BY <2>2, <3>1 DEF Consume, IInv, Lag, Le
  <2> QED
    BY <2>1, <2>2 DEF Next, Target, Poll, Spawn, Exit, MagmaLog, Reached,
       Triggered, CheckConsumed, CopySlot, Publish, Fault, Open, Truncate,
       Memset, CheckNew, FetchSlot, vars, monitor
<1> QED BY <1>1, Invariance, PTL DEF Spec, PollsMonotone

----------------------------------------------------------------------------
(* Targets that run only once the file is set up.                          *)

Ratio(d) == \A b \in Bugs : d[b].triggered <= d[b].reached

\* reached is ahead of triggered while a call that may count is between its
\* two increments, and no target runs before the file is cleared.
TInv ==
  /\ Ratio(producer_buffer) /\ Ratio(published) /\ Ratio(last)
  /\ pc = "trigger" /\ magma_faulty = 0 =>
       producer_buffer[bug].triggered < producer_buffer[bug].reached
  /\ file # "sized" \/ mpc \in {"truncate", "memset"} => pc = "dead"

\* No bug is reached or triggered at first.
LEMMA InitTInv == Init => TInv
BY DEF Init, TInv, Ratio, Zero

\* magma_log raises reached before triggered, and no memset of the monitor
\* comes in between.
LEMMA StepTInv ==
  ASSUME ~Early PROVE IInv /\ TInv /\ [Next]_vars => TInv'
<1> SUFFICES ASSUME IInv, TInv, [Next]_vars PROVE TInv'
  OBVIOUS
<1>t. TypeOK /\ Created
  BY DEF IInv
<1> USE <1>t DEF TInv, shared, statics, producer, monitor
<1>1. CASE Spawn
  BY <1>1 DEF Spawn, Ratio, TypeOK, Storage, Created
<1>2. CASE Exit
  BY <1>2 DEF Exit, Ratio
<1>3. ASSUME NEW b \in Bugs, NEW c \in {0, 1}, MagmaLog(b, c) PROVE TInv'
  BY <1>3 DEF MagmaLog, Return, Ratio
<1>4. CASE Reached
  <2>1. CASE file # "sized"
    BY <1>4, <2>1 DEF Reached, Ratio
  <2>2. CASE file = "sized"
    <3>1. producer_buffer' = Bump(producer_buffer, bug, 1 - magma_faulty, 0)
      BY <1>4, <2>2 DEF Reached
    <3>2. Ratio(producer_buffer)'
      BY <3>1 DEF Ratio, TypeOK, Bump, Buffer, Canary
    <3>3. magma_faulty = 0 =>
            producer_buffer'[bug].triggered < producer_buffer'[bug].reached
      BY <3>1 DEF Ratio, TypeOK, Bump, Buffer, Canary
    <3> QED BY <1>4, <2>2, <3>2, <3>3 DEF Reached, Ratio
  <2> QED BY <2>1, <2>2
<1>5. CASE Triggered
  BY <1>5 DEF Triggered, Ratio, TypeOK, Bump, Buffer, Canary
<1>6. CASE CheckConsumed
  BY <1>6 DEF CheckConsumed, Ratio
<1>7. ASSUME NEW b \in Bugs, CopySlot(b) PROVE TInv'
  BY <1>7 DEF CopySlot, Ratio
<1>8. CASE Publish
  BY <1>8 DEF Publish, Ratio
<1>9. CASE Fault
  BY <1>9 DEF Fault, Return, Ratio
<1>10. CASE Open
  BY <1>10 DEF Open, Ratio, Created
<1>11. CASE Truncate
  BY <1>11 DEF Truncate, Ratio
<1>12. CASE Memset
  BY <1>12 DEF Memset, Ratio, Zero
<1>13. CASE CheckNew
  BY <1>13 DEF CheckNew, Ratio
<1>14. ASSUME NEW b \in Bugs, FetchSlot(b) PROVE TInv'
  BY <1>14 DEF FetchSlot, Ratio
<1>15. CASE Consume
  <2>1. data = published
    BY <1>15 DEF Consume, IInv, TypeOK, Buffer, MonitorOwns, Handed
  <2> QED BY <1>15, <2>1 DEF Consume, Ratio
<1>16. CASE UNCHANGED vars
  BY <1>16 DEF vars, Ratio
<1> QED
  BY <1>1, <1>2, <1>3, <1>4, <1>5, <1>6, <1>7, <1>8, <1>9, <1>10, <1>11,
     <1>12, <1>13, <1>14, <1>15, <1>16 DEF Next, Target, Poll

\* If the file is set up before the first target runs, no poll ever shows a
\* bug triggered more often than reached, wherever targets are killed.
THEOREM TriggeredBounded ==
  ASSUME ~Early PROVE Spec => []TriggeredLeReached
<1>1. TInv => TriggeredLeReached
  BY DEF TInv, Ratio, TriggeredLeReached
<1>2. Init => TInv
  BY InitTInv
<1>3. IInv /\ TInv /\ [Next]_vars => TInv'
  BY StepTInv
<1> QED BY <1>1, <1>2, <1>3, Invariance, PTL DEF Spec
============================================================================
