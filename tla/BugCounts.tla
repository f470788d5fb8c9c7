------------------------------ MODULE BugCounts ------------------------------
(***************************************************************************)
(* What the canary storage promises to the users of magma_log and of the   *)
(* monitor: a counter per bug name, whatever the number of names, a        *)
(* snapshot of all counters that is renewed by the first call after it was *)
(* read, and a report that is one such snapshot.                           *)
(***************************************************************************)
EXTENDS Naturals

CONSTANT Names

VARIABLES
  calls,     \* number of calls of magma_log so far
  faulty,    \* 1 once a bug was triggered in the running process, 0 before
  counted,   \* per name, how often it was reached and triggered
  snapshot,  \* what the next poll reports
  taken,     \* was the snapshot reported already?
  report     \* what the monitor reported last

vars == <<calls, faulty, counted, snapshot, taken, report>>

Zero == [n \in Names |-> [reached |-> 0, triggered |-> 0]]

Init ==
  /\ calls = 0
  /\ faulty = 0
  /\ counted = Zero
  /\ snapshot = Zero
  /\ taken = FALSE
  /\ report = Zero

(* One call of magma_log.  Only what happens up to and including the first *)
(* trigger of a process counts.                                            *)
Log(n, t) ==
  /\ calls' = calls + 1
  /\ faulty' = IF t = 1 THEN 1 ELSE faulty
  /\ counted' = IF faulty = 1 THEN counted
                ELSE [counted EXCEPT ![n] = [reached   |-> @.reached + 1,
                                             triggered |-> @.triggered + t]]
  /\ snapshot' = IF taken THEN counted' ELSE snapshot
  /\ taken' = FALSE
  /\ UNCHANGED report

(* Another process takes over. *)
Respawn ==
  /\ faulty' = 0
  /\ UNCHANGED <<calls, counted, snapshot, taken, report>>

(* monitor --fetch file *)
Poll ==
  /\ ~taken
  /\ report' = snapshot
  /\ taken' = TRUE
  /\ UNCHANGED <<calls, faulty, counted, snapshot>>

(* monitor --fetch watch *)
Watch ==
  /\ report' = counted
  /\ UNCHANGED <<calls, faulty, counted, snapshot, taken>>

Next ==
  \/ \E n \in Names, t \in {0, 1} : Log(n, t)
  \/ Respawn
  \/ Poll
  \/ Watch

Spec == Init /\ [][Next]_vars
==============================================================================
