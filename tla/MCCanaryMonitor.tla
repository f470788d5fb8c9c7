-------------------------- MODULE MCCanaryMonitor --------------------------
(***************************************************************************)
(* The two models of the bug counters for TLC: how the accesses of one     *)
(* target and the monitor interleave (CanaryMonitor), and which slots the  *)
(* counters are in (CanaryStorage).  In a behaviour one of the two runs,   *)
(* the other stays in its initial state.                                   *)
(***************************************************************************)
EXTENDS CanaryMonitor

CONSTANTS Names, BUFFERLEN, MaxLogs

VARIABLES
  runs,       \* "accesses" or "slots"
  s_fetch, s_slot, s_consumed, s_alive, s_faulty, s_data, s_logs

storage == <<s_fetch, s_slot, s_consumed, s_alive, s_faulty, s_data, s_logs>>
mc_vars == <<runs, vars, storage>>

Slots == INSTANCE CanaryStorage WITH
  fetch <- s_fetch, slot <- s_slot, consumed <- s_consumed, alive <- s_alive,
  magma_faulty <- s_faulty, data <- s_data, logs <- s_logs

ASSUME Slots!StorageAssumption

mc_Init ==
  /\ Init /\ Slots!Init
  /\ \/ runs = "accesses" /\ s_fetch = "file"
     \/ runs = "slots" /\ bug = CHOOSE b \in Bugs : TRUE

Accesses(A) == runs = "accesses" /\ A /\ UNCHANGED <<runs, storage>>

mc_Next ==
  \/ Accesses(Next)
  \/ runs = "slots" /\ Slots!Next /\ UNCHANGED <<runs, vars>>

mc_Spec == mc_Init /\ [][mc_Next]_mc_vars /\ WF_mc_vars(Accesses(Poll))

\* What was made available to the monitor is eventually taken: consumed does
\* not stay false, so magma_log is always allowed to publish again.
EventuallyConsumed == (runs = "accesses" /\ ~consumed) ~> consumed

\* The slots of storage.c implement one counter per bug: magma_log counts for
\* its bug and for no other, and what the monitor prints is a snapshot of all of
\* them, whichever way it fetches it.
CountsEveryBug == Slots!CountsEveryBug
============================================================================
