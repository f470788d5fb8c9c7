----------------------------- MODULE RunTarget -----------------------------
(***************************************************************************)
(* What afl_fsrv_run_target promises its callers: "Execute target          *)
(* application, monitoring for timeouts.  Return status information."  One  *)
(* run is asked for at a time, every request gets one answer, and an answer *)
(* other than a timeout is about the very test case that was asked for.     *)
(***************************************************************************)
EXTENDS Naturals

VARIABLES
  phase,    \* "idle", "running" (a caller waits) or "over" (afl-fuzz gave up)
  asked,    \* number of the test case run last
  answer,   \* [run, res]: which test case the last answer is about, and it
  stopped   \* the user asked afl-fuzz to stop; answers no longer matter

vars == <<phase, asked, answer, stopped>>

Init ==
  /\ phase = "idle"
  /\ asked = 0
  /\ answer = [run |-> 0, res |-> "OK"]
  /\ stopped = FALSE

Ask ==
  /\ phase = "idle"
  /\ phase' = "running"
  /\ asked' = asked + 1
  /\ UNCHANGED <<answer, stopped>>

Answer ==
  /\ phase = "running"
  /\ phase' = "idle"
  /\ answer' \in [run : 0 .. asked, res : {"OK", "CRASH", "TMOUT"}]
  /\ stopped \/ answer'.res = "TMOUT" \/ answer'.run = asked
  /\ UNCHANGED <<asked, stopped>>

GiveUp ==
  /\ phase # "over"
  /\ phase' = "over"
  /\ UNCHANGED <<asked, answer, stopped>>

Interrupt ==
  /\ ~stopped
  /\ stopped' = TRUE
  /\ UNCHANGED <<phase, asked, answer>>

Next == Ask \/ Answer \/ GiveUp \/ Interrupt

Safety == Init /\ [][Next]_vars
Spec   == Safety /\ WF_vars(phase = "running" /\ (Answer \/ GiveUp))
============================================================================
