------------------------ MODULE MCSaveIfInteresting ------------------------
(***************************************************************************)
(* SaveIfInteresting for TLC: two ways to run afl-fuzz in which the runs   *)
(* of a calibration may time out or crash (the constants of the            *)
(* configuration) and one crash is kept, and eight where a calibration     *)
(* ends as the find did and one hang is kept.                              *)
(***************************************************************************)
EXTENDS SaveIfInteresting

mc_bytes  == {1, 2}

(* A path with one hit of the first byte, one with more hits (of another   *)
(* class), and one that goes on to the second.                             *)
mc_traces == {<<1, 0>>, <<9, 0>>, <<1, 40>>}

O(crash_mode, fast, keep, ignore, generous) ==
  [crash_mode |-> crash_mode, fast |-> fast, keep |-> keep, ignore |-> ignore,
   generous |-> generous]

mc_flaky   == {O("none", TRUE, FALSE, FALSE, FALSE), O("none", FALSE, TRUE, FALSE, TRUE)}

mc_all ==
  {O("none", TRUE, FALSE, FALSE, FALSE), O("none", FALSE, FALSE, FALSE, FALSE),
   O("none", FALSE, FALSE, TRUE, FALSE), O("none", TRUE, FALSE, FALSE, TRUE),
   O("none", TRUE, TRUE, FALSE, FALSE), O("none", FALSE, TRUE, FALSE, FALSE),
   O("crash", FALSE, FALSE, FALSE, FALSE), O("crash", TRUE, TRUE, FALSE, FALSE)}

VARIABLE reliable

mc_vars == <<reliable, vars>>

Reliable == INSTANCE SaveIfInteresting WITH
  Options <- mc_all, CalFaults <- FALSE, KEEP_UNIQUE_HANG <- 1, KEEP_UNIQUE_CRASH <- 2

mc_Init == (reliable = FALSE /\ Init) \/ (reliable = TRUE /\ Reliable!Init)

mc_Next ==
  \/ ~reliable /\ Next /\ UNCHANGED reliable
  \/ reliable /\ Reliable!Next /\ UNCHANGED reliable

mc_Spec == mc_Init /\ [][mc_Next]_mc_vars

(* Every crash is kept (crashes/ has "unique test cases that cause the     *)
(* tested program to receive a fatal signal"): when save_if_interesting is *)
(* through, the path of every run that crashed while there was room is     *)
(* among those of the saved ones.  Not meant are a run whose entry the     *)
(* user skips or stops, which is not looked at; a run of a calibration,    *)
(* which is not saved; and -C, under which crashes go to the queue.  And a *)
(* crash's bits are only taken out of the map of crashes when the crash is *)
(* saved.                                                                  *)
CrashesKept == CrashesWitnessed /\ (reliable => Reliable!EveryCrash)
==============================================================================
