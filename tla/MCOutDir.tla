------------------------------ MODULE MCOutDir ------------------------------
(***************************************************************************)
(* OutDir for TLC: processes that resume by themselves and die in any step *)
(* (the constants of the configuration), and processes started with -i in  *)
(* and with -i -, which find crashing inputs.                              *)
(***************************************************************************)
EXTENDS OutDir

CONSTANTS a, c, x

mc_seed == <<a>>

VARIABLE by_hand

mc_vars == <<by_hand, vars>>

ByHand == INSTANCE OutDir WITH
  Modes <- {"fresh", "resume"}, Finds <- {}, Crashers <- {x},
  CrashIn <- {"marks", "link", "running"}, MaxCrashes <- 1, MaxNow <- 1

mc_Init ==
  \/ by_hand = FALSE /\ Init
  \/ by_hand = TRUE /\ ByHand!Init

Auto(A) == ~by_hand /\ A /\ UNCHANGED by_hand

mc_Next == Auto(Next) \/ (by_hand /\ ByHand!Next /\ UNCHANGED by_hand)

\* Processes run, and who wants results starts them.
mc_Spec ==
  /\ mc_Init /\ [][mc_Next]_mc_vars
  /\ \A p \in Fuzzer : WF_mc_vars(Auto(Start(p))) /\ WF_mc_vars(Auto(Setup(p)))

\* No test case of the directory is lost: while nobody fuzzes, a file of queue/
\* or of _resume/ has it, whatever died in whatever step before, and a session
\* that has resumed has all of them in its queue, whose files are those of its
\* queue_buf and no others.  The one exception is a process that dies while
\* nuke_resume_dir deletes _resume/: what it had deleted may be lost, no more.
NothingLost == QueueIsList /\ (~by_hand => Found)

\* "We don't want to repeat deterministic fuzzing when resuming aborted scans":
\* over any number of resumes, in which files are renumbered, a file is marked
\* if and only if its test case went through the deterministic stages, since the
\* last process that died in nuke_resume_dir, which deletes the marks first.
MarksExact == ~by_hand => Marked

\* Whoever starts afl-fuzz again with AFL_AUTORESUME on a directory with test
\* cases in it gets to fuzz again, however the last one ended, unless it was by a
\* death between the truncation of fuzzer_stats and its writing.
FuzzesAgain ==
  (~by_hand /\ saved # {}) ~> (StatsTorn \/ \E p \in Fuzzer : pc[p] = "running")

-----------------------------------------------------------------------------
\* What the repository's words promise and the code does not keep; README.md
\* says in which situation.

\* "If _resume/ already exists, the current queue/ may be incomplete due to an
\* earlier abort, so we want to use the old _resume/ dir instead": whichever is
\* used, no test case is lost.
AlwaysFound == ~by_hand => saved \subseteq Contents(queue) \cup Contents(resume)

\* "Setting AFL_AUTORESUME will resume a fuzz run (same as providing -i -) for an
\* existing out folder": however the last run ended.
AlwaysFuzzesAgain ==
  (~by_hand /\ saved # {}) ~> \E p \in Fuzzer : pc[p] = "running"
=============================================================================
