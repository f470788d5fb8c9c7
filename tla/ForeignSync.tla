---------------------------- MODULE ForeignSync ----------------------------
(***************************************************************************)
(* read_foreign_testcases (AFLplusplus/src/afl-fuzz-init.c): afl-fuzz -F    *)
(* looks through the queue directory of another fuzzer at every sync and    *)
(* takes the files that are new.  It remembers no file, only a time.        *)
(***************************************************************************)
EXTENDS Naturals

CONSTANTS
  Files,     \* the files the other fuzzer writes, again and again
  MaxTime    \* how many dates are told apart

MaxTimeAssumption == MaxTime \in Nat \ {0}

VARIABLES
  now,         \* the clock, in the seconds of st_mtime
  st_mtime,    \* when each file was last written, 0 if it was not yet
  mtime,       \* foreign_syncs[iter].mtime
  scanning, nl, mtime_max,   \* in the loop over the directory; its locals
  imports      \* how often it was run since: never, once or (2) again

vars == <<now, st_mtime, mtime, scanning, nl, mtime_max, imports>>

Init ==
  /\ now = 1
  /\ st_mtime = [f \in Files |-> 0]
  /\ mtime = 0 /\ scanning = FALSE /\ nl = {} /\ mtime_max = 0
  /\ imports = [f \in Files |-> 0]

Dates == {mtime, mtime_max} \cup {st_mtime[f] : f \in Files}
Before(t, u) == IF t > u THEN t - 1 ELSE t

\* A second passes.  Dates are only ever compared: at the bound, one that nothing
\* bears is left out, and those after it move up.
Tick ==
  \/ /\ now < MaxTime
     /\ now' = now + 1
     /\ UNCHANGED <<st_mtime, mtime, scanning, nl, mtime_max, imports>>
  \/ /\ now = MaxTime
     /\ \E u \in (1 .. now - 1) \ Dates :
          /\ st_mtime' = [f \in Files |-> Before(st_mtime[f], u)]
          /\ mtime' = Before(mtime, u)
          /\ mtime_max' = Before(mtime_max, u)
     /\ UNCHANGED <<now, scanning, nl, imports>>

\* The other fuzzer writes a file, for the first time or over one that was run,
\* or one with an older date is moved in.
Create ==
  /\ \E f \in Files, t \in 1 .. now :
       /\ st_mtime[f] = 0 \/ imports[f] > 0
       /\ st_mtime' = [st_mtime EXCEPT ![f] = t]
       /\ imports' = [imports EXCEPT ![f] = 0]
  /\ UNCHANGED <<now, mtime, scanning, nl, mtime_max>>

\* scandir; with nothing to see the directory is passed over.
Scan ==
  /\ ~scanning
  /\ nl' = {f \in Files : st_mtime[f] # 0}
  /\ scanning' = (nl' # {})
  /\ mtime_max' = 0
  /\ UNCHANGED <<now, st_mtime, mtime, imports>>

\* "we detect new files by their mtime": run it, save_if_interesting.
IsNew(f) == st_mtime[f] > mtime

ReadFile ==
  /\ scanning
  /\ \E f \in nl :
       /\ nl' = nl \ {f}
       /\ IF IsNew(f)
          THEN /\ imports' = [imports EXCEPT ![f] = IF @ = 2 THEN 2 ELSE @ + 1]
               /\ mtime_max' = IF st_mtime[f] > mtime_max THEN st_mtime[f]
                               ELSE mtime_max
          ELSE UNCHANGED <<imports, mtime_max>>
  /\ UNCHANGED <<now, st_mtime, mtime, scanning>>

\* "afl->foreign_syncs[iter].mtime = mtime_max", which is 0 if no file was new.
NewMtimeKept == IF mtime_max > mtime THEN mtime_max ELSE mtime
NewMtime == mtime_max

EndScan ==
  /\ scanning /\ nl = {}
  /\ scanning' = FALSE
  /\ mtime' = NewMtime
  /\ mtime_max' = 0
  /\ UNCHANGED <<now, st_mtime, nl, imports>>

Sync == Scan \/ ReadFile \/ EndScan
Next == Tick \/ Create \/ Sync

\* The directory is looked at again at every sync.
Spec == Init /\ [][Next]_vars /\ WF_vars(Sync)

-----------------------------------------------------------------------------
\* No file of the directory is newer than what is remembered: the scan forgets it.
FoundNothing == scanning /\ nl = {} /\ mtime_max = 0

\* Every file is run in the end, whatever its date: one that was written in
\* the same second as the newest of an earlier scan, during that scan, or that
\* came with an old date.  It takes a scan that finds nothing new: that there is
\* one again and again is an assumption about the other fuzzer.
EveryFileImported ==
  []<>FoundNothing => \A f \in Files : (st_mtime[f] # 0) ~> (imports[f] > 0)

-----------------------------------------------------------------------------
\* What the repository's words promise and the code does not keep; README.md
\* says in which situation.

\* "we detect new files by their mtime": a file is new once.
NewOnce == \A f \in Files : imports[f] < 2

\* ... and one that is new is detected, however often others are written.
NewIsFound == \A f \in Files : (st_mtime[f] # 0) ~> (imports[f] > 0)
============================================================================
