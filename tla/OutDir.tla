------------------------------- MODULE OutDir -------------------------------
(***************************************************************************)
(* The output directory of afl-fuzz over many sessions: setup_dirs_fds,    *)
(* handle_existing_out_dir, read_testcases, pivot_inputs and               *)
(* nuke_resume_dir of afl-fuzz-init.c, what main does between them, and    *)
(* the files a session writes, with crashes between any two of the steps   *)
(* and with several processes started on the same directory.               *)
(*                                                                         *)
(* A session that resumes moves queue/ to _resume/, links the test cases   *)
(* of _resume/ into a new queue/, and deletes _resume/.                    *)
(***************************************************************************)
EXTENDS Integers, SequencesExt

CONSTANTS Fuzzer,      \* processes
          Modes,       \* how they are started: "fresh" (-i in), "resume" (-i -),
                       \* "auto" (-i in with AFL_AUTORESUME)
          Seeds,       \* the test cases of in/, in the order they are read
          Finds,       \* test cases a session may find
          Crashers,    \* crashing inputs a session may find
          CrashIn,     \* the steps in which a process may die
          MaxCrashes,  \* how often that happens
          MaxNow,      \* how many seconds there are
          NONE

ASSUME OutDirAssumption ==
  /\ Modes \subseteq {"fresh", "resume", "auto"}
  /\ MaxCrashes \in Nat /\ MaxNow \in Nat
  /\ Finds \cap Range(Seeds) = {}

VARIABLES dir,       \* out_dir exists
          lock,      \* the process that holds the flock on it
          queue,     \* out_dir/queue, and
          resume,    \* out_dir/_resume: NONE, or the directory's contents
          stats,     \* out_dir/fuzzer_stats
          crashes,   \* the files of out_dir/crashes, or NONE
          backups,   \* the renamed crashes directories, by the second in their name
          plot,      \* out_dir/plot_data exists
          now,
          pc, mode,  \* of each process
          list,      \* queue_buf of the process that holds the lock
          pos,       \* how far pivot_inputs or the fuzzing loop is in it
          resuming,  \* resuming_fuzz
          auto,      \* it has an automatic dictionary
          fails,     \* the processes that died
          \* History: the test cases that must not get lost, those that went
          \* through the deterministic stages, the one that was current when
          \* the statistics were written, the crashing inputs, and whether a
          \* dictionary was saved; the test cases whose files and whose marks
          \* were gone from _resume/ when a process died in nuke_resume_dir.
          saved, done, current, kept, dict, nuked, unmarked

memory == <<list, pos, resuming, auto>>
history == <<saved, done, current, kept, dict, nuked, unmarked>>
vars == <<dir, lock, queue, resume, stats, crashes, backups, plot, now, pc, mode, memory,
          fails, history>>

\* In an empty file, old stands for what the process that writes it knows.
Absent == [is |-> "absent", old |-> FALSE, cur_item |-> 0]
Empty == [is |-> "empty", old |-> FALSE, cur_item |-> 0]

\* A file of a queue is named after its number and what it was made from; a
\* file name in .state/deterministic_done marks the file of that name.
NewQueue == [files |-> {}, state |-> TRUE, det |-> {}, auto |-> FALSE]
Files(d) == IF d = NONE THEN {} ELSE d.files
Contents(d) == {n.case : n \in Files(d)}
NoState(d) == [d EXCEPT !.state = FALSE, !.det = {}, !.auto = FALSE]

Init ==
  /\ dir = FALSE /\ lock = NONE /\ queue = NONE /\ resume = NONE /\ stats = Absent
  /\ crashes = NONE /\ backups = <<>> /\ plot = FALSE /\ now = 0
  /\ pc = [p \in Fuzzer |-> "idle"] /\ mode \in [Fuzzer -> Modes]
  /\ list = <<>> /\ pos = 0 /\ resuming = FALSE /\ auto = FALSE /\ fails = 0
  /\ saved = {} /\ done = {} /\ current = NONE /\ kept = {} /\ dict = FALSE
  /\ nuked = {} /\ unmarked = {}

Goto(p, l) == pc' = [pc EXCEPT ![p] = l]

\* FATAL, or a normal end: the kernel drops the lock.
Exit(p) == Goto(p, "idle") /\ lock' = (IF lock = p THEN NONE ELSE lock)

-----------------------------------------------------------------------------
\* The mkdir of setup_dirs_fds.
Start(p) ==
  /\ pc[p] = "idle"
  /\ \E m \in Modes :
       /\ mode' = [mode EXCEPT ![p] = m]
       /\ Goto(p, IF dir THEN "existing" ELSE IF m = "resume" THEN "idle" ELSE "made")
  /\ dir' = TRUE
  /\ UNCHANGED <<lock, queue, resume, stats, crashes, backups, plot, now, memory, fails, history>>

InUse == lock # NONE

\* AFL_AUTORESUME makes a normal run one that resumes if there are statistics.
ModeNow(p) ==
  IF mode[p] = "auto" THEN (IF stats.is = "absent" THEN "fresh" ELSE "resume") ELSE mode[p]

\* "At-risk data found": more than OUTPUT_GRACE minutes of it.
AtRisk(m) == m = "fresh" /\ stats.old

\* flock, and in a directory that existed the look at fuzzer_stats.  A session
\* that is not resumed gives up what the directory holds.
TryLock(p) ==
  /\ pc[p] \in {"made", "existing"}
  /\ LET m == IF pc[p] = "made" THEN "fresh" ELSE ModeNow(p)
     IN  IF InUse \/ (pc[p] = "existing" /\ (stats.is = "empty" \/ AtRisk(m)))
         THEN Exit(p) /\ UNCHANGED <<mode, history>>
         ELSE /\ lock' = p
              /\ mode' = [mode EXCEPT ![p] = m]
              /\ Goto(p, IF pc[p] = "made" THEN "mkdirs" ELSE "move")
              /\ IF m = "fresh" /\ pc[p] = "existing"
                 THEN /\ saved' = {} /\ done' = {} /\ kept' = {}
                      /\ current' = NONE /\ dict' = FALSE
                      /\ nuked' = {} /\ unmarked' = {}
                 ELSE UNCHANGED history
  /\ UNCHANGED <<dir, queue, resume, stats, crashes, backups, plot, now, memory, fails>>

ReplaceableAlways(d) == TRUE

\* rename replaces a directory only if it is empty.
Replaceable(d) == d = NONE \/ (d.files = {} /\ ~d.state)

\* rename(queue, _resume), whose errors are ignored.
Move(p) ==
  /\ pc[p] = "move"
  /\ IF mode[p] = "resume" /\ queue # NONE /\ Replaceable(resume)
     THEN resume' = queue /\ queue' = NONE
     ELSE UNCHANGED <<resume, queue>>
  /\ Goto(p, "marks")
  /\ UNCHANGED <<dir, lock, stats, crashes, backups, plot, now, mode, memory, fails, history>>

\* queue/.state goes first, then the files one by one, then the rest.
CleanMarks(p) ==
  /\ pc[p] = "marks"
  /\ queue' = (IF queue = NONE THEN NONE ELSE NoState(queue))
  /\ Goto(p, "files")
  /\ UNCHANGED <<dir, lock, resume, stats, crashes, backups, plot, now, mode, memory, fails, history>>

CleanFile(p) ==
  /\ pc[p] = "files"
  /\ \E n \in Files(queue) : queue' = [queue EXCEPT !.files = @ \ {n}]
  /\ UNCHANGED <<dir, lock, resume, stats, crashes, backups, plot, now, pc, mode, memory, fails, history>>

\* Left to itself, the emptied queue/ stays.
CleanRestNoRmdir(p) ==
  /\ pc[p] = "files" /\ Files(queue) = {}
  /\ Goto(p, "mkdirs")
  /\ UNCHANGED <<dir, lock, queue, resume, stats, crashes, backups, plot, now, mode, memory,
                 fails, history>>

\* crashes/ is renamed after the time of day if it is not empty.  Where that
\* name is taken the files in it are deleted, and README.txt, which is not,
\* keeps the directory from being removed.
CleanRest(p) ==
  /\ pc[p] = "files" /\ Files(queue) = {}
  /\ queue' = NONE
  /\ IF mode[p] = "resume" /\ crashes \notin {NONE, {}} /\ now \in DOMAIN backups
     THEN crashes' = {"README.txt"} /\ Exit(p) /\ UNCHANGED backups
     ELSE /\ crashes' = NONE
          /\ backups' = (IF mode[p] = "resume" /\ crashes \notin {NONE, {}}
                         THEN [t \in DOMAIN backups \cup {now} |->
                                 IF t = now THEN crashes ELSE backups[t]]
                         ELSE backups)
          /\ Goto(p, "mkdirs") /\ UNCHANGED lock
  /\ stats' = (IF mode[p] = "resume" THEN stats ELSE Absent)
  /\ plot' = (plot /\ mode[p] = "resume")
  /\ UNCHANGED <<dir, resume, now, mode, memory, fails, history>>

\* The mkdirs of setup_dirs_fds, which must find nothing, as must the creation
\* of plot_data in a session that does not resume.
MkDirs(p) ==
  /\ pc[p] = "mkdirs"
  /\ IF queue # NONE
     THEN Exit(p) /\ UNCHANGED <<queue, crashes, plot>>
     ELSE /\ queue' = NewQueue /\ crashes' = {} /\ plot' = TRUE
          /\ IF plot /\ mode[p] = "fresh" THEN Exit(p)
                                          ELSE Goto(p, "read") /\ UNCHANGED lock
  /\ UNCHANGED <<dir, resume, stats, backups, now, mode, memory, fails, history>>

-----------------------------------------------------------------------------
\* scandir sorts by name; the directory of a resumed session is read backwards.
SeedNames == [i \in DOMAIN Seeds |-> [id |-> NONE, case |-> Seeds[i]]]
Scanned(p) ==
  IF mode[p] = "fresh" THEN SeedNames
  ELSE IF resume = NONE THEN <<>>
  ELSE SetToSortSeq(resume.files, LAMBDA a, b : a.id > b.id)

\* The mark read_testcases looks up for a file.
PassedDetById(p, n) == mode[p] = "resume" /\ \E m \in resume.det : m.id = n.id - 1
PassedDet(p, n) == mode[p] = "resume" /\ n \in resume.det

ReadTestcases(p) ==
  /\ pc[p] = "read"
  /\ IF Scanned(p) = <<>> THEN Exit(p) /\ UNCHANGED memory
     ELSE /\ list' = [i \in DOMAIN Scanned(p) |->
                        [name |-> Scanned(p)[i], det |-> PassedDet(p, Scanned(p)[i])]]
          /\ pos' = 0 /\ resuming' = FALSE /\ auto' = FALSE
          /\ Goto(p, "link") /\ UNCHANGED lock
  /\ UNCHANGED <<dir, queue, resume, stats, crashes, backups, plot, now, mode, fails, history>>

Add(n, det) == [queue EXCEPT !.files = @ \cup {n},
                             !.det = IF det THEN @ \cup {n} ELSE @]

\* The name a file gets in queue/.
Pivoted(n, id) == [id |-> id, case |-> n.case]

\* One turn of pivot_inputs: the session counts as resumed if the number in a
\* file's name is the number it is given.
PivotInput(p) ==
  /\ pc[p] = "link" /\ pos < Len(list)
  /\ LET q == list[pos + 1]
         n == Pivoted(q.name, pos)
     IN  /\ queue' = Add(n, q.det)
         /\ list' = [list EXCEPT ![pos + 1].name = n]
         /\ resuming' = (resuming \/ q.name.id = pos)
  /\ pos' = pos + 1
  /\ UNCHANGED <<dir, lock, resume, stats, crashes, backups, plot, now, pc, mode, auto, fails, history>>

\* Its end, with the first part of nuke_resume_dir: what is in .state.
PivotDone(p) ==
  /\ pc[p] = "link" /\ pos = Len(list)
  /\ Goto(p, IF mode[p] = "resume" THEN "nuke" ELSE "load")
  /\ resume' = (IF mode[p] = "resume" THEN NoState(resume) ELSE resume)
  /\ UNCHANGED <<dir, lock, queue, stats, crashes, backups, plot, now, mode, memory, fails, history>>

NukeFile(p) ==
  /\ pc[p] = "nuke"
  /\ \E n \in resume.files : resume' = [resume EXCEPT !.files = @ \ {n}]
  /\ UNCHANGED <<dir, lock, queue, stats, crashes, backups, plot, now, pc, mode, memory, fails, history>>

NukeDir(p) ==
  /\ pc[p] = "nuke" /\ resume.files = {}
  /\ resume' = NONE
  /\ Goto(p, "load")
  /\ UNCHANGED <<dir, lock, queue, stats, crashes, backups, plot, now, mode, memory, fails, history>>

\* load_auto, which reads in_dir/.state/auto_extras; find_start_position, which
\* takes cur_item from fuzzer_stats; and the opening of that file by the first
\* write_stats_file.
Load(p) ==
  /\ pc[p] = "load"
  /\ auto' = (mode[p] = "resume" /\ resume # NONE /\ resume.auto)
  /\ pos' = (IF resuming /\ stats.is = "full" /\ stats.cur_item < Len(list)
             THEN stats.cur_item ELSE 0)
  /\ saved' = saved \cup {n.case : n \in queue.files}
  /\ stats' = [Empty EXCEPT !.old = stats.old]
  /\ Goto(p, "stats")
  /\ UNCHANGED <<dir, lock, queue, resume, crashes, backups, plot, now, mode, list, resuming,
                 fails, done, current, kept, dict, nuked, unmarked>>

-----------------------------------------------------------------------------
\* save_if_interesting keeps a test case ...
Find(p, c) ==
  /\ pc[p] = "running" /\ \A i \in DOMAIN list : list[i].name.case # c
  /\ LET n == [id |-> Len(list), case |-> c]
     IN  queue' = Add(n, FALSE) /\ list' = Append(list, [name |-> n, det |-> FALSE])
  /\ saved' = saved \cup {c} /\ nuked' = nuked \ {c}
  /\ UNCHANGED <<dir, lock, resume, stats, crashes, backups, plot, now, pc, mode, pos, resuming,
                 auto, fails, done, current, kept, dict, unmarked>>

\* ... or a crashing input, beside which it leaves README.txt.
FindCrash(p, c) ==
  /\ pc[p] = "running" /\ c \notin crashes
  /\ crashes' = crashes \cup {c, "README.txt"}
  /\ kept' = kept \cup {c}
  /\ UNCHANGED <<dir, lock, queue, resume, stats, backups, plot, now, pc, mode, memory, fails,
                 saved, done, current, dict, nuked, unmarked>>

\* fuzz_one: the deterministic stages, if they were not done, then on to the
\* next entry; a dictionary may have come up.
FuzzOne(p) ==
  /\ pc[p] = "running"
  /\ LET q == list[pos + 1]
     IN  /\ queue' = [queue EXCEPT !.det = @ \cup {q.name}]
         /\ list' = [list EXCEPT ![pos + 1].det = TRUE]
         /\ done' = done \cup {q.name.case} /\ unmarked' = unmarked \ {q.name.case}
  /\ pos' = (pos + 1) % Len(list)
  /\ auto' = TRUE
  /\ UNCHANGED <<dir, lock, resume, stats, crashes, backups, plot, now, pc, mode, resuming, fails,
                 saved, current, kept, dict, nuked>>

\* The statistics, every minute and at the end: create_ffile truncates the
\* file, and its contents reach it when it is closed.  save_auto follows.
OpenStats(p) ==
  /\ pc[p] = "running"
  /\ \E l \in {"stats", "stop"} : Goto(p, l)
  /\ stats' = [Empty EXCEPT !.old = stats.old]
  /\ UNCHANGED <<dir, lock, queue, resume, crashes, backups, plot, now, mode, memory, fails, history>>

CloseStats(p) ==
  /\ pc[p] \in {"stats", "stop"}
  /\ \E old \in {stats.old, TRUE} : stats' = [is |-> "full", old |-> old, cur_item |-> pos]
  /\ queue' = [queue EXCEPT !.auto = @ \/ auto]
  /\ current' = list[pos + 1].name.case /\ dict' = (dict \/ auto)
  /\ IF pc[p] = "stop" THEN Exit(p) ELSE Goto(p, "running") /\ UNCHANGED lock
  /\ UNCHANGED <<dir, resume, crashes, backups, plot, now, mode, memory, fails, saved, done, kept,
                 nuked, unmarked>>

\* A process dies.
Die(p) ==
  /\ pc[p] \in CrashIn /\ fails < MaxCrashes
  /\ fails' = fails + 1
  /\ Exit(p)
  /\ IF pc[p] = "nuke" /\ resume.files # {}
     THEN /\ nuked' = nuked \cup (Contents(queue) \ Contents(resume))
          /\ unmarked' = unmarked \cup Contents(queue)
     ELSE UNCHANGED <<nuked, unmarked>>
  /\ UNCHANGED <<dir, queue, resume, stats, crashes, backups, plot, now, mode, memory,
                 saved, done, current, kept, dict>>

\* A second passes.
Tick ==
  /\ now < MaxNow
  /\ now' = now + 1
  /\ UNCHANGED <<dir, lock, queue, resume, stats, crashes, backups, plot, pc, mode, memory,
                 fails, history>>

Setup(p) ==
  \/ TryLock(p) \/ Move(p) \/ CleanMarks(p) \/ CleanFile(p) \/ CleanRest(p) \/ MkDirs(p)
  \/ ReadTestcases(p) \/ PivotInput(p) \/ PivotDone(p) \/ NukeFile(p) \/ NukeDir(p)
  \/ Load(p) \/ CloseStats(p)

Next ==
  \/ \E p \in Fuzzer :
       \/ Start(p) \/ Setup(p) \/ FuzzOne(p) \/ OpenStats(p) \/ Die(p)
       \/ \E c \in Finds : Find(p, c)
       \/ \E c \in Crashers : FindCrash(p, c)
  \/ Tick

Spec == Init /\ [][Next]_vars

-----------------------------------------------------------------------------
Fuzzes(p) == pc[p] \in {"running", "stats", "stop"}

\* The variables have their types, and who has passed the flock holds the lock.
TypeOK ==
  /\ dir \in BOOLEAN /\ lock \in Fuzzer \cup {NONE}
  /\ \A d \in {queue, resume} \ {NONE} :
       \A n \in d.files \cup d.det : n.id \in Nat /\ n.case \in Finds \cup Range(Seeds)
  /\ \A p \in Fuzzer : pc[p] \notin {"idle", "made", "existing"} => lock = p

\* While a process fuzzes, the files of queue/ are the entries of its queue_buf,
\* numbered in that order, as the other instances that import them rely on: no
\* leftover of an earlier session is among them and no other process touches
\* them, even where one is started between another's mkdir and flock.
QueueIsList ==
  \A p \in Fuzzer : Fuzzes(p) =>
    /\ queue # NONE
    /\ queue.files = {list[i].name : i \in DOMAIN list}
    /\ \A i \in DOMAIN list : list[i].name.id = i - 1

\* A file of queue/ or of _resume/ has each test case, and a session that fuzzes
\* has all of them in its queue; see MCOutDir.
Found ==
  /\ saved \ nuked \subseteq Contents(queue) \cup Contents(resume)
  /\ \A p \in Fuzzer : Fuzzes(p) => saved \ nuked \subseteq Contents(queue)

\* A file is marked if and only if its test case went through the deterministic
\* stages; see MCOutDir.
Marked ==
  \A p \in Fuzzer : pc[p] = "running" =>
    \A n \in queue.files : /\ n \in queue.det => n.case \in done
                           /\ n.case \in done \ unmarked => n \in queue.det

\* The file was opened to be written, and whoever did died before it was.
StatsTorn == stats.is = "empty" /\ \A p \in Fuzzer : pc[p] \notin {"stats", "stop"}

-----------------------------------------------------------------------------
\* What the repository's words promise and the code does not keep; README.md
\* says in which situation.

\* "Load automatically generated extras": a session that resumes has the
\* automatic dictionary that was saved.
AutoExtrasLoaded == \A p \in Fuzzer : pc[p] = "running" /\ dict => auto

\* "When resuming, try to find the queue position to start from": the entry at
\* that position is the one that was current.
StartsWhereItStopped ==
  [][\A p \in Fuzzer :
       Load(p) /\ mode[p] = "resume" /\ current # NONE
         => list[pos' + 1].name.case = current]_vars

\* "Make backup of the crashes directory if it's not empty": crashing inputs
\* stay, in crashes/ or in a backup.
CrashersKept ==
  kept \subseteq (IF crashes = NONE THEN {} ELSE crashes) \cup UNION Range(backups)
=============================================================================
