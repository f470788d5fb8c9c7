------------------------------ MODULE Captain ------------------------------
(***************************************************************************)
(* magma/tools/captain/run.sh: a main loop that gives every campaign its   *)
(* CPUs and starts it as a background job, and jobs that find themselves a  *)
(* number in the cache and in the archive, lock both directories, run the  *)
(* container, pack the results and give the CPUs back.  All of it is done  *)
(* with files: a CPU is taken by creating its file under noclobber, mutex  *)
(* is flock on a file that its users also remove, and a directory of its   *)
(* own is what makes a campaign number taken.                              *)
(***************************************************************************)
EXTENDS Naturals, FiniteSets

CONSTANTS
  Jobs,       \* the campaigns, in no particular order
  Pool,       \* WORKER_POOL: the logical CPUs
  Need,       \* CAMPAIGN_WORKERS of a job
  NoArchive   \* NO_ARCHIVE: results are moved, not packed

ASSUME NeedAssumption == Need \in [Jobs -> Nat \ {0}]
ASSUME ModeAssumption == NoArchive \in BOOLEAN

Dirs  == {"cache", "ar"}             \* CAMPAIGN_CACHEDIR and CAMPAIGN_ARDIR
Muxes == {"magma_cid", "magma_tar"}
Inode == 0 .. Cardinality(Jobs) + Cardinality(Muxes)   \* 0: no file
None  == "none"                      \* no job

ASSUME JobsAssumption == IsFiniteSet(Jobs) /\ None \notin Jobs

VARIABLES
  job,        \* the job that the main loop allocates CPUs for, or None
  got,        \* WORKERSET
  cpus,       \* the files magma_cpu_* in LOCKDIR
  affinity,   \* AFFINITY of each job
  pc,         \* where each job is
  dir,        \* which of its two numbers it looks for
  cid,        \* CACHECID and ARCID
  path,       \* the file each mutex name leads to
  fd,         \* the file each job opened as 200
  owner,      \* who holds flock on each file
  made,       \* the campaign directories that exist
  locked,     \* the jobs that hold flock on the present directory of a number
  archive     \* <<number, job>>: whose results a number of the archive holds

main  == <<job, got>>
files == <<path, fd, owner>>
vars  == <<job, got, cpus, affinity, pc, dir, cid, path, fd, owner, made, locked,
           archive>>

Init ==
  /\ job = None /\ got = {} /\ cpus = {}
  /\ affinity = [j \in Jobs |-> {}]
  /\ pc = [j \in Jobs |-> "ready"]
  /\ dir = [j \in Jobs |-> "cache"]
  /\ cid = [j \in Jobs |-> [d \in Dirs |-> 0]]
  /\ path = [m \in Muxes |-> 0]
  /\ fd = [j \in Jobs |-> 0]
  /\ owner = [i \in Inode |-> None]
  /\ made = [d \in Dirs |-> {}]
  /\ locked = [d \in Dirs |-> {}]
  /\ archive = {}

-----------------------------------------------------------------------------
(* The main loop: allocate_workers, then start_ex &                         *)

NextJob ==
  /\ job = None
  /\ \E j \in Jobs : pc[j] = "ready" /\ job' = j
  /\ UNCHANGED <<got, cpus, affinity, pc, dir, cid, files, made, locked, archive>>

\* "( set -o noclobber; > "$LOCKDIR/magma_cpu_$i" )" succeeds.  While it does
\* not for any i, the loop waits.
CanTakeAny(i) == TRUE
CanTake(i) == i \notin cpus

TakeCpu ==
  /\ job # None
  /\ Cardinality(got) < Need[job]
  /\ \E i \in Pool : /\ CanTake(i)
                     /\ cpus' = cpus \cup {i}
                     /\ got' = got \cup {i}
  /\ UNCHANGED <<job, affinity, pc, dir, cid, files, made, locked, archive>>

\* "This times-out every 1 second to force a refresh": inotifywait -t 1.
WaitForCpu ==
  /\ job # None
  /\ Cardinality(got) < Need[job]
  /\ \A i \in Pool : ~CanTake(i)
  /\ UNCHANGED vars

StartEx ==
  /\ job # None
  /\ Cardinality(got) >= Need[job]
  /\ affinity' = [affinity EXCEPT ![job] = got]
  /\ pc' = [pc EXCEPT ![job] = "open"]
  /\ got' = {} /\ job' = None
  /\ UNCHANGED <<cpus, dir, cid, files, made, locked, archive>>

-----------------------------------------------------------------------------
(* mutex                                                                    *)

\* A file that neither a name nor a shell keeps
Free(i) == (\A k \in Jobs : fd[k] # i) /\ (\A n \in Muxes : path[n] # i)

\* 200>"$LOCKDIR/$mux": the file, created if there is none.  The first free one
\* stands for any.
OpenMux(j, m) ==
  IF path[m] # 0
  THEN /\ fd' = [fd EXCEPT ![j] = path[m]]
       /\ UNCHANGED <<path, owner>>
  ELSE \E i \in Inode \ {0} :
         /\ Free(i) /\ \A k \in 1 .. i - 1 : ~Free(k)
         /\ path' = [path EXCEPT ![m] = i]
         /\ fd' = [fd EXCEPT ![j] = i]
         /\ UNCHANGED owner

\* flock -xF 200
LockMux(j) ==
  /\ owner[fd[j]] = None
  /\ owner' = [owner EXCEPT ![fd[j]] = j]
  /\ UNCHANGED <<path, fd>>

\* The subshell ends, and with it the lock.
UnlockMux(j) ==
  /\ owner' = [owner EXCEPT ![fd[j]] = None]
  /\ fd' = [fd EXCEPT ![j] = 0]
  /\ UNCHANGED path

\* trap 'rm -f "$LOCKDIR/$mux"' EXIT
RemoveMux(m) == [path EXCEPT ![m] = 0]

-----------------------------------------------------------------------------
(* start_campaign: a number in the cache, then one in the archive           *)

Goto(j, where) == pc' = [pc EXCEPT ![j] = where]

OpenCid(j) ==
  /\ pc[j] = "open"
  /\ OpenMux(j, "magma_cid")
  /\ Goto(j, "lock")
  /\ UNCHANGED <<main, cpus, affinity, dir, cid, made, locked, archive>>

LockCid(j) ==
  /\ pc[j] = "lock"
  /\ LockMux(j)
  /\ Goto(j, "list")
  /\ UNCHANGED <<main, cpus, affinity, dir, cid, made, locked, archive>>

\* get_next_cid: the first number that no directory has ...
FirstGap(S) ==
  CHOOSE i \in 0 .. Cardinality(S) : i \notin S /\ \A k \in 0 .. i - 1 : k \in S

ListCids(j) ==
  /\ pc[j] = "list"
  /\ cid' = [cid EXCEPT ![j][dir[j]] = FirstGap(made[dir[j]])]
  /\ Goto(j, "mkdir")
  /\ UNCHANGED <<main, cpus, affinity, dir, files, made, locked, archive>>

\* ... and mkdir -p, which does not mind if it has one by now.
MakeDir(j) ==
  /\ pc[j] = "mkdir"
  /\ made' = [made EXCEPT ![dir[j]] = @ \cup {cid[j][dir[j]]}]
  /\ Goto(j, "isdir")
  /\ UNCHANGED <<main, cpus, affinity, dir, cid, files, locked, archive>>

\* while [ ! -d "$dir" ]; do sleep 1; done
WaitForDir(j) ==
  /\ pc[j] = "isdir"
  /\ IF cid[j][dir[j]] \in made[dir[j]] THEN Goto(j, "unlock") ELSE UNCHANGED pc
  /\ UNCHANGED <<main, cpus, affinity, dir, cid, files, made, locked, archive>>

UnlockCid(j) ==
  /\ pc[j] = "unlock"
  /\ UnlockMux(j)
  /\ Goto(j, "remove")
  /\ UNCHANGED <<main, cpus, affinity, dir, cid, made, locked, archive>>

RemoveCid(j) ==
  /\ pc[j] = "remove"
  /\ path' = RemoveMux("magma_cid")
  /\ IF dir[j] = "cache"
     THEN dir' = [dir EXCEPT ![j] = "ar"] /\ Goto(j, "open")
     ELSE dir' = [dir EXCEPT ![j] = "cache"] /\ Goto(j, "flock")
  /\ UNCHANGED <<main, cpus, affinity, cid, fd, owner, made, locked, archive>>

\* flock -xnF on the directory, which flock creates if it is gone.
IsLockedNever(j, d) == FALSE
IsLocked(j, d) == \E k \in locked[d] : cid[k][d] = cid[j][d]

FlockCache(j) ==
  /\ pc[j] = "flock"
  /\ IF IsLocked(j, "cache")
     THEN Goto(j, "open") /\ UNCHANGED <<made, locked>>
     ELSE /\ made' = [made EXCEPT !["cache"] = @ \cup {cid[j]["cache"]}]
          /\ locked' = [locked EXCEPT !["cache"] = @ \cup {j}]
          /\ Goto(j, "flock2")
  /\ UNCHANGED <<main, cpus, affinity, dir, cid, files, archive>>

\* The same for the archive; if it fails, everything starts over.
FlockAr(j) ==
  /\ pc[j] = "flock2"
  /\ IF IsLocked(j, "ar")
     THEN /\ locked' = [locked EXCEPT !["cache"] = @ \ {j}]
          /\ Goto(j, "open") /\ UNCHANGED made
     ELSE /\ made' = [made EXCEPT !["ar"] = @ \cup {cid[j]["ar"]}]
          /\ locked' = [locked EXCEPT !["ar"] = @ \cup {j}]
          /\ Goto(j, "run")
  /\ UNCHANGED <<main, cpus, affinity, dir, cid, files, archive>>

-----------------------------------------------------------------------------
(* launch_campaign and the end of start_ex                                  *)

\* start.sh ran the container to its end, whatever that was.
RunContainer(j) ==
  /\ pc[j] = "run"
  /\ Goto(j, IF NoArchive THEN "move" ELSE "opentar")
  /\ UNCHANGED <<main, cpus, affinity, dir, cid, files, made, locked, archive>>

OpenTar(j) ==
  /\ pc[j] = "opentar"
  /\ OpenMux(j, "magma_tar")
  /\ Goto(j, "locktar")
  /\ UNCHANGED <<main, cpus, affinity, dir, cid, made, locked, archive>>

LockTar(j) ==
  /\ pc[j] = "locktar"
  /\ LockMux(j)
  /\ Goto(j, "tar")
  /\ UNCHANGED <<main, cpus, affinity, dir, cid, made, locked, archive>>

\* tar overwrites what the number holds; rm -rf is run only if it succeeds.
Tar(j) ==
  LET others == {p \in archive : p[1] # cid[j]["ar"]}
  IN /\ pc[j] = "tar"
     /\ \/ archive' = others \cup {<<cid[j]["ar"], j>>} /\ Goto(j, "rm")
        \/ archive' \in {archive, others} /\ Goto(j, "exit")
     /\ UnlockMux(j)
     /\ UNCHANGED <<main, cpus, affinity, dir, cid, made, locked>>

\* rm -rf "$SHARED": the locked directory is gone from its path.
RemoveShared(j) ==
  /\ pc[j] = "rm"
  /\ made' = [made EXCEPT !["cache"] = @ \ {cid[j]["cache"]}]
  /\ locked' = [locked EXCEPT !["cache"] = @ \ {j}]
  /\ Goto(j, "exit")
  /\ UNCHANGED <<main, cpus, affinity, dir, cid, files, archive>>

\* mv -T "$SHARED" over the archive directory, which must be empty.
MoveShared(j) ==
  /\ pc[j] = "move"
  /\ IF \E p \in archive : p[1] = cid[j]["ar"]
     THEN UNCHANGED <<made, locked, archive>>
     ELSE /\ archive' = archive \cup {<<cid[j]["ar"], j>>}
          /\ made' = [made EXCEPT !["cache"] = @ \ {cid[j]["cache"]}]
          /\ locked' = [d \in Dirs |-> locked[d] \ {j}]
  /\ Goto(j, "exit")
  /\ UNCHANGED <<main, cpus, affinity, dir, cid, files>>

\* The shell of launch_campaign ends: its trap, then the locks it inherited.
ExitLaunch(j) ==
  /\ pc[j] = "exit"
  /\ path' = IF NoArchive THEN path ELSE RemoveMux("magma_tar")
  /\ locked' = [d \in Dirs |-> locked[d] \ {j}]
  /\ Goto(j, "release")
  /\ UNCHANGED <<main, cpus, affinity, dir, cid, fd, owner, made, archive>>

\* release_workers
ReleasedNot(j) == cpus
Released(j) == cpus \ affinity[j]

ReleaseWorkers(j) ==
  /\ pc[j] = "release"
  /\ cpus' = Released(j)
  /\ Goto(j, "done")
  /\ UNCHANGED <<main, affinity, dir, cid, files, made, locked, archive>>

Job(j) ==
  \/ OpenCid(j) \/ LockCid(j) \/ ListCids(j) \/ MakeDir(j) \/ WaitForDir(j)
  \/ UnlockCid(j) \/ RemoveCid(j) \/ FlockCache(j) \/ FlockAr(j)
  \/ RunContainer(j) \/ OpenTar(j) \/ LockTar(j) \/ Tar(j) \/ RemoveShared(j)
  \/ MoveShared(j) \/ ExitLaunch(j) \/ ReleaseWorkers(j)

Main == NextJob \/ TakeCpu \/ WaitForCpu \/ StartEx

\* cleanup has waited for all jobs and finds the lock files that are left.
Over == job = None /\ \A j \in Jobs : pc[j] = "done"

Next == Main \/ (\E j \in Jobs : Job(j)) \/ (Over /\ UNCHANGED vars)

\* Every shell is scheduled, containers end by TIMEOUT, and flock hands a
\* free lock to some waiter.
Spec == /\ Init /\ [][Next]_vars
        /\ WF_vars(Main) /\ \A j \in Jobs : WF_vars(Job(j))

-----------------------------------------------------------------------------
Running(j) == pc[j] \notin {"ready", "done"}
Launched(j) == pc[j] \in {"run", "opentar", "locktar", "tar", "rm", "move"}

\* Every variable holds a value of its kind; there always is a next number.
TypeOK ==
  /\ job \in Jobs \cup {None} /\ got \in SUBSET Pool /\ cpus \in SUBSET Pool
  /\ affinity \in [Jobs -> SUBSET Pool]
  /\ pc \in [Jobs -> {"ready", "open", "lock", "list", "mkdir", "isdir", "unlock",
                      "remove", "flock", "flock2", "run", "opentar", "locktar", "tar", "rm",
                      "move", "exit", "release", "done"}]
  /\ dir \in [Jobs -> Dirs]
  /\ cid \in [Jobs -> [Dirs -> Nat]]
  /\ path \in [Muxes -> Inode] /\ fd \in [Jobs -> Inode]
  /\ owner \in [Inode -> Jobs \cup {None}]
  /\ made \in [Dirs -> SUBSET Nat] /\ locked \in [Dirs -> SUBSET Jobs]
  /\ archive \in SUBSET (Nat \X Jobs)

\* allocate_workers and release_workers: a CPU is never given to two campaigns
\* at a time, and its lock file is there as long as it is in use.
CpusExclusive ==
  /\ \A j, k \in Jobs : j # k /\ Running(j) /\ Running(k) => affinity[j] \cap affinity[k] = {}
  /\ \A j \in Jobs : Running(j) => affinity[j] \subseteq cpus /\ affinity[j] \cap got = {}

\* The two flocks of start_campaign: campaigns that run at the same time never
\* write to the same cache or archive directory, even where mutex let two of
\* them find the same number.
DirsExclusive ==
  \A j, k \in Jobs : j # k /\ Launched(j) /\ Launched(k) =>
    \A d \in Dirs : cid[j][d] # cid[k][d]

\* cleanup waits for the deletion of every lock file it finds when all jobs
\* are over; there is none, so it ends.
NoLockLeft == Over => cpus = {} /\ path = [m \in Muxes |-> 0]

\* A shell waits in get_next_cid for a directory that another one removed.
Stranded(j) == pc[j] = "isdir" /\ cid[j][dir[j]] \notin made[dir[j]]

\* A campaign that such a shell keeps from ending: its own, one that waits for the
\* mutex it holds, or one that waits for CPUs when none is left.
HeldUp(j) ==
  \/ Stranded(j)
  \/ pc[j] = "lock" /\ \E k \in Jobs : Stranded(k) /\ owner[fd[j]] = k
  \/ pc[j] = "ready" /\ cpus = Pool /\ \E k \in Jobs : Stranded(k)

\* Every campaign is run and ends, and no lock file is left for cleanup to wait
\* for: the retries of start_campaign, the wait for CPUs and the two mutexes let
\* everybody through in the end.  The one exception is the wait of get_next_cid
\* for the directory it made (run.sh:80): when the mutex had two holders, the
\* campaign of the other may have removed it, and the wait has no end; then the
\* only campaigns that do not end are those held up by it.
AllDone == <>[](NoLockLeft /\ \A j \in Jobs : pc[j] = "done" \/ HeldUp(j))

-----------------------------------------------------------------------------
\* What the repository's words promise and the code does not keep; README.md
\* says in which situation.

\* "only one tar job runs at a time, to prevent out-of-storage errors"
OneTarAtATime == \A j, k \in Jobs : pc[j] = "tar" /\ pc[k] = "tar" => j = k

\* "ensure the directory is created to prevent races": a number that one job
\* was given is not given to another.
NumbersUnique ==
  \A j, k \in Jobs : j # k /\ {pc[j], pc[k]} \subseteq {"flock", "flock2", "run"} =>
    \A d \in Dirs : cid[j][d] # cid[k][d]
=============================================================================
