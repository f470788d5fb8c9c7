--------------------------- MODULE CaptainProofs ---------------------------
(***************************************************************************)
(* What run.sh guarantees for every number of campaigns, every worker pool  *)
(* and every number of workers a campaign asks for.                        *)
(***************************************************************************)
EXTENDS Captain, FiniteSetTheorems, WellFoundedInduction, TLAPS

-----------------------------------------------------------------------------
(* get_next_cid                                                             *)

Below == {p \in Nat \X Nat : p[1] < p[2]}

\* A set of numbers has a least one.
LEMMA LeastNumber ==
  \A T \in SUBSET Nat : T # {} => \E n \in T : \A m \in T : n <= m
<1> SUFFICES ASSUME NEW T \in SUBSET Nat, T # {}
             PROVE  \E n \in T : \A m \in T : n <= m
  BY Zenon
<1>1. IsWellFoundedOn(Below, Nat)
  <2>1. OpToRel(<, Nat) = Below
    BY Zenon DEF Below, OpToRel
  <2> QED BY Zenon, <2>1, NatLessThanWellFounded
<1>2. PICK n \in T : \A m \in T : ~ (<<m, n>> \in Below)
  <2> HIDE DEF Below
  <2> QED BY Zenon, <1>1, WFMin
<1>3. ASSUME NEW m \in T PROVE n <= m
  <2>1. n \in Nat /\ m \in Nat
    BY Zenon
  <2>2. m < n => <<m, n>> \in Below
    BY Zenon, <2>1 DEF Below
  <2> QED BY <1>2, <2>1, <2>2
<1> QED BY Zenon, <1>3

\* get_next_cid finds a number whatever directories there are: no directory
\* has it, and all smaller numbers have one.
THEOREM FirstGapIsFree ==
  ASSUME NEW S \in SUBSET Nat, IsFiniteSet(S)
  PROVE  /\ FirstGap(S) \in Nat
         /\ FirstGap(S) \notin S
         /\ \A k \in 0 .. FirstGap(S) - 1 : k \in S
<1> DEFINE N == Cardinality(S)
           T == (0 .. N) \ S
<1>1. N \in Nat
  BY Zenon, FS_CardinalityType
<1>2. IsFiniteSet(0 .. N) /\ Cardinality(0 .. N) = N + 1
  BY <1>1, FS_Interval
<1>3. T # {}
  <2> SUFFICES ASSUME 0 .. N \subseteq S PROVE FALSE
    BY Zenon
  <2>1. Cardinality(0 .. N) <= N
    BY Zenon, FS_Subset
  <2> QED BY <1>1, <1>2, <2>1
<1>4. PICK n \in T : \A m \in T : n <= m
  <2>1. T \in SUBSET Nat
    BY <1>1
  <2> HIDE DEF T
  <2> QED BY Zenon, <1>3, <2>1, LeastNumber
<1>5. n \in 0 .. N /\ n \notin S /\ \A k \in 0 .. n - 1 : k \in S
  BY <1>1, <1>4
<1> QED BY <1>1, <1>5 DEF FirstGap

-----------------------------------------------------------------------------
(* The inductive invariant                                                  *)

\* The directories are finitely many.
MadeFinite == \A d \in Dirs : IsFiniteSet(made[d])

\* The job that CPUs are collected for has not started, and what is collected
\* has its lock files; every lock file is that of a CPU collected or in use.
Allocation ==
  /\ job # None => pc[job] = "ready"
  /\ job = None => got = {}
  /\ got \subseteq cpus
  /\ \A i \in cpus : i \in got \/ \E j \in Jobs : Running(j) /\ i \in affinity[j]

\* A job holds flock on a directory from the time it got it to the end of
\* launch_campaign, and two jobs never hold it on the same number.
HoldsCache(j) == Launched(j) \/ pc[j] = "flock2"
Holders ==
  /\ \A j \in Jobs : HoldsCache(j) => j \in locked["cache"]
  /\ \A j \in Jobs : Launched(j) => j \in locked["ar"]
  /\ \A j \in locked["cache"] : HoldsCache(j) \/ pc[j] = "exit"
  /\ \A j \in locked["ar"] : Launched(j) \/ pc[j] = "exit"
Numbers ==
  \A d \in Dirs : \A j, k \in locked[d] : j # k => cid[j][d] # cid[k][d]
Flocks == Holders /\ Numbers

\* Whoever created the file of a mutex, somebody is still going to remove it.
RemovesCid(j) == pc[j] \in {"lock", "list", "mkdir", "isdir", "unlock", "remove"}
RemovesTar(j) == pc[j] \in {"locktar", "tar", "rm", "exit"}
Packs(j)      == pc[j] \in {"opentar", "locktar", "tar", "rm"}
Removal ==
  /\ path["magma_cid"] # 0 => \E j \in Jobs : RemovesCid(j)
  /\ path["magma_tar"] # 0 => \E j \in Jobs : RemovesTar(j)
  /\ NoArchive => path["magma_tar"] = 0 /\ \A j \in Jobs : ~Packs(j)

IInv == TypeOK /\ MadeFinite /\ Allocation /\ CpusExclusive /\ Flocks /\ Removal

\* No file is a value of fd and path.
LEMMA ZeroIsNoFile == 0 \in Inode
<1>1. Cardinality(Jobs) \in Nat
  BY Zenon, JobsAssumption, FS_CardinalityType
<1>2. IsFiniteSet({"magma_cid"}) /\ Muxes = {"magma_cid"} \cup {"magma_tar"}
  BY Zenon, FS_Singleton DEF Muxes
<1>3. Cardinality(Muxes) \in Nat
  BY Zenon, <1>2, FS_AddElement, FS_CardinalityType
<1> QED BY <1>1, <1>3 DEF Inode

\* Type correctness, one step per action; there is a number to list because
\* only finitely many directories exist.
LEMMA TypeStep == TypeOK /\ MadeFinite /\ [Next]_vars => TypeOK'
<1> SUFFICES ASSUME TypeOK, MadeFinite, [Next]_vars PROVE TypeOK'
  BY Zenon
<1> USE DEF TypeOK, Dirs, Muxes, main, files
<1>z. 0 \in Inode
  BY Zenon, ZeroIsNoFile
<1>1. CASE NextJob
  BY Zenon, <1>1 DEF NextJob
<1>2. CASE TakeCpu
  BY Zenon, <1>2 DEF TakeCpu
<1>3. CASE WaitForCpu
  BY Zenon, <1>3 DEF WaitForCpu, vars
<1>4. CASE StartEx
  BY Zenon, <1>4 DEF StartEx
<1>5. ASSUME NEW j \in Jobs, OpenCid(j) PROVE TypeOK'
  BY <1>5, <1>z DEF OpenCid, OpenMux, Goto
<1>6. ASSUME NEW j \in Jobs, LockCid(j) PROVE TypeOK'
  BY Zenon, <1>6 DEF LockCid, LockMux, Goto
<1>7. ASSUME NEW j \in Jobs, ListCids(j) PROVE TypeOK'
  <2>1. FirstGap(made[dir[j]]) \in Nat
    BY Zenon, FirstGapIsFree DEF MadeFinite
  <2> QED BY Zenon, <1>7, <2>1 DEF ListCids, Goto
<1>8. ASSUME NEW j \in Jobs, MakeDir(j) PROVE TypeOK'
  BY <1>8 DEF MakeDir, Goto
<1>8w. ASSUME NEW j \in Jobs, WaitForDir(j) PROVE TypeOK'
  BY Zenon, <1>8w DEF WaitForDir, Goto
<1>9. ASSUME NEW j \in Jobs, UnlockCid(j) PROVE TypeOK'
  BY Zenon, <1>9, <1>z DEF UnlockCid, UnlockMux, Goto
<1>10. ASSUME NEW j \in Jobs, RemoveCid(j) PROVE TypeOK'
  BY Zenon, <1>10, <1>z DEF RemoveCid, RemoveMux, Goto
<1>11. ASSUME NEW j \in Jobs, FlockCache(j) PROVE TypeOK'
  BY <1>11 DEF FlockCache, Goto
<1>12. ASSUME NEW j \in Jobs, FlockAr(j) PROVE TypeOK'
  <2>1. locked' \in [Dirs -> SUBSET Jobs]
    BY <1>12 DEF FlockAr
  <2>2. made' \in [Dirs -> SUBSET Nat]
    BY <1>12 DEF FlockAr
  <2> QED BY Zenon, <1>12, <2>1, <2>2 DEF FlockAr, Goto
<1>13. ASSUME NEW j \in Jobs, RunContainer(j) PROVE TypeOK'
  BY Zenon, <1>13 DEF RunContainer, Goto
<1>14. ASSUME NEW j \in Jobs, OpenTar(j) PROVE TypeOK'
  BY <1>14 DEF OpenTar, OpenMux, Goto
<1>15. ASSUME NEW j \in Jobs, LockTar(j) PROVE TypeOK'
  BY Zenon, <1>15 DEF LockTar, LockMux, Goto
<1>16. ASSUME NEW j \in Jobs, Tar(j) PROVE TypeOK'
  BY <1>16, <1>z DEF Tar, UnlockMux, Goto
<1>17. ASSUME NEW j \in Jobs, RemoveShared(j) PROVE TypeOK'
  BY Zenon, <1>17 DEF RemoveShared, Goto
<1>18. ASSUME NEW j \in Jobs, MoveShared(j) PROVE TypeOK'
  BY <1>18 DEF MoveShared, Goto
<1>19. ASSUME NEW j \in Jobs, ExitLaunch(j) PROVE TypeOK'
  BY Zenon, <1>19, <1>z DEF ExitLaunch, RemoveMux, Goto
<1>20. ASSUME NEW j \in Jobs, ReleaseWorkers(j) PROVE TypeOK'
  BY Zenon, <1>20 DEF ReleaseWorkers, Released, Goto
<1>21. CASE UNCHANGED vars
  BY Zenon, <1>21 DEF vars
<1> QED
  BY Zenon, <1>1, <1>2, <1>3, <1>4, <1>5, <1>6, <1>7, <1>8, <1>8w, <1>9, <1>10, <1>11, <1>12, <1>13, <1>14, <1>15, <1>16, <1>17, <1>18, <1>19, <1>20, <1>21
  DEF Next, Main, Job

\* Directories are made and removed one at a time.
OneDir ==
  \/ UNCHANGED made
  \/ \E d \in Dirs, n \in Nat : \/ made' = [made EXCEPT ![d] = @ \cup {n}]
                               \/ made' = [made EXCEPT ![d] = @ \ {n}]

\* So there never are infinitely many.
LEMMA FiniteStep == TypeOK /\ MadeFinite /\ [Next]_vars => MadeFinite'
<1> SUFFICES ASSUME TypeOK, MadeFinite, [Next]_vars PROVE MadeFinite'
  BY Zenon
<1>1. OneDir
  <2> USE DEF OneDir, TypeOK, Dirs
  <2>1. ASSUME NEW j \in Jobs, MakeDir(j) PROVE OneDir
    <3>1. dir[j] \in Dirs /\ cid[j][dir[j]] \in Nat
      OBVIOUS
    <3> QED BY Zenon, <2>1, <3>1 DEF MakeDir
  <2>2. ASSUME NEW j \in Jobs, FlockCache(j) \/ FlockAr(j) PROVE OneDir
    <3>1. cid[j]["cache"] \in Nat /\ cid[j]["ar"] \in Nat
      OBVIOUS
    <3> QED BY Zenon, <2>2, <3>1 DEF FlockCache, FlockAr
  <2>3. ASSUME NEW j \in Jobs, RemoveShared(j) \/ MoveShared(j) PROVE OneDir
    <3>1. cid[j]["cache"] \in Nat
      OBVIOUS
    <3> QED BY Zenon, <2>3, <3>1 DEF RemoveShared, MoveShared
  <2>4. CASE Main \/ UNCHANGED vars
    BY Zenon, <2>4 DEF Main, NextJob, TakeCpu, WaitForCpu, StartEx, vars
  <2>5. ASSUME NEW j \in Jobs,
               OpenCid(j) \/ LockCid(j) \/ ListCids(j) \/ WaitForDir(j)
                 \/ UnlockCid(j) \/ RemoveCid(j) \/ RunContainer(j) \/ OpenTar(j) \/ LockTar(j)
                 \/ Tar(j) \/ ExitLaunch(j) \/ ReleaseWorkers(j)
        PROVE  OneDir
    BY Zenon, <2>5 DEF OpenCid, LockCid, ListCids, WaitForDir, UnlockCid, RemoveCid,
                RunContainer, OpenTar, LockTar, Tar, ExitLaunch, ReleaseWorkers
  <2> QED BY Zenon, <2>1, <2>2, <2>3, <2>4, <2>5 DEF Next, Job
<1>2. ASSUME NEW e \in Dirs PROVE IsFiniteSet(made'[e])
  <2>1. IsFiniteSet(made[e]) /\ made \in [Dirs -> SUBSET Nat]
    BY Zenon DEF MadeFinite, TypeOK
  <2>2. \A x : IsFiniteSet(made[e] \cup {x}) /\ IsFiniteSet(made[e] \ {x})
    BY Zenon, <2>1, FS_AddElement, FS_RemoveElement
  <2>3. \/ made'[e] = made[e]
        \/ \E n : made'[e] = made[e] \cup {n} \/ made'[e] = made[e] \ {n}
    BY Zenon, <1>1, <2>1 DEF OneDir
  <2> QED BY Zenon, <2>1, <2>2, <2>3
<1> QED BY Zenon, <1>2 DEF MadeFinite

-----------------------------------------------------------------------------
(* The CPUs                                                                 *)

\* From start_ex to release_workers a job leaves the CPUs alone.
Inside(j) ==
  /\ UNCHANGED <<job, got, cpus, affinity>>
  /\ Running(j) /\ Running(j)'
  /\ \A k \in Jobs : k # j => pc'[k] = pc[k]

\* Every step of a job but release_workers is such a step.
LEMMA JobInside ==
  ASSUME TypeOK, NEW j \in Jobs, Job(j), ~ReleaseWorkers(j)
  PROVE  Inside(j)
<1> USE DEF Inside, Running, Goto, main, TypeOK
<1>1. CASE OpenCid(j) \/ LockCid(j) \/ ListCids(j) \/ MakeDir(j) \/ WaitForDir(j)
        \/ UnlockCid(j)
  BY Zenon, <1>1 DEF OpenCid, LockCid, ListCids, MakeDir, WaitForDir, UnlockCid
<1>2. CASE RemoveCid(j) \/ FlockCache(j) \/ FlockAr(j)
  BY Zenon, <1>2 DEF RemoveCid, FlockCache, FlockAr
<1>3. CASE RunContainer(j) \/ OpenTar(j) \/ LockTar(j) \/ Tar(j)
  BY Zenon, <1>3 DEF RunContainer, OpenTar, LockTar, Tar
<1>4. CASE RemoveShared(j) \/ MoveShared(j) \/ ExitLaunch(j)
  BY Zenon, <1>4 DEF RemoveShared, MoveShared, ExitLaunch
<1> QED BY Zenon, <1>1, <1>2, <1>3, <1>4 DEF Job

\* allocate_workers and release_workers keep the books.
LEMMA CpusStep ==
  TypeOK /\ Allocation /\ CpusExclusive /\ [Next]_vars
    => Allocation' /\ CpusExclusive'
<1> SUFFICES ASSUME TypeOK, Allocation, CpusExclusive, [Next]_vars
             PROVE  Allocation' /\ CpusExclusive'
  BY Zenon
<1> USE JobsAssumption DEF Allocation, CpusExclusive, Running, TypeOK
<1>1. CASE NextJob
  BY Zenon, <1>1 DEF NextJob
<1>2. CASE TakeCpu
  <2>1. PICK c \in Pool : c \notin cpus /\ cpus' = cpus \cup {c} /\ got' = got \cup {c}
    BY Zenon, <1>2 DEF TakeCpu, CanTake
  <2>2. UNCHANGED <<job, affinity, pc>>
    BY Zenon, <1>2 DEF TakeCpu
  <2> QED BY <1>2, <2>1, <2>2 DEF TakeCpu
<1>3. CASE StartEx
  <2>1. /\ job \in Jobs /\ job' = None /\ got' = {} /\ cpus' = cpus
        /\ pc'[job] = "open" /\ affinity'[job] = got
        /\ \A k \in Jobs : k # job => pc'[k] = pc[k] /\ affinity'[k] = affinity[k]
    BY Zenon, <1>3 DEF StartEx
  <2>2. Allocation'
    BY Zenon, <2>1
  <2>3. CpusExclusive'
    BY Zenon, <2>1
  <2> QED BY Zenon, <2>2, <2>3
<1>4. ASSUME NEW j \in Jobs, ReleaseWorkers(j) PROVE Allocation' /\ CpusExclusive'
  <2>1. /\ UNCHANGED <<job, got, affinity>> /\ cpus' = cpus \ affinity[j]
        /\ pc[j] = "release" /\ pc'[j] = "done"
        /\ \A k \in Jobs : k # j => pc'[k] = pc[k]
    BY Zenon, <1>4 DEF ReleaseWorkers, Released, Goto, main
  <2>2. Allocation'
    BY Zenon, <2>1
  <2>3. CpusExclusive'
    BY Zenon, <2>1
  <2> QED BY Zenon, <2>2, <2>3
<1>5. ASSUME NEW j \in Jobs, Inside(j) PROVE Allocation' /\ CpusExclusive'
  BY Zenon, <1>5 DEF Inside
<1>6. CASE WaitForCpu \/ UNCHANGED vars
  BY Zenon, <1>6 DEF WaitForCpu, vars
<1> QED
  BY Zenon, <1>1, <1>2, <1>3, <1>4, <1>5, <1>6, JobInside DEF Next, Main

-----------------------------------------------------------------------------
(* The directories                                                          *)

Others(j) == \A k \in Jobs : k # j => pc'[k] = pc[k] /\ cid'[k] = cid[k]

\* Before start_campaign has a lock and after launch_campaign, a job may change
\* its numbers, ...
Unlocked(j) ==
  /\ Others(j) /\ UNCHANGED locked
  /\ ~HoldsCache(j) /\ pc[j] # "exit"
  /\ ~HoldsCache(j)' /\ pc'[j] # "exit"

\* ... and while launch_campaign runs it does not.
Locked(j) ==
  /\ Others(j) /\ UNCHANGED <<locked, cid>>
  /\ Launched(j) /\ (Launched(j)' \/ pc'[j] = "exit")

\* start_campaign and launch_campaign hold the locks of a job as Flocks says.
LEMMA FlocksStep == TypeOK /\ Allocation /\ Flocks /\ [Next]_vars => Flocks'
<1> SUFFICES ASSUME TypeOK, Allocation, Flocks, [Next]_vars PROVE Flocks'
  BY Zenon
<1> USE DEF HoldsCache, Launched, TypeOK, Dirs, Goto
<1>1. ASSUME NEW j \in Jobs, Unlocked(j) PROVE Flocks'
  <2>1. Holders'
    BY Zenon, <1>1 DEF Flocks, Holders, Unlocked, Others
  <2>2. \A d \in Dirs : \A k \in locked[d] : cid'[k] = cid[k]
    BY Zenon, <1>1 DEF Flocks, Holders, Unlocked, Others
  <2>3. Numbers'
    BY <1>1, <2>2 DEF Flocks, Numbers, Unlocked
  <2> QED BY Zenon, <2>1, <2>3 DEF Flocks
<1>2. ASSUME NEW j \in Jobs, Locked(j) PROVE Flocks'
  BY <1>2 DEF Flocks, Holders, Numbers, Locked, Others
<1>3. CASE NextJob \/ TakeCpu \/ WaitForCpu \/ UNCHANGED vars
  BY Zenon, <1>3 DEF Flocks, Holders, Numbers, NextJob, TakeCpu, WaitForCpu, vars
<1>4. ASSUME StartEx PROVE \E j \in Jobs : Unlocked(j)
  <2>1. PICK j \in Jobs : j = job
    BY Zenon, <1>4 DEF StartEx
  <2>2. Unlocked(j)
    BY Zenon, <1>4, <2>1 DEF StartEx, Allocation, Unlocked, Others
  <2> QED BY Zenon, <2>2
<1>5. ASSUME NEW j \in Jobs,
             OpenCid(j) \/ LockCid(j) \/ MakeDir(j) \/ WaitForDir(j)
               \/ UnlockCid(j) \/ RemoveCid(j) \/ ReleaseWorkers(j)
      PROVE  Unlocked(j)
  BY Zenon, <1>5 DEF Unlocked, Others, OpenCid, LockCid, MakeDir, WaitForDir, UnlockCid,
              RemoveCid, ReleaseWorkers
<1>6. ASSUME NEW j \in Jobs, ListCids(j) PROVE Unlocked(j)
  BY Zenon, <1>6 DEF Unlocked, Others, ListCids
<1>7. ASSUME NEW j \in Jobs,
             RunContainer(j) \/ OpenTar(j) \/ LockTar(j) \/ Tar(j)
      PROVE  Locked(j)
  BY Zenon, <1>7 DEF Locked, Others, RunContainer, OpenTar, LockTar, Tar
<1>8. ASSUME NEW j \in Jobs, FlockCache(j) PROVE Flocks'
  <2>1. CASE IsLocked(j, "cache")
    BY Zenon, <1>1, <1>8, <2>1 DEF FlockCache, Unlocked, Others
  <2>2. CASE ~IsLocked(j, "cache")
    <3>1. /\ locked'["cache"] = locked["cache"] \cup {j} /\ locked'["ar"] = locked["ar"]
          /\ cid' = cid /\ pc[j] = "flock" /\ pc'[j] = "flock2"
          /\ \A k \in Jobs : k # j => pc'[k] = pc[k]
      BY Zenon, <1>8, <2>2 DEF FlockCache
    <3>2. \A k \in locked["cache"] : cid[k]["cache"] # cid[j]["cache"]
      BY Zenon, <2>2 DEF IsLocked
    <3>3. Holders'
      BY Zenon, <3>1 DEF Flocks, Holders
    <3>4. Numbers'
      BY <3>1, <3>2 DEF Flocks, Numbers
    <3> QED BY Zenon, <3>3, <3>4 DEF Flocks
  <2> QED BY Zenon, <2>1, <2>2
<1>9. ASSUME NEW j \in Jobs, FlockAr(j) PROVE Flocks'
  <2>1. CASE IsLocked(j, "ar")
    <3>1. /\ locked'["cache"] = locked["cache"] \ {j} /\ locked'["ar"] = locked["ar"]
          /\ cid' = cid /\ pc[j] = "flock2" /\ pc'[j] = "open"
          /\ \A k \in Jobs : k # j => pc'[k] = pc[k]
      BY Zenon, <1>9, <2>1 DEF FlockAr
    <3>2. Holders'
      BY SMTT(20), <3>1 DEF Flocks, Holders
    <3>3. Numbers'
      BY <3>1 DEF Flocks, Numbers
    <3> QED BY Zenon, <3>2, <3>3 DEF Flocks
  <2>2. CASE ~IsLocked(j, "ar")
    <3>1. /\ locked'["ar"] = locked["ar"] \cup {j} /\ locked'["cache"] = locked["cache"]
          /\ cid' = cid /\ pc[j] = "flock2" /\ pc'[j] = "run"
          /\ \A k \in Jobs : k # j => pc'[k] = pc[k]
      BY Zenon, <1>9, <2>2 DEF FlockAr
    <3>2. \A k \in locked["ar"] : cid[k]["ar"] # cid[j]["ar"]
      BY Zenon, <2>2 DEF IsLocked
    <3>3. Holders'
      BY <3>1 DEF Flocks, Holders
    <3>4. Numbers'
      BY <3>1, <3>2 DEF Flocks, Numbers
    <3> QED BY Zenon, <3>3, <3>4 DEF Flocks
  <2> QED BY Zenon, <2>1, <2>2
<1>10. ASSUME NEW j \in Jobs, RemoveShared(j) \/ MoveShared(j) \/ ExitLaunch(j)
       PROVE  Flocks'
  <2>1. /\ \A d \in Dirs : locked'[d] \in {locked[d], locked[d] \ {j}}
        /\ cid' = cid /\ ~HoldsCache(j)'
        /\ \A k \in Jobs : k # j => pc'[k] = pc[k]
        /\ pc'[j] = "exit" \/ j \notin locked'["cache"] \cup locked'["ar"]
    BY <1>10 DEF RemoveShared, MoveShared, ExitLaunch
  <2>2. Holders'
    BY SMTT(40), <2>1 DEF Flocks, Holders
  <2>3. Numbers'
    BY <2>1 DEF Flocks, Numbers
  <2> QED BY Zenon, <2>2, <2>3 DEF Flocks
<1> QED
  BY Zenon, <1>1, <1>2, <1>3, <1>4, <1>5, <1>6, <1>7, <1>8, <1>9, <1>10
  DEF Next, Main, Job

-----------------------------------------------------------------------------
(* The mutexes                                                              *)

\* Whoever stops being the one that removes a file removes it.
LEMMA RemovalStep == TypeOK /\ Allocation /\ Removal /\ [Next]_vars => Removal'
<1> SUFFICES ASSUME TypeOK, Allocation, Removal, [Next]_vars PROVE Removal'
  BY Zenon
<1> USE ModeAssumption DEF Removal, RemovesCid, RemovesTar, Packs, TypeOK, Muxes,
        Goto, main, files
<1>0. CASE StartEx
  <2>1. /\ UNCHANGED path /\ pc[job] = "ready" /\ pc'[job] = "open"
        /\ \A k \in Jobs : k # job => pc'[k] = pc[k]
    BY Zenon, <1>0 DEF StartEx, Allocation
  <2> QED BY Zenon, <2>1
<1>1. CASE NextJob \/ TakeCpu \/ WaitForCpu \/ UNCHANGED vars
  BY Zenon, <1>1 DEF NextJob, TakeCpu, WaitForCpu, vars
<1>2. ASSUME NEW j \in Jobs, OpenCid(j) PROVE Removal'
  BY Zenon, <1>2 DEF OpenCid, OpenMux
<1>3. ASSUME NEW j \in Jobs, RemoveCid(j) PROVE Removal'
  BY Zenon, <1>3 DEF RemoveCid, RemoveMux
<1>4. ASSUME NEW j \in Jobs, OpenTar(j) PROVE Removal'
  BY Zenon, <1>4 DEF OpenTar, OpenMux
<1>5. ASSUME NEW j \in Jobs, ExitLaunch(j) PROVE Removal'
  BY Zenon, <1>5 DEF ExitLaunch, RemoveMux
<1>6. ASSUME NEW j \in Jobs,
             LockCid(j) \/ ListCids(j) \/ MakeDir(j) \/ WaitForDir(j) \/ UnlockCid(j)
      PROVE  Removal'
  BY ZenonT(40), <1>6 DEF LockCid, LockMux, ListCids, MakeDir, WaitForDir, UnlockCid, UnlockMux
<1>7. ASSUME NEW j \in Jobs,
             FlockCache(j) \/ FlockAr(j) \/ RunContainer(j) \/ MoveShared(j)
               \/ ReleaseWorkers(j)
      PROVE  Removal'
  BY <1>7 DEF FlockCache, FlockAr, RunContainer, MoveShared, ReleaseWorkers
<1>8. ASSUME NEW j \in Jobs, LockTar(j) \/ Tar(j) \/ RemoveShared(j) PROVE Removal'
  BY Zenon, <1>8 DEF LockTar, LockMux, Tar, UnlockMux, RemoveShared
<1> QED
  BY Zenon, <1>0, <1>1, <1>2, <1>3, <1>4, <1>5, <1>6, <1>7, <1>8 DEF Next, Main, Job

-----------------------------------------------------------------------------
(* The results                                                              *)

\* The invariant holds when run.sh starts.
LEMMA InitIInv == Init => IInv
<1> SUFFICES ASSUME Init PROVE IInv
  BY Zenon
<1> USE JobsAssumption DEF Init
<1>1. TypeOK
  BY Zenon, ZeroIsNoFile DEF TypeOK, Dirs, Muxes
<1>2. MadeFinite
  BY Zenon, FS_EmptySet DEF MadeFinite
<1>3. Allocation /\ CpusExclusive
  BY Zenon DEF Allocation, CpusExclusive, Running
<1>4. Flocks
  BY Zenon DEF Flocks, Holders, Numbers, HoldsCache, Launched, Dirs
<1>5. Removal
  BY Zenon DEF Removal, Packs, Muxes
<1> QED BY Zenon, <1>1, <1>2, <1>3, <1>4, <1>5 DEF IInv

\* The inductive invariant is one: types, the books of the CPUs, who holds which
\* directory, and who is going to remove the file of each mutex.
THEOREM Invariance == Spec => []IInv
<1>1. IInv /\ [Next]_vars => IInv'
  BY Zenon, TypeStep, FiniteStep, CpusStep, FlocksStep, RemovalStep DEF IInv
<1> QED BY InitIInv, <1>1, PTL DEF Spec

\* Every variable of run.sh holds a value of its kind, a number for every
\* campaign included.
THEOREM TypeCorrect == Spec => []TypeOK
<1>1. IInv => TypeOK
  BY Zenon DEF IInv
<1> QED BY Invariance, <1>1, PTL

\* allocate_workers never gives a CPU to two campaigns, and its lock file is
\* there as long as one has it.
THEOREM CpusAreExclusive == Spec => []CpusExclusive
<1>1. IInv => CpusExclusive
  BY Zenon DEF IInv
<1> QED BY Invariance, <1>1, PTL

\* Whatever mutex lets happen, two campaigns that run at the same time never
\* write to the same cache or archive directory.
THEOREM DirsAreExclusive == Spec => []DirsExclusive
<1>1. IInv => DirsExclusive
  <2> SUFFICES ASSUME IInv, NEW j \in Jobs, NEW k \in Jobs,
                      j # k, Launched(j), Launched(k), NEW d \in Dirs
               PROVE  cid[j][d] # cid[k][d]
    BY Zenon DEF DirsExclusive
  <2>1. {j, k} \subseteq locked[d]
    BY Zenon DEF IInv, Flocks, Holders, HoldsCache, Dirs
  <2> QED BY Zenon, <2>1 DEF IInv, Flocks, Numbers
<1> QED BY Invariance, <1>1, PTL

\* When all campaigns are over no lock file is left, so that cleanup does not
\* wait for one.
THEOREM NoLockIsLeft == Spec => []NoLockLeft
<1>1. IInv => NoLockLeft
  <2> SUFFICES ASSUME IInv, Over PROVE cpus = {} /\ path = [m \in Muxes |-> 0]
    BY Zenon DEF NoLockLeft
  <2>1. cpus = {}
    BY Zenon DEF IInv, Allocation, Over, Running
  <2>2. path["magma_cid"] = 0 /\ path["magma_tar"] = 0
    BY Zenon DEF IInv, Removal, RemovesCid, RemovesTar, Over
  <2>3. path \in [Muxes -> Inode]
    BY Zenon DEF IInv, TypeOK
  <2> QED BY Zenon, <2>1, <2>2, <2>3 DEF Muxes
<1> QED BY Invariance, <1>1, PTL
=============================================================================
