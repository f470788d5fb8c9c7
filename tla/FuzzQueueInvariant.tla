------------------------ MODULE FuzzQueueInvariant ------------------------
(***************************************************************************)
(* The inductive invariant of FuzzQueue; what the steps leave unchanged;   *)
(* wherever the program is, its local variables point into the queue;      *)
(* every step keeps every variable within its type; entries stay untouched *)
(* until they are queued and calibrated; and update_bitmap_score keeps the *)
(* reference counts exact.                                                 *)
(***************************************************************************)
EXTENDS FuzzQueue, FiniteSetTheorems, TLAPS

-----------------------------------------------------------------------------
(* The inductive invariant.                                                 *)

\* fuzz_one has an entry to work on.
InFuzzOne ==
  \/ pc \in {"fuzz", "recal", "trim", "trimmed", "mutate", "abandon"}
  \/ pc = "score" /\ ret \in {"recal", "trimmed", "mutate"}

\* perform_dry_run is busy with seed idx.
InDryRun == pc = "dried" \/ (pc = "score" /\ ret = "dried")

\* No entry has been selected yet.
BeforeLoop == pc \in {"seeds", "dry", "dedup"} \/ InDryRun

\* CheckSeeds has been passed.
Selecting ==
  \/ pc \in {"loop", "cycle", "rescore", "select", "scan"}
  \/ pc \in {"cull", "culling"} /\ ret = "cycle"
  \/ pc = "score" /\ ret = "rescore"
  \/ InFuzzOne

\* Where the program is, what its local variables may be.
Control ==
  /\ pc = "seeds" => idx = 0
  /\ pc \notin {"seeds", "fatal"} => queued_items > 0
  /\ pc = "score" => /\ q \in Entries
                     /\ ret \in {"dried", "recal", "trimmed", "mutate", "rescore"}
  /\ pc \in {"cull", "culling"} => ret \in {"check", "cycle"}
  /\ InFuzzOne => queue_cur \in Entries
  /\ pc = "dry" => idx <= queued_items
  /\ InDryRun => idx < queued_items
  /\ pc = "dedup" => idx < k /\ k <= queued_items
  /\ pc = "rescore" \/ (pc = "score" /\ ret = "rescore") => idx <= queued_items
  /\ pc = "scan" => idx <= queued_items /\ highest \in Entries

\* An entry is clean until it is queued, and a seed until its dry run.
Clean(e) == ~disabled[e] /\ ~was_fuzzed[e] /\ cal_failed[e] = 0

Untouched ==
  /\ \A e \in Ids \ Entries : Clean(e) /\ ~favored[e]
  /\ pc \in {"seeds"} => \A e \in Ids : Clean(e)
  /\ pc = "dry" => \A e \in Ids : e >= idx => Clean(e)
  /\ InDryRun =>
       /\ \A e \in Ids : e >= idx => ~disabled[e] /\ ~was_fuzzed[e]
       /\ \A e \in Ids : e > idx => cal_failed[e] = 0
  /\ BeforeLoop => \A e \in Ids : was_fuzzed[e] = disabled[e]

\* Nothing is favoured until cull_queue runs, after the dry run.
NoneFavored == BeforeLoop => \A e \in Ids : ~favored[e]

\* Only queued entries are top rated.
Owners == \A b \in Bytes : top_rated[b] = NULL \/ top_rated[b] \in Entries

CoveredByte(b) ==
  \E e \in Entries : favored[e] /\ (top_rated[b] = e \/ b \in trace_mini[e])

\* While cull_queue runs: the bytes that left temp_v are those of favoured
\* entries, and the bytes passed are covered.
Culling ==
  pc = "culling" =>
    /\ ~score_changed
    /\ \A b \in Bytes \ temp_v : \E e \in Entries : favored[e] /\ b \in trace_mini[e]
    /\ \A b \in Bytes : b < i /\ top_rated[b] # NULL => CoveredByte(b)

\* While the greedy scan runs: nothing passed beats the highest so far.
Scanned == pc = "scan" => \A e \in Entries : e < idx => ~Better(e, highest)

Enabled == Selecting => \E e \in Entries : ~disabled[e]

IInv ==
  /\ TypeOK /\ Control /\ Untouched /\ NoneFavored /\ Owners
  /\ RefCounts /\ CountersExact /\ FavoredCover /\ Culling /\ Scanned /\ Enabled

-----------------------------------------------------------------------------
(* What a step leaves alone                                                 *)

queue == <<queued_items, len, results, fuzzing, flags, favs, rating>>

\* Only these actions touch the queue; the others move the program counter.
LEMMA Quiet ==
  ASSUME [Next]_vars
  PROVE  \/ UNCHANGED queue
         \/ ReadTestcase \/ DryRun \/ DryRunResult \/ Dedup
         \/ ScoreByte \/ CullStart \/ CullByte \/ CullEnd
         \/ FuzzCalibrate \/ TrimShorter \/ TrimNoGain \/ Trimmed \/ Find
         \/ Abandon
<1> USE DEF queue
<1>1. CASE SeedsRead \/ SkipDryRun \/ DryRunEnd \/ DedupEnd \/ CheckSeeds
  BY Zenon, <1>1 DEF SeedsRead, SkipDryRun, DryRunEnd, DedupEnd, CheckSeeds
<1>2. CASE ScoreDone \/ LoopTop \/ Cycle \/ Rescore
  BY Zenon, <1>2 DEF ScoreDone, LoopTop, Cycle, Rescore
<1>3. CASE SelectRandom \/ SelectGreedy \/ ScanEntry \/ ScanEnd
  BY Zenon, <1>3 DEF SelectRandom, SelectGreedy, ScanEntry, ScanEnd
<1>4. CASE FuzzStart \/ LowScore \/ FuzzEnd \/ TargetError \/ Stop
  BY Zenon, <1>4 DEF FuzzStart, LowScore, FuzzEnd, TargetError, Stop
<1>5. CASE UNCHANGED vars
  BY Zenon, <1>5 DEF vars
<1> QED
  BY Zenon, <1>1, <1>2, <1>3, <1>4, <1>5
  DEF Next, Step, Seeding, Scoring, MainLoop, FuzzOne

core == <<queued_items, cal_failed, flags, favored, queued_favored,
          pending_favored, rating>>

\* Fewer still touch the flags, the counters and the rating.
LEMMA Calm ==
  ASSUME [Next]_vars
  PROVE  \/ UNCHANGED core
         \/ ReadTestcase \/ DryRun \/ DryRunResult \/ Dedup
         \/ ScoreByte \/ CullStart \/ CullByte \/ FuzzCalibrate \/ Find
         \/ Abandon
<1>1. CASE UNCHANGED queue
  BY Zenon, <1>1 DEF queue, core, results, favs
<1>2. CASE CullEnd
  BY Zenon, <1>2 DEF CullEnd, core, results
<1>3. CASE TrimShorter
  BY Zenon, <1>3 DEF TrimShorter, core, results, favs
<1>4. CASE TrimNoGain
  BY Zenon, <1>4 DEF TrimNoGain, core, results, favs
<1>5. CASE Trimmed
  BY Zenon, <1>5 DEF Trimmed, core, results, favs
<1> QED
  BY Zenon, <1>1, <1>2, <1>3, <1>4, <1>5, Quiet

\* What calibrate_case does not do.
LEMMA CalibrateFrame ==
  ASSUME cal_failed \in [Ids -> 0 .. CAL_CHANCES], NEW e, NEW r, Calibrate(e, r)
  PROVE  /\ UNCHANGED <<fuzzing, favs, rating, cycle, queue_cur, stop_soon,
                        skipped_fuzz, idx, k, highest, temp_v>>
         /\ \A f \in Ids : f # e => cal_failed'[f] = cal_failed[f]
         /\ \/ pc' = r /\ UNCHANGED <<q, i, ret>>
            \/ pc' = "score" /\ ret' = r /\ q' = e
BY Zenon DEF Calibrate, CalibrateOK, CalibrateAbort

\* What the invariant says of the indices into the queue and the map.
LEMMA Ranges ==
  ASSUME TypeOK, Control
  PROVE  /\ Entries \subseteq Ids
         /\ InFuzzOne => queue_cur \in Entries
         /\ InDryRun => idx \in Entries
         /\ i < MapSize => i \in Bytes /\ i + 1 \in 0 .. MapSize
         /\ queued_items < MaxItems =>
              queued_items \in Ids \ Entries /\ queued_items + 1 \in 0 .. MaxItems
<1>1. /\ queued_items \in 0 .. MaxItems /\ idx \in Nat /\ i \in 0 .. MapSize
  BY Zenon DEF TypeOK
<1>2. (InFuzzOne => queue_cur \in Entries) /\ (InDryRun => idx < queued_items)
  BY Zenon DEF Control
<1> QED
  BY <1>1, <1>2, SizesAssumption DEF Entries, Ids, Bytes

-----------------------------------------------------------------------------
(* Control                                                                  *)

\* Wherever a step leads, the local variables point into the queue.
LEMMA ControlStep ==
  ASSUME TypeOK, Control, [Next]_vars
  PROVE  Control'
<1>0. /\ queued_items \in Nat /\ idx \in Nat /\ k \in Nat
      /\ Control
  BY SizesAssumption DEF TypeOK
<1> USE DEF Control, InFuzzOne, InDryRun, Entries, loops
<1>1. CASE ReadTestcase
  BY Zenon, <1>1, <1>0 DEF ReadTestcase, AddToQueue
<1>2. CASE SeedsRead
  BY <1>2, <1>0 DEF SeedsRead
<1>3. CASE SkipDryRun
  BY Zenon, <1>3, <1>0 DEF SkipDryRun
<1>4. CASE DryRun
  BY <1>4, <1>0 DEF DryRun, Calibrate, CalibrateOK, CalibrateAbort
<1>5. CASE DryRunResult
  BY <1>5, <1>0 DEF DryRunResult
<1>6. CASE DryRunEnd
  BY <1>6, <1>0 DEF DryRunEnd
<1>7. CASE Dedup
  BY <1>7, <1>0 DEF Dedup
<1>8. CASE DedupEnd
  BY Zenon, <1>8, <1>0 DEF DedupEnd
<1>9. CASE CheckSeeds
  BY Zenon, <1>9, <1>0 DEF CheckSeeds, NoValidSeed
<1>10. CASE ScoreByte
  BY Zenon, <1>10, <1>0 DEF ScoreByte
<1>11. CASE ScoreDone
  BY Zenon, <1>11, <1>0 DEF ScoreDone
<1>12. CASE CullStart
  BY Zenon, <1>12, <1>0 DEF CullStart
<1>13. CASE CullByte
  BY Zenon, <1>13, <1>0 DEF CullByte
<1>14. CASE CullEnd
  BY Zenon, <1>14, <1>0 DEF CullEnd
<1>15. CASE LoopTop
  BY Zenon, <1>15, <1>0 DEF LoopTop
<1>16. CASE Cycle
  BY <1>16, <1>0 DEF Cycle
<1>17. CASE Rescore
  BY <1>17, <1>0 DEF Rescore
<1>18. CASE SelectRandom
  BY Zenon, <1>18, <1>0 DEF SelectRandom
<1>19. CASE SelectGreedy
  BY <1>19, <1>0 DEF SelectGreedy
<1>20. CASE ScanEntry
  <2>1. /\ pc = "scan" /\ idx < queued_items /\ highest' \in {highest, idx}
        /\ UNCHANGED <<queued_items, pc>> /\ idx' = idx + 1
    BY Zenon, <1>20 DEF ScanEntry
  <2> QED
    BY <1>0, <2>1
<1>21. CASE ScanEnd
  BY Zenon, <1>21, <1>0 DEF ScanEnd
<1>22. CASE FuzzCalibrate
  BY Zenon, <1>22, <1>0 DEF FuzzCalibrate, Calibrate, CalibrateOK, CalibrateAbort
<1>23. CASE FuzzStart
  BY Zenon, <1>23, <1>0 DEF FuzzStart
<1>24. CASE TrimShorter
  BY Zenon, <1>24, <1>0 DEF TrimShorter
<1>25. CASE TrimNoGain
  BY Zenon, <1>25, <1>0 DEF TrimNoGain
<1>26. CASE Trimmed
  BY Zenon, <1>26, <1>0 DEF Trimmed
<1>27. CASE LowScore
  BY Zenon, <1>27, <1>0 DEF LowScore
<1>28. CASE Find
  BY <1>28, <1>0 DEF Find, Calibrate, CalibrateOK, CalibrateAbort, AddToQueue
<1>29. CASE FuzzEnd
  BY Zenon, <1>29, <1>0 DEF FuzzEnd
<1>30. CASE Abandon
  BY Zenon, <1>30, <1>0 DEF Abandon, AfterFuzz
<1>31. CASE TargetError
  BY Zenon, <1>31, <1>0 DEF TargetError
<1>32. CASE Stop
  BY Zenon, <1>32, <1>0 DEF Stop
<1>33. CASE UNCHANGED vars
  BY ZenonT(40), <1>33, <1>0 DEF vars
<1> QED
  BY Zenon, <1>1, <1>2, <1>3, <1>4, <1>5, <1>6, <1>7, <1>8, <1>9, <1>10, <1>11,
     <1>12, <1>13, <1>14, <1>15, <1>16, <1>17, <1>18, <1>19, <1>20, <1>21,
     <1>22, <1>23, <1>24, <1>25, <1>26, <1>27, <1>28, <1>29, <1>30, <1>31,
     <1>32, <1>33
  DEF Next, Step, Seeding, Scoring, MainLoop, FuzzOne

\* How the program moves between its phases.
Flow ==
  /\ BeforeLoop' => BeforeLoop
  /\ pc' = "seeds" => pc = "seeds"
  /\ pc' = "dry" => pc = "seeds" \/ (pc = "dry" /\ UNCHANGED idx) \/ DryRunResult
  /\ InDryRun' => DryRun \/ (InDryRun /\ UNCHANGED idx)
  /\ Selecting' => Selecting \/ CheckSeeds
  /\ pc' = "culling" =>
       CullStart \/ CullByte \/ (pc = "culling" /\ UNCHANGED <<i, temp_v>>)
  /\ pc = "culling" => pc' = "culling" \/ CullEnd
  /\ pc' = "scan" =>
       \/ SelectGreedy \/ ScanEntry
       \/ pc = "scan" /\ UNCHANGED <<idx, highest, bitmap_weight, fuzz_level>>

\* Every step of afl-fuzz follows that flow.
LEMMA FlowStep ==
  ASSUME TypeOK, Control, [Next]_vars
  PROVE  Flow
<1>0. Control
  BY Zenon
<1>cal. \A e, r : Calibrate(e, r) =>
          UNCHANGED idx /\ (pc' = r \/ (pc' = "score" /\ ret' = r))
  BY DEF Calibrate, CalibrateOK, CalibrateAbort
<1> USE DEF Flow, BeforeLoop, InDryRun, Selecting, InFuzzOne, results, fuzzing,
            loops
<1>1. CASE ReadTestcase
  BY Zenon, <1>1, <1>0 DEF ReadTestcase
<1>2. CASE SeedsRead
  BY Zenon, <1>2, <1>0 DEF SeedsRead
<1>3. CASE SkipDryRun
  BY Zenon, <1>3, <1>0 DEF SkipDryRun
<1>4. CASE DryRun
  BY <1>4, <1>0, <1>cal DEF DryRun
<1>5. CASE DryRunResult
  BY Zenon, <1>5, <1>0 DEF DryRunResult
<1>6. CASE DryRunEnd
  BY Zenon, <1>6, <1>0 DEF DryRunEnd
<1>7. CASE Dedup
  BY Zenon, <1>7, <1>0 DEF Dedup
<1>8. CASE DedupEnd
  BY Zenon, <1>8, <1>0 DEF DedupEnd
<1>9. CASE CheckSeeds
  BY Zenon, <1>9, <1>0 DEF CheckSeeds
<1>10. CASE ScoreByte
  BY Zenon, <1>10, <1>0 DEF ScoreByte
<1>11. CASE ScoreDone
  BY Zenon, <1>11, <1>0 DEF ScoreDone, Control
<1>12. CASE CullStart
  BY Zenon, <1>12, <1>0 DEF CullStart, Control
<1>13. CASE CullByte
  BY Zenon, <1>13, <1>0 DEF CullByte
<1>14. CASE CullEnd
  BY Zenon, <1>14, <1>0 DEF CullEnd, Control
<1>15. CASE LoopTop
  BY Zenon, <1>15, <1>0 DEF LoopTop
<1>16. CASE Cycle
  BY Zenon, <1>16, <1>0 DEF Cycle
<1>17. CASE Rescore
  BY Zenon, <1>17, <1>0 DEF Rescore
<1>18. CASE SelectRandom
  BY Zenon, <1>18, <1>0 DEF SelectRandom
<1>19. CASE SelectGreedy
  BY Zenon, <1>19, <1>0 DEF SelectGreedy
<1>20. CASE ScanEntry
  BY Zenon, <1>20, <1>0 DEF ScanEntry
<1>21. CASE ScanEnd
  BY Zenon, <1>21, <1>0 DEF ScanEnd
<1>22. CASE FuzzCalibrate
  BY <1>22, <1>0, <1>cal DEF FuzzCalibrate
<1>23. CASE FuzzStart
  BY Zenon, <1>23, <1>0 DEF FuzzStart
<1>24. CASE TrimShorter
  BY Zenon, <1>24, <1>0 DEF TrimShorter
<1>25. CASE TrimNoGain
  BY Zenon, <1>25, <1>0 DEF TrimNoGain
<1>26. CASE Trimmed
  BY Zenon, <1>26, <1>0 DEF Trimmed
<1>27. CASE LowScore
  BY Zenon, <1>27, <1>0 DEF LowScore
<1>28. CASE Find
  BY <1>28, <1>0, <1>cal DEF Find
<1>29. CASE FuzzEnd
  BY Zenon, <1>29, <1>0 DEF FuzzEnd
<1>30. CASE Abandon
  BY Zenon, <1>30, <1>0 DEF Abandon, AfterFuzz
<1>31. CASE TargetError
  BY Zenon, <1>31, <1>0 DEF TargetError
<1>32. CASE Stop
  BY Zenon, <1>32, <1>0 DEF Stop
<1>33. CASE UNCHANGED vars
  BY Zenon, <1>33, <1>0 DEF vars
<1> QED
  BY Zenon, <1>1, <1>2, <1>3, <1>4, <1>5, <1>6, <1>7, <1>8, <1>9, <1>10, <1>11,
     <1>12, <1>13, <1>14, <1>15, <1>16, <1>17, <1>18, <1>19, <1>20, <1>21,
     <1>22, <1>23, <1>24, <1>25, <1>26, <1>27, <1>28, <1>29, <1>30, <1>31,
     <1>32, <1>33
  DEF Next, Step, Seeding, Scoring, MainLoop, FuzzOne

-----------------------------------------------------------------------------
(* Type correctness                                                         *)

\* The two halves of TypeOK.
TypeQueue ==
  /\ queued_items \in 0 .. MaxItems
  /\ len \in [Ids -> Nat]
  /\ exec_us \in [Ids -> Nat]
  /\ exec_cksum \in [Ids -> SUBSET Bytes]
  /\ bitmap_weight \in [Ids -> Nat]
  /\ fuzz_level \in [Ids -> Nat]
  /\ cal_failed \in [Ids -> 0 .. CAL_CHANCES]
  /\ trim_done \in [Ids -> BOOLEAN]
  /\ disabled \in [Ids -> BOOLEAN]
  /\ was_fuzzed \in [Ids -> BOOLEAN]
  /\ favored \in [Ids -> BOOLEAN]
  /\ fs_redundant \in [Ids -> BOOLEAN]
  /\ tc_ref \in [Ids -> Int]
  /\ trace_mini \in [Ids -> SUBSET Bytes]
  /\ top_rated \in [Bytes -> Ids \cup {NULL}]
  /\ score_changed \in BOOLEAN
  /\ active_items \in Int /\ pending_not_fuzzed \in Int
  /\ queued_favored \in Int /\ pending_favored \in Int

TypeLocals ==
  /\ trace_bits \in SUBSET Bytes
  /\ schedule \in Powers
  /\ queue_cur \in Ids \cup {NULL}
  /\ stop_soon \in BOOLEAN
  /\ runs \in Nat
  /\ skipped_fuzz \in BOOLEAN
  /\ res \in {"OK", "NOBITS", "TMOUT", "CRASH", "NOINST"}
  /\ temp_v \in SUBSET Bytes
  /\ pc \in Labels /\ ret \in Labels \cup {"none"}
  /\ q \in Ids \cup {NULL}
  /\ i \in 0 .. MapSize
  /\ idx \in Nat /\ k \in Nat
  /\ highest \in Ids \cup {0}

\* TypeOK is the two together.
LEMMA TypeSplit == TypeOK <=> TypeQueue /\ TypeLocals
BY Zenon DEF TypeOK, TypeQueue, TypeLocals

\* The type of what calibrate_case changes.
Calibrated ==
  /\ exec_us \in [Ids -> Nat]
  /\ exec_cksum \in [Ids -> SUBSET Bytes]
  /\ bitmap_weight \in [Ids -> Nat]
  /\ cal_failed \in [Ids -> 0 .. CAL_CHANCES]
  /\ trace_bits \in SUBSET Bytes
  /\ res \in {"OK", "NOBITS", "TMOUT", "CRASH", "NOINST"}
  /\ q \in Ids \cup {NULL} /\ i \in 0 .. MapSize
  /\ pc \in Labels /\ ret \in Labels \cup {"none"}

\* Whatever the target does, calibrate_case leaves values of the right type.
LEMMA CalibrateType ==
  ASSUME TypeOK, NEW e \in Ids, NEW r \in Labels, cal_failed[e] < CAL_CHANCES,
         Calibrate(e, r)
  PROVE  Calibrated'
<1> USE SizesAssumption, WeightsAssumption DEF Calibrated, TypeOK
<1>1. CASE CalibrateOK(e, r)
  <2>0. PICK last \in Traces, us \in Times, f \in {"OK", "NOBITS"} :
          \E first \in IF Unstable THEN Traces ELSE {last} :
            /\ exec_cksum' = [exec_cksum EXCEPT ![e] = first]
            /\ exec_us' = [exec_us EXCEPT ![e] = us]
            /\ bitmap_weight' = [bitmap_weight EXCEPT ![e] = Weights[last]]
            /\ cal_failed' = [cal_failed EXCEPT ![e] = 0]
            /\ trace_bits' = last
            /\ res' = Result(r, f)
            /\ q' = e /\ i' = 0
            /\ pc' = "score" /\ ret' = r
    BY <1>1, Zenon DEF CalibrateOK
  <2>1. PICK first \in SUBSET Bytes :
          /\ exec_cksum' = [exec_cksum EXCEPT ![e] = first]
          /\ exec_us' = [exec_us EXCEPT ![e] = us]
          /\ bitmap_weight' = [bitmap_weight EXCEPT ![e] = Weights[last]]
          /\ cal_failed' = [cal_failed EXCEPT ![e] = 0]
          /\ trace_bits' = last
          /\ res' = Result(r, f)
          /\ q' = e /\ i' = 0
          /\ pc' = "score" /\ ret' = r
    BY Zenon, <2>0 DEF Traces
  <2>2. last \in SUBSET Bytes /\ us \in Nat /\ Weights[last] \in Nat
    BY Zenon, <2>0 DEF Traces
  <2> QED
    BY <2>1, <2>2 DEF Result, Labels, CAL_CHANCES
<1>2. CASE CalibrateAbort(e, r)
  BY <1>2 DEF CalibrateAbort, Clobbered, Result, CAL_CHANCES
<1> QED
  BY Zenon, <1>1, <1>2 DEF Calibrate

\* No call of calibrate_case exceeds CAL_CHANCES.
LEMMA Calibrations ==
  ASSUME TypeOK, Control, Untouched, DryRun \/ FuzzCalibrate \/ Find
  PROVE  Calibrated'
<1>1. CASE DryRun
  <2>1. idx \in Ids /\ cal_failed[idx] = 0
    <3>1. idx \in Ids
      BY <1>1, Ranges DEF DryRun, TypeOK, Entries
    <3> QED
      BY <1>1, <3>1 DEF DryRun, Untouched, Clean, TypeOK
  <2>2. "dried" \in Labels /\ cal_failed[idx] < CAL_CHANCES
    BY <2>1 DEF Labels, CAL_CHANCES
  <2>3. Calibrate(idx, "dried")
    BY Zenon, <1>1 DEF DryRun
  <2> QED
    BY Zenon, <2>1, <2>2, <2>3, CalibrateType
<1>2. CASE FuzzCalibrate
  <2>1. queue_cur \in Ids
    BY Zenon, <1>2, Ranges DEF FuzzCalibrate, InFuzzOne
  <2>2. Calibrate(queue_cur, "recal")
    BY Zenon, <1>2 DEF FuzzCalibrate
  <2>3. cal_failed[queue_cur] < CAL_CHANCES /\ "recal" \in Labels
    BY <1>2 DEF FuzzCalibrate, MayCalibrate, CAL_CHANCES, Labels
  <2> QED
    BY Zenon, <2>1, <2>2, <2>3, CalibrateType
<1>3. CASE Find
  <2>1. queued_items \in Ids \ Entries /\ Calibrate(queued_items, "mutate")
    BY Zenon, <1>3, Ranges DEF Find
  <2>2. cal_failed[queued_items] < CAL_CHANCES /\ "mutate" \in Labels
    BY <2>1 DEF Untouched, Clean, CAL_CHANCES, Labels
  <2> QED
    BY Zenon, <2>1, <2>2, CalibrateType
<1> QED
  BY Zenon, <1>1, <1>2, <1>3

\* Every step keeps the types of the queue.
LEMMA TypeQueueStep ==
  ASSUME TypeOK, Control, Untouched, [Next]_vars
  PROVE  TypeQueue'
<1>0. TypeQueue
  BY Zenon, TypeSplit
<1>ids. /\ Entries \subseteq Ids
        /\ InFuzzOne => queue_cur \in Ids
        /\ InDryRun => idx \in Ids
        /\ i < MapSize => i \in Bytes
        /\ queued_items < MaxItems =>
             queued_items \in Ids \ Entries /\ queued_items + 1 \in 0 .. MaxItems
  BY Zenon, Ranges
<1>1. CASE UNCHANGED queue
  BY Zenon, <1>0, <1>1
  DEF queue, results, fuzzing, flags, favs, rating, TypeQueue
<1>2. ASSUME NEW l \in Nat, AddToQueue(l), queued_items < MaxItems
      PROVE  /\ queued_items' \in 0 .. MaxItems /\ len' \in [Ids -> Nat]
             /\ active_items' \in Int /\ pending_not_fuzzed' \in Int
             /\ UNCHANGED <<disabled, was_fuzzed>>
  BY <1>0, <1>ids, <1>2 DEF AddToQueue, TypeQueue
<1>3. ASSUME NEW e \in Ids, Disable(e)
      PROVE  /\ disabled' \in [Ids -> BOOLEAN] /\ was_fuzzed' \in [Ids -> BOOLEAN]
             /\ active_items' \in Int /\ pending_not_fuzzed' \in Int
  BY <1>0, <1>3 DEF Disable, TypeQueue
<1>4. CASE ReadTestcase
  <2>1. PICK l \in Nat : AddToQueue(l)
    BY <1>4 DEF ReadTestcase
  <2>2. queued_items < MaxItems
    BY <1>0, <1>4, SizesAssumption DEF ReadTestcase, TypeQueue
  <2>3. UNCHANGED <<results, fuzzing, favs, rating>>
    BY Zenon, <1>4 DEF ReadTestcase
  <2> QED
    BY Zenon, <1>0, <1>2, <2>1, <2>2, <2>3
    DEF TypeQueue, results, fuzzing, favs, rating
<1>5. CASE DryRun
  <2>1. /\ Calibrated' /\ Calibrate(idx, "dried")
        /\ UNCHANGED <<queued_items, len, flags>>
    BY Zenon, <1>5, Calibrations DEF DryRun
  <2> QED
    BY Zenon, <1>0, <2>1
    DEF Calibrate, Calibrated, TypeQueue, fuzzing, flags, favs, rating
<1>6. CASE DryRunResult
  <2>1. idx \in Ids
    BY Zenon, <1>6, <1>ids DEF DryRunResult, InDryRun
  <2>2. UNCHANGED flags \/ Disable(idx)
    BY Zenon, <1>6 DEF DryRunResult
  <2>3. /\ disabled' \in [Ids -> BOOLEAN] /\ was_fuzzed' \in [Ids -> BOOLEAN]
        /\ active_items' \in Int /\ pending_not_fuzzed' \in Int
    BY Zenon, <1>0, <1>3, <2>1, <2>2 DEF TypeQueue, flags
  <2>4. cal_failed' \in [Ids -> 0 .. CAL_CHANCES]
    <3>1. cal_failed' \in {cal_failed, [cal_failed EXCEPT ![idx] = CAL_CHANCES]}
      BY Zenon, <1>6 DEF DryRunResult
    <3> QED
      BY <1>0, <2>1, <3>1 DEF TypeQueue, CAL_CHANCES
  <2>5. UNCHANGED <<queued_items, len, exec_us, exec_cksum, bitmap_weight,
                    fuzzing, favs, rating>>
    BY Zenon, <1>6 DEF DryRunResult
  <2> QED
    BY Zenon, <1>0, <2>3, <2>4, <2>5 DEF TypeQueue, fuzzing, favs, rating
<1>7. CASE Dedup
  <2>1. UNCHANGED flags \/ \E e \in Entries : Disable(e)
    BY <1>7, TypeSplit DEF Dedup, Control, Entries, TypeQueue, TypeLocals
  <2>2. /\ disabled' \in [Ids -> BOOLEAN] /\ was_fuzzed' \in [Ids -> BOOLEAN]
        /\ active_items' \in Int /\ pending_not_fuzzed' \in Int
    BY Zenon, <1>0, <1>3, <1>ids, <2>1 DEF TypeQueue, flags
  <2>3. UNCHANGED <<queued_items, len, results, fuzzing, favs, rating>>
    BY Zenon, <1>7 DEF Dedup
  <2> QED
    BY Zenon, <1>0, <2>2, <2>3 DEF TypeQueue, results, fuzzing, favs, rating
<1>8. CASE ScoreByte
  <2>1. q \in Ids /\ i \in Bytes /\ trace_bits \in SUBSET Bytes
    BY Zenon, <1>8, <1>ids, TypeSplit DEF ScoreByte, Control, TypeLocals
  <2>2. TakeByte(q, i) \/ UNCHANGED rating
    BY Zenon, <1>8 DEF ScoreByte
  <2>3. /\ tc_ref' \in [Ids -> Int] /\ trace_mini' \in [Ids -> SUBSET Bytes]
        /\ top_rated' \in [Bytes -> Ids \cup {NULL}]
        /\ score_changed' \in BOOLEAN
    <3>1. CASE UNCHANGED rating
      BY Zenon, <1>0, <3>1 DEF TypeQueue, rating
    <3>2. CASE TakeByte(q, i)
      <4>1. top_rated[i] \in Ids \cup {NULL}
        BY Zenon, <1>0, <2>1 DEF TypeQueue
      <4>2. Released(tc_ref, top_rated[i]) \in [Ids -> Int]
        BY <1>0, <4>1 DEF TypeQueue, Released
      <4>3. Freed(tc_ref, top_rated[i]) \in [Ids -> SUBSET Bytes]
        BY Zenon, <1>0, <4>1 DEF TypeQueue, Freed
      <4> QED
        BY <1>0, <2>1, <3>2, <4>2, <4>3 DEF TypeQueue, TakeByte
    <3> QED
      BY Zenon, <2>2, <3>1, <3>2
  <2>4. UNCHANGED <<queued_items, len, results, fuzzing, flags, favs>>
    BY Zenon, <1>8 DEF ScoreByte
  <2> QED
    BY Zenon, <1>0, <2>3, <2>4 DEF TypeQueue, results, fuzzing, flags, favs
<1>9. CASE CullStart
  <2>1. /\ queued_favored' \in {0, queued_favored}
        /\ pending_favored' \in {0, pending_favored}
        /\ score_changed' \in {FALSE, score_changed}
        /\ favored' \in {favored, [e \in Ids |-> FALSE]}
    BY Zenon, <1>9 DEF CullStart
  <2>2. queued_favored' \in Int /\ pending_favored' \in Int
    BY <1>0, <2>1 DEF TypeQueue
  <2>3. favored' \in [Ids -> BOOLEAN] /\ score_changed' \in BOOLEAN
    BY <1>0, <2>1, Zenon DEF TypeQueue
  <2>4. UNCHANGED <<queued_items, len, results, fuzzing, flags, fs_redundant,
                    tc_ref, trace_mini, top_rated>>
    BY Zenon, <1>9 DEF CullStart
  <2> QED
    BY Zenon, <1>0, <2>2, <2>3, <2>4 DEF TypeQueue, results, fuzzing, flags
<1>10. CASE CullByte
  <2>1. UNCHANGED <<queued_items, len, results, fuzzing, flags, fs_redundant,
                    rating>>
    BY Zenon, <1>10 DEF CullByte
  <2>2. CASE Uncaptured(i)
    <3>1. top_rated[i] \in Ids /\ Favor(top_rated[i])
      BY Zenon, <1>0, <1>10, <1>ids, <2>2 DEF CullByte, Uncaptured, TypeQueue
    <3>2. favored' \in [Ids -> BOOLEAN]
      BY Zenon, <1>0, <3>1 DEF Favor, TypeQueue
    <3>3. queued_favored' \in Int /\ pending_favored' \in Int
      BY <1>0, <3>1 DEF Favor, TypeQueue
    <3> QED
      BY Zenon, <1>0, <2>1, <3>2, <3>3
      DEF TypeQueue, results, fuzzing, flags, rating
  <2>3. CASE ~Uncaptured(i)
    <3>1. UNCHANGED <<favored, queued_favored, pending_favored>>
      BY Zenon, <1>10, <2>3 DEF CullByte
    <3> QED
      BY Zenon, <1>0, <2>1, <3>1 DEF TypeQueue, results, fuzzing, flags, rating
  <2> QED
    BY Zenon, <2>2, <2>3
<1>11. CASE CullEnd
  <2>1. fs_redundant' \in [Ids -> BOOLEAN]
    BY Zenon, <1>0, <1>11 DEF CullEnd, TypeQueue
  <2>2. UNCHANGED <<queued_items, len, results, fuzzing, flags, favored,
                    queued_favored, pending_favored, rating>>
    BY Zenon, <1>11 DEF CullEnd
  <2> QED
    BY Zenon, <1>0, <2>1, <2>2 DEF TypeQueue, results, fuzzing, flags, rating
<1>12. CASE FuzzCalibrate
  <2>1. /\ Calibrated' /\ Calibrate(queue_cur, "recal")
        /\ UNCHANGED <<queued_items, len, flags>>
    BY Zenon, <1>12, Calibrations DEF FuzzCalibrate
  <2> QED
    BY Zenon, <1>0, <2>1
    DEF Calibrate, Calibrated, TypeQueue, fuzzing, flags, favs, rating
<1>13. CASE TrimShorter \/ TrimNoGain
  <2>1. queue_cur \in Ids
    BY Zenon, <1>13, <1>ids DEF TrimShorter, TrimNoGain, InFuzzOne
  <2>2. \E l \in Nat : len' = [len EXCEPT ![queue_cur] = l]
    <3>1. len[queue_cur] \in Nat
      BY Zenon, <1>0, <2>1 DEF TypeQueue
    <3> QED
      BY SMTT(40), <1>13, <3>1 DEF TrimShorter, TrimNoGain
  <2>3. UNCHANGED <<queued_items, results, fuzzing, flags, favs, rating>>
    BY Zenon, <1>13 DEF TrimShorter, TrimNoGain
  <2> QED
    BY Zenon, <1>0, <2>1, <2>2, <2>3
    DEF TypeQueue, results, fuzzing, flags, favs, rating
<1>14. CASE Trimmed
  <2>1. trim_done' \in {trim_done, [trim_done EXCEPT ![queue_cur] = TRUE]}
    BY Zenon, <1>14 DEF Trimmed
  <2>2. trim_done' \in [Ids -> BOOLEAN]
    BY Zenon, <1>0, <2>1 DEF TypeQueue
  <2>3. UNCHANGED <<queued_items, len, results, fuzz_level, flags, favs, rating>>
    BY Zenon, <1>14 DEF Trimmed
  <2> QED
    BY Zenon, <1>0, <2>2, <2>3 DEF TypeQueue, results, flags, favs, rating
<1>15. CASE Find
  <2>1. PICK l \in Nat : AddToQueue(l)
    BY <1>15 DEF Find
  <2>2. /\ Calibrated' /\ Calibrate(queued_items, "mutate")
        /\ queued_items < MaxItems
    BY Zenon, <1>15, Calibrations DEF Find
  <2> QED
    BY Zenon, <1>0, <1>2, <2>1, <2>2
    DEF Calibrate, Calibrated, TypeQueue, fuzzing, favs, rating
<1>16. CASE Abandon
  <2>1. queue_cur \in Ids
    BY Zenon, <1>16, <1>ids DEF Abandon, InFuzzOne
  <2>2. was_fuzzed' \in [Ids -> BOOLEAN]
    BY Zenon, <1>0, <1>16, <2>1 DEF Abandon, Done, TypeQueue
  <2>3. fuzz_level' \in [Ids -> Nat]
    BY <1>0, <1>16, <2>1 DEF Abandon, TypeQueue
  <2>4. pending_not_fuzzed' \in Int /\ pending_favored' \in Int
    BY <1>0, <1>16 DEF Abandon, TypeQueue
  <2>5. UNCHANGED <<queued_items, len, results, trim_done, disabled,
                    active_items, favored, fs_redundant, queued_favored, rating>>
    BY Zenon, <1>16 DEF Abandon
  <2> QED
    BY Zenon, <1>0, <2>2, <2>3, <2>4, <2>5 DEF TypeQueue, results, rating
<1> QED
  BY Zenon, <1>1, <1>4, <1>5, <1>6, <1>7, <1>8, <1>9, <1>10, <1>11, <1>12, <1>13,
     <1>14, <1>15, <1>16, Quiet

\* Every step keeps the types of everything else.
LEMMA TypeLocalsStep ==
  ASSUME TypeOK, Control, Untouched, [Next]_vars
  PROVE  TypeLocals'
<1>0. TypeOK /\ Control /\ Untouched
  BY Zenon
<1>0a. TypeLocals
  BY Zenon, TypeSplit
<1>0b. queued_items \in 0 .. MaxItems
  BY Zenon DEF TypeOK
<1> USE DEF TypeLocals, cycle, loops
<1>1. CASE ReadTestcase
  BY Zenon, <1>1, <1>0a, SizesAssumption DEF ReadTestcase, AddToQueue
<1>2. CASE SeedsRead
  BY <1>2, <1>0a, SizesAssumption DEF SeedsRead, Labels
<1>3. CASE SkipDryRun
  BY Zenon, <1>3, <1>0a, SizesAssumption DEF SkipDryRun, Labels
<1>4. CASE DryRun
  <2>1. Calibrated' /\ Calibrate(idx, "dried")
    BY Zenon, <1>4, <1>0, Calibrations DEF DryRun
  <2> QED
    BY Zenon, <1>0a, <2>1 DEF Calibrate, Calibrated
<1>5. CASE DryRunResult
  <2>1. pc' \in Labels /\ ret' \in {ret, "check"} /\ idx' \in {idx, 0, idx + 1}
    BY Zenon, <1>5 DEF DryRunResult, Labels
  <2>2. UNCHANGED <<cycle, trace_bits, queue_cur, stop_soon, skipped_fuzz, q, i,
                    k, highest, temp_v>> /\ res' = "OK"
    BY Zenon, <1>5 DEF DryRunResult
  <2>3. "check" \in Labels
    BY Zenon DEF Labels
  <2> QED
    BY <1>0a, <2>1, <2>2, <2>3
<1>6. CASE DryRunEnd
  BY <1>6, <1>0a, SizesAssumption DEF DryRunEnd, Labels
<1>7. CASE Dedup
  <2>1. idx' \in {idx, idx + 1} /\ k' \in {idx + 2, k + 1}
    BY Zenon, <1>7 DEF Dedup
  <2>2. UNCHANGED <<cycle, trace_bits, queue_cur, stop_soon, skipped_fuzz, res,
                    pc, ret, q, i, highest, temp_v>>
    BY Zenon, <1>7 DEF Dedup
  <2> QED
    BY <1>0a, <2>1, <2>2
<1>8. CASE DedupEnd
  BY Zenon, <1>8, <1>0a, SizesAssumption DEF DedupEnd, Labels
<1>9. CASE CheckSeeds
  BY <1>9, <1>0a, SizesAssumption DEF CheckSeeds, Labels
<1>10. CASE ScoreByte
  <2>1. i' \in 0 .. MapSize
    BY Zenon, <1>10, <1>0, Ranges DEF ScoreByte
  <2>2. UNCHANGED <<cycle, trace_bits, queue_cur, stop_soon, skipped_fuzz, res,
                    pc, ret, q, idx, k, highest, temp_v>>
    BY Zenon, <1>10 DEF ScoreByte
  <2> QED
    BY Zenon, <1>0a, <2>1, <2>2
<1>11. CASE ScoreDone
  <2>1. ret \in Labels
    BY Zenon, <1>11, <1>0 DEF ScoreDone, Control, Labels
  <2>2. /\ pc' = ret /\ ret' = "none" /\ q' = NULL /\ i' = 0
        /\ trace_bits' \subseteq trace_bits
    BY Zenon, <1>11 DEF ScoreDone
  <2>3. UNCHANGED <<cycle, queue_cur, stop_soon, skipped_fuzz, res, idx, k,
                    highest, temp_v>>
    BY Zenon, <1>11 DEF ScoreDone
  <2> QED
    BY SMTT(40), <1>0a, <2>1, <2>2, <2>3, SizesAssumption
<1>12. CASE CullStart
  <2>1. ret \in Labels /\ "culling" \in Labels
    BY Zenon, <1>12, <1>0 DEF CullStart, Control, Labels
  <2>2. /\ temp_v' \in {Bytes, temp_v} /\ i' \in {0, i}
        /\ pc' \in Labels /\ ret' \in {ret, "none"}
    BY Zenon, <1>12, <2>1 DEF CullStart
  <2>3. UNCHANGED <<cycle, trace_bits, queue_cur, stop_soon, skipped_fuzz, res,
                    q, idx, k, highest>>
    BY Zenon, <1>12 DEF CullStart
  <2> QED
    BY <1>0a, <2>2, <2>3, SizesAssumption
<1>13. CASE CullByte
  <2>1. i' \in 0 .. MapSize
    BY Zenon, <1>13, <1>0, Ranges DEF CullByte
  <2>2. temp_v' \subseteq temp_v
    BY Zenon, <1>13 DEF CullByte
  <2>3. UNCHANGED <<cycle, trace_bits, queue_cur, stop_soon, skipped_fuzz, res,
                    pc, ret, q, idx, k, highest>>
    BY Zenon, <1>13 DEF CullByte
  <2> QED
    BY Zenon, <1>0a, <2>1, <2>2, <2>3
<1>14. CASE CullEnd
  <2>1. ret \in Labels
    BY Zenon, <1>14, <1>0 DEF CullEnd, Control, Labels
  <2> QED
    BY <1>14, <1>0a, <2>1, SizesAssumption DEF CullEnd
<1>15. CASE LoopTop
  BY <1>15, <1>0a, SizesAssumption DEF LoopTop, Labels
<1>16. CASE Cycle
  <2>1. schedule' \in Powers
    BY SMTT(40), <1>16, <1>0a DEF Cycle, NextSchedule, Powers
  <2>2. runs' \in {0, runs + 1} /\ pc' \in Labels /\ idx' \in {idx, 0}
    BY Zenon, <1>16 DEF Cycle, Labels
  <2>3. UNCHANGED <<trace_bits, queue_cur, stop_soon, skipped_fuzz, res, ret, q,
                    i, k, highest, temp_v>>
    BY Zenon, <1>16 DEF Cycle
  <2> QED
    BY <1>0a, <2>1, <2>2, <2>3
<1>17. CASE Rescore
  <2>1. /\ pc' \in Labels /\ ret' \in {ret, "rescore"} /\ "rescore" \in Labels
        /\ i' \in {i, 0} /\ idx' \in {0, idx + 1}
    BY Zenon, <1>17 DEF Rescore, Labels
  <2>2. q' \in Ids \cup {NULL}
    <3>1. idx # queued_items => idx \in Entries
      BY <1>17, <1>0, <1>0a, <1>0b DEF Rescore, Control, Entries
    <3> QED
      BY Zenon, <1>17, <1>0, <1>0a, <3>1, Ranges DEF Rescore
  <2>3. UNCHANGED <<cycle, trace_bits, queue_cur, stop_soon, skipped_fuzz, res,
                    k, highest, temp_v>>
    BY Zenon, <1>17 DEF Rescore
  <2> QED
    BY <1>0a, <2>1, <2>2, <2>3, SizesAssumption
<1>18. CASE SelectRandom
  <2>1. queue_cur' \in Ids
    BY Zenon, <1>18, <1>0, Ranges DEF SelectRandom
  <2> QED
    BY <1>18, <1>0a, <2>1 DEF SelectRandom, Labels
<1>19. CASE SelectGreedy
  BY <1>19, <1>0a, SizesAssumption DEF SelectGreedy, Labels
<1>20. CASE ScanEntry
  <2>1. idx \in Ids
    BY <1>20, <1>0, <1>0a, <1>0b, Ranges DEF ScanEntry, Entries
  <2>2. highest' \in {idx, highest} /\ idx' = idx + 1
    BY Zenon, <1>20 DEF ScanEntry
  <2>3. UNCHANGED <<cycle, trace_bits, queue_cur, stop_soon, skipped_fuzz, res,
                    pc, ret, q, i, k, temp_v>>
    BY Zenon, <1>20 DEF ScanEntry
  <2> QED
    BY <1>0a, <2>1, <2>2, <2>3
<1>21. CASE ScanEnd
  <2>1. highest \in Ids
    BY Zenon, <1>21, <1>0, Ranges DEF ScanEnd, Control
  <2> QED
    BY <1>21, <1>0a, <2>1 DEF ScanEnd, Labels
<1>22. CASE FuzzCalibrate
  <2>1. Calibrated' /\ Calibrate(queue_cur, "recal")
    BY Zenon, <1>22, <1>0, Calibrations DEF FuzzCalibrate
  <2> QED
    BY Zenon, <1>0a, <2>1 DEF Calibrate, Calibrated
<1>23. CASE FuzzStart
  <2>1. pc' \in Labels /\ skipped_fuzz' \in {skipped_fuzz, TRUE}
    BY Zenon, <1>23 DEF FuzzStart, Labels
  <2>2. skipped_fuzz' \in BOOLEAN
    BY <1>0a, <2>1, Zenon
  <2>3. UNCHANGED <<cycle, trace_bits, queue_cur, stop_soon, ret, loops>>
        /\ res' = "OK"
    BY Zenon, <1>23 DEF FuzzStart
  <2> QED
    BY Zenon, <1>0a, <2>1, <2>2, <2>3
<1>24. CASE TrimShorter
  <2>1. queue_cur \in Ids
    BY Zenon, <1>24, <1>0, Ranges DEF TrimShorter, InFuzzOne
  <2>2. exec_cksum[queue_cur] \in SUBSET Bytes
    BY Zenon, <1>0, <2>1 DEF TypeOK
  <2> QED
    BY SMTT(40), <1>24, <1>0a, <2>1, <2>2, SizesAssumption DEF TrimShorter, Labels
<1>25. CASE TrimNoGain
  BY SMTT(40), <1>25, <1>0a DEF TrimNoGain, Clobbered, Labels
<1>26. CASE Trimmed
  <2>1. pc' \in Labels /\ skipped_fuzz' \in {skipped_fuzz, TRUE}
    BY Zenon, <1>26 DEF Trimmed, Labels
  <2>2. skipped_fuzz' \in BOOLEAN
    BY <1>0a, <2>1, Zenon
  <2>3. UNCHANGED <<cycle, trace_bits, queue_cur, stop_soon, res, ret, loops>>
    BY Zenon, <1>26 DEF Trimmed
  <2> QED
    BY Zenon, <1>0a, <2>1, <2>2, <2>3
<1>27. CASE LowScore
  BY <1>27, <1>0a, SizesAssumption DEF LowScore, Labels
<1>28. CASE Find
  <2>1. Calibrated' /\ Calibrate(queued_items, "mutate")
    BY Zenon, <1>28, <1>0, Calibrations DEF Find
  <2> QED
    BY Zenon, <1>0a, <2>1 DEF Calibrate, Calibrated
<1>29. CASE FuzzEnd
  BY <1>29, <1>0a, SizesAssumption DEF FuzzEnd, Clobbered, Labels
<1>30. CASE Abandon
  <2>1. pc' \in Labels /\ skipped_fuzz' = FALSE
    BY Zenon, <1>30 DEF Abandon, AfterFuzz, Labels
  <2>2. UNCHANGED <<cycle, trace_bits, queue_cur, stop_soon, res, ret, loops>>
    BY Zenon, <1>30 DEF Abandon
  <2> QED
    BY Zenon, <1>0a, <2>1, <2>2
<1>31. CASE TargetError
  BY <1>31, <1>0a, SizesAssumption DEF TargetError, Labels
<1>32. CASE Stop
  BY Zenon, <1>32, <1>0a, SizesAssumption DEF Stop
<1>33. CASE UNCHANGED vars
  BY Zenon, <1>33, <1>0a DEF vars
<1> QED
  BY Zenon, <1>1, <1>2, <1>3, <1>4, <1>5, <1>6, <1>7, <1>8, <1>9, <1>10, <1>11,
     <1>12, <1>13, <1>14, <1>15, <1>16, <1>17, <1>18, <1>19, <1>20, <1>21,
     <1>22, <1>23, <1>24, <1>25, <1>26, <1>27, <1>28, <1>29, <1>30, <1>31,
     <1>32, <1>33
  DEF Next, Step, Seeding, Scoring, MainLoop, FuzzOne

\* Every step keeps the types.
LEMMA TypeStep ==
  ASSUME TypeOK, Control, Untouched, [Next]_vars
  PROVE  TypeOK'
<1>1. TypeQueue' /\ TypeLocals'
  BY Zenon, TypeQueueStep, TypeLocalsStep
<1> QED
  BY Zenon, <1>1 DEF TypeOK, TypeQueue, TypeLocals

-----------------------------------------------------------------------------
(* Entries that were not touched yet                                        *)

\* Neither an entry that is not queued yet nor a seed before its dry run is
\* disabled, fuzzed, favoured or marked as failed.
LEMMA UntouchedStep ==
  ASSUME TypeOK, Control, Untouched, Owners, [Next]_vars
  PROVE  Untouched'
<1>0. /\ queued_items \in 0 .. MaxItems /\ idx \in Nat /\ k \in Nat
      /\ cal_failed \in [Ids -> 0 .. CAL_CHANCES]
      /\ disabled \in [Ids -> BOOLEAN] /\ was_fuzzed \in [Ids -> BOOLEAN]
      /\ favored \in [Ids -> BOOLEAN]
      /\ Untouched /\ Flow
  BY Zenon, FlowStep DEF TypeOK
<1>ids. /\ Entries \subseteq Ids /\ (InFuzzOne => queue_cur \in Entries)
        /\ (InDryRun => idx \in Entries) /\ (i < MapSize => i \in Bytes)
        /\ queued_items < MaxItems => queued_items \in Ids \ Entries
  BY Zenon, Ranges
<1>1. CASE UNCHANGED core /\ ~DryRunResult /\ ~DryRun
  <2>1. Entries' = Entries /\ \A e \in Ids : Clean(e)' = Clean(e)
    BY Zenon, <1>1 DEF core, flags, Entries, Clean
  <2>2. UNCHANGED <<disabled, was_fuzzed, cal_failed, favored>>
    BY Zenon, <1>1 DEF core, flags
  <2> QED
    BY Zenon, <1>0, <1>1, <2>1, <2>2 DEF Flow, Untouched
<1>2. CASE ReadTestcase
  <2>1. /\ pc = "seeds" /\ pc' = "seeds" /\ queued_items' = queued_items + 1
        /\ UNCHANGED <<disabled, was_fuzzed, cal_failed, favored>>
    BY Zenon, <1>2 DEF ReadTestcase, AddToQueue, results, favs
  <2>2. Entries \subseteq Entries' /\ \A e \in Ids : Clean(e)' = Clean(e)
    BY <1>0, <2>1 DEF Entries, Clean
  <2> QED
    BY Zenon, <1>0, <2>1, <2>2 DEF Untouched, BeforeLoop, InDryRun
<1>3. CASE DryRun
  <2>1. /\ pc = "dry" /\ UNCHANGED <<queued_items, flags>>
        /\ Calibrate(idx, "dried") /\ idx \in Entries
    BY <1>0, <1>3 DEF DryRun, Entries
  <2>2. /\ UNCHANGED <<favored, idx>>
        /\ \A f \in Ids : f # idx => cal_failed'[f] = cal_failed[f]
        /\ pc' = "dried" \/ (pc' = "score" /\ ret' = "dried")
    BY Zenon, <1>0, <2>1, CalibrateFrame DEF favs
  <2>3. /\ \A e \in Ids \ Entries : Clean(e) /\ ~favored[e]
        /\ \A e \in Ids : e >= idx => Clean(e)
        /\ \A e \in Ids : was_fuzzed[e] = disabled[e]
    BY Zenon, <1>0, <2>1 DEF Untouched, BeforeLoop
  <2>4. Entries' = Entries /\ \A e \in Ids : e # idx => Clean(e)' = Clean(e)
    BY Zenon, <2>1, <2>2 DEF Entries, Clean, flags
  <2>5. \A e \in Ids : e > idx => e >= idx /\ e # idx
    BY <1>0 DEF Ids
  <2> QED
    BY Zenon, <2>1, <2>2, <2>3, <2>4, <2>5 DEF Untouched, BeforeLoop, InDryRun, flags, Clean
<1>4. CASE DryRunResult
  <2>1. /\ pc = "dried" /\ idx \in Entries /\ UNCHANGED <<queued_items, favored>>
        /\ pc' = "dry" => idx' = idx + 1
        /\ pc' # "seeds" /\ pc' # "dried" /\ pc' # "score" /\ pc' # "dedup"
    BY Zenon, <1>4, <1>ids DEF DryRunResult, InDryRun, favs
  <2>2. /\ \A e \in Ids \ Entries : Clean(e) /\ ~favored[e]
        /\ \A e \in Ids : e > idx => Clean(e)
        /\ \A e \in Ids : was_fuzzed[e] = disabled[e]
    <3>1. \A e \in Ids : e > idx => e >= idx
      BY <1>0 DEF Ids
    <3> QED
      BY Zenon, <1>0, <2>1, <3>1 DEF Untouched, Clean, BeforeLoop, InDryRun
  <2>3. Entries' = Entries /\ \A e \in Ids : e >= idx + 1 => e > idx /\ e # idx
    BY <1>0, <2>1 DEF Entries, Ids
  <2>4. CASE UNCHANGED <<flags, cal_failed>>
    BY Zenon, <2>1, <2>2, <2>3, <2>4
    DEF Untouched, Clean, BeforeLoop, InDryRun, flags
  <2>5. CASE Disable(idx)
    <3>1. /\ disabled' = [disabled EXCEPT ![idx] = TRUE]
          /\ was_fuzzed' = [was_fuzzed EXCEPT ![idx] = TRUE]
          /\ cal_failed' \in {cal_failed, [cal_failed EXCEPT ![idx] = CAL_CHANCES]}
      BY Zenon, <1>4, <2>5 DEF Disable, DryRunResult
    <3>2. /\ \A e \in Ids : was_fuzzed'[e] = disabled'[e]
          /\ \A e \in Ids : e # idx => /\ disabled'[e] = disabled[e]
                                       /\ was_fuzzed'[e] = was_fuzzed[e]
                                       /\ cal_failed'[e] = cal_failed[e]
      BY Zenon, <1>0, <1>ids, <2>1, <2>2, <3>1
    <3>3. \A e \in Ids : e # idx => Clean(e)' = Clean(e)
      BY Zenon, <3>2 DEF Clean
    <3> QED
      BY Zenon, <2>1, <2>2, <2>3, <3>2, <3>3 DEF Untouched, BeforeLoop, InDryRun
  <2> QED
    BY Zenon, <1>4, <2>4, <2>5 DEF DryRunResult
<1>5. CASE Dedup
  <2>1. /\ pc = "dedup" /\ pc' = "dedup"
        /\ UNCHANGED <<queued_items, favored, cal_failed>>
    BY Zenon, <1>5 DEF Dedup, favs, results
  <2>2. UNCHANGED flags \/ (\E e \in Entries : Disable(e))
    BY <1>0, <1>5 DEF Dedup, Control, Entries
  <2>3. /\ \A e \in Ids \ Entries : Clean(e) /\ ~favored[e]
        /\ \A e \in Ids : was_fuzzed[e] = disabled[e]
        /\ Entries' = Entries
    BY Zenon, <1>0, <2>1 DEF Untouched, BeforeLoop, Entries
  <2>4. CASE UNCHANGED flags
    BY Zenon, <2>1, <2>3, <2>4 DEF Untouched, Clean, InDryRun, flags
  <2>5. ASSUME NEW e \in Entries, Disable(e)
        PROVE  Untouched'
    <3>1. /\ disabled' = [disabled EXCEPT ![e] = TRUE]
          /\ was_fuzzed' = [was_fuzzed EXCEPT ![e] = TRUE]
      BY Zenon, <2>5 DEF Disable
    <3>2. /\ \A f \in Ids : was_fuzzed'[f] = disabled'[f]
          /\ \A f \in Ids \ Entries : Clean(f)' = Clean(f)
      BY Zenon, <1>0, <1>ids, <2>1, <2>3, <3>1 DEF Clean
    <3> QED
      BY Zenon, <2>1, <2>3, <3>2 DEF Untouched, InDryRun
  <2> QED
    BY Zenon, <2>2, <2>4, <2>5
<1>6. CASE ScoreByte
  <2>1. UNCHANGED <<pc, ret, idx, queued_items, disabled, was_fuzzed, cal_failed,
                    favored>>
    BY Zenon, <1>6 DEF ScoreByte, results, flags, favs
  <2> QED
    BY Zenon, <1>0, <2>1 DEF Untouched, Clean, BeforeLoop, InDryRun, Entries
<1>7. CASE CullStart
  <2>1. /\ pc = "cull" /\ pc' \in {"culling", "check", "cycle"}
        /\ UNCHANGED <<queued_items, disabled, was_fuzzed, cal_failed>>
        /\ favored' \in {favored, [e \in Ids |-> FALSE]}
    BY Zenon, <1>7 DEF CullStart, Control, flags, results
  <2> QED
    BY Zenon, <1>0, <2>1 DEF Untouched, Clean, BeforeLoop, InDryRun, Entries
<1>8. CASE CullByte
  <2>1. /\ pc' = "culling" /\ i \in Bytes
        /\ UNCHANGED <<queued_items, disabled, was_fuzzed, cal_failed>>
    BY Zenon, <1>8, <1>ids DEF CullByte, results, flags
  <2>2. \A e \in Ids \ Entries : ~favored'[e]
    <3>1. CASE Uncaptured(i)
      <4>1. top_rated[i] \in Entries
        BY Zenon, <2>1, <3>1 DEF Owners, Uncaptured
      <4>2. favored' = [favored EXCEPT ![top_rated[i]] = TRUE]
        BY Zenon, <1>8, <3>1 DEF CullByte, Favor
      <4> QED
        BY Zenon, <1>0, <4>1, <4>2 DEF Untouched
    <3>2. CASE ~Uncaptured(i)
      BY Zenon, <1>0, <1>8, <3>2 DEF CullByte, Untouched
    <3> QED
      BY Zenon, <3>1, <3>2
  <2> QED
    BY Zenon, <1>0, <2>1, <2>2 DEF Untouched, Clean, BeforeLoop, InDryRun, Entries
<1>9. CASE FuzzCalibrate
  <2>1. /\ pc = "fuzz" /\ UNCHANGED <<queued_items, flags>>
        /\ Calibrate(queue_cur, "recal") /\ queue_cur \in Entries
    BY Zenon, <1>9, <1>ids DEF FuzzCalibrate, InFuzzOne
  <2>2. /\ UNCHANGED favored
        /\ \A f \in Ids : f # queue_cur => cal_failed'[f] = cal_failed[f]
        /\ pc' = "recal" \/ (pc' = "score" /\ ret' = "recal")
    BY Zenon, <1>0, <2>1, CalibrateFrame DEF favs
  <2> QED
    BY Zenon, <1>0, <2>1, <2>2
    DEF Untouched, Clean, BeforeLoop, InDryRun, Entries, flags
<1>10. CASE Find
  <2>1. /\ pc = "mutate" /\ Calibrate(queued_items, "mutate")
        /\ queued_items' = queued_items + 1 /\ UNCHANGED <<disabled, was_fuzzed>>
    BY Zenon, <1>10 DEF Find, AddToQueue
  <2>2. /\ UNCHANGED favored
        /\ \A f \in Ids : f # queued_items => cal_failed'[f] = cal_failed[f]
        /\ pc' = "mutate" \/ (pc' = "score" /\ ret' = "mutate")
    BY <1>0, <2>1, CalibrateFrame DEF favs
  <2>3. Entries' = Entries \cup {queued_items}
    BY <1>0, <2>1 DEF Entries
  <2> QED
    BY Zenon, <1>0, <2>1, <2>2, <2>3 DEF Untouched, Clean, BeforeLoop, InDryRun
<1>11. CASE Abandon
  <2>1. /\ pc' \in {"select", "loop"} /\ queue_cur \in Entries
        /\ UNCHANGED <<queued_items, disabled, cal_failed, favored>>
        /\ \A e \in Ids : e # queue_cur => was_fuzzed'[e] = was_fuzzed[e]
    BY Zenon, <1>0, <1>11, <1>ids DEF Abandon, AfterFuzz, InFuzzOne, results
  <2> QED
    BY Zenon, <1>0, <2>1 DEF Untouched, Clean, BeforeLoop, InDryRun, Entries
<1> QED
  BY Zenon, <1>1, <1>2, <1>3, <1>4, <1>5, <1>6, <1>7, <1>8, <1>9, <1>10, <1>11, Calm

\* Nothing is favoured before cull_queue runs for the first time.
LEMMA NoneFavoredStep ==
  ASSUME TypeOK, Control, NoneFavored, [Next]_vars
  PROVE  NoneFavored'
<1>0. BeforeLoop' => BeforeLoop
  BY Zenon, FlowStep DEF Flow
<1>1. CASE UNCHANGED favored
  BY Zenon, <1>0, <1>1 DEF NoneFavored
<1>2. CASE CullStart \/ CullByte
  BY Zenon, <1>0, <1>2 DEF CullStart, CullByte, BeforeLoop, InDryRun, NoneFavored
<1>3. CASE UNCHANGED core
  BY Zenon, <1>1, <1>3 DEF core
<1>4. CASE \/ ReadTestcase \/ DryRun \/ DryRunResult \/ Dedup \/ ScoreByte
           \/ FuzzCalibrate \/ Find \/ Abandon
  BY Zenon, <1>1, <1>4 DEF ReadTestcase, DryRun, DryRunResult, Dedup, ScoreByte,
     FuzzCalibrate, Find, Abandon, Calibrate, favs
<1> QED
  BY Zenon, <1>2, <1>3, <1>4, Calm

-----------------------------------------------------------------------------
(* Reference counts                                                         *)

\* Only update_bitmap_score changes who is top rated.
LEMMA RatingFrame ==
  ASSUME [Next]_vars
  PROVE  \/ UNCHANGED <<tc_ref, trace_mini, top_rated>>
         \/ /\ pc = "score" /\ i < MapSize /\ i \in trace_bits
            /\ TakeByte(q, i) /\ UNCHANGED queued_items
<1>1. CASE UNCHANGED core
  BY Zenon, <1>1 DEF core, rating
<1>2. CASE \/ ReadTestcase \/ DryRun \/ DryRunResult \/ Dedup \/ CullByte
           \/ FuzzCalibrate \/ Find \/ Abandon
  BY Zenon, <1>2 DEF ReadTestcase, DryRun, DryRunResult, Dedup, CullByte,
     FuzzCalibrate, Find, Abandon, Calibrate, rating
<1>3. CASE CullStart
  BY Zenon, <1>3 DEF CullStart
<1>4. CASE ScoreByte
  BY Zenon, <1>4 DEF ScoreByte, rating
<1> QED
  BY Zenon, <1>1, <1>2, <1>3, <1>4, Calm

\* Entries are never removed from the queue.
LEMMA QueueGrows ==
  ASSUME [Next]_vars
  PROVE  queued_items' = queued_items \/ queued_items' = queued_items + 1
<1>1. CASE UNCHANGED core
  BY Zenon, <1>1 DEF core
<1>2. CASE \/ DryRun \/ DryRunResult \/ Dedup \/ ScoreByte \/ CullStart
           \/ CullByte \/ FuzzCalibrate \/ Abandon
  BY Zenon, <1>2 DEF DryRun, DryRunResult, Dedup, ScoreByte, CullStart, CullByte,
     FuzzCalibrate, Abandon
<1>3. CASE ReadTestcase \/ Find
  BY Zenon, <1>3 DEF ReadTestcase, Find, AddToQueue
<1> QED
  BY Zenon, <1>1, <1>2, <1>3, Calm

\* Nor is the set of entries.
LEMMA EntriesGrow ==
  ASSUME TypeOK, [Next]_vars
  PROVE  Entries \subseteq Entries'
<1>1. queued_items \in Nat
  BY SizesAssumption DEF TypeOK
<1> QED
  BY <1>1, QueueGrows DEF Entries

\* The sets of bytes owned are finite.
LEMMA BytesFinite ==
  \A e : IsFiniteSet(Owned(e)) /\ Cardinality(Owned(e)) \in Nat
<1>1. IsFiniteSet(Bytes)
  BY FS_Interval, SizesAssumption DEF Bytes
<1>2. \A e : Owned(e) \subseteq Bytes
  BY Zenon DEF Owned
<1> QED
  BY Zenon, <1>1, <1>2, FS_Subset, FS_CardinalityType

\* update_bitmap_score keeps the reference counts exact; the four cases are how
\* an entry may be involved when a byte changes hands.
LEMMA RefCountsStep ==
  ASSUME TypeOK, Control, RefCounts, [Next]_vars
  PROVE  RefCounts'
<1>1. CASE UNCHANGED <<tc_ref, trace_mini, top_rated>>
  BY SMTT(40), <1>1 DEF RefCounts, Owned
<1>2. CASE pc = "score" /\ i < MapSize /\ i \in trace_bits /\ TakeByte(q, i)
  <2> DEFINE p == top_rated[i]
  <2>1. i \in Bytes /\ q \in Ids /\ p \in Ids \cup {NULL} /\ NULL \notin Ids
    <3>1. i \in Bytes /\ q \in Ids
      BY Zenon, <1>2, Ranges DEF Control
    <3>2. top_rated[i] \in Ids \cup {NULL}
      BY Zenon, <3>1 DEF TypeOK
    <3>3. NULL \notin Ids
      BY SizesAssumption DEF Ids, NULL
    <3> QED
      BY Zenon, <3>1, <3>2, <3>3
  <2>2. /\ tc_ref \in [Ids -> Int] /\ trace_mini \in [Ids -> SUBSET Bytes]
        /\ top_rated \in [Bytes -> Ids \cup {NULL}]
        /\ \A e \in Ids : /\ tc_ref[e] = Cardinality(Owned(e))
                          /\ trace_mini[e] = {} <=> Owned(e) = {}
    BY Zenon DEF TypeOK, RefCounts
  <2>3. trace_bits # {}
    BY Zenon, <1>2
  <2> DEFINE refs == Released(tc_ref, p)
             mini == Freed(tc_ref, p)
             Owned1(e) == {b \in Bytes : top_rated'[b] = e}
  <2>4. /\ tc_ref' = [refs EXCEPT ![q] = @ + 1]
        /\ trace_mini' = IF mini[q] = {} THEN [mini EXCEPT ![q] = trace_bits]
                                         ELSE mini
        /\ top_rated' = [top_rated EXCEPT ![i] = q]
    BY Zenon, <1>2 DEF TakeByte
  <2>5. refs \in [Ids -> Int] /\ mini \in [Ids -> SUBSET Bytes]
    BY <2>1, <2>2 DEF Released, Freed
  <2> HIDE DEF refs, mini
  <2> SUFFICES ASSUME NEW e \in Ids
                 PROVE  /\ tc_ref'[e] = Cardinality(Owned1(e))
                        /\ trace_mini'[e] = {} <=> Owned1(e) = {}
    BY Zenon DEF RefCounts, Owned
  <2> HIDE DEF Owned1
  <2>7. CASE e # q /\ e # p
    <3>1. Owned1(e) = Owned(e)
      BY <2>1, <2>2, <2>4, <2>7 DEF Owned, Owned1
    <3>2. refs[e] = tc_ref[e] /\ mini[e] = trace_mini[e]
      BY Zenon, <2>1, <2>2, <2>7 DEF refs, mini, Released, Freed
    <3>3. tc_ref'[e] = refs[e] /\ trace_mini'[e] = mini[e]
      BY Zenon, <2>1, <2>4, <2>5, <2>7
    <3> QED
      BY Zenon, <2>2, <3>1, <3>2, <3>3
  <2>8. CASE e # q /\ e = p
    <3>1. Owned1(e) = Owned(e) \ {i} /\ i \in Owned(e)
      BY Zenon, <2>1, <2>2, <2>4, <2>8 DEF Owned, Owned1
    <3>2. Cardinality(Owned1(e)) = Cardinality(Owned(e)) - 1
      BY Zenon, <3>1, BytesFinite, FS_RemoveElement
    <3>3. tc_ref'[e] = tc_ref[e] - 1
      BY Zenon, <2>1, <2>2, <2>4, <2>5, <2>8 DEF refs, Released
    <3>4. trace_mini'[e] = IF tc_ref[e] = 1 THEN {} ELSE trace_mini[e]
      BY Zenon, <2>1, <2>2, <2>4, <2>5, <2>8 DEF mini, Freed
    <3>5. /\ IsFiniteSet(Owned1(e))
          /\ Owned1(e) = {} <=> Cardinality(Owned1(e)) = 0
      BY Zenon, <3>1, BytesFinite, FS_Subset, FS_EmptySet
    <3> QED
      BY SMTT(40), <2>2, <3>1, <3>2, <3>3, <3>4, <3>5
  <2>9. CASE e = q /\ e # p
    <3>1. Owned1(e) = Owned(e) \cup {i} /\ i \notin Owned(e)
      BY <2>1, <2>2, <2>4, <2>9 DEF Owned, Owned1
    <3>2. Cardinality(Owned1(e)) = Cardinality(Owned(e)) + 1
      BY Zenon, <3>1, BytesFinite, FS_AddElement
    <3>3. refs[e] = tc_ref[e]
      BY Zenon, <2>1, <2>2, <2>9 DEF refs, Released
    <3>4. tc_ref'[e] = tc_ref[e] + 1
      BY Zenon, <2>1, <2>4, <2>5, <2>9, <3>3
    <3>5. trace_mini'[e] # {}
      BY Zenon, <2>1, <2>3, <2>4, <2>5, <2>9
    <3> QED
      BY Zenon, <2>2, <3>1, <3>2, <3>4, <3>5
  <2>10. CASE e = q /\ e = p
    <3>1. Owned1(e) = Owned(e) /\ i \in Owned(e)
      BY <2>1, <2>2, <2>4, <2>10 DEF Owned, Owned1
    <3>2. refs[e] = tc_ref[e] - 1
      BY Zenon, <2>1, <2>2, <2>10 DEF refs, Released
    <3>3. tc_ref'[e] = tc_ref[e]
      BY <2>1, <2>2, <2>4, <2>5, <2>10, <3>2
    <3>4. trace_mini'[e] # {}
      BY Zenon, <2>1, <2>3, <2>4, <2>5, <2>10
    <3> QED
      BY Zenon, <2>2, <3>1, <3>3, <3>4
  <2> QED
    BY Zenon, <2>7, <2>8, <2>9, <2>10
<1> QED
  BY Zenon, <1>1, <1>2, RatingFrame

\* Only queued entries become top rated.
LEMMA OwnersStep ==
  ASSUME TypeOK, Control, Owners, [Next]_vars
  PROVE  Owners'
<1>0. Entries \subseteq Entries' /\ top_rated \in [Bytes -> Ids \cup {NULL}]
  BY Zenon, EntriesGrow DEF TypeOK
<1>1. CASE UNCHANGED <<tc_ref, trace_mini, top_rated>>
  BY Zenon, <1>0, <1>1 DEF Owners
<1>2. CASE pc = "score" /\ TakeByte(q, i)
  <2>1. q \in Entries /\ top_rated' = [top_rated EXCEPT ![i] = q]
    BY Zenon, <1>2 DEF Control, TakeByte
  <2> QED
    BY Zenon, <1>0, <2>1 DEF Owners
<1> QED
  BY Zenon, <1>1, <1>2, RatingFrame

=============================================================================
