----------------------------- MODULE FuzzQueue -----------------------------
(***************************************************************************)
(* The corpus of one afl-fuzz instance, from the initial seeds to the end  *)
(* of the fuzzing loop (AFLplusplus/src/afl-fuzz*.c): add_to_queue,        *)
(* perform_dry_run, calibrate_case, trim_case, update_bitmap_score,        *)
(* cull_queue, the PST seed selection, and the control of fuzz_one and of  *)
(* the main loop around it.                                                *)
(*                                                                         *)
(* The program is sequential; what makes it hard is that every routine     *)
(* reads state that many others update (reference counts, favoured flags,  *)
(* pending counters, a shared trace_bits buffer), and that the target and  *)
(* the user (SIGINT) decide what happens next.  Loops over the map and     *)
(* over the queue are one step per iteration.                              *)
(*                                                                         *)
(* Data: a test case is its length and the set of map bytes it hits; a     *)
(* checksum is the trace it is a checksum of (no collisions), with {} for  *)
(* exec_cksum = 0; trace_mini is a set of bytes, with {} for NULL.  Local   *)
(* variables take a fixed value when they go out of scope.                  *)
(***************************************************************************)
EXTENDS Integers, FiniteSets

CONSTANTS
  MapSize,        \* fsrv.map_size
  MaxSeeds,       \* bound on the number of initial test cases
  MaxItems,       \* bound on queued_items
  MaxLen,         \* bound on the length of a test case
  Times,          \* the values exec_us may take
  MaxLevel,       \* bound: an entry is not selected again at this fuzz_level
  Weights,        \* pst_fuzz_calculate_bitmap_weight, by trace
  Unstable,       \* may two runs of a test case give different traces?
  Schedules,      \* the power schedules -p may name at the start
  CycleSchedules, \* AFL_CYCLE_SCHEDULES
  Signals         \* may the user stop the fuzzer?

Bytes   == 0 .. MapSize - 1
Ids     == 0 .. MaxItems - 1
Traces  == SUBSET Bytes \ {{}}
NULL    == -1
CAL_CHANCES == 3
Powers  == {"EXPLORE", "MMOPT", "EXPLOIT", "FAST", "COE", "LIN", "QUAD",
            "RARE", "SEEK"}

ASSUME SizesAssumption ==
  /\ MapSize \in Nat
  /\ MaxSeeds \in Nat /\ MaxItems \in Nat /\ MaxSeeds <= MaxItems
  /\ MaxLen \in Nat /\ MaxLevel \in Nat
  /\ Times \subseteq Nat
ASSUME WeightsAssumption  == Weights \in [SUBSET Bytes -> Nat]
ASSUME ScheduleAssumption == Schedules \subseteq Powers
ASSUME FlagsAssumption ==
  /\ Unstable \in BOOLEAN /\ CycleSchedules \in BOOLEAN /\ Signals \in BOOLEAN

VARIABLES
  queued_items,                               \* queue_buf has this many
  len, exec_us, exec_cksum, bitmap_weight,    \* struct queue_entry, a field
  fuzz_level, cal_failed, trim_done,          \*   per variable, by entry
  disabled, was_fuzzed,
  favored, fs_redundant,
  tc_ref, trace_mini,
  top_rated, score_changed,                   \* afl_state_t
  active_items, pending_not_fuzzed,
  queued_favored, pending_favored,
  trace_bits, schedule, queue_cur, stop_soon,
  runs,            \* runs_in_current_cycle
  skipped_fuzz,    \* what fuzz_one returns
  res,             \* what calibrate_case returns
  temp_v,          \* the bytes cull_queue has not captured yet
  pc, ret,         \* where the program is; where update_bitmap_score or
                   \*   cull_queue returns to
  q,               \* the argument of calibrate_case or update_bitmap_score
  i,               \* loop variable over the map
  idx, k,          \* loop variables over the queue
  highest          \* of pst_fuzz_select_next_queue_entry

results  == <<exec_us, exec_cksum, bitmap_weight, cal_failed>>
fuzzing  == <<fuzz_level, trim_done>>
flags    == <<disabled, was_fuzzed, active_items, pending_not_fuzzed>>
favs     == <<favored, fs_redundant, queued_favored, pending_favored>>
rating   == <<tc_ref, trace_mini, top_rated, score_changed>>
cycle    == <<schedule, runs>>
loops    == <<q, i, idx, k, highest, temp_v>>
vars     == <<queued_items, len, results, fuzzing, flags, favs, rating, cycle,
              trace_bits, queue_cur, stop_soon, skipped_fuzz, res, pc, ret,
              loops>>

Entries == 0 .. queued_items - 1

Init ==
  /\ queued_items = 0
  /\ len = [e \in Ids |-> 0]
  /\ exec_us = [e \in Ids |-> 0]
  /\ exec_cksum = [e \in Ids |-> {}]
  /\ bitmap_weight = [e \in Ids |-> 0]
  /\ fuzz_level = [e \in Ids |-> 0]
  /\ cal_failed = [e \in Ids |-> 0]
  /\ trim_done = [e \in Ids |-> FALSE]
  /\ disabled = [e \in Ids |-> FALSE]
  /\ was_fuzzed = [e \in Ids |-> FALSE]
  /\ favored = [e \in Ids |-> FALSE]
  /\ fs_redundant = [e \in Ids |-> FALSE]
  /\ tc_ref = [e \in Ids |-> 0]
  /\ trace_mini = [e \in Ids |-> {}]
  /\ top_rated = [b \in Bytes |-> NULL]
  /\ score_changed = FALSE
  /\ active_items = 0 /\ pending_not_fuzzed = 0
  /\ queued_favored = 0 /\ pending_favored = 0
  /\ trace_bits = {}
  /\ schedule \in Schedules
  /\ queue_cur = NULL
  /\ stop_soon = FALSE
  /\ runs = MaxItems + 1          \* (u32)-1: above any queued_items
  /\ skipped_fuzz = FALSE
  /\ res = "OK"
  /\ temp_v = {}
  /\ pc = "seeds" /\ ret = "none"
  /\ q = NULL /\ i = 0 /\ idx = 0 /\ k = 0 /\ highest = 0

\* A run of the target leaves its trace in the shared map.  Nothing reads that
\* buffer later on unless the schedules are cycled, see Rescore.
Clobbered == IF CycleSchedules THEN SUBSET Bytes ELSE {{}}

-----------------------------------------------------------------------------
(* Adding test cases                                                       *)

AddToQueue(l) ==
  /\ queued_items' = queued_items + 1
  /\ len' = [len EXCEPT ![queued_items] = l]
  /\ active_items' = active_items + 1
  /\ pending_not_fuzzed' = pending_not_fuzzed + 1
  /\ UNCHANGED <<disabled, was_fuzzed>>

\* read_testcases: one file of the input directory.
ReadTestcase ==
  /\ pc = "seeds"
  /\ queued_items < MaxSeeds
  /\ \E l \in 1 .. MaxLen : AddToQueue(l)
  /\ UNCHANGED <<results, fuzzing, favs, rating, cycle, trace_bits, queue_cur,
                 stop_soon, skipped_fuzz, res, pc, ret, loops>>

\* The end of read_testcases; an empty corpus is fatal.
SeedsRead ==
  /\ pc = "seeds"
  /\ pc' = IF queued_items = 0 THEN "fatal" ELSE "dry"
  /\ UNCHANGED <<queued_items, len, results, fuzzing, flags, favs, rating,
                 cycle, trace_bits, queue_cur, stop_soon, skipped_fuzz, res,
                 ret, loops>>

-----------------------------------------------------------------------------
(* calibrate_case: it either ends in update_bitmap_score ("score"), which   *)
(* returns to r, or aborts and returns to r at once.                        *)

\* save_if_interesting looks for no result but FSRV_RUN_ERROR.
Result(r, f) == IF r = "mutate" THEN "OK" ELSE f

CalibrateOK(e, r) ==
  \E last \in Traces, us \in Times, f \in {"OK", "NOBITS"} :
  \E first \in IF Unstable THEN Traces ELSE {last} :
    /\ ~stop_soon
    /\ exec_cksum' = [exec_cksum EXCEPT ![e] = first]
    /\ exec_us' = [exec_us EXCEPT ![e] = us]
    /\ bitmap_weight' = [bitmap_weight EXCEPT ![e] = Weights[last]]
    /\ cal_failed' = [cal_failed EXCEPT ![e] = 0]
    /\ trace_bits' = last
    /\ res' = Result(r, f)
    /\ q' = e /\ i' = 0
    /\ pc' = "score" /\ ret' = r

\* An aborted calibration may leave an exec_cksum behind, which nothing reads
\* while cal_failed is set: fuzz_one clears it before it calibrates again.
CalibrateAbort(e, r) ==
  \E f \in {"TMOUT", "CRASH", "NOINST"} :
    /\ cal_failed' = [cal_failed EXCEPT ![e] = @ + 1]
    /\ exec_cksum' = [exec_cksum EXCEPT ![e] = {}]
    /\ trace_bits' \in Clobbered
    /\ res' = Result(r, f)
    /\ pc' = r
    /\ UNCHANGED <<exec_us, bitmap_weight, q, i, ret>>

Calibrate(e, r) ==
  /\ CalibrateOK(e, r) \/ CalibrateAbort(e, r)
  /\ UNCHANGED <<fuzzing, favs, rating, cycle, queue_cur, stop_soon,
                 skipped_fuzz, idx, k, highest, temp_v>>

-----------------------------------------------------------------------------
(* update_bitmap_score: one step per byte of the map                        *)

\* exec_us * len, or len << 2 from RARE on.
FavFactor(e) ==
  IF schedule \in {"RARE", "SEEK"} THEN 4 * len[e] ELSE exec_us[e] * len[e]

\* The comparison of fuzz_p2: skipped from FAST to QUAD; for RARE it is about
\* hit counts (n_fuzz) that are not modelled, so p is rarer or not.
Outranks(e, p, rarer) ==
  CASE schedule \in {"FAST", "COE", "LIN", "QUAD"} -> TRUE
    [] schedule = "RARE" -> e = p \/ rarer
    [] OTHER -> fuzz_level[e] <= fuzz_level[p]

\* Mutant: the factors are not compared.
WinsAlways(e, b, rarer) ==
  top_rated[b] = NULL \/ Outranks(e, top_rated[b], rarer)

Wins(e, b, rarer) ==
  \/ top_rated[b] = NULL
  \/ /\ Outranks(e, top_rated[b], rarer)
     /\ FavFactor(e) <= FavFactor(top_rated[b])

\* Byte b changes hands: the previous winner loses a reference, and its
\* trace_mini with the last one; then q gains one, and a trace_mini if it has
\* none.  The previous winner may be q itself.
Released(refs, p) ==
  IF p = NULL THEN refs ELSE [refs EXCEPT ![p] = @ - 1]

\* Mutant: the previous winner keeps its trace_mini.
FreedNever(refs, p) == trace_mini

Freed(refs, p) ==
  IF p # NULL /\ refs[p] = 1 THEN [trace_mini EXCEPT ![p] = {}] ELSE trace_mini

TakeByte(e, b) ==
  LET refs == Released(tc_ref, top_rated[b])
      mini == Freed(tc_ref, top_rated[b])
  IN  /\ tc_ref' = [refs EXCEPT ![e] = @ + 1]
      /\ trace_mini' = IF mini[e] = {} THEN [mini EXCEPT ![e] = trace_bits]
                                       ELSE mini
      /\ top_rated' = [top_rated EXCEPT ![b] = e]
      /\ score_changed' = TRUE

ScoreByte ==
  /\ pc = "score"
  /\ i < MapSize
  /\ \E rarer \in IF schedule = "RARE" THEN BOOLEAN ELSE {FALSE} :
       IF i \in trace_bits /\ Wins(q, i, rarer)
       THEN TakeByte(q, i)
       ELSE UNCHANGED rating
  /\ i' = i + 1
  /\ UNCHANGED <<queued_items, len, results, fuzzing, flags, favs, cycle,
                 trace_bits, queue_cur, stop_soon, skipped_fuzz, res, pc, ret,
                 q, idx, k, highest, temp_v>>

ScoreDone ==
  /\ pc = "score"
  /\ i = MapSize
  /\ pc' = ret /\ ret' = "none"
  /\ q' = NULL /\ i' = 0
  /\ trace_bits' = IF CycleSchedules THEN trace_bits ELSE {}
  /\ UNCHANGED <<queued_items, len, results, fuzzing, flags, favs, rating,
                 cycle, queue_cur, stop_soon, skipped_fuzz, res, idx, k,
                 highest, temp_v>>

-----------------------------------------------------------------------------
(* cull_queue: one step per byte of the map                                 *)

\* The entry of cull_queue, which returns at once if no score changed.
CullStart ==
  /\ pc = "cull"
  /\ IF score_changed
     THEN /\ score_changed' = FALSE
          /\ temp_v' = Bytes
          /\ queued_favored' = 0 /\ pending_favored' = 0
          /\ favored' = [e \in Ids |-> FALSE]
          /\ i' = 0
          /\ pc' = "culling" /\ UNCHANGED ret
     ELSE /\ pc' = ret /\ ret' = "none"
          /\ UNCHANGED <<score_changed, temp_v, queued_favored,
                         pending_favored, favored, i>>
  /\ UNCHANGED <<queued_items, len, results, fuzzing, flags, fs_redundant,
                 tc_ref, trace_mini, top_rated, cycle, trace_bits, queue_cur,
                 stop_soon, skipped_fuzz, res, q, idx, k, highest>>

Favor(e) ==
  /\ favored' = [favored EXCEPT ![e] = TRUE]
  /\ queued_favored' = queued_favored + (IF favored[e] THEN 0 ELSE 1)
  /\ pending_favored' =
       pending_favored + (IF favored[e] \/ was_fuzzed[e] THEN 0 ELSE 1)

\* Mutant: only bytes other than the last one of the map are looked at.
UncapturedShort(b) == top_rated[b] # NULL /\ b \in temp_v /\ b # MapSize - 1

Uncaptured(b) == top_rated[b] # NULL /\ b \in temp_v

CullByte ==
  /\ pc = "culling"
  /\ i < MapSize
  /\ IF Uncaptured(i)
     THEN /\ temp_v' = temp_v \ trace_mini[top_rated[i]]
          /\ Favor(top_rated[i])
     ELSE UNCHANGED <<temp_v, favored, queued_favored, pending_favored>>
  /\ i' = i + 1
  /\ UNCHANGED <<queued_items, len, results, fuzzing, flags, fs_redundant,
                 rating, cycle, trace_bits, queue_cur, stop_soon,
                 skipped_fuzz, res, pc, ret, q, idx, k, highest>>

\* mark_as_redundant for every enabled entry.
CullEnd ==
  /\ pc = "culling"
  /\ i = MapSize
  /\ fs_redundant' = [e \in Ids |-> IF e \in Entries /\ ~disabled[e]
                                    THEN ~favored[e] ELSE fs_redundant[e]]
  /\ temp_v' = {} /\ i' = 0
  /\ pc' = ret /\ ret' = "none"
  /\ UNCHANGED <<queued_items, len, results, fuzzing, flags, favored,
                 queued_favored, pending_favored, rating, cycle, trace_bits,
                 queue_cur, stop_soon, skipped_fuzz, res, q, idx, k, highest>>

-----------------------------------------------------------------------------
(* perform_dry_run: calibrate every seed, then drop those with the same     *)
(* trace as a shorter one                                                   *)

Disable(e) ==
  /\ disabled' = [disabled EXCEPT ![e] = TRUE]
  /\ was_fuzzed' = [was_fuzzed EXCEPT ![e] = TRUE]
  /\ active_items' = active_items - (IF was_fuzzed[e] THEN 0 ELSE 1)
  /\ pending_not_fuzzed' =
       pending_not_fuzzed - (IF was_fuzzed[e] THEN 0 ELSE 1)

\* AFL_NO_STARTUP_CALIBRATION.
SkipDryRun ==
  /\ pc = "dry"
  /\ idx = 0
  /\ pc' = "cull" /\ ret' = "check"
  /\ UNCHANGED <<queued_items, len, results, fuzzing, flags, favs, rating,
                 cycle, trace_bits, queue_cur, stop_soon, skipped_fuzz, res,
                 loops>>

DryRun ==
  /\ pc = "dry"
  /\ idx < queued_items
  /\ Calibrate(idx, "dried")
  /\ UNCHANGED <<queued_items, len, flags>>

\* What perform_dry_run does with the result.  A timeout is fatal without -t,
\* a crash with AFL_EXIT_ON_SEED_ISSUES; otherwise the seed is disabled.
DryRunResult ==
  /\ pc = "dried"
  /\ \/ /\ stop_soon
        /\ pc' = "cull" /\ ret' = "check" /\ idx' = 0
        /\ UNCHANGED <<cal_failed, flags>>
     \/ /\ ~stop_soon /\ res \in {"OK", "NOBITS"}
        /\ pc' = "dry" /\ idx' = idx + 1
        /\ UNCHANGED <<ret, cal_failed, flags>>
     \/ /\ ~stop_soon /\ res \in {"TMOUT", "CRASH"}
        /\ Disable(idx)
        /\ cal_failed' = IF res = "TMOUT"
                         THEN [cal_failed EXCEPT ![idx] = CAL_CHANCES]
                         ELSE cal_failed
        /\ pc' = "dry" /\ idx' = idx + 1
        /\ UNCHANGED ret
     \/ /\ ~stop_soon /\ res \in {"TMOUT", "CRASH", "NOINST"}
        /\ pc' = "fatal"
        /\ UNCHANGED <<idx, ret, cal_failed, flags>>
  /\ res' = "OK"
  /\ UNCHANGED <<queued_items, len, exec_us, exec_cksum, bitmap_weight,
                 fuzzing, favs, rating, cycle, trace_bits, queue_cur,
                 stop_soon, skipped_fuzz, q, i, k, highest, temp_v>>

\* Only timeouts count as calibration failures here.
DryRunEnd ==
  /\ pc = "dry"
  /\ idx = queued_items
  /\ IF \A e \in Entries : cal_failed[e] = CAL_CHANCES
     THEN pc' = "fatal" /\ UNCHANGED <<idx, k>>
     ELSE pc' = "dedup" /\ idx' = 0 /\ k' = 1
  /\ UNCHANGED <<queued_items, len, results, fuzzing, flags, favs, rating,
                 cycle, trace_bits, queue_cur, stop_soon, skipped_fuzz, res,
                 ret, q, i, highest, temp_v>>

Live(e) == ~disabled[e] /\ cal_failed[e] = 0 /\ exec_cksum[e] # {}

\* One iteration of the two nested loops over pairs idx < k of seeds.
Dedup ==
  /\ pc = "dedup"
  /\ idx < queued_items - 1
  /\ \/ /\ k = queued_items \/ ~Live(idx)
        /\ idx' = idx + 1 /\ k' = idx + 2
        /\ UNCHANGED flags
     \/ /\ k < queued_items /\ Live(idx)
        /\ IF Live(k) /\ exec_cksum[k] = exec_cksum[idx]
           THEN Disable(IF len[k] >= len[idx] THEN k ELSE idx)
           ELSE UNCHANGED flags
        /\ k' = k + 1 /\ UNCHANGED idx
  /\ UNCHANGED <<queued_items, len, results, fuzzing, favs, rating, cycle,
                 trace_bits, queue_cur, stop_soon, skipped_fuzz, res, pc, ret,
                 q, i, highest, temp_v>>

DedupEnd ==
  /\ pc = "dedup"
  /\ idx = queued_items - 1
  /\ pc' = "cull" /\ ret' = "check"
  /\ idx' = 0 /\ k' = 0
  /\ UNCHANGED <<queued_items, len, results, fuzzing, flags, favs, rating,
                 cycle, trace_bits, queue_cur, stop_soon, skipped_fuzz, res,
                 q, i, highest, temp_v>>

-----------------------------------------------------------------------------
(* The main loop                                                            *)

\* Mutant: disabled seeds count as well.
NoValidSeedAtAll == queued_items = 0

\* "We need at least one valid input seed that does not crash!"
NoValidSeed == pending_not_fuzzed = 0 \/ \A e \in Entries : disabled[e]

CheckSeeds ==
  /\ pc = "check"
  /\ pc' = CASE NoValidSeed -> "fatal"
             [] ~NoValidSeed /\ stop_soon  -> "stopped"
             [] ~NoValidSeed /\ ~stop_soon -> "loop"
  /\ UNCHANGED <<queued_items, len, results, fuzzing, flags, favs, rating,
                 cycle, trace_bits, queue_cur, stop_soon, skipped_fuzz, res,
                 ret, loops>>

LoopTop ==
  /\ pc = "loop"
  /\ IF stop_soon THEN pc' = "stopped" /\ UNCHANGED ret
                  ELSE pc' = "cull" /\ ret' = "cycle"
  /\ UNCHANGED <<queued_items, len, results, fuzzing, flags, favs, rating,
                 cycle, trace_bits, queue_cur, stop_soon, skipped_fuzz, res,
                 loops>>

NextSchedule ==
  [EXPLORE |-> "EXPLOIT", EXPLOIT |-> "MMOPT", MMOPT |-> "SEEK",
   SEEK |-> "EXPLORE", FAST |-> "COE", COE |-> "LIN", LIN |-> "QUAD",
   QUAD |-> "RARE", RARE |-> "FAST"]

\* The start of a queue cycle.  Statistics, splicing and the havoc levels it
\* also adjusts are not modelled.
Cycle ==
  /\ pc = "cycle"
  /\ runs' = IF runs > queued_items THEN 0 ELSE runs + 1
  /\ IF runs > queued_items /\ CycleSchedules
     THEN pc' = "rescore" /\ idx' = 0 /\ schedule' = NextSchedule[schedule]
     ELSE pc' = "select" /\ UNCHANGED <<idx, schedule>>
  /\ UNCHANGED <<queued_items, len, results, fuzzing, flags, favs, rating,
                 trace_bits, queue_cur, stop_soon, skipped_fuzz, res, ret, q,
                 i, k, highest, temp_v>>

\* "we must recalculate the scores of all queue entries": whatever trace the
\* last run of the target left in trace_bits is the one they are scored with.
Rescore ==
  /\ pc = "rescore"
  /\ IF idx = queued_items
     THEN pc' = "select" /\ idx' = 0 /\ UNCHANGED <<q, i, ret>>
     ELSE /\ idx' = idx + 1
          /\ IF disabled[idx]
             THEN UNCHANGED <<pc, q, i, ret>>
             ELSE pc' = "score" /\ q' = idx /\ i' = 0 /\ ret' = "rescore"
  /\ UNCHANGED <<queued_items, len, results, fuzzing, flags, favs, rating,
                 cycle, trace_bits, queue_cur, stop_soon, skipped_fuzz, res,
                 k, highest, temp_v>>

-----------------------------------------------------------------------------
(* pst_fuzz_select_next_queue_entry                                         *)

\* Bound on fuzz_level; once the user asked to stop, one more round is enough.
Selectable(e) == fuzz_level[e] < MaxLevel + (IF stop_soon THEN 1 ELSE 0)

\* One call in ten: draw until an enabled entry comes up.
SelectRandom ==
  /\ pc = "select"
  /\ \E e \in Entries : /\ ~disabled[e] /\ Selectable(e)
                        /\ queue_cur' = e
  /\ pc' = "fuzz"
  /\ UNCHANGED <<queued_items, len, results, fuzzing, flags, favs, rating,
                 cycle, trace_bits, stop_soon, skipped_fuzz, res, ret, loops>>

SelectGreedy ==
  /\ pc = "select"
  /\ highest' = 0 /\ idx' = 0
  /\ pc' = "scan"
  /\ UNCHANGED <<queued_items, len, results, fuzzing, flags, favs, rating,
                 cycle, trace_bits, queue_cur, stop_soon, skipped_fuzz, res,
                 ret, q, i, k, temp_v>>

\* Mutant: only an entry fuzzed less often is better.
BetterStrict(e, h) ==
  /\ bitmap_weight[e] > bitmap_weight[h]
  /\ fuzz_level[e] < fuzz_level[h]
  /\ ~disabled[e]

Better(e, h) ==
  /\ bitmap_weight[e] > bitmap_weight[h]
  /\ fuzz_level[e] <= fuzz_level[h]
  /\ ~disabled[e]

ScanEntry ==
  /\ pc = "scan"
  /\ idx < queued_items
  /\ highest' = IF Better(idx, highest) THEN idx ELSE highest
  /\ idx' = idx + 1
  /\ UNCHANGED <<queued_items, len, results, fuzzing, flags, favs, rating,
                 cycle, trace_bits, queue_cur, stop_soon, skipped_fuzz, res,
                 pc, ret, q, i, k, temp_v>>

ScanEnd ==
  /\ pc = "scan"
  /\ idx = queued_items
  /\ Selectable(highest)
  /\ queue_cur' = highest
  /\ pc' = "fuzz"
  /\ highest' = 0 /\ idx' = 0
  /\ UNCHANGED <<queued_items, len, results, fuzzing, flags, favs, rating,
                 cycle, trace_bits, stop_soon, skipped_fuzz, res, ret, q, i, k,
                 temp_v>>

-----------------------------------------------------------------------------
(* fuzz_one_original, down to what it does to the queue                     *)

MayCalibrate(e) == cal_failed[e] \in 1 .. CAL_CHANCES - 1

\* "CALIBRATION (only if failed earlier on)"
FuzzCalibrate ==
  /\ pc = "fuzz"
  /\ MayCalibrate(queue_cur)
  /\ Calibrate(queue_cur, "recal")
  /\ UNCHANGED <<queued_items, len, flags>>

FuzzStart ==
  /\ \/ /\ pc = "fuzz" /\ cal_failed[queue_cur] = 0
        /\ pc' = "trim" /\ UNCHANGED skipped_fuzz
     \/ /\ pc = "fuzz" /\ cal_failed[queue_cur] >= CAL_CHANCES
        /\ pc' = "abandon" /\ skipped_fuzz' = TRUE
     \/ /\ pc = "recal" /\ ~stop_soon /\ res = "OK"
        /\ pc' = "trim" /\ UNCHANGED skipped_fuzz
     \/ /\ pc = "recal" /\ (stop_soon \/ res # "OK")
        /\ pc' = "abandon" /\ skipped_fuzz' = TRUE
  /\ res' = "OK"
  /\ UNCHANGED <<queued_items, len, results, fuzzing, flags, favs, rating,
                 cycle, trace_bits, queue_cur, stop_soon, ret, loops>>

\* trim_case removed something that leaves the trace as exec_cksum has it:
\* the entry is shorter, hence scored again, with that trace.
TrimShorter ==
  /\ pc = "trim"
  /\ ~trim_done[queue_cur] /\ ~stop_soon
  /\ exec_cksum[queue_cur] # {}
  /\ \E l \in 1 .. len[queue_cur] - 1 : len' = [len EXCEPT ![queue_cur] = l]
  /\ trace_bits' = exec_cksum[queue_cur]
  /\ q' = queue_cur /\ i' = 0
  /\ pc' = "score" /\ ret' = "trimmed"
  /\ UNCHANGED <<queued_items, results, fuzzing, flags, favs, rating, cycle,
                 queue_cur, stop_soon, skipped_fuzz, res, idx, k, highest,
                 temp_v>>

\* trim_case removed nothing, or stop_soon aborted it: then the part already
\* removed is gone from the entry, which is not scored again.
TrimNoGain ==
  /\ pc = "trim"
  /\ ~trim_done[queue_cur]
  /\ \E l \in IF stop_soon /\ exec_cksum[queue_cur] # {}
              THEN 1 .. len[queue_cur] ELSE {len[queue_cur]} :
       len' = [len EXCEPT ![queue_cur] = l]
  /\ trace_bits' \in Clobbered
  /\ pc' = "trimmed"
  /\ UNCHANGED <<queued_items, results, fuzzing, flags, favs, rating, cycle,
                 queue_cur, stop_soon, skipped_fuzz, res, ret, loops>>

\* Back in fuzz_one: "Don't retry trimming, even if it failed."
Trimmed ==
  /\ \/ /\ pc = "trim" /\ trim_done[queue_cur]
        /\ pc' = "mutate"
        /\ UNCHANGED <<trim_done, skipped_fuzz>>
     \/ /\ pc = "trimmed" /\ ~stop_soon
        /\ trim_done' = [trim_done EXCEPT ![queue_cur] = TRUE]
        /\ pc' = "mutate" /\ UNCHANGED skipped_fuzz
     \/ /\ pc = "trimmed" /\ stop_soon
        /\ pc' = "abandon" /\ skipped_fuzz' = TRUE
        /\ UNCHANGED trim_done
  /\ UNCHANGED <<queued_items, len, results, fuzz_level, flags, favs, rating,
                 cycle, trace_bits, queue_cur, stop_soon, res, ret, loops>>

\* calculate_score gave 0 and there are other entries to fuzz.
LowScore ==
  /\ pc = "mutate"
  /\ active_items > 1
  /\ pc' = "abandon" /\ skipped_fuzz' = TRUE
  /\ UNCHANGED <<queued_items, len, results, fuzzing, flags, favs, rating,
                 cycle, trace_bits, queue_cur, stop_soon, res, ret, loops>>

\* A mutated input is run and save_if_interesting queues and calibrates it.
Find ==
  /\ pc = "mutate"
  /\ ~stop_soon
  /\ queued_items < MaxItems
  /\ \E l \in 1 .. MaxLen : AddToQueue(l)
  /\ Calibrate(queued_items, "mutate")

\* The stages end, or common_fuzz_stuff bails out (stop_soon, too many
\* timeouts in a row, SIGUSR1): then fuzz_one returns 1.
FuzzEnd ==
  /\ pc = "mutate"
  /\ trace_bits' \in Clobbered
  /\ skipped_fuzz' \in BOOLEAN
  /\ pc' = "abandon"
  /\ UNCHANGED <<queued_items, len, results, fuzzing, flags, favs, rating,
                 cycle, queue_cur, stop_soon, res, ret, loops>>

Done(e) == cal_failed[e] = 0 /\ ~was_fuzzed[e] /\ ~disabled[e] /\ ~stop_soon

\* Mutant: pending_favored is decremented for any entry done.
DoneFavoredAny(e) == Done(e)

DoneFavored(e) == Done(e) /\ favored[e]

\* Mutant: an entry that was skipped is replaced even when asked to stop.
AfterFuzzRetry == IF skipped_fuzz THEN "select" ELSE "loop"

\* The test of the inner loop around fuzz_one.
AfterFuzz == IF skipped_fuzz /\ ~stop_soon THEN "select" ELSE "loop"

\* abandon_entry.
Abandon ==
  /\ pc = "abandon"
  /\ was_fuzzed' = [was_fuzzed EXCEPT ![queue_cur] = @ \/ Done(queue_cur)]
  /\ pending_not_fuzzed' =
       pending_not_fuzzed - (IF Done(queue_cur) THEN 1 ELSE 0)
  /\ pending_favored' = pending_favored -
       (IF DoneFavored(queue_cur) THEN 1 ELSE 0)
  /\ fuzz_level' = [fuzz_level EXCEPT ![queue_cur] = @ + 1]
  /\ pc' = AfterFuzz
  /\ skipped_fuzz' = FALSE
  /\ UNCHANGED <<queued_items, len, results, trim_done, disabled,
                 active_items, favored, fs_redundant, queued_favored, rating,
                 cycle, trace_bits, queue_cur, stop_soon, res, ret, loops>>

-----------------------------------------------------------------------------
\* FSRV_RUN_ERROR from any run of the target: "Unable to execute target".
TargetError ==
  /\ pc \in {"dry", "fuzz", "trim", "mutate"}
  /\ pc' = "fatal"
  /\ UNCHANGED <<queued_items, len, results, fuzzing, flags, favs, rating,
                 cycle, trace_bits, queue_cur, stop_soon, skipped_fuzz, res,
                 ret, loops>>

\* handle_stop_sig: SIGINT, SIGTERM or SIGHUP, at any time.
Stop ==
  /\ pc \notin {"fatal", "stopped"}
  /\ Signals /\ ~stop_soon
  /\ stop_soon' = TRUE
  /\ UNCHANGED <<queued_items, len, results, fuzzing, flags, favs, rating,
                 cycle, trace_bits, queue_cur, skipped_fuzz, res, pc, ret,
                 loops>>

Seeding  == ReadTestcase \/ SeedsRead \/ SkipDryRun \/ DryRun \/ DryRunResult
            \/ DryRunEnd \/ Dedup \/ DedupEnd \/ CheckSeeds
Scoring  == ScoreByte \/ ScoreDone \/ CullStart \/ CullByte \/ CullEnd
MainLoop == LoopTop \/ Cycle \/ Rescore \/ SelectRandom \/ SelectGreedy
            \/ ScanEntry \/ ScanEnd
FuzzOne  == FuzzCalibrate \/ FuzzStart \/ TrimShorter \/ TrimNoGain \/ Trimmed
            \/ LowScore \/ Find \/ FuzzEnd \/ Abandon

Step == Seeding \/ Scoring \/ MainLoop \/ FuzzOne \/ TargetError
Next == Step \/ Stop

\* The program keeps running; the user need not stop it.
Spec == Init /\ [][Next]_vars /\ WF_vars(Step)

-----------------------------------------------------------------------------
(* Properties                                                               *)

Labels == {"seeds", "dry", "dried", "dedup", "cull", "culling", "check", "loop",
           "cycle", "rescore", "select", "scan", "fuzz", "recal", "trim",
           "trimmed", "mutate", "abandon", "score", "fatal", "stopped"}

\* Every variable has its type; cal_failed never passes CAL_CHANCES, so that
\* fuzz_one gives up on an entry after that many failed calibrations.
TypeOK ==
  /\ queued_items \in 0 .. MaxItems
  /\ len \in [Ids -> Nat]
  /\ exec_us \in [Ids -> Nat]
  /\ exec_cksum \in [Ids -> SUBSET Bytes]
  /\ bitmap_weight \in [Ids -> Nat]
  /\ fuzz_level \in [Ids -> Nat]
  /\ cal_failed \in [Ids -> 0 .. CAL_CHANCES]
  /\ trim_done \in [Ids -> BOOLEAN]
  /\ disabled \in [Ids -> BOOLEAN]
  /\ was_fuzzed \in [Ids -> BOOLEAN]
  /\ favored \in [Ids -> BOOLEAN]
  /\ fs_redundant \in [Ids -> BOOLEAN]
  /\ tc_ref \in [Ids -> Int]
  /\ trace_mini \in [Ids -> SUBSET Bytes]
  /\ top_rated \in [Bytes -> Ids \cup {NULL}]
  /\ score_changed \in BOOLEAN
  /\ active_items \in Int /\ pending_not_fuzzed \in Int
  /\ queued_favored \in Int /\ pending_favored \in Int
  /\ trace_bits \in SUBSET Bytes
  /\ schedule \in Powers
  /\ queue_cur \in Ids \cup {NULL}
  /\ stop_soon \in BOOLEAN
  /\ runs \in Nat
  /\ skipped_fuzz \in BOOLEAN
  /\ res \in {"OK", "NOBITS", "TMOUT", "CRASH", "NOINST"}
  /\ temp_v \in SUBSET Bytes
  /\ pc \in Labels /\ ret \in Labels \cup {"none"}
  /\ q \in Ids \cup {NULL}
  /\ i \in 0 .. MapSize
  /\ idx \in Nat /\ k \in Nat
  /\ highest \in Ids \cup {0}

\* tc_ref counts the bytes of which an entry is the top rated, and an entry has
\* a trace_mini exactly while it is the top rated of some byte: cull_queue
\* never dereferences a NULL trace_mini, update_bitmap_score never frees one
\* that is in use, and none is leaked.
Owned(e) == {b \in Bytes : top_rated[b] = e}
RefCounts ==
  \A e \in Ids : /\ tc_ref[e] = Cardinality(Owned(e))
                 /\ trace_mini[e] = {} <=> Owned(e) = {}

\* The four counters of afl_state_t that add_to_queue, perform_dry_run,
\* cull_queue and fuzz_one adjust incrementally count what they are meant to.
CountersExact ==
  /\ active_items = Cardinality({e \in Entries : ~disabled[e]})
  /\ pending_not_fuzzed = Cardinality({e \in Entries : ~was_fuzzed[e]})
  /\ queued_favored = Cardinality({e \in Entries : favored[e]})
  /\ pending_favored =
       Cardinality({e \in Entries : favored[e] /\ ~was_fuzzed[e]})

\* Unless a score changed since cull_queue last ran, the favoured entries
\* account for the whole map: the top rated entry of every byte is favoured, or
\* a favoured entry has the byte in its trace_mini.
FavoredCover ==
  (~score_changed /\ pc # "culling") =>
    \A b \in Bytes : top_rated[b] # NULL =>
      \E e \in Entries : favored[e] /\ (top_rated[b] = e \/ b \in trace_mini[e])

\* "a minimal set of paths that trigger all the bits seen in the bitmap so
\* far": every byte some calibrated entry hits is hit by a favoured one.
FavoredTriggerAll ==
  (~score_changed /\ pc \notin {"culling", "score"}) =>
    \A e \in Entries : \A b \in exec_cksum[e] :
      \E f \in Entries : favored[f] /\ b \in exec_cksum[f]

\* From FAST to QUAD, the top rated entry of a byte is the fastest and smallest
\* of those that hit it, through finds, trimming and duplicates.
TopRatedCheapest ==
  (pc # "score" /\ ~stop_soon /\ schedule \in {"FAST", "COE", "LIN", "QUAD"}) =>
    \A e \in Entries : \A b \in exec_cksum[e] :
      /\ top_rated[b] # NULL
      /\ b \in exec_cksum[top_rated[b]]
      /\ FavFactor(top_rated[b]) <= FavFactor(e)

\* The greedy branch of the PST selection ends with an entry no enabled entry
\* beats: none is heavier and fuzzed no more often.
GreedyUndominated ==
  (pc = "scan" /\ idx = queued_items) =>
    ~ \E e \in Entries : /\ ~disabled[e]
                         /\ bitmap_weight[e] > bitmap_weight[highest]
                         /\ fuzz_level[e] <= fuzz_level[highest]

\* The random branch draws until an enabled entry comes up: whenever the
\* program selects an entry there is one, so that it does not draw forever.
SomeEnabled ==
  pc \in {"loop", "cycle", "rescore", "select", "scan", "fuzz", "abandon"} =>
    \E e \in Entries : ~disabled[e]

\* After SIGINT the program ends, wherever it was.
StopStops == stop_soon ~> pc \in {"stopped", "fatal"}

\* "Check [...] if the entry isnt disabled": an entry that is disabled from
\* fuzz selection is never selected.
DisabledNeverFuzzed == pc = "fuzz" => ~disabled[queue_cur]

=============================================================================
