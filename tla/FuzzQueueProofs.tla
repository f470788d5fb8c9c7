-------------------------- MODULE FuzzQueueProofs --------------------------
(***************************************************************************)
(* Theorems about FuzzQueue, for a map of any size, a queue of any length  *)
(* and any schedule: the counters, the favoured entries and the selection, *)
(* that every step preserves the invariant, and what more is true of       *)
(* targets that behave the same on every run.                              *)
(***************************************************************************)
EXTENDS FuzzQueueInvariant

-----------------------------------------------------------------------------
(* The counters                                                             *)

\* What CountersExact is about.
counted == <<queued_items, flags, favored, queued_favored, pending_favored>>

\* What a step may do to the counted flags and their counters.
LEMMA CountersFrame ==
  ASSUME TypeOK, Control, Owners, [Next]_vars
  PROVE  \/ UNCHANGED counted
         \/ /\ \E l : AddToQueue(l)
            /\ queued_items < MaxItems
            /\ UNCHANGED <<favored, queued_favored, pending_favored>>
         \/ \E e \in Entries :
              /\ BeforeLoop /\ Disable(e)
              /\ UNCHANGED <<queued_items, favored, queued_favored,
                             pending_favored>>
         \/ /\ favored' = [e \in Ids |-> FALSE]
            /\ queued_favored' = 0 /\ pending_favored' = 0
            /\ UNCHANGED <<queued_items, flags>>
         \/ \E e \in Entries : Favor(e) /\ UNCHANGED <<queued_items, flags>>
         \/ Abandon
<1>1. CASE UNCHANGED core
  BY Zenon, <1>1 DEF core, counted
<1>2. CASE DryRun \/ ScoreByte \/ FuzzCalibrate
  BY Zenon, <1>2 DEF DryRun, ScoreByte, FuzzCalibrate, Calibrate, favs, counted
<1>3. CASE ReadTestcase
  <2>1. queued_items < MaxItems
    BY <1>3, SizesAssumption DEF TypeOK, ReadTestcase
  <2> QED
    BY Zenon, <1>3, <2>1 DEF ReadTestcase, favs
<1>4. CASE Find
  BY Zenon, <1>4 DEF Find, Calibrate, favs
<1>5. CASE DryRunResult
  <2>1. idx \in Entries /\ BeforeLoop
    BY Zenon, <1>5, Ranges DEF DryRunResult, InDryRun, BeforeLoop
  <2>2. Disable(idx) \/ UNCHANGED flags
    BY Zenon, <1>5 DEF DryRunResult
  <2>3. UNCHANGED <<queued_items, favored, queued_favored, pending_favored>>
    BY Zenon, <1>5 DEF DryRunResult, favs
  <2> QED
    BY Zenon, <2>1, <2>2, <2>3 DEF counted, flags
<1>6. CASE Dedup
  <2> DEFINE e == IF len[k] >= len[idx] THEN k ELSE idx
  <2>1. BeforeLoop
    BY Zenon, <1>6 DEF Dedup, BeforeLoop
  <2>2. (k < queued_items /\ Disable(e)) \/ UNCHANGED flags
    BY Zenon, <1>6 DEF Dedup
  <2>3. UNCHANGED <<queued_items, favored, queued_favored, pending_favored>>
    BY Zenon, <1>6 DEF Dedup, favs
  <2>4. k < queued_items => k \in Entries /\ idx \in Entries
    <3>1. idx \in Nat /\ k \in Nat /\ queued_items \in 0 .. MaxItems
      BY Zenon DEF TypeOK
    <3>2. idx < k
      BY Zenon, <1>6 DEF Dedup, Control
    <3> QED
      BY <3>1, <3>2 DEF Entries
  <2> QED
    BY Zenon, <2>1, <2>2, <2>3, <2>4 DEF counted, flags
<1>7. CASE CullStart
  BY Zenon, <1>7 DEF CullStart, counted, flags
<1>8. CASE CullByte
  <2>1. UNCHANGED <<queued_items, flags>> /\ i \in Bytes
    BY Zenon, <1>8, Ranges DEF CullByte
  <2>2. CASE Uncaptured(i)
    <3>1. top_rated[i] \in Entries
      BY Zenon, <2>1, <2>2 DEF Owners, Uncaptured
    <3> QED
      BY Zenon, <1>8, <2>1, <2>2, <3>1 DEF CullByte
  <2>3. CASE ~Uncaptured(i)
    BY Zenon, <1>8, <2>1, <2>3 DEF CullByte, counted, flags
  <2> QED
    BY Zenon, <2>2, <2>3
<1> QED
  BY Zenon, <1>1, <1>2, <1>3, <1>4, <1>5, <1>6, <1>7, <1>8, Calm

\* Sets of entries are finite.
LEMMA EntriesFinite ==
  ASSUME TypeOK
  PROVE  \A S : S \subseteq Entries => IsFiniteSet(S) /\ Cardinality(S) \in Nat
<1>1. IsFiniteSet(Entries)
  BY FS_Interval DEF Entries, TypeOK
<1> QED
  BY Zenon, <1>1, FS_Subset, FS_CardinalityType

\* The sets the four counters count.
ActiveSet         == {e \in Entries : ~disabled[e]}
PendingSet        == {e \in Entries : ~was_fuzzed[e]}
FavoredSet        == {e \in Entries : favored[e]}
PendingFavoredSet == {e \in Entries : favored[e] /\ ~was_fuzzed[e]}

\* So are the sets counted.
LEMMA CountedSets ==
  ASSUME TypeOK
  PROVE  \A S \in {ActiveSet, PendingSet, FavoredSet, PendingFavoredSet} :
           IsFiniteSet(S) /\ Cardinality(S) \in Nat
BY Zenon, EntriesFinite DEF ActiveSet, PendingSet, FavoredSet, PendingFavoredSet

\* Every step keeps the four counters exact.
LEMMA CountersStep ==
  ASSUME TypeOK, Control, Untouched, NoneFavored, Owners, CountersExact,
         [Next]_vars
  PROVE  CountersExact'
<1>0. /\ active_items = Cardinality(ActiveSet)
      /\ pending_not_fuzzed = Cardinality(PendingSet)
      /\ queued_favored = Cardinality(FavoredSet)
      /\ pending_favored = Cardinality(PendingFavoredSet)
  BY Zenon DEF CountersExact, ActiveSet, PendingSet, FavoredSet, PendingFavoredSet
<1> SUFFICES /\ active_items' = Cardinality(ActiveSet')
             /\ pending_not_fuzzed' = Cardinality(PendingSet')
             /\ queued_favored' = Cardinality(FavoredSet')
             /\ pending_favored' = Cardinality(PendingFavoredSet')
  BY Zenon DEF CountersExact, ActiveSet, PendingSet, FavoredSet, PendingFavoredSet
<1>ty. /\ queued_items \in Nat /\ Entries \subseteq Ids
       /\ disabled \in [Ids -> BOOLEAN] /\ was_fuzzed \in [Ids -> BOOLEAN]
       /\ favored \in [Ids -> BOOLEAN]
  BY SizesAssumption, Ranges DEF TypeOK
<1>fin. \A S \in {ActiveSet, PendingSet, FavoredSet, PendingFavoredSet} :
          IsFiniteSet(S) /\ Cardinality(S) \in Nat
  BY Zenon, CountedSets
<1>1. CASE UNCHANGED counted
  <2>1. /\ ActiveSet' = ActiveSet /\ PendingSet' = PendingSet
        /\ FavoredSet' = FavoredSet /\ PendingFavoredSet' = PendingFavoredSet
    BY Zenon, <1>1 DEF counted, flags, Entries,
                ActiveSet, PendingSet, FavoredSet, PendingFavoredSet
  <2> QED
    BY Zenon, <1>0, <1>1, <2>1 DEF counted, flags
<1>2. CASE /\ \E l : AddToQueue(l)
           /\ queued_items < MaxItems
           /\ UNCHANGED <<favored, queued_favored, pending_favored>>
  <2>1. /\ queued_items' = queued_items + 1
        /\ active_items' = active_items + 1
        /\ pending_not_fuzzed' = pending_not_fuzzed + 1
        /\ UNCHANGED <<disabled, was_fuzzed, favored, queued_favored,
                       pending_favored>>
    BY Zenon, <1>2 DEF AddToQueue
  <2>2. Entries' = Entries \cup {queued_items} /\ queued_items \notin Entries
    BY <1>ty, <2>1 DEF Entries
  <2>3. /\ ~disabled[queued_items] /\ ~was_fuzzed[queued_items]
        /\ ~favored[queued_items]
    <3>1. queued_items \in Ids \ Entries
      BY <1>2, <1>ty, <2>2, SizesAssumption DEF Ids
    <3> QED
      BY Zenon, <3>1 DEF Untouched, Clean
  <2>4. /\ ActiveSet' = ActiveSet \cup {queued_items}
        /\ PendingSet' = PendingSet \cup {queued_items}
        /\ FavoredSet' = FavoredSet
        /\ PendingFavoredSet' = PendingFavoredSet
    BY <2>1, <2>2, <2>3, Zenon
    DEF ActiveSet, PendingSet, FavoredSet, PendingFavoredSet
  <2>5. queued_items \notin ActiveSet /\ queued_items \notin PendingSet
    BY Zenon, <2>2 DEF ActiveSet, PendingSet
  <2>6. /\ Cardinality(ActiveSet') = Cardinality(ActiveSet) + 1
        /\ Cardinality(PendingSet') = Cardinality(PendingSet) + 1
    BY Zenon, <1>fin, <2>4, <2>5, FS_AddElement
  <2> QED
    BY Zenon, <1>0, <2>1, <2>4, <2>6
<1>3. ASSUME NEW e \in Entries, BeforeLoop, Disable(e),
             UNCHANGED <<queued_items, favored, queued_favored,
                         pending_favored>>
      PROVE  /\ active_items' = Cardinality(ActiveSet')
             /\ pending_not_fuzzed' = Cardinality(PendingSet')
             /\ queued_favored' = Cardinality(FavoredSet')
             /\ pending_favored' = Cardinality(PendingFavoredSet')
  <2>1. was_fuzzed[e] = disabled[e] /\ \A f \in Ids : ~favored[f]
    BY Zenon, <1>3, <1>ty DEF Untouched, NoneFavored
  <2>2. Entries' = Entries
    BY Zenon, <1>3 DEF Entries
  <2>3. /\ disabled' = [disabled EXCEPT ![e] = TRUE]
        /\ was_fuzzed' = [was_fuzzed EXCEPT ![e] = TRUE]
    BY Zenon, <1>3 DEF Disable
  <2>4. /\ FavoredSet = {} /\ FavoredSet' = {}
        /\ PendingFavoredSet = {} /\ PendingFavoredSet' = {}
    BY Zenon, <1>3, <1>ty, <2>1, <2>2 DEF FavoredSet, PendingFavoredSet
  <2>5. ActiveSet' = ActiveSet \ {e} /\ PendingSet' = PendingSet \ {e}
    BY Zenon, <1>ty, <2>2, <2>3 DEF ActiveSet, PendingSet
  <2>6. CASE was_fuzzed[e]
    <3>1. active_items' = active_items - 0
          /\ pending_not_fuzzed' = pending_not_fuzzed - 0
      BY Zenon, <1>3, <2>6 DEF Disable
    <3>2. ActiveSet' = ActiveSet /\ PendingSet' = PendingSet
      BY Zenon, <2>1, <2>5, <2>6 DEF ActiveSet, PendingSet
    <3> QED
      BY <1>0, <1>3, <1>fin, <2>4, <3>1, <3>2
  <2>7. CASE ~was_fuzzed[e]
    <3>1. active_items' = active_items - 1
          /\ pending_not_fuzzed' = pending_not_fuzzed - 1
      BY Zenon, <1>3, <2>7 DEF Disable
    <3>2. e \in ActiveSet /\ e \in PendingSet
      BY Zenon, <2>1, <2>7 DEF ActiveSet, PendingSet
    <3>3. /\ Cardinality(ActiveSet') = Cardinality(ActiveSet) - 1
          /\ Cardinality(PendingSet') = Cardinality(PendingSet) - 1
      BY Zenon, <1>fin, <2>5, <3>2, FS_RemoveElement
    <3> QED
      BY Zenon, <1>0, <1>3, <2>4, <3>1, <3>3
  <2> QED
    BY Zenon, <2>6, <2>7
<1>4. CASE /\ favored' = [e \in Ids |-> FALSE]
           /\ queued_favored' = 0 /\ pending_favored' = 0
           /\ UNCHANGED <<queued_items, flags>>
  <2>1. ActiveSet' = ActiveSet /\ PendingSet' = PendingSet
    BY Zenon, <1>4 DEF flags, Entries, ActiveSet, PendingSet
  <2>2. Entries' = Entries
    BY Zenon, <1>4 DEF Entries
  <2>3. FavoredSet' = {} /\ PendingFavoredSet' = {}
    BY Zenon, <1>4, <1>ty, <2>2 DEF FavoredSet, PendingFavoredSet
  <2> QED
    BY Zenon, <1>0, <1>4, <2>1, <2>3, FS_EmptySet DEF flags
<1>5. ASSUME NEW e \in Entries, Favor(e), UNCHANGED <<queued_items, flags>>
      PROVE  /\ active_items' = Cardinality(ActiveSet')
             /\ pending_not_fuzzed' = Cardinality(PendingSet')
             /\ queued_favored' = Cardinality(FavoredSet')
             /\ pending_favored' = Cardinality(PendingFavoredSet')
  <2>1. ActiveSet' = ActiveSet /\ PendingSet' = PendingSet
    BY Zenon, <1>5 DEF flags, Entries, ActiveSet, PendingSet
  <2>2. /\ active_items' = Cardinality(ActiveSet')
        /\ pending_not_fuzzed' = Cardinality(PendingSet')
    BY Zenon, <1>0, <1>5, <2>1 DEF flags
  <2>3. Entries' = Entries /\ was_fuzzed' = was_fuzzed
    BY Zenon, <1>5 DEF Entries, flags
  <2>4. favored' = [favored EXCEPT ![e] = TRUE]
    BY Zenon, <1>5 DEF Favor
  <2>5. FavoredSet' = FavoredSet \cup {e}
    BY Zenon, <1>ty, <2>3, <2>4 DEF FavoredSet
  <2>6. PendingFavoredSet' = IF was_fuzzed[e] THEN PendingFavoredSet
                             ELSE PendingFavoredSet \cup {e}
    BY Zenon, <1>ty, <2>3, <2>4 DEF PendingFavoredSet
  <2>7. queued_favored' = Cardinality(FavoredSet')
    <3>1. CASE favored[e]
      <4>1. FavoredSet' = FavoredSet
        BY Zenon, <2>5, <3>1 DEF FavoredSet
      <4> QED
        BY <1>0, <1>5, <1>fin, <3>1, <4>1 DEF Favor
    <3>2. CASE ~favored[e]
      <4>1. e \notin FavoredSet
        BY Zenon, <3>2 DEF FavoredSet
      <4>2. Cardinality(FavoredSet') = Cardinality(FavoredSet) + 1
        BY Zenon, <1>fin, <2>5, <4>1, FS_AddElement
      <4> QED
        BY Zenon, <1>0, <1>5, <3>2, <4>2 DEF Favor
    <3> QED
      BY Zenon, <3>1, <3>2
  <2>8. pending_favored' = Cardinality(PendingFavoredSet')
    <3>1. CASE favored[e] \/ was_fuzzed[e]
      <4>1. PendingFavoredSet' = PendingFavoredSet
        BY Zenon, <2>6, <3>1 DEF PendingFavoredSet
      <4> QED
        BY <1>0, <1>5, <1>fin, <3>1, <4>1 DEF Favor
    <3>2. CASE ~(favored[e] \/ was_fuzzed[e])
      <4>1. e \notin PendingFavoredSet
        BY Zenon, <3>2 DEF PendingFavoredSet
      <4>2. Cardinality(PendingFavoredSet') = Cardinality(PendingFavoredSet) + 1
        BY Zenon, <1>fin, <2>6, <3>2, <4>1, FS_AddElement
      <4> QED
        BY Zenon, <1>0, <1>5, <3>2, <4>2 DEF Favor
    <3> QED
      BY Zenon, <3>1, <3>2
  <2> QED
    BY Zenon, <2>2, <2>7, <2>8
<1>6. CASE Abandon
  <2> DEFINE e == queue_cur
  <2>1. e \in Entries
    BY Zenon, <1>6 DEF Control, InFuzzOne, Abandon
  <2>2. UNCHANGED <<queued_items, disabled, active_items, favored,
                    queued_favored>>
    BY Zenon, <1>6 DEF Abandon
  <2>3. Entries' = Entries
    BY Zenon, <2>2 DEF Entries
  <2>4. ActiveSet' = ActiveSet /\ FavoredSet' = FavoredSet
    BY Zenon, <2>2, <2>3 DEF ActiveSet, FavoredSet
  <2>5. CASE Done(e)
    <3>1. was_fuzzed' = [was_fuzzed EXCEPT ![e] = TRUE] /\ ~was_fuzzed[e]
      BY Zenon, <1>6, <1>ty, <2>1, <2>5 DEF Abandon, Done
    <3>2. /\ PendingSet' = PendingSet \ {e} /\ e \in PendingSet
      BY Zenon, <1>ty, <2>1, <2>3, <3>1 DEF PendingSet
    <3>3. pending_not_fuzzed' = Cardinality(PendingSet')
      <4>1. pending_not_fuzzed' = pending_not_fuzzed - 1
        BY Zenon, <1>6, <2>5 DEF Abandon
      <4>2. Cardinality(PendingSet') = Cardinality(PendingSet) - 1
        BY Zenon, <1>fin, <3>2, FS_RemoveElement
      <4> QED
        BY Zenon, <1>0, <4>1, <4>2
    <3>4. PendingFavoredSet' = PendingFavoredSet \ {e}
      BY Zenon, <1>ty, <2>1, <2>2, <2>3, <3>1 DEF PendingFavoredSet
    <3>5. CASE favored[e]
      <4>1. pending_favored' = pending_favored - 1
        BY Zenon, <1>6, <2>5, <3>5 DEF Abandon, DoneFavored
      <4>2. e \in PendingFavoredSet
        BY Zenon, <2>1, <3>1, <3>5 DEF PendingFavoredSet
      <4>3. Cardinality(PendingFavoredSet') = Cardinality(PendingFavoredSet) - 1
        BY Zenon, <1>fin, <3>4, <4>2, FS_RemoveElement
      <4> QED
        BY Zenon, <1>0, <2>2, <2>4, <3>3, <4>1, <4>3
    <3>6. CASE ~favored[e]
      <4>1. pending_favored' = pending_favored - 0
        BY Zenon, <1>6, <3>6 DEF Abandon, DoneFavored
      <4>2. PendingFavoredSet' = PendingFavoredSet
        BY Zenon, <3>4, <3>6 DEF PendingFavoredSet
      <4> QED
        BY <1>0, <1>fin, <2>2, <2>4, <3>3, <4>1, <4>2
    <3> QED
      BY Zenon, <3>5, <3>6
  <2>6. CASE ~Done(e)
    <3>1. was_fuzzed' = was_fuzzed
      BY Zenon, <1>6, <1>ty, <2>1, <2>6 DEF Abandon
    <3>2. /\ PendingSet' = PendingSet
          /\ PendingFavoredSet' = PendingFavoredSet
      BY Zenon, <2>2, <2>3, <3>1 DEF PendingSet, PendingFavoredSet
    <3>3. /\ pending_not_fuzzed' = pending_not_fuzzed - 0
          /\ pending_favored' = pending_favored - 0
      BY Zenon, <1>6, <2>6 DEF Abandon, DoneFavored
    <3> QED
      BY <1>0, <1>fin, <2>2, <2>4, <3>2, <3>3
  <2> QED
    BY Zenon, <2>5, <2>6
<1> QED
  BY Zenon, <1>1, <1>2, <1>3, <1>4, <1>5, <1>6, CountersFrame

-----------------------------------------------------------------------------
(* cull_queue                                                               *)

\* Steps other than those of update_bitmap_score and cull_queue leave the top
\* rated and the favoured entries alone.
LEMMA CullFrame ==
  ASSUME TypeOK, Control, [Next]_vars
  PROVE  \/ /\ UNCHANGED <<score_changed, top_rated, trace_mini, favored>>
            /\ (pc' = "culling") = (pc = "culling")
            /\ pc = "culling" => UNCHANGED <<i, temp_v>>
         \/ ScoreByte \/ CullStart \/ CullByte \/ CullEnd
<1>1. CASE UNCHANGED core
  <2>1. UNCHANGED <<score_changed, top_rated, trace_mini, favored>>
    BY Zenon, <1>1 DEF core, rating
  <2> QED
    BY Zenon, <2>1, FlowStep DEF Flow
<1>2. CASE \/ ReadTestcase \/ DryRun \/ DryRunResult \/ Dedup
           \/ FuzzCalibrate \/ Find \/ Abandon
  <2>1. UNCHANGED <<score_changed, top_rated, trace_mini, favored>>
    BY Zenon, <1>2 DEF ReadTestcase, DryRun, DryRunResult, Dedup, FuzzCalibrate, Find,
       Abandon, Calibrate, rating, favs
  <2> QED
    BY Zenon, <2>1, FlowStep DEF Flow
<1> QED
  BY Zenon, <1>1, <1>2, Calm

\* The favoured entries cover the map whenever cull_queue is done.
LEMMA FavoredCoverStep ==
  ASSUME TypeOK, Control, FavoredCover, Culling, [Next]_vars
  PROVE  FavoredCover'
<1>0. FavoredCover /\ Control
  BY Zenon
<1>1. Entries \subseteq Entries'
  BY Zenon, EntriesGrow
<1>2. CASE /\ UNCHANGED <<score_changed, top_rated, trace_mini, favored>>
           /\ (pc' = "culling") = (pc = "culling")
  BY Zenon, <1>0, <1>1, <1>2 DEF FavoredCover
<1>3. CASE ScoreByte
  <2>1. pc' # "culling" /\ pc # "culling" /\ UNCHANGED favored
    BY Zenon, <1>3 DEF ScoreByte, favs
  <2>2. score_changed' \/ UNCHANGED <<score_changed, top_rated, trace_mini>>
    BY Zenon, <1>3 DEF ScoreByte, TakeByte, rating
  <2> QED
    BY Zenon, <1>0, <1>1, <2>1, <2>2 DEF FavoredCover
<1>4. CASE CullStart
  <2>1. CASE score_changed
    BY Zenon, <1>4, <2>1 DEF CullStart, FavoredCover
  <2>2. CASE ~score_changed
    <3>1. /\ UNCHANGED <<score_changed, top_rated, trace_mini, favored>>
          /\ pc # "culling"
      BY Zenon, <1>4, <2>2 DEF CullStart
    <3> QED
      BY Zenon, <1>0, <1>1, <3>1 DEF FavoredCover
  <2> QED
    BY Zenon, <2>1, <2>2
<1>5. CASE CullByte
  BY Zenon, <1>5 DEF CullByte, FavoredCover
<1>6. CASE CullEnd
  <2>1. UNCHANGED <<top_rated, trace_mini, favored>>
    BY Zenon, <1>6 DEF CullEnd, rating
  <2>2. \A b \in Bytes : b < MapSize
    BY SizesAssumption DEF Bytes
  <2>3. \A b \in Bytes : top_rated[b] # NULL => CoveredByte(b)
    BY Zenon, <1>6, <2>2 DEF CullEnd, Culling
  <2> QED
    BY Zenon, <1>1, <2>1, <2>3 DEF FavoredCover, CoveredByte
<1> QED
  BY Zenon, <1>2, <1>3, <1>4, <1>5, <1>6, CullFrame

\* The loop invariant of cull_queue.
LEMMA CullingStep ==
  ASSUME TypeOK, Control, Owners, Culling, [Next]_vars
  PROVE  Culling'
<1>0. Culling /\ Control
  BY Zenon
<1>1. Entries \subseteq Entries'
  BY Zenon, EntriesGrow
<1>2. CASE /\ UNCHANGED <<score_changed, top_rated, trace_mini, favored>>
           /\ (pc' = "culling") = (pc = "culling")
           /\ pc = "culling" => UNCHANGED <<i, temp_v>>
  BY Zenon, <1>0, <1>1, <1>2 DEF Culling, CoveredByte
<1>3. CASE ScoreByte
  BY Zenon, <1>3 DEF ScoreByte, Culling
<1>4. CASE CullStart
  <2>1. CASE score_changed
    <3>1. ~score_changed' /\ temp_v' = Bytes /\ i' = 0
      BY Zenon, <1>4, <2>1 DEF CullStart
    <3>2. \A b \in Bytes : ~(b < 0)
      BY SizesAssumption DEF Bytes
    <3> QED
      BY Zenon, <3>1, <3>2 DEF Culling
  <2>2. CASE ~score_changed
    BY Zenon, <1>0, <1>4, <2>2 DEF CullStart, Culling, Control
  <2> QED
    BY Zenon, <2>1, <2>2
<1>5. CASE CullByte
  <2>1. /\ pc = "culling" /\ i < MapSize /\ i' = i + 1
        /\ UNCHANGED <<pc, queued_items, score_changed, top_rated, trace_mini>>
    BY Zenon, <1>5 DEF CullByte, rating
  <2>2. /\ i \in Bytes /\ favored \in [Ids -> BOOLEAN]
        /\ \A b \in Bytes : b < i + 1 => b < i \/ b = i
    <3>1. i \in 0 .. MapSize /\ favored \in [Ids -> BOOLEAN]
      BY Zenon DEF TypeOK
    <3> QED
      BY <2>1, <3>1, SizesAssumption DEF Bytes
  <2>3. /\ ~score_changed
        /\ \A b \in Bytes \ temp_v :
             \E e \in Entries : favored[e] /\ b \in trace_mini[e]
        /\ \A b \in Bytes : b < i /\ top_rated[b] # NULL => CoveredByte(b)
    BY Zenon, <1>0, <2>1 DEF Culling
  <2>4. Entries' = Entries
    BY Zenon, <2>1 DEF Entries
  <2>5. CASE Uncaptured(i)
    <3>1. /\ temp_v' = temp_v \ trace_mini[top_rated[i]]
          /\ favored' = [favored EXCEPT ![top_rated[i]] = TRUE]
      BY Zenon, <1>5, <2>5 DEF CullByte, Favor
    <3>2. top_rated[i] \in Entries /\ Entries \subseteq Ids
      BY Zenon, <2>2, <2>5, Ranges DEF Owners, Uncaptured
    <3>3. favored'[top_rated[i]] /\ \A e \in Entries : favored[e] => favored'[e]
      BY Zenon, <2>2, <3>1, <3>2
    <3>4. \A b \in Bytes \ temp_v' :
            \E e \in Entries : favored'[e] /\ b \in trace_mini[e]
      BY Zenon, <2>3, <3>1, <3>2, <3>3
    <3>5. \A b \in Bytes : CoveredByte(b) => CoveredByte(b)'
      BY Zenon, <2>1, <2>4, <3>3 DEF CoveredByte
    <3>6. \E e \in Entries' : favored'[e] /\ top_rated'[i] = e
      BY Zenon, <2>1, <2>4, <3>2, <3>3
    <3>7. \A b \in Bytes : b < i + 1 /\ top_rated[b] # NULL => CoveredByte(b)'
      BY Zenon, <2>1, <2>2, <2>3, <3>5, <3>6 DEF CoveredByte
    <3> QED
      BY Zenon, <2>1, <2>3, <2>4, <3>4, <3>7 DEF Culling
  <2>6. CASE ~Uncaptured(i)
    <3>1. UNCHANGED <<temp_v, favored>>
      BY Zenon, <1>5, <2>6 DEF CullByte
    <3>2. top_rated[i] # NULL => CoveredByte(i)
      BY Zenon, <2>2, <2>3, <2>6 DEF Uncaptured, CoveredByte
    <3>3. \A b \in Bytes : b < i + 1 /\ top_rated[b] # NULL => CoveredByte(b)
      BY Zenon, <2>2, <2>3, <3>2
    <3>4. \A b \in Bytes : CoveredByte(b) => CoveredByte(b)'
      BY Zenon, <2>1, <2>4, <3>1 DEF CoveredByte
    <3> QED
      BY Zenon, <2>1, <2>3, <2>4, <3>1, <3>3, <3>4 DEF Culling
  <2> QED
    BY Zenon, <2>5, <2>6
<1>6. CASE CullEnd
  BY Zenon, <1>0, <1>6 DEF CullEnd, Culling, Control
<1> QED
  BY Zenon, <1>2, <1>3, <1>4, <1>5, <1>6, CullFrame

-----------------------------------------------------------------------------
(* Selection                                                                *)

\* The loop invariant of the greedy scan: "beats" is transitive.
LEMMA ScannedStep ==
  ASSUME TypeOK, Control, Scanned, [Next]_vars
  PROVE  Scanned'
<1>0. Control /\ Scanned /\ Flow
  BY Zenon, FlowStep
<1>1. CASE /\ pc = "scan" /\ pc' = "scan"
           /\ UNCHANGED <<idx, highest, bitmap_weight, fuzz_level>>
           /\ ~ScanEntry
  <2>1. UNCHANGED <<queued_items, disabled>>
    <3>1. CASE UNCHANGED core
      BY Zenon, <3>1 DEF core, flags
    <3> QED
      BY Zenon, <1>1, <3>1, Calm DEF ReadTestcase, DryRun, DryRunResult, Dedup,
         ScoreByte, CullStart, CullByte, FuzzCalibrate, Find, Abandon
  <2> QED
    BY Zenon, <1>0, <1>1, <2>1 DEF Scanned, Better, Entries
<1>2. CASE SelectGreedy
  BY <1>2 DEF SelectGreedy, Scanned, Entries
<1>3. CASE ScanEntry
  <2>1. /\ pc = "scan" /\ idx < queued_items /\ idx' = idx + 1
        /\ highest' = IF Better(idx, highest) THEN idx ELSE highest
        /\ UNCHANGED <<queued_items, disabled, bitmap_weight, fuzz_level>>
    BY Zenon, <1>3 DEF ScanEntry, results, fuzzing, flags
  <2>2. idx \in Entries /\ highest \in Entries
    BY <1>0, <2>1 DEF TypeOK, Control, Entries
  <2>3. /\ bitmap_weight \in [Ids -> Nat] /\ fuzz_level \in [Ids -> Nat]
        /\ Entries \subseteq Ids /\ Entries' = Entries
        /\ \A e \in Entries : e < idx' => e < idx \/ e = idx
    <3>1. queued_items \in 0 .. MaxItems /\ idx \in Nat
      BY Zenon DEF TypeOK
    <3>2. bitmap_weight \in [Ids -> Nat] /\ fuzz_level \in [Ids -> Nat]
      BY Zenon DEF TypeOK
    <3> QED
      BY <2>1, <3>1, <3>2, SizesAssumption DEF Entries, Ids
  <2>4. \A e \in Entries : bitmap_weight[e] \in Nat /\ fuzz_level[e] \in Nat
    BY Zenon, <2>3
  <2>5. \A e \in Entries : e < idx => ~Better(e, highest)
    BY Zenon, <1>0, <2>1 DEF Scanned
  <2>6. SUFFICES ASSUME NEW e \in Entries, e < idx'
                 PROVE  ~Better(e, highest')
    <3>1. \A e \in Entries : Better(e, highest)' = Better(e, highest')
      BY Zenon, <2>1 DEF Better
    <3> QED
      BY Zenon, <2>3, <3>1 DEF Scanned
  <2>7. e < idx \/ e = idx
    BY Zenon, <2>3, <2>6
  <2>8. CASE Better(idx, highest)
    BY <2>1, <2>2, <2>4, <2>5, <2>7, <2>8 DEF Better
  <2>9. CASE ~Better(idx, highest)
    BY Zenon, <2>1, <2>5, <2>7, <2>9
  <2> QED
    BY Zenon, <2>8, <2>9
<1>4. CASE pc' # "scan"
  BY Zenon, <1>4 DEF Scanned
<1> QED
  BY Zenon, <1>0, <1>1, <1>2, <1>3, <1>4 DEF Flow

\* Once CheckSeeds has found an enabled seed, it stays enabled.
LEMMA EnabledStep ==
  ASSUME TypeOK, Control, Owners, Enabled, [Next]_vars
  PROVE  Enabled'
<1>0. Entries \subseteq Entries' /\ (Selecting' => Selecting \/ CheckSeeds)
  BY Zenon, EntriesGrow, FlowStep DEF Flow
<1>1. CASE CheckSeeds
  <2>1. Selecting' => ~NoValidSeed
    BY Zenon, <1>1 DEF CheckSeeds, Selecting, InFuzzOne
  <2>2. UNCHANGED disabled
    BY Zenon, <1>1 DEF CheckSeeds, flags
  <2> QED
    BY Zenon, <1>0, <2>1, <2>2 DEF NoValidSeed, Enabled
<1>2. CASE Selecting /\ Selecting'
  <2>1. UNCHANGED disabled
    <3>1. ~BeforeLoop
      BY Zenon, <1>2 DEF Selecting, InFuzzOne, BeforeLoop, InDryRun
    <3> QED
      BY Zenon, <3>1, CountersFrame DEF counted, flags, AddToQueue, Abandon
  <2> QED
    BY Zenon, <1>0, <1>2, <2>1 DEF Enabled
<1> QED
  BY Zenon, <1>0, <1>1, <1>2 DEF Enabled

-----------------------------------------------------------------------------
(* The theorems                                                             *)

\* The initial state satisfies the invariant.
LEMMA InitIInv == Init => IInv
<1> SUFFICES ASSUME Init
             PROVE  IInv
  BY Zenon
<1>1. TypeOK
  <2>1. /\ trim_done \in [Ids -> BOOLEAN] /\ disabled \in [Ids -> BOOLEAN]
        /\ was_fuzzed \in [Ids -> BOOLEAN] /\ favored \in [Ids -> BOOLEAN]
        /\ fs_redundant \in [Ids -> BOOLEAN]
    BY Zenon DEF Init
  <2>2. /\ score_changed \in BOOLEAN /\ stop_soon \in BOOLEAN
        /\ skipped_fuzz \in BOOLEAN
    BY Zenon DEF Init
  <2>3. /\ len \in [Ids -> Nat] /\ exec_us \in [Ids -> Nat]
        /\ exec_cksum \in [Ids -> SUBSET Bytes]
        /\ bitmap_weight \in [Ids -> Nat] /\ fuzz_level \in [Ids -> Nat]
        /\ cal_failed \in [Ids -> 0 .. CAL_CHANCES]
        /\ tc_ref \in [Ids -> Int] /\ trace_mini \in [Ids -> SUBSET Bytes]
        /\ top_rated \in [Bytes -> Ids \cup {NULL}]
    BY DEF Init, CAL_CHANCES
  <2>4. /\ queued_items \in 0 .. MaxItems /\ runs \in Nat
        /\ i \in 0 .. MapSize /\ idx \in Nat /\ k \in Nat
        /\ highest \in Ids \cup {0}
        /\ active_items \in Int /\ pending_not_fuzzed \in Int
        /\ queued_favored \in Int /\ pending_favored \in Int
    BY SizesAssumption DEF Init
  <2>5. /\ trace_bits \in SUBSET Bytes /\ temp_v \in SUBSET Bytes
        /\ schedule \in Powers
        /\ queue_cur \in Ids \cup {NULL} /\ q \in Ids \cup {NULL}
        /\ res \in {"OK", "NOBITS", "TMOUT", "CRASH", "NOINST"}
        /\ pc \in Labels /\ ret \in Labels \cup {"none"}
    BY Zenon, ScheduleAssumption DEF Init, Labels
  <2> QED
    BY Zenon, <2>1, <2>2, <2>3, <2>4, <2>5 DEF TypeOK
<1>2. Control /\ Untouched /\ NoneFavored
  BY Zenon DEF Init, Control, Untouched, NoneFavored, Clean, InFuzzOne, InDryRun,
         BeforeLoop
<1>3. \A b \in Bytes : top_rated[b] = NULL
  BY Zenon DEF Init
<1>4. \A e \in Ids : Owned(e) = {}
  BY <1>3, SizesAssumption DEF Owned, Ids, NULL
<1>5. RefCounts
  BY Zenon, <1>4, FS_EmptySet DEF Init, RefCounts
<1>6. CountersExact
  <2>1. Entries = {}
    BY DEF Init, Entries
  <2> QED
    BY Zenon, <2>1, FS_EmptySet DEF Init, CountersExact
<1>7. Owners /\ FavoredCover
  BY Zenon, <1>3 DEF Owners, FavoredCover
<1>8. Culling /\ Scanned /\ Enabled
  BY Zenon DEF Init, Culling, Scanned, Enabled, Selecting, InFuzzOne
<1> QED
  BY Zenon, <1>1, <1>2, <1>5, <1>6, <1>7, <1>8 DEF IInv

\* Wherever seeds, calibrations, finds, trimming, culling and signals lead, the
\* conjunction of all the facts above holds.
THEOREM Invariance == Spec => []IInv
<1>1. IInv /\ [Next]_vars => IInv'
  BY Zenon, TypeStep, ControlStep, UntouchedStep, NoneFavoredStep, OwnersStep,
     RefCountsStep, CountersStep, FavoredCoverStep, CullingStep, ScannedStep,
     EnabledStep DEF IInv
<1> QED
  BY InitIInv, <1>1, PTL DEF Spec

\* Every variable of the fuzzer keeps its type; in particular cal_failed stays
\* within CAL_CHANCES whatever the target does in calibrate_case.
THEOREM TypeCorrect == Spec => []TypeOK
<1>1. IInv => TypeOK
  BY Zenon DEF IInv
<1> QED
  BY <1>1, Invariance, PTL

\* update_bitmap_score keeps the reference counts of trace_mini exact: whoever
\* is top rated has a trace_mini, and nobody else does.
THEOREM RefCountsHold == Spec => []RefCounts
<1>1. IInv => RefCounts
  BY Zenon DEF IInv
<1> QED
  BY <1>1, Invariance, PTL

\* active_items, pending_not_fuzzed, queued_favored and pending_favored never
\* drift from the flags of the queue entries they summarise.
THEOREM CountersHold == Spec => []CountersExact
<1>1. IInv => CountersExact
  BY Zenon DEF IInv
<1> QED
  BY <1>1, Invariance, PTL

\* Whenever cull_queue has nothing left to do, the favoured entries cover every
\* byte that has a top rated entry.
THEOREM CoverHolds == Spec => []FavoredCover
<1>1. IInv => FavoredCover
  BY Zenon DEF IInv
<1> QED
  BY <1>1, Invariance, PTL

\* The greedy branch of pst_fuzz_select_next_queue_entry returns an entry that
\* no enabled entry beats on weight without having been fuzzed more often.
THEOREM GreedyHolds == Spec => []GreedyUndominated
<1>1. IInv => GreedyUndominated
  <2> SUFFICES ASSUME Scanned, queued_items \in Nat
               PROVE  GreedyUndominated
    BY DEF IInv, TypeOK
  <2>1. \A e \in Entries : e < queued_items
    BY DEF Entries
  <2> QED
    BY Zenon, <2>1 DEF Scanned, GreedyUndominated, Better
<1> QED
  BY <1>1, Invariance, PTL

\* From the check of the seeds on, the random branch of the selection always
\* has an enabled entry to draw.
THEOREM SomeEnabledHolds == Spec => []SomeEnabled
<1>1. IInv => SomeEnabled
  BY Zenon DEF IInv, Enabled, Selecting, InFuzzOne, SomeEnabled
<1> QED
  BY <1>1, Invariance, PTL

-----------------------------------------------------------------------------
(* Targets that behave the same on every run                                *)

\* A trace belongs to the calibration that succeeded, and a score is counted
\* with the trace of the entry that is scored; without AFL_CYCLE_SCHEDULES
\* nothing is scored with another trace.
OwnTraces ==
  /\ \A e \in Ids : cal_failed[e] # 0 \/ e \notin Entries => exec_cksum[e] = {}
  /\ pc = "seeds" => \A e \in Ids : exec_cksum[e] = {}
  /\ pc = "dry" => \A e \in Ids : e >= idx => exec_cksum[e] = {}
  /\ InDryRun => \A e \in Ids : e > idx => exec_cksum[e] = {}
  /\ InDryRun /\ res \notin {"OK", "NOBITS"} => exec_cksum[idx] = {}
  /\ pc = "score" => trace_bits = exec_cksum[q]
  /\ pc # "rescore" /\ (pc = "score" => ret # "rescore")

\* The top rated entry of a byte hits it, and trace_mini is the trace.
Hits ==
  /\ \A b \in Bytes : top_rated[b] # NULL => b \in exec_cksum[top_rated[b]]
  /\ \A e \in Ids : trace_mini[e] \in {{}, exec_cksum[e]}

\* update_bitmap_score has not come to byte b of the entry it scores.
Pending(e, b) == pc = "score" /\ e = q /\ b >= i

\* Every byte of a trace has a top rated entry ...
Scored ==
  \A e \in Ids : \A b \in exec_cksum[e] : top_rated[b] # NULL \/ Pending(e, b)

\* ... and from FAST to QUAD the top rated one is the cheapest.
Cheapest ==
  ~stop_soon /\ schedule \in {"FAST", "COE", "LIN", "QUAD"} =>
    \A e \in Ids : \A b \in exec_cksum[e] :
      Pending(e, b) \/ FavFactor(top_rated[b]) <= FavFactor(e)

Stable == OwnTraces /\ Hits /\ Scored /\ Cheapest

traces == <<queued_items, len, exec_us, exec_cksum, cal_failed, trace_mini,
            top_rated>>

\* Only these actions touch what the invariant of stable targets is about.
LEMMA TracesFrame ==
  ASSUME [Next]_vars
  PROVE  \/ UNCHANGED traces
         \/ ReadTestcase \/ DryRun \/ DryRunResult \/ ScoreByte
         \/ FuzzCalibrate \/ TrimShorter \/ TrimNoGain \/ Find
<1>1. CASE UNCHANGED queue
  BY Zenon, <1>1 DEF traces, queue, results, rating
<1>2. CASE Dedup \/ CullByte \/ CullEnd
  BY Zenon, <1>2 DEF Dedup, CullByte, CullEnd, traces, results, rating
<1>3. CASE CullStart
  BY Zenon, <1>3 DEF CullStart, traces, results
<1>4. CASE Trimmed \/ Abandon
  BY Zenon, <1>4 DEF Trimmed, Abandon, traces, results, rating
<1> QED BY Zenon, <1>1, <1>2, <1>3, <1>4, Quiet

\* update_bitmap_score is entered from calibrate_case and trim_case only, and
\* left after the last byte of the map.
ScoreFlow ==
  /\ UNCHANGED schedule
  /\ stop_soon => stop_soon'
  /\ pc' # "rescore"
  /\ InDryRun' => DryRun \/ UNCHANGED res
  /\ pc' = "score" =>
       \/ DryRun \/ FuzzCalibrate \/ Find \/ TrimShorter \/ ScoreByte
       \/ pc = "score" /\ UNCHANGED <<q, i, trace_bits, ret>>
  /\ pc = "score" =>
       ScoreByte \/ i = MapSize \/ (pc' = "score" /\ UNCHANGED <<q, i>>)

\* It is so unless AFL_CYCLE_SCHEDULES is set.
LEMMA ScoreFlowStep ==
  ASSUME ~CycleSchedules, Control, [Next]_vars,
         pc # "rescore", pc = "score" => ret # "rescore"
  PROVE  ScoreFlow
<1> USE DEF ScoreFlow, InDryRun, cycle
<1>cal. \A e, r :
          Calibrate(e, r) => /\ UNCHANGED <<schedule, stop_soon>>
                             /\ pc' = r \/ (pc' = "score" /\ ret' = r)
  BY SMTT(40) DEF Calibrate, CalibrateOK, CalibrateAbort
<1>1. CASE SeedsRead \/ SkipDryRun \/ DryRunEnd \/ DedupEnd \/ CheckSeeds
  BY <1>1 DEF SeedsRead, SkipDryRun, DryRunEnd, DedupEnd, CheckSeeds
<1>2. CASE LoopTop \/ Cycle
  BY SMTT(40), <1>2 DEF LoopTop, Cycle
<1>3. CASE ScoreDone \/ CullStart \/ CullEnd
  <2>1. pc = "score" => ret \in {"dried", "recal", "trimmed", "mutate"}
    BY Zenon DEF Control
  <2>2. pc \in {"cull", "culling"} => ret \in {"check", "cycle"}
    BY Zenon DEF Control
  <2>3. CASE ScoreDone
    BY Zenon, <2>1, <2>3 DEF ScoreDone
  <2>4. CASE CullStart
    BY Zenon, <2>2, <2>4 DEF CullStart
  <2>5. CASE CullEnd
    BY Zenon, <2>2, <2>5 DEF CullEnd
  <2> QED BY Zenon, <1>3, <2>3, <2>4, <2>5
<1>4. CASE SelectRandom \/ SelectGreedy \/ ScanEntry \/ ScanEnd
  BY <1>4 DEF SelectRandom, SelectGreedy, ScanEntry, ScanEnd
<1>5. CASE FuzzStart \/ LowScore \/ FuzzEnd \/ TargetError
  BY <1>5 DEF FuzzStart, LowScore, FuzzEnd, TargetError
<1>6. CASE Stop \/ UNCHANGED vars
  BY <1>6 DEF Stop, vars, loops
<1>7. CASE ReadTestcase \/ DryRunResult \/ Dedup \/ CullByte
  BY SMTT(40), <1>7 DEF ReadTestcase, DryRunResult, Dedup, CullByte
<1>11. CASE ScoreByte
  <2>1. UNCHANGED <<schedule, stop_soon, pc>>
    BY Zenon, <1>11 DEF ScoreByte
  <2>2. UNCHANGED res
    BY Zenon, <1>11 DEF ScoreByte
  <2> QED BY Zenon, <1>11, <2>1, <2>2
<1>8. CASE DryRun \/ FuzzCalibrate \/ Find
  <2>1. CASE DryRun
    <3>1. pc = "dry" /\ Calibrate(idx, "dried")
      BY Zenon, <2>1 DEF DryRun
    <3>2. /\ UNCHANGED <<schedule, stop_soon>>
          /\ pc' = "dried" \/ (pc' = "score" /\ ret' = "dried")
      BY Zenon, <1>cal, <3>1
    <3> QED BY <2>1, <3>1, <3>2, Zenon
  <2>2. CASE FuzzCalibrate
    <3>1. pc = "fuzz" /\ Calibrate(queue_cur, "recal")
      BY Zenon, <2>2 DEF FuzzCalibrate
    <3>2. /\ UNCHANGED <<schedule, stop_soon>>
          /\ pc' = "recal" \/ (pc' = "score" /\ ret' = "recal")
      BY Zenon, <1>cal, <3>1
    <3> QED BY <2>2, <3>1, <3>2, Zenon
  <2>3. CASE Find
    <3>1. pc = "mutate" /\ Calibrate(queued_items, "mutate")
      BY Zenon, <2>3 DEF Find
    <3>2. /\ UNCHANGED <<schedule, stop_soon>>
          /\ pc' = "mutate" \/ (pc' = "score" /\ ret' = "mutate")
      BY Zenon, <1>cal, <3>1
    <3> QED BY <2>3, <3>1, <3>2, Zenon
  <2> QED BY Zenon, <1>8, <2>1, <2>2, <2>3
<1>9. CASE TrimShorter \/ TrimNoGain \/ Trimmed \/ Abandon
  BY SMTT(40), <1>9 DEF TrimShorter, TrimNoGain, Trimmed, Abandon, AfterFuzz
<1>10. CASE Rescore
  BY Zenon, <1>10 DEF Rescore
<1> QED
  BY Zenon, <1>1, <1>2, <1>3, <1>4, <1>5, <1>6, <1>7, <1>8, <1>9, <1>10, <1>11
  DEF Next, Step, Seeding, Scoring, MainLoop, FuzzOne

\* A shorter entry has a smaller factor.
LEMMA Product == \A a, b, c \in Nat : b <= c => a * b <= a * c
OBVIOUS

\* A factor is a number.
LEMMA FactorType == TypeOK => \A e \in Ids : FavFactor(e) \in Nat
BY DEF TypeOK, FavFactor

\* A first calibration that succeeds, or one that fails, leaves the rating of
\* the other entries as it is.
LEMMA CalibrateStable ==
  ASSUME ~Unstable, TypeOK, Hits, Scored, Cheapest, pc # "score",
         NEW e \in Ids, NEW r, r # "score", Calibrate(e, r), exec_cksum[e] = {},
         \A f \in Ids : f # e => len'[f] = len[f]
  PROVE  /\ Hits' /\ Scored' /\ Cheapest'
         /\ \A f \in Ids : f # e => exec_cksum'[f] = exec_cksum[f]
         /\ cal_failed'[e] # 0 => exec_cksum'[e] = {}
         /\ pc' # "score" => exec_cksum'[e] = {}
         /\ pc' = "score" => trace_bits' = exec_cksum'[q'] /\ ret' = r
<1> USE DEF TypeOK
<1>1. /\ UNCHANGED <<top_rated, trace_mini, schedule, stop_soon>>
      /\ \A f \in Ids : f # e => /\ exec_cksum'[f] = exec_cksum[f]
                               /\ exec_us'[f] = exec_us[f]
      /\ \/ pc' = r /\ exec_cksum'[e] = {} /\ cal_failed'[e] # 0
         \/ /\ pc' = "score" /\ q' = e /\ i' = 0 /\ ret' = r
            /\ trace_bits' = exec_cksum'[e] /\ cal_failed'[e] = 0
  BY SMTT(40) DEF Calibrate, CalibrateOK, CalibrateAbort, rating, cycle
<1>2. trace_mini[e] = {} /\ \A b \in Bytes : top_rated[b] # e
  <2>1. NULL \notin Ids
    BY SizesAssumption DEF Ids, NULL
  <2> QED BY Zenon, <2>1 DEF Hits
<1>3. \A f \in Ids : f # e => FavFactor(f)' = FavFactor(f)
  BY Zenon, <1>1 DEF FavFactor
<1>4. Hits'
  BY Zenon, <1>1, <1>2 DEF Hits
<1>5. \A f \in Ids : \A b \in exec_cksum'[f] : f # e \/ Pending(e, b)'
  <2>1. ASSUME NEW b \in exec_cksum'[e] PROVE Pending(e, b)'
    <3>1. exec_cksum'[e] \in SUBSET Bytes
      BY SMTT(40) DEF Calibrate, CalibrateOK, CalibrateAbort, Traces
    <3>2. b >= 0
      BY <3>1 DEF Bytes
    <3> QED BY Zenon, <1>1, <3>2 DEF Pending
  <2> QED BY Zenon, <2>1
<1>6. Scored'
  BY Zenon, <1>1, <1>5 DEF Scored, Pending
<1>7. Cheapest'
  BY SMTT(40), <1>1, <1>2, <1>3, <1>5 DEF Cheapest, Scored, Pending
<1> QED BY Zenon, <1>1, <1>4, <1>6, <1>7

\* Every step keeps the invariant of stable targets.
LEMMA StableStep ==
  ASSUME ~Unstable, ~CycleSchedules, TypeOK, Control, Stable, [Next]_vars
  PROVE  Stable'
<1>0. /\ ScoreFlow /\ Flow
      /\ OwnTraces /\ Hits /\ Scored /\ Cheapest
  BY Zenon, ScoreFlowStep, FlowStep DEF Stable, OwnTraces
<1>ids. /\ Entries \subseteq Ids /\ NULL \notin Ids /\ Bytes \subseteq Int
        /\ queued_items \in Nat /\ idx \in Nat /\ Ids \subseteq Int
        /\ (InFuzzOne => queue_cur \in Entries) /\ (InDryRun => idx \in Entries)
        /\ (pc = "score" => q \in Entries)
        /\ (i < MapSize => i \in Bytes)
        /\ queued_items < MaxItems => queued_items \in Ids \ Entries
  <2>1. /\ NULL \notin Ids /\ Bytes \subseteq Int /\ Ids \subseteq Int
        /\ queued_items \in Nat /\ idx \in Nat
    BY SizesAssumption DEF Ids, NULL, Bytes, TypeOK
  <2>2. pc = "score" => q \in Entries
    BY Zenon DEF Control
  <2> QED BY Zenon, <2>1, <2>2, Ranges
<1>1. CASE UNCHANGED traces /\ ~DryRun /\ ~DryRunResult /\ ~ScoreByte
             /\ ~FuzzCalibrate /\ ~Find /\ ~TrimShorter
  <2>1. \A e \in Ids : \A b \in Bytes : Pending(e, b) => Pending(e, b)'
    <3>1. pc = "score" => i = MapSize \/ (pc' = "score" /\ UNCHANGED <<q, i>>)
      BY Zenon, <1>0, <1>1 DEF ScoreFlow
    <3>2. \A b \in Bytes : ~(b >= MapSize)
      BY SizesAssumption DEF Bytes
    <3> QED BY Zenon, <3>1, <3>2 DEF Pending
  <2>2. OwnTraces'
    BY Zenon, <1>0, <1>1 DEF OwnTraces, ScoreFlow, Flow, traces, Entries
  <2>3. Hits'
    BY Zenon, <1>0, <1>1 DEF Hits, traces
  <2>4. Scored'
    BY Zenon, <1>0, <1>1, <2>1 DEF Scored, traces, TypeOK
  <2>5. Cheapest'
    BY Zenon, <1>0, <1>1, <2>1 DEF Cheapest, traces, TypeOK, ScoreFlow, FavFactor
  <2> QED BY Zenon, <2>2, <2>3, <2>4, <2>5 DEF Stable
<1>2. CASE ReadTestcase
  <2>1. /\ pc = "seeds" /\ pc' = "seeds" /\ queued_items' = queued_items + 1
        /\ UNCHANGED <<exec_us, exec_cksum, cal_failed, trace_mini, top_rated>>
    BY Zenon, <1>2 DEF ReadTestcase, AddToQueue, results, rating
  <2>2. \A e \in Ids : exec_cksum[e] = {}
    BY Zenon, <1>0, <2>1 DEF OwnTraces
  <2>3. OwnTraces'
    BY Zenon, <2>1, <2>2 DEF OwnTraces, InDryRun
  <2>4. Hits'
    BY Zenon, <1>0, <2>1 DEF Hits
  <2>5. Scored' /\ Cheapest'
    BY Zenon, <2>1, <2>2 DEF Scored, Cheapest
  <2> QED BY Zenon, <2>3, <2>4, <2>5 DEF Stable
<1>3. CASE DryRun
  <2>1. /\ pc = "dry" /\ UNCHANGED <<queued_items, len>> /\ idx \in Entries
        /\ Calibrate(idx, "dried")
    BY <1>3, <1>ids DEF DryRun, Entries
  <2>2. /\ exec_cksum[idx] = {}
        /\ \A e \in Ids : e > idx => e # idx /\ e >= idx
    <3>1. idx \in Ids /\ idx >= idx
      BY <1>ids, <2>1
    <3>2. \A e \in Ids : e > idx => e # idx /\ e >= idx
      BY <1>ids, <3>1
    <3>3. exec_cksum[idx] = {}
      BY Zenon, <1>0, <2>1, <3>1 DEF OwnTraces
    <3> QED BY Zenon, <3>2, <3>3
  <2>3. /\ Hits' /\ Scored' /\ Cheapest'
        /\ \A f \in Ids : f # idx => exec_cksum'[f] = exec_cksum[f]
        /\ cal_failed'[idx] # 0 => exec_cksum'[idx] = {}
        /\ pc' # "score" => exec_cksum'[idx] = {}
        /\ pc' = "score" => trace_bits' = exec_cksum'[q'] /\ ret' = "dried"
    BY Zenon, <1>0, <1>ids, <2>1, <2>2, CalibrateStable
  <2>4. /\ UNCHANGED idx
        /\ \A f \in Ids : f # idx => cal_failed'[f] = cal_failed[f]
        /\ pc' \in {"dried", "score"}
    BY Zenon, <2>1, CalibrateFrame DEF TypeOK
  <2>6. pc' = "score" => res' \in {"OK", "NOBITS"}
    BY Zenon, <2>1 DEF Calibrate, CalibrateOK, CalibrateAbort, Result
  <2>5. OwnTraces'
    BY Zenon, <1>0, <1>ids, <2>1, <2>2, <2>3, <2>4, <2>6 DEF OwnTraces, Entries, InDryRun
  <2> QED BY Zenon, <2>3, <2>5 DEF Stable
<1>4. CASE DryRunResult
  <2>1. /\ pc = "dried" /\ idx \in Entries
        /\ UNCHANGED <<queued_items, len, exec_us, exec_cksum, trace_mini,
                       top_rated, stop_soon, schedule>>
        /\ pc' = "dry" => idx' = idx + 1
        /\ pc' \in {"dry", "cull", "fatal"}
    BY Zenon, <1>4, <1>ids DEF DryRunResult, InDryRun, rating, cycle
  <2>2. /\ res \notin {"OK", "NOBITS"} => exec_cksum[idx] = {}
        /\ \A e \in Ids : e > idx => exec_cksum[e] = {}
    BY Zenon, <1>0, <2>1 DEF OwnTraces, InDryRun
  <2>3. \A e \in Ids : cal_failed'[e] = cal_failed[e] \/ exec_cksum[e] = {}
    BY Zenon, <1>4, <1>ids, <2>1, <2>2 DEF DryRunResult, TypeOK
  <2>4. \A e \in Ids : e >= idx + 1 => e > idx
    BY <1>ids
  <2>5. OwnTraces'
    BY Zenon, <1>0, <2>1, <2>2, <2>3, <2>4 DEF OwnTraces, InDryRun, Entries
  <2>6. Hits'
    BY Zenon, <1>0, <2>1 DEF Hits
  <2>7. Scored' /\ Cheapest'
    BY Zenon, <1>0, <2>1 DEF Scored, Cheapest, Pending, FavFactor
  <2> QED BY Zenon, <2>5, <2>6, <2>7 DEF Stable
<1>5. CASE FuzzCalibrate
  <2>1. /\ pc = "fuzz" /\ UNCHANGED <<queued_items, len>> /\ queue_cur \in Entries
        /\ Calibrate(queue_cur, "recal") /\ cal_failed[queue_cur] # 0
    BY <1>5, <1>ids DEF FuzzCalibrate, InFuzzOne, MayCalibrate
  <2>2. exec_cksum[queue_cur] = {}
    BY Zenon, <1>0, <1>ids, <2>1 DEF OwnTraces
  <2>3. /\ Hits' /\ Scored' /\ Cheapest'
        /\ \A f \in Ids : f # queue_cur => exec_cksum'[f] = exec_cksum[f]
        /\ cal_failed'[queue_cur] # 0 => exec_cksum'[queue_cur] = {}
        /\ pc' = "score" => trace_bits' = exec_cksum'[q'] /\ ret' = "recal"
    BY Zenon, <1>0, <1>ids, <2>1, <2>2, CalibrateStable
  <2>4. /\ \A f \in Ids : f # queue_cur => cal_failed'[f] = cal_failed[f]
        /\ pc' \in {"recal", "score"}
    BY Zenon, <2>1, CalibrateFrame DEF TypeOK
  <2>5. OwnTraces'
    BY Zenon, <1>0, <1>ids, <2>1, <2>3, <2>4 DEF OwnTraces, Entries, InDryRun
  <2> QED BY Zenon, <2>3, <2>5 DEF Stable
<1>6. CASE Find
  <2>1. /\ pc = "mutate" /\ queued_items' = queued_items + 1
        /\ queued_items \in Ids \ Entries
        /\ Calibrate(queued_items, "mutate")
        /\ \A f \in Ids : f # queued_items => len'[f] = len[f]
    BY Zenon, <1>6, <1>ids DEF Find, AddToQueue, TypeOK
  <2>2. exec_cksum[queued_items] = {}
    BY Zenon, <1>0, <2>1 DEF OwnTraces
  <2>3. /\ Hits' /\ Scored' /\ Cheapest'
        /\ \A f \in Ids : f # queued_items => exec_cksum'[f] = exec_cksum[f]
        /\ cal_failed'[queued_items] # 0 => exec_cksum'[queued_items] = {}
        /\ pc' = "score" => trace_bits' = exec_cksum'[q'] /\ ret' = "mutate"
    BY Zenon, <1>0, <2>1, <2>2, CalibrateStable
  <2>4. /\ \A f \in Ids : f # queued_items => cal_failed'[f] = cal_failed[f]
        /\ pc' \in {"mutate", "score"}
    BY Zenon, <2>1, CalibrateFrame DEF TypeOK
  <2>5. Entries' = Entries \cup {queued_items}
    BY <1>ids, <2>1 DEF Entries
  <2>6. OwnTraces'
    BY Zenon, <1>0, <1>ids, <2>1, <2>3, <2>4, <2>5 DEF OwnTraces, InDryRun
  <2> QED BY Zenon, <2>3, <2>6 DEF Stable
<1>7. CASE ScoreByte
  <2>1. /\ pc = "score" /\ i \in Bytes /\ q \in Ids /\ i' = i + 1
        /\ UNCHANGED <<pc, ret, q, idx, res, trace_bits, exec_cksum, exec_us, len,
                       cal_failed, queued_items, schedule, stop_soon>>
        /\ trace_bits = exec_cksum[q]
    BY Zenon, <1>0, <1>7, <1>ids DEF ScoreByte, OwnTraces, results, cycle
  <2>2. OwnTraces'
    BY Zenon, <1>0, <2>1 DEF OwnTraces, InDryRun, Entries
  <2>3. /\ \A e \in Ids : FavFactor(e)' = FavFactor(e) /\ FavFactor(e) \in Nat
        /\ \A e \in Ids, b \in Bytes :
             Pending(e, b) => Pending(e, b)' \/ (e = q /\ b = i)
        /\ Bytes \subseteq Int /\ \A e \in Ids : exec_cksum[e] \subseteq Bytes
    BY SMTT(40), <2>1, <1>ids, FactorType DEF FavFactor, Pending, TypeOK
  <2>4. CASE /\ TakeByte(q, i) /\ i \in trace_bits
             /\ \E rarer \in BOOLEAN : Wins(q, i, rarer)
    <3>1. /\ top_rated'[i] = q
          /\ \A b \in Bytes : b # i => top_rated'[b] = top_rated[b]
      BY Zenon, <2>1, <2>4 DEF TakeByte, TypeOK
    <3>2. \A e \in Ids : e # q => trace_mini'[e] \in {{}, trace_mini[e]}
      BY Zenon, <2>1, <2>4 DEF TakeByte, Freed, TypeOK
    <3>3. trace_mini'[q] \in {trace_mini[q], trace_bits}
      BY Zenon, <2>1, <2>4 DEF TakeByte, Freed, TypeOK
    <3>4. Hits'
      <4>1. \A b \in Bytes : top_rated'[b] # NULL => b \in exec_cksum'[top_rated'[b]]
        BY Zenon, <1>0, <2>1, <2>4, <3>1 DEF Hits
      <4>2. \A e \in Ids : trace_mini'[e] \in {{}, exec_cksum'[e]}
        BY Zenon, <1>0, <2>1, <3>2, <3>3 DEF Hits
      <4> QED BY Zenon, <4>1, <4>2 DEF Hits
    <3>5. Scored'
      BY Zenon, <1>0, <1>ids, <2>1, <2>3, <3>1 DEF Scored
    <3>6. Cheapest'
      <4> SUFFICES ASSUME ~stop_soon, schedule \in {"FAST", "COE", "LIN", "QUAD"},
                          NEW e \in Ids, NEW b \in exec_cksum[e], ~Pending(e, b)'
                   PROVE  FavFactor(top_rated'[b]) <= FavFactor(e)
        BY Zenon, <2>1, <2>3, <3>1 DEF Cheapest, FavFactor
      <4>1. b \in Bytes
        BY Zenon, <2>3
      <4>2. CASE e = q /\ b = i
        BY <2>3, <3>1, <4>2
      <4>3. CASE ~(e = q /\ b = i)
        <5>1. top_rated[b] \in Ids /\ FavFactor(top_rated[b]) <= FavFactor(e)
          BY Zenon, <1>0, <2>3, <4>1, <4>3 DEF Scored, Cheapest, TypeOK
        <5>2. CASE b # i
          BY Zenon, <3>1, <4>1, <5>1, <5>2
        <5>3. CASE b = i
          <6>1. FavFactor(q) <= FavFactor(top_rated[i])
            BY Zenon, <1>ids, <2>4, <5>1, <5>3 DEF Wins
          <6>2. top_rated'[b] = q /\ top_rated[b] = top_rated[i]
            BY Zenon, <3>1, <5>3
          <6>3. q \in Ids /\ top_rated[i] \in Ids
            BY Zenon, <2>1, <5>1, <5>3
          <6>4. /\ FavFactor(q) \in Nat /\ FavFactor(top_rated[i]) \in Nat
                /\ FavFactor(e) \in Nat
            BY Zenon, <2>3, <6>3
          <6> QED BY <5>1, <6>1, <6>2, <6>4
        <5> QED BY Zenon, <5>2, <5>3
      <4> QED BY Zenon, <4>2, <4>3
    <3> QED BY Zenon, <2>2, <3>4, <3>5, <3>6 DEF Stable
  <2>5. CASE /\ UNCHANGED <<top_rated, trace_mini>>
             /\ i \notin trace_bits \/ \E rarer \in BOOLEAN : ~Wins(q, i, rarer)
    <3>1. Hits'
      BY Zenon, <1>0, <2>1, <2>5 DEF Hits
    <3>2. i \in exec_cksum[q] => top_rated[i] \in Ids
      BY Zenon, <2>1, <2>5 DEF Wins, TypeOK
    <3>3. Scored'
      BY Zenon, <1>0, <1>ids, <2>1, <2>3, <2>5, <3>2 DEF Scored
    <3>4. Cheapest'
      <4> SUFFICES ASSUME ~stop_soon, schedule \in {"FAST", "COE", "LIN", "QUAD"},
                          NEW e \in Ids, NEW b \in exec_cksum[e], ~Pending(e, b)'
                   PROVE  FavFactor(top_rated[b]) <= FavFactor(e)
        BY Zenon, <2>1, <2>3, <2>5 DEF Cheapest, FavFactor
      <4>1. b \in Bytes
        BY Zenon, <2>3
      <4>2. CASE e = q /\ b = i
        <5>1. top_rated[i] \in Ids /\ top_rated[i] # NULL
          BY Zenon, <1>ids, <3>2, <4>2
        <5>2. \A rarer \in BOOLEAN : Outranks(q, top_rated[i], rarer)
          BY Zenon DEF Outranks
        <5>3. ~(FavFactor(q) <= FavFactor(top_rated[i]))
          BY Zenon, <2>1, <2>5, <4>2, <5>1, <5>2 DEF Wins
        <5>4. q \in Ids
          BY Zenon, <2>1
        <5>5. FavFactor(q) \in Nat /\ FavFactor(top_rated[i]) \in Nat
          BY Zenon, <2>3, <5>1, <5>4
        <5> QED BY <4>2, <5>3, <5>5
      <4>3. CASE ~(e = q /\ b = i)
        BY Zenon, <1>0, <2>3, <4>1, <4>3 DEF Cheapest
      <4> QED BY Zenon, <4>2, <4>3
    <3> QED BY Zenon, <2>2, <3>1, <3>3, <3>4 DEF Stable
  <2> QED
    BY Zenon, <1>7, <2>4, <2>5 DEF ScoreByte, rating
<1>8. CASE TrimShorter
  <2>0. PICK e \in Ids : e = queue_cur
    BY Zenon, <1>8, <1>ids DEF TrimShorter, InFuzzOne
  <2>1. /\ pc = "trim" /\ pc' = "score" /\ ret' = "trimmed" /\ q' = e /\ i' = 0
        /\ trace_bits' = exec_cksum'[e]
        /\ UNCHANGED <<idx, res, exec_cksum, exec_us, cal_failed, queued_items,
                       schedule, stop_soon, trace_mini, top_rated>>
    BY Zenon, <1>8, <2>0 DEF TrimShorter, results, cycle, rating
  <2>2. OwnTraces'
    BY Zenon, <1>0, <2>1 DEF OwnTraces, InDryRun, Entries
  <2>3. Hits'
    BY Zenon, <1>0, <2>1 DEF Hits
  <2>4. \A b \in exec_cksum[e] : Pending(e, b)'
    BY <2>1 DEF Pending, TypeOK, Bytes
  <2>5. Scored'
    BY Zenon, <1>0, <2>1, <2>4 DEF Scored, Pending
  <2>6. /\ \A f \in Ids : f # e => FavFactor(f)' = FavFactor(f)
        /\ FavFactor(e)' \in Nat /\ FavFactor(e)' <= FavFactor(e)
    <3>1. PICK l \in 1 .. len[e] - 1 : len' = [len EXCEPT ![e] = l]
      BY Zenon, <1>8, <2>0 DEF TrimShorter
    <3>2. /\ l \in Nat /\ len[e] \in Nat /\ exec_us[e] \in Nat /\ l <= len[e]
          /\ len'[e] = l /\ \A f \in Ids : f # e => len'[f] = len[f]
      BY <3>1 DEF TypeOK
    <3>3. exec_us[e] * l <= exec_us[e] * len[e]
      BY Zenon, <3>2, Product
    <3> QED BY SMTT(40), <2>1, <3>2, <3>3 DEF FavFactor
  <2>7. Cheapest'
    <3> SUFFICES ASSUME ~stop_soon, schedule \in {"FAST", "COE", "LIN", "QUAD"},
                        NEW f \in Ids, f # e, NEW b \in exec_cksum[f]
                 PROVE  FavFactor(top_rated[b])' <= FavFactor(f)'
      BY Zenon, <2>1, <2>4 DEF Cheapest
    <3>1. b \in Bytes /\ top_rated[b] \in Ids
      BY Zenon, <1>0, <2>1 DEF Scored, Pending, TypeOK
    <3>2. FavFactor(top_rated[b]) <= FavFactor(f)
      BY Zenon, <1>0, <2>1 DEF Cheapest, Pending
    <3> QED BY <2>1, <2>6, <3>1, <3>2, FactorType
  <2> QED BY Zenon, <2>2, <2>3, <2>5, <2>7 DEF Stable
<1>9. CASE TrimNoGain
  <2>1. /\ pc = "trim" /\ pc' = "trimmed" /\ (~stop_soon => len' = len)
        /\ UNCHANGED <<idx, res, exec_cksum, exec_us, cal_failed, queued_items,
                       schedule, stop_soon, trace_mini, top_rated>>
    BY SMTT(40), <1>9, <1>ids DEF TrimNoGain, TypeOK, results, cycle, rating, loops
  <2>2. OwnTraces'
    BY Zenon, <1>0, <2>1 DEF OwnTraces, InDryRun, Entries
  <2>3. Hits' /\ Scored'
    BY Zenon, <1>0, <2>1 DEF Hits, Scored, Pending
  <2>4. Cheapest'
    BY Zenon, <1>0, <2>1 DEF Cheapest, Pending, FavFactor
  <2> QED BY Zenon, <2>2, <2>3, <2>4 DEF Stable
<1> QED
  BY Zenon, <1>1, <1>2, <1>3, <1>4, <1>5, <1>6, <1>7, <1>8, <1>9, TracesFrame

\* It holds before the first seed is read.
LEMMA InitStable == Init => Stable
<1> SUFFICES ASSUME Init PROVE Stable
  BY Zenon
<1>1. /\ \A e \in Ids : exec_cksum[e] = {} /\ trace_mini[e] = {}
      /\ \A b \in Bytes : top_rated[b] = NULL
      /\ pc = "seeds"
  BY Zenon DEF Init
<1> QED
  BY Zenon, <1>1 DEF Stable, OwnTraces, Hits, Scored, Cheapest, InDryRun

\* It is an invariant of targets that give the same trace on every run, as long
\* as AFL_CYCLE_SCHEDULES is not set.
LEMMA StableInvariance ==
  ASSUME ~Unstable, ~CycleSchedules
  PROVE  Spec => [](IInv /\ Stable)
<1>1. IInv /\ Stable /\ [Next]_vars => Stable'
  BY Zenon, StableStep DEF IInv
<1> QED
  BY InitStable, Invariance, <1>1, PTL DEF Spec

\* For such targets cull_queue keeps its promise in terms of what the entries
\* hit: whenever it has nothing left to do, every byte that some calibrated
\* entry hits is hit by a favoured entry.
THEOREM FavoredTriggerAllHolds ==
  ASSUME ~Unstable, ~CycleSchedules
  PROVE  Spec => []FavoredTriggerAll
<1>1. IInv /\ Stable => FavoredTriggerAll
  <2> SUFFICES ASSUME IInv, Stable, ~score_changed, pc \notin {"culling", "score"},
                      NEW e \in Entries, NEW b \in exec_cksum[e]
               PROVE  \E f \in Entries : favored[f] /\ b \in exec_cksum[f]
    BY Zenon DEF FavoredTriggerAll
  <2>1. e \in Ids /\ b \in Bytes /\ Entries \subseteq Ids
    BY Zenon, Ranges DEF IInv, TypeOK
  <2>2. top_rated[b] # NULL
    BY Zenon, <2>1 DEF Stable, Scored, Pending
  <2>3. PICK f \in Entries : favored[f] /\ (top_rated[b] = f \/ b \in trace_mini[f])
    BY Zenon, <2>1, <2>2 DEF IInv, FavoredCover
  <2>4. b \in exec_cksum[f]
    BY Zenon, <2>1, <2>2, <2>3 DEF Stable, Hits
  <2> QED BY Zenon, <2>3, <2>4
<1> QED BY StableInvariance, <1>1, PTL

\* For such targets and the schedules from FAST to QUAD, update_bitmap_score
\* leaves the fastest and smallest entry that hits a byte as its top rated one,
\* whatever is found, trimmed or disabled, until the user stops the fuzzer.
THEOREM TopRatedCheapestHolds ==
  ASSUME ~Unstable, ~CycleSchedules
  PROVE  Spec => []TopRatedCheapest
<1>1. IInv /\ Stable => TopRatedCheapest
  <2> SUFFICES ASSUME IInv, Stable, pc # "score", ~stop_soon,
                      schedule \in {"FAST", "COE", "LIN", "QUAD"},
                      NEW e \in Entries, NEW b \in exec_cksum[e]
               PROVE  /\ top_rated[b] # NULL
                      /\ b \in exec_cksum[top_rated[b]]
                      /\ FavFactor(top_rated[b]) <= FavFactor(e)
    BY Zenon DEF TopRatedCheapest
  <2>1. e \in Ids /\ b \in Bytes
    BY Zenon, Ranges DEF IInv, TypeOK
  <2>2. top_rated[b] # NULL
    BY Zenon, <2>1 DEF Stable, Scored, Pending
  <2>3. b \in exec_cksum[top_rated[b]]
    BY Zenon, <2>1, <2>2 DEF Stable, Hits
  <2>4. FavFactor(top_rated[b]) <= FavFactor(e)
    BY Zenon, <2>1 DEF Stable, Cheapest, Pending
  <2> QED BY Zenon, <2>2, <2>3, <2>4
<1> QED BY StableInvariance, <1>1, PTL

=============================================================================
