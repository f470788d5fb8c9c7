-------------------------- MODULE TestcaseCacheProofs --------------------------
(***************************************************************************)
(* Proofs about the test case cache, for any queue, any size of its        *)
(* entries and any number of slots: the slots and the counters agree, the  *)
(* unbounded scans for a free slot stay in the array, and the entry being  *)
(* fuzzed is never evicted.  Nothing here depends on cache_size, which     *)
(* counts as an arbitrary integer.                                         *)
(***************************************************************************)
EXTENDS TestcaseCache, FiniteSetTheorems, WellFoundedInduction, TLAPS

\* The ranges the argument needs: those of TypeOK but for cache_size.
Ranges ==
  /\ len \in [Queue -> 0 .. MaxFile]
  /\ cached \subseteq Queue
  /\ slot \in [Slots -> Queue \cup {NULL}]
  /\ cache_count \in Nat
  /\ max_entries \in 1 .. MaxEntries
  /\ max_cache_count \in 0 .. max_entries
  /\ smallest_free \in 0 .. max_cache_count
  /\ queue_cur \in Queue \cup {NULL}
  /\ getting \in Queue \cup {NULL}

\* The slot number at hand is free, or the first one never used.
Offered(i) ==
  \/ i = max_cache_count
  \/ i \in Slots /\ i < max_cache_count /\ slot[i] = NULL

\* A running fetch is for an entry that is not cached.
Fetching ==
  getting # NULL =>
    /\ getting \notin cached
    /\ len[getting] > 0
    /\ Offered(tid)

IInv ==
  /\ Ranges
  /\ SlotsAgree
  /\ cache_count < max_entries
  /\ \A q \in cached : len[q] > 0
  /\ CurrentStays
  /\ Fetching

-----------------------------------------------------------------------------
\* Min of the library is the least element of a set of naturals.
LEMMA LeastElement ==
  ASSUME NEW S \in SUBSET Nat, S # {}
  PROVE  Min(S) \in S /\ \A y \in S : Min(S) <= y
<1> DEFINE R == OpToRel(<, Nat)
<1>1. \E x \in S : \A y \in S : ~ (<<y, x>> \in R)
  BY NatLessThanWellFounded, WFMin
<1>2. \A x, y \in Nat : y < x => <<y, x>> \in R
  BY Zenon DEF OpToRel
<1> HIDE DEF R
<1>3. PICK x \in S : \A y \in S : ~ (<<y, x>> \in R)
  BY <1>1
<1>4. \A y \in S : ~ (y < x)
  BY <1>2, <1>3, Zenon
<1>5. \A y \in S : x <= y
  BY <1>4
<1> QED
  BY <1>5 DEF Min

\* Max of the library, for two naturals.
LEMMA LargerOfTwo ==
  ASSUME NEW a \in Nat, NEW b \in Nat
  PROVE  Max({a, b}) \in {a, b} /\ Max({a, b}) >= a /\ Max({a, b}) >= b
<1>1. \E x \in {a, b} : \A y \in {a, b} : x >= y
  OBVIOUS
<1> QED
  BY <1>1 DEF Max

\* The slots in use are finitely many.
LEMMA OccupiedFinite ==
  ASSUME Ranges
  PROVE  IsFiniteSet(Occupied) /\ Cardinality(Occupied) \in Nat
<1>1. IsFiniteSet(Slots)
  BY CacheAssumption, FS_Interval DEF Slots
<1>2. Occupied \in SUBSET Slots
  BY DEF Occupied
<1> QED
  BY <1>1, <1>2, FS_Subset, FS_CardinalityType

\* The count never exceeds the mark of the slots ever used.
LEMMA CountBelowMark ==
  ASSUME Ranges, SlotsAgree
  PROVE  cache_count <= max_cache_count
<1>1. Occupied \in SUBSET (0 .. max_cache_count - 1)
  BY CacheAssumption DEF Ranges, SlotsAgree, Occupied, Slots
<1>2. max_cache_count \in Nat /\ max_cache_count - 1 \in Int /\ 0 \in Int
  BY CacheAssumption DEF Ranges
<1>3. /\ IsFiniteSet(0 .. max_cache_count - 1)
       /\ Cardinality(0 .. max_cache_count - 1) = max_cache_count
  BY <1>2, FS_Interval
<1>4. Cardinality(Occupied) <= max_cache_count
  BY <1>1, <1>3, FS_Subset
<1> QED
  BY <1>4 DEF SlotsAgree

\* With fewer entries than slots there is a free slot, and none of the free
\* ones is below smallest_free.
LEMMA SomeSlotFree ==
  ASSUME Ranges, SlotsAgree, cache_count < max_entries
  PROVE  \E j \in 0 .. max_entries - 1 : j >= smallest_free /\ slot[j] = NULL
<1>1. SUFFICES ASSUME \A j \in 0 .. max_entries - 1 : slot[j] # NULL
               PROVE  FALSE
  BY CacheAssumption DEF Ranges, SlotsAgree, Slots
<1>2. 0 .. max_entries - 1 \in SUBSET Occupied
  BY <1>1, CacheAssumption DEF Ranges, Occupied, Slots
<1>3. Cardinality(0 .. max_entries - 1) = max_entries
  BY CacheAssumption, FS_Interval DEF Ranges
<1>4. max_entries <= Cardinality(Occupied)
  BY <1>2, <1>3, OccupiedFinite, FS_Subset
<1> QED
  BY <1>4, CacheAssumption DEF Ranges, SlotsAgree

\* The scan from i stops at a free slot when there is one at or after i.
LEMMA ScanStops ==
  ASSUME Ranges, NEW i \in Nat, NEW j \in Slots, j >= i, slot[j] = NULL
  PROVE  /\ FreeFrom(i) \in Slots /\ FreeFrom(i) <= j
         /\ slot[FreeFrom(i)] = NULL /\ FreeFrom(i) >= i
<1> DEFINE S == {MaxEntries} \cup {k \in Slots : k >= i /\ slot[k] = NULL}
<1>1. S \in SUBSET Nat /\ S # {} /\ j \in S
  BY CacheAssumption DEF Slots
<1> HIDE DEF S
<1>2. Min(S) \in S /\ Min(S) <= j
  BY <1>1, LeastElement
<1>3. FreeFrom(i) = Min(S)
  BY DEF FreeFrom, S
<1> QED
  BY <1>2, <1>3, CacheAssumption DEF S, Slots

\* Where an entry goes: a free slot of the array, at most one past those
\* already used.
LEMMA PlaceFound ==
  ASSUME Ranges, SlotsAgree, cache_count < max_entries - 1,
         NEW i, Offered(i)
  PROVE  /\ Placed(i) \in Slots /\ Placed(i) < max_entries
         /\ Placed(i) <= max_cache_count /\ slot[Placed(i)] = NULL
<1>1. CASE i >= max_entries
  <2>1. PICK j \in 0 .. max_entries - 1 : j >= smallest_free /\ slot[j] = NULL
    BY SomeSlotFree DEF Ranges
  <2>2. j \in Slots /\ smallest_free \in Nat /\ Placed(i) = FreeFrom(smallest_free)
    BY <1>1, CacheAssumption DEF Ranges, Slots, Placed
  <2>3. /\ Placed(i) \in Slots /\ Placed(i) <= j /\ slot[Placed(i)] = NULL
    BY <2>1, <2>2, ScanStops
  <2>4. max_cache_count = max_entries
    BY <1>1, CacheAssumption DEF Ranges, Offered, Slots
  <2> QED
    BY <2>3, <2>4, CacheAssumption DEF Ranges, Slots
<1>2. CASE ~(i >= max_entries)
  <2>1. i \in Slots /\ i \in Nat /\ i >= i /\ i <= max_cache_count /\ i < max_entries
    BY <1>2, CacheAssumption DEF Ranges, Offered, Slots
  <2>2. slot[i] = NULL
    BY <2>1 DEF Offered, SlotsAgree, Ranges
  <2>3. Placed(i) = FreeFrom(i)
    BY <1>2 DEF Placed
  <2>4. /\ Placed(i) \in Slots /\ Placed(i) <= i /\ slot[Placed(i)] = NULL
        /\ Placed(i) >= i
    BY <2>1, <2>2, <2>3, ScanStops
  <2> QED
    BY <2>1, <2>4, CacheAssumption DEF Ranges, Slots
<1> QED
  BY <1>1, <1>2

-----------------------------------------------------------------------------
\* Registering an entry that is not cached in a free slot keeps the slots
\* and the counters in agreement.
LEMMA RegisterAgrees ==
  ASSUME Ranges, SlotsAgree, cache_count < max_entries - 1,
         NEW q \in Queue, q \notin cached, NEW l,
         NEW i \in Slots, i < max_entries, i <= max_cache_count, slot[i] = NULL,
         Register(q, l, i), max_entries' = max_entries
  PROVE  /\ cached' \subseteq Queue
         /\ slot' \in [Slots -> Queue \cup {NULL}]
         /\ cache_count' \in Nat /\ cache_count' < max_entries'
         /\ max_cache_count' \in 0 .. max_entries'
         /\ smallest_free' \in 0 .. max_cache_count'
         /\ SlotsAgree'
<1>1. /\ cached' = cached \cup {q} /\ slot' = [slot EXCEPT ![i] = q]
      /\ cache_count' = cache_count + 1
  BY DEF Register
<1>2. q # NULL /\ i \in Nat
  BY CacheAssumption DEF Slots
<1>3. Occupied' = Occupied \cup {i} /\ i \notin Occupied
  BY <1>1, <1>2 DEF Occupied, Ranges
<1>4. /\ max_cache_count' \in 0 .. max_entries /\ smallest_free' \in 0 .. max_cache_count'
      /\ max_cache_count' >= max_cache_count /\ i < max_cache_count'
      /\ smallest_free' \in {smallest_free, i + 1}
      /\ smallest_free' = i + 1 => i = smallest_free \/ smallest_free' = smallest_free
  BY <1>2 DEF Register, NextFree, Ranges
<1>5. cache_count' = Cardinality(Occupied)'
  BY <1>1, <1>3, OccupiedFinite, FS_AddElement DEF SlotsAgree
<1>6. cached' = {slot'[j] : j \in Occupied'}
  BY <1>1, <1>3 DEF SlotsAgree, Ranges, Occupied
<1>7. \A j, k \in Occupied' : slot'[j] = slot'[k] => j = k
  BY <1>1, <1>3 DEF SlotsAgree, Ranges, Occupied
<1>8. \A j \in Slots : j >= max_cache_count' => slot'[j] = NULL
  <2>1. SUFFICES ASSUME NEW j \in Slots, j >= max_cache_count'
                 PROVE  slot'[j] = NULL
    OBVIOUS
  <2>2. j # i /\ j >= max_cache_count
    BY <1>2, <1>4, <2>1, CacheAssumption DEF Slots, Ranges
  <2> QED
    BY <1>1, <2>2 DEF SlotsAgree, Ranges
<1>9. \A j \in Slots : j < smallest_free' => slot'[j] # NULL
  <2>1. SUFFICES ASSUME NEW j \in Slots, j < smallest_free', j # i
                 PROVE  slot'[j] # NULL
    BY <1>1, <1>2 DEF Ranges
  <2>2. j < smallest_free
    BY <1>2, <1>4, <2>1, CacheAssumption DEF Slots, Ranges
  <2> QED
    BY <1>1, <2>1, <2>2 DEF SlotsAgree, Ranges
<1>10. cached' \subseteq Queue /\ slot' \in [Slots -> Queue \cup {NULL}]
  BY <1>1 DEF Ranges
<1>11. cache_count' \in Nat /\ cache_count' < max_entries'
  BY <1>1, CacheAssumption DEF Ranges
<1> QED
  BY <1>4, <1>5, <1>6, <1>7, <1>8, <1>9, <1>10, <1>11 DEF SlotsAgree

\* Evicting keeps them in agreement, lowers the count and leaves a number of
\* slots that still covers those ever used.
LEMMA EvictAgrees ==
  ASSUME Ranges, SlotsAgree, cache_count < max_entries, Evict
  PROVE  /\ cached' \subseteq Queue
         /\ slot' \in [Slots -> Queue \cup {NULL}]
         /\ cache_count' \in Nat /\ cache_count' < max_entries'
         /\ max_entries' \in 1 .. MaxEntries
         /\ max_cache_count' \in 0 .. max_entries'
         /\ smallest_free' \in 0 .. max_cache_count'
         /\ SlotsAgree'
         /\ tid' \in Slots /\ tid' < max_cache_count' /\ slot'[tid'] = NULL
         /\ cached' \subseteq cached
         /\ queue_cur \in cached => queue_cur \in cached'
<1>1. PICK i \in Victims :
       /\ cached' = cached \ {slot[i]}
       /\ slot' = [slot EXCEPT ![i] = NULL]
       /\ smallest_free' = Freed(i)
       /\ tid' = i
  BY DEF Evict
<1>2. /\ cache_count' = cache_count - 1 /\ max_cache_count' = max_cache_count
  BY DEF Evict
<1>3. i \in Occupied /\ i \in Slots /\ i \in Nat /\ slot[i] # queue_cur
  BY DEF Victims, Occupied, Slots
<1>4. i < max_cache_count
  BY <1>3, CacheAssumption DEF SlotsAgree, Occupied, Ranges
<1>5. /\ smallest_free' \in {i, smallest_free} /\ smallest_free' <= i
      /\ smallest_free' <= smallest_free
  <2>1. {i, smallest_free} \in SUBSET Nat /\ {i, smallest_free} # {}
    BY <1>3 DEF Ranges
  <2> QED
    BY <1>1, <2>1, LeastElement DEF Freed
<1>6. Occupied' = Occupied \ {i}
  BY <1>1, <1>3 DEF Occupied, Ranges
<1>7. cache_count' = Cardinality(Occupied)' /\ cache_count' \in Nat
  <2>1. Cardinality(Occupied \ {i}) = Cardinality(Occupied) - 1
    BY <1>3, OccupiedFinite, FS_RemoveElement
  <2>2. IsFiniteSet(Occupied \ {i})
    BY OccupiedFinite, FS_RemoveElement
  <2>3. Cardinality(Occupied \ {i}) \in Nat
    BY <2>2, FS_CardinalityType
  <2> QED
    BY <1>2, <1>6, <2>1, <2>3 DEF SlotsAgree
<1>8. cached' = {slot'[j] : j \in Occupied'}
  BY <1>1, <1>3, <1>6 DEF SlotsAgree, Ranges, Occupied
<1>9. \A j, k \in Occupied' : slot'[j] = slot'[k] => j = k
  BY <1>1, <1>6 DEF SlotsAgree, Ranges, Occupied
<1>10. \A j \in Slots : j >= max_cache_count' => slot'[j] = NULL
  BY <1>1, <1>2 DEF SlotsAgree, Ranges
<1>11. \A j \in Slots : j < smallest_free' => slot'[j] # NULL
  <2>1. SUFFICES ASSUME NEW j \in Slots, j < smallest_free'
                 PROVE  slot'[j] # NULL
    OBVIOUS
  <2>2. j < smallest_free /\ j # i
    BY <1>3, <1>5, <2>1, CacheAssumption DEF Slots, Ranges
  <2> QED
    BY <1>1, <2>2 DEF SlotsAgree, Ranges
<1>12. /\ max_entries' \in 1 .. MaxEntries /\ max_cache_count' \in 0 .. max_entries'
       /\ cache_count' < max_entries'
  <2>1. CASE Learns(len[getting])
    <3>1. max_entries' = Max({max_cache_count, cache_count}) + 1
      BY <2>1 DEF Evict, Learned
    <3>2. max_cache_count \in Nat /\ cache_count \in Nat
      BY DEF Ranges
    <3>3. /\ Max({max_cache_count, cache_count}) \in {max_cache_count, cache_count}
          /\ Max({max_cache_count, cache_count}) >= max_cache_count
          /\ Max({max_cache_count, cache_count}) >= cache_count
      BY <3>2, LargerOfTwo
    <3> QED
      BY <1>2, <2>1, <3>1, <3>2, <3>3, CacheAssumption DEF Ranges, Learns
  <2>2. CASE ~Learns(len[getting])
    <3>1. max_entries' = max_entries
      BY <2>2 DEF Evict, limit
    <3> QED
      BY <1>2, <3>1, CacheAssumption DEF Ranges
  <2> QED
    BY <2>1, <2>2
<1>13. smallest_free' \in 0 .. max_cache_count'
  BY <1>2, <1>3, <1>5 DEF Ranges
<1>14. /\ cached' \subseteq Queue /\ slot' \in [Slots -> Queue \cup {NULL}]
       /\ tid' \in Slots /\ tid' < max_cache_count' /\ slot'[tid'] = NULL
       /\ cached' \subseteq cached
       /\ queue_cur \in cached => queue_cur \in cached'
  BY <1>1, <1>2, <1>3, <1>4 DEF Ranges
<1> QED
  BY <1>7, <1>8, <1>9, <1>10, <1>11, <1>12, <1>13, <1>14 DEF SlotsAgree

-----------------------------------------------------------------------------
\* The cache is empty at the start.
LEMMA CacheInit == Init => IInv
<1>1. SUFFICES ASSUME Init PROVE IInv
  OBVIOUS
<1>2. Occupied = {}
  BY <1>1 DEF Init, Occupied
<1>3. Cardinality(Occupied) = 0
  BY <1>2, FS_EmptySet
<1>4. Ranges
  BY <1>1, CacheAssumption DEF Init, Ranges
<1>5. SlotsAgree
  BY <1>1, <1>2, <1>3, CacheAssumption DEF Init, SlotsAgree, Slots
<1> QED
  BY <1>1, <1>4, <1>5, CacheAssumption DEF Init, IInv, CurrentStays, Fetching

\* Only slot, cached and the counters matter to the agreement.
LEMMA SameSlots ==
  ASSUME SlotsAgree,
         UNCHANGED <<cached, slot, cache_count, max_cache_count, smallest_free>>
  PROVE  SlotsAgree'
BY DEF SlotsAgree, Occupied

\* The start of a fetch, by fuzz_one or by a splicing stage.
LEMMA GetKeeps ==
  ASSUME IInv, NEW q \in Queue, FuzzOne(q) \/ Splice(q)
  PROVE  IInv'
<1>1. /\ UNCHANGED <<len, cached, slot, cache_count, max_cache_count, smallest_free, max_entries>>
      /\ getting = NULL /\ len[q] > 0 /\ Get(q)
  BY DEF FuzzOne, Splice, account, limit
<1>2. queue_cur' = q \/ (queue_cur' = queue_cur /\ queue_cur # NULL)
  BY DEF FuzzOne, Splice
<1>3. CASE q \in cached
  <2>1. getting' = NULL
    BY <1>1, <1>3 DEF Get
  <2> QED
    BY <1>1, <1>2, <1>3, <2>1, SameSlots DEF IInv, Ranges, CurrentStays, Fetching
<1>4. CASE q \notin cached
  <2>1. getting' = q /\ tid' = max_cache_count
    BY <1>1, <1>4 DEF Get
  <2>2. CurrentStays'
    BY <1>1, <1>2, <2>1 DEF IInv, CurrentStays
  <2>3. Fetching'
    BY <1>1, <1>4, <2>1 DEF Fetching, Offered
  <2>4. Ranges'
    BY <1>1, <1>2, <2>1 DEF IInv, Ranges
  <2> QED
    BY <1>1, <2>2, <2>3, <2>4, SameSlots DEF IInv
<1> QED
  BY <1>3, <1>4

\* Trimming changes a length and the size, and leaves a length above 0.
LEMMA TrimKeeps ==
  ASSUME IInv, NEW l \in 1 .. MaxFile, Trim(l)
  PROVE  IInv'
<1>1. /\ UNCHANGED <<cached, slot, cache_count, max_cache_count, smallest_free,
                     max_entries, queue_cur, getting, tid>>
      /\ getting = NULL /\ queue_cur # NULL
      /\ len' = [len EXCEPT ![queue_cur] = l]
  BY DEF Trim, limit, fetch
<1>2. Ranges'
  BY <1>1, CacheAssumption DEF IInv, Ranges
<1>3. \A q \in cached' : len'[q] > 0
  BY <1>1, CacheAssumption DEF IInv, Ranges
<1>4. CurrentStays' /\ Fetching'
  BY <1>1 DEF IInv, CurrentStays, Fetching
<1> QED
  BY <1>1, <1>2, <1>3, <1>4, SameSlots DEF IInv

\* A new entry has length 0 before, so it is not cached yet.
LEMMA SaveKeeps ==
  ASSUME IInv, NEW q \in Queue, NEW l \in 1 .. MaxFile, Save(q, l)
  PROVE  IInv'
<1>1. /\ UNCHANGED <<max_entries, queue_cur, getting, tid>>
      /\ getting = NULL /\ queue_cur # NULL /\ len[q] = 0
      /\ len' = [len EXCEPT ![q] = l]
  BY DEF Save, limit, fetch
<1>2. q \notin cached
  BY <1>1 DEF IInv
<1>3. len' \in [Queue -> 0 .. MaxFile] /\ \A p \in cached \cup {q} : len'[p] > 0
  BY <1>1, CacheAssumption DEF IInv, Ranges
<1>4. CASE Full(l)
  <2>1. UNCHANGED <<cached, slot, cache_count, max_cache_count, smallest_free>>
    BY <1>4 DEF Save, account
  <2>2. CurrentStays' /\ Fetching' /\ Ranges'
    BY <1>1, <1>3, <2>1 DEF IInv, CurrentStays, Fetching, Ranges
  <2> QED
    BY <1>1, <1>3, <2>1, <2>2, SameSlots DEF IInv
<1>5. CASE ~Full(l)
  <2>1. Ranges /\ SlotsAgree /\ cache_count < max_entries - 1 /\ Offered(max_cache_count)
    BY <1>5, CacheAssumption DEF IInv, Full, Ranges, Offered
  <2> DEFINE i == Placed(max_cache_count)
  <2>2. i \in Slots /\ i < max_entries /\ i <= max_cache_count /\ slot[i] = NULL
    BY <2>1, PlaceFound
  <2>3. Register(q, l, i)
    BY <1>5 DEF Save
  <2> HIDE DEF i
  <2>4. /\ cached' \subseteq Queue
        /\ slot' \in [Slots -> Queue \cup {NULL}]
        /\ cache_count' \in Nat /\ cache_count' < max_entries'
        /\ max_cache_count' \in 0 .. max_entries'
        /\ smallest_free' \in 0 .. max_cache_count'
        /\ SlotsAgree'
    BY <1>1, <1>2, <2>1, <2>2, <2>3, RegisterAgrees
  <2>5. cached' = cached \cup {q}
    BY <2>3 DEF Register
  <2>6. CurrentStays' /\ Fetching'
    BY <1>1, <2>5 DEF IInv, CurrentStays, Fetching
  <2>7. Ranges'
    BY <1>1, <1>3, <2>4 DEF IInv, Ranges
  <2> QED
    BY <1>3, <2>4, <2>5, <2>6, <2>7 DEF IInv
<1> QED
  BY <1>4, <1>5

\* The end of a fetch.
LEMMA LoadKeeps ==
  ASSUME IInv, Load
  PROVE  IInv'
<1>1. /\ UNCHANGED <<len, max_entries, queue_cur, tid>>
      /\ getting # NULL /\ getting' = NULL /\ ~Full(len[getting])
      /\ Register(getting, len[getting], Placed(tid))
  BY DEF Load, limit
<1>2. getting \in Queue /\ getting \notin cached /\ len[getting] > 0
  BY <1>1 DEF IInv, Ranges, Fetching
<1>3. Ranges /\ SlotsAgree /\ cache_count < max_entries - 1 /\ Offered(tid)
  BY <1>1, CacheAssumption DEF IInv, Full, Ranges, Fetching
<1> DEFINE i == Placed(tid)
<1>4. i \in Slots /\ i < max_entries /\ i <= max_cache_count /\ slot[i] = NULL
  BY <1>3, PlaceFound
<1>5. Register(getting, len[getting], i)
  BY <1>1
<1> HIDE DEF i
<1>6. /\ cached' \subseteq Queue
      /\ slot' \in [Slots -> Queue \cup {NULL}]
      /\ cache_count' \in Nat /\ cache_count' < max_entries'
      /\ max_cache_count' \in 0 .. max_entries'
      /\ smallest_free' \in 0 .. max_cache_count'
      /\ SlotsAgree'
  BY <1>1, <1>2, <1>3, <1>4, <1>5, RegisterAgrees
<1>7. cached' = cached \cup {getting}
  BY <1>5 DEF Register
<1>8. CurrentStays' /\ Fetching'
  BY <1>1, <1>7 DEF IInv, CurrentStays, Fetching
<1>9. Ranges'
  BY <1>1, <1>6 DEF IInv, Ranges
<1> QED
  BY <1>1, <1>2, <1>6, <1>7, <1>8, <1>9 DEF IInv

\* One turn of the eviction loop.
LEMMA EvictKeeps ==
  ASSUME IInv, Evict
  PROVE  IInv'
<1>1. UNCHANGED <<len, queue_cur, getting>> /\ getting # NULL
  BY DEF Evict
<1>2. /\ cached' \subseteq Queue
      /\ slot' \in [Slots -> Queue \cup {NULL}]
      /\ cache_count' \in Nat /\ cache_count' < max_entries'
      /\ max_entries' \in 1 .. MaxEntries
      /\ max_cache_count' \in 0 .. max_entries'
      /\ smallest_free' \in 0 .. max_cache_count'
      /\ SlotsAgree'
      /\ tid' \in Slots /\ tid' < max_cache_count' /\ slot'[tid'] = NULL
      /\ cached' \subseteq cached
      /\ queue_cur \in cached => queue_cur \in cached'
  BY EvictAgrees DEF IInv
<1>3. CurrentStays' /\ Fetching'
  BY <1>1, <1>2 DEF IInv, CurrentStays, Fetching, Offered
<1>4. Ranges'
  BY <1>1, <1>2 DEF IInv, Ranges
<1> QED
  BY <1>1, <1>2, <1>3, <1>4 DEF IInv

\* Every operation of the cache keeps the inductive invariant.
LEMMA CacheStep == IInv /\ [Next]_vars => IInv'
<1>1. SUFFICES ASSUME IInv, [Next]_vars PROVE IInv'
  OBVIOUS
<1>2. ASSUME UNCHANGED vars PROVE IInv'
  <2>1. UNCHANGED <<len, cached, slot, cache_count, max_cache_count, smallest_free,
                    max_entries, queue_cur, getting, tid>>
    BY <1>2 DEF vars, account, limit, fetch
  <2> QED
    BY <1>1, <2>1, SameSlots DEF IInv, Ranges, CurrentStays, Fetching, Offered
<1>3. ASSUME NEW q \in Queue, FuzzOne(q) \/ Splice(q) PROVE IInv'
  BY <1>1, <1>3, GetKeeps
<1>4. ASSUME NEW l \in 1 .. MaxFile, Trim(l) PROVE IInv'
  BY <1>1, <1>4, TrimKeeps
<1>5. ASSUME NEW l \in 1 .. MaxFile, NEW q \in Queue, Save(q, l) PROVE IInv'
  BY <1>1, <1>5, SaveKeeps
<1>6. ASSUME Evict PROVE IInv'
  BY <1>1, <1>6, EvictKeeps
<1>7. ASSUME DrawAgain PROVE IInv'
  BY <1>2, <1>7 DEF DrawAgain
<1>8. ASSUME Load PROVE IInv'
  BY <1>1, <1>8, LoadKeeps
<1> QED
  BY <1>1, <1>2, <1>3, <1>4, <1>5, <1>6, <1>7, <1>8 DEF Next

\* The inductive invariant holds in every behaviour.
LEMMA CacheInvariant == Spec => []IInv
BY CacheInit, CacheStep, PTL DEF Spec

\* The slots of the cache, the buffers and the counters that
\* afl-fuzz-queue.c keeps by hand agree, however the calls are ordered.
THEOREM SlotsAlwaysAgree == Spec => []SlotsAgree
<1>1. IInv => SlotsAgree
  BY DEF IInv
<1> QED
  BY <1>1, CacheInvariant, PTL

\* The loops "while (q_testcase_cache[tid] != NULL) ++tid" never leave the
\* array, whatever was evicted before.
THEOREM ScansInBounds == Spec => []ScanInBounds
<1>1. ASSUME IInv PROVE ScanInBounds
  <2>1. ASSUME getting # NULL, ~Full(len[getting])
        PROVE  Placed(tid) < max_entries
    <3>1. Ranges /\ SlotsAgree /\ cache_count < max_entries - 1 /\ Offered(tid)
      BY <1>1, <2>1, CacheAssumption DEF IInv, Full, Ranges, Fetching
    <3> QED
      BY <3>1, PlaceFound
  <2>2. ASSUME NEW l \in 1 .. MaxFile, ~Full(l)
        PROVE  Placed(max_cache_count) < max_entries
    <3>1. /\ Ranges /\ SlotsAgree /\ cache_count < max_entries - 1
          /\ Offered(max_cache_count)
      BY <1>1, <2>2, CacheAssumption DEF IInv, Full, Ranges, Offered
    <3> QED
      BY <3>1, PlaceFound
  <2> QED
    BY <2>1, <2>2 DEF ScanInBounds
<1> QED
  BY <1>1, CacheInvariant, PTL

\* The contents of the entry being fuzzed stay in memory while another entry
\* is fetched and others are evicted.
THEOREM CurrentNeverEvicted == Spec => []CurrentStays
<1>1. IInv => CurrentStays
  BY DEF IInv
<1> QED
  BY <1>1, CacheInvariant, PTL
=============================================================================
