---------------------------- MODULE TestcaseCache ----------------------------
(***************************************************************************)
(* The cache of test case contents of afl-fuzz (afl-fuzz-queue.c): an      *)
(* array of slots that point at the queue entries whose file is held in    *)
(* memory, and five counters that are kept up to date by hand.  An entry   *)
(* is cached when it is fetched to be fuzzed or spliced with               *)
(* (queue_testcase_get), when it is found (queue_testcase_store_mem), and  *)
(* changes its length when it is trimmed (queue_testcase_retake,           *)
(* queue_testcase_retake_mem).  A fetch that finds no room evicts entries  *)
(* drawn at random, one per turn of a loop, never the one being fuzzed.    *)
(*                                                                         *)
(* Lengths and the capacity count units of MaxFile / n bytes.              *)
(***************************************************************************)
EXTENDS Integers, FiniteSetsExt

CONSTANTS Queue,        \* the queue entries, found or still to be found
          MaxFile,      \* MAX_FILE, the longest test case
          MaxSize,      \* q_testcase_max_cache_size, AFL_TESTCACHE_SIZE
          MaxEntries,   \* the initial q_testcase_max_cache_entries
          NULL

\* main() refuses a smaller AFL_TESTCACHE_SIZE; the number of entries is
\* 65536 unless AFL_TESTCACHE_ENTRIES says otherwise.
ASSUME CacheAssumption ==
  /\ MaxFile \in Nat \ {0}
  /\ MaxSize \in Nat /\ MaxSize >= 2 * MaxFile
  /\ MaxEntries \in Nat /\ MaxEntries >= 3
  /\ NULL \notin Queue

VARIABLES len,              \* q->len, 0 for an entry that is not yet in the queue
          cached,           \* the entries whose testcase_buf is not NULL
          slot,             \* q_testcase_cache
          cache_size,       \* q_testcase_cache_size
          cache_count,      \* q_testcase_cache_count
          max_cache_count,  \* q_testcase_max_cache_count, one past the last slot ever used
          smallest_free,    \* q_testcase_smallest_free
          max_entries,      \* q_testcase_max_cache_entries, lowered once
          do_once,          \* the static flag of that lowering
          queue_cur,        \* the entry being fuzzed
          getting,          \* the entry a running queue_testcase_get has to load
          tid               \* its slot number

account == <<cache_size, cache_count, max_cache_count, smallest_free>>
limit == <<max_entries, do_once>>
fetch == <<queue_cur, getting, tid>>
vars == <<len, cached, slot, account, limit, fetch>>

Slots == 0 .. MaxEntries - 1

Occupied == {i \in Slots : slot[i] # NULL}

\* One type invariant: the counters stay in the range of their arrays.
TypeOK ==
  /\ len \in [Queue -> 0 .. MaxFile]
  /\ cached \subseteq Queue
  /\ slot \in [Slots -> Queue \cup {NULL}]
  /\ cache_size \in 0 .. MaxSize
  /\ cache_count \in 0 .. MaxEntries
  /\ max_cache_count \in 0 .. max_entries
  /\ smallest_free \in 0 .. max_cache_count
  /\ max_entries \in 1 .. MaxEntries
  /\ do_once \in BOOLEAN
  /\ queue_cur \in Queue \cup {NULL}
  /\ getting \in Queue \cup {NULL}
  /\ tid \in 0 .. MaxEntries

Init ==
  /\ len \in [Queue -> 0 .. MaxFile]
  /\ \E q \in Queue : len[q] > 0
  /\ cached = {}
  /\ slot = [i \in Slots |-> NULL]
  /\ cache_size = 0 /\ cache_count = 0
  /\ max_cache_count = 0 /\ smallest_free = 0
  /\ max_entries = MaxEntries /\ do_once = FALSE
  /\ queue_cur = NULL /\ getting = NULL /\ tid = 0

-----------------------------------------------------------------------------
\* The cache is full, by size or by number, for an entry of length l.
FullBySize(l) == cache_size + l >= MaxSize
Full(l) == FullBySize(l) \/ cache_count >= max_entries - 1

\* The scan "while (q_testcase_cache[tid] != NULL) ++tid"; MaxEntries when
\* it runs off the end of the array.
FreeFrom(i) == Min({MaxEntries} \cup {j \in Slots : j >= i /\ slot[j] = NULL})

\* smallest_free after the entry is put in slot i, below max_cache_count.
NextFree(i) == IF i = smallest_free THEN i + 1 ELSE smallest_free

\* "Register testcase as cached", in slot i.
Register(q, l, i) ==
  /\ cached' = cached \cup {q}
  /\ slot' = [slot EXCEPT ![i] = q]
  /\ cache_size' = cache_size + l
  /\ cache_count' = cache_count + 1
  /\ IF i >= max_cache_count
     THEN max_cache_count' = i + 1 /\ UNCHANGED smallest_free
     ELSE smallest_free' = NextFree(i) /\ UNCHANGED max_cache_count

\* The slot an entry goes to when the slot number at hand is i.
PlacedUnchecked(i) == FreeFrom(i)
Placed(i) == FreeFrom(IF i >= max_entries THEN smallest_free ELSE i)

\* queue_testcase_get(q): at once when the entry is cached, else the loop of
\* Evict and Load.
Get(q) ==
  IF q \in cached
  THEN UNCHANGED <<getting, tid>>
  ELSE getting' = q /\ tid' = max_cache_count

\* fuzz_one fetches the entry it was told to fuzz.
FuzzOne(q) ==
  /\ getting = NULL /\ len[q] > 0
  /\ queue_cur' = q
  /\ Get(q)
  /\ UNCHANGED <<len, cached, slot, account, limit>>

\* The splicing and custom mutator stages fetch another entry.
Splice(q) ==
  /\ getting = NULL /\ queue_cur # NULL
  /\ q # queue_cur /\ len[q] > 0
  /\ Get(q)
  /\ UNCHANGED <<len, cached, slot, account, limit, queue_cur>>

\* cache_size after a trim to l of the entry being fuzzed.
TrimmedSizeStale(l) == cache_size
TrimmedSize(l) ==
  IF queue_cur \in cached THEN cache_size + l - len[queue_cur] ELSE cache_size

\* trim_case shortens the entry being fuzzed and retakes its contents.
Trim(l) ==
  /\ getting = NULL /\ queue_cur # NULL
  /\ l < len[queue_cur]
  /\ len' = [len EXCEPT ![queue_cur] = l]
  /\ cache_size' = TrimmedSize(l)
  /\ UNCHANGED <<cached, slot, cache_count, max_cache_count, smallest_free,
                 limit, fetch>>

\* save_if_interesting adds an entry: queue_testcase_store_mem caches it
\* when there is room and evicts nothing.
Save(q, l) ==
  /\ getting = NULL /\ queue_cur # NULL
  /\ len[q] = 0
  /\ len' = [len EXCEPT ![q] = l]
  /\ IF Full(l)
     THEN UNCHANGED <<cached, slot, account>>
     ELSE Register(q, l, Placed(max_cache_count))
  /\ UNCHANGED <<limit, fetch>>

-----------------------------------------------------------------------------
\* "We want a max number of entries to the cache that we learn": the first
\* time the cache is full by size.
Learns(l) ==
  /\ FullBySize(l) /\ ~do_once
  /\ cache_count < max_entries /\ max_cache_count < max_entries

Learned == Max({max_cache_count, cache_count}) + 1

\* "Get a random one which is not in use."
Victims == {i \in Occupied : slot[i] # queue_cur}

\* smallest_free after slot i is emptied.
FreedKept(i) == smallest_free
Freed(i) == Min({i, smallest_free})

\* One turn of the eviction loop.
Evict ==
  /\ getting # NULL /\ Full(len[getting])
  /\ IF Learns(len[getting])
     THEN max_entries' = Learned /\ do_once' = TRUE
     ELSE UNCHANGED limit
  /\ \E i \in Victims :
       /\ cached' = cached \ {slot[i]}
       /\ slot' = [slot EXCEPT ![i] = NULL]
       /\ cache_size' = cache_size - len[slot[i]]
       /\ smallest_free' = Freed(i)
       /\ tid' = i
  /\ cache_count' = cache_count - 1
  /\ UNCHANGED <<len, max_cache_count, queue_cur, getting>>

\* A draw that hits an empty slot or the entry being fuzzed is repeated.
DrawAgain ==
  /\ getting # NULL /\ Full(len[getting])
  /\ \E i \in 0 .. max_cache_count - 1 : i \notin Victims
  /\ UNCHANGED vars

\* There is room: the file is read and registered, and get returns.
Load ==
  /\ getting # NULL /\ ~Full(len[getting])
  /\ Register(getting, len[getting], Placed(tid))
  /\ getting' = NULL
  /\ UNCHANGED <<len, limit, queue_cur, tid>>

Next ==
  \/ \E q \in Queue : FuzzOne(q) \/ Splice(q)
  \/ \E l \in 1 .. MaxFile : Trim(l) \/ \E q \in Queue : Save(q, l)
  \/ Evict \/ DrawAgain \/ Load

Spec == Init /\ [][Next]_vars

\* A call of queue_testcase_get runs until it returns; a draw is uniform, so
\* that a slot that may be evicted is hit sooner or later.
FairSpec == Spec /\ WF_vars(Evict) /\ WF_vars(Load)

-----------------------------------------------------------------------------
\* The array and the buffers agree: an entry has its contents in memory when
\* exactly one slot points at it, the count is that of the slots in use, none
\* of them is past the end, and the slots below smallest_free are all in use.
\* Four functions of afl-fuzz-queue.c keep this up by hand.
SlotsAgree ==
  /\ cached = {slot[i] : i \in Occupied}
  /\ \A i, j \in Occupied : slot[i] = slot[j] => i = j
  /\ cache_count = Cardinality(Occupied)
  /\ \A i \in Slots : i >= max_cache_count => slot[i] = NULL
  /\ \A i \in Slots : i < smallest_free => slot[i] # NULL

\* The size is the sum of the lengths of the cached entries, through trims
\* and evictions, and stays below the capacity.
SizeIsSum ==
  /\ cache_size = MapThenSumSet(LAMBDA q : len[q], cached)
  /\ cache_size < MaxSize

\* The unbounded scan for a free slot, in queue_testcase_get and in
\* queue_testcase_store_mem, finds one within the array.
ScanInBounds ==
  /\ getting # NULL /\ ~Full(len[getting]) => Placed(tid) < max_entries
  /\ (\E l \in 1 .. MaxFile : ~Full(l)) => Placed(max_cache_count) < max_entries

\* The entry being fuzzed keeps its contents while another one is fetched:
\* fuzz_one goes on reading in_buf afterwards.
CurrentStays == queue_cur \notin {NULL, getting} => queue_cur \in cached

\* Every fetch returns, if the capacity exceeds the smallest one that is accepted:
\* then the entry being fuzzed and the one being fetched have room together, and
\* whenever there is none there is another entry to evict.
GetReturns == MaxSize > 2 * MaxFile => (getting # NULL ~> getting = NULL)

-----------------------------------------------------------------------------
\* What the repository's words promise and the code does not keep; README.md
\* says in which situation.

\* "AFL_TESTCACHE_SIZE must be set to %ld or more" (afl-fuzz.c:1602): with any
\* capacity that is accepted, every fetch returns.
EveryGetReturns == getting # NULL ~> getting = NULL
=============================================================================
