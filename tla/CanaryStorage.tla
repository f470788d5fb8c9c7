---------------------------- MODULE CanaryStorage ----------------------------
(***************************************************************************)
(* How the bug counters are laid out in the shared file                    *)
(* (magma/magma/src/storage.c) and what the monitor reads out of it        *)
(* (stor_forall in the dump functions of monitor.c).  A buffer is an array *)
(* of BUFFERLEN slots that are taken in the order in which bugs are first  *)
(* logged; the producer's and the consumer's buffer are adjacent, so the   *)
(* file is one array of 2 * BUFFERLEN slots here and slot BUFFERLEN is the *)
(* one behind the end of the producer's buffer.                            *)
(*                                                                         *)
(* magma_log and fetch_file are single steps: how their accesses           *)
(* interleave, and processes that die within them, is in CanaryMonitor.    *)
(***************************************************************************)
EXTENDS Naturals, FiniteSetsExt

CONSTANTS
  Names,      \* the bugs of the target (their names have at most 15 characters)
  BUFFERLEN,  \* slots of a buffer
  MaxLogs     \* bound on the number of calls of magma_log

StorageAssumption == BUFFERLEN \in Nat \ {0} /\ MaxLogs \in Nat /\ "" \notin Names

VARIABLES
  fetch,         \* how the monitor is used: "file" or "watch"
  slot,          \* the two buffers
  consumed,
  alive,         \* does the target process run?
  magma_faulty,  \* of that process
  data,          \* the monitor's copy, of its last successful fetch
  logs           \* number of calls so far

vars == <<fetch, slot, consumed, alive, magma_faulty, data, logs>>

Nul == [name |-> "", reached |-> 0, triggered |-> 0]
Buffer == 0 .. BUFFERLEN - 1

(* A file that the monitor created: all its bytes are zero.                *)
Init ==
  /\ fetch \in {"file", "watch"}
  /\ slot = [i \in 0 .. 2 * BUFFERLEN - 1 |-> Nul]
  /\ data = [i \in Buffer |-> Nul]
  /\ consumed = FALSE
  /\ alive = TRUE
  /\ magma_faulty = 0
  /\ logs = 0

producer_buffer == [i \in Buffer |-> slot[i]]
consumer_buffer == [i \in Buffer |-> slot[BUFFERLEN + i]]

(* The loop shared by the three functions of storage.c ends at the first   *)
(* slot that is free or has the name; BUFFERLEN when there is none.        *)
Stops(buffer, n) == {i \in Buffer : buffer[i].name \in {"", n}}
Position(buffer, n) == Min(Stops(buffer, n) \union {BUFFERLEN})

(* stor_get: the record of bug n, and where it is; a new one replaces      *)
(* whatever is in that place.                                              *)
stor_get(n) ==
  LET i == Position(producer_buffer, n)
  IN  [at |-> i,
       canary |-> IF i < BUFFERLEN /\ slot[i].name = n THEN slot[i]
                  ELSE [name |-> n, reached |-> 0, triggered |-> 0]]

(* The producer's counters after magma_log(n, condition).                  *)
Counted(n, condition) ==
  LET g == stor_get(n)
      m == IF magma_faulty = 1 THEN 0 ELSE 1
  IN  [slot EXCEPT ![g.at] = [g.canary EXCEPT !.reached = @ + m, !.triggered = @ + condition * m]]

magma_log(n, condition) ==
  /\ alive
  /\ logs < MaxLogs
  /\ logs' = logs + 1
  /\ slot' = LET s == Counted(n, condition)
             IN  IF consumed THEN [i \in DOMAIN s |-> s[i % BUFFERLEN]] ELSE s
  /\ consumed' = FALSE
  /\ magma_faulty' = IF condition = 1 THEN 1 ELSE magma_faulty
  /\ UNCHANGED <<fetch, alive, data>>

(* The process ends and the next one starts, with its own statics.         *)
Respawn ==
  /\ fetch = "file"
  /\ magma_faulty = 1
  /\ magma_faulty' = 0
  /\ UNCHANGED <<fetch, slot, consumed, alive, data, logs>>

fetch_file ==
  /\ fetch = "file"
  /\ ~consumed
  /\ data' = consumer_buffer
  /\ consumed' = TRUE
  /\ UNCHANGED <<fetch, slot, alive, magma_faulty, logs>>

(* Runs the command once, waits for it and reads the producer's buffer.    *)
fetch_watch ==
  /\ fetch = "watch"
  /\ alive
  /\ alive' = FALSE
  /\ data' = producer_buffer
  /\ UNCHANGED <<fetch, slot, consumed, magma_faulty, logs>>

Next ==
  \/ \E n \in Names, condition \in {0, 1} : magma_log(n, condition)
  \/ Respawn
  \/ fetch_file
  \/ fetch_watch

Spec == Init /\ [][Next]_vars

------------------------------------------------------------------------------
(* All slots but the last are visited. *)
stor_forallLess(buffer) ==
  {i \in Buffer : i < BUFFERLEN - 1 /\ \A j \in 0 .. i : buffer[j].name # ""}

(* stor_forall: the records the monitor prints, up to the first free slot. *)
stor_forall(buffer) ==
  {i \in Buffer : \A j \in 0 .. i : buffer[j].name # ""}

(* The counters a reader of those records sees.                            *)
Read(buffer) ==
  [n \in Names |->
     LET of == {i \in stor_forall(buffer) : buffer[i].name = n}
     IN  IF of = {} THEN [reached |-> 0, triggered |-> 0]
         ELSE LET c == buffer[Min(of)] IN [reached |-> c.reached, triggered |-> c.triggered]]

Counts == INSTANCE BugCounts WITH
  calls    <- logs,
  faulty   <- magma_faulty,
  counted  <- Read(producer_buffer),
  snapshot <- Read(consumer_buffer),
  taken    <- consumed,
  report   <- Read(data)

(* The slots implement one counter per bug: magma_log counts for its bug   *)
(* and for no other, and what the monitor prints is a snapshot of all of   *)
(* them, in both ways of fetching it ("Bug record does not exist, create   *)
(* it": storage.c finds or makes room for every name it is given).         *)
CountsEveryBug == Counts!Spec
==============================================================================
