--------------------------- MODULE CanaryMonitor ---------------------------
(***************************************************************************)
(* The shared file through which an instrumented target (the producer,     *)
(* magma/magma/src/canary.c) reports its bug counters to the polling       *)
(* monitor (the consumer, magma/magma/src/monitor.c).  The file is mapped  *)
(* by both sides and holds a flag and two buffers:                         *)
(*                                                                         *)
(*     consumed | producer_buffer | consumer_buffer                        *)
(*                                                                         *)
(* No lock protects it.  A target process may be killed between any two    *)
(* of its steps (afl-fuzz kills it on a timeout, the bug may crash it),    *)
(* and the monitor runs concurrently with it.  One target process is alive *)
(* at a time: the fork server waits for a child before it forks the next.  *)
(***************************************************************************)
EXTENDS Naturals, FiniteSetsExt

CONSTANTS
  Bugs,       \* bug names, one canary_t slot each (at most BUFFERLEN of them)
  Early,      \* may a target run before the first monitor set up the file?
  Fatal,      \* built with MAGMA_FATAL_CANARIES?
  MaxCount,   \* bound: magma_log is called while a bug's reached is below it
  MaxSpawns   \* bound on the number of target processes

ASSUME BoundsAssumption == MaxCount \in Nat /\ MaxSpawns \in Nat
ASSUME FlagsAssumption  == Early \in BOOLEAN /\ Fatal \in BOOLEAN

Canary == [reached : Nat, triggered : Nat]
Buffer == [Bugs -> Canary]
Zero   == [b \in Bugs |-> [reached |-> 0, triggered |-> 0]]

VARIABLES
  file,       \* "absent", "empty" (created, zero bytes) or "sized"
  consumed,   \* the three fields of stored_data_t
  producer_buffer,
  consumer_buffer,
  pc,         \* where the target process is in magma_log
  init_called, data_ptr, magma_faulty,   \* its statics; data_ptr: mapped?
  bug, condition,                        \* the arguments of the call
  copied,     \* slots already copied by the memcpy of magma_log
  spawned,    \* number of target processes so far
  mpc,        \* where the monitor is in fetch_file
  data,       \* the monitor's local copy
  fetched,    \* slots already copied by the memcpy of fetch_file
  last,       \* what the last successful poll dumped
  published   \* history: producer_buffer when it was last made available

shared   == <<file, consumed, producer_buffer, consumer_buffer>>
statics  == <<init_called, data_ptr, magma_faulty>>
producer == <<pc, statics, bug, condition, copied, spawned>>
monitor  == <<mpc, data, fetched, last>>
vars     == <<shared, producer, monitor, published>>

Storage == {"absent", "empty", "sized"}
PCs     == {"dead", "run", "access", "trigger", "check", "copy", "fault"}
MPCs    == {"sleep", "truncate", "memset", "check", "copy"}

TypeOK ==
  /\ file \in Storage
  /\ consumed \in BOOLEAN
  /\ producer_buffer \in Buffer
  /\ consumer_buffer \in Buffer
  /\ pc \in PCs
  /\ init_called \in BOOLEAN
  /\ data_ptr \in BOOLEAN
  /\ magma_faulty \in {0, 1}
  /\ bug \in Bugs
  /\ condition \in {0, 1}
  /\ copied \in SUBSET Bugs
  /\ spawned \in Nat
  /\ mpc \in MPCs
  /\ data \in Buffer
  /\ fetched \in SUBSET Bugs
  /\ last \in Buffer
  /\ published \in Buffer

Init ==
  /\ file = "absent"
  /\ consumed = FALSE
  /\ producer_buffer = Zero
  /\ consumer_buffer = Zero
  /\ pc = "dead"
  /\ init_called = FALSE
  /\ data_ptr = FALSE
  /\ magma_faulty = 0
  /\ bug \in Bugs
  /\ condition = 0
  /\ copied = {}
  /\ spawned = 0
  /\ mpc = "sleep"
  /\ data = Zero
  /\ fetched = {}
  /\ last = Zero
  /\ published = Zero

----------------------------------------------------------------------------
(* The target process.                                                     *)

\* The fork server starts the next target once the previous one is gone.
Spawn ==
  /\ pc = "dead"
  /\ spawned < MaxSpawns
  /\ Early \/ (file = "sized" /\ mpc # "memset")
  /\ pc' = "run"
  /\ init_called' = FALSE
  /\ data_ptr' = FALSE
  /\ magma_faulty' = 0
  /\ spawned' = spawned + 1
  /\ UNCHANGED <<shared, bug, condition, copied, monitor, published>>

\* The process exits, or is killed wherever it is.
Exit ==
  /\ pc # "dead"
  /\ pc' = "dead"
  /\ UNCHANGED <<shared, statics, bug, condition, copied, spawned, monitor,
                 published>>

\* Where control goes after the call: a fatal canary kills its own process.
Return(c) == IF Fatal /\ c = 1 THEN "dead" ELSE "run"

\* magma_log up to the first access of the mapping: the mapping exists, or
\* magma_init opens the file now, or the canaries of this process stay off.
MagmaLog(b, c) ==
  /\ pc = "run"
  /\ producer_buffer[b].reached < MaxCount
  /\ bug' = b
  /\ condition' = c
  /\ \/ /\ data_ptr
        /\ pc' = "access"
        /\ UNCHANGED <<init_called, data_ptr>>
     \/ /\ ~data_ptr /\ ~init_called /\ file # "absent"
        /\ pc' = "access"
        /\ init_called' = TRUE
        /\ data_ptr' = TRUE
     \/ /\ ~data_ptr /\ (init_called \/ file = "absent")
        /\ pc' = Return(c)
        /\ init_called' = TRUE
        /\ UNCHANGED data_ptr
  /\ UNCHANGED <<shared, magma_faulty, copied, spawned, monitor, published>>

\* Mutant of Bump: the two counters are swapped.
BumpSwapped(buf, b, r, t) ==
  [buf EXCEPT ![b] = [reached   |-> @.reached + t,
                      triggered |-> @.triggered + r]]

\* buf with r and t added to the counters of b's slot, the one stor_get finds.
Bump(buf, b, r, t) ==
  [buf EXCEPT ![b] = [reached   |-> @.reached + r,
                      triggered |-> @.triggered + t]]

\* Mutant of Reached: stor_get does not recognise the record and starts anew.
ReachedAnew ==
  /\ pc = "access"
  /\ file = "sized"
  /\ producer_buffer' = Bump(Zero, bug, 1 - magma_faulty, 0)
  /\ pc' = "trigger"
  /\ UNCHANGED <<file, consumed, consumer_buffer, statics, bug, condition,
                 copied, spawned, monitor, published>>

\* reached += 1 & (magma_faulty ^ 1).  The mapping of a file that has no bytes
\* yet raises SIGBUS.
Reached ==
  /\ pc = "access"
  /\ \/ /\ file = "sized"
        /\ producer_buffer' = Bump(producer_buffer, bug, 1 - magma_faulty, 0)
        /\ pc' = "trigger"
     \/ /\ file # "sized"
        /\ pc' = "dead"
        /\ UNCHANGED producer_buffer
  /\ UNCHANGED <<file, consumed, consumer_buffer, statics, bug, condition,
                 copied, spawned, monitor, published>>

\* triggered += (bool)condition & (magma_faulty ^ 1)
Triggered ==
  /\ pc = "trigger"
  /\ producer_buffer' = Bump(producer_buffer, bug, 0,
                             IF magma_faulty = 0 THEN condition ELSE 0)
  /\ pc' = "check"
  /\ UNCHANGED <<file, consumed, consumer_buffer, statics, bug, condition,
                 copied, spawned, monitor, published>>

\* Mutant of CheckConsumed: the copy is made whether or not the monitor has
\* taken the previous one.
CheckConsumedNever ==
  /\ pc = "check"
  /\ pc' = "copy"
  /\ copied' = {}
  /\ UNCHANGED <<shared, statics, bug, condition, spawned, monitor, published>>

\* if (data_ptr->consumed)
CheckConsumed ==
  /\ pc = "check"
  /\ pc' = IF consumed THEN "copy" ELSE "fault"
  /\ copied' = {}
  /\ UNCHANGED <<shared, statics, bug, condition, spawned, monitor, published>>

\* One slot of the memcpy from producer_buffer to consumer_buffer.
CopySlot(b) ==
  /\ pc = "copy"
  /\ b \notin copied
  /\ consumer_buffer' = [consumer_buffer EXCEPT ![b] = producer_buffer[b]]
  /\ copied' = copied \cup {b}
  /\ UNCHANGED <<file, consumed, producer_buffer, pc, statics, bug, condition,
                 spawned, monitor, published>>

\* Behind the memory barrier, consumed = false hands the copy to the monitor.
Publish ==
  /\ pc = "copy"
  /\ copied = Bugs
  /\ consumed' = FALSE
  /\ published' = producer_buffer
  /\ pc' = "fault"
  /\ UNCHANGED <<file, producer_buffer, consumer_buffer, statics, bug,
                 condition, copied, spawned, monitor>>

\* magma_faulty |= (bool)condition, and the end of the call.
Fault ==
  /\ pc = "fault"
  /\ magma_faulty' = IF condition = 1 THEN 1 ELSE magma_faulty
  /\ pc' = Return(condition)
  /\ UNCHANGED <<shared, init_called, data_ptr, bug, condition, copied,
                 spawned, monitor, published>>

----------------------------------------------------------------------------
(* The monitor: one fetch_file per poll of magma/magma/run.sh.             *)

\* open(fname): an existing file is mapped, a missing one is created.
Open ==
  /\ mpc = "sleep"
  /\ \/ /\ file = "absent"
        /\ file' = "empty"
        /\ mpc' = "truncate"
     \/ /\ file # "absent"
        /\ mpc' = "check"
        /\ UNCHANGED file
  /\ UNCHANGED <<consumed, producer_buffer, consumer_buffer, producer, data,
                 fetched, last, published>>

\* ftruncate(fd, FILESIZE)
Truncate ==
  /\ mpc = "truncate"
  /\ file' = "sized"
  /\ mpc' = "memset"
  /\ UNCHANGED <<consumed, producer_buffer, consumer_buffer, producer, data,
                 fetched, last, published>>

\* memset(data_ptr, 0, FILESIZE)
Memset ==
  /\ mpc = "memset"
  /\ consumed' = FALSE
  /\ producer_buffer' = Zero
  /\ consumer_buffer' = Zero
  /\ mpc' = "check"
  /\ UNCHANGED <<file, producer, data, fetched, last, published>>

\* if (!data_ptr->consumed); otherwise the poll fails and nothing is dumped.
CheckNew ==
  /\ mpc = "check"
  /\ mpc' = IF consumed THEN "sleep" ELSE "copy"
  /\ fetched' = {}
  /\ UNCHANGED <<shared, producer, data, last, published>>

\* One slot of the memcpy from consumer_buffer to the monitor's memory.
FetchSlot(b) ==
  /\ mpc = "copy"
  /\ b \notin fetched
  /\ data' = [data EXCEPT ![b] = consumer_buffer[b]]
  /\ fetched' = fetched \cup {b}
  /\ UNCHANGED <<shared, producer, mpc, last, published>>

\* Mutant of Consume: the flag is not set, the buffer is never given back.
ConsumeKeeps ==
  /\ mpc = "copy"
  /\ fetched = Bugs
  /\ last' = data
  /\ mpc' = "sleep"
  /\ UNCHANGED <<shared, producer, data, fetched, published>>

\* consumed = true gives the buffer back; main dumps data.
Consume ==
  /\ mpc = "copy"
  /\ fetched = Bugs
  /\ consumed' = TRUE
  /\ last' = data
  /\ mpc' = "sleep"
  /\ UNCHANGED <<file, producer_buffer, consumer_buffer, producer, data,
                 fetched, published>>

----------------------------------------------------------------------------
Target ==
  \/ Spawn
  \/ Exit
  \/ \E b \in Bugs, c \in {0, 1} : MagmaLog(b, c)
  \/ Reached
  \/ Triggered
  \/ CheckConsumed
  \/ \E b \in Bugs : CopySlot(b)
  \/ Publish
  \/ Fault

Poll ==
  \/ Open
  \/ Truncate
  \/ Memset
  \/ CheckNew
  \/ \E b \in Bugs : FetchSlot(b)
  \/ Consume

Next == Target \/ Poll

\* The monitor loop of run.sh polls for as long as the campaign lasts; the
\* target is free to stop anywhere.
Spec == Init /\ [][Next]_vars /\ WF_vars(Poll)

----------------------------------------------------------------------------
(* Properties.                                                             *)

\* A poll never returns a torn snapshot: once fetch_file has copied every
\* slot, its data is producer_buffer as it stood at one instant, whatever
\* the target did meanwhile and wherever earlier targets were killed
\* (magma_log's copy-then-clear against fetch_file's copy-then-set).
SnapshotConsistent ==
  mpc = "copy" /\ fetched = Bugs => data = published

\* From one successful poll to the next no counter goes down, across targets
\* that are killed half way through magma_log and across the monitor's own
\* creation of the file.
PollsMonotone ==
  [][\A b \in Bugs : /\ last[b].reached   <= last'[b].reached
                     /\ last[b].triggered <= last'[b].triggered]_vars

\* magma_log raises reached before triggered and publishes between calls, so
\* no poll shows a bug triggered more often than it was reached.  This needs
\* the file to be set up before the first target runs (see Early).
TriggeredLeReached ==
  \A b \in Bugs : last[b].triggered <= last[b].reached
============================================================================
