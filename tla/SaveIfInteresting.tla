------------------------- MODULE SaveIfInteresting -------------------------
(***************************************************************************)
(* What afl-fuzz keeps of the inputs it runs: save_if_interesting and the  *)
(* coverage maps it decides with (afl-fuzz-bitmap.c, coverage-64.h).       *)
(*                                                                         *)
(* A run leaves a hit count per byte of the trace map.  The counts are     *)
(* replaced by one of eight classes, a bit each, and compared with a       *)
(* virgin map, where a bit is set until some run has shown it.  There are  *)
(* three virgin maps: of the runs that end as expected, which decides what *)
(* is queued, and, over traces simplified to "hit" and "not hit", of hangs *)
(* and of crashes.                                                         *)
(*                                                                         *)
(* The corpus itself (add_to_queue, the counters, scoring) is in FuzzQueue *)
(* and the path frequencies n_fuzz, which only feed the power schedules,   *)
(* are left out.                                                           *)
(***************************************************************************)
EXTENDS Naturals, Sequences, FiniteSets

CONSTANTS
  Bytes,       \* bytes of the trace map
  Traces,      \* the traces that runs may leave: [Bytes -> 0 .. 255]
  Options,     \* the ways to run afl-fuzz, see below
  CalFaults,   \* may a run of a calibration end otherwise than the find's?
  KEEP_UNIQUE_HANG, KEEP_UNIQUE_CRASH, TMOUT_LIMIT,
  MaxExecs,    \* bound on the inputs that are run
  MaxCal,      \* bound on the runs of a calibration
  MaxQueue     \* bound on the entries

ASSUME SaveAssumption ==
  /\ Traces \subseteq [Bytes -> 0 .. 255]
  /\ CalFaults \in BOOLEAN
  /\ {KEEP_UNIQUE_HANG, KEEP_UNIQUE_CRASH, TMOUT_LIMIT, MaxExecs, MaxCal, MaxQueue} \subseteq Nat

Fault == {"none", "tmout", "crash", "error"}

VARIABLES
  opt,           \* crash_mode: the expected result; fast: a schedule in FAST .. RARE;
                 \* keep, ignore: AFL_KEEP_TIMEOUTS, AFL_IGNORE_TIMEOUTS;
                 \* generous: exec_tmout is at least hang_tmout
  pc,
  cur,           \* the input: what it does within exec_tmout and within hang_tmout,
                 \* while it matters
  trace_bits,
  classified, new_bits, keeping,    \* locals of save_if_interesting
  virgin_bits, virgin_tmout, virgin_crash,
  var_bytes,
  queue,         \* per entry: bits its runs have shown, and was one of them new?
  saved_hangs, saved_crashes,       \* the bits of the saved files, one set each
  queued_discovered,
  execs, stop_soon,
  subseq_tmouts, skip_requested,    \* why common_fuzz_stuff gives an entry up
  \* History, of the runs that save_if_interesting gets to see: the bits of those
  \* with the expected result, the simplified bits of those that crash while there
  \* is room for crashes, and of inputs that hang.
  shown, crashed, hung

locals == <<classified, new_bits, keeping>>
virgin == <<virgin_bits, virgin_tmout, virgin_crash, var_bytes>>
saved  == <<queue, saved_hangs, saved_crashes, queued_discovered>>
signal == <<stop_soon, skip_requested>>
seen   == <<shown, crashed, hung>>
vars   == <<opt, pc, cur, trace_bits, locals, virgin, saved, execs, signal,
            subseq_tmouts, seen>>

Run    == [fault : Fault, trace : Traces]
Bits   == Bytes \X (0 .. 7)
All    == [b \in Bytes |-> 0 .. 7]

Init ==
  /\ opt \in Options
  /\ pc = "idle"
  /\ cur = <<>>
  /\ trace_bits = [b \in Bytes |-> 0]
  /\ classified = FALSE /\ new_bits = 0 /\ keeping = 0
  /\ virgin_bits = All /\ virgin_tmout = All /\ virgin_crash = All
  /\ var_bytes = {}
  /\ queue = <<>> /\ saved_hangs = <<>> /\ saved_crashes = <<>>
  /\ queued_discovered = 0
  /\ execs = 0 /\ stop_soon = FALSE
  /\ subseq_tmouts = 0 /\ skip_requested = FALSE
  /\ shown = {} /\ crashed = {} /\ hung = {}

------------------------------------------------------------------------------
(* Traces and virgin maps *)

bits == [v \in 0 .. 255 |-> {k \in 0 .. 7 : (v \div 2^k) % 2 = 1}]

(* The set of <<byte, bit>> that a trace shows.                            *)
Of(t) == {x \in Bits : x[2] \in bits[t[x[1]]]}

count_class_lookup8(c) ==
  CASE c \in 0 .. 2     -> c
    [] c = 3            -> 4
    [] c \in 4 .. 7     -> 8
    [] c \in 8 .. 15    -> 16
    [] c \in 16 .. 31   -> 32
    [] c \in 32 .. 127  -> 64
    [] c \in 128 .. 255 -> 128

simplify_lookup(c) == IF c = 0 THEN 1 ELSE 128

classify_counts(t) == [b \in Bytes |-> count_class_lookup8(t[b])]
simplify_trace(t)  == [b \in Bytes |-> simplify_lookup(t[b])]

(* discover_word over all words: what has_new_bits returns ...             *)
Discovered(t, vir) ==
  IF \E b \in Bytes : t[b] # 0 /\ vir[b] = 0 .. 7 THEN 2
  ELSE IF \E b \in Bytes : bits[t[b]] \intersect vir[b] # {} THEN 1
  ELSE 0

(* ... and the virgin map it leaves.                                       *)
Undiscovered(t, vir) == [b \in Bytes |-> vir[b] \ bits[t[b]]]

Cleared(vir) == {x \in Bits : x[2] \notin vir[x[1]]}

(* skim: would the classified trace show anything new?                     *)
skim(t, vir) ==
  \E b \in Bytes : t[b] # 0 /\ bits[count_class_lookup8(t[b])] \intersect vir[b] # {}

------------------------------------------------------------------------------
TooMany(files, limit) == Len(files) >= limit

Return ==
  pc' = "idle" /\ cur' = <<>> /\ queued_discovered' = queued_discovered + keeping

Goto(l) == pc' = l /\ UNCHANGED <<cur, queued_discovered>>

(* The first half, up to the label save_to_queue, for a run with the       *)
(* expected result.  With a schedule of the FAST family the trace is       *)
(* classified already; otherwise has_new_bits_unclassified does it when    *)
(* skim has seen something.                                                *)
Judge(t, done) ==
  LET c == classify_counts(t)
      n == IF done \/ skim(t, virgin_bits) THEN Discovered(c, virgin_bits) ELSE 0
  IN  /\ new_bits' = n
      /\ classified' = (done \/ n > 0)
      /\ trace_bits' = IF done \/ n > 0 THEN c ELSE t
      /\ virgin_bits' = IF n > 0 THEN Undiscovered(c, virgin_bits) ELSE virgin_bits
      /\ IF n > 0 THEN pc' = "queue" /\ UNCHANGED cur ELSE pc' = "idle" /\ cur' = <<>>

Expected(fault) == fault = opt.crash_mode

Room == ~TooMany(saved_crashes, KEEP_UNIQUE_CRASH)

(* fuzz_one begins with another entry.                                     *)
FuzzOne ==
  /\ pc \in {"idle", "abandon"} /\ ~stop_soon
  /\ pc' = "idle"
  /\ subseq_tmouts' = 0
  /\ UNCHANGED <<opt, cur, trace_bits, locals, virgin, saved, execs, signal, seen>>

(* common_fuzz_stuff runs an input; r is what it does within exec_tmout, l *)
(* what it would do within hang_tmout.                                     *)
Exec(r, l) ==
  /\ pc = "idle"
  /\ r.fault # "tmout" => l = r
  /\ execs < MaxExecs /\ ~stop_soon
  /\ execs' = execs + 1
  /\ cur' = [short |-> r, long |-> l]
  /\ trace_bits' = r.trace
  /\ pc' = "ran"
  /\ UNCHANGED <<opt, locals, virgin, saved, signal, subseq_tmouts, seen>>

TooManyTmouts == cur.short.fault = "tmout" /\ subseq_tmouts > TMOUT_LIMIT
Abandoned == stop_soon \/ TooManyTmouts \/ skip_requested

(* Then it gives the entry up without a look at the run: the user stops or *)
(* skips, or too many runs have timed out one after the other ...          *)
Abandon ==
  /\ pc = "ran" /\ Abandoned
  /\ pc' = "abandon" /\ cur' = <<>>
  /\ subseq_tmouts' = IF stop_soon THEN subseq_tmouts
                      ELSE IF cur.short.fault = "tmout" THEN subseq_tmouts + 1 ELSE 0
  /\ skip_requested' = (skip_requested /\ (stop_soon \/ TooManyTmouts))
  /\ UNCHANGED <<opt, trace_bits, locals, virgin, saved, execs, stop_soon, seen>>

(* ... or has save_if_interesting judge it.                                *)
SaveIf ==
  LET r == cur.short  l == cur.long
  IN  /\ pc = "ran" /\ ~Abandoned
      /\ subseq_tmouts' = IF r.fault = "tmout" THEN subseq_tmouts + 1 ELSE 0
      /\ keeping' = 0
      /\ IF r.fault = "tmout" /\ opt.ignore
         THEN /\ pc' = "idle" /\ cur' = <<>>
              /\ UNCHANGED <<trace_bits, classified, new_bits, virgin_bits, seen>>
         ELSE /\ shown' = shown \union (IF r.fault = opt.crash_mode THEN Of(classify_counts(r.trace)) ELSE {})
              /\ crashed' = crashed \union (IF r.fault = "crash" /\ Room THEN Of(simplify_trace(r.trace)) ELSE {})
              /\ hung' = hung \union (IF r.fault = "tmout" /\ (opt.generous \/ l.fault = "tmout")
                                      THEN Of(simplify_trace(r.trace)) ELSE {})
              /\ IF Expected(r.fault) THEN Judge(r.trace, opt.fast)
                 ELSE /\ trace_bits' = IF opt.fast THEN classify_counts(r.trace) ELSE r.trace
                      /\ classified' = opt.fast
                      /\ new_bits' = 0
                      /\ pc' = "switch"
                      /\ UNCHANGED <<cur, virgin_bits>>
      /\ UNCHANGED <<opt, virgin_tmout, virgin_crash, var_bytes, saved, execs, signal>>

(* A byte that is hit counts as discovered whatever its count.             *)
CalibratedWhole(vir, traces) ==
  [b \in Bytes |-> IF \E i \in DOMAIN traces : traces[i][b] # 0 THEN {} ELSE vir[b]]

(* What calibrate_case does to the maps: its completed runs are classified *)
(* and checked for new bits.  Bytes that differ from the first trace are   *)
(* variable and count as fully discovered.  The first trace is the find's  *)
(* if its checksum was stored, else that of the first run.                 *)
Calibrated(vir, traces) ==
  [b \in Bytes |-> vir[b] \ UNION {bits[traces[i][b]] : i \in DOMAIN traces}]

first_trace(traces) ==
  IF (~opt.fast /\ new_bits > 0) \/ traces = <<>> THEN trace_bits ELSE traces[1]

Variable(traces) ==
  {b \in Bytes : \E i \in DOMAIN traces : traces[i][b] # first_trace(traces)[b]}

(* From the label save_to_queue to the end of the branch.  The calibration *)
(* makes the runs in raw; if it is aborted there is one more, end, which   *)
(* leaves a raw trace.  save_if_interesting looks at its result only to    *)
(* exit on an error.                                                       *)
SaveToQueue(raw, abort, end) ==
  LET traces == [i \in DOMAIN raw |-> classify_counts(raw[i])]
      of     == UNION {Of(traces[i]) : i \in DOMAIN traces}
      cal    == Calibrated(virgin_bits, traces)
      found  == IF new_bits > 0 THEN Of(trace_bits) ELSE {}
  IN  /\ pc = "queue" /\ Len(queue) < MaxQueue
      /\ queue' = Append(queue, [bits |-> found \union of,
                                 new  |-> new_bits > 0 \/ cal # virgin_bits])
      /\ var_bytes' = var_bytes \union Variable(traces)
      /\ virgin_bits' = [b \in Bytes |-> IF b \in var_bytes' THEN {} ELSE cal[b]]
      /\ shown' = shown \union of
      /\ crashed' = crashed \union (IF abort /\ ~stop_soon /\ end.fault = "crash" /\ Room THEN Of(simplify_trace(end.trace)) ELSE {})
      /\ trace_bits' = IF abort THEN end.trace
                       ELSE IF traces = <<>> THEN trace_bits ELSE traces[Len(traces)]
      /\ keeping' = 1
      /\ pc' = IF abort /\ end.fault = "error" THEN "exit" ELSE "switch"
      /\ UNCHANGED <<opt, cur, classified, new_bits, virgin_tmout, virgin_crash,
                     saved_hangs, saved_crashes, queued_discovered, execs, signal, subseq_tmouts, hung>>

Calibration ==
  \E n \in 1 .. MaxCal : \E raw \in [1 .. n -> Traces] :
    \/ ~stop_soon /\ SaveToQueue(raw, FALSE, <<>>)
    \/ CalFaults /\ ~stop_soon
       /\ \E end \in Run : end.fault # opt.crash_mode /\ SaveToQueue(Tail(raw), TRUE, end)
    \/ stop_soon /\ \E end \in Run : SaveToQueue(<<>>, TRUE, end)

(* switch (fault): neither a timeout nor a crash.                          *)
Default ==
  /\ pc = "switch"
  /\ cur.short.fault \in {"none", "error"}
  /\ IF cur.short.fault = "error" THEN Goto("exit") ELSE Return
  /\ UNCHANGED <<opt, trace_bits, locals, virgin, queue, saved_hangs, saved_crashes, execs, signal, subseq_tmouts, seen>>

(* case FSRV_RUN_TMOUT, up to the run with the longer timeout.  The trace  *)
(* is simplified in place (whether it was classified makes no difference   *)
(* to that).                                                               *)
Tmout ==
  /\ pc = "switch"
  /\ cur.short.fault = "tmout"
  /\ IF TooMany(saved_hangs, KEEP_UNIQUE_HANG)
     THEN Return /\ UNCHANGED <<trace_bits, classified, virgin_tmout>>
     ELSE LET s == simplify_trace(trace_bits)
          IN  /\ trace_bits' = s
              /\ classified' = TRUE
              /\ virgin_tmout' = Undiscovered(s, virgin_tmout)
              /\ IF Discovered(s, virgin_tmout) = 0 THEN Return
                 ELSE Goto(IF opt.generous THEN "hang" ELSE "rerun")
  /\ UNCHANGED <<opt, new_bits, keeping, virgin_bits, virgin_crash, var_bytes,
                 queue, saved_hangs, saved_crashes, execs, signal, subseq_tmouts, seen>>

(* The corner case is not handled. *)
KeepAsCrashNot(f) == FALSE

KeepAsCrash(f) == ~stop_soon /\ f = "crash"

(* The run with the longer timeout.                                        *)
Rerun ==
  LET f == cur.long.fault
  IN  /\ pc = "rerun"
      /\ trace_bits' = classify_counts(cur.long.trace)
      /\ crashed' = crashed \union (IF ~stop_soon /\ f = "crash" /\ Room THEN Of(simplify_trace(cur.long.trace)) ELSE {})
      /\ \/ KeepAsCrash(f) /\ Goto("crash")
         \/ ~stop_soon /\ f = "tmout" /\ Goto("hang")
         \/ ~KeepAsCrash(f) /\ (stop_soon \/ f # "tmout")
            /\ IF opt.keep THEN Goto("queue") ELSE Return
      /\ UNCHANGED <<opt, locals, virgin, queue, saved_hangs, saved_crashes, execs, signal, subseq_tmouts, shown, hung>>

(* The hang is written to hangs/.                                          *)
Hang ==
  /\ pc = "hang"
  /\ saved_hangs' = Append(saved_hangs, Of(simplify_trace(cur.short.trace)))
  /\ Return
  /\ UNCHANGED <<opt, trace_bits, locals, virgin, queue, saved_crashes, execs, signal, subseq_tmouts, seen>>

KeepsCrash(s) == Discovered(s, virgin_crash) > 0

(* case FSRV_RUN_CRASH and the label keep_as_crash.                        *)
Crash ==
  LET s == simplify_trace(trace_bits)
  IN  /\ pc = "crash" \/ (pc = "switch" /\ cur.short.fault = "crash")
      /\ IF TooMany(saved_crashes, KEEP_UNIQUE_CRASH)
         THEN UNCHANGED <<trace_bits, classified, virgin_crash, saved_crashes>>
         ELSE /\ trace_bits' = s
              /\ classified' = TRUE
              /\ virgin_crash' = Undiscovered(s, virgin_crash)
              /\ saved_crashes' = IF KeepsCrash(s) THEN Append(saved_crashes, Of(s)) ELSE saved_crashes
      /\ Return
      /\ UNCHANGED <<opt, new_bits, keeping, virgin_bits, virgin_tmout, var_bytes,
                     queue, saved_hangs, execs, signal, subseq_tmouts, seen>>

Step ==
  \/ FuzzOne
  \/ Abandon
  \/ SaveIf
  \/ Calibration
  \/ Default
  \/ Tmout
  \/ Rerun
  \/ Hang
  \/ Crash

(* handle_stop_sig, at any time.  The main loop runs nothing any more.     *)
Stop ==
  /\ ~stop_soon
  /\ stop_soon' = TRUE
  /\ UNCHANGED <<opt, pc, cur, trace_bits, locals, virgin, saved, execs, skip_requested,
                 subseq_tmouts, seen>>

(* handle_skipreq, at any time: "Users can hit us with SIGUSR1 to request  *)
(* the current input to be abandoned."                                     *)
SkipRequest ==
  /\ ~skip_requested
  /\ skip_requested' = TRUE
  /\ UNCHANGED <<opt, pc, cur, trace_bits, locals, virgin, saved, execs, stop_soon,
                 subseq_tmouts, seen>>

Next == (\E r, l \in Run : Exec(r, l)) \/ Step \/ Stop \/ SkipRequest

Spec == Init /\ [][Next]_vars

------------------------------------------------------------------------------
TypeOK ==
  /\ opt \in Options
  /\ pc \in {"idle", "ran", "abandon", "queue", "switch", "rerun", "hang", "crash", "exit"}
  /\ trace_bits \in [Bytes -> 0 .. 255]
  /\ classified \in BOOLEAN /\ new_bits \in 0 .. 2 /\ keeping \in {0, 1}
  /\ {virgin_bits, virgin_tmout, virgin_crash} \subseteq [Bytes -> SUBSET (0 .. 7)]
  /\ var_bytes \subseteq Bytes
  /\ \A i \in DOMAIN queue : queue[i] \in [bits : SUBSET Bits, new : BOOLEAN]
  /\ Len(saved_hangs) <= KEEP_UNIQUE_HANG /\ Len(saved_crashes) <= KEEP_UNIQUE_CRASH

(* No coverage is lost: whatever is marked as discovered was shown by a    *)
(* run of an input that is in the queue, unless the byte is variable.  A   *)
(* bit cleared without a queued input that has it would never be reached   *)
(* again on purpose.  And what was seen once is not taken for new again:   *)
(* after a run with the expected result all bits it showed are discovered. *)
NothingForgotten ==
  /\ pc # "queue" =>
       \A x \in Cleared(virgin_bits) :
         x[1] \in var_bytes \/ \E i \in DOMAIN queue : x \in queue[i].bits
  /\ shown \subseteq Cleared(virgin_bits)

(* A crash's bits are only taken out of the map of crashes when the crash  *)
(* is saved; so each later crash with a path of its own is saved, too.     *)
CrashesWitnessed ==
  Cleared(virgin_crash) = UNION {saved_crashes[i] : i \in DOMAIN saved_crashes}

(* The path of every crash that save_if_interesting was given while there  *)
(* was room is among those of the saved ones; see MCSaveIfInteresting.     *)
EveryCrash ==
  pc = "idle" /\ opt.crash_mode # "crash" =>
    crashed \subseteq UNION {saved_crashes[i] : i \in DOMAIN saved_crashes}

-----------------------------------------------------------------------------
\* What the repository's words promise and the code does not keep; README.md
\* says in which situation.

(* A hang is saved if its path has a "state transition not seen in         *)
(* previously-recorded faults".                                            *)
HangsKept ==
  pc = "idle" /\ ~stop_soon =>
    \/ Len(saved_hangs) = KEEP_UNIQUE_HANG
    \/ hung \subseteq UNION {saved_hangs[i] : i \in DOMAIN saved_hangs}

(* An input is queued only if it reaches new coverage, the slow ones of    *)
(* AFL_KEEP_TIMEOUTS included ("will keep longer running inputs if they    *)
(* reach new coverage").                                                   *)
QueuedIsNew == ~stop_soon => \A i \in DOMAIN queue : queue[i].new

(* corpus_found, "number of entries discovered through local fuzzing", is  *)
(* the number of entries that save_if_interesting queued.                  *)
FoundIsQueued == pc = "idle" => queued_discovered = Len(queue)

==============================================================================
