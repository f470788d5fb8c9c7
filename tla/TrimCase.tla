------------------------------ MODULE TrimCase ------------------------------
(***************************************************************************)
(* trim_case (AFLplusplus/src/afl-fuzz-run.c): chunks of the test case that *)
(* do not change the trace are cut out, the chunks getting smaller, and     *)
(* the file in the queue is written again.  The trace of a test case is a  *)
(* function of it (a variable one is beyond what trimming promises): the    *)
(* bytes that matter, in their order.                                       *)
(***************************************************************************)
EXTENDS Naturals, Sequences, FiniteSetsExt

CONSTANTS
  Cases,           \* the test cases that may be trimmed
  Matter,          \* the bytes that matter to the target
  TRIM_MIN_BYTES, TRIM_START_STEPS, TRIM_END_STEPS,
  MinLen,          \* a shorter case is left alone
  ShortWrites      \* whether write() may write less than it was asked to

ASSUME TrimAssumption ==
  /\ {TRIM_MIN_BYTES, TRIM_START_STEPS, TRIM_END_STEPS, MinLen} \subseteq Nat \ {0}
  /\ TRIM_START_STEPS <= TRIM_END_STEPS
  /\ TRIM_MIN_BYTES < MinLen /\ ShortWrites \in BOOLEAN

VARIABLES
  pc,              \* "trim", "write", "done" or "aborted"
  no_unlink,       \* option -N
  in_buf,          \* its first q->len bytes
  disk,            \* the file in the queue
  exec_cksum,      \* q->exec_cksum, of calibrate_case: a trace for its checksum
  len_p2, remove_len, remove_pos,
  needs_write, clean_trace,
  written,         \* bytes written so far with -N
  writes,          \* and in how many calls of write()
  scored           \* the trace update_bitmap_score was last given

vars == <<pc, no_unlink, in_buf, disk, exec_cksum, len_p2, remove_len, remove_pos,
          needs_write, clean_trace, written, writes, scored>>

len == Len(in_buf)

Trace(buf) == SelectSeq(buf, LAMBDA b : b \in Matter)

next_pow2(n) == Min({2^k : k \in {k \in 0 .. n : 2^k >= n}})

\* The first chunk length, and the one below which the loop ends
First(p2) == Max({p2 \div TRIM_START_STEPS, TRIM_MIN_BYTES})

Final(p2) == Max({p2 \div TRIM_END_STEPS, TRIM_MIN_BYTES})

\* Where a round of chunks of n bytes starts
Start(n) == n

Init ==
  /\ in_buf \in Cases /\ no_unlink \in BOOLEAN
  /\ disk = in_buf
  /\ exec_cksum = Trace(in_buf) /\ scored = Trace(in_buf)
  /\ len_p2 = next_pow2(len)
  /\ remove_len = First(len_p2) /\ remove_pos = Start(remove_len)
  /\ needs_write = FALSE /\ clean_trace = <<>> /\ written = 0 /\ writes = 0
  /\ pc = IF len < MinLen THEN "done" ELSE "trim"

trim_avail == Min({remove_len, len - remove_pos})

\* write_with_gap: what the target is given
WithGap(pos, n) == SubSeq(in_buf, 1, pos) \o SubSeq(in_buf, pos + n + 1, len)

\* in_buf after the tail is moved down over the chunk and q->len is reduced
MovedAfterCut(pos, n) ==
  LET move_tail == IF len - n > pos + n THEN len - n - pos - n ELSE 0
  IN [i \in 1 .. len - n |-> IF i > pos /\ i <= pos + move_tail THEN in_buf[i + n]
                             ELSE in_buf[i]]
Moved(pos, n) ==
  [i \in 1 .. len - n |-> IF i > pos THEN in_buf[i + n] ELSE in_buf[i]]

NextPos(cut) == IF cut THEN remove_pos ELSE remove_pos + remove_len

\* Run the case without the chunk, and cut it out if the trace is the same.
TryChunk ==
  /\ pc = "trim" /\ remove_pos < len
  /\ LET trace == Trace(WithGap(remove_pos, trim_avail))
         cut == trace = exec_cksum
     IN /\ in_buf' = IF cut THEN Moved(remove_pos, trim_avail) ELSE in_buf
        /\ len_p2' = IF cut THEN next_pow2(len - trim_avail) ELSE len_p2
        /\ needs_write' = (needs_write \/ cut)
        /\ clean_trace' = IF cut /\ ~needs_write THEN trace ELSE clean_trace
        /\ remove_pos' = NextPos(cut)
  /\ UNCHANGED <<pc, no_unlink, disk, exec_cksum, remove_len, written, writes, scored>>

\* The file is unlinked and created, or opened with O_TRUNC.
Opened == <<>>

\* The end of a round: half the chunk, or out of the loop and to the file.
NextRound ==
  /\ pc = "trim" /\ remove_pos >= len
  /\ IF remove_len \div 2 >= Final(len_p2)
     THEN /\ remove_len' = remove_len \div 2 /\ remove_pos' = Start(remove_len')
          /\ UNCHANGED <<pc, disk>>
     ELSE /\ pc' = IF needs_write THEN "write" ELSE "done"
          /\ disk' = IF needs_write THEN Opened ELSE disk
          /\ UNCHANGED <<remove_len, remove_pos>>
  /\ UNCHANGED <<no_unlink, in_buf, exec_cksum, len_p2, needs_write, clean_trace,
                 written, writes, scored>>

\* The first n bytes of in_buf are written at the file's offset.  Without -N,
\* ck_write ends the fuzzer unless everything is written; with -N a loop goes on.
Write ==
  /\ pc = "write" /\ written < len
  /\ \E n \in 1 .. len - written :
       /\ n < len - written => ShortWrites /\ no_unlink
       /\ disk' = SubSeq(disk, 1, written) \o SubSeq(in_buf, 1, n)
                    \o SubSeq(disk, written + n + 1, Len(disk))
       /\ written' = written + n /\ writes' = writes + 1
  /\ UNCHANGED <<pc, no_unlink, in_buf, exec_cksum, len_p2, remove_len, remove_pos,
                 needs_write, clean_trace, scored>>

\* update_bitmap_score, on clean_trace
Score ==
  /\ pc = "write" /\ written = len
  /\ pc' = "done" /\ scored' = clean_trace
  /\ UNCHANGED <<no_unlink, in_buf, disk, exec_cksum, len_p2, remove_len, remove_pos,
                 needs_write, clean_trace, written, writes>>

\* The user stops the fuzzer, or the target does not run: the fuzzer ends, with
\* in_buf cut and the file as it was.
Abort ==
  /\ pc = "trim" /\ remove_pos < len
  /\ pc' = "aborted"
  /\ UNCHANGED <<no_unlink, in_buf, disk, exec_cksum, len_p2, remove_len, remove_pos,
                 needs_write, clean_trace, written, writes, scored>>

Next == TryChunk \/ NextRound \/ Write \/ Score \/ Abort

Spec == Init /\ [][Next]_vars

-----------------------------------------------------------------------------
(* Once trim_case has returned, the file in the queue has the length of the    *)
(* test case in memory, and is that test case, whether it was cut or not,      *)
(* unless -N is given and it took write() several calls: each of them writes   *)
(* from the start of in_buf (lines 1011-1043).                                 *)
FileIsCase == pc = "done" => Len(disk) = len /\ (writes > 1 \/ disk = in_buf)

(* Whatever is cut, in whatever order, the test case keeps the trace it was    *)
(* calibrated with; update_bitmap_score sees that trace, though clean_trace    *)
(* was saved at the first cut only (lines 974-1003 and 1047-1048).             *)
TraceKept == Trace(in_buf) = exec_cksum /\ scored = exec_cksum

(* No chunk of the last round can be cut any more when trimming is over: a cut *)
(* leaves remove_pos where the next bytes have moved to (lines 951-1007).      *)
LastChunksNeeded ==
  pc = "done" /\ (needs_write \/ len >= MinLen) =>
    \A k \in 1 .. len : k * remove_len < len =>
      Trace(WithGap(k * remove_len, Min({remove_len, len - k * remove_len}))) # exec_cksum

(* A round starts after the first chunk (line 942), so the head of the file    *)
(* stays and a case is never trimmed to nothing, which no stage could mutate.  *)
HeadKept ==
  /\ len >= TRIM_MIN_BYTES
  /\ \A i \in 1 .. TRIM_MIN_BYTES : pc = "trim" => in_buf[i] = disk[i]

(* All of that.                                                                *)
WellTrimmed == FileIsCase /\ TraceKept /\ LastChunksNeeded /\ HeadKept

-----------------------------------------------------------------------------
\* What the repository's words promise and the code does not keep; README.md
\* says in which situation.

(* "If we have made changes to in_buf, we also need to update the on-disk      *)
(* version of the test case" (line 1011): however it is written.               *)
FileIsUpdated == pc = "done" => disk = in_buf
=============================================================================
