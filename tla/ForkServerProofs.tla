------------------------- MODULE ForkServerProofs -------------------------
(* TLAPS proofs about ForkServer: its types, that client, server and child   *)
(* stay in step (the inductive invariant InStep), and what follows from it.  *)
EXTENDS ForkServer, TLAPS

USE OptionsAssumption, ModeAssumption, BoundsAssumption

(* What reading a word from a pipe and writing one do to it.                 *)
LEMMA HeadTail ==
  ASSUME NEW S, NEW s \in Seq(S), s # <<>>
  PROVE  /\ Head(s) \in S /\ Tail(s) \in Seq(S)
         /\ Len(s) \in Nat \ {0} /\ Len(Tail(s)) = Len(s) - 1
         /\ \A i \in 1 .. Len(s) - 1 : Tail(s)[i] = s[i + 1]
         /\ Head(s) = s[1]
  OBVIOUS

\* Writing to a pipe appends a word.
LEMMA Appended ==
  ASSUME NEW S, NEW s \in Seq(S), NEW x \in S
  PROVE  /\ Append(s, x) \in Seq(S)
         /\ Append(s, x) # <<>>
         /\ Len(s) \in Nat /\ Len(Append(s, x)) = Len(s) + 1
         /\ \A i \in 1 .. Len(s) : Append(s, x)[i] = s[i]
         /\ Append(s, x)[Len(s) + 1] = x
  OBVIOUS

\* A pipe is empty when nothing is left to read.
LEMMA Emptied ==
  ASSUME NEW S, NEW s \in Seq(S)
  PROVE  Len(s) \in Nat /\ (Len(s) = 0 <=> s = <<>>)
  OBVIOUS

\* The types hold at the start.
LEMMA TypeInit == Init => TypeOK
<1> SUFFICES ASSUME Init PROVE TypeOK
  OBVIOUS
<1>1. FlagsTypeOK
  BY Zenon DEF Init, FlagsTypeOK
<1>2. DataTypeOK
  BY SMTT(30) DEF Init, DataTypeOK, Option, Word, NoWord, Codes, Flags
<1> QED
  BY <1>1, <1>2 DEF TypeOK

\* Every step keeps the flags and the places of the processes typed.
LEMMA FlagsStep == FlagsTypeOK /\ [Next]_vars => FlagsTypeOK'
<1> SUFFICES ASSUME FlagsTypeOK, [Next]_vars PROVE FlagsTypeOK'
  OBVIOUS
<1> USE DEF FlagsTypeOK, client, server, pipes, child
<1>1. CASE Hello
  BY Zenon, <1>1 DEF Hello, Reply, Replies
<1>2. CASE ReadDictionary
  BY Zenon, <1>2 DEF ReadDictionary
<1>3. CASE NoHandshake
  BY Zenon, <1>3 DEF NoHandshake
<1>4. CASE WriteTestcase
  BY Zenon, <1>4 DEF WriteTestcase
<1>5. CASE Request
  BY Zenon, <1>5 DEF Request, Failed, Cleared
<1>6. CASE ReadPid
  BY Zenon, <1>6 DEF ReadPid, Failed
<1>7. CASE ReadStatus
  BY Zenon, <1>7 DEF ReadStatus, Failed
<1>8. CASE TimedOut
  BY Zenon, <1>8 DEF TimedOut
<1>9. CASE KillChild
  BY Zenon, <1>9 DEF KillChild, AfterKill, Alive
<1>10. CASE ReadLate
  BY Zenon, <1>10 DEF ReadLate, Failed
<1>11. CASE Report
  BY Zenon, <1>11 DEF Report, Result
<1>12. CASE Stop
  BY Zenon, <1>12 DEF Stop, SignalBoth, Alive
<1>13. CASE StopReturns
  BY Zenon, <1>13 DEF StopReturns
<1>14. CASE Restart
  BY Zenon, <1>14 DEF Restart, SignalBoth, Alive
<1>15. CASE Restarted
  BY Zenon, <1>15 DEF Restarted
<1>16. CASE PhoneHome
  BY Zenon, <1>16 DEF PhoneHome
<1>17. CASE ReadOptions
  BY Zenon, <1>17 DEF ReadOptions, IsRequest
<1>18. CASE ReadRequest
  BY Zenon, <1>18 DEF ReadRequest
<1>19. CASE ReapKilled
  BY Zenon, <1>19 DEF ReapKilled
<1>20. CASE Fork
  BY Zenon, <1>20 DEF Fork
<1>21. CASE Continue
  BY Zenon, <1>21 DEF Continue, CanContinue
<1>22. CASE WritePid
  BY Zenon, <1>22 DEF WritePid
<1>23. CASE WaitChild
  BY Zenon, <1>23 DEF WaitChild
<1>24. CASE AtExit
  BY Zenon, <1>24 DEF AtExit
<1>25. CASE ServerDies
  BY Zenon, <1>25 DEF ServerDies
<1>26. CASE ReadTestcase
  BY Zenon, <1>26 DEF ReadTestcase
<1>27. CASE Trace
  BY Zenon, <1>27 DEF Trace
<1>28. CASE LoopStop
  BY Zenon, <1>28 DEF LoopStop, CyclesLeft
<1>29. CASE End
  BY Zenon, <1>29 DEF End
<1>30. CASE Deliver
  BY Zenon, <1>30 DEF Deliver
<1>31. CASE UNCHANGED vars
  BY Zenon, <1>31 DEF vars
<1> QED
  BY <1>1, <1>2, <1>3, <1>4, <1>5, <1>6, <1>7, <1>8, <1>9, <1>10, <1>11, <1>12,
    <1>13, <1>14, <1>15, <1>16, <1>17, <1>18, <1>19, <1>20, <1>21, <1>22, <1>23,
    <1>24, <1>25, <1>26, <1>27, <1>28, <1>29, <1>30, <1>31 DEF Next, Client,
    Server, Child

\* The words that are sent are words.
LEMMA Words ==
  ASSUME DataTypeOK
  PROVE  /\ Reply \in SUBSET Flags
         /\ {"killed"} \in SUBSET Flags /\ {} \in SUBSET Flags
         /\ [val |-> "hello", run |-> 0] \in Word
         /\ [val |-> "dict", run |-> 0] \in Word
         /\ [val |-> "pid", run |-> forks] \in Word
         /\ [val |-> code, run |-> reading] \in Word
         /\ [val |-> "stopped", run |-> reading] \in Word
  BY DEF DataTypeOK, Reply, Flags, Word, Codes

\* So are the pipes after a word is read or written.
LEMMA PipeWords ==
  ASSUME DataTypeOK
  PROVE  /\ Append(ctl, Reply) \in Seq(SUBSET Flags)
         /\ Append(ctl, {"killed"}) \in Seq(SUBSET Flags)
         /\ Append(ctl, {}) \in Seq(SUBSET Flags)
         /\ ctl # <<>> => Head(ctl) \in SUBSET Flags /\ Tail(ctl) \in Seq(SUBSET Flags)
         /\ \A w \in Word : Append(st, w) \in Seq(Word)
         /\ st # <<>> => Head(st) \in Word /\ Tail(st) \in Seq(Word)
<1>1. ctl \in Seq(SUBSET Flags) /\ st \in Seq(Word)
  BY DEF DataTypeOK
<1> QED
  BY <1>1, Words, HeadTail, Appended

\* Every step keeps the numbers, the words and the pipes typed.
LEMMA DataStep == DataTypeOK /\ [Next]_vars => DataTypeOK'
<1> SUFFICES ASSUME DataTypeOK, [Next]_vars PROVE DataTypeOK'
  OBVIOUS
<1> USE DEF DataTypeOK, client, server, pipes, child
<1>1. CASE Hello
  <2>1. st' \in Seq(Word)
    BY ZenonT(30), <1>1, PipeWords DEF Hello
  <2>2. ctl' \in Seq(SUBSET Flags)
    BY ZenonT(30), <1>1, PipeWords, Words DEF Hello
  <2> QED
    BY ZenonT(30), <1>1, <2>1, <2>2 DEF Hello
<1>2. CASE ReadDictionary
  BY ZenonT(30), <1>2, PipeWords, Words DEF ReadDictionary
<1>3. CASE NoHandshake
  BY ZenonT(30), <1>3 DEF NoHandshake
<1>4. CASE WriteTestcase
  BY <1>4 DEF WriteTestcase
<1>5. CASE Request
  <2>1. ctl' \in Seq(SUBSET Flags)
    BY ZenonT(30), <1>5, PipeWords, Words DEF Request, Failed
  <2>2. answer' \in [run : Nat, res : {"OK", "CRASH", "TMOUT"}]
    BY <1>5 DEF Request, Failed
  <2> QED
    BY ZenonT(30), <1>5, <2>1, <2>2 DEF Request, Failed, Cleared
<1>6. CASE ReadPid
  <2>1. st' \in Seq(Word) /\ child_pid' \in Nat
    BY ZenonT(30), <1>6, PipeWords DEF ReadPid, Failed, Word
  <2>2. answer' \in [run : Nat, res : {"OK", "CRASH", "TMOUT"}]
    BY <1>6 DEF ReadPid, Failed
  <2> QED
    BY ZenonT(30), <1>6, <2>1, <2>2 DEF ReadPid, Failed
<1>7. CASE ReadStatus
  <2>1. st' \in Seq(Word) /\ child_status' \in Word
    BY ZenonT(30), <1>7, PipeWords DEF ReadStatus, Failed
  <2>2. answer' \in [run : Nat, res : {"OK", "CRASH", "TMOUT"}]
    BY <1>7 DEF ReadStatus, Failed
  <2> QED
    BY ZenonT(30), <1>7, <2>1, <2>2 DEF ReadStatus, Failed
<1>8. CASE TimedOut
  BY ZenonT(30), <1>8 DEF TimedOut
<1>9. CASE KillChild
  BY ZenonT(30), <1>9 DEF KillChild, AfterKill, Alive
<1>10. CASE ReadLate
  <2>1. st' \in Seq(Word) /\ child_status' \in Word
    BY ZenonT(30), <1>10, PipeWords DEF ReadLate, Failed
  <2>2. answer' \in [run : Nat, res : {"OK", "CRASH", "TMOUT"}]
    BY <1>10 DEF ReadLate, Failed
  <2> QED
    BY ZenonT(30), <1>10, <2>1, <2>2 DEF ReadLate, Failed
<1>11. CASE Report
  BY ZenonT(30), <1>11 DEF Report, Result, Word
<1>12. CASE Stop
  BY ZenonT(30), <1>12 DEF Stop, SignalBoth, Alive
<1>13. CASE StopReturns
  BY ZenonT(30), <1>13 DEF StopReturns
<1>14. CASE Restart
  BY <1>14 DEF Restart, SignalBoth, Alive
<1>15. CASE Restarted
  <2>1. opt' \in Option
    BY ZenonT(30), <1>15, Zenon DEF Restarted, Option
  <2> QED
    BY <1>15, <2>1 DEF Restarted
<1>16. CASE PhoneHome
  BY ZenonT(30), <1>16, PipeWords, Words DEF PhoneHome
<1>17. CASE ReadOptions
  <2>1. ctl' \in Seq(SUBSET Flags)
    BY ZenonT(30), <1>17, PipeWords DEF ReadOptions
  <2>2. st' \in Seq(Word)
    BY ZenonT(30), <1>17, PipeWords, Words DEF ReadOptions
  <2> QED
    BY ZenonT(30), <1>17, <2>1, <2>2 DEF ReadOptions
<1>18. CASE ReadRequest
  BY ZenonT(30), <1>18, PipeWords, Words DEF ReadRequest
<1>19. CASE ReapKilled
  BY ZenonT(30), <1>19 DEF ReapKilled
<1>20. CASE Fork
  BY <1>20 DEF Fork
<1>21. CASE Continue
  BY <1>21 DEF Continue, CanContinue
<1>22. CASE WritePid
  BY ZenonT(30), <1>22, PipeWords, Words DEF WritePid
<1>23. CASE WaitChild
  BY ZenonT(30), <1>23, PipeWords, Words DEF WaitChild
<1>24. CASE AtExit
  BY ZenonT(30), <1>24 DEF AtExit
<1>25. CASE ServerDies
  BY ZenonT(30), <1>25 DEF ServerDies
<1>26. CASE ReadTestcase
  BY ZenonT(30), <1>26 DEF ReadTestcase
<1>27. CASE Trace
  BY ZenonT(30), <1>27 DEF Trace
<1>28. CASE LoopStop
  BY <1>28 DEF LoopStop, CyclesLeft
<1>29. CASE End
  BY ZenonT(30), <1>29 DEF End
<1>30. CASE Deliver
  BY ZenonT(30), <1>30 DEF Deliver
<1>31. CASE UNCHANGED vars
  BY ZenonT(30), <1>31 DEF vars
<1> QED
  BY ZenonT(30), <1>1, <1>2, <1>3, <1>4, <1>5, <1>6, <1>7, <1>8, <1>9, <1>10, <1>11, <1>12,
    <1>13, <1>14, <1>15, <1>16, <1>17, <1>18, <1>19, <1>20, <1>21, <1>22, <1>23,
    <1>24, <1>25, <1>26, <1>27, <1>28, <1>29, <1>30, <1>31 DEF Next, Client,
    Server, Child

\* What a reader and a writer of a pipe need to know of it.
PipeLaw(s, S) ==
  /\ Len(s) \in Nat /\ (Len(s) = 0 <=> s = <<>>)
  /\ s # <<>> => /\ Head(s) = s[1]
                 /\ Len(Tail(s)) = Len(s) - 1
                 /\ Len(s) = 1 => Tail(s) = <<>>
                 /\ Len(s) = 2 => Tail(s)[1] = s[2]
  /\ \A w \in S : /\ Append(s, w) # <<>> /\ Len(Append(s, w)) = Len(s) + 1
                  /\ Append(s, w)[Len(s) + 1] = w
                  /\ Len(s) = 1 => Append(s, w)[1] = s[1]

\* A pipe of at most two words, as there are here, obeys it.
LEMMA Pipe ==
  ASSUME NEW S, NEW s \in Seq(S)
  PROVE  PipeLaw(s, S)
<1>1. Len(s) \in Nat /\ (Len(s) = 0 <=> s = <<>>)
  OBVIOUS
<1>2. ASSUME s # <<>>
      PROVE  /\ Head(s) = s[1] /\ Tail(s) \in Seq(S)
             /\ Len(Tail(s)) = Len(s) - 1
             /\ Len(s) = 2 => Tail(s)[1] = s[2]
  BY <1>2
<1>3. ASSUME s # <<>>, Len(s) = 1 PROVE Tail(s) = <<>>
  <2>1. Tail(s) \in Seq(S) /\ Len(Tail(s)) = 0
    BY <1>2, <1>3
  <2> QED
    BY Zenon, <2>1, Emptied
<1>4. ASSUME NEW w \in S
      PROVE  /\ Append(s, w) # <<>> /\ Len(Append(s, w)) = Len(s) + 1
             /\ Append(s, w)[Len(s) + 1] = w
             /\ Len(s) = 1 => Append(s, w)[1] = s[1]
  OBVIOUS
<1> QED
  BY <1>1, <1>2, <1>3, <1>4 DEF PipeLaw

\* Both pipes do.
\* Both pipes obey it.
LEMMA PipeFacts ==
  ASSUME DataTypeOK
  PROVE  PipeLaw(ctl, SUBSET Flags) /\ PipeLaw(st, Word)
  BY Pipe DEF DataTypeOK

\* The server is started before anything else happens.
LEMMA InStepInit ==
  ASSUME \A o \in Options : Denies(o) => o.shmem, Init
  PROVE  InStep
  BY DEF Init, InStep, Settled, Denies, InHandshake, At, Reply, BetweenRuns,
    NoRequest, Replies, InRun, OneRequest, Ends, Codes, ChildAtWork, Complete,
    ChildAtRest, Told

\* The handshake keeps client and server in step.
LEMMA HandshakeInStep ==
  ASSUME TypeOK, InStep, Hello \/ ReadDictionary \/ NoHandshake
  PROVE  InStep'
<1>1. CASE Hello
  <2>1. InRun'
    BY Zenon, <1>1 DEF Hello, InRun
  <2>2. Settled'
    BY Zenon, <1>1 DEF InStep, Hello, Settled
  <2>3. InHandshake'
    BY <1>1 DEF server, InStep, Hello, Reply, Replies, InHandshake, At
  <2>4. BetweenRuns'
    BY <1>1 DEF server, child, InStep, Hello, Reply, Replies, BetweenRuns,
      NoRequest, At, Settled, Denies, InHandshake
  <2>5. ChildAtWork'
    BY Zenon, <1>1 DEF server, child, InStep, Hello, ChildAtWork
  <2>6. ChildAtRest'
    BY Zenon, <1>1 DEF server, child, InStep, Hello, ChildAtRest, Told, InHandshake
  <2> QED
    BY Zenon, <2>1, <2>2, <2>3, <2>4, <2>5, <2>6 DEF InStep
<1>2. CASE ReadDictionary
  <2>1. InHandshake' /\ InRun'
    BY Zenon, <1>2 DEF ReadDictionary, InHandshake, InRun
  <2>2. Settled'
    BY Zenon, <1>2 DEF server, InStep, ReadDictionary, Settled
  <2>3. BetweenRuns'
    BY <1>2 DEF server, child, InStep, ReadDictionary, BetweenRuns, NoRequest, At,
      InHandshake
  <2>4. ChildAtWork'
    BY Zenon, <1>2 DEF server, child, InStep, ReadDictionary, ChildAtWork
  <2>5. ChildAtRest'
    BY Zenon, <1>2 DEF server, child, InStep, ReadDictionary, ChildAtRest, Told
  <2> QED
    BY Zenon, <2>1, <2>2, <2>3, <2>4, <2>5 DEF InStep
<1>3. CASE NoHandshake
  <2>1. InHandshake' /\ BetweenRuns' /\ InRun' /\ ChildAtWork'
    BY Zenon, <1>3 DEF NoHandshake, InHandshake, BetweenRuns, InRun, ChildAtWork
  <2>2. Settled'
    BY Zenon, <1>3 DEF InStep, NoHandshake, Settled
  <2>3. ChildAtRest'
    BY Zenon, <1>3 DEF server, child, InStep, NoHandshake, ChildAtRest
  <2> QED
    BY Zenon, <2>1, <2>2, <2>3 DEF InStep
<1> QED
  BY Zenon, <1>1, <1>2, <1>3

\* So does afl_fsrv_run_target: the request and the answers to it.
LEMMA RunningInStep ==
  ASSUME TypeOK, InStep, WriteTestcase \/ Request \/ ReadPid \/ ReadStatus
  PROVE  InStep'
<1>1. CASE WriteTestcase
  <2>1. InHandshake' /\ InRun'
    BY Zenon, <1>1 DEF WriteTestcase, InHandshake, InRun
  <2>2. Settled'
    BY <1>1 DEF TypeOK, DataTypeOK, server, InStep, WriteTestcase, Settled
  <2>3. BetweenRuns'
    BY Zenon, <1>1 DEF server, pipes, child, InStep, WriteTestcase, BetweenRuns,
      NoRequest, At, Replies, Reply
  <2>4. ChildAtWork'
    BY Zenon, <1>1 DEF server, InStep, WriteTestcase, ChildAtWork, BetweenRuns,
      NoRequest, At
  <2>5. ChildAtRest'
    BY <1>1 DEF TypeOK, DataTypeOK, server, pipes, child, InStep, WriteTestcase,
      ChildAtRest, Told
  <2> QED
    BY Zenon, <2>1, <2>2, <2>3, <2>4, <2>5 DEF InStep
<1>2. CASE Request
  <2>1. InHandshake' /\ BetweenRuns'
    BY Zenon, <1>2 DEF Request, Failed, InHandshake, server, BetweenRuns
  <2>2. Settled'
    BY Zenon, <1>2 DEF server, InStep, Request, Failed, Settled
  <2>3. InRun'
    <3> USE DEF TypeOK, FlagsTypeOK, DataTypeOK, client, server, pipes, child
    <3>1. ASSUME spc # "dead", cpc' = "pid",
                 ctl' = Append(ctl, IF last_run_timed_out THEN {"killed"} ELSE {})
          PROVE  InRun'
      <4>1. PICK r \in {{}, {"killed"}} : ctl' = Append(ctl, r)
        BY <3>1
      <4>2. NoRequest /\ st = <<>> /\ proc # "running"
        BY <1>2, <3>1 DEF InStep, BetweenRuns, Request
      <4>3. r \in SUBSET Flags
        BY DEF Flags
      <4>4. OneRequest(r)'
        BY <1>2, <4>1, <4>2, <4>3, PipeFacts DEF Request, PipeLaw, NoRequest,
          OneRequest, At, Reply, Replies
      <4> QED
        BY Zenon, <1>2, <3>1, <4>2, <4>4 DEF InRun, Request, Cleared
    <3>2. ASSUME Failed PROVE InRun'
      BY <3>2 DEF InRun, Failed
    <3> QED
      BY <1>2, <3>1, <3>2 DEF Request
  <2>4. ChildAtWork'
    BY Zenon, <1>2 DEF server, InStep, Request, ChildAtWork, BetweenRuns,
      NoRequest, At
  <2>5. ChildAtRest'
    <3> USE DEF TypeOK, FlagsTypeOK, DataTypeOK, client, server, pipes, child
    <3>1. ASSUME spc # "dead", ~stop_soon PROVE Told => last_run_timed_out
      <4>1. NoRequest
        BY <1>2, <3>1 DEF InStep, BetweenRuns, Request
      <4>2. {"killed"} # Reply
        BY Zenon DEF Reply
      <4>3. ctl = <<>> \/ (Len(ctl) = 1 /\ ctl[1] = Reply)
        BY <4>1 DEF NoRequest
      <4>4. spc # "serve"
        BY <4>1 DEF NoRequest, At
      <4> QED
        BY <4>2, <4>3, <4>4 DEF Told
    <3>2. ASSUME spc # "dead", last_run_timed_out PROVE Told'
      BY <1>2, <3>2, PipeFacts, Words DEF Request, Told, PipeLaw
    <3> QED
      BY <1>2, <3>1, <3>2 DEF InStep, ChildAtRest, Request
  <2> QED
    BY Zenon, <2>1, <2>2, <2>3, <2>4, <2>5 DEF InStep
<1>3. CASE ReadPid
  <2>1. InHandshake' /\ BetweenRuns'
    BY Zenon, <1>3 DEF ReadPid, Failed, InHandshake, server, BetweenRuns
  <2>2. Settled'
    BY <1>3 DEF server, InStep, ReadPid, Failed, Settled
  <2>3. InRun'
    <3> USE DEF TypeOK, FlagsTypeOK, DataTypeOK, client, server, pipes, child
    <3>1. ASSUME st # <<>>, cpc' = "status", st' = Tail(st) PROVE InRun'
      BY <1>3, <3>1, PipeFacts DEF InStep, InRun, OneRequest, ReadPid, At, Ends,
        PipeLaw
    <3>2. ASSUME Failed PROVE InRun'
      BY <3>2 DEF InRun, Failed
    <3> QED
      BY SMTT(30), <1>3, <3>1, <3>2 DEF ReadPid
  <2>4. ChildAtWork'
    BY Zenon, <1>3 DEF server, child, InStep, ReadPid, ChildAtWork, Complete
  <2>5. ChildAtRest'
    BY <1>3 DEF server, child, InStep, ReadPid, ChildAtRest, Told
  <2> QED
    BY Zenon, <2>1, <2>2, <2>3, <2>4, <2>5 DEF InStep
<1>4. CASE ReadStatus
  <2>1. InHandshake'
    BY Zenon, <1>4 DEF ReadStatus, Failed, InHandshake
  <2>2. Settled'
    BY Zenon, <1>4 DEF server, InStep, ReadStatus, Failed, Settled
  <2>3. BetweenRuns'
    BY ZenonT(30), <1>4 DEF server, InStep, ReadStatus, Failed, BetweenRuns, Settled
  <2>4. InRun'
    BY <1>4 DEF TypeOK, server, child, InStep, ReadStatus, Failed, InRun, At, Ends
  <2>5. ChildAtWork'
    BY Zenon, <1>4 DEF server, child, InStep, ReadStatus, ChildAtWork
  <2>6. ChildAtRest'
    BY <1>4 DEF server, child, InStep, ReadStatus, ChildAtRest, Told
  <2> QED
    BY Zenon, <2>1, <2>2, <2>3, <2>4, <2>5, <2>6 DEF InStep
<1> QED
  BY Zenon, <1>1, <1>2, <1>3, <1>4

\* So does what it does about a child that takes too long.
LEMMA TimeoutsInStep ==
  ASSUME TypeOK, InStep, TimedOut \/ KillChild \/ ReadLate \/ Report
  PROVE  InStep'
<1>1. CASE TimedOut
  <2>1. InHandshake' /\ BetweenRuns'
    BY Zenon, <1>1 DEF TimedOut, InHandshake, BetweenRuns
  <2>2. Settled'
    BY Zenon, <1>1 DEF InStep, TimedOut, Settled
  <2>3. InRun'
    BY <1>1 DEF server, pipes, InStep, TimedOut, InRun, At
  <2>4. ChildAtWork'
    BY Zenon, <1>1 DEF server, child, InStep, TimedOut, ChildAtWork, Complete
  <2>5. ChildAtRest'
    BY Zenon, <1>1 DEF server, pipes, child, InStep, TimedOut, ChildAtRest, Told
  <2> QED
    BY Zenon, <2>1, <2>2, <2>3, <2>4, <2>5 DEF InStep
<1>2. CASE KillChild
  <2>1. InHandshake' /\ BetweenRuns'
    BY Zenon, <1>2 DEF KillChild, AfterKill, InHandshake, BetweenRuns
  <2>2. Settled'
    BY Zenon, <1>2 DEF server, InStep, KillChild, AfterKill, Settled
  <2>3. InRun'
    BY Zenon, <1>2 DEF server, pipes, InStep, KillChild, AfterKill, InRun, At, Ends
  <2>4. ChildAtWork'
    BY Zenon, <1>2 DEF server, InStep, KillChild, AfterKill, ChildAtWork
  <2>5. ChildAtRest'
    BY Zenon, <1>2 DEF server, InStep, KillChild, ChildAtRest, Told
  <2> QED
    BY Zenon, <2>1, <2>2, <2>3, <2>4, <2>5 DEF InStep
<1>3. CASE ReadLate
  <2>1. InHandshake' /\ BetweenRuns'
    BY Zenon, <1>3 DEF ReadLate, Failed, InHandshake, server, BetweenRuns
  <2>2. Settled'
    BY Zenon, <1>3 DEF server, InStep, ReadLate, Failed, Settled
  <2>3. InRun'
    <3> USE DEF TypeOK, FlagsTypeOK, DataTypeOK, client, server, pipes, child
    <3>1. ASSUME st # <<>>, cpc' = "report", st' = Tail(st), child_status' = Head(st)
          PROVE  InRun'
      <4>1. At("read") /\ ctl = <<>> /\ Len(st) = 1 /\ Ends(st[1])
        BY <1>3, <3>1 DEF InStep, InRun, ReadLate
      <4>2. last_run_timed_out
        BY <1>3 DEF InStep, Settled, ReadLate
      <4> QED
        BY Zenon, <1>3, <3>1, <4>1, <4>2, PipeFacts DEF InRun, ReadLate, At, Ends,
          PipeLaw
    <3>2. ASSUME Failed PROVE InRun'
      BY <3>2 DEF InRun, Failed
    <3> QED
      BY <1>3, <3>1, <3>2 DEF ReadLate
  <2>4. ChildAtWork'
    BY Zenon, <1>3 DEF server, child, InStep, ReadLate, ChildAtWork
  <2>5. ChildAtRest'
    BY <1>3 DEF server, child, InStep, ReadLate, ChildAtRest, Told
  <2> QED
    BY Zenon, <2>1, <2>2, <2>3, <2>4, <2>5 DEF InStep
<1>4. CASE Report
  <2>1. InHandshake' /\ InRun'
    BY Zenon, <1>4 DEF Report, InHandshake, InRun
  <2>2. Settled'
    BY Zenon, <1>4 DEF server, InStep, Report, Settled
  <2>3. BetweenRuns'
    BY Zenon, <1>4 DEF server, pipes, child, InStep, Report, BetweenRuns,
      NoRequest, At, InRun
  <2>4. ChildAtWork'
    BY Zenon, <1>4 DEF server, child, InStep, Report, ChildAtWork
  <2>5. ChildAtRest'
    BY Zenon, <1>4 DEF server, pipes, child, InStep, Report, ChildAtRest, Told
  <2> QED
    BY Zenon, <2>1, <2>2, <2>3, <2>4, <2>5 DEF InStep
<1> QED
  BY Zenon, <1>1, <1>2, <1>3, <1>4

\* So do the signal handler and a restart of the fork server.
LEMMA StoppingInStep ==
  ASSUME TypeOK, InStep, Stop \/ StopReturns \/ Restart \/ Restarted
  PROVE  InStep'
<1>1. CASE Stop
  <2>1. Settled'
    BY Zenon, <1>1 DEF InStep, Stop, Settled
  <2>2. InHandshake'
    BY Zenon, <1>1 DEF pipes, InStep, Stop, InHandshake, At, Reply
  <2>3. BetweenRuns'
    BY Zenon, <1>1 DEF pipes, InStep, Stop, BetweenRuns, NoRequest, At, Replies,
      Reply
  <2>4. InRun'
    BY Zenon, <1>1 DEF pipes, InStep, Stop, InRun, OneRequest, At, Ends, Replies,
      Reply
  <2>5. ChildAtWork'
    BY Zenon, <1>1 DEF InStep, Stop, ChildAtWork
  <2>6. ChildAtRest'
    BY Zenon, <1>1 DEF InStep, Stop, ChildAtRest
  <2> QED
    BY Zenon, <2>1, <2>2, <2>3, <2>4, <2>5, <2>6 DEF InStep
<1>2. CASE StopReturns
  <2>1. ChildAtWork'
    BY Zenon, <1>2 DEF server, StopReturns, ChildAtWork
  <2>2. Settled'
    BY Zenon, <1>2 DEF server, InStep, StopReturns, Settled
  <2>3. InHandshake'
    BY Zenon, <1>2 DEF server, pipes, InStep, StopReturns, InHandshake, At, Reply
  <2>4. BetweenRuns'
    BY Zenon, <1>2 DEF server, child, InStep, StopReturns, BetweenRuns
  <2>5. InRun'
    BY Zenon, <1>2 DEF server, pipes, child, InStep, StopReturns, InRun,
      OneRequest, At, Ends, Reply
  <2>6. ChildAtRest'
    BY Zenon, <1>2 DEF server, child, InStep, StopReturns, ChildAtRest
  <2> QED
    BY Zenon, <2>1, <2>2, <2>3, <2>4, <2>5, <2>6 DEF InStep
<1>3. CASE Restart
  <2>1. InHandshake' /\ InRun'
    BY Zenon, <1>3 DEF Restart, InHandshake, InRun
  <2>2. Settled'
    BY Zenon, <1>3 DEF InStep, Restart, Settled
  <2>3. BetweenRuns'
    BY Zenon, <1>3 DEF pipes, InStep, Restart, BetweenRuns, NoRequest, At, Replies,
      Reply
  <2>4. ChildAtWork'
    BY Zenon, <1>3 DEF InStep, Restart, ChildAtWork
  <2>5. ChildAtRest'
    BY Zenon, <1>3 DEF InStep, Restart, ChildAtRest
  <2> QED
    BY Zenon, <2>1, <2>2, <2>3, <2>4, <2>5 DEF InStep
<1>4. CASE Restarted
  <2>1. Settled' /\ InHandshake' /\ InRun' /\ ChildAtWork'
    BY <1>4 DEF Restarted, Settled, Denies, InHandshake, At, InRun, ChildAtWork
  <2>2. BetweenRuns'
    BY Zenon, <1>4 DEF InStep, Restarted, BetweenRuns
  <2>3. ChildAtRest'
    BY Zenon, <1>4 DEF InStep, Restarted, ChildAtRest
  <2> QED
    BY Zenon, <2>1, <2>2, <2>3 DEF InStep
<1> QED
  BY Zenon, <1>1, <1>2, <1>3, <1>4

\* So does the fork server, reading the options and requests.
LEMMA ReadingInStep ==
  ASSUME TypeOK, InStep, PhoneHome \/ ReadOptions \/ ReadRequest \/ ReapKilled
  PROVE  InStep'
<1>1. CASE PhoneHome
  <2>1. ChildAtWork'
    BY Zenon, <1>1 DEF PhoneHome, ChildAtWork
  <2>2. Settled'
    BY Zenon, <1>1 DEF client, InStep, PhoneHome, Settled
  <2>3. InHandshake'
    BY <1>1 DEF client, InStep, PhoneHome, InHandshake, At
  <2>4. BetweenRuns'
    BY Zenon, <1>1 DEF client, child, InStep, PhoneHome, BetweenRuns, NoRequest, At
  <2>5. InRun'
    BY Zenon, <1>1 DEF client, InStep, PhoneHome, InRun, OneRequest, At
  <2>6. ChildAtRest'
    BY Zenon, <1>1 DEF client, child, InStep, PhoneHome, ChildAtRest
  <2> QED
    BY Zenon, <2>1, <2>2, <2>3, <2>4, <2>5, <2>6 DEF InStep
<1>2. CASE ReadOptions
  <2>1. ChildAtWork'
    BY Zenon, <1>2 DEF ReadOptions, ChildAtWork
  <2>2. Settled'
    BY Zenon, <1>2 DEF client, InStep, ReadOptions, Settled
  <2>3. InHandshake'
    BY SMTT(30), <1>2 DEF client, InStep, ReadOptions, IsRequest, InHandshake, At, Reply
  <2>4. BetweenRuns'
    BY SMTT(30), <1>2 DEF TypeOK, client, child, InStep, ReadOptions, IsRequest, BetweenRuns,
      NoRequest, At, Replies, Reply
  <2>5. InRun'
    <3> USE DEF TypeOK, FlagsTypeOK, DataTypeOK, client, server, pipes, child
    <3>1. CASE cpc = "pid"
      <4>1. PICK r \in {{}, {"killed"}} :
              OneRequest(r) /\ st = <<>> /\ trace_bits = {} /\ proc # "running"
        BY Zenon, <1>2, <3>1 DEF InStep, InRun, ReadOptions, At
      <4>2. (At("serve") /\ ctl = <<>>)' \/ OneRequest(r)'
        BY SMTT(30), <1>2, <4>1, PipeFacts DEF InStep, Settled, Denies, ReadOptions, PipeLaw,
          OneRequest, At, Reply, Replies, IsRequest
      <4>3. UNCHANGED <<cpc, st, trace_bits, proc>>
        BY SMTT(30), <1>2, <4>1, PipeFacts DEF ReadOptions, PipeLaw, OneRequest, At, Reply,
          Replies, IsRequest
      <4> QED
        BY Zenon, <3>1, <4>1, <4>2, <4>3 DEF InRun
    <3>2. CASE cpc # "pid"
      BY <1>2, <3>2 DEF InStep, InRun, ReadOptions, At
    <3> QED
      BY <3>1, <3>2
  <2>6. ChildAtRest'
    BY Zenon, <1>2 DEF client, child, InStep, ReadOptions, ChildAtRest
  <2> QED
    BY Zenon, <2>1, <2>2, <2>3, <2>4, <2>5, <2>6 DEF InStep
<1>3. CASE ReadRequest
  <2>1. ChildAtWork'
    BY Zenon, <1>3 DEF ReadRequest, ChildAtWork
  <2>2. Settled'
    BY Zenon, <1>3 DEF client, InStep, ReadRequest, Settled
  <2>3. InHandshake'
    BY Zenon, <1>3 DEF client, InStep, ReadRequest, InHandshake, At
  <2>4. BetweenRuns'
    BY ZenonT(30), <1>3 DEF client, child, InStep, ReadRequest, BetweenRuns, NoRequest,
      At
  <2>5. InRun'
    BY <1>3 DEF client, child, InStep, ReadRequest, InRun, OneRequest, At
  <2>6. ChildAtRest'
    <3> USE DEF TypeOK, FlagsTypeOK, DataTypeOK, client, server, pipes, child
    <3>1. ASSUME Told, cpc # "restart", cpc # "fatal" PROVE Told'
      <4>1. CASE last_run_timed_out
        BY <1>3, <4>1 DEF ReadRequest, Told
      <4>2. CASE ctl[Len(ctl)] = {"killed"}
        <5>1. Len(ctl) = 1
          BY SMTT(30), <1>3, <3>1 DEF InStep, InHandshake, BetweenRuns, InRun, NoRequest,
            OneRequest, ReadRequest, At
        <5>2. Head(ctl) = {"killed"}
          BY <1>3, <4>2, <5>1, PipeFacts DEF ReadRequest, PipeLaw
        <5>3. was_killed' = TRUE /\ spc' = "serve"
          BY Zenon, <1>3, <5>2 DEF ReadRequest
        <5> QED
          BY SMTT(30), <5>3 DEF Told
      <4> QED
        BY <1>3, <3>1, <4>1, <4>2 DEF ReadRequest, Told
    <3> QED
      BY <1>3, <3>1 DEF InStep, ChildAtRest, ReadRequest
  <2> QED
    BY Zenon, <2>1, <2>2, <2>3, <2>4, <2>5, <2>6 DEF InStep
<1>4. CASE ReapKilled
  <2>1. ChildAtWork'
    BY Zenon, <1>4 DEF ReapKilled, ChildAtWork
  <2>2. Settled'
    BY Zenon, <1>4 DEF client, InStep, ReapKilled, Settled
  <2>3. InHandshake'
    BY Zenon, <1>4 DEF client, InStep, ReapKilled, InHandshake, At
  <2>4. BetweenRuns'
    BY Zenon, <1>4 DEF client, InStep, ReapKilled, BetweenRuns, NoRequest, At
  <2>5. InRun'
    BY Zenon, <1>4 DEF client, pipes, InStep, ReapKilled, InRun, OneRequest, At
  <2>6. ChildAtRest'
    BY Zenon, <1>4 DEF client, InStep, ReapKilled, ChildAtRest
  <2> QED
    BY Zenon, <2>1, <2>2, <2>3, <2>4, <2>5, <2>6 DEF InStep
<1> QED
  BY Zenon, <1>1, <1>2, <1>3, <1>4

\* So does the fork server, serving a request and dying.
LEMMA ServingInStep ==
  ASSUME TypeOK, InStep,
  Fork \/ Continue \/ WritePid \/ WaitChild \/ AtExit \/ ServerDies
  PROVE  InStep'
<1>1. CASE Fork
  <2>1. Settled'
    BY Zenon, <1>1 DEF client, InStep, Fork, Settled
  <2>2. InHandshake'
    BY Zenon, <1>1 DEF client, InStep, Fork, InHandshake, At
  <2>3. BetweenRuns'
    BY Zenon, <1>1 DEF client, InStep, Fork, BetweenRuns, NoRequest, At, InHandshake
  <2>4. InRun'
    BY Zenon, <1>1 DEF client, pipes, InStep, Fork, InRun, OneRequest, At
  <2>5. ChildAtWork'
    <3> USE DEF TypeOK, FlagsTypeOK, DataTypeOK, client, server, pipes, child
    <3>1. cpc = "fatal" \/ (cpc = "pid" /\ trace_bits = {} /\ ctl = <<>>)
      BY <1>1 DEF InStep, InHandshake, BetweenRuns, InRun, NoRequest, OneRequest,
        Fork, At

    <3> QED
      BY SMTT(30), <1>1, <3>1 DEF ChildAtWork, Fork, Complete
  <2>6. ChildAtRest'
    BY <1>1 DEF TypeOK, DataTypeOK, client, Fork, ChildAtRest
  <2> QED
    BY Zenon, <2>1, <2>2, <2>3, <2>4, <2>5, <2>6 DEF InStep
<1>2. CASE Continue
  <2>1. Settled'
    BY Zenon, <1>2 DEF client, InStep, Continue, Settled
  <2>2. InHandshake'
    BY Zenon, <1>2 DEF client, InStep, Continue, InHandshake, At
  <2>3. BetweenRuns'
    BY Zenon, <1>2 DEF client, InStep, Continue, BetweenRuns, NoRequest, At,
      InHandshake
  <2>4. InRun'
    BY Zenon, <1>2 DEF client, pipes, InStep, Continue, InRun, OneRequest, At
  <2>5. ChildAtWork'
    <3> USE DEF TypeOK, FlagsTypeOK, DataTypeOK, client, server, pipes, child
    <3>1. cpc = "fatal" \/ (cpc = "pid" /\ trace_bits = {} /\ ctl = <<>>)
      BY SMTT(30), <1>2 DEF InStep, InHandshake, BetweenRuns, InRun, NoRequest, OneRequest,
        Continue, At

    <3>2. ASSUME ~stop_soon, cpc = "pid" PROVE proc = "stopped" /\ ~pending
      BY <1>2, <3>1, <3>2 DEF InStep, Settled, ChildAtRest, Continue, CanContinue,
        Told
    <3>3. proc \in {"stopped", "zombie"}
      BY <1>2 DEF InStep, ChildAtRest, Continue, CanContinue
    <3> QED
      BY SMTT(30), <1>2, <3>1, <3>2, <3>3 DEF ChildAtWork, Continue, Complete
  <2>6. ChildAtRest'
    BY <1>2 DEF TypeOK, DataTypeOK, client, InStep, Continue, ChildAtRest
  <2> QED
    BY Zenon, <2>1, <2>2, <2>3, <2>4, <2>5, <2>6 DEF InStep
<1>3. CASE WritePid
  <2>1. Settled'
    BY Zenon, <1>3 DEF client, InStep, WritePid, Settled
  <2>2. InHandshake'
    BY Zenon, <1>3 DEF client, InStep, WritePid, InHandshake, At
  <2>3. BetweenRuns'
    BY ZenonT(30), <1>3 DEF client, child, InStep, WritePid, BetweenRuns, NoRequest, At
  <2>4. InRun'
    BY <1>3 DEF client, InStep, WritePid, InRun, OneRequest, At
  <2>5. ChildAtWork'
    BY Zenon, <1>3 DEF client, child, InStep, WritePid, ChildAtWork, Complete
  <2>6. ChildAtRest'
    BY Zenon, <1>3 DEF client, child, InStep, WritePid, ChildAtRest, Told
  <2> QED
    BY Zenon, <2>1, <2>2, <2>3, <2>4, <2>5, <2>6 DEF InStep
<1>4. CASE WaitChild
  <2>1. ChildAtWork'
    BY Zenon, <1>4 DEF WaitChild, ChildAtWork
  <2>2. Settled'
    BY Zenon, <1>4 DEF client, InStep, WaitChild, Settled
  <2>3. InHandshake'
    BY Zenon, <1>4 DEF client, InStep, WaitChild, InHandshake, At
  <2>4. BetweenRuns'
    BY Zenon, <1>4 DEF client, InStep, WaitChild, BetweenRuns, NoRequest, At
  <2>5. InRun'
    <3> USE DEF TypeOK, FlagsTypeOK, DataTypeOK, client, server, pipes, child
    <3> DEFINE w == [val |-> IF proc = "zombie" THEN code ELSE "stopped", run |-> reading]
    <3>1. w \in Word /\ w.val \in Codes /\ w.run = reading
      BY DEF Word, Codes
    <3>2. w.run <= runs
      BY SMTT(30), <3>1 DEF InStep, ChildAtRest
    <3>3. ASSUME cpc # "fatal"
          PROVE  /\ proc' # "running" /\ trace_bits \subseteq {runs}
                 /\ cpc \in {"pid", "status"} /\ ~stop_soon
                      => reading = runs /\ trace_bits = {runs}
      BY <1>4, <3>3 DEF InStep, ChildAtWork, Complete, WaitChild
    <3>4. /\ st' = Append(st, w) /\ spc = "wait" /\ spc' = "read"
          /\ UNCHANGED <<cpc, ctl, runs, trace_bits, stop_soon>>
      BY <1>4 DEF WaitChild
    <3> HIDE DEF w
    <3>5. CASE cpc = "pid"
      <4>1. ctl = <<>> /\ Len(st) = 1
        BY <3>4, <3>5 DEF InStep, InRun, OneRequest, At
      <4>2. Len(st') = 2 /\ st'[2] = w
        BY <3>1, <3>4, <4>1, PipeFacts DEF PipeLaw
      <4> QED
        BY SMTT(30), <3>1, <3>2, <3>3, <3>4, <3>5, <4>1, <4>2 DEF InRun, At, Ends
    <3>6. CASE cpc \in {"status", "kill", "late"}
      <4>1. ctl = <<>> /\ st = <<>>
        BY <3>4, <3>6 DEF InStep, InRun, At
      <4>2. Len(st') = 1 /\ st'[1] = w
        BY SMTT(30), <3>1, <3>4, <4>1, PipeFacts DEF PipeLaw
      <4> QED
        BY <3>1, <3>2, <3>3, <3>4, <3>6, <4>1, <4>2 DEF InRun, At, Ends
    <3> QED
      BY Zenon, <3>4, <3>5, <3>6 DEF InStep, InRun, At
  <2>6. ChildAtRest'
    <3> USE DEF TypeOK, FlagsTypeOK, DataTypeOK, client, server, pipes, child
    <3>1. cpc \in {"pid", "status", "kill", "late", "restart", "fatal"}
      BY SMTT(30), <1>4 DEF InStep, InHandshake, BetweenRuns, NoRequest, InRun, WaitChild, At
    <3>2. ASSUME pending, ~stop_soon, cpc \notin {"restart", "fatal"}
          PROVE  last_run_timed_out
      BY SMTT(30), <1>4, <3>1, <3>2 DEF InStep, Settled, ChildAtWork, WaitChild
    <3> QED
      BY Zenon, <1>4, <3>2 DEF InStep, ChildAtRest, WaitChild, Told
  <2> QED
    BY Zenon, <2>1, <2>2, <2>3, <2>4, <2>5, <2>6 DEF InStep
<1>5. CASE AtExit
  <2>1. ChildAtWork'
    BY Zenon, <1>5 DEF AtExit, ChildAtWork
  <2>2. Settled'
    BY Zenon, <1>5 DEF client, InStep, AtExit, Settled
  <2>3. InHandshake'
    BY Zenon, <1>5 DEF client, pipes, InStep, AtExit, InHandshake, At, Reply
  <2>4. BetweenRuns'
    BY Zenon, <1>5 DEF client, InStep, AtExit, BetweenRuns
  <2>5. InRun'
    BY Zenon, <1>5 DEF client, pipes, InStep, AtExit, InRun, OneRequest, At, Ends,
      Reply
  <2>6. ChildAtRest'
    BY Zenon, <1>5 DEF client, InStep, AtExit, ChildAtRest
  <2> QED
    BY Zenon, <2>1, <2>2, <2>3, <2>4, <2>5, <2>6 DEF InStep
<1>6. CASE ServerDies
  <2>1. ChildAtWork'
    BY Zenon, <1>6 DEF ServerDies, ChildAtWork
  <2>2. Settled'
    BY Zenon, <1>6 DEF client, InStep, ServerDies, Settled
  <2>3. InHandshake'
    BY Zenon, <1>6 DEF client, pipes, InStep, ServerDies, InHandshake, At, Reply
  <2>4. BetweenRuns'
    BY Zenon, <1>6 DEF client, child, InStep, ServerDies, BetweenRuns
  <2>5. InRun'
    BY Zenon, <1>6 DEF client, pipes, child, InStep, ServerDies, InRun, OneRequest,
      At, Ends, Reply
  <2>6. ChildAtRest'
    BY Zenon, <1>6 DEF client, child, InStep, ServerDies, ChildAtRest
  <2> QED
    BY Zenon, <2>1, <2>2, <2>3, <2>4, <2>5, <2>6 DEF InStep
<1> QED
  BY Zenon, <1>1, <1>2, <1>3, <1>4, <1>5, <1>6

\* So do the child and the kernel.
LEMMA WorkingInStep ==
  ASSUME TypeOK, InStep, ReadTestcase \/ Trace \/ LoopStop \/ End \/ Deliver
  PROVE  InStep'
<1>1. CASE ReadTestcase
  <2>1. Settled'
    BY Zenon, <1>1 DEF client, server, InStep, ReadTestcase, Settled
  <2>2. InHandshake'
    BY Zenon, <1>1 DEF client, server, pipes, InStep, ReadTestcase, InHandshake,
      At, Reply
  <2>3. BetweenRuns'
    BY Zenon, <1>1 DEF client, server, InStep, ReadTestcase, BetweenRuns
  <2>4. InRun'
    BY Zenon, <1>1 DEF client, server, pipes, InStep, ReadTestcase, InRun, At, Ends
  <2>5. ChildAtWork'
    <3> USE DEF TypeOK, FlagsTypeOK, DataTypeOK, client, server, pipes, child
    <3>1. ASSUME spc \in {"forked", "wait"}, cpc # "fatal" PROVE trace_bits = {}
      BY SMTT(30), <1>1, <3>1 DEF InStep, ChildAtWork, ReadTestcase
    <3> QED
      BY ZenonT(30), <1>1, <3>1 DEF InStep, ChildAtWork, ReadTestcase
  <2>6. ChildAtRest'
    BY <1>1 DEF TypeOK, DataTypeOK, client, server, InStep, ReadTestcase,
      ChildAtRest
  <2> QED
    BY Zenon, <2>1, <2>2, <2>3, <2>4, <2>5, <2>6 DEF InStep
<1>2. CASE Trace
  <2>1. Settled'
    BY Zenon, <1>2 DEF client, server, InStep, Trace, Settled
  <2>2. InHandshake'
    BY Zenon, <1>2 DEF client, server, pipes, InStep, Trace, InHandshake, At, Reply
  <2>3. BetweenRuns'
    BY Zenon, <1>2 DEF client, server, InStep, Trace, BetweenRuns
  <2>4. InRun'
    BY Zenon, <1>2 DEF client, server, pipes, InStep, Trace, InRun, At, Ends
  <2>5. ChildAtWork'
    BY Zenon, <1>2 DEF client, server, InStep, Trace, ChildAtWork
  <2>6. ChildAtRest'
    BY Zenon, <1>2 DEF client, server, InStep, Trace, ChildAtRest
  <2> QED
    BY Zenon, <2>1, <2>2, <2>3, <2>4, <2>5, <2>6 DEF InStep
<1>3. CASE LoopStop
  <2>1. Settled'
    BY Zenon, <1>3 DEF client, server, InStep, LoopStop, Settled
  <2>2. InHandshake'
    BY Zenon, <1>3 DEF client, server, pipes, InStep, LoopStop, InHandshake, At,
      Reply
  <2>3. BetweenRuns'
    BY Zenon, <1>3 DEF client, server, InStep, LoopStop, BetweenRuns
  <2>4. InRun'
    BY ZenonT(30), <1>3 DEF client, server, pipes, InStep, LoopStop, InRun, At, Ends
  <2>5. ChildAtWork'
    <3> USE DEF TypeOK, FlagsTypeOK, DataTypeOK, client, server, pipes, child
    <3>1. ASSUME spc \in {"forked", "wait"}, cpc # "fatal"
          PROVE  reading # 0 /\ reading = runs /\ trace_bits = {runs}
      BY Zenon, <1>3, <3>1 DEF InStep, ChildAtWork, LoopStop
    <3> QED
      BY <1>3, <3>1 DEF InStep, ChildAtWork, Complete, LoopStop
  <2>6. ChildAtRest'
    BY Zenon, <1>3 DEF client, server, InStep, LoopStop, ChildAtRest
  <2> QED
    BY Zenon, <2>1, <2>2, <2>3, <2>4, <2>5, <2>6 DEF InStep
<1>4. CASE End
  <2>1. Settled'
    BY Zenon, <1>4 DEF client, server, InStep, End, Settled
  <2>2. InHandshake'
    BY Zenon, <1>4 DEF client, server, pipes, InStep, End, InHandshake, At, Reply
  <2>3. BetweenRuns'
    BY Zenon, <1>4 DEF client, server, InStep, End, BetweenRuns
  <2>4. InRun'
    BY ZenonT(30), <1>4 DEF client, server, pipes, InStep, End, InRun, At, Ends
  <2>5. ChildAtWork'
    <3> USE DEF TypeOK, FlagsTypeOK, DataTypeOK, client, server, pipes, child
    <3>1. ASSUME spc \in {"forked", "wait"}, cpc # "fatal"
          PROVE  reading # 0 /\ reading = runs /\ trace_bits = {runs}
      BY Zenon, <1>4, <3>1 DEF InStep, ChildAtWork, End
    <3> QED
      BY <1>4, <3>1 DEF InStep, ChildAtWork, Complete, End
  <2>6. ChildAtRest'
    BY Zenon, <1>4 DEF client, server, InStep, End, ChildAtRest
  <2> QED
    BY Zenon, <2>1, <2>2, <2>3, <2>4, <2>5, <2>6 DEF InStep
<1>5. CASE Deliver
  <2>1. Settled'
    BY Zenon, <1>5 DEF client, server, InStep, Deliver, Settled
  <2>2. InHandshake'
    BY Zenon, <1>5 DEF client, server, pipes, InStep, Deliver, InHandshake, At,
      Reply
  <2>3. BetweenRuns'
    BY Zenon, <1>5 DEF client, server, pipes, InStep, Deliver, BetweenRuns,
      NoRequest, At, Replies, Reply
  <2>4. InRun'
    BY Zenon, <1>5 DEF client, server, pipes, InStep, Deliver, InRun, OneRequest,
      At, Ends, Replies, Reply
  <2>5. ChildAtWork'
    BY Zenon, <1>5 DEF client, server, InStep, Deliver, ChildAtWork
  <2>6. ChildAtRest'
    BY Zenon, <1>5 DEF client, server, pipes, InStep, Deliver, ChildAtRest, Told
  <2> QED
    BY Zenon, <2>1, <2>2, <2>3, <2>4, <2>5, <2>6 DEF InStep
<1> QED
  BY Zenon, <1>1, <1>2, <1>3, <1>4, <1>5

\* A step that changes nothing keeps them in step.
LEMMA StutterInStep ==
  ASSUME InStep, UNCHANGED vars
  PROVE  InStep'
<1> USE DEF client, server, pipes, child, vars
<1>1. Settled'
  BY Zenon DEF InStep, Settled, Denies
<1>2. InHandshake'
  BY Zenon DEF InStep, InHandshake, At, Reply
<1>3. BetweenRuns'
  BY Zenon DEF InStep, BetweenRuns, NoRequest, At, Replies, Reply
<1>4. InRun'
  BY Zenon DEF InStep, InRun, OneRequest, NoRequest, At, Ends, Replies, Reply, Codes
<1>5. ChildAtWork'
  BY DEF InStep, ChildAtWork, Complete
<1>6. ChildAtRest'
  BY DEF InStep, ChildAtRest, Told
<1> QED
  BY <1>1, <1>2, <1>3, <1>4, <1>5, <1>6 DEF InStep

\* Every step of client, server, child and kernel keeps them in step.
LEMMA InStepNext ==
  ASSUME TypeOK, InStep, [Next]_vars
  PROVE  InStep'
  BY HandshakeInStep, RunningInStep, TimeoutsInStep, StoppingInStep, ReadingInStep,
    ServingInStep, WorkingInStep,
     StutterInStep DEF Next, Client, Server, Child

\* Types: the words on the pipes are the ones the protocol knows.
THEOREM TypeCorrect == Spec => []TypeOK
<1>1. TypeOK /\ [Next]_vars => TypeOK'
  BY FlagsStep, DataStep DEF TypeOK
<1> QED
  BY TypeInit, <1>1, PTL DEF Spec

\* Client, server and child stay in step, for every build of target and client
\* but one: a client that turns down a dictionary must be answered by a target
\* that also asks for shared memory test cases.
THEOREM StaysInStep ==
  ASSUME \A o \in Options : Denies(o) => o.shmem
  PROVE  Spec => []InStep
<1>1. Init => InStep
  BY InStepInit
<1>2. TypeOK /\ InStep /\ [Next]_vars => InStep'
  BY InStepNext
<1> QED
  BY TypeCorrect, <1>1, <1>2, PTL DEF Spec

\* When afl_fsrv_run_target has returned, no child runs that could still write
\* the coverage map.
THEOREM QuietMap ==
  ASSUME \A o \in Options : Denies(o) => o.shmem
  PROVE  Spec => []MapIsQuiet
<1>1. InStep => MapIsQuiet
  BY DEF InStep, BetweenRuns, Settled, MapIsQuiet
<1> QED
  BY StaysInStep, <1>1, PTL

\* The coverage map a run is judged by is that run's own, and complete unless
\* it timed out.
THEOREM OwnMap ==
  ASSUME \A o \in Options : Denies(o) => o.shmem
  PROVE  Spec => []MapIsOfThisRun
<1>1. InStep => MapIsOfThisRun
  BY DEF InStep, InRun, MapIsOfThisRun
<1> QED
  BY StaysInStep, <1>1, PTL

\* Every step of the protocol is a step of RunTarget or invisible to callers.
LEMMA RunStep ==
  ASSUME TypeOK, InStep, [Next]_vars
  PROVE  [Run!Next]_(Run!vars)
<1> USE DEF Run!vars, Phase, client, server, pipes, child
<1>1. CASE Hello \/ ReadDictionary \/ NoHandshake
  BY <1>1 DEF Hello, ReadDictionary, NoHandshake, Run!Next, Run!GiveUp
<1>2. CASE WriteTestcase
  BY <1>2 DEF WriteTestcase, Run!Next, Run!Ask
<1>3. ASSUME Failed, Phase = "running", UNCHANGED <<runs, stop_soon>>
      PROVE  Run!Next
  BY SMTT(30), <1>3 DEF Failed, TypeOK, DataTypeOK, Run!Next, Run!Answer, Run!GiveUp
<1>4. CASE Request
  BY <1>3, <1>4 DEF Request
<1>5. CASE ReadPid
  BY <1>3, <1>5 DEF ReadPid
<1>6. CASE ReadStatus
  BY <1>3, <1>6 DEF ReadStatus
<1>7. CASE TimedOut \/ KillChild
  BY <1>7 DEF TimedOut, KillChild, AfterKill
<1>8. CASE ReadLate
  BY <1>3, <1>8 DEF ReadLate
<1>9. CASE Report
  <2>1. /\ child_status.run \in 0 .. runs
        /\ last_run_timed_out \/ child_status.run = runs
    BY <1>9 DEF Report, InStep, InRun, TypeOK, DataTypeOK, Word
  <2>2. Result \in {"OK", "CRASH", "TMOUT"} /\ (last_run_timed_out => Result = "TMOUT")
    BY DEF Result
  <2> QED
    BY <1>9, <2>1, <2>2 DEF Report, Run!Next, Run!Answer
<1>10. CASE Stop
  BY Zenon, <1>10 DEF Stop, Run!Next, Run!Interrupt
<1>11. CASE StopReturns \/ Restart \/ Restarted
  BY <1>11 DEF StopReturns, Restart, Restarted
<1>12. CASE Server
  BY SMTT(30), <1>12 DEF Server, PhoneHome, ReadOptions, ReadRequest, ReapKilled, Fork,
    Continue, WritePid, WaitChild, AtExit
<1>13. CASE ServerDies \/ Child \/ Deliver
  BY <1>13 DEF ServerDies, Child, ReadTestcase, Trace, LoopStop, End, Deliver
<1>14. CASE UNCHANGED vars
  BY <1>14 DEF vars
<1> QED
  BY <1>1, <1>2, <1>4, <1>5, <1>6, <1>7, <1>8, <1>9, <1>10, <1>11, <1>12, <1>13,
    <1>14 DEF Next, Client

\* The protocol implements the safety half of RunTarget: answers are about the
\* test case that was asked for.
THEOREM AnswersWhatWasAsked ==
  ASSUME \A o \in Options : Denies(o) => o.shmem
  PROVE  Spec => Run!Safety
<1>1. Init => Run!Init
  BY DEF Init, Run!Init, Phase
<1>2. TypeOK /\ InStep /\ [Next]_vars => [Run!Next]_(Run!vars)
  BY RunStep
<1> QED
  BY TypeCorrect, StaysInStep, <1>1, <1>2, PTL DEF Spec, Run!Safety

===========================================================================
