----------------------------- MODULE ForkServer -----------------------------
(***************************************************************************)
(* afl-fuzz (AFLplusplus/src/afl-forkserver.c), the fork server compiled   *)
(* into the target (instrumentation/afl-compiler-rt.o.c) and the child that*)
(* runs a test case: three processes, two pipes, two shared memories (the  *)
(* test case and the coverage map) and signals.                            *)
(*                                                                         *)
(* Test cases are numbered in the order afl-fuzz writes them; the coverage *)
(* map is the set of test cases whose execution wrote to it.  A word on    *)
(* the control pipe is a set of flags: {} is was_killed = 0, and any other  *)
(* word is a non-zero was_killed to a server that takes it for a request.   *)
(* A word on the status pipe carries, besides what the code sends, the     *)
(* number of the test case it is about.                                    *)
(***************************************************************************)
EXTENDS Naturals, Sequences

CONSTANTS
  Options,      \* the ways target and client may be built, see Option
  Persistent,   \* is_persistent: the child loops with __AFL_LOOP
  LoopCount,    \* max_cnt of __AFL_LOOP
  Signal,       \* child_kill_signal (AFL_KILL_SIGNAL)
  Stops,        \* may the user stop afl-fuzz?
  Crashes,      \* may the fork server die on its own?
  MaxRuns,      \* bound on the number of test cases
  MaxRestarts   \* bound on the number of restarts of the fork server

\* shmem, dict: the target has __afl_sharedmem_fuzzing, __afl_dictionary.
\* support: support_shmem_fuzz; ignore: AFL_NO_AUTODICT; extra: add_extra_func
\* is set, which is so in afl-fuzz but not in the other tools and for cmplog.
Option == [shmem : BOOLEAN, dict : BOOLEAN,
           support : BOOLEAN, ignore : BOOLEAN, extra : BOOLEAN]

\* The client turns a dictionary down by a word of its own.
Denies(o) == o.dict /\ ~o.ignore /\ ~o.extra

ASSUME OptionsAssumption == Options \subseteq Option
ASSUME ModeAssumption ==
  /\ Persistent \in BOOLEAN /\ Stops \in BOOLEAN /\ Crashes \in BOOLEAN
  /\ Signal \in {"SIGKILL", "SIGTERM"}
ASSUME BoundsAssumption ==
  LoopCount \in Nat \ {0} /\ MaxRuns \in Nat /\ MaxRestarts \in Nat

VARIABLES
  opt,                \* how this target and this client were built
  \* the client: afl_forkserver_t and where afl-fuzz is
  cpc, last_run_timed_out, child_pid, child_status, stop_soon,
  handling,           \* inside afl_states_stop, waiting for the server's end
  runs,               \* number of the test case in the file or shared memory
  answer,             \* what afl_fsrv_run_target returned last
  restarts,
  \* the pipes
  ctl, st,
  \* the fork server: its locals, and where it is
  spc, was_killed, child_stopped,
  pid,                \* its static child_pid
  sigterm,            \* SIGTERM was sent to it
  \* the child forked last
  forks,              \* its process id
  proc,               \* "none" (reaped), "running", "stopped" or "zombie"
  code,               \* how it ended
  reading,            \* the test case it runs, 0 before it reads one
  cycle_cnt,
  pending,            \* child_kill_signal was sent to it
  trace_bits          \* the coverage map

client == <<cpc, last_run_timed_out, child_pid, child_status, stop_soon,
            handling, runs, answer, restarts>>
pipes  == <<ctl, st>>
server == <<spc, was_killed, child_stopped, pid, sigterm>>
child  == <<forks, proc, code, reading, cycle_cnt, pending, trace_bits>>
vars   == <<opt, client, pipes, server, child>>

Alive == proc \in {"running", "stopped"}
Codes == {"exited", "signaled", "stopped"}
Word  == [val : {"hello", "dict", "pid"} \cup Codes, run : Nat]
NoWord == [val |-> "pid", run |-> 0]

Init ==
  /\ opt \in Options
  /\ cpc = "hello" /\ last_run_timed_out = FALSE /\ child_pid = 0
  /\ child_status = NoWord
  /\ stop_soon = FALSE /\ handling = FALSE
  /\ runs = 0 /\ answer = [run |-> 0, res |-> "OK"] /\ restarts = 0
  /\ ctl = <<>> /\ st = <<>>
  /\ spc = "hello" /\ was_killed = FALSE /\ child_stopped = FALSE
  /\ pid = 0 /\ sigterm = FALSE
  /\ forks = 0 /\ proc = "none" /\ code = "exited" /\ reading = 0
  /\ cycle_cnt = 0 /\ pending = FALSE /\ trace_bits = {}

-----------------------------------------------------------------------------
(* afl_fsrv_start, behind the fork: the client's half of the handshake      *)

\* What the client answers to the options the server announces ...
Reply == {"enabled"} \cup (IF opt.shmem THEN {"shmem"} ELSE {})
         \cup (IF opt.dict /\ ~opt.ignore /\ opt.extra THEN {"dict"} ELSE {})

\* ... if it answers: without shared memory, only to an offered dictionary.
Replies == opt.shmem \/ (opt.dict /\ ~opt.ignore)

Hello ==
  /\ cpc = "hello" /\ ~handling
  /\ st # <<>> /\ ~stop_soon
  /\ st' = Tail(st)
  /\ IF opt.shmem /\ ~opt.support
     THEN cpc' = "fatal" /\ UNCHANGED ctl
     ELSE /\ ctl' = IF Replies THEN Append(ctl, Reply) ELSE ctl
          /\ cpc' = IF opt.dict /\ ~opt.ignore /\ opt.extra THEN "dict" ELSE "idle"
  /\ UNCHANGED <<opt, last_run_timed_out, child_pid, child_status, stop_soon,
                 handling, runs, answer, restarts, server, child>>

ReadDictionary ==
  /\ cpc = "dict" /\ ~handling
  /\ st # <<>>
  /\ st' = Tail(st)
  /\ cpc' = "idle"
  /\ UNCHANGED <<opt, last_run_timed_out, child_pid, child_status, stop_soon,
                 handling, runs, answer, restarts, ctl, server, child>>

\* No hello in time, a stop, or a closed pipe: the handshake failed.
NoHandshake ==
  /\ ~handling
  /\ \/ cpc = "hello" /\ (st = <<>> \/ stop_soon)
     \/ cpc = "dict" /\ st = <<>> /\ spc = "dead"
  /\ cpc' = "fatal"
  /\ UNCHANGED <<opt, last_run_timed_out, child_pid, child_status, stop_soon,
                 handling, runs, answer, restarts, pipes, server, child>>

-----------------------------------------------------------------------------
(* afl_fsrv_run_target                                                      *)

\* afl_fsrv_write_to_testcase.
WriteTestcase ==
  /\ cpc = "idle" /\ ~handling
  /\ runs < MaxRuns
  /\ runs' = runs + 1
  /\ cpc' = "request"
  /\ UNCHANGED <<opt, last_run_timed_out, child_pid, child_status, stop_soon,
                 handling, answer, restarts, pipes, server, child>>

\* A read or write failed: "return 0" if the user wants to quit, else fatal.
Failed ==
  /\ IF stop_soon
     THEN cpc' = "idle" /\ answer' = [run |-> 0, res |-> "OK"]
     ELSE cpc' = "fatal" /\ UNCHANGED answer
  /\ UNCHANGED <<child_pid, child_status, last_run_timed_out>>

\* "memset(fsrv->trace_bits, 0, fsrv->map_size)"
ClearedSkipped == trace_bits
Cleared == {}

\* The coverage map is cleared, then the request goes out.
Request ==
  /\ cpc = "request" /\ ~handling
  /\ trace_bits' = Cleared
  /\ \/ /\ spc # "dead"
        /\ ctl' = Append(ctl, IF last_run_timed_out THEN {"killed"} ELSE {})
        /\ last_run_timed_out' = FALSE
        /\ cpc' = "pid"
        /\ UNCHANGED <<child_pid, child_status, answer>>
     \/ spc = "dead" /\ Failed /\ UNCHANGED ctl
  /\ UNCHANGED <<opt, stop_soon, handling, runs, restarts, st, server, forks,
                 proc, code, reading, cycle_cnt, pending>>

ReadPid ==
  /\ cpc = "pid" /\ ~handling
  /\ \/ /\ st # <<>>
        /\ child_pid' = Head(st).run
        /\ st' = Tail(st)
        /\ cpc' = "status"
        /\ UNCHANGED <<last_run_timed_out, child_status, answer>>
     \/ st = <<>> /\ spc = "dead" /\ Failed /\ UNCHANGED st
  /\ UNCHANGED <<opt, stop_soon, handling, runs, restarts, ctl, server, child>>

\* read_s32_timed, in time.
ReadStatus ==
  /\ cpc = "status" /\ ~handling
  /\ \/ /\ st # <<>> /\ ~stop_soon
        /\ child_status' = Head(st)
        /\ st' = Tail(st)
        /\ cpc' = "report"
        /\ UNCHANGED <<last_run_timed_out, child_pid, answer>>
     \/ /\ IF st = <<>> THEN spc = "dead" ELSE stop_soon
        /\ Failed
        /\ UNCHANGED st
  /\ UNCHANGED <<opt, stop_soon, handling, runs, restarts, ctl, server, child>>

\* read_s32_timed, too late: select saw nothing within the time limit ...
TimedOut ==
  /\ cpc = "status" /\ ~handling
  /\ st = <<>> /\ spc # "dead"
  /\ cpc' = "kill"
  /\ UNCHANGED <<opt, last_run_timed_out, child_pid, child_status, stop_soon,
                 handling, runs, answer, restarts, pipes, server, child>>

\* The status of the killed child is awaited too.
AfterKillReturns == "report"
AfterKill == "late"

\* ... so the child is killed, whatever it has done by now.
KillChild ==
  /\ cpc = "kill" /\ ~handling
  /\ pending' = (pending \/ (Alive /\ child_pid = forks))
  /\ child_pid' = 0
  /\ last_run_timed_out' = TRUE
  /\ cpc' = AfterKill
  /\ UNCHANGED <<opt, child_status, stop_soon, handling, runs, answer, restarts,
                 pipes, server, forks, proc, code, reading, cycle_cnt,
                 trace_bits>>

\* "The forkserver should inform us afterwards"
ReadLate ==
  /\ cpc = "late" /\ ~handling
  /\ \/ /\ st # <<>>
        /\ child_status' = Head(st)
        /\ st' = Tail(st)
        /\ cpc' = "report"
        /\ UNCHANGED <<last_run_timed_out, child_pid, answer>>
     \/ st = <<>> /\ spc = "dead" /\ Failed /\ UNCHANGED st
  /\ UNCHANGED <<opt, stop_soon, handling, runs, restarts, ctl, server, child>>

\* "Report outcome to caller."
Result == IF last_run_timed_out THEN "TMOUT"
          ELSE IF child_status.val = "signaled" THEN "CRASH" ELSE "OK"

Report ==
  /\ cpc = "report" /\ ~handling
  /\ child_pid' = IF child_status.val = "stopped" THEN child_pid ELSE 0
  /\ answer' = [run |-> child_status.run, res |-> Result]
  /\ cpc' = "idle"
  /\ UNCHANGED <<opt, last_run_timed_out, child_status, stop_soon, handling,
                 runs, restarts, pipes, server, child>>

-----------------------------------------------------------------------------
(* The signal handler of afl-fuzz and the restart of the fork server        *)

SignalBoth ==
  /\ pending' = (pending \/ (Alive /\ child_pid = forks))
  /\ sigterm' = TRUE

\* handle_stop_sig: it may interrupt the client anywhere, and returns only
\* once the fork server is gone.
Stop ==
  /\ Stops /\ ~stop_soon
  /\ cpc # "fatal"
  /\ stop_soon' = TRUE
  /\ handling' = TRUE
  /\ SignalBoth
  /\ UNCHANGED <<opt, cpc, last_run_timed_out, child_pid, child_status, runs,
                 answer, restarts, pipes, spc, was_killed, child_stopped, pid,
                 forks, proc, code, reading, cycle_cnt, trace_bits>>

StopReturns ==
  /\ handling /\ spc = "dead"
  /\ handling' = FALSE
  /\ UNCHANGED <<opt, cpc, last_run_timed_out, child_pid, child_status,
                 stop_soon, runs, answer, restarts, pipes, server, child>>

\* The coverage map turned out too small: afl_fsrv_kill ...
Restart ==
  /\ cpc = "idle" /\ ~handling /\ ~stop_soon
  /\ restarts < MaxRestarts
  /\ restarts' = restarts + 1
  /\ cpc' = "restart"
  /\ SignalBoth
  /\ UNCHANGED <<opt, last_run_timed_out, child_pid, child_status, stop_soon,
                 handling, runs, answer, pipes, spc, was_killed, child_stopped,
                 pid, forks, proc, code, reading, cycle_cnt, trace_bits>>

\* ... and, once the old server is gone, afl_fsrv_start with new pipes and
\* AFL_NO_AUTODICT set.
Restarted ==
  /\ cpc = "restart" /\ ~handling
  /\ spc = "dead"
  /\ opt' = [opt EXCEPT !.ignore = TRUE]
  /\ cpc' = "hello" /\ last_run_timed_out' = FALSE /\ child_pid' = 0
  /\ ctl' = <<>> /\ st' = <<>>
  /\ spc' = "hello" /\ was_killed' = FALSE /\ child_stopped' = FALSE
  /\ pid' = 0 /\ sigterm' = FALSE
  /\ trace_bits' = {}
  /\ UNCHANGED <<child_status, stop_soon, handling, runs, answer, restarts,
                 forks, proc, code, reading, cycle_cnt, pending>>

Client == \/ Hello \/ ReadDictionary \/ NoHandshake
          \/ WriteTestcase \/ Request \/ ReadPid \/ ReadStatus \/ TimedOut
          \/ KillChild \/ ReadLate \/ Report
          \/ Stop \/ StopReturns \/ Restart \/ Restarted

-----------------------------------------------------------------------------
(* __afl_start_forkserver in the target                                     *)

\* "Phone home and tell the parent that we're OK."
PhoneHome ==
  /\ spc = "hello"
  /\ st' = Append(st, [val |-> "hello", run |-> 0])
  /\ spc' = IF opt.shmem \/ opt.dict THEN "options" ELSE "read"
  /\ UNCHANGED <<opt, client, ctl, was_killed, child_stopped, pid, sigterm,
                 child>>

\* already_read_first: "this forkserver does not understand extended option
\* passing or does not want the dictionary", so the word was a request.
IsRequest(word) == "shmem" \notin word

\* The word after the hello is the client's choice of options, or, if the
\* client sent none, its first request already.
ReadOptions ==
  /\ spc = "options" /\ ctl # <<>>
  /\ ctl' = Tail(ctl)
  /\ was_killed' = (Head(ctl) # {})
  /\ IF "dict" \in Head(ctl) /\ opt.dict
     THEN st' = Append(st, [val |-> "dict", run |-> 0]) /\ spc' = "read"
     ELSE /\ spc' = IF IsRequest(Head(ctl)) THEN "serve" ELSE "read"
          /\ UNCHANGED st
  /\ UNCHANGED <<opt, client, child_stopped, pid, sigterm, child>>

ReadRequest ==
  /\ spc = "read" /\ ctl # <<>>
  /\ ctl' = Tail(ctl)
  /\ was_killed' = (Head(ctl) # {})
  /\ spc' = "serve"
  /\ UNCHANGED <<opt, client, st, child_stopped, pid, sigterm, child>>

\* "write off the old process": waitpid without WUNTRACED, so it waits for
\* the end of the child, however long that takes.
ReapKilled ==
  /\ spc = "serve" /\ child_stopped /\ was_killed
  /\ proc = "zombie"
  /\ proc' = "none"
  /\ child_stopped' = FALSE
  /\ UNCHANGED <<opt, client, pipes, spc, was_killed, pid, sigterm, forks, code,
                 reading, cycle_cnt, pending, trace_bits>>

Fork ==
  /\ spc = "serve" /\ ~child_stopped
  /\ spc' = "forked"
  /\ forks' = forks + 1
  /\ proc' = "running" /\ reading' = 0 /\ cycle_cnt' = LoopCount
  /\ pending' = FALSE
  /\ UNCHANGED <<opt, client, pipes, was_killed, child_stopped, pid, sigterm,
                 code, trace_bits>>

\* "if the child is alive but currently stopped"
CanContinueKilled == child_stopped
CanContinue == child_stopped /\ ~was_killed

\* "simply restart it with SIGCONT"
Continue ==
  /\ spc = "serve" /\ CanContinue
  /\ spc' = "forked"
  /\ child_stopped' = FALSE
  /\ IF proc = "stopped"
     THEN proc' = "running" /\ reading' = 0
     ELSE UNCHANGED <<proc, reading>>
  /\ UNCHANGED <<opt, client, pipes, was_killed, pid, sigterm, forks, code,
                 cycle_cnt, pending, trace_bits>>

\* The result of fork is stored and sent.
WritePid ==
  /\ spc = "forked"
  /\ pid' = forks
  /\ st' = Append(st, [val |-> "pid", run |-> forks])
  /\ spc' = "wait"
  /\ UNCHANGED <<opt, client, ctl, was_killed, child_stopped, sigterm, child>>

\* waitpid, with WUNTRACED in persistent mode, and the relay of its status.
WaitChild ==
  /\ spc = "wait"
  /\ proc = "zombie" \/ (proc = "stopped" /\ Persistent)
  /\ child_stopped' = (proc = "stopped")
  /\ proc' = IF proc = "zombie" THEN "none" ELSE proc
  /\ st' = Append(st, [val |-> IF proc = "zombie" THEN code ELSE "stopped",
                       run |-> reading])
  /\ spc' = "read"
  /\ UNCHANGED <<opt, client, ctl, was_killed, pid, sigterm, forks, code,
                 reading, cycle_cnt, pending, trace_bits>>

\* at_exit, the handler of SIGTERM: kills and reaps the child it knows of.
AtExit ==
  /\ sigterm /\ spc # "dead"
  /\ spc' = "dead"
  /\ IF pid = forks THEN proc' = "none" /\ pending' = FALSE
                    ELSE UNCHANGED <<proc, pending>>
  /\ UNCHANGED <<opt, client, pipes, was_killed, child_stopped, pid, sigterm,
                 forks, code, reading, cycle_cnt, trace_bits>>

\* The server dies on its own: out of memory, a failing fork, a bug.
ServerDies ==
  /\ Crashes /\ spc # "dead"
  /\ spc' = "dead"
  /\ UNCHANGED <<opt, client, pipes, was_killed, child_stopped, pid, sigterm,
                 child>>

Server == \/ PhoneHome \/ ReadOptions \/ ReadRequest \/ ReapKilled \/ Fork
          \/ Continue \/ WritePid \/ WaitChild \/ AtExit

-----------------------------------------------------------------------------
(* The child: main, or the body of __AFL_LOOP                               *)

\* The target reads its test case.  On the first pass of the loop the map is
\* cleared, so that what main did before it does not count.
ReadTestcase ==
  /\ proc = "running" /\ reading = 0
  /\ reading' = runs
  /\ trace_bits' = IF Persistent /\ cycle_cnt = LoopCount THEN {} ELSE trace_bits
  /\ UNCHANGED <<opt, client, pipes, server, forks, proc, code, cycle_cnt,
                 pending>>

\* Instrumented code writes the map.
Trace ==
  /\ proc = "running" /\ reading # 0
  /\ reading \notin trace_bits
  /\ trace_bits' = trace_bits \cup {reading}
  /\ UNCHANGED <<opt, client, pipes, server, forks, proc, code, reading,
                 cycle_cnt, pending>>

CyclesLeft == cycle_cnt > 1

\* __afl_persistent_loop, a later pass with cycles left: raise(SIGSTOP).
LoopStop ==
  /\ proc = "running" /\ reading \in trace_bits
  /\ Persistent /\ CyclesLeft
  /\ cycle_cnt' = cycle_cnt - 1
  /\ proc' = "stopped"
  /\ UNCHANGED <<opt, client, pipes, server, forks, code, reading, pending,
                 trace_bits>>

\* The target exits (as it does after the last cycle) or crashes.
End ==
  /\ proc = "running" /\ reading \in trace_bits
  /\ proc' = "zombie"
  /\ code' \in {"exited", "signaled"}
  /\ pending' = FALSE
  /\ UNCHANGED <<opt, client, pipes, server, forks, reading, cycle_cnt,
                 trace_bits>>

Child == ReadTestcase \/ Trace \/ LoopStop \/ End

\* The kernel delivers the signal.  A stopped process dies of SIGKILL at once
\* but keeps any other signal pending until it is continued.
Deliver ==
  /\ pending
  /\ proc = "running" \/ (proc = "stopped" /\ Signal = "SIGKILL")
  /\ proc' = "zombie"
  /\ code' = "signaled"
  /\ pending' = FALSE
  /\ UNCHANGED <<opt, client, pipes, server, forks, reading, cycle_cnt,
                 trace_bits>>

-----------------------------------------------------------------------------
Next == Client \/ Server \/ ServerDies \/ Child \/ Deliver

\* The processes are scheduled, time passes and signals arrive.  Nothing is
\* assumed of the target, which may hang, nor of the user.
Fairness ==
  /\ WF_vars(Client /\ ~WriteTestcase /\ ~Stop /\ ~Restart)
  /\ WF_vars(Server)
  /\ WF_vars(Deliver)

Spec == Init /\ [][Next]_vars /\ Fairness

-----------------------------------------------------------------------------
Flags == {"enabled", "shmem", "dict", "killed"}

FlagsTypeOK ==
  /\ last_run_timed_out \in BOOLEAN /\ stop_soon \in BOOLEAN
  /\ handling \in BOOLEAN /\ sigterm \in BOOLEAN /\ pending \in BOOLEAN
  /\ was_killed \in BOOLEAN /\ child_stopped \in BOOLEAN

DataTypeOK ==
  /\ opt \in Option
  /\ cpc \in {"hello", "dict", "idle", "request", "pid", "status", "kill",
              "late", "report", "restart", "fatal"}
  /\ child_pid \in Nat /\ child_status \in Word
  /\ runs \in Nat /\ restarts \in Nat
  /\ answer \in [run : Nat, res : {"OK", "CRASH", "TMOUT"}]
  /\ ctl \in Seq(SUBSET Flags) /\ st \in Seq(Word)
  /\ spc \in {"hello", "options", "read", "serve", "forked", "wait", "dead"}
  /\ pid \in Nat /\ forks \in Nat
  /\ proc \in {"none", "running", "stopped", "zombie"}
  /\ code \in {"exited", "signaled"}
  /\ reading \in Nat /\ cycle_cnt \in Nat
  /\ trace_bits \in SUBSET Nat

\* Every variable holds a value of its C type, and the pipes hold whole words.
TypeOK == FlagsTypeOK /\ DataTypeOK

-----------------------------------------------------------------------------
(* How client, server, pipes and child go together.  A server that died     *)
(* leaves everything as it was.                                             *)

At(where) == spc = where \/ spc = "dead"

\* The server is up and, behind the options, finds no request, or request r.
NoRequest ==
  \/ At("read") /\ ctl = <<>>
  \/ At("options") /\ opt.dict /\ ~Replies /\ ctl = <<>>
  \/ At("options") /\ opt.shmem /\ "dict" \notin Reply
     /\ Len(ctl) = 1 /\ ctl[1] = Reply
OneRequest(r) ==
  \/ At("read") /\ Len(ctl) = 1 /\ ctl[1] = r
  \/ At("options") /\ opt.dict /\ ~Replies /\ Len(ctl) = 1 /\ ctl[1] = r
  \/ At("options") /\ opt.shmem /\ "dict" \notin Reply
     /\ Len(ctl) = 2 /\ ctl[1] = Reply /\ ctl[2] = r

\* The child did all of the current test case, and nothing else.
Complete == reading = runs /\ trace_bits = {runs}

\* Status word s ends the current run.
Ends(s) ==
  /\ s.val \in Codes /\ s.run <= runs
  /\ proc # "running" /\ trace_bits \subseteq {runs}
  /\ cpc \in {"pid", "status"} /\ ~stop_soon => s.run = runs /\ trace_bits = {runs}

\* The server knows, or will know when it serves, that the child was killed.
Told == \/ last_run_timed_out
        \/ ctl # <<>> /\ ctl[Len(ctl)] = {"killed"}
        \/ spc = "serve" /\ was_killed

InHandshake ==
  /\ cpc = "hello" =>
       /\ ctl = <<>>
       /\ \/ At("hello") /\ st = <<>>
          \/ /\ At(IF opt.shmem \/ opt.dict THEN "options" ELSE "read")
             /\ Len(st) = 1
  /\ cpc = "dict" =>
       /\ opt.dict /\ ~opt.ignore /\ opt.extra
       /\ \/ At("options") /\ Len(ctl) = 1 /\ ctl[1] = Reply /\ st = <<>>
          \/ At("read") /\ ctl = <<>> /\ Len(st) = 1

BetweenRuns ==
  /\ cpc \in {"hello", "dict", "restart"} => proc # "running"
  /\ cpc \in {"idle", "request", "restart"} =>
       \/ spc = "dead" /\ (stop_soon \/ proc # "running")
       \/ NoRequest /\ st = <<>> /\ proc # "running"

InRun ==
  /\ cpc = "pid" =>
       \/ /\ \E r \in {{}, {"killed"}} : OneRequest(r)
          /\ st = <<>> /\ trace_bits = {} /\ proc # "running"
       \/ At("serve") /\ ctl = <<>> /\ st = <<>> /\ trace_bits = {} /\ proc # "running"
       \/ At("forked") /\ ctl = <<>> /\ st = <<>>
       \/ At("wait") /\ ctl = <<>> /\ Len(st) = 1
       \/ At("read") /\ ctl = <<>> /\ Len(st) = 2 /\ Ends(st[2])
  /\ cpc \in {"status", "kill", "late"} =>
       /\ ctl = <<>>
       /\ \/ At("wait") /\ st = <<>>
          \/ At("read") /\ Len(st) = 1 /\ Ends(st[1])
  /\ cpc = "report" =>
       /\ At("read") /\ ctl = <<>> /\ st = <<>>
       /\ child_status.val \in Codes /\ child_status.run <= runs
       /\ proc # "running" /\ trace_bits \subseteq {runs}
       /\ last_run_timed_out \/ (child_status.run = runs /\ trace_bits = {runs})

ChildAtWork ==
  spc \in {"forked", "wait"} /\ cpc # "fatal" =>
    /\ ~child_stopped
    /\ proc # "none"
    /\ proc = "running" => reading \in {0, runs}
    /\ trace_bits \subseteq (IF reading = 0 THEN {} ELSE {runs})
    /\ cpc \in {"pid", "status", "kill"} /\ ~stop_soon =>
         ~pending /\ (proc # "running" => Complete)

ChildAtRest ==
  /\ reading <= runs
  /\ child_stopped => spc \notin {"hello", "options"}
  /\ child_stopped /\ spc # "dead" =>
       /\ proc \in {"stopped", "zombie"}
       /\ ~stop_soon /\ cpc \notin {"restart", "fatal"} =>
            (pending \/ proc = "zombie" => Told)

Settled ==
  /\ Denies(opt) => opt.shmem
  /\ stop_soon /\ ~handling => spc = "dead" \/ cpc \in {"hello", "fatal"}
  /\ handling => stop_soon
  /\ cpc \in {"request", "pid", "status", "kill", "late", "report"} => runs > 0
  /\ cpc \in {"pid", "status", "kill"} => ~last_run_timed_out
  /\ cpc = "late" => last_run_timed_out

\* Client, server and child stay in step: each knows how far the other two
\* are from the words it has read, in spite of timeouts that come too late.
InStep == /\ Settled /\ InHandshake /\ BetweenRuns /\ InRun
          /\ ChildAtWork /\ ChildAtRest

-----------------------------------------------------------------------------
\* afl_fsrv_run_target as its callers see it (RunTarget).
Phase == CASE cpc \in {"request", "pid", "status", "kill", "late", "report"} -> "running"
           [] cpc = "fatal" -> "over"
           [] OTHER -> "idle"

Run == INSTANCE RunTarget WITH phase <- Phase, asked <- runs, stopped <- stop_soon

\* The fork server protocol implements RunTarget: an answer is about the test
\* case it was asked for, whatever timeouts, kills, stopped children, restarts
\* and handshakes came before, and every request is answered even if the
\* target hangs.
RunsAsAsked == Run!Spec

\* "any subsequent operations on fsrv->trace_bits must not be moved": when
\* afl_fsrv_run_target has returned, no child is running that could still
\* write the coverage map, not even one that was killed for a timeout.
MapIsQuiet == cpc = "idle" /\ ~stop_soon => proc # "running"

\* The map a run that was not timed out is judged by was written by that test
\* case and by no other, and completely so; after a timeout it holds nothing
\* of an earlier test case either.
MapIsOfThisRun ==
  cpc = "report" => IF last_run_timed_out THEN trace_bits \subseteq {runs}
                    ELSE trace_bits = {runs}

-----------------------------------------------------------------------------
\* What the repository's words promise and the code does not keep; README.md
\* says in which situation.

\* "ensure we kill the child on termination": once SIGTERM has ended the fork
\* server, no child of it is left.
NoOrphan == spc = "dead" /\ sigterm => ~Alive
=============================================================================
