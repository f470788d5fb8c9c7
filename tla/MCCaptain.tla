----------------------------- MODULE MCCaptain -----------------------------
(* Captain for TLC: campaigns whose results are packed (NoArchive as the    *)
(* configuration file has it) and campaigns whose results are moved.  The   *)
(* pool allows two of them at a time; a third one at the same time makes a  *)
(* shell lose its directory, but has too many states to start from Init.    *)
EXTENDS Captain, TLC

CONSTANTS j1, j2, j3

ThreeNeeds == j1 :> 1 @@ j2 :> 1 @@ j3 :> 2

VARIABLE no_archive

mc_vars == <<no_archive, vars>>

Moves == INSTANCE Captain WITH NoArchive <- TRUE

\* Three campaigns were started at once on CPUs of their own.  j2 had the mutex
\* first, and removed its file while j1 waited for it.  So j3 was given the number
\* 1 like j1, and made the directory: j1 is about to run, j3 about to see that the
\* directory is there, and j2 waits for j3.  No CPU is taken from here on.
Overtaken ==
  /\ job = None /\ got = {} /\ cpus = {1, 2, 3}
  /\ affinity = j1 :> {1} @@ j2 :> {2} @@ j3 :> {3}
  /\ pc = j1 :> "run" @@ j2 :> "lock" @@ j3 :> "isdir"
  /\ dir = j1 :> "cache" @@ j2 :> "ar" @@ j3 :> "cache"
  /\ cid = [j \in Jobs |-> [cache |-> IF j = j2 THEN 0 ELSE 1, ar |-> 0]]
  /\ path = [m \in Muxes |-> 0]
  /\ fd = j1 :> 0 @@ j2 :> 2 @@ j3 :> 2
  /\ owner = [i \in Inode |-> IF i = 2 THEN j3 ELSE None]
  /\ made = [cache |-> {0, 1}, ar |-> {0}]
  /\ locked = [d \in Dirs |-> {j1}]
  /\ archive = {}

mc_Init == (Init \/ Overtaken) /\ no_archive \in BOOLEAN

Pack(A) == ~no_archive /\ A /\ UNCHANGED no_archive
Move(A) == no_archive /\ A /\ UNCHANGED no_archive

mc_Next == Pack(Next) \/ Move(Moves!Next)

mc_Spec ==
  /\ mc_Init /\ [][mc_Next]_mc_vars
  /\ WF_mc_vars(Pack(Main) \/ Move(Moves!Main))
  /\ \A j \in Jobs : WF_mc_vars(Pack(Job(j)) \/ Move(Moves!Job(j)))
=============================================================================
