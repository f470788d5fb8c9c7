--------------------------- MODULE MCSyncFuzzers ---------------------------
(***************************************************************************)
(* sync_fuzzers for TLC, in four situations: a main node and one secondary *)
(* with three cases to exchange ("import", the constants of the            *)
(* configuration), a main node and two secondaries with one case           *)
(* ("spread"), three secondaries that elect a main node ("elect"), and the *)
(* directory of another fuzzer that sync_fuzzers ends with ("foreign",     *)
(* ForeignSync, whose variables otherwise stay as they are).               *)
(***************************************************************************)
EXTENDS SyncFuzzers

CONSTANTS m, a, b, Files, MaxTime

VARIABLES
  situation,
  now, st_mtime, mtime, scanning, nl, mtime_max, imports

foreign == <<now, st_mtime, mtime, scanning, nl, mtime_max, imports>>
mc_vars == <<situation, vars, foreign>>

Three == {m, a, b}

Spread == INSTANCE SyncFuzzers WITH
  Nodes <- Three, Mains <- {m}, Cases <- {"x"}, Crashes <- {b}, Replaced <- {}
Elect == INSTANCE SyncFuzzers WITH
  Nodes <- Three, Mains <- {}, Cases <- {}, Crashes <- {b}, Replaced <- {a}
Foreign == INSTANCE ForeignSync

ASSUME Foreign!MaxTimeAssumption

mc_Init ==
  /\ Foreign!Init
  /\ \/ situation \in {"import", "foreign"} /\ Init
     \/ situation = "spread" /\ Spread!Init
     \/ situation = "elect" /\ Elect!Init

In(s, A) == situation = s /\ A /\ UNCHANGED <<situation, foreign>>
InForeign(A) == situation = "foreign" /\ A /\ UNCHANGED <<situation, vars>>

mc_Next ==
  \/ In("import", Next)
  \/ In("spread", Spread!Next)
  \/ In("elect", Elect!Next)
  \/ InForeign(Foreign!Next)

mc_Spec ==
  /\ mc_Init /\ [][mc_Next]_mc_vars
  /\ \A n \in Three : /\ WF_mc_vars(In("spread", Spread!Sync(n)))
                      /\ WF_mc_vars(In("elect", Elect!Sync(n)))
  /\ WF_mc_vars(InForeign(Foreign!Sync))

\* "The main node will pick it up and make it available to the other secondary
\* nodes over time": what one node has found, all that run learn, as long as the
\* main node runs.
EveryCaseSpreads == situation = "spread" => Spread!CaseSpreads

\* "If no main node is present at a sync one secondary node automatically
\* becomes a temporary main node": no node runs without one for ever, unless a
\* main node that was killed has left its is_main_node file.
MainElected == situation = "elect" => Elect!MainIsElected

\* Every file of the other fuzzer is run in the end, whatever its date: one
\* that was written in the same second as the newest of an earlier scan, during
\* that scan, or that came with an old date; if again and again a scan finds
\* nothing new.
EveryFileImported == situation = "foreign" => Foreign!EveryFileImported
=============================================================================
