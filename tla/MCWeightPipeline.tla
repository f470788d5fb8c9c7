-------------------------- MODULE MCWeightPipeline --------------------------
(***************************************************************************)
(* The PST's own parts for TLC.  A behaviour makes a -j file               *)
(* ("weights", WeightPipeline), or selects entries by weight ("select",    *)
(* PstSelect); the variables of the other part keep their first value.     *)
(***************************************************************************)
EXTENDS WeightedTrace

CONSTANTS f, g, h, NONE

mc_Func == {f, g, h}

\* Every call graph of three functions, recursive ones included, crossed with
\* a few ways to spread their blocks over the map.
mc_callers == [mc_Func -> SUBSET mc_Func]

own_blocks == (f :> << <<1>>, <<NONE, 2, 1>> >>) @@ (g :> << <<3>> >>) @@ (h :> << <<NONE>> >>)
pair_shares == (f :> << <<1>>, <<2>> >>) @@ (g :> << <<2>>, <<3>> >>) @@ (h :> << <<3>> >>)
all_share == (f :> << <<1>> >>) @@ (g :> << <<1>>, <<2>> >>) @@ (h :> << <<1>> >>)

mc_Programs ==
  [callers : {c \in mc_callers : \A x \in mc_Func : Cardinality(c[x]) <= 2},
   blocks : {own_blocks, pair_shares, all_share},
   found : {mc_Func, {f, g}}]

Commits(dates) == [i \in DOMAIN dates |-> [date |-> dates[i], lines |-> 1]]

\* f was changed often, g once by a commit whose message has the word commit
\* as well, h has two definitions, one without history.
mc_Histories ==
  {(f :> {Commits(<<5, 3, 2, 1>>)}) @@ (g :> {<<[date |-> 4, lines |-> 2]>>})
     @@ (h :> {<<>>, Commits(<<6, 4>>)})}

-----------------------------------------------------------------------------
CONSTANTS MaxItem, MaxWeight, MaxDraws

VARIABLES part, bitmap_weight, disabled, fuzz_level, selected, draws

selection == <<bitmap_weight, disabled, fuzz_level, selected, draws>>
mc_vars == <<part, vars, selection>>

Select == INSTANCE PstSelect

ASSUME Select!SelectAssumption

NoSelection ==
  /\ bitmap_weight = [i \in Select!Items |-> 0] /\ disabled = [i \in Select!Items |-> FALSE]
  /\ Select!Init

mc_Init ==
  \/ part = "weights" /\ Init /\ NoSelection
  \/ /\ part = "select"
     /\ program = [callers |-> [x \in mc_Func |-> {}], blocks |-> own_blocks, found |-> mc_Func]
     /\ Init /\ Select!Init

Selects(A) == part = "select" /\ A /\ UNCHANGED <<part, vars>>

mc_Next ==
  \/ part = "weights" /\ Next /\ UNCHANGED <<part, selection>>
  \/ Selects(Select!Next)

mc_Spec == mc_Init /\ [][mc_Next]_mc_vars /\ WF_mc_vars(Selects(Select!Greedy))

\* Selecting greedily keeps the fuzz levels of entry 0 and of all the heavier
\* enabled entries together (afl-fuzz-queue.c:67, "DOES THIS MAKE SENSE?"), and
\* however far random selections pushed an entry ahead, the greedy branch comes
\* back to it: every enabled entry heavier than entry 0 is fuzzed again and
\* again.
HeavyInTurn == part = "select" => []Select!LeadBounded /\ Select!HeavyInTurn
=============================================================================
