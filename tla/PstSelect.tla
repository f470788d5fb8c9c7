------------------------------ MODULE PstSelect ------------------------------
(***************************************************************************)
(* pst_fuzz_select_next_queue_entry (AFLplusplus/src/afl-fuzz-queue.c) over *)
(* a long campaign: what its greedy branch does to entries that are not the *)
(* heaviest.  FuzzQueue has the same selection step by step, in a queue     *)
(* that changes; here the queue stays and the fuzz levels grow without end. *)
(*                                                                         *)
(* The scan only compares fuzz levels, and only those of the entries it can *)
(* return: they are counted from the lowest of these.                       *)
(***************************************************************************)
EXTENDS Integers, FiniteSetsExt

CONSTANTS MaxItem,    \* the queue entries are 0 .. MaxItem
          MaxWeight,  \* bound on the weights
          MaxDraws    \* bound on the number of random selections

SelectAssumption ==
  {MaxItem, MaxWeight, MaxDraws} \subseteq Nat

\* Where the levels are cut off; LeadBounded says that they never get there.
MaxLead == MaxDraws + 2

VARIABLES bitmap_weight, disabled,
          fuzz_level,  \* see above
          selected,    \* the entry selected last
          draws        \* the number of random selections so far

vars == <<bitmap_weight, disabled, fuzz_level, selected, draws>>

Items == 0 .. MaxItem

Enabled == {i \in Items : ~disabled[i]}

\* What the scan may return.
Rivals == {0} \cup {i \in Enabled : bitmap_weight[i] > bitmap_weight[0]}

Init ==
  /\ bitmap_weight \in [Items -> 0 .. MaxWeight]
  /\ disabled \in [Items -> BOOLEAN] /\ Enabled # {}
  /\ fuzz_level = [i \in Items |-> 0]
  /\ selected = 0 /\ draws = 0

\* The comparison of entry i with the highest so far
HigherByWeight(i, highest) ==
  i \in Enabled /\ bitmap_weight[i] > bitmap_weight[highest]
Higher(i, highest) ==
  /\ bitmap_weight[i] > bitmap_weight[highest]
  /\ fuzz_level[i] <= fuzz_level[highest]
  /\ i \in Enabled

Scan[i \in Items] ==
  IF i = 0 THEN 0
  ELSE LET highest == Scan[i - 1] IN IF Higher(i, highest) THEN i ELSE highest

\* The entry is fuzzed to its end: abandon_entry increments its fuzz_level.  A
\* fuzz_one that skips its entry changes nothing here.
Fuzz(i) ==
  LET level == [fuzz_level EXCEPT ![i] = @ + 1]
      least == Min({level[j] : j \in Rivals})
  IN /\ selected' = i
     /\ fuzz_level' = [j \in Items |->
                          IF j \in Rivals THEN Min({level[j] - least, MaxLead})
                          ELSE level[j]]
     /\ UNCHANGED <<bitmap_weight, disabled>>

Greedy == (\E i \in {Scan[MaxItem]} : Fuzz(i)) /\ UNCHANGED draws

Random ==
  /\ draws < MaxDraws /\ draws' = draws + 1
  /\ \E i \in Enabled : Fuzz(i)

Next == Greedy \/ Random

Spec == Init /\ [][Next]_vars

\* The main loop selects for ever, and nine times out of ten greedily.
FairSpec == Spec /\ WF_vars(Greedy)

-----------------------------------------------------------------------------
(* Selecting greedily keeps the fuzz levels of entry 0 and of all the heavier   *)
(* enabled entries together: only random selections push one ahead by more     *)
(* than one (line 67, "DOES THIS MAKE SENSE?").                                 *)
LeadBounded == \A i \in Rivals : fuzz_level[i] <= draws + 1

(* However far random selections pushed an entry ahead, the greedy branch comes *)
(* back to it: every enabled entry heavier than entry 0 is fuzzed again and     *)
(* again (lines 57-68).                                                         *)
HeavyInTurn ==
  \A i \in Items : (i \in Rivals) ~> (selected = i)

=============================================================================
