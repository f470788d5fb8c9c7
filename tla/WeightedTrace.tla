---------------------------- MODULE WeightedTrace ----------------------------
(***************************************************************************)
(* The file that WeightPipeline writes, given to afl-fuzz with -j: its     *)
(* tuples are the bitmap_weight_array of BitmapWeight.                     *)
(***************************************************************************)
EXTENDS WeightPipeline

W == INSTANCE BitmapWeight WITH bitmap_weight_array <- file

\* "Gets the total weight for the given bitmap": the weight afl-fuzz gives a
\* trace is the sum of those of the offsets it hits.
TotalWeight ==
  pc = "written" =>
    \A mem \in SUBSET Offset :
      W!pst_fuzz_calculate_bitmap_weight(mem) =
        MapThenSumSet(LAMBDA e : e.weight, {e \in Range(file) : e.bitmap_offset \in mem})
=============================================================================
