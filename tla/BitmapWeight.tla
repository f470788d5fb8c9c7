---------------------------- MODULE BitmapWeight ----------------------------
(***************************************************************************)
(* The PST weight of a trace: AFLplusplus/src/afl-fuzz-bitmap.c adds up,   *)
(* in a u32, the weights of the map bytes the trace hits, as the file      *)
(* given with -j lists them.                                               *)
(***************************************************************************)
EXTENDS Integers, SequencesExt

CONSTANTS
  bitmap_weight_array,   \* the tuples of -j, in file order
  U32                    \* 2^32, or a smaller modulus

\* One iteration of the loop; mem is the set of map bytes that are not zero.
AddWeight(mem, total_weight, tuple) ==
  IF tuple.bitmap_offset \in mem THEN (total_weight + tuple.weight) % U32
                                 ELSE total_weight

pst_fuzz_calculate_bitmap_weight(mem) ==
  FoldLeft(LAMBDA w, t : AddWeight(mem, w, t), 0, bitmap_weight_array)

=============================================================================
