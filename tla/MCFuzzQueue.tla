---------------------------- MODULE MCFuzzQueue ----------------------------
(* Instances of FuzzQueue for TLC.                                          *)
EXTENDS FuzzQueue

\* A -j file for a map of two bytes: hitting the second weighs more.
weight_file == << [bitmap_offset |-> 0, weight |-> 1],
                  [bitmap_offset |-> 1, weight |-> 2] >>

W == INSTANCE BitmapWeight WITH bitmap_weight_array <- weight_file, U32 <- 65536

mc_weights == [t \in SUBSET Bytes |-> W!pst_fuzz_calculate_bitmap_weight(t)]

=============================================================================
