----------------------------- MODULE AutoTokens -----------------------------
(***************************************************************************)
(* How fuzz_one_original finds dictionary tokens in passing                *)
(* (AFLplusplus/src/afl-fuzz-one.c, stage "bitflip 1/1"): flipping the      *)
(* lowest bit of every byte of a magic value gives the same distinctive    *)
(* trace.  A byte stands for its position, a trace for its checksum.       *)
(***************************************************************************)
EXTENDS Naturals, Sequences, FiniteSets

CONSTANTS
  MaxLen,                          \* bound on the length of the entry
  Cksums, Clean,                   \* checksums; that of the entry as it is
  MIN_AUTO_EXTRA, MAX_AUTO_EXTRA

AutoTokensAssumption ==
  /\ MaxLen \in Nat \ {0} /\ Clean \in Cksums
  /\ MIN_AUTO_EXTRA \in 2 .. MAX_AUTO_EXTRA /\ MAX_AUTO_EXTRA \in Nat

VARIABLES
  len,                \* of the entry
  cksums,             \* the checksums seen so far, one per byte
  prev_cksum,
  a_collect, a_len,
  added               \* the tokens given to maybe_add_auto

vars == <<len, cksums, prev_cksum, a_collect, a_len, added>>

Init ==
  /\ len \in 1 .. MaxLen
  /\ cksums = <<>> /\ prev_cksum = Clean
  /\ a_collect = <<>> /\ a_len = 0
  /\ added = <<>>

\* maybe_add_auto, if the length is right
Added(s, token, n) ==
  IF n >= MIN_AUTO_EXTRA /\ n =< MAX_AUTO_EXTRA
  THEN Append(s, SubSeq(token, 1, n)) ELSE s

\* a_collect[a_len] = byte, if there is room
Collect(token, n, byte) ==
  IF n < MAX_AUTO_EXTRA THEN Append(SubSeq(token, 1, n), byte) ELSE token

AtEndNever(byte, cksum) == FALSE
AtEnd(byte, cksum) == byte = len /\ cksum = prev_cksum

FlipLowestBit ==
  LET byte == Len(cksums) + 1
  IN /\ byte =< len
     /\ \E cksum \in Cksums :
          LET ended   == AtEnd(byte, cksum)
              changed == cksum # prev_cksum
              \* after the first if: the collection and its length
              col == IF ended THEN Collect(a_collect, a_len, byte) ELSE a_collect
              n   == IF ended THEN a_len + 1 ELSE IF changed THEN 0 ELSE a_len
          IN /\ added' = IF ended THEN Added(added, col, n)
                         ELSE IF changed THEN Added(added, a_collect, a_len)
                         ELSE added
             /\ prev_cksum' = IF changed THEN cksum ELSE prev_cksum
             /\ IF cksum # Clean
                THEN a_collect' = Collect(col, n, byte) /\ a_len' = n + 1
                ELSE a_collect' = col /\ a_len' = n
             /\ cksums' = Append(cksums, cksum)
     /\ UNCHANGED len

Next == FlipLowestBit

Spec == Init /\ [][Next]_vars

-----------------------------------------------------------------------------
\* The longest stretches of bytes with one checksum that is not the clean one
Stretches ==
  {r \in {<<j, k>> : j, k \in 1 .. len} :
     /\ r[1] =< r[2] /\ cksums[r[1]] # Clean
     /\ \A b \in r[1] .. r[2] : cksums[b] = cksums[r[1]]
     /\ r[1] > 1 => cksums[r[1] - 1] # cksums[r[1]]
     /\ r[2] < len => cksums[r[2] + 1] # cksums[r[1]]}

Token(r) == [k \in 1 .. r[2] - r[1] + 1 |-> r[1] + k - 1]

(* The tokens found are the longest stretches of bytes that "always [produce]  *)
(* the same, distinctive path" and are neither too short nor too long, each    *)
(* once, the one at the end of the file included (lines 671-748).              *)
TokensAreStretches ==
  Len(cksums) = len =>
    LET good == {Token(r) : r \in {r \in Stretches :
                   r[2] - r[1] + 1 \in MIN_AUTO_EXTRA .. MAX_AUTO_EXTRA}}
    IN {added[k] : k \in DOMAIN added} = good /\ Len(added) = Cardinality(good)

=============================================================================
