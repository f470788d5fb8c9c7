----------------------------- MODULE DetStages -----------------------------
(***************************************************************************)
(* The deterministic stages of fuzz_one_original                           *)
(* (AFLplusplus/src/afl-fuzz-one.c): walking bit and byte flips, sums and  *)
(* differences, interesting values and dictionary tokens, tried at every   *)
(* position of one queue entry.  could_be_bitflip, could_be_arith and      *)
(* could_be_interest leave out what an earlier stage is taken to have      *)
(* tried, the effector map what has no effect.  One step is one position   *)
(* of one stage.  A word is the sequence of its bytes, the lowest address  *)
(* first, as the little endian build loads it; a XOR is a set of bits.     *)
(***************************************************************************)
EXTENDS Integers, Sequences, FiniteSetsExt, SequencesExt

CONSTANTS
  Entries,         \* what may be fuzzed: [buf, no_arith, extras, a_extras]
  ARITH_MAX,
  INTERESTING_8, INTERESTING_16, INTERESTING_32,
  EFF_MAP_SCALE,   \* bytes per cell of the map, 1 << EFF_MAP_SCALE2
  EFF_MIN_LEN, EFF_MAX_PERC,
  max_det_extras, USE_AUTO_EXTRAS, MAX_FILE

Bytes == 0 .. 255

DetAssumption ==
  /\ ARITH_MAX \in 1 .. 127 /\ EFF_MAP_SCALE \in Nat \ {0}
  /\ \A e \in Entries : e.buf # <<>> /\ Range(e.buf) \subseteq Bytes
  \* the order that load_extras, add_extra and maybe_add_auto keep
  /\ \A e \in Entries : \A x \in {e.extras, e.a_extras} :
       \A j, k \in DOMAIN x : j < k => Len(x[j]) =< Len(x[k])

VARIABLES
  entry,               \* the queue entry; entry.buf is in_buf
  out_buf,
  stage, i,            \* where the loops are
  stage_cur, stage_max,
  eff_map, eff_cnt,
  tried,               \* what common_fuzz_stuff ran
  passed_det

vars == <<entry, out_buf, stage, i, stage_cur, stage_max, eff_map, eff_cnt,
          tried, passed_det>>

in_buf == entry.buf
len    == Len(entry.buf)

-----------------------------------------------------------------------------
(* Words and their bits *)

bits == [v \in Bytes |-> {k \in 0 .. 7 : (v \div 2^k) % 2 = 1}]

Part(w, p, n) == SubSeq(w, p + 1, p + n)

\* buf with w written over it at p
Over(buf, p, w) ==
  [k \in DOMAIN buf |-> IF k \in p + 1 .. p + Len(w) THEN w[k - p] ELSE buf[k]]

\* old ^ new, bit 0 the lowest of the word as it is loaded
Xor(old, new) ==
  UNION {{8 * (k - 1) + b : b \in (bits[old[k]] \ bits[new[k]])
                                  \cup (bits[new[k]] \ bits[old[k]])}
         : k \in DOMAIN old}

\* w + d, modulo the width of w
Plus(w, d) ==
  LET carry[k \in 1 .. Len(w)] ==
        IF k = 1 THEN d ELSE (w[k - 1] + carry[k - 1]) \div 256
  IN [k \in DOMAIN w |-> (w[k] + carry[k]) % 256]

\* The sum leaves the lower half of the word.
Carries(w, d) ==
  LET half == Part(w, 0, Len(w) \div 2)
      low[k \in 0 .. Len(half)] ==
        IF k = 0 THEN 0 ELSE low[k - 1] + half[k] * 256^(k - 1)
  IN low[Len(half)] + d \notin 0 .. 256^Len(half) - 1

\* The integer v in n bytes
Value(v, n) == [k \in 1 .. n |-> (v \div 256^(k - 1)) % 256]

interesting == [n \in {1, 2, 4} |->
  {Value(v, n) : v \in INTERESTING_8
                       \cup (IF n > 1 THEN INTERESTING_16 ELSE {})
                       \cup (IF n > 2 THEN INTERESTING_32 ELSE {})}]

-----------------------------------------------------------------------------
(* What an earlier stage is taken to have tried *)

could_be_bitflip(xor) ==
  \/ xor = {}
  \/ /\ xor = Min(xor) .. Max(xor)
     /\ \/ Cardinality(xor) \in {1, 2, 4}
        \/ Cardinality(xor) \in {8, 16, 32} /\ Min(xor) % 8 = 0

NearByOneMore(a, b) == \E d \in -(ARITH_MAX + 1) .. ARITH_MAX + 1 : b = Plus(a, d)
Near(a, b) == \E d \in -ARITH_MAX .. ARITH_MAX : b = Plus(a, d)

\* The aligned parts of n bytes in which two words differ
Parts(old, new, n) ==
  {p \in {n * k : k \in 0 .. (Len(old) \div n) - 1} :
     Part(old, p, n) # Part(new, p, n)}

could_be_arith(old, new) ==
  \/ old = new
  \/ \E n \in {1, 2, 4} :
       /\ n =< Len(old)
       /\ Cardinality(Parts(old, new, n)) = 1
       /\ \E p \in Parts(old, new, n) :
            LET a == Part(old, p, n)
                b == Part(new, p, n)
            IN Near(a, b) \/ Near(Reverse(a), Reverse(b))

could_be_interest(old, new, check_le) ==
  LET blen == Len(old)
  IN \/ old = new
     \/ \E p \in 0 .. blen - 1, w \in interesting[1] : new = Over(old, p, w)
     \/ /\ blen = 4 \/ check_le
        /\ \E p \in 0 .. blen - 2, w \in interesting[2] :
             \/ new = Over(old, p, w)
             \/ blen > 2 /\ new = Over(old, p, Reverse(w))
     \/ blen = 4 /\ check_le /\ new \in interesting[4]

-----------------------------------------------------------------------------
(* The stages *)

Stages == <<"flip1", "flip2", "flip4", "flip8", "flip16", "flip32",
            "arith8", "arith16", "arith32", "int8", "int16", "int32",
            "ext_UO", "ext_UI", "ext_AO", "ext_AI">>

walking == [flip1 |-> 1, flip2 |-> 2, flip4 |-> 4]

blen == [flip16 |-> 2, flip32 |-> 4, arith8 |-> 1, arith16 |-> 2, arith32 |-> 4,
         int8 |-> 1, int16 |-> 2, int32 |-> 4]

tokens == [ext_UO |-> entry.extras, ext_UI |-> entry.extras,
           ext_AO |-> SubSeq(entry.a_extras, 1,
                             Min({USE_AUTO_EXTRAS, Len(entry.a_extras)})),
           ext_AI |-> entry.a_extras]

Arith    == {"arith8", "arith16", "arith32"}
Interest == {"int8", "int16", "int32"}

\* The labels skip_bitflip, skip_arith, skip_interest, skip_user_extras and
\* skip_extras
Runs(s) ==
  /\ s \in DOMAIN blen => len >= blen[s]
  /\ s \in Arith \cup {"int16", "int32"} => ~entry.no_arith
  /\ s \in DOMAIN tokens => tokens[s] # <<>>

Positions(s) ==
  CASE s \in DOMAIN walking       -> 1
    [] s = "flip8"                -> len
    [] s \in DOMAIN blen          -> len - blen[s] + 1
    [] s \in {"ext_UO", "ext_AO"} -> len
    [] s \in {"ext_UI", "ext_AI"} -> len + 1

PerPosition(s) ==
  CASE s \in DOMAIN walking              -> 8 * len - walking[s] + 1
    [] s \in {"flip8", "flip16", "flip32"} -> 1
    [] s = "arith8"                      -> 2 * ARITH_MAX
    [] s \in {"arith16", "arith32"}      -> 4 * ARITH_MAX
    [] s = "int8"                        -> Cardinality(interesting[1])
    [] s \in {"int16", "int32"}          -> 2 * Cardinality(interesting[blen[s]])
    [] s \in DOMAIN tokens               -> Len(tokens[s])

EFF_APOS(p) == p \div EFF_MAP_SCALE
EFF_ALEN(l) == EFF_APOS(l) + (IF l % EFF_MAP_SCALE = 0 THEN 0 ELSE 1)

\* Some byte of the n at p is flagged.
Effective(p, n) == \E k \in EFF_APOS(p) .. EFF_APOS(p + n - 1) : eff_map[k] = 1

Init ==
  /\ entry \in Entries
  /\ out_buf = in_buf
  /\ stage = "flip1" /\ i = 0
  /\ stage_cur = 0 /\ stage_max = PerPosition("flip1")
  /\ eff_map = [k \in 0 .. EFF_ALEN(len) - 1 |->
                  IF k \in {0, EFF_APOS(len - 1)} THEN 1 ELSE 0]
  /\ eff_cnt = IF EFF_APOS(len - 1) # 0 THEN 2 ELSE 1
  /\ tried = {in_buf}      \* "Get a clean cksum."
  /\ passed_det = FALSE

\* Run the test cases of bufs, and drop n from the number expected.
Exec(bufs, ran, n) ==
  /\ tried' = tried \cup bufs
  /\ stage_cur' = stage_cur + ran
  /\ stage_max' = stage_max - n

-----------------------------------------------------------------------------
(* Bit and byte flips *)

FLIP_BIT(buf, b) ==
  LET bit == 7 - (b % 8)
  IN [buf EXCEPT ![(b \div 8) + 1] = IF bit \in bits[@] THEN @ - 2^bit ELSE @ + 2^bit]

Flipped(b, n) ==
  LET flip[k \in 0 .. n] == IF k = 0 THEN in_buf ELSE FLIP_BIT(flip[k - 1], b + k - 1)
  IN flip[n]

WalkingBits ==
  /\ stage \in DOMAIN walking /\ i = 0
  /\ Exec({Flipped(b, walking[stage]) : b \in 0 .. stage_max - 1}, stage_max, 0)
  /\ i' = 1
  /\ UNCHANGED <<entry, out_buf, stage, eff_map, eff_cnt, passed_det>>

Complement(w) == [k \in DOMAIN w |-> 255 - w[k]]

\* The walking byte also finds the bytes that have an effect: differs says that
\* the checksum of the trace changed.
WalkingByte ==
  /\ stage = "flip8" /\ i < len
  /\ Exec({Over(out_buf, i, Complement(Part(out_buf, i, 1)))}, 1, 0)
  /\ \E differs \in BOOLEAN :
       IF eff_map[EFF_APOS(i)] = 0 /\ (len < EFF_MIN_LEN \/ differs)
       THEN /\ eff_map' = [eff_map EXCEPT ![EFF_APOS(i)] = 1]
            /\ eff_cnt' = eff_cnt + 1
       ELSE UNCHANGED <<eff_map, eff_cnt>>
  /\ i' = i + 1
  /\ UNCHANGED <<entry, out_buf, stage, passed_det>>

-----------------------------------------------------------------------------
(* Words: longer flips, arithmetic, interesting values *)

Sum(w, d, be) == IF be THEN Reverse(Plus(Reverse(w), d)) ELSE Plus(w, d)

Sums(w) ==
  LET n == Len(w)
  IN {[by |-> <<d, be>>, new |-> Sum(w, d, be),
       run |-> /\ n > 1 => Carries(IF be THEN Reverse(w) ELSE w, d)
               /\ ~could_be_bitflip(Xor(w, Sum(w, d, be)))]
      : d \in (-ARITH_MAX .. ARITH_MAX) \ {0},
        be \in IF n = 1 THEN {FALSE} ELSE BOOLEAN}

Values(w) ==
  LET n == Len(w)
  IN {LET new == IF be THEN Reverse(v) ELSE v
      IN [by |-> <<v, be>>, new |-> new,
          run |-> /\ be => v # new
                  /\ ~could_be_bitflip(Xor(w, new))
                  /\ ~could_be_arith(w, new)
                  /\ n > 1 => ~could_be_interest(w, new, be)]
      : v \in interesting[n], be \in IF n = 1 THEN {FALSE} ELSE BOOLEAN}

Attempts(s, w) ==
  CASE s \in {"flip16", "flip32"} -> {[by |-> 0, new |-> Complement(w), run |-> TRUE]}
    [] s \in Arith               -> Sums(w)
    [] s \in Interest            -> Values(w)

WalkingWord ==
  LET n   == blen[stage]
      ran == {a \in Attempts(stage, Part(out_buf, i, n)) : a.run}
  IN /\ stage \in DOMAIN blen /\ i =< len - n
     /\ IF Effective(i, n)
        THEN Exec({Over(out_buf, i, a.new) : a \in ran}, Cardinality(ran),
                  PerPosition(stage) - Cardinality(ran))
        ELSE Exec({}, 0, PerPosition(stage))
     /\ i' = i + 1
     /\ UNCHANGED <<entry, out_buf, stage, eff_map, eff_cnt, passed_det>>

-----------------------------------------------------------------------------
(* Dictionary tokens *)

\* The loop over the tokens at one position: the buffer is restored only after
\* it, since "extras are sorted by size".  keep is what rand_below leaves.
Overwrite(x, keep) ==
  LET loop[j \in 0 .. Len(x)] ==
        IF j = 0 THEN [out |-> out_buf, last_len |-> 0, ran |-> <<>>]
        ELSE LET l == loop[j - 1]
                 n == Len(x[j])
             IN IF \/ j \notin keep
                   \/ n > len - i
                   \/ x[j] = Part(l.out, i, n)
                   \/ ~Effective(i, n)
                THEN l
                ELSE LET out == Over(l.out, i, x[j])
                     IN [out |-> out, last_len |-> n, ran |-> Append(l.ran, out)]
  IN loop[Len(x)]

\* memcpy(out_buf + i, in_buf + i, last_len)
Restored(out, last_len) == Over(out, i, Part(in_buf, i, last_len))

ExtrasOver ==
  LET x == tokens[stage]
  IN /\ stage \in {"ext_UO", "ext_AO"} /\ i < len
     /\ \E keep \in IF stage = "ext_UO" /\ Len(x) > max_det_extras
                    THEN SUBSET DOMAIN x ELSE {DOMAIN x} :
          LET l == Overwrite(x, keep)
          IN /\ Exec(Range(l.ran), Len(l.ran), Len(x) - Len(l.ran))
             /\ out_buf' = Restored(l.out, l.last_len)
     /\ i' = i + 1
     /\ UNCHANGED <<entry, stage, eff_map, eff_cnt, passed_det>>

Insertion(buf, p, x) == Part(buf, 0, p) \o x \o Part(buf, p, Len(buf) - p)

ExtrasInsert ==
  LET x    == tokens[stage]
      fits == {j \in DOMAIN x : len + Len(x[j]) =< MAX_FILE}
  IN /\ stage \in {"ext_UI", "ext_AI"} /\ i =< len
     /\ Exec({Insertion(out_buf, i, x[j]) : j \in fits}, Cardinality(fits),
             Len(x) - Cardinality(fits))
     /\ i' = i + 1
     /\ UNCHANGED <<entry, out_buf, stage, eff_map, eff_cnt, passed_det>>

-----------------------------------------------------------------------------
\* The map is too dense to be of use: flag everything.
Dense == eff_cnt # EFF_ALEN(len) /\ (eff_cnt * 100) \div EFF_ALEN(len) > EFF_MAX_PERC

\* From one stage to the next that runs; after the last, mark_as_det_done.
NextStage ==
  LET at    == CHOOSE k \in DOMAIN Stages : Stages[k] = stage
      later == {k \in at + 1 .. Len(Stages) : Runs(Stages[k])}
      s     == Stages[Min(later)]
  IN /\ stage \in Range(Stages) /\ i = Positions(stage)
     /\ eff_map' = IF stage = "flip8" /\ Dense THEN [k \in DOMAIN eff_map |-> 1]
                   ELSE eff_map
     /\ i' = 0 /\ stage_cur' = 0
     /\ IF later = {}
        THEN stage' = "done" /\ passed_det' = TRUE /\ stage_max' = 0
        ELSE /\ stage' = s /\ stage_max' = Positions(s) * PerPosition(s)
             /\ UNCHANGED passed_det
     /\ UNCHANGED <<entry, out_buf, eff_cnt, tried>>

\* common_fuzz_stuff returns 1: the user stops or skips, the target times out.
Abandon ==
  /\ stage \in Range(Stages) /\ i < Positions(stage)
  /\ stage' = "abandoned"
  /\ UNCHANGED <<entry, out_buf, i, stage_cur, stage_max, eff_map, eff_cnt, tried,
                 passed_det>>

Next ==
  \/ WalkingBits \/ WalkingByte \/ WalkingWord \/ ExtrasOver \/ ExtrasInsert
  \/ NextStage \/ Abandon

Spec == Init /\ [][Next]_vars

-----------------------------------------------------------------------------
(* What a stage is there to try, whatever the filters say *)

Of(s) ==
  CASE s \in DOMAIN walking ->
         {Flipped(b, walking[s]) : b \in 0 .. 8 * len - walking[s]}
    [] s = "flip8" ->
         {Over(in_buf, p, Complement(Part(in_buf, p, 1))) : p \in 0 .. len - 1}
    [] s \in DOMAIN blen ->
         UNION {{Over(in_buf, p, a.new) : a \in Attempts(s, Part(in_buf, p, blen[s]))}
                : p \in 0 .. len - blen[s]}
    [] s \in {"ext_UO", "ext_AO"} ->
         {Over(in_buf, p, x) : <<p, x>> \in
            {y \in (0 .. len - 1) \X Range(tokens[s]) : y[1] + Len(y[2]) =< len}}
    [] s \in {"ext_UI", "ext_AI"} ->
         {Insertion(in_buf, p, x) : <<p, x>> \in
            {y \in (0 .. len) \X Range(tokens[s]) : len + Len(y[2]) =< MAX_FILE}}

Running == {s \in Range(Stages) : Runs(s)}

\* A byte that the map flags is not as it was.
HasEffect(b) ==
  Len(b) = len => \E k \in DOMAIN b : b[k] # in_buf[k] /\ Effective(k - 1, 1)

\* With more than max_det_extras tokens chance decides which are written over
\* the entry.
ByChance == IF Len(entry.extras) > max_det_extras THEN {"ext_UO"} ELSE {}

Missed ==
  {b \in UNION {Of(s) : s \in Running \ ByChance} : HasEffect(b) /\ b \notin tried}

\* A run of 2 or 4 bits of the loaded word that crosses from byte to byte: not
\* a run of the bits that FLIP_BIT walks.
AcrossBytes(b) ==
  LET x == Xor(in_buf, b)
  IN /\ Len(b) = len
     /\ Cardinality(x) \in {2, 4} /\ x = Min(x) .. Max(x)
     /\ Min(x) \div 8 # Max(x) \div 8

\* A byte set to what the sums, had they been run, would have made of it.
LeftToSums(b) ==
  /\ entry.no_arith /\ Len(b) = len
  /\ \E p \in 0 .. len - 1 :
       Parts(in_buf, b, 1) = {p} /\ Near(Part(in_buf, p, 1), Part(b, p, 1))

(* What is missed is only what could_be_bitflip (line 139) takes for a flip    *)
(* of 2 or 4 bits "anywhere" in a word though no walking flip makes it, and,   *)
(* with AFL_NO_ARITH, the interesting bytes that are left to the sums which    *)
(* line 1044 skips (line 1439).                                                *)
OnlyTheseMissed == passed_det => \A b \in Missed : AcrossBytes(b) \/ LeftToSums(b)

(* Every test case the stages run is the entry with one change: the buffer     *)
(* was restored after the change before it (lines 1672-1718, 1811-1845).       *)
OneChange ==
  passed_det => tried \subseteq {in_buf} \cup UNION {Of(s) : s \in Running}

(* At the end of a stage as many test cases were run as stage_max says after  *)
(* its corrections for the skipped ones (it goes into stage_cycles), and       *)
(* eff_cnt is the number of flagged cells until a dense map is filled.         *)
CountersExact ==
  /\ stage \in Range(Stages) /\ i = Positions(stage) => stage_cur = stage_max
  /\ stage = "flip8" => eff_cnt = Cardinality({k \in DOMAIN eff_map : eff_map[k] = 1})

-----------------------------------------------------------------------------
\* What the repository's words promise and the code does not keep; README.md
\* says in which situation.

(* could_be_bitflip and could_be_arith are "used to avoid dupes" (line 119):   *)
(* what they leave out is run all the same.                                    *)
OnlyDupesLeftOut == passed_det => Missed = {}

(* config.h:274: no more than USE_AUTO_EXTRAS tokens found automatically are   *)
(* "actually use[d] in fuzzing".                                               *)
OnlyUsedTokens ==
  \A b \in tried : Len(b) > len =>
    \E p \in 0 .. len, x \in Range(tokens["ext_UI"]) \cup Range(tokens["ext_AO"]) :
      b = Insertion(in_buf, p, x)

=============================================================================
