----------------------------- MODULE MCFuzzOne -----------------------------
(***************************************************************************)
(* What fuzz_one does to one entry, and the dictionaries it does it with,  *)
(* for TLC.  A behaviour is one of the parts: trimming (TrimCase), the     *)
(* deterministic stages (DetStages), the search for tokens in the walking  *)
(* bit flips (AutoTokens), the dictionaries (Extras, once as the files are *)
(* loaded and once as tokens are found), or a dictionary file as it is     *)
(* read (DictionaryFile).  All parts but the first share the variables x1  *)
(* to x10, of which each has its own use.                                  *)
(***************************************************************************)
EXTENDS TrimCase, Integers

VARIABLES part, x1, x2, x3, x4, x5, x6, x7, x8, x9, x10

xs == <<x1, x2, x3, x4, x5, x6, x7, x8, x9, x10>>
mc_vars == <<part, vars, xs>>

-----------------------------------------------------------------------------
\* Trimming: "m" and "n" matter, "-" does not.
TestCases == UNION {[1 .. k -> {"m", "n", "-"}] : k \in {1, 5, 7}}

-----------------------------------------------------------------------------
\* The deterministic stages: the tables of config.h, single bytes, words of
\* two to four bytes, and tokens around the limits.
Eights     == {-128, -1, 0, 1, 16, 32, 64, 100, 127}
Sixteens   == {-32768, -129, 128, 255, 256, 512, 1000, 1024, 4096, 32767}
ThirtyTwos == {-2147483647 - 1, -100663046, -32769, 32768, 65535, 65536,
               100663045, 2147483647}

Plain(buf) == [buf |-> buf, no_arith |-> FALSE, extras |-> <<>>, a_extras |-> <<>>]

SingleBytes == {Plain(<<b>>) : b \in (0 .. 36) \cup (92 .. 136) \cup (219 .. 255)}

Words ==
  {Plain(w) : w \in {0, 1, 31, 127, 255}
                     \X {0, 1, 128, 254, 255}}
  \cup {Plain(w) : w \in {35, 255} \X {128} \X {0, 254}}
  \cup {Plain(w) : w \in {224, 255} \X {0, 255} \X {127} \X {0, 6}}

NoArith ==
  {[Plain(w) EXCEPT !.no_arith = TRUE] :
     w \in {<<b>> : b \in {0, 5, 99, 200, 255}} \cup {<<5, 128>>, <<255, 0>>, <<1, 2, 3, 4>>}}

WithTokens ==
  {[Plain(<<1, 2, 3>>) EXCEPT !.extras = x, !.a_extras = a] :
     x \in {<<>>, << <<2>>, <<1, 2>>, <<1, 9>>, <<7, 8, 9>> >>, << <<5>>, <<5, 2>> >>},
     a \in {<<>>, << <<3>>, <<2, 3>> >>, << <<4>>, <<6, 6>>, <<1, 2, 3, 4>> >>,
           << <<8>>, <<6, 7>>, <<7, 7, 7>> >>}}

Det == INSTANCE DetStages WITH
  Entries <- SingleBytes \cup Words \cup NoArith \cup WithTokens,
  ARITH_MAX <- 35, INTERESTING_8 <- Eights, INTERESTING_16 <- Sixteens,
  INTERESTING_32 <- ThirtyTwos, EFF_MAP_SCALE <- 1, EFF_MIN_LEN <- 3,
  EFF_MAX_PERC <- 70, max_det_extras <- 3, USE_AUTO_EXTRAS <- 2, MAX_FILE <- 6,
  entry <- x1, out_buf <- x2, stage <- x3, i <- x4, stage_cur <- x5, stage_max <- x6,
  eff_map <- x7, eff_cnt <- x8, tried <- x9, passed_det <- x10

ASSUME Det!DetAssumption

-----------------------------------------------------------------------------
Search == INSTANCE AutoTokens WITH
  MaxLen <- 8, Cksums <- {"clean", "c1", "c2"}, Clean <- "clean",
  MIN_AUTO_EXTRA <- 3, MAX_AUTO_EXTRA <- 5,
  len <- x1, cksums <- x2, prev_cksum <- x3, a_collect <- x4, a_len <- x5, added <- x6

ASSUME Search!AutoTokensAssumption

-----------------------------------------------------------------------------
\* Dictionaries: two pairs of tokens that differ in case, one of them in two
\* sizes; "wide" is the UTF-16 form of "ab", "zzz" is dull.
Toks   == {"a", "ab", "AB", "cd", "wide", "efg", "EFG", "hij", "zzz", "long"}
Sizes  == [a |-> 1, ab |-> 2, AB |-> 2, cd |-> 2, wide |-> 6, efg |-> 3, EFG |-> 3,
           hij |-> 3, zzz |-> 3, long |-> 9]
Lower  == [t \in Toks |-> IF t = "AB" THEN "ab" ELSE IF t = "EFG" THEN "efg" ELSE t]
Narrow == [t \in Toks |-> IF t = "wide" THEN <<"ab">> ELSE <<>>]

Loading == INSTANCE Extras WITH
  Tokens <- Toks, size <- Sizes, folded <- Lower, Dull <- {"a", "zzz"}, unicode <- Narrow,
  Autodict <- {"cd", "efg"}, Found <- {"efg"}, Saved <- {<<>>},
  Dicts <- {<<"ab", "wide">>, <<"wide", "a", "efg">>, <<"long", "AB">>},
  SkipBinCheck <- BOOLEAN, MIN_AUTO_EXTRA <- 3, MAX_AUTO_EXTRA <- 8, USE_AUTO_EXTRAS <- 2,
  MAX_AUTO_EXTRAS <- 4, MAX_DICT_FILE <- 8, MaxDicts <- 3, MaxHits <- 1, MaxExtras <- 3,
  late <- x1, phase <- x2, offered <- x3, extras <- x4, a_extras <- x5,
  auto_changed <- x6, files <- x7, saved <- x8, next <- x9

Finding == INSTANCE Extras WITH
  Tokens <- Toks, size <- Sizes, folded <- Lower, Dull <- {"a", "zzz"}, unicode <- Narrow,
  Autodict <- {"efg"}, Found <- {"cd", "efg", "EFG", "AB", "hij", "wide", "zzz"},
  Saved <- {<<"cd", "efg">>}, Dicts <- {<<>>},
  SkipBinCheck <- {FALSE}, MIN_AUTO_EXTRA <- 3, MAX_AUTO_EXTRA <- 8, USE_AUTO_EXTRAS <- 2,
  MAX_AUTO_EXTRAS <- 4, MAX_DICT_FILE <- 8, MaxDicts <- 2, MaxHits <- 1, MaxExtras <- 3,
  late <- x1, phase <- x2, offered <- x3, extras <- x4, a_extras <- x5,
  auto_changed <- x6, files <- x7, saved <- x8, next <- x9

ASSUME Loading!ExtrasAssumption /\ Finding!ExtrasAssumption

-----------------------------------------------------------------------------
\* A dictionary file: a line of any kind, every value of up to five characters
\* included, then one with two escapes.
Good(v) == [head |-> "good", level |-> 0, value |-> v]
Others(heads) == {[head |-> h, level |-> l, value |-> <<"c">>] : h \in heads, l \in {0, 2}}
Values == UNION {[1 .. m -> {"c", "h", "x", "b", "q", "n"}] : m \in 0 .. 5}

Dict == INSTANCE DictionaryFile WITH
  Files <- {<<l, Good(<<"b", "x", "h", "h", "b", "q">>)>> :
              l \in Others({"blank", "malformed", "good"}) \cup {Good(v) : v \in Values}},
  dict_level <- 1, MAX_DICT_FILE <- 4,
  file <- x1, cur_line <- x2, lptr <- x3, written <- x4, extras <- x5

ASSUME Dict!DictionaryAssumption

-----------------------------------------------------------------------------
Rest6  == x6 = 0 /\ x7 = 0 /\ x8 = 0 /\ x9 = 0 /\ x10 = 0
Unused == x1 = 0 /\ x2 = 0 /\ x3 = 0 /\ x4 = 0 /\ x5 = 0 /\ Rest6

OthersInit ==
  \/ part = "det" /\ Det!Init
  \/ part = "search" /\ Search!Init /\ x7 = 0 /\ x8 = 0 /\ x9 = 0 /\ x10 = 0
  \/ part = "loading" /\ Loading!Init /\ x10 = 0
  \/ part = "finding" /\ Finding!Init /\ x10 = 0
  \/ part = "dict" /\ Dict!Init /\ Rest6

mc_Init ==
  \/ part = "trim" /\ Init /\ Unused
  \/ in_buf = <<"m">> /\ no_unlink = FALSE /\ Init /\ OthersInit

Other(p, A) == part = p /\ A /\ UNCHANGED <<part, vars>>

mc_Next ==
  \/ part = "trim" /\ Next /\ UNCHANGED <<part, xs>>
  \/ Other("det", Det!Next)
  \/ Other("search", Search!Next) /\ UNCHANGED <<x7, x8, x9, x10>>
  \/ Other("loading", Loading!Next) /\ UNCHANGED x10
  \/ Other("finding", Finding!Next) /\ UNCHANGED x10
  \/ Other("dict", Dict!Next) /\ UNCHANGED <<x6, x7, x8, x9, x10>>

\* load_extras_file runs until it returns.
mc_Spec == mc_Init /\ [][mc_Next]_mc_vars /\ WF_mc_vars(part = "dict" /\ mc_Next)

-----------------------------------------------------------------------------
(* An entry is marked as done with the deterministic stages only after every  *)
(* flip, sum, interesting value and token of them that touches a byte with an *)
(* effect was run, but for what could_be_bitflip (afl-fuzz-one.c:139) takes   *)
(* for a flip of 2 or 4 bits "anywhere" in a word though no walking flip makes *)
(* it and, with AFL_NO_ARITH, what is left to the sums that are skipped then; *)
(* every test case run is the entry with one change; and the counters of the  *)
(* stages end where stage_max, corrected for what was skipped, says.          *)
StagesComplete ==
  part = "det" => Det!OnlyTheseMissed /\ Det!OneChange /\ Det!CountersExact

(* The tokens found in the walking bit flips are the longest stretches of     *)
(* bytes that "always [produce] the same, distinctive path" and are neither   *)
(* too short nor too long, each once, the one at the end of the file included *)
(* (afl-fuzz-one.c:671-748).                                                  *)
TokensAreStretches == part = "search" => Search!TokensAreStretches

(* While fuzzing, extras is in the order of the sizes and holds no token      *)
(* twice; the automatic tokens in use are in that order, none of the others   *)
(* was hit more often, and no two are the same but for their case, however    *)
(* tokens are loaded, found, evicted and found again (afl-fuzz-extras.c).     *)
DictionariesInOrder ==
  /\ part = "loading" => Loading!ExtrasInOrder
  /\ part = "finding" => Finding!AutoInOrder /\ Finding!AutoDistinct

(* Once a line of a dictionary file is read, a properly written value of the  *)
(* level asked for that is not too long is a token, decoded as                *)
(* dictionaries/README.md says, whatever the lines before it are; the copy    *)
(* never reads past the end of a value nor writes more than was allocated;    *)
(* and the file is read to its end, however wrong the escapes in it are,      *)
(* unless it has a character that is not printable, where reading stays for   *)
(* ever (load_extras_file).                                                   *)
LinesLoaded ==
  /\ [](part = "dict" => Dict!ProperLinesLoaded /\ Dict!WithinValue)
  /\ <>(part = "dict" => Dict!IsRead \/ Dict!AtUnprintable)

-----------------------------------------------------------------------------
\* What the repository's words promise and the code does not keep; README.md
\* says in which situation.

(* "used to avoid dupes": the values that the deterministic stages leave out  *)
(* are run by another of them.                                                *)
OnlyDupesLeftOut == part = "det" => Det!OnlyDupesLeftOut

(* "Non-printable characters in line %u." is a warning: the file is read.     *)
DictionaryAlwaysRead == <>(part = "dict" => Dict!IsRead)
=============================================================================
