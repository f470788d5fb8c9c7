------------------------------- MODULE Extras -------------------------------
(***************************************************************************)
(* The dictionary of afl-fuzz (AFLplusplus/src/afl-fuzz-extras.c): extras  *)
(* has the tokens of the user's files (-x) and of the target's autodict,   *)
(* a_extras those found while fuzzing.  Both are arrays that are sorted    *)
(* again after every change; qsort may leave equal elements in any order.  *)
(* A token is abstract: its size, its lower-case form, whether it is dull  *)
(* (one repeated byte, or a built-in interesting value) and the tokens     *)
(* that deunicode_extras makes of it are all that the code looks at.       *)
(***************************************************************************)
EXTENDS Naturals, Sequences, SequencesExt, FiniteSetsExt

CONSTANTS
  Tokens, size, folded, Dull, unicode,
  Autodict,    \* tokens that the target may offer in the handshake
  Dicts,       \* files that may be given with -x, each a sequence of tokens
  Found,       \* tokens the stages and cmplog may find
  Saved,       \* what auto_extras may hold of the run before
  SkipBinCheck,   \* AFL_SKIP_BIN_CHECK: whether the target is first started in the
                  \* dry run, as a set of the choices
  MIN_AUTO_EXTRA, MAX_AUTO_EXTRA, USE_AUTO_EXTRAS, MAX_AUTO_EXTRAS, MAX_DICT_FILE,
  MaxDicts, MaxHits, MaxExtras   \* bounds

ExtrasAssumption ==
  /\ size \in [Tokens -> Nat \ {0}]
  /\ folded \in [Tokens -> Tokens] /\ unicode \in [Tokens -> Seq(Tokens)]
  /\ \A t \in Tokens : size[folded[t]] = size[t]
  /\ USE_AUTO_EXTRAS \in 1 .. MAX_AUTO_EXTRAS \div 2

VARIABLES
  late,         \* AFL_SKIP_BIN_CHECK is set
  phase,        \* of the start in main: "fsrv", "auto", "extras", "unicode",
                \* "dedup", then "run"
  offered,      \* the handshake is over
  extras,       \* afl->extras
  a_extras,     \* afl->a_extras: the token and its hit_cnt
  auto_changed,
  files, saved, \* the directories auto_extras of the input and of the output
  next          \* the next file to load

vars == <<late, phase, offered, extras, a_extras, auto_changed, files, saved, next>>

Init ==
  /\ late \in SkipBinCheck
  /\ phase = "fsrv" /\ offered = FALSE
  /\ extras = <<>> /\ a_extras = <<>> /\ auto_changed = FALSE
  /\ files \in Saved /\ saved = <<>> /\ next = 1

\* The comparisons that qsort is given, by name: does a come before b?
Before(compare, a, b) ==
  CASE compare = "extras_len"       -> size[a] < size[b]
    [] compare = "auto_extras_len"   -> size[a.token] < size[b.token]
    [] compare = "auto_extras_use_d" -> a.hit_cnt > b.hit_cnt

\* The results qsort may give: each element goes in after those that come before
\* it and before those that come after it.
Sorts(s, compare) ==
  LET upto[n \in 0 .. Len(s)] ==
        IF n = 0 THEN {<<>>}
        ELSE UNION {{InsertAt(t, p, s[n]) :
                       p \in {q \in 1 .. n : \A k \in DOMAIN t :
                               IF k < q THEN ~Before(compare, s[n], t[k])
                                        ELSE ~Before(compare, t[k], s[n])}}
                    : t \in upto[n - 1]}
  IN upto[Len(s)]

-----------------------------------------------------------------------------
(* The user's dictionary and the target's *)

\* add_extra, which the handshake of the fork server calls: the size that ends
\* the search assumes the order.
Present(t) ==
  \E k \in DOMAIN extras :
    /\ extras[k] = t
    /\ \A j \in 1 .. k : \A m \in j .. k :
         size[extras[j]] = size[t] => size[extras[m]] = size[t]

add_extra ==
  /\ ~offered /\ phase = (IF late THEN "run" ELSE "fsrv")
  /\ Len(extras) < MaxExtras
  /\ \E t \in Autodict :
       /\ ~Present(t) /\ size[t] =< MAX_DICT_FILE
       /\ extras' \in Sorts(Append(extras, t), "extras_len")
  /\ UNCHANGED <<late, phase, offered, a_extras, auto_changed, files, saved, next>>

\* The fork server is up.
Handshaken ==
  /\ ~offered /\ phase = (IF late THEN "run" ELSE "fsrv")
  /\ offered' = TRUE
  /\ phase' = IF phase = "fsrv" THEN "auto" ELSE phase
  /\ UNCHANGED <<late, extras, a_extras, auto_changed, files, saved, next>>

SkipCheck ==
  /\ late /\ phase = "fsrv"
  /\ phase' = "auto"
  /\ UNCHANGED <<late, offered, extras, a_extras, auto_changed, files, saved, next>>

\* A file or a directory; a token that is too long is left out.
load_extras ==
  /\ phase = "extras" /\ next =< MaxDicts
  /\ \E d \in Dicts :
       extras' \in Sorts(extras \o SelectSeq(d, LAMBDA t : size[t] =< MAX_DICT_FILE),
                         "extras_len")
  /\ next' = next + 1
  /\ UNCHANGED <<late, phase, offered, a_extras, auto_changed, files, saved>>

\* No more -x options
Loaded ==
  /\ phase = "extras"
  /\ phase' = "unicode"
  /\ UNCHANGED <<late, offered, extras, a_extras, auto_changed, files, saved, next>>

deunicode_extras ==
  /\ phase = "unicode"
  /\ extras' \in Sorts(extras \o FlattenSeq([k \in DOMAIN extras |-> unicode[extras[k]]]),
                       "extras_len")
  /\ phase' = "dedup"
  /\ UNCHANGED <<late, offered, a_extras, auto_changed, files, saved, next>>

\* The places after k that hold the same token: the loop over j ends at the
\* first of another size.
Sames(s, k) ==
  {j \in k + 1 .. Len(s) :
     s[j] = s[k] /\ \A m \in k + 1 .. j : size[s[m]] = size[s[k]]}

Without(s, gone) ==
  LET left == SelectSeq([k \in DOMAIN s |-> k], LAMBDA k : k \notin gone)
  IN [k \in DOMAIN left |-> s[left[k]]]

Deduped(s) ==
  LET upto[k \in 0 .. Len(s)] ==
        IF k = 0 THEN s
        ELSE LET t == upto[k - 1]
             IN IF k >= Len(t) THEN t ELSE Without(t, Sames(t, k))
  IN upto[Len(s)]

dedup_extras ==
  /\ phase = "dedup"
  /\ extras' = Deduped(extras)
  /\ phase' = "run"
  /\ UNCHANGED <<late, offered, a_extras, auto_changed, files, saved, next>>

-----------------------------------------------------------------------------
(* Tokens found while fuzzing *)

Same(t, u) == size[t] = size[u] /\ folded[t] = folded[u]   \* memcmp_nocase

Matches(t) == {k \in DOMAIN a_extras : Same(a_extras[k].token, t)}

\* "First, sort all auto extras by use count ... Then, sort the top
\* USE_AUTO_EXTRAS entries by size."
SortedBySizeOnly(a) == Sorts(a, "auto_extras_len")
Sorted(a) ==
  UNION {LET n == Min({USE_AUTO_EXTRAS, Len(b)})
         IN {c \o SubSeq(b, n + 1, Len(b)) :
               c \in Sorts(SubSeq(b, 1, n), "auto_extras_len")}
         : b \in Sorts(a, "auto_extras_use_d")}

\* Where a new token may go: at the end, or over one "from the bottom half".
Places == IF Len(a_extras) < MAX_AUTO_EXTRAS THEN {Len(a_extras) + 1}
          ELSE MAX_AUTO_EXTRAS \div 2 + 1 .. MAX_AUTO_EXTRAS

Put(k, a) == [j \in 1 .. Max({k, Len(a_extras)}) |->
                IF j = k THEN a ELSE a_extras[j]]

Rejects(t) ==
  \/ t \in Dull \/ size[t] > MAX_AUTO_EXTRA
  \/ \E k \in DOMAIN extras : Same(extras[k], t)

maybe_add_auto(t) ==
  IF Rejects(t) THEN UNCHANGED <<a_extras, auto_changed>>
  ELSE /\ auto_changed' = TRUE
       /\ IF Matches(t) # {}
          THEN a_extras' \in Sorted([a_extras EXCEPT ![Min(Matches(t))].hit_cnt = @ + 1])
          ELSE \E k \in Places :
                 a_extras' \in Sorted(Put(k, [token |-> t, hit_cnt |-> 0]))

\* Bound on the use counts
Countable(t) == \A k \in Matches(t) : a_extras[k].hit_cnt < MaxHits

\* One file of load_auto; a file that is too short is passed over.
load_auto ==
  /\ phase = "auto"
  /\ IF next =< Len(files) /\ next =< USE_AUTO_EXTRAS
     THEN /\ IF size[files[next]] >= MIN_AUTO_EXTRA
             THEN maybe_add_auto(files[next])
             ELSE UNCHANGED <<a_extras, auto_changed>>
          /\ next' = next + 1 /\ UNCHANGED phase
     ELSE /\ next' = 1 /\ phase' = "extras"
          /\ UNCHANGED <<a_extras, auto_changed>>
  /\ UNCHANGED <<late, offered, extras, files, saved>>

\* fuzz_one or cmplog finds a token.
FindToken ==
  /\ phase = "run" /\ offered
  /\ \E t \in Found : Countable(t) /\ maybe_add_auto(t)
  /\ UNCHANGED <<late, phase, offered, extras, files, saved, next>>

\* The files of an earlier save are written over; there are never fewer.
save_auto ==
  /\ phase = "run" /\ auto_changed
  /\ auto_changed' = FALSE
  /\ saved' = [k \in 1 .. Min({USE_AUTO_EXTRAS, Len(a_extras)}) |-> a_extras[k].token]
  /\ UNCHANGED <<late, phase, offered, extras, a_extras, files, next>>

Next ==
  \/ add_extra \/ Handshaken \/ SkipCheck \/ load_auto \/ load_extras \/ Loaded
  \/ deunicode_extras \/ dedup_extras \/ FindToken \/ save_auto

Spec == Init /\ [][Next]_vars

-----------------------------------------------------------------------------
(* While fuzzing, extras is in the order of the sizes and holds no token       *)
(* twice: the stages, maybe_add_auto and add_extra all rely on it.             *)
ExtrasInOrder ==
  phase = "run" =>
    \A j, k \in DOMAIN extras : j < k =>
      size[extras[j]] =< size[extras[k]] /\ extras[j] # extras[k]

(* The first USE_AUTO_EXTRAS automatic tokens are in the order of their sizes, *)
(* as the "auto extras (over)" stage needs, and none of the others was hit     *)
(* more often than one of them (maybe_add_auto, lines 721-729).                *)
AutoInOrder ==
  \A j, k \in DOMAIN a_extras : j < k =>
    /\ k =< USE_AUTO_EXTRAS => size[a_extras[j].token] =< size[a_extras[k].token]
    /\ k > USE_AUTO_EXTRAS => a_extras[j].hit_cnt >= a_extras[k].hit_cnt

(* No two automatic tokens are the same but for their case, however they are   *)
(* evicted and found again (lines 687-697).                                    *)
AutoDistinct ==
  \A j, k \in DOMAIN a_extras :
    folded[a_extras[j].token] = folded[a_extras[k].token] => j = k

-----------------------------------------------------------------------------
\* What the repository's words promise and the code does not keep; README.md
\* says in which situation.

(* Lines 666-680: "Reject anything that matches existing extras": no automatic *)
(* token is one of the user's or the target's.                                 *)
AutoNotUser ==
  phase = "run" =>
    \A j \in DOMAIN a_extras, k \in DOMAIN extras : ~Same(a_extras[j].token, extras[k])

=============================================================================
