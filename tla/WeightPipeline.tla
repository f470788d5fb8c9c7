---------------------------- MODULE WeightPipeline ----------------------------
(***************************************************************************)
(* From the history of a repository to the weight of a trace.              *)
(* heuristics/heuristic_diff.py gives the functions of a repository a      *)
(* weight; ghidra_scripts/get_bitmap_offsets.py looks up the map bytes of  *)
(* each function in the binary, hands part of its weight on to its         *)
(* callers, and writes a file of offsets and weights; afl-fuzz -j reads    *)
(* that file, and BitmapWeight weighs traces with it.                      *)
(*                                                                         *)
(* The script runs in Ghidra's Python 2: "/" on integers rounds down, and  *)
(* the order in which a dictionary is walked is arbitrary.  Git, clang and *)
(* the decompiler are external: they appear as the histories and the       *)
(* programs to choose from.                                                *)
(***************************************************************************)
EXTENDS Integers, SequencesExt

CONSTANTS Func,       \* the names of functions
          Offset,     \* the bytes of the coverage map
          VAR,        \* an access to the map at an offset that is not constant
          Programs,   \* binaries: the callers of each function, its basic
                      \* blocks with their accesses to the map, the functions found
          Histories,  \* for each function and definition of it, its commits, the
                      \* newest first: the date, and the lines of the log with
                      \* the word commit
          MaxDepth,   \* the last argument of the script
          U32         \* 2^32, or a smaller modulus

ASSUME PipelineAssumption ==
  \A p \in Programs : p.callers \in [Func -> SUBSET Func] /\ p.found \subseteq Func

VARIABLES program, history,
          pc,
          measured,   \* what heuristic_diff.py prints: pairs of a function and a weight
          seen,       \* the dictionary of handle_duplicate_func_bitmap_weight_tuples
          left,       \* the functions of it not yet put in result
          result,     \* offsets to weights
          dups,       \* differing_duplicates: each as the block it was met in
          file        \* the tuples of the -j file, in file order

input == <<program, history>>
vars == <<input, pc, measured, seen, left, result, dups, file>>

Init ==
  /\ program \in Programs /\ history \in Histories
  /\ pc = "measure" /\ measured = {} /\ seen = <<>> /\ left = {}
  /\ result = <<>> /\ dups = {} /\ file = <<>>

-----------------------------------------------------------------------------
\* search_funcs: every definition of every function, with its history.
definitions == {d \in Func \X UNION Range(history) : d[2] \in history[d[1]]}

\* heuristic_0 counts the lines with the word commit in the log of a
\* definition, heuristic_1 takes the date of its last commit and leaves out a
\* definition without.
heuristic_0 ==
  {<<d[1], MapThenSumSet(LAMBDA i : d[2][i].lines, DOMAIN d[2])>> : d \in definitions}

heuristic_1 == {<<d[1], d[2][1].date>> : d \in {e \in definitions : e[2] # <<>>}}

\* heuristic_to_rank: the place in the list sorted by weight, where equal
\* weights are in any order.
heuristic_to_rank(weighted) ==
  LET sorted == {s \in SetToSeqs(weighted) :
                   \A i, j \in DOMAIN s : i < j => s[i][2] <= s[j][2]}
  IN  {{<<s[i][1], i>> : i \in DOMAIN s} : s \in sorted}

\* main of heuristic_diff.py, with -H 0 or 1, with and without -r.
Measure ==
  /\ pc = "measure"
  /\ \E w \in {heuristic_0, heuristic_1} :
       LET weighted == {x \in w : x[2] # 0}
       IN  measured' \in {weighted} \cup heuristic_to_rank(weighted)
  /\ pc' = "analyse"
  /\ UNCHANGED <<input, seen, left, result, dups, file>>

-----------------------------------------------------------------------------
\* get_all_bitmap_offsets_for_func: the first constant offset of each basic
\* block that has one.
FirstConstants(blocks) ==
  LET constants == [i \in DOMAIN blocks |-> SelectSeq(blocks[i], LAMBDA o : o # VAR)]
      counted == SelectSeq(constants, LAMBDA b : b # <<>>)
  IN  [i \in DOMAIN counted |-> counted[i][1]]

bitmap_offsets(f) == FirstConstants(program.blocks[f])

\* depth >= max_depth, where max_depth is the argument as a string: Python 2
\* takes every number to be less than every string.
DepthReached(depth) == FALSE

\* get_callers_with_bitmap_offsets_and_weights_recursive from f and the
\* unrolling of its result: how often g is visited with weight w.
Visits(f, weight, g, w) ==
  LET Visit[n \in Nat \X Nat] ==
        [h \in Func |->
          IF DepthReached(n[2]) \/ n[1] = 0
          THEN 0
          ELSE (IF h = g /\ n[1] = w THEN 1 ELSE 0)
               + MapThenSumSet(LAMBDA c : Visit[<<n[1] \div 2, n[2] + 1>>][c],
                               program.callers[h])]
  IN  Visit[<<weight, 0>>][f]

\* The entries whose function Ghidra knows by name.
known == {m \in measured : m[1] \in program.found}

\* The functions visited from entry m, and those that have a constant offset.
Visited(m, g) == \E w \in 1 .. m[2] : Visits(m[1], m[2], g, w) > 0
visited ==
  {g \in Func : bitmap_offsets(g) # <<>> /\ \E m \in known : Visited(m, g)}

\* handle_duplicate_func_bitmap_weight_tuples: a function's offsets share the
\* weight of each visit, and the visits add up.
Shares(m, g) ==
  MapThenSumSet(LAMBDA w : Visits(m[1], m[2], g, w)
                             * (w \div Len(bitmap_offsets(g))), 1 .. m[2])

SharesOfLastEntry(g) == Shares(CHOOSE m \in known : Visited(m, g), g)

SumOfShares(g) == MapThenSumSet(LAMBDA m : Shares(m, g), known)

\* do_stuff up to the duplicates' merging.
Analyse ==
  /\ pc = "analyse"
  /\ seen' = [g \in visited |-> SumOfShares(g)]
  /\ left' = visited
  /\ pc' = "convert"
  /\ UNCHANGED <<input, measured, result, dups, file>>

-----------------------------------------------------------------------------
\* The blocks of f whose offset result has with another weight.
DifferingNone(f) == {}
Differing(f) ==
  {b \in {f} \X DOMAIN bitmap_offsets(f) :
     LET o == bitmap_offsets(f)[b[2]]
     IN  o \in DOMAIN result /\ result[o] # seen[f]}

\* func_bitmap_weight_tuples_to_bitmap_weight_map, for the next function of
\* the dictionary.
Convert(f) ==
  /\ pc = "convert" /\ f \in left
  /\ left' = left \ {f}
  /\ result' = [o \in DOMAIN result \cup Range(bitmap_offsets(f)) |->
                 IF o \in DOMAIN result THEN result[o] ELSE seen[f]]
  /\ dups' = dups \cup Differing(f)
  /\ UNCHANGED <<input, pc, measured, seen, file>>

\* Its second loop: result.pop raises KeyError when the offset is gone.
Pop ==
  /\ pc = "convert" /\ left = {}
  /\ \E b \in dups :
       LET o == bitmap_offsets(b[1])[b[2]]
       IN  IF o \in DOMAIN result
           THEN /\ result' = Restrict(result, DOMAIN result \ {o})
                /\ dups' = dups \ {b}
                /\ pc' = pc
           ELSE /\ pc' = "KeyError"
                /\ UNCHANGED <<result, dups>>
  /\ UNCHANGED <<input, measured, seen, left, file>>

\* remove_null_weights.
weights == {o \in DOMAIN result : result[o] # 0}

\* struct.pack, given a weight of more than 32 bits: some Pythons raise an
\* exception, others keep the low 32 bits.
Raises == \E o \in weights : result[o] >= U32 /\ pc' = "struct.error" /\ UNCHANGED file
Packs ==
  /\ file' = SetToSeq({[bitmap_offset |-> o, weight |-> result[o] % U32] : o \in weights})
  /\ pc' = "written"

\* dump_output_file.
Dump ==
  /\ pc = "convert" /\ left = {} /\ dups = {}
  /\ Packs \/ Raises
  /\ UNCHANGED <<input, measured, seen, left, result, dups>>

Next == Measure \/ Analyse \/ (\E f \in Func : Convert(f)) \/ Pop \/ Dump

Spec == Init /\ [][Next]_vars

-----------------------------------------------------------------------------
\* The number of chains of k calls by which g reaches f.
chains[k \in Nat] ==
  [f, g \in Func |->
    IF k = 0 THEN (IF f = g THEN 1 ELSE 0)
    ELSE MapThenSumSet(LAMBDA c : chains[k - 1][c, g], program.callers[f])]

\* Every function is given, for every chain of k calls from it to a function
\* with weight w, its share of w / 2^k: the recursion over callers, the
\* unrolling of its nested result and the merging of duplicates lose nothing
\* and count nothing twice, however functions call each other.
WeightsByChains ==
  pc = "convert" =>
    \A g \in DOMAIN seen :
      seen[g] = MapThenSumSet(
        LAMBDA m : MapThenSumSet(
          LAMBDA k : chains[k][m[1], g]
                     * ((m[2] \div 2 ^ k) \div Len(bitmap_offsets(g))), 0 .. m[2]), known)

\* An offset shared by functions of different weights.
Mixed(o) == \E f, g \in DOMAIN seen :
  /\ o \in Range(bitmap_offsets(f)) /\ o \in Range(bitmap_offsets(g))
  /\ seen[f] # seen[g]

\* A script that gets as far as the file has kept exactly the offsets on whose
\* weight all functions agree, with that weight, in whatever order the
\* dictionary was walked.
MapExact ==
  pc = "written" =>
    \A o \in Offset :
      /\ o \in DOMAIN result <=>
           ~Mixed(o) /\ \E f \in DOMAIN seen : o \in Range(bitmap_offsets(f))
      /\ \A f \in DOMAIN seen :
           o \in DOMAIN result /\ o \in Range(bitmap_offsets(f)) => result[o] = seen[f]

-----------------------------------------------------------------------------
\* What the repository's words promise and the code does not keep; README.md
\* says in which situation.

\* "The last variable ... represents the max-depth the script takes": only
\* functions that reach a function of the input by fewer calls get a weight.
WithinDepth ==
  \A g \in DOMAIN seen : \E m \in known, k \in 0 .. MaxDepth - 1 : chains[k][m[1], g] > 0

\* "This will write to file $OUT/output_bitmap": offsets shared by functions
\* do not keep the script from it ...
DuplicatesRemoved == pc # "KeyError"

\* ... and neither do large weights, which the file has as they were computed.
WeightsWritten ==
  /\ pc # "struct.error"
  /\ pc = "written" =>
       Range(file) = {[bitmap_offset |-> o, weight |-> result[o]] : o \in weights}
=============================================================================
