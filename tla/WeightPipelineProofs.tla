------------------------- MODULE WeightPipelineProofs -------------------------
(***************************************************************************)
(* The map of offsets to weights is exact, whatever the program, the       *)
(* history and the order in which the dictionary is walked.                *)
(***************************************************************************)
EXTENDS WeightPipeline, TLAPS

Has(f, o) == \E i \in DOMAIN bitmap_offsets(f) : bitmap_offsets(f)[i] = o

\* The functions whose offsets have been put in result.
converted == DOMAIN seen \ left

\* The offset was appended to differing_duplicates, and not popped yet.
Recorded(o) == \E b \in dups : bitmap_offsets(b[1])[b[2]] = o

\* Two functions disagree on the weight of the offset.
Disagree(o) == \E f, g \in DOMAIN seen : Has(f, o) /\ Has(g, o) /\ seen[f] # seen[g]

\* Before the conversion there is nothing; what is recorded is disagreed on;
\* what is in result comes from a converted function; an offset of a converted
\* function has that function's weight, or is recorded, or was popped.
Before == pc \in {"measure", "analyse"} =>
            left = {} /\ DOMAIN seen = {} /\ DOMAIN result = {} /\ dups = {}
After == pc = "written" => left = {} /\ dups = {}
RecordedDisagree == \A b \in dups : Disagree(bitmap_offsets(b[1])[b[2]])
FromConverted ==
  \A o \in DOMAIN result : \E f \in converted : Has(f, o) /\ result[o] = seen[f]
Accounted ==
  \A f \in converted : \A o : Has(f, o) =>
    \/ o \in DOMAIN result /\ result[o] = seen[f]
    \/ o \in DOMAIN result /\ Recorded(o)
    \/ o \notin DOMAIN result /\ left = {} /\ Disagree(o)

IInv == /\ left \subseteq DOMAIN seen
        /\ Before /\ After /\ RecordedDisagree /\ FromConverted /\ Accounted

-----------------------------------------------------------------------------
\* The offsets of a function are the program's, which no step changes.
LEMMA SameProgram ==
  ASSUME program' = program
  PROVE  /\ \A f : bitmap_offsets(f)' = bitmap_offsets(f)
         /\ \A f, o : Has(f, o)' = Has(f, o)
<1>1. \A f : bitmap_offsets(f)' = bitmap_offsets(f)
  BY Zenon DEF bitmap_offsets
<1> QED BY <1>1, Zenon DEF Has

\* A step that leaves the dictionaries alone keeps what is said of them.
LEMMA SameDictionaries ==
  ASSUME IInv, UNCHANGED <<program, seen, left, result, dups>>
  PROVE  /\ (left \subseteq DOMAIN seen)'
         /\ RecordedDisagree' /\ FromConverted' /\ Accounted'
<1>1. /\ \A f : bitmap_offsets(f)' = bitmap_offsets(f)
      /\ \A f, o : Has(f, o)' = Has(f, o)
  BY SameProgram
<1>2. \A o : Disagree(o)' = Disagree(o) /\ Recorded(o)' = Recorded(o)
  BY <1>1, Zenon DEF Disagree, Recorded
<1>3. converted' = converted
  BY DEF converted
<1>4. (left \subseteq DOMAIN seen)'
  BY DEF IInv
<1>5. RecordedDisagree'
  BY <1>1, <1>2, Zenon DEF IInv, RecordedDisagree
<1>6. FromConverted'
  BY <1>1, <1>3, Zenon DEF IInv, FromConverted
<1>7. Accounted'
  BY <1>1, <1>2, <1>3, Zenon DEF IInv, Accounted
<1> QED BY <1>4, <1>5, <1>6, <1>7

LEMMA Initial == Init => IInv
<1> SUFFICES ASSUME Init PROVE IInv
  OBVIOUS
<1>1. left = {} /\ dups = {} /\ pc = "measure" /\ DOMAIN seen = {} /\ DOMAIN result = {}
  BY DEF Init
<1> QED BY <1>1 DEF IInv, Before, After, RecordedDisagree, FromConverted, Accounted, converted

LEMMA Analysed == IInv /\ Analyse => IInv'
<1> SUFFICES ASSUME IInv, Analyse PROVE IInv'
  OBVIOUS
<1>1. DOMAIN result = {} /\ dups = {} /\ result' = result /\ dups' = dups
  BY DEF IInv, Before, Analyse
<1>2. DOMAIN seen' = visited /\ left' = visited /\ pc' = "convert"
  BY Zenon DEF Analyse
<1>3. converted' = {}
  BY <1>2 DEF converted
<1> QED BY <1>1, <1>2, <1>3 DEF IInv, Before, After, RecordedDisagree, FromConverted, Accounted

\* Converting a function adds the offsets that are new with its weight, and
\* records those that have another.
LEMMA Converted == ASSUME IInv, NEW f \in Func, Convert(f) PROVE IInv'
<1>0. /\ pc = "convert" /\ f \in left /\ left' = left \ {f} /\ f \in DOMAIN seen
      /\ program' = program /\ pc' = pc /\ seen' = seen
      /\ dups' = dups \cup Differing(f)
  BY DEF Convert, IInv, input
<1>1. /\ \A g : bitmap_offsets(g)' = bitmap_offsets(g)
      /\ \A g, o : Has(g, o)' = Has(g, o)
  BY <1>0, SameProgram
<1>2. /\ DOMAIN result' = DOMAIN result \cup {o \in Range(bitmap_offsets(f)) : TRUE}
      /\ \A o \in DOMAIN result' :
           result'[o] = IF o \in DOMAIN result THEN result[o] ELSE seen[f]
  BY DEF Convert
<1>3. \A o : o \in Range(bitmap_offsets(f)) <=> Has(f, o)
  BY DEF Range, Has
<1>4. converted' = converted \cup {f}
  BY <1>0 DEF converted
<1>5. \A o : Disagree(o)' = Disagree(o)
  BY <1>0, <1>1, Zenon DEF Disagree
<1>6. ASSUME NEW b \in Differing(f)
      PROVE  LET o == bitmap_offsets(b[1])[b[2]]
             IN  b[1] = f /\ Has(f, o) /\ o \in DOMAIN result /\ result[o] # seen[f]
  BY <1>6 DEF Differing, Has
<1>7. ASSUME NEW o, Has(f, o), o \in DOMAIN result, result[o] # seen[f]
      PROVE  \E b \in Differing(f) : bitmap_offsets(b[1])[b[2]] = o
  <2>1. PICK i \in DOMAIN bitmap_offsets(f) : bitmap_offsets(f)[i] = o
    BY <1>7 DEF Has
  <2>2. <<f, i>> \in Differing(f)
    BY <2>1, <1>7 DEF Differing
  <2> QED BY <2>1, <2>2
<1>8. RecordedDisagree'
  <2> SUFFICES ASSUME NEW b \in dups' PROVE Disagree(bitmap_offsets(b[1])[b[2]])
    BY <1>1, <1>5, Zenon DEF RecordedDisagree
  <2>1. CASE b \in dups
    BY <2>1 DEF IInv, RecordedDisagree
  <2>2. CASE b \in Differing(f)
    <3> DEFINE o == bitmap_offsets(b[1])[b[2]]
    <3>1. Has(f, o) /\ o \in DOMAIN result /\ result[o] # seen[f]
      BY <2>2, <1>6
    <3> HIDE DEF o
    <3>2. PICK g \in converted : Has(g, o) /\ result[o] = seen[g]
      BY <3>1 DEF IInv, FromConverted
    <3>3. Disagree(o)
      BY <3>1, <3>2, <1>0 DEF Disagree, converted
    <3> QED BY <3>3 DEF o
  <2> QED BY <2>1, <2>2, <1>0
<1>9. FromConverted'
  <2> SUFFICES ASSUME NEW o \in DOMAIN result'
               PROVE  \E g \in converted' : Has(g, o) /\ result'[o] = seen[g]
    BY <1>0, <1>1, Zenon DEF FromConverted
  <2>1. CASE o \in DOMAIN result
    BY <2>1, <1>2, <1>4 DEF IInv, FromConverted
  <2>2. CASE o \notin DOMAIN result
    BY <2>2, <1>2, <1>3, <1>4
  <2> QED BY <2>1, <2>2
<1>10. Accounted'
  <2> SUFFICES ASSUME NEW g \in converted', NEW o, Has(g, o)
               PROVE  /\ o \in DOMAIN result'
                      /\ result'[o] = seen[g] \/ Recorded(o)'
    BY <1>0, <1>1, <1>5, Zenon DEF Accounted
  <2>1. \A p : Recorded(p) => Recorded(p)'
    BY <1>0, <1>1 DEF Recorded
  <2>2. CASE g = f
    BY <2>2, <1>0, <1>1, <1>2, <1>3, <1>7 DEF Recorded
  <2>3. CASE g \in converted
    BY <2>1, <2>3, <1>0, <1>2 DEF IInv, Accounted
  <2> QED BY <2>2, <2>3, <1>4
<1>11. (left \subseteq DOMAIN seen)' /\ Before' /\ After'
  BY <1>0 DEF IInv, Before, After
<1> QED BY <1>8, <1>9, <1>10, <1>11 DEF IInv

\* Popping an offset loses one that functions disagree on.
LEMMA Popped == IInv /\ Pop => IInv'
<1> SUFFICES ASSUME IInv, Pop PROVE IInv'
  OBVIOUS
<1>0. /\ pc = "convert" /\ left = {} /\ left' = left /\ program' = program /\ seen' = seen
  BY DEF Pop, input
<1>1. /\ \A g : bitmap_offsets(g)' = bitmap_offsets(g)
      /\ \A g, o : Has(g, o)' = Has(g, o)
  BY <1>0, SameProgram
<1>2. converted' = converted /\ \A o : Disagree(o)' = Disagree(o)
  BY <1>0, <1>1, Zenon DEF Disagree, converted
<1>3. PICK b \in dups :
        LET o == bitmap_offsets(b[1])[b[2]]
        IN  IF o \in DOMAIN result
            THEN /\ result' = Restrict(result, DOMAIN result \ {o})
                 /\ dups' = dups \ {b}
                 /\ pc' = pc
            ELSE /\ pc' = "KeyError"
                 /\ UNCHANGED <<result, dups>>
  BY DEF Pop
<1> DEFINE p == bitmap_offsets(b[1])[b[2]]
<1>4. CASE p \notin DOMAIN result
  <2>1. pc' = "KeyError" /\ result' = result /\ dups' = dups
    BY <1>3, <1>4
  <2>2. Before' /\ After'
    BY <2>1 DEF Before, After
  <2> QED BY <2>1, <2>2, <1>0, SameDictionaries DEF IInv
<1>5. CASE p \in DOMAIN result
  <2>0. result' = Restrict(result, DOMAIN result \ {p}) /\ dups' = dups \ {b} /\ pc' = pc
    BY <1>3, <1>5
  <2>1. Disagree(p)
    BY DEF IInv, RecordedDisagree
  <2> HIDE DEF p
  <2>2. /\ DOMAIN result' = DOMAIN result \ {p}
        /\ \A o \in DOMAIN result' : result'[o] = result[o]
    BY <2>0 DEF Restrict
  <2>3. \A o : o # p /\ Recorded(o) => Recorded(o)'
    BY <2>0, <1>1 DEF Recorded, p
  <2>4. RecordedDisagree'
    BY <2>0, <1>1, <1>2 DEF IInv, RecordedDisagree
  <2>5. FromConverted'
    BY <2>2, <1>0, <1>1, <1>2 DEF IInv, FromConverted
  <2>6. Accounted'
    <3> SUFFICES ASSUME NEW g \in converted, NEW o, Has(g, o)
                 PROVE  \/ o \in DOMAIN result' /\ result'[o] = seen[g]
                        \/ o \in DOMAIN result' /\ Recorded(o)'
                        \/ o \notin DOMAIN result' /\ Disagree(o)
      BY <1>0, <1>1, <1>2, Zenon DEF Accounted
    <3>1. CASE o = p
      BY <3>1, <2>1, <2>2
    <3>2. CASE o # p
      BY <3>2, <2>2, <2>3 DEF IInv, Accounted
    <3> QED BY <3>1, <3>2
  <2>7. (left \subseteq DOMAIN seen)' /\ Before' /\ After'
    BY <2>0, <1>0 DEF IInv, Before, After
  <2> QED BY <2>4, <2>5, <2>6, <2>7 DEF IInv
<1> QED BY <1>4, <1>5

LEMMA Inductive == IInv /\ [Next]_vars => IInv'
<1> SUFFICES ASSUME IInv, [Next]_vars PROVE IInv'
  OBVIOUS
<1>1. CASE Measure
  <2>1. UNCHANGED <<program, seen, left, result, dups>> /\ pc = "measure" /\ pc' = "analyse"
    BY <1>1 DEF Measure, input
  <2> QED BY <2>1, SameDictionaries DEF IInv, Before, After
<1>2. CASE Analyse
  BY <1>2, Analysed
<1>3. CASE \E f \in Func : Convert(f)
  BY <1>3, Converted
<1>4. CASE Pop
  BY <1>4, Popped
<1>5. CASE Dump
  <2>1. /\ UNCHANGED <<program, seen, left, result, dups>>
        /\ left = {} /\ dups = {} /\ pc' \in {"written", "struct.error"}
    BY <1>5 DEF Dump, Packs, Raises, input
  <2> QED BY <2>1, SameDictionaries DEF IInv, Before, After
<1>6. CASE UNCHANGED vars
  <2>1. UNCHANGED <<program, seen, left, result, dups, pc>>
    BY <1>6 DEF vars, input
  <2> QED BY <2>1, SameDictionaries DEF IInv, Before, After
<1> QED BY <1>1, <1>2, <1>3, <1>4, <1>5, <1>6 DEF Next

\* With every function converted and every recorded offset popped, an offset
\* is in result exactly when the functions that have it agree.
LEMMA Exact == IInv => MapExact
<1> SUFFICES ASSUME IInv, pc = "written", NEW o \in Offset
             PROVE  /\ o \in DOMAIN result <=>
                         ~Disagree(o) /\ \E f \in DOMAIN seen : Has(f, o)
                    /\ \A f \in DOMAIN seen :
                         o \in DOMAIN result /\ Has(f, o) => result[o] = seen[f]
  BY DEF MapExact, Mixed, Disagree, Has, Range
<1>1. converted = DOMAIN seen /\ ~Recorded(o)
  BY DEF IInv, After, converted, Recorded
<1>2. \A f \in DOMAIN seen : o \in DOMAIN result /\ Has(f, o) => result[o] = seen[f]
  BY <1>1 DEF IInv, Accounted
<1>3. ASSUME o \in DOMAIN result
      PROVE  ~Disagree(o) /\ \E f \in DOMAIN seen : Has(f, o)
  BY <1>1, <1>2, <1>3 DEF IInv, FromConverted, Disagree
<1>4. ASSUME ~Disagree(o), NEW f \in DOMAIN seen, Has(f, o)
      PROVE  o \in DOMAIN result
  BY <1>1, <1>4 DEF IInv, Accounted
<1> QED BY <1>2, <1>3, <1>4

\* Whatever functions call each other, share offsets and have weights, and in
\* whatever order the dictionary of get_bitmap_offsets.py is walked: a script
\* that writes the -j file has kept exactly the offsets on which all functions
\* agree, with the weight they agree on.
THEOREM ExactMap == Spec => []MapExact
<1> QED BY Initial, Inductive, Exact, PTL DEF Spec
=============================================================================
