--------------------------- MODULE DictionaryFile ---------------------------
(***************************************************************************)
(* load_extras_file (AFLplusplus/src/afl-fuzz-extras.c): the dictionary of *)
(* -x as a file of lines name@level = "value".  What comes before the      *)
(* value is abstracted to the verdict on it; the value is copied one       *)
(* character at a time, so that its escapes can be followed.  Characters   *)
(* are classes: "c" a letter that is no hex digit, "h" a hex digit, "x",   *)
(* "b" a backslash, "q" a quote, "n" a control or non-ASCII character.     *)
(***************************************************************************)
EXTENDS Naturals, Sequences, FiniteSets

CONSTANTS
  Files,           \* the files: sequences of [head, level, value]
  dict_level,      \* the level asked for
  MAX_DICT_FILE

Chars == {"c", "h", "x", "b", "q", "n"}

\* What the line is before its value: empty or a comment, without the closing or
\* the opening quote, or as it should be.
Heads == {"blank", "malformed", "good"}

DictionaryAssumption ==
  /\ MAX_DICT_FILE \in Nat
  /\ \A f \in Files : \A k \in DOMAIN f :
       f[k].head \in Heads /\ f[k].value \in Seq(Chars)

VARIABLES
  file, cur_line,      \* lines read
  lptr,                \* in the value: the next character; 0 between two lines
  written,             \* what wptr wrote; klen is its length
  extras               \* the tokens loaded

vars == <<file, cur_line, lptr, written, extras>>

Init ==
  /\ file \in Files /\ cur_line = 0
  /\ lptr = 0 /\ written = <<>> /\ extras = <<>>

value == file[cur_line].value
Char(p) == IF p =< Len(value) THEN value[p] ELSE "end"

isxdigit(ch) == ch = "h"

\* The next line, unless it is one to skip
Line ==
  /\ lptr = 0 /\ cur_line < Len(file)
  /\ cur_line' = cur_line + 1
  /\ LET l == file[cur_line']
     IN lptr' = IF l.head = "good" /\ l.level =< dict_level /\ l.value # <<>>
                THEN 1 ELSE 0
  /\ written' = <<>>
  /\ UNCHANGED <<file, extras>>

\* One turn of the loop over the value: where lptr goes, and what is written
Goes(to, out) == lptr' = to /\ written' = written \o out

IsHex(p) == Char(p) = "x" /\ isxdigit(Char(p + 1)) /\ isxdigit(Char(p + 2))

EscapeByOneDigit(p) ==
  IF Char(p) \in {"b", "q"} THEN Goes(p + 1, <<Char(p)>>)
  ELSE IF IsHex(p) THEN Goes(p + 2, <<"byte">>)
  ELSE Goes(p, <<>>)

Escape(p) ==
  IF Char(p) \in {"b", "q"} THEN Goes(p + 1, <<Char(p)>>)
  ELSE IF IsHex(p) THEN Goes(p + 3, <<"byte">>)
  ELSE Goes(p, <<>>)       \* "Invalid escaping": continue

Copy ==
  /\ lptr # 0 /\ Char(lptr) # "end"
  /\ CASE Char(lptr) = "n" -> Goes(lptr, <<>>)   \* "Non-printable": continue
       [] Char(lptr) = "b" -> Escape(lptr + 1)
       [] OTHER            -> Goes(lptr + 1, <<Char(lptr)>>)
  /\ UNCHANGED <<file, cur_line, extras>>

EndOfValue ==
  /\ lptr # 0 /\ Char(lptr) = "end"
  /\ extras' = IF Len(written) > MAX_DICT_FILE THEN extras ELSE Append(extras, written)
  /\ lptr' = 0
  /\ UNCHANGED <<file, cur_line, written>>

Next == Line \/ Copy \/ EndOfValue

Spec == Init /\ [][Next]_vars

-----------------------------------------------------------------------------
\* What dictionaries/README.md says a value means: \xNN, \\ and \" are one byte
\* each.  Defined for the values in which every backslash starts one of them.
Meaning(v) ==
  LET from[k \in 1 .. Len(v) + 3] ==
        IF k > Len(v) THEN <<>>
        ELSE IF v[k] # "b" THEN <<v[k]>> \o from[k + 1]
        ELSE IF k < Len(v) /\ v[k + 1] = "x" THEN <<"byte">> \o from[k + 4]
        ELSE <<v[k + 1]>> \o from[k + 2]
  IN from[1]

\* Every backslash starts an escape, and nothing needs one that has none.
Proper(v) ==
  LET from[k \in 1 .. Len(v) + 3] ==
        IF k > Len(v) THEN k = Len(v) + 1
        ELSE IF v[k] \in {"n", "q"} THEN FALSE
        ELSE IF v[k] # "b" THEN from[k + 1]
        ELSE IF k < Len(v) /\ v[k + 1] \in {"b", "q"} THEN from[k + 2]
        ELSE k + 3 =< Len(v) /\ v[k + 1] = "x" /\ v[k + 2] = "h" /\ v[k + 3] = "h"
             /\ from[k + 4]
  IN from[1]

Lines == {k \in DOMAIN file : file[k].head = "good" /\ file[k].level =< dict_level}

Passed(k) == k < cur_line \/ (k = cur_line /\ lptr = 0)

(* Once a line is read, a properly written value of the level asked for that   *)
(* is not too long is a token, decoded as dictionaries/README.md says,         *)
(* whatever the lines before it are (lines 73-244).  A line with a character   *)
(* that is not printable is never read to its end, nor are those after it:     *)
(* lptr stays at the character (line 194).                                     *)
ProperLinesLoaded ==
  \A k \in Lines :
    LET v == file[k].value
    IN Passed(k) /\ v # <<>> /\ Proper(v) /\ Len(Meaning(v)) =< MAX_DICT_FILE =>
         \E j \in DOMAIN extras : extras[j] = Meaning(v)

(* The copy never reads past the end of the value, even when an escape is cut   *)
(* off by it (line 209), and writes no more than was allocated (line 181).      *)
WithinValue ==
  lptr # 0 => lptr =< Len(value) + 1 /\ Len(written) < lptr

\* The two ends that reading may come to.
IsRead == cur_line = Len(file) /\ lptr = 0
AtUnprintable == lptr # 0 /\ Char(lptr) = "n"
=============================================================================
