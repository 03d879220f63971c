---------------------------- MODULE SconfigLine ----------------------------
(***************************************************************************)
(* _sconfig_parse_line (simple_config/sconfig.c): what a line of a         *)
(* configuration file says, against the rules that sconfig.h:6-21 gives.   *)
(*                                                                         *)
(* A line is a sequence of classes of characters; a "blank" is whatever    *)
(* isspace(3) accepts.                                                     *)
(***************************************************************************)
EXTENDS Integers, Sequences, FiniteSetsExt

CONSTANT MaxLen      \* bound: characters in a line

Char == {"letter", "digit", "underscore", "equals", "hash", "blank", "other"}

VARIABLE line

Init == line = <<>>
Next == Len(line) < MaxLen /\ \E c \in Char : line' = Append(line, c)
Spec == Init /\ [][Next]_line

-----------------------------------------------------------------------------
(* The code. *)

Nowhere == 0     \* no such place in the line

\* Where a loop from i stops that looks for the first place with the property P.
First(s, i, P(_)) ==
  LET hits == {j \in i..Len(s) : P(j)} IN IF hits = {} THEN Nowhere ELSE Min(hits)

Failed == [ret |-> -1, name |-> <<>>, value |-> <<>>]
NoToken == [ret |-> 0, name |-> <<>>, value |-> <<>>]

NameBegin(s) == First(s, 1, LAMBDA j : s[j] # "blank")
NameEnd(s, i) == First(s, i, LAMBDA j : s[j] \notin {"letter", "digit", "underscore"})

\* Wrong: any # begins a note.
WrongNote(s, i) == First(s, i, LAMBDA j : s[j] = "hash" /\ j # i)

\* A note begins at a # behind a blank, not at the first character of the value.
Note(s, i) == First(s, i, LAMBDA j : s[j] = "hash" /\ j # i /\ s[j - 1] = "blank")

\* The last character of the value that begins at i.
LastChar(s, i) ==
  LET end == IF Note(s, i) = Nowhere THEN Len(s) ELSE Note(s, i) - 1
      inked == {j \in i..end : s[j] # "blank"}
  IN IF inked = {} THEN Nowhere ELSE Max(inked)

ParseValue(s, name, i) ==
  IF LastChar(s, i) = Nowhere THEN [ret |-> 1, name |-> name, value |-> <<>>]
  ELSE IF s[i] = "blank" THEN Failed
  ELSE [ret |-> 2, name |-> name, value |-> SubSeq(s, i, LastChar(s, i))]

_sconfig_parse_line(s) ==
  LET b == NameBegin(s) IN
  IF b = Nowhere THEN NoToken
  ELSE IF s[b] \in {"equals", "underscore", "digit"} THEN Failed
  ELSE IF s[b] = "hash" THEN NoToken
  ELSE LET e == NameEnd(s, b) IN
       IF e = Nowhere THEN Failed
       ELSE IF s[e] # "equals" \/ \A j \in b..e - 1 : s[j] # "letter" THEN Failed
       ELSE ParseValue(s, SubSeq(s, b, e - 1), e + 1)

-----------------------------------------------------------------------------
(* The rules. *)

Blank(s, i, j) == \A h \in i..j : s[h] = "blank"

\* Rule 2: a line that is blank or a note.
Skipped(s) ==
  Blank(s, 1, Len(s)) \/ \E i \in 1..Len(s) : s[i] = "hash" /\ Blank(s, 1, i - 1)

\* Rules 1 and 3 to 7: blanks, a name, =, a value, and blanks before a note
\* or the end.
Reads(s, b, e, v) ==
  /\ b < e /\ e <= v
  /\ Blank(s, 1, b - 1)
  /\ s[b] = "letter" /\ \A j \in b..e - 1 : s[j] \in {"letter", "digit", "underscore"}
  /\ s[e] = "equals"
  /\ v > e => /\ s[e + 1] # "blank" /\ s[v] # "blank"
              /\ \A j \in e + 2..v : s[j] = "hash" => s[j - 1] # "blank"
  /\ \/ Blank(s, v + 1, Len(s))
     \/ \E j \in v + 2..Len(s) : s[j] = "hash" /\ Blank(s, v + 1, j - 1)

Readings(s) ==
  {[name |-> SubSeq(s, t[1], t[2] - 1), value |-> SubSeq(s, t[2] + 1, t[3])] :
     t \in {u \in (1..Len(s)) \X (1..Len(s)) \X (1..Len(s)) : Reads(s, u[1], u[2], u[3])}}

\* A line is read as the rules say: skipped if it is blank or a note, read as
\* its one reading with the name and value that has, and refused otherwise.
ReadAsDocumented ==
  LET p == _sconfig_parse_line(line) IN
  /\ p.ret = 0 <=> Skipped(line)
  /\ Readings(line) = IF p.ret <= 0 THEN {} ELSE {[name |-> p.name, value |-> p.value]}
  /\ p.ret = 2 <=> p.value # <<>>
=============================================================================
