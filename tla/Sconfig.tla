------------------------------ MODULE Sconfig ------------------------------
(***************************************************************************)
(* struct sconfig (simple_config/sconfig.c): a configuration loaded from a *)
(* file line by line, loaded again at any time, read and iterated over.    *)
(*                                                                         *)
(* A line is what _sconfig_parse_line makes of it (module SconfigLine): an *)
(* item, nothing ("blank"), malformed ("bad"), or too long for the buffer  *)
(* of _sconfig_load ("long").  A value is the number it begins with.       *)
(* Outside the module: whoever writes the file, but never while it is      *)
(* being loaded, which is one step.                                        *)
(***************************************************************************)
EXTENDS Integers, Sequences, FiniteSetsExt

CONSTANTS
  Name,              \* names, as numbers in the order of their bytes
  Value,             \* the numbers that values say
  MaxLines,          \* bound: lines in a file
  IntHalf, LongHalf, \* 2^31 and 2^63
  None

ConfigAssumption ==
  /\ Name \subseteq Nat /\ IsFiniteSet(Name) /\ Value \subseteq Int
  /\ MaxLines \in Nat
  /\ {IntHalf, LongHalf} \subseteq Nat \ {0}
  /\ \E c \in 1..LongHalf : LongHalf = c * IntHalf
  /\ None \notin Int

Item == Name \X Value
Line == Item \cup {<<"blank">>, <<"bad">>, <<"long">>}
Lines == UNION {[1..n -> Line] : n \in 0..MaxLines}

\* The last line may lack its newline.
File == [lines : Lines, terminated : BOOLEAN]

VARIABLES
  disk,              \* the file, None if there is none
  items,             \* sconf->items, None while there is no sconf
  iterator,          \* of the skip list
  loaded,            \* history: the file when it was loaded last
  handed             \* history: what the iteration has handed out

vars == <<disk, items, iterator, loaded, handed>>

TypeOK ==
  /\ disk \in File \cup {None}
  /\ items = None \/ items \in UNION {[N -> Value] : N \in SUBSET Name}
  /\ iterator \in Name \cup {None}
  /\ loaded \in File \cup {None}
  /\ handed \subseteq Item

Init ==
  /\ disk \in File \cup {None}
  /\ items = None /\ iterator = None
  /\ loaded = None /\ handed = {}

\* Another program removes the file, or writes one where there is none.
Edit ==
  /\ disk' \in IF disk = None THEN File ELSE {None}
  /\ UNCHANGED <<items, iterator, loaded, handed>>

-----------------------------------------------------------------------------
(* _sconfig_load. *)

\* The last line, without a newline.
Cut(f, i) == i = Len(f.lines) /\ ~f.terminated

\* slist_insert finds the name of line i in the list.
Repeats(f, i) ==
  f.lines[i] \in Item /\ \E j \in 1..i - 1 :
                           f.lines[j] \in Item /\ f.lines[j][1] = f.lines[i][1]

\* The lines at which the loop breaks.
Breaks(f) ==
  {i \in 1..Len(f.lines) :
     Cut(f, i) \/ f.lines[i] \in {<<"bad">>, <<"long">>} \/ Repeats(f, i)}

\* Lines that are read.
Upto(f) == 1..IF Breaks(f) = {} THEN Len(f.lines) ELSE Min(Breaks(f)) - 1

Inserted(f) == {f.lines[i] : i \in Upto(f)} \cap Item

\* The loop has met the end of the file: it has read it all, or was cut short
\* by its very last line.
Eof(f) ==
  Breaks(f) # {} =>
    Cut(f, Min(Breaks(f))) /\ f.lines[Len(f.lines)] # <<"long">>

\* A set of pairs as a function.
Table(S) == [n \in {p[1] : p \in S} |-> (CHOOSE p \in S : p[1] = n)[2]]

Loads == disk # None /\ Eof(disk)

\* sconfig_new.  When a load fails this and sconfig_reload leave all as it is.
New ==
  /\ items = None
  /\ Loads
  /\ items' = Table(Inserted(disk))
  /\ loaded' = disk
  /\ UNCHANGED <<disk, iterator, handed>>

\* Wrong: the iterator stays where it was.
WrongReload ==
  /\ items # None
  /\ Loads
  /\ items' = Table(Inserted(disk)) /\ loaded' = disk
  /\ UNCHANGED <<disk, iterator, handed>>

\* sconfig_reload: a new list takes the place of the old one, if it was loaded.
Reload ==
  /\ items # None
  /\ Loads
  /\ items' = Table(Inserted(disk)) /\ loaded' = disk
  /\ iterator' = None /\ handed' = {}
  /\ UNCHANGED disk

Free ==
  /\ items # None
  /\ items' = None /\ iterator' = None /\ loaded' = None /\ handed' = {}
  /\ UNCHANGED disk

-----------------------------------------------------------------------------
(* Iterating, which is the skip list's (module Slist). *)

\* The name after all those in D.
Following(D) ==
  LET rest == DOMAIN items \ D IN IF rest = {} THEN None ELSE Min(rest)

BeginIterate ==
  /\ items # None
  /\ iterator' = Following({}) /\ handed' = {}
  /\ UNCHANGED <<disk, items, loaded>>

Iterate ==
  /\ iterator # None
  /\ handed' = handed \cup {<<iterator, items[iterator]>>}
  /\ iterator' = Following({n \in DOMAIN items : n <= iterator})
  /\ UNCHANGED <<disk, items, loaded>>

EndIterate ==
  /\ iterator # None
  /\ iterator' = None /\ handed' = {}
  /\ UNCHANGED <<disk, items, loaded>>

Next ==
  \/ Edit \/ New \/ Reload \/ Free
  \/ BeginIterate \/ Iterate \/ EndIterate

Spec == Init /\ [][Next]_vars

-----------------------------------------------------------------------------
(* Reading numbers. *)

\* A number cut to its lowest bits, and the signed number with these bits; half
\* is the weight of the highest.
Truncated(v, half) == v % (2 * half)
Signed(u, half) == IF u >= half THEN u - 2 * half ELSE u

Clamped(v, low, high) == IF v < low THEN low ELSE IF v > high THEN high ELSE v

\* strtol and strtoll of a value, and strtoul and strtoull, which negate
\* within the unsigned range.
Strtol(v) == Clamped(v, -LongHalf, LongHalf - 1)
Strtoul(v) ==
  IF v \in -(2 * LongHalf - 1)..2 * LongHalf - 1 THEN Truncated(v, LongHalf)
  ELSE 2 * LongHalf - 1

sconfig_read_int32(v) == Signed(Truncated(Strtol(v), IntHalf), IntHalf)
sconfig_read_uint32(v) == Truncated(Strtoul(v), IntHalf)
sconfig_read_int64(v) == Strtol(v)
sconfig_read_uint64(v) == Strtoul(v)

-----------------------------------------------------------------------------
(* Properties. *)

Pairs == {<<n, items[n]>> : n \in DOMAIN items}
Read(f) == {f.lines[i] : i \in 1..Len(f.lines)}

\* The configuration is that of one file as it was when a load succeeded: all
\* of its items, each name once, no malformed line, and nothing of a file whose
\* load failed.  Files that end without a newline are left out:
\* their last item is dropped.
LoadedWhole ==
  items # None /\ loaded.terminated =>
    /\ Pairs = Read(loaded) \cap Item
    /\ Read(loaded) \subseteq Item \cup {<<"blank">>}
    /\ \A i, j \in 1..Len(loaded.lines) :
         i # j /\ {loaded.lines[i], loaded.lines[j]} \subseteq Item =>
           loaded.lines[i][1] # loaded.lines[j][1]

\* An iteration hands out the items of one configuration in the order of their
\* names, and all of them by its end; a reload ends it, as test_sconfig.c:64
\* expects, instead of going on in the new or the freed list.
IterationOfOne ==
  /\ iterator # None => handed = {p \in Pairs : p[1] < iterator}
  /\ iterator = None /\ handed # {} => handed = Pairs

\* A number that fits is read as it was written, by all four functions, and a
\* negative one comes out of the unsigned ones as its two's complement
\* (test_sconfig.c:96).
NumbersRead ==
  items # None => \A n \in DOMAIN items :
    LET v == items[n]
        Same(half, s, u) ==
          /\ v \in -half..half - 1 => s = v /\ u = IF v < 0 THEN v + 2 * half ELSE v
          /\ v \in 0..2 * half - 1 => u = v
    IN /\ Same(IntHalf, sconfig_read_int32(v), sconfig_read_uint32(v))
       /\ Same(LongHalf, sconfig_read_int64(v), sconfig_read_uint64(v))
=============================================================================
