------------------------------ MODULE LookupTable ------------------------------
(***************************************************************************)
(* The class LookupTable: a table of pads read from a CSV file.            *)
(*                                                                         *)
(* A line of the file is the sequence of its elements: numbers, Blank for  *)
(* an empty one and Text for one that stoi does not convert to an int.     *)
(***************************************************************************)
EXTENDS Integers, Sequences

CONSTANTS
  Blank, Text,
  MissingValue  \* 20000

VARIABLES
  csv,     \* the lines of the file
  line,    \* the number of lines that have been read
  table    \* from hashes to pads

tableVars == <<csv, line, table>>

TableInit == line = 0 /\ table = <<>>

CalculateHash(cobo, asad, aget, channel) ==
  channel + aget * 100 + asad * 10000 + cobo * 1000000

\* getline leaves `element` alone once the line has ended.  What follows the
\* fifth element stays unread.
Element(row, i) == row[IF i <= Len(row) THEN i ELSE Len(row)]

Skipped(row) == row[1] \in {Blank, -1}

Malformed(row) == \E i \in 1..5 : Element(row, i) \in {Blank, Text}

\* The casts to addr_t and pad_t.
Addr(n) == n % 2^8
Hash(row) == CalculateHash(Addr(Element(row, 1)), Addr(Element(row, 2)),
                           Addr(Element(row, 3)), Addr(Element(row, 4)))
Value(row) == Element(row, 5) % 2^16

\* Fault: table[hash] = value.
Overwrite(hash, value) ==
  table' = [h \in DOMAIN table \cup {hash} |-> IF h = hash THEN value ELSE table[h]]

\* emplace leaves the value alone that a key already has.
Emplace(hash, value) ==
  table' = [h \in DOMAIN table \cup {hash} |-> IF h \in DOMAIN table THEN table[h] ELSE value]

\* One turn of the loop in ReadFile; stoi throws on a malformed line.
ReadRow ==
  /\ line < Len(csv)
  /\ line' = line + 1
  /\ LET row == csv[line + 1] IN
       IF Skipped(row) THEN UNCHANGED table
       ELSE ~Malformed(row) /\ Emplace(Hash(row), Value(row))
  /\ UNCHANGED csv

RowThrows == line < Len(csv) /\ ~Skipped(csv[line + 1]) /\ Malformed(csv[line + 1])

Empty == DOMAIN table = {}

\* Find, for a table that is not empty.
Find(cobo, asad, aget, channel) ==
  LET hash == CalculateHash(cobo, asad, aget, channel)
  IN  IF hash \in DOMAIN table THEN table[hash] ELSE MissingValue

-----------------------------------------------------------------------------
(* Properties *)

Limits == (0..255) \X (0..99) \X (0..99) \X (0..99)

\* The lines read so far that give a pad, and the address they give it to.
PadLines == {i \in 1..line : ~Skipped(csv[i])}
Listed(i) == <<Element(csv[i], 1), Element(csv[i], 2), Element(csv[i], 3), Element(csv[i], 4)>>

\* While every line names an address within the limits and a pad that fits in
\* 16 bits, Find gives each address the pad of the first line that lists it,
\* and no pad to any other address: no two addresses share a place in the
\* table, however the lines are ordered and repeated.  (LookupTable::ReadFile)
TableFaithful ==
  (\A i \in PadLines : Listed(i) \in Limits /\ Element(csv[i], 5) \in 0..(2^16 - 1)) =>
    /\ \A i \in PadLines :
         (\A j \in PadLines : Listed(j) = Listed(i) => i <= j) =>
           Find(Listed(i)[1], Listed(i)[2], Listed(i)[3], Listed(i)[4]) = Element(csv[i], 5)
    /\ DOMAIN table =
         {CalculateHash(Listed(i)[1], Listed(i)[2], Listed(i)[3], Listed(i)[4]) : i \in PadLines}
=============================================================================
