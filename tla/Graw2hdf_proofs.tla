---------------------------- MODULE Graw2hdf_proofs ----------------------------
(***************************************************************************)
(* Proofs about the program and its lookup table, for every command line,  *)
(* table, directory and set of files.                                      *)
(***************************************************************************)
EXTENDS Graw2hdf, TLAPS

-----------------------------------------------------------------------------
(* The lookup table. *)

(* Within the limits no two addresses have the same hash.                  *)
LEMMA HashOneToOne ==
  ASSUME NEW a \in Limits, NEW b \in Limits,
         CalculateHash(a[1], a[2], a[3], a[4]) = CalculateHash(b[1], b[2], b[3], b[4])
  PROVE  a = b
<1>1. /\ a[1] \in 0..255 /\ a[2] \in 0..99 /\ a[3] \in 0..99 /\ a[4] \in 0..99
      /\ b[1] \in 0..255 /\ b[2] \in 0..99 /\ b[3] \in 0..99 /\ b[4] \in 0..99
      /\ a = <<a[1], a[2], a[3], a[4]>> /\ b = <<b[1], b[2], b[3], b[4]>>
  BY DEF Limits
<1>2. PICK c \in 0..255, s \in 0..99, g \in 0..99, n \in 0..99 :
        c = a[1] /\ s = a[2] /\ g = a[3] /\ n = a[4]
  BY <1>1, Zenon
<1>3. PICK d \in 0..255, t \in 0..99, h \in 0..99, m \in 0..99 :
        d = b[1] /\ t = b[2] /\ h = b[3] /\ m = b[4]
  BY <1>1, Zenon
<1>4. CalculateHash(c, s, g, n) = CalculateHash(d, t, h, m)
  BY <1>2, <1>3, Zenon
<1>5. c = d /\ s = t /\ g = h /\ n = m
  BY <1>4, SMT DEF CalculateHash
<1> QED BY <1>1, <1>2, <1>3, <1>5, Zenon

(* The table has the hashes of the lines read, each with the pad of the    *)
(* first line that has it.                                                 *)
TableInv ==
  /\ csv \in Tables /\ line \in 0..Len(csv)
  /\ \A i \in PadLines : ~Malformed(csv[i])
  /\ DOMAIN table = {Hash(csv[i]) : i \in PadLines}
  /\ \A i \in PadLines :
       (\A j \in PadLines : Hash(csv[j]) = Hash(csv[i]) => i <= j) =>
         table[Hash(csv[i])] = Value(csv[i])

LEMMA ReadRowInv == ASSUME TableInv, ReadRow PROVE TableInv'
<1> DEFINE n == line + 1
           row == csv[n]
<1>1. csv' = csv /\ line' = n /\ line < Len(csv)
  BY DEF ReadRow
<1>2. Len(csv) \in Nat /\ line \in Nat /\ n \in 1..Len(csv) /\ n \notin 1..line
  <2>1. csv \in Seq(Seq(Int \cup {Blank, Text}) \ {<<>>})
    BY Graw2hdfAssumption DEF TableInv
  <2>2. Len(csv) \in Nat
    BY <2>1
  <2> QED BY <2>2, <1>1 DEF TableInv
<1>3. 1..n = 1..line \cup {n}
  BY <1>2
<1>4. csv' \in Tables /\ line' \in 0..Len(csv')
  BY <1>1, <1>2 DEF TableInv
<1> HIDE DEF n
<1>5. CASE Skipped(row)
  <2>1. PadLines' = PadLines
    BY <1>1, <1>3, <1>5 DEF PadLines
  <2>2. table' = table
    BY <1>5 DEF ReadRow, n
  <2> QED BY <1>1, <1>4, <2>1, <2>2 DEF TableInv
<1>6. CASE ~Skipped(row)
  <2> DEFINE h == Hash(row)
  <2>1. /\ PadLines' = PadLines \cup {n} /\ n \notin PadLines
        /\ \A i \in PadLines : i < n /\ i \in Nat
    BY <1>1, <1>2, <1>3, <1>6 DEF PadLines, n
  <2>2. /\ ~Malformed(row)
        /\ table' = [k \in DOMAIN table \cup {h} |-> IF k \in DOMAIN table THEN table[k] ELSE Value(row)]
    BY <1>6 DEF ReadRow, Emplace, n
  <2>3. \A i \in PadLines' : ~Malformed(csv'[i])
    BY <1>1, <2>1, <2>2 DEF TableInv
  <2> HIDE DEF h
  <2>4. /\ DOMAIN table' = DOMAIN table \cup {h}
        /\ \A k \in DOMAIN table : table'[k] = table[k]
        /\ h \notin DOMAIN table => table'[h] = Value(row)
    BY <2>2
  <2>5. DOMAIN table' = {Hash(csv'[i]) : i \in PadLines'}
    BY <1>1, <2>1, <2>4 DEF TableInv, h
  <2>6. ASSUME NEW i \in PadLines', \A j \in PadLines' : Hash(csv[j]) = Hash(csv[i]) => i <= j
        PROVE  table'[Hash(csv[i])] = Value(csv[i])
    <3>1. CASE i = n
      <4>1. h \notin DOMAIN table
        <5> SUFFICES ASSUME h \in DOMAIN table PROVE FALSE
          OBVIOUS
        <5>1. PICK j \in PadLines : Hash(csv[j]) = h
          BY DEF TableInv
        <5>2. n <= j /\ j < n /\ j \in Nat /\ n \in Nat
          BY <5>1, <2>1, <2>6, <3>1, <1>2 DEF h
        <5> QED BY <5>2
      <4>2. Hash(csv[i]) = h /\ Value(csv[i]) = Value(row)
        BY <3>1 DEF h
      <4> QED BY <4>1, <4>2, <2>4
    <3>2. CASE i \in PadLines
      <4>1. table[Hash(csv[i])] = Value(csv[i])
        BY <3>2, <2>1, <2>6 DEF TableInv
      <4>2. Hash(csv[i]) \in DOMAIN table
        BY <3>2 DEF TableInv
      <4> QED BY <4>1, <4>2, <2>4
    <3> QED BY <3>1, <3>2, <2>1
  <2> QED BY <1>1, <1>4, <2>3, <2>5, <2>6 DEF TableInv
<1> QED BY <1>5, <1>6

LEMMA TableInvFaithful == TableInv => TableFaithful
<1> SUFFICES ASSUME TableInv,
                    \A i \in PadLines : Listed(i) \in Limits /\ Element(csv[i], 5) \in 0..(2^16 - 1)
             PROVE  /\ \A i \in PadLines :
                         (\A j \in PadLines : Listed(j) = Listed(i) => i <= j) =>
                           Find(Listed(i)[1], Listed(i)[2], Listed(i)[3], Listed(i)[4]) = Element(csv[i], 5)
                    /\ DOMAIN table =
                         {CalculateHash(Listed(i)[1], Listed(i)[2], Listed(i)[3], Listed(i)[4]) : i \in PadLines}
  BY Zenon DEF TableFaithful
<1>1. ASSUME NEW i \in PadLines
      PROVE  /\ Hash(csv[i]) = CalculateHash(Listed(i)[1], Listed(i)[2], Listed(i)[3], Listed(i)[4])
             /\ Value(csv[i]) = Element(csv[i], 5)
  <2>1. /\ Element(csv[i], 1) \in 0..255 /\ Element(csv[i], 2) \in 0..99
        /\ Element(csv[i], 3) \in 0..99 /\ Element(csv[i], 4) \in 0..99
        /\ Element(csv[i], 5) \in 0..(2^16 - 1)
    <3>1. \A a \in Limits : a[1] \in 0..255 /\ a[2] \in 0..99 /\ a[3] \in 0..99 /\ a[4] \in 0..99
      BY SMT DEF Limits
    <3>2. /\ Listed(i)[1] = Element(csv[i], 1) /\ Listed(i)[2] = Element(csv[i], 2)
          /\ Listed(i)[3] = Element(csv[i], 3) /\ Listed(i)[4] = Element(csv[i], 4)
      BY SMT DEF Listed
    <3> QED BY <3>1, <3>2, SMT
  <2>2. \A x \in 0..255 : Addr(x) = x
    BY SMT DEF Addr
  <2>3. Element(csv[i], 5) % 2^16 = Element(csv[i], 5)
    BY <2>1, SMT
  <2>4. Value(csv[i]) = Element(csv[i], 5)
    BY <2>3, Zenon DEF Value
  <2>5. /\ Addr(Element(csv[i], 1)) = Listed(i)[1] /\ Addr(Element(csv[i], 2)) = Listed(i)[2]
        /\ Addr(Element(csv[i], 3)) = Listed(i)[3] /\ Addr(Element(csv[i], 4)) = Listed(i)[4]
    BY <2>1, <2>2, SMT DEF Listed
  <2> QED BY <2>4, <2>5, SMT DEF Hash
<1>2. \A i, j \in PadLines : Hash(csv[i]) = Hash(csv[j]) => Listed(i) = Listed(j)
  BY <1>1, HashOneToOne
<1>3. DOMAIN table =
        {CalculateHash(Listed(i)[1], Listed(i)[2], Listed(i)[3], Listed(i)[4]) : i \in PadLines}
  BY <1>1 DEF TableInv
<1>4. ASSUME NEW i \in PadLines, \A j \in PadLines : Listed(j) = Listed(i) => i <= j
      PROVE  Find(Listed(i)[1], Listed(i)[2], Listed(i)[3], Listed(i)[4]) = Element(csv[i], 5)
  <2>1. table[Hash(csv[i])] = Value(csv[i]) /\ Hash(csv[i]) \in DOMAIN table
    BY <1>2, <1>4 DEF TableInv
  <2> QED BY <2>1, <1>1 DEF Find
<1> QED BY <1>3, <1>4

LEMMA TableInvStep == TableInv /\ [Next]_vars => TableInv'
<1> SUFFICES ASSUME TableInv, [Next]_vars PROVE TableInv'
  OBVIOUS
<1>1. CASE ReadRow
  BY <1>1, ReadRowInv
<1>2. CASE UNCHANGED tableVars
  BY <1>2 DEF tableVars, TableInv, PadLines
<1> QED BY <1>1, <1>2 DEF Next, vars, Step, RemoveFile, Stopped, ParseOptions, OpenTable,
             ReadTable, TableRead, PassPath, FindFile, ResolveFile, ResolveThrows, WalkThrows,
             WalkEnds, OpenFile, AllOpened, IndexFiles, CreateOutput, MergeReturns, MergeTerminates

LEMMA TableInvInit == Init => TableInv
<1> SUFFICES ASSUME Init PROVE TableInv
  OBVIOUS
<1>1. csv \in Tables /\ line = 0 /\ table = <<>>
  BY DEF Init, TableInit
<1>2. csv \in Seq(Seq(Int \cup {Blank, Text}) \ {<<>>})
  BY <1>1, Graw2hdfAssumption
<1>3. PadLines = {} /\ line \in 0..Len(csv)
  BY <1>1, <1>2 DEF PadLines
<1>4. DOMAIN <<>> = {}
  OBVIOUS
<1> QED BY <1>1, <1>3, <1>4 DEF TableInv

(* However the lines of the table are ordered and repeated, every address  *)
(* within the limits has the pad of the first line that lists it.          *)
THEOREM TableCorrect == Spec => []TableFaithful
  BY TableInvInit, TableInvStep, TableInvFaithful, PTL DEF Spec

-----------------------------------------------------------------------------
(* The program. *)

Before == {"parse", "table", "walk", "resolve", "open", "index", "create", "spin"}

(* Nothing is written before the output file is created, and no exception  *)
(* is reported after that.                                                 *)
OutputInv ==
  /\ pc \in Before \cup {"merge", "exit"}
  /\ pc \in Before => output = "old"
  /\ pc # "exit" => exit = "none"
  /\ OutputKept

LEMMA OutputInvStep == OutputInv /\ [Next]_vars => OutputInv'
<1> SUFFICES ASSUME OutputInv, [Next]_vars PROVE OutputInv'
  OBVIOUS
<1> USE DEF OutputInv, OutputKept, Before
<1>1. CASE UNCHANGED vars \/ RemoveFile \/ Stopped
  BY <1>1 DEF vars, RemoveFile, Stopped
<1>2. CASE ParseOptions
  BY <1>2 DEF ParseOptions, Exit
<1>3. CASE OpenTable \/ ReadTable \/ TableRead \/ PassPath \/ FindFile \/ WalkThrows
  BY <1>3 DEF OpenTable, ReadTable, TableRead, PassPath, FindFile, WalkThrows, Throw, Exit
<1>7. CASE ResolveFile \/ ResolveThrows
  BY <1>7 DEF ResolveFile, ResolveThrows, Throw, Exit
<1>4. CASE WalkEnds \/ OpenFile \/ AllOpened \/ IndexFiles
  BY <1>4 DEF WalkEnds, OpenFile, AllOpened, IndexFiles, Throw, Exit
<1>5. CASE CreateOutput
  <2>1. "H5::FileIException" \notin StdExceptions
    BY DEF StdExceptions
  <2> QED BY <2>1, <1>5 DEF CreateOutput, Throw, Exit
<1>6. CASE MergeReturns \/ MergeTerminates
  BY <1>6 DEF MergeReturns, MergeTerminates, Exit
<1> QED BY <1>1, <1>2, <1>3, <1>4, <1>5, <1>6, <1>7 DEF Next, Step

(* A run that reports an error leaves the earlier output as it was.        *)
THEOREM OutputCorrect == Spec => []OutputKept
<1>1. Init => OutputInv
  BY DEF Init, OutputInv, OutputKept, Before
<1>2. OutputInv => OutputKept
  BY DEF OutputInv
<1> QED BY <1>1, <1>2, OutputInvStep, PTL DEF Spec

Types ==
  /\ tree \in Trees /\ existing \subseteq FileIds
  /\ visited \in 0..Len(tree) /\ found \in Seq(FileIds) /\ opened \in 0..Len(found)

(* The walk has found what a name and a link led to, and has missed no     *)
(* regular file that is still there.                                       *)
Found ==
  /\ \A i \in DOMAIN found : \E j \in 1..visited : tree[j].graw /\ tree[j].to = found[i]
  /\ \A j \in 1..visited :
       tree[j].graw /\ tree[j].to \in existing /\ file[tree[j].to].regular
         => \E i \in DOMAIN found : found[i] = tree[j].to

(* What is known by the time the program has come to pc.                   *)
Progress ==
  /\ pc \notin {"parse", "exit"} => Runs
  /\ pc = "resolve" => visited < Len(tree) /\ Path.graw
  /\ pc \in {"open", "index", "create", "merge"} => visited = Len(tree) /\ found # <<>>
  /\ \A i \in 1..opened : file[found[i]].graw /\ file[found[i]].readable
  /\ pc \in {"index", "create", "merge"} => opened = Len(found)
  /\ pc \in {"create", "merge"} => \A i \in DOMAIN found : file[found[i]].long

MergeInv == OutputInv /\ Types /\ Found /\ Progress /\ AllOrNothing

(* A path of the directory. *)
LEMMA PathOf ==
  ASSUME Types, visited < Len(tree)
  PROVE  /\ Path.graw \in BOOLEAN /\ Path.link \in BOOLEAN
         /\ Path.to \in FileIds \cup {"directory", "closed", "nowhere"}
         /\ visited + 1 \in 0..Len(tree)
         /\ 1..(visited + 1) = 1..visited \cup {visited + 1}
<1> DEFINE P == [link : BOOLEAN, graw : BOOLEAN, to : FileIds \cup {"directory", "closed", "nowhere"}]
<1>1. tree \in Seq(P)
  BY Graw2hdfAssumption DEF Types
<1>2. visited \in Nat /\ Len(tree) \in Nat /\ visited + 1 \in 1..Len(tree)
  BY <1>1 DEF Types
<1>3. tree[visited + 1] \in P
  <2> HIDE DEF P
  <2> QED BY <1>1, <1>2
<1>4. 1..(visited + 1) = 1..visited \cup {visited + 1}
  BY <1>2
<1> QED BY <1>2, <1>3, <1>4 DEF Path

LEMMA WalkInv == ASSUME MergeInv, PassPath \/ ResolveFile, UNCHANGED <<inputVars, existing>> PROVE MergeInv'
<1> DEFINE n == visited + 1
<1>1. /\ pc \in {"walk", "resolve"} /\ pc' = "walk" /\ visited < Len(tree) /\ visited' = n
      /\ opened' = opened /\ UNCHANGED <<output, merged, exit, command, tree, file, existing>>
  BY DEF PassPath, ResolveFile, inputVars, MergeInv, Progress
<1>2. Types /\ found \in Seq(FileIds) /\ opened \in 0..Len(found) /\ opened \in Nat /\ Len(found) \in Nat
  BY DEF MergeInv, Types
<1>3. /\ Path.to \in FileIds \cup {"directory", "closed", "nowhere"}
      /\ n \in 0..Len(tree) /\ 1..n = 1..visited \cup {n} /\ Path = tree[n]
  BY <1>1, <1>2, PathOf DEF Path
<1>4. OutputInv' /\ AllOrNothing'
  BY <1>1 DEF MergeInv, OutputInv, OutputKept, AllOrNothing, Before
<1> HIDE DEF n
<1>5. CASE PassPath
  <2>1. found' = found /\ ~IsGRAWFile(Path)
    BY <1>5 DEF PassPath
  <2>2. Types'
    BY <1>1, <1>2, <1>3, <2>1 DEF Types
  <2>3. ~(Path.graw /\ Path.to \in existing /\ file[Path.to].regular)
    <3>1. Path.to \in existing => Path.to \notin {"directory", "closed"}
      BY Graw2hdfAssumption, <1>2 DEF Types
    <3> QED BY <2>1, <3>1 DEF IsGRAWFile, IsDirectory, IsRegular
  <2>4. Found'
    BY <1>1, <1>3, <2>1, <2>3 DEF MergeInv, Found
  <2>5. Progress'
    BY <1>1, <2>1 DEF MergeInv, Progress, Runs
  <2> QED BY <1>4, <2>2, <2>4, <2>5 DEF MergeInv
<1>6. CASE ResolveFile
  <2>1. found' = Append(found, Path.to) /\ Path.graw /\ Path.to \in existing
    BY <1>6 DEF ResolveFile, MergeInv, Progress
  <2>2. Path.to \in FileIds
    BY <2>1, <1>2 DEF Types
  <2>3. /\ found' \in Seq(FileIds) /\ Len(found') = Len(found) + 1
        /\ DOMAIN found' = DOMAIN found \cup {Len(found) + 1}
        /\ found'[Len(found) + 1] = Path.to
        /\ \A i \in DOMAIN found : found'[i] = found[i]
        /\ DOMAIN found = 1..Len(found)
    BY <1>2, <2>1, <2>2
  <2>4. Types'
    BY <1>1, <1>2, <1>3, <2>3 DEF Types
  <2>5. Found'
    <3>1. ASSUME NEW i \in DOMAIN found'
          PROVE  \E j \in 1..n : tree[j].graw /\ tree[j].to = found'[i]
      <4>1. CASE i \in DOMAIN found
        BY <4>1, <1>3, <2>3 DEF MergeInv, Found
      <4>2. CASE i = Len(found) + 1
        BY <4>2, <1>3, <2>1, <2>3
      <4> QED BY <4>1, <4>2, <2>3
    <3>2. ASSUME NEW j \in 1..n, tree[j].graw, tree[j].to \in existing, file[tree[j].to].regular
          PROVE  \E i \in DOMAIN found' : found'[i] = tree[j].to
      <4>1. CASE j \in 1..visited
        <5>1. PICK i \in DOMAIN found : found[i] = tree[j].to
          BY <3>2, <4>1 DEF MergeInv, Found
        <5> QED BY <5>1, <2>3
      <4>2. CASE j = n
        BY <4>2, <1>3, <2>3
      <4> QED BY <4>1, <4>2, <1>3
    <3> QED BY <3>1, <3>2, <1>1 DEF Found
  <2>6. Progress'
    <3>1. \A i \in 1..opened : i \in DOMAIN found
      BY <1>2, <2>3
    <3>2. \A i \in 1..opened : file[found'[i]].graw /\ file[found'[i]].readable
      BY <3>1, <2>3 DEF MergeInv, Progress
    <3> QED BY <3>2, <1>1 DEF MergeInv, Progress, Runs
  <2> QED BY <1>4, <2>4, <2>5, <2>6 DEF MergeInv
<1> QED BY <1>5, <1>6

LEMMA OpenInv == ASSUME MergeInv, OpenFile, UNCHANGED <<inputVars, existing>> PROVE MergeInv'
<1> DEFINE id == found[opened + 1]
<1>1. /\ pc = "open" /\ opened < Len(found)
      /\ UNCHANGED <<output, merged, command, tree, file, existing, visited, found>>
  BY DEF OpenFile, inputVars, walkVars
<1>2. OutputInv'
  BY OutputInvStep DEF MergeInv, Next, Step
<1>3. found \in Seq(FileIds) /\ opened \in 0..Len(found)
  BY DEF MergeInv, Types
<1>4. Found'
  BY <1>1 DEF MergeInv, Found
<1>5. CASE OpenException(id) = "none"
  <2>1. opened' = opened + 1 /\ pc' = pc /\ exit' = exit
    BY <1>5 DEF OpenFile
  <2>2. file[id].graw /\ file[id].readable
    BY <1>5 DEF OpenException
  <2>3. opened' \in 0..Len(found) /\ 1..opened' = 1..opened \cup {opened + 1}
    BY <1>1, <1>3, <2>1
  <2>4. Types'
    BY <1>1, <1>3, <2>3 DEF MergeInv, Types
  <2>5. Progress'
    BY <1>1, <2>1, <2>2, <2>3 DEF MergeInv, Progress, Runs
  <2>6. AllOrNothing'
    BY <1>1, <2>1 DEF MergeInv, OutputInv, AllOrNothing
  <2> QED BY <1>2, <1>4, <2>4, <2>5, <2>6 DEF MergeInv
<1>6. CASE OpenException(id) # "none"
  <2>1. opened' = opened /\ pc' = "exit" /\ exit' \in {"failure", "terminated"}
    BY <1>6 DEF OpenFile, Throw, Exit
  <2>2. Types' /\ Progress' /\ AllOrNothing'
    BY <1>1, <2>1 DEF MergeInv, Types, Progress, AllOrNothing
  <2> QED BY <1>2, <1>4, <2>2 DEF MergeInv
<1> QED BY <1>5, <1>6

LEMMA ReturnInv == ASSUME MergeInv, MergeReturns, UNCHANGED <<inputVars, existing>> PROVE MergeInv'
<1>1. /\ pc = "merge" /\ pc' = "exit" /\ exit' = "success" /\ output' = "merged"
      /\ merged' = {found[i] : i \in DOMAIN found}
      /\ UNCHANGED <<command, tree, file, existing, visited, found, opened>>
  BY DEF MergeReturns, Exit, inputVars, walkVars
<1>2. OutputInv'
  BY OutputInvStep DEF MergeInv, Next, Step
<1>3. Types' /\ Found' /\ Progress'
  BY <1>1 DEF MergeInv, Types, Found, Progress, Runs
<1>4. /\ Runs /\ visited = Len(tree) /\ found # <<>> /\ opened = Len(found) /\ found \in Seq(FileIds)
      /\ \A i \in DOMAIN found : file[found[i]].long
      /\ \A i \in DOMAIN found : file[found[i]].graw /\ file[found[i]].readable
  <2>1. found \in Seq(FileIds) /\ opened = Len(found)
    BY <1>1 DEF MergeInv, Types, Progress
  <2>2. DOMAIN found = 1..opened
    BY <2>1
  <2> QED BY <1>1, <2>1, <2>2 DEF MergeInv, Progress
<1>5. DOMAIN tree = 1..Len(tree)
  BY Graw2hdfAssumption DEF MergeInv, Types
<1>6. merged' # {}
  BY <1>1, <1>4
<1>7. ASSUME NEW i \in DOMAIN found PROVE found[i] \in GRAWFiles
  <2>1. PICK j \in DOMAIN tree : tree[j].graw /\ tree[j].to = found[i]
    BY <1>4, <1>5 DEF MergeInv, Found
  <2>2. found[i] \in FileIds
    BY <1>4
  <2> QED BY <2>1, <2>2 DEF GRAWFiles
<1>8. ASSUME NEW id \in GRAWFiles \cap existing, file[id].regular PROVE id \in merged'
  <2>1. PICK j \in DOMAIN tree : tree[j].graw /\ tree[j].to = id
    BY DEF GRAWFiles
  <2> QED BY <2>1, <1>1, <1>4, <1>5, <1>8 DEF MergeInv, Found
<1>9. AllOrNothing'
  BY <1>1, <1>4, <1>6, <1>7, <1>8 DEF AllOrNothing, Runs, GRAWFiles
<1> QED BY <1>2, <1>3, <1>9 DEF MergeInv

LEMMA MergeInvStep == MergeInv /\ [Next]_vars => MergeInv'
<1> SUFFICES ASSUME MergeInv, [Next]_vars PROVE MergeInv'
  OBVIOUS
<1>1. OutputInv'
  BY OutputInvStep DEF MergeInv
<1> USE DEF MergeInv
<1>2. CASE UNCHANGED vars \/ Stopped
  BY <1>1, <1>2, SMTT(30) DEF vars, inputVars, walkVars, Stopped, Types, Found, Progress, AllOrNothing, Runs, GRAWFiles, Path
<1>3. CASE RemoveFile
  <2>1. pc # "exit" /\ existing' \subseteq existing
        /\ UNCHANGED <<command, tree, file, pc, visited, found, opened, output, merged, exit>>
    BY <1>3 DEF RemoveFile, inputVars, walkVars
  <2>2. Types' /\ Found' /\ Progress'
    BY <2>1 DEF Types, Found, Progress, Runs, Path
  <2>3. AllOrNothing'
    BY <2>1 DEF OutputInv, AllOrNothing
  <2> QED BY <1>1, <2>2, <2>3
<1>4. ASSUME Step PROVE MergeInv'
  <2>0. UNCHANGED <<command, tree, file, existing>> /\ UNCHANGED <<inputVars, existing>>
    BY <1>4 DEF Step, inputVars
  <2>1. CASE PassPath \/ ResolveFile
    BY <2>0, <2>1, WalkInv
  <2>2. CASE OpenFile
    BY <2>0, <2>2, OpenInv
  <2>3. CASE MergeReturns
    BY <2>0, <2>3, ReturnInv
  <2>4. ASSUME UNCHANGED <<visited, found, opened>>, Progress', AllOrNothing' PROVE MergeInv'
    BY <1>1, <2>0, <2>4 DEF Types, Found
  <2>5. CASE ParseOptions
    <3>1. UNCHANGED <<visited, found, opened, output, merged>> /\ pc = "parse" /\ output = "old"
      BY <2>5 DEF ParseOptions, walkVars, OutputInv, Before
    <3>2. /\ pc' # "exit" => Runs /\ pc' = "table" /\ exit' = exit
          /\ exit' = "success" => ~Runs
      <4>1. exit = "none" /\ Runs \in BOOLEAN
        BY <3>1 DEF OutputInv, Runs
      <4> QED BY <2>5, <4>1 DEF ParseOptions, Exit, Runs
    <3>3. Progress'
      BY <2>0, <3>1, <3>2 DEF Progress, Runs
    <3>4. AllOrNothing'
      BY <2>0, <3>1, <3>2 DEF AllOrNothing, Runs
    <3> QED BY <2>4, <3>1, <3>3, <3>4
  <2>6. ASSUME UNCHANGED <<visited, found, opened>>, pc' = "exit", exit' \in {"failure", "terminated"}
        PROVE  MergeInv'
    BY <2>0, <2>4, <2>6 DEF Progress, AllOrNothing
  <2>7. ASSUME UNCHANGED <<visited, found, opened, exit>>, pc # "exit", Progress' PROVE MergeInv'
    BY <2>4, <2>7 DEF OutputInv, AllOrNothing
  <2>8. CASE OpenTable \/ ReadTable \/ TableRead
    <3>1. UNCHANGED <<visited, found, opened>> /\ pc = "table"
      BY <2>8 DEF OpenTable, ReadTable, TableRead, walkVars
    <3>2. CASE exit' = exit /\ pc' \in {"table", "spin", "walk"}
      BY <2>0, <2>7, <3>1, <3>2 DEF Progress, Runs
    <3> QED BY <2>6, <2>8, <3>1, <3>2 DEF OpenTable, ReadTable, TableRead, Throw, Exit
  <2>9. CASE WalkThrows \/ ResolveThrows
    BY <2>6, <2>9 DEF WalkThrows, ResolveThrows, walkVars, Throw, Exit
  <2>15. CASE FindFile
    <3>1. /\ UNCHANGED <<visited, found, opened, exit>> /\ pc = "walk" /\ pc' = "resolve"
          /\ visited < Len(tree) /\ Path.graw /\ Path' = Path
      BY <2>0, <2>15 DEF FindFile, walkVars, IsGRAWFile, Path
    <3> QED BY <2>0, <2>7, <3>1 DEF Progress, Runs
  <2>10. CASE WalkEnds
    <3>1. UNCHANGED <<visited, found, opened>> /\ pc = "walk" /\ visited = Len(tree)
      BY <2>10 DEF WalkEnds, walkVars
    <3>2. CASE found = <<>>
      BY <2>6, <2>10, <3>1, <3>2 DEF WalkEnds, Throw, Exit
    <3>3. CASE found # <<>>
      <4>1. pc' = "open" /\ exit' = exit
        BY <2>10, <3>3 DEF WalkEnds
      <4> QED BY <2>0, <2>7, <3>1, <3>3, <4>1 DEF Progress, Runs
    <3> QED BY <3>2, <3>3
  <2>11. CASE AllOpened
    BY <2>0, <2>7, <2>11 DEF AllOpened, walkVars, Progress, Runs
  <2>12. CASE IndexFiles
    <3>1. UNCHANGED <<visited, found, opened>> /\ pc = "index"
      BY <2>12 DEF IndexFiles, walkVars
    <3>2. CASE \A i \in DOMAIN found : file[found[i]].long
      <4>1. pc' = "create" /\ exit' = exit
        BY <2>12, <3>2 DEF IndexFiles
      <4> QED BY <2>0, <2>7, <3>1, <3>2, <4>1 DEF Progress, Runs
    <3>3. CASE ~\A i \in DOMAIN found : file[found[i]].long
      BY <2>6, <2>12, <3>1, <3>3 DEF IndexFiles, Throw, Exit
    <3> QED BY <3>2, <3>3
  <2>13. CASE CreateOutput
    <3>1. UNCHANGED <<visited, found, opened>> /\ pc = "create"
      BY <2>13 DEF CreateOutput, walkVars
    <3>2. CASE creatable
      <4>1. pc' = "merge" /\ exit' = exit
        BY <2>13, <3>2 DEF CreateOutput
      <4> QED BY <2>0, <2>7, <3>1, <4>1 DEF Progress, Runs
    <3>3. CASE ~creatable
      BY <2>6, <2>13, <3>1, <3>3 DEF CreateOutput, Throw, Exit
    <3> QED BY <3>2, <3>3
  <2>14. CASE MergeTerminates
    BY <2>6, <2>14 DEF MergeTerminates, walkVars, Exit
  <2> QED BY <1>4, <2>1, <2>2, <2>3, <2>5, <2>8, <2>9, <2>10, <2>11, <2>12, <2>13, <2>14, <2>15 DEF Step
<1> QED BY <1>2, <1>3, <1>4 DEF Next

(* A run that reports success has merged every file that was there, each   *)
(* of them sound, or had nothing to do; whatever links lead where and      *)
(* whatever is removed on the way.                                         *)
THEOREM AllOrNothingCorrect == Spec => []AllOrNothing
<1>1. Init => MergeInv
  <2> SUFFICES ASSUME Init PROVE MergeInv
    OBVIOUS
  <2>1. /\ tree \in Trees /\ existing = FileIds /\ visited = 0 /\ found = <<>> /\ opened = 0
        /\ pc = "parse" /\ exit = "none" /\ output = "old"
    BY DEF Init
  <2>2. Len(tree) \in Nat
    BY <2>1, Graw2hdfAssumption
  <2>3. Types /\ Found
    BY <2>1, <2>2 DEF Types, Found
  <2> QED BY <2>1, <2>3 DEF MergeInv, OutputInv, OutputKept, Before, Progress, AllOrNothing
<1>2. MergeInv => AllOrNothing
  BY DEF MergeInv
<1> QED BY <1>1, <1>2, MergeInvStep, PTL DEF Spec
=============================================================================
