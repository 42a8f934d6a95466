------------------------------- MODULE Graw2hdf -------------------------------
(***************************************************************************)
(* The program from its command line to its exit code: main, MergeFiles,   *)
(* FindGRAWFilesInDir, and the opening of the lookup table, of the GRAW    *)
(* files and of the output file.  The merge itself is the module Merger;   *)
(* here it is one step, which returns or ends the process.                 *)
(*                                                                         *)
(* A path in the input directory is [link, graw, to]: whether it is a      *)
(* symbolic link, whether its name ends in .graw, and what it leads to: a  *)
(* file, a "directory", one that is "closed" to the user, or "nowhere".    *)
(***************************************************************************)
EXTENDS LookupTable

CONSTANTS
  Commands,   \* [valid, help, lookup, input]: the arguments, and what the
              \* paths of the two options lead to ("none" if not given)
  Tables,     \* the contents the lookup table file may have
  FileIds,
  Trees,      \* the contents the input directory may have: sequences of
              \* paths, in the order of the iteration
  Files       \* functions from FileIds to [regular, graw, readable, long]

ASSUME Graw2hdfAssumption ==
  /\ FileIds \cap {"directory", "closed", "nowhere"} = {}
  /\ \A T \in Trees :
       T \in Seq([link : BOOLEAN, graw : BOOLEAN,
                 to : FileIds \cup {"directory", "closed", "nowhere"}])
  /\ \A F \in Files : DOMAIN F = FileIds
  /\ \A T \in Tables : T \in Seq(Seq(Int \cup {Blank, Text}) \ {<<>>})

VARIABLES
  command, tree, file,
  existing,   \* the files that have not been removed by someone else
  creatable,  \* whether the output file can be created
  pc,         \* "parse", "table", "walk", "resolve", "open", "index", "create",
              \* "merge", "exit"; "spin" for ever
  visited,    \* the number of paths the directory iterator has passed
  found,      \* filesFound, as they resolve
  opened,     \* the number of files that have been opened
  output,     \* "old", "truncated", "merged": the file at the output path
  merged,     \* history: the files that have been merged
  exit        \* "success" (0), "failure" (1), "terminated"; "none" before

inputVars == <<command, tree, file, creatable>>
walkVars == <<visited, found>>
vars == <<tableVars, inputVars, existing, pc, walkVars, opened, output, merged, exit>>

Init ==
  /\ command \in Commands /\ tree \in Trees /\ file \in Files /\ csv \in Tables
  /\ existing = FileIds /\ creatable \in BOOLEAN
  /\ pc = "parse"
  /\ TableInit
  /\ visited = 0 /\ found = <<>> /\ opened = 0
  /\ output = "old" /\ merged = {} /\ exit = "none"

\* main catches what is derived from std::exception.  Neither the `throw 0' of
\* ReadFile nor H5::Exception is.
StdExceptions ==
  { "Not_Init", "Already_Init", "Bad_File", "File_Open_Failed", "Wrong_File_Type",
    "Does_Not_Exist", "Dir_is_Empty", "Frame_Read_Error", "Wrong_File_Position",
    "Bad_Data", "End_of_File", "File_Already_Read", "No_Data", "Frame_Out_of_Order",
    "filesystem_error", "invalid_argument" }

Exit(code) == pc' = "exit" /\ exit' = code

Throw(exception) ==
  Exit(IF exception \in StdExceptions THEN "failure" ELSE "terminated")

-----------------------------------------------------------------------------
(* main *)

Runs == command.valid /\ ~command.help /\ command.lookup # "none" /\ command.input # "none"

\* A wrong command line and a path that does not exist are reported, --help
\* and a missing option print the usage.  The two paths are looked up outside
\* of the try block: an error other than their absence is not caught.
ParseOptions ==
  /\ pc = "parse"
  /\ CASE ~command.valid -> Exit("failure")
       [] command.valid /\ ~Runs -> Exit("success")
       [] Runs /\ command.input = "absent" -> Exit("failure")
       [] Runs /\ command.input = "inaccessible" -> Exit("terminated")
       [] OTHER ->
            CASE command.lookup = "absent" -> Exit("failure")
              [] command.lookup = "inaccessible" -> Exit("terminated")
              [] OTHER -> pc' = "table" /\ UNCHANGED exit
  /\ UNCHANGED <<tableVars, walkVars, opened, output, merged>>

-----------------------------------------------------------------------------
(* MergeFiles: the lookup table *)

\* An ifstream opens a directory, and eof() never comes.
OpenTable ==
  /\ pc = "table" /\ line = 0
  /\ \/ command.lookup = "unreadable" /\ Throw("int")
     \/ command.lookup = "directory" /\ pc' = "spin" /\ UNCHANGED exit
  /\ UNCHANGED <<tableVars, walkVars, opened, output, merged>>

ReadTable ==
  /\ pc = "table" /\ command.lookup = "file"
  /\ \/ ReadRow /\ UNCHANGED <<pc, exit>>
     \/ RowThrows /\ Throw("invalid_argument") /\ UNCHANGED tableVars
  /\ UNCHANGED <<walkVars, opened, output, merged>>

\* Fault: the output file is created before the input is looked at.
TableReadAndOutputCreated ==
  /\ pc = "table" /\ command.lookup = "file" /\ line = Len(csv)
  /\ pc' = "walk" /\ output' = "truncated"
  /\ UNCHANGED <<tableVars, walkVars, opened, merged, exit>>

TableRead ==
  /\ pc = "table" /\ command.lookup = "file" /\ line = Len(csv)
  /\ pc' = "walk"
  /\ UNCHANGED <<tableVars, walkVars, opened, output, merged, exit>>

-----------------------------------------------------------------------------
(* FindGRAWFilesInDir *)

Path == tree[visited + 1]

IsDirectory(path) == path.to \in {"directory", "closed"}
IsRegular(path) == path.to \in existing /\ file[path.to].regular

\* Fault: links are passed over.
IsUnlinkedGRAWFile(path) == path.graw /\ IsRegular(path) /\ ~path.link

IsGRAWFile(path) == path.graw /\ ~IsDirectory(path) /\ (IsRegular(path) \/ path.link)

\* The iterator does not enter a directory it comes to by a link.
Closed(path) == path.to = "closed" /\ ~path.link

\* Fault: `continue' in a loop that does not step by itself.
StayAtPath ==
  /\ pc = "walk" /\ visited < Len(tree)
  /\ ~IsGRAWFile(Path) /\ ~Closed(Path)
  /\ UNCHANGED <<tableVars, visited, found, pc, opened, output, merged, exit>>

PassPath ==
  /\ pc = "walk" /\ visited < Len(tree)
  /\ ~IsGRAWFile(Path) /\ ~Closed(Path)
  /\ visited' = visited + 1
  /\ UNCHANGED <<tableVars, found, pc, opened, output, merged, exit>>

\* The path has the type of a file to merge when it is looked at ...
FindFile ==
  /\ pc = "walk" /\ visited < Len(tree)
  /\ IsGRAWFile(Path)
  /\ pc' = "resolve"
  /\ UNCHANGED <<tableVars, walkVars, opened, output, merged, exit>>

\* ... and canonical finds what it leads to, whatever that now is, ...
ResolveFile ==
  /\ pc = "resolve" /\ Path.to \in existing
  /\ visited' = visited + 1
  /\ found' = Append(found, Path.to)
  /\ pc' = "walk"
  /\ UNCHANGED <<tableVars, opened, output, merged, exit>>

\* ... or that it leads nowhere: a link to nothing, or a file removed since.
ResolveThrows ==
  /\ pc = "resolve" /\ Path.to \notin existing
  /\ Throw("filesystem_error")
  /\ UNCHANGED <<tableVars, walkVars, opened, output, merged>>

\* The root is no directory, or a directory cannot be read.  The root may have
\* been removed with its files.
WalkThrows ==
  /\ pc = "walk"
  /\ \/ /\ \/ command.input # "directory"
           \/ visited < Len(tree) /\ Closed(Path)
        /\ Throw("filesystem_error")
     \/ visited = 0 /\ existing = {} /\ Throw("Does_Not_Exist")
  /\ UNCHANGED <<tableVars, walkVars, opened, output, merged>>

WalkEnds ==
  /\ pc = "walk" /\ command.input = "directory" /\ visited = Len(tree)
  /\ IF found = <<>> THEN Throw("Dir_is_Empty") ELSE pc' = "open" /\ UNCHANGED exit
  /\ UNCHANGED <<tableVars, walkVars, opened, output, merged>>

-----------------------------------------------------------------------------
(* Merger::Merger *)

\* What opening the path a link resolved to may throw.
OpenException(id) ==
  CASE id \notin existing -> "Does_Not_Exist"
    [] id \in existing /\ ~file[id].regular -> "Wrong_File_Type"
    [] OTHER -> CASE ~file[id].readable -> "Bad_File"
                  [] file[id].readable /\ ~file[id].graw -> "Wrong_File_Type"
                  [] OTHER -> "none"

OpenFile ==
  /\ pc = "open" /\ opened < Len(found)
  /\ LET e == OpenException(found[opened + 1]) IN
       IF e = "none" THEN opened' = opened + 1 /\ UNCHANGED <<pc, exit>>
                     ELSE Throw(e) /\ UNCHANGED opened
  /\ UNCHANGED <<tableVars, walkVars, output, merged>>

AllOpened ==
  /\ pc = "open" /\ opened = Len(found)
  /\ pc' = "index"
  /\ UNCHANGED <<tableVars, walkVars, opened, output, merged, exit>>

\* Indexing a file with fewer frames than the index depth throws.
IndexFiles ==
  /\ pc = "index"
  /\ IF \A i \in DOMAIN found : file[found[i]].long
       THEN pc' = "create" /\ UNCHANGED exit
       ELSE \E e \in {"End_of_File", "Frame_Read_Error", "Wrong_File_Position", "Bad_File"} :
              Throw(e)
  /\ UNCHANGED <<tableVars, walkVars, opened, output, merged>>

-----------------------------------------------------------------------------
(* Merger::MergeByEvtId *)

\* The writer's HDFDataStore: H5F_ACC_TRUNC.  (MergeTerminates is also what
\* happens if its group cannot be created.)
CreateOutput ==
  /\ pc = "create"
  /\ IF creatable THEN pc' = "merge" /\ output' = "truncated" /\ UNCHANGED exit
                  ELSE Throw("H5::FileIException") /\ UNCHANGED output
  /\ UNCHANGED <<tableVars, walkVars, opened, merged>>

\* Find throws Not_Init in the builder's thread if the table is empty.
MergeReturns ==
  /\ pc = "merge" /\ ~Empty
  /\ Exit("success") /\ output' = "merged"
  /\ merged' = {found[i] : i \in DOMAIN found}
  /\ UNCHANGED <<tableVars, walkVars, opened>>

MergeTerminates ==
  /\ pc = "merge"
  /\ Exit("terminated")
  /\ UNCHANGED <<tableVars, walkVars, opened, output, merged>>

-----------------------------------------------------------------------------

Step ==
  /\ \/ ParseOptions \/ OpenTable \/ ReadTable \/ TableRead
     \/ PassPath \/ FindFile \/ ResolveFile \/ ResolveThrows \/ WalkThrows \/ WalkEnds
     \/ OpenFile \/ AllOpened \/ IndexFiles
     \/ CreateOutput \/ MergeReturns \/ MergeTerminates
  /\ UNCHANGED <<inputVars, existing>>

\* Another process removes a file.
RemoveFile ==
  /\ pc # "exit"
  /\ \E id \in existing : existing' = existing \ {id}
  /\ UNCHANGED <<tableVars, inputVars, pc, walkVars, opened, output, merged, exit>>

Stopped == pc \in {"exit", "spin"} /\ UNCHANGED vars

Next == Step \/ RemoveFile \/ Stopped

Spec == Init /\ [][Next]_vars /\ WF_vars(Step)

-----------------------------------------------------------------------------
(* Properties *)

\* Every variable has its type.
TypeOK ==
  /\ command \in Commands /\ tree \in Trees /\ file \in Files /\ csv \in Tables
  /\ existing \subseteq FileIds /\ creatable \in BOOLEAN
  /\ line \in 0..Len(csv) /\ visited \in 0..Len(tree) /\ opened \in 0..Len(found)
  /\ pc \in {"parse", "table", "walk", "resolve", "open", "index", "create", "merge",
             "exit", "spin"}
  /\ output \in {"old", "truncated", "merged"} /\ merged \subseteq FileIds
  /\ exit \in {"none", "success", "failure", "terminated"} /\ (exit = "none" <=> pc # "exit")

\* An error that is reported leaves the output of an earlier run as it was:
\* everything that can fail with a message has been tried before the output
\* file is truncated, whatever happens to the input in the meantime.
OutputKept == exit = "failure" => output = "old"

\* The files below the input directory and those that links in it lead to.
GRAWFiles == {tree[i].to : i \in {j \in DOMAIN tree : tree[j].graw /\ tree[j].to \in FileIds}}

\* A merge that succeeds is a merge of all the files that have not been
\* removed, each of which could be read and was long enough: no file with a
\* fault is passed over.  If there was nothing to do the output is untouched.
AllOrNothing ==
  exit = "success" =>
    IF Runs THEN /\ merged # {} /\ merged \subseteq GRAWFiles /\ output = "merged"
                 /\ \A id \in GRAWFiles \cap existing : file[id].regular => id \in merged
                 /\ \A id \in merged : file[id].graw /\ file[id].readable /\ file[id].long
            ELSE output = "old"

\* The program ends, unless the lookup table is a directory.
ProgramEnds == command.lookup # "directory" => <>(pc = "exit")
=============================================================================
