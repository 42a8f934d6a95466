\* All the ways from the command line to the exit code.
SPECIFICATION Spec
CONSTANTS
  Blank = Blank
  Text = Text
  MissingValue = 20000
  Commands <- MCCommands
  Tables <- MCTables
  FileIds <- MCFileIds
  Trees <- MCTrees
  Files <- MCFiles
INVARIANTS
  TableFaithful
  OutputKept
  AllOrNothing
PROPERTY ProgramEnds
