SPECIFICATION Spec
CONSTANTS
  MaxExclude = 2
  MaxInclude = 2
  MaxStarts = 3
  Dirs = {d1, d2, d3, d4}
  MaxCrashes = 2
  CommandDelegates <- JobDelegates
  FailingDelegates = {"ui_io_delegate"}
  MaxLines = 2
  MaxInterrupts = 2
  ServiceNames <- JobNames
  RunOrder <- JobsOf
  Plugin <- JobPlugin
  HasCommand <- JobCommands
  Deps <- JobDeps
  Generates <- JobGenerates
  Whitelists <- JobWhitelists
  MaxCommands = 2
INVARIANTS
  TypeOK
  SelectionIsRight
  LinesAreDelivered
PROPERTIES
  ResultsSurviveProcesses
  SessionsAreFound
  ServiceKeepsItsWord
  EverythingEnds
CHECK_DEADLOCK FALSE
