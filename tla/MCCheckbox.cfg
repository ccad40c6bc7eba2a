SPECIFICATION Spec
CONSTANTS
  PromptJobs <- TestJobs
  ManualJobs = {"m"}
  JobDepends <- TestDepends
  RequiringJobs = {"s"}
  MaxStarts = 2
  MaxBacks = 1
  MaxSaves = 5
  StoredJobs <- ThreeJobs
  MaxFailures = 3
  ChoiceNodes <- TreeSet
  ChoiceParent <- TreeParent
  ChoiceAbove <- TreeAbove
  NoSuite = "none"
  HasResult = {"v"}
  Attempts = 2
  BackendJobs <- TwoJobs
  Processes = {"p", "q", "r"}
  MaxFiles = 3
  Devices = {"usb", "sata"}
  Wanted = {"usb"}
  MaxChanges = 4
INVARIANTS
  TypeOK
  ResultsAreOfTheJob
  LockExcludes
  WatcherSeesChanges
PROPERTIES
  RunIsKept
  ListsAreRight
  FilesAreKept
  ChoiceIsShown
  EverythingEnds
CHECK_DEADLOCK FALSE
