SPECIFICATION ProgramsSpec
CONSTANTS
  c1 = c1 c2 = c2
  ShellDuringSpawn = FALSE
  NookStoppedAlone = FALSE
  Commands = {c1, c2}
  MaxRelease = 2
  Nooks = {c1, c2}
CHECK_DEADLOCK FALSE
INVARIANTS
  TerminalReturned
  ReadyMeansServed
PROPERTIES
  TerminalTakenOnlyFromJob
  JobControlFollows
  ForegroundReachesChild
  DisplacedNameWithdrawn
  ReleaseNoticed
  FailureReachesUser
