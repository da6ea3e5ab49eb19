SPECIFICATION LocalSpec
CONSTANTS
  p1 = p1 p2 = p2 u1 = u1 u2 = u2 w1 = w1 w2 = w2
  MaxPid = 3
  MaxBirths = 4
  Procs = {p1, p2}
  NoProc = NoProc
  NoFile = NoFile
  Updates = {u1, u2}
  MaxFaults = 3
  Writers = {w1, w2}
  Settings = {"admin", "server"}
  Values <- MCValues
  AppIds = {"a", "A", "b", "c"}
  MaxEdits = 2
  Unset = Unset
  Wrappers <- MCWrappers
  Programs = {"vite@5", "nuxt", "node"}
  Arguments <- MCArguments
  MaxArguments = 3
CHECK_DEADLOCK FALSE
INVARIANTS
  SignalsStayInRun
  RegistryInv
  SettingsAsDocumented
  StartedIsUnambiguous
  ArgumentsAligned
PROPERTIES
  NothingClobbered
  RecoveryFindsAll
  AtomicSpec
