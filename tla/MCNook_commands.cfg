SPECIFICATION Spec
CONSTANTS
  h1 = h1 h2 = h2 o1 = o1 o2 = o2 o3 = o3 p1 = p1 p2 = p2 p3 = p3
  Hosts = {h1, h2}
  LanNames = {"one", "two"}
  Procs = {p1, p2}
  NoProc = NoProc
  NoOwner = NoOwner
  Owners <- MCOwners
  Host <- MCHost
  Tls <- MCTlsCross
  Lan <- MCNoLan
  LanName <- MCLanName
  Commands = {"alias", "unalias", "run", "workspace", "reconcile", "prune"}
  MaxFaults = 1
SYMMETRY Symmetry
INVARIANTS
  RouteInv
PROPERTIES
  NoOwnerLeavesSilently
  RouteTakenOnlyUnderJournal
  OwnershipSpec
  CleanReconcileConverges
