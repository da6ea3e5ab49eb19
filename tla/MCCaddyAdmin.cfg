SPECIFICATION MCSpec
CONSTANTS
  h1 = h1 o1 = o1 o2 = o2 catchall = catchall other = other p1 = p1 p2 = p2
  Hosts = {h1}
  LanNames = {"one"}
  Owners = {o1, o2}
  Host <- MCHost
  Tls <- MCPlain
  Lan <- MCPlain
  LanName <- MCLanName
  NoOwner = NoOwner
  Foreign = {catchall, other}
  ClaimedBy <- MCClaimedBy
  Served = {"http", "https", "lan"}
  Callers = {p1, p2}
  Retries = 1
  MaxFaults = 1
SYMMETRY Symmetry
INVARIANTS
  AnswersAreTrue
PROPERTIES
  WritesAreTransactions
  ForeignRoutesUntouched
