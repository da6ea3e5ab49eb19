SPECIFICATION Spec
CONSTANTS
  o1 = o1 o2 = o2 home = home work = work
  Owners = {o1, o2}
  NoOwner = NoOwner
  Public = {o2}
  Ports = {443, 8443}
  FunnelPorts = {443}
  Profiles = {home, work}
  NoProfile = NoProfile
  MaxChanges = 2
  MaxFaults = 1
CHECK_DEADLOCK FALSE
PROPERTIES
  OtherAccountsUntouched
