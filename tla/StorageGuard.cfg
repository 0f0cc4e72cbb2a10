CONSTANTS
  NumNodes = 4
  Kinds = {"plain", "mounted", "swap", "raid"}
  Serials = {s1}
  NoSerial = none
SPECIFICATION GuardSpec
INVARIANTS ProtectedIffHostsUse ResolvedIsUnused
CHECK_DEADLOCK FALSE
