SPECIFICATION Spec
CONSTANTS
  IP = {ip1}
  MaxDay = 2
  MaxLimit = 1
  Grants <- MCGrants
  MaxBonus = 1
  MaxUsed = 2
  MaxEvents = 4
  Interleaved = FALSE
  Mishaps = FALSE
  DriftTo <- OpenOnly
PROPERTIES
  AllowOpensNoWindow
