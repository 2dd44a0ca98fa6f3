SPECIFICATION HostSpec
CONSTANTS
  Endpoints = {"headset", "webcam"}
  Order <- C_Order
  ConfigEvery = 3
  ReacquireEvery = 3
  Retry = 2
  MaxUpsets = 2
  Guards <- C_Guards
  Optional = {"panel"}
  Alone = {"roblox", "panel"}
  Residents = {"mic", "panel"}
  MaxTroubles = 2
  Games = {"chess", "cards"}
INVARIANT OnlyYes
CHECK_DEADLOCK FALSE
