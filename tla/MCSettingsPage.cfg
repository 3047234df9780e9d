CONSTANTS
  c1 = c1
  c2 = c2
  NoCamera = NoCamera
  Cameras = {c1, c2}
  FormatsOf <- MCFormatsOf
  Fallback = {1, 4}
  Default = 1
  MaxClicks = 5
  MaxBoxes = 2
  MaxPlugs = 1
SPECIFICATION Spec
CHECK_DEADLOCK FALSE
INVARIANT HardwareIsWanted OneUserPerCamera
PROPERTY OpeningEnds
