SPECIFICATION Spec
CONSTANTS
  off = off
  up = up
  on = on
  fast = fast
  slow = slow
  State = {off, up, on, fast, slow}
  Parent <- Hierarchy
  Initial = off
  NoEvent = NoEvent
  Timer = {0, 1, 2}
  Period <- Periods
  MaxLapse = 3
  Horizon = 8
PROPERTY DisabledIsSilent
