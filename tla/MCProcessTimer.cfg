SPECIFICATION Spec
SYMMETRY Symmetry
CONSTANTS
  t1 = t1
  t2 = t2
  t3 = t3
  PTimer = {t1, t2, t3}
  NoTimer = NoTimer
  Word = 4
  Second = 1000
  Interval = {0, 1, 2}
  MaxLag = 1
  MaxCalls = 2
INVARIANT ListedIsStarted
PROPERTY ImplementsTimerSet
