SPECIFICATION FairSpec
CONSTANTS
  o1 = o1
  o2 = o2
  Owner = {o1, o2}
  Nobody = Nobody
  Word = 5
  Second = 3
  Time = {0, 3}
  Kind = {"TIMER_MS", "TIMER_SEC"}
  MaxStep = 2
  MaxAge = 9
PROPERTY OnlyTheLateLose
PROPERTY NoDeadOwner
