SPECIFICATION Spec
CONSTANTS
  p1 = p1
  p2 = p2
  p3 = p3
  NoProc = NoProc
  Proc = {p1, p2, p3}
  MsgType = {"USER", "EXIT"}
  MaxMsgs = 1
  MaxCalls = 1
  MaxDepth = 4
  Api = {"start", "exit", "handle"}
SYMMETRY Symmetry
INVARIANT WalksEnd
INVARIANT NobodySkipped
INVARIANT LifeCycle
PROPERTY OnlyListedAreCalled
