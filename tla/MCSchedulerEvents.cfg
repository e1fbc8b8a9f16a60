SPECIFICATION FairSpec
CONSTANTS
  p1 = p1
  p2 = p2
  p3 = p3
  NoProc = NoProc
  Proc = {p1, p2}
  MsgType = {"INIT"}
  MaxMsgs = 2
  MaxCalls = 1
  MaxDepth = 2
  Api = {"start", "exit", "poll", "send", "hold"}
INVARIANT TypeOK
INVARIANT PollNotLost
INVARIANT MessagesAccounted
INVARIANT QuietMeansDone
PROPERTY PollServed
PROPERTY MessagesServed
