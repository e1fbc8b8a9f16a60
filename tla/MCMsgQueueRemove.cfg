SPECIFICATION Spec
CONSTANTS
  m1 = m1
  m2 = m2
  m3 = m3
  m4 = m4
  red = red
  blue = blue
  Msg = {m1, m2, m3, m4}
  NoMsg = NoMsg
  List = {0, 1, 2}
  RemoveLast = TRUE
  MsgType = {red, blue}
  TypeOf <- Colours
INVARIANT LengthIsListed
