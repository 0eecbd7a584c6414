SPECIFICATION PeerSpec
CONSTANTS
  a1 = a1
  a2 = a2
  b1 = b1
  alpha = alpha
  beta = beta
  Session = {a1, a2, b1}
  GroupOf <- GroupDef
  MaxLetters = 3
  MaxClosed = 1
INVARIANTS
  ReplyReturns
CHECK_DEADLOCK FALSE
