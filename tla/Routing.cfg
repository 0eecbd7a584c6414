SPECIFICATION RoutingSpec
CONSTANTS
  mention = mention
  plain = plain
  command = command
  ann = ann
  helper = helper
  supervisor = supervisor
  Msg = {mention, plain, command}
  Mention = {mention}
  Refused = {command}
  SenderOf <- SenderDef
  Order <- OrderDef
  Mode <- ModeDef
  Accumulates = {helper, supervisor}
  KnownOnly = {supervisor}
  AdkAgents = {supervisor}
  MaxRoutings = 1
  Memberships <- MembershipDef
  n1 = n1
  n2 = n2
  Chan = {g1, g2}
  Groups <- TwoGroups
  MaxMentions = 2
  MaxPressed = 3
  MaxStops = 1
  a1 = a1
  a2 = a2
  b1 = b1
  alpha = alpha
  beta = beta
  Session = {a1, a2, b1}
  GroupOf <- GroupDef
  MaxLetters = 3
  MaxClosed = 1
INVARIANTS
  RoutingTypeOK
  
  
  DecidedOnce
  NamedWhereAsked
  ReplyComesHome
CHECK_DEADLOCK FALSE
