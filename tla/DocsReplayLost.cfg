SPECIFICATION AdmissionSpec
CONSTANTS
  mention = mention
  plain = plain
  command = command
  ann = ann
  helper = helper
  supervisor = supervisor
  Msg = {mention, plain, command}
  Mention = {mention}
  Refused = {command}
  SenderOf <- SenderDef
  Order <- OrderDef
  Mode <- ModeDef
  Accumulates = {helper, supervisor}
  KnownOnly = {supervisor}
  AdkAgents = {supervisor}
  MaxRoutings = 2
  Memberships <- MembershipDef
INVARIANT ReplayReachesAgent
CHECK_DEADLOCK FALSE
