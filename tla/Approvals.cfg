SPECIFICATION ApprovalSpec
CONSTANTS
  Adk = {adk1, adk2}
  Onecli = {cred}
  Module = {install}
  thread = thread
  Talk = {thread}
  TalkOf <- OneThread
  MaxCards = 2
  MaxPresses = 2
  MaxCrashes = 1
  MaxSessions = 0
INVARIANTS
  ToldOnce
  RanOnce
  NothingForgotten
PROPERTIES
  ImplementsConfirmation
  CardsClose
CHECK_DEADLOCK FALSE
