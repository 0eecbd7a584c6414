SPECIFICATION FairDeliverySpec
CONSTANTS
  Plain = {p1, p2}
  Card = {q1}
  Refused = {p1}
  Unrouted = {p2}
  Denial = {d1}
  MaxAttempts = 2
  MaxFaults = 1
INVARIANTS
  DeliveryTypeOK
  DuplicatesExplained
  CardAnswerable
PROPERTIES
  OrderKept
  RowSettles
  ImplementsOutbox
