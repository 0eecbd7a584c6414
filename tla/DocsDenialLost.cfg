SPECIFICATION DeliverySpec
CONSTANTS
  Plain = {}
  Card = {}
  Refused = {}
  Unrouted = {}
  Denial = {d1}
  MaxAttempts = 2
  MaxFaults = 0
INVARIANTS
  DenialIsQueued
