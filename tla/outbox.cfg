SPECIFICATION FairOutboxSpec
CONSTANTS
  e1 = e1
  e2 = e2
  None = None
  Events = {e1, e2}
  CreatedAt <- MCCreatedAt
  Publishers = {p1, p2}
  BatchSize = 2
  MaxFaults = 3
INVARIANTS
  PublishedWasSent
  CopiesFromClaims
  ClaimsExclusive
  OutboxInv
PROPERTIES
  EveryEventPublished
