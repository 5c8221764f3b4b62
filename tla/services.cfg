SPECIFICATION ServicesSpec
CONSTANTS
  high = high
  flag = flag
  alice = alice
  bob = bob
  old1 = old1
  old2 = old2
  new = new
  None = None
  Events = {high, flag}
  Transfers = {high}
  High = {high}
  CreatedAt <- MCCreatedAt
  FlagOf <- MCFlagOf
  Recipients <- MCRecipients
  Publishers = {p1}
  RiskWorkers = {r1, r2}
  NotificationWorkers = {n1}
  BatchSize = 2
  MaxFaults = 1
  PoolRequests = {q1, q2, q3}
  PoolSize = 2
  Servers = {old1, old2, new}
  Ships <- MCShips
  MaxFailures = 2
  NoRequest = NoRequest
INVARIANTS
  ServicesTypes
  EffectsOnce
  MigratedOnce
PROPERTIES
  EveryTransferHandled
  RequestsEnd
