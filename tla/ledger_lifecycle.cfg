SPECIFICATION Spec
CONSTANTS
  alice = alice
  bob = bob
  carol = carol
  root = root
  treasury = treasury
  aliceAcct = aliceAcct
  bobAcct = bobAcct
  carolAcct = carolAcct
  k1 = k1
  k2 = k2
  k3 = k3
  h1 = h1
  h2 = h2
  None = None
  Admins = {root}
  Owner <- MCOwner
  Order <- MCOrder
  Sessions = {s1, s2}
  Customers = {alice, carol}
  Accounts = {treasury, aliceAcct, carolAcct}
  Seeded = {treasury, aliceAcct}
  Keys = {k1, k2, k3}
  ReversalKeys = {k2, k3}
  Challenges = {}
  Threshold = 9
  ChallengeRequests = {}
  MaxTransactions = 4
  MaxEvents = 5
  Commands <- LifecycleCommands
SYMMETRY InterchangeableSessions
INVARIANTS
  AccountsOfVerified
  ReversedOnce
PROPERTIES
  HistoryIsDurable
  FreezeStopsMoney
  ImplementsBank
