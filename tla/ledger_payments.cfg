SPECIFICATION Spec
CONSTANTS
  alice = alice
  bob = bob
  carol = carol
  root = root
  treasury = treasury
  aliceAcct = aliceAcct
  bobAcct = bobAcct
  carolAcct = carolAcct
  k1 = k1
  k2 = k2
  k3 = k3
  h1 = h1
  h2 = h2
  None = None
  Admins = {root}
  Owner <- MCOwner
  Order <- MCOrder
  Sessions = {s1, s2}
  Customers = {alice, bob}
  Accounts = {treasury, aliceAcct, bobAcct}
  Seeded = {treasury, aliceAcct, bobAcct}
  Keys = {k1, k2}
  ReversalKeys = {}
  Challenges = {h1, h2}
  Threshold = 3
  ChallengeRequests <- PaymentChallenges
  MaxTransactions = 4
  MaxEvents = 2
  Commands <- PaymentCommands
SYMMETRY InterchangeableSessions
INVARIANTS
  ChallengeSpentOnce
  NothingStaleAtPost
  LedgerInv
  NoOverdraft
  OnePostingPerKey
  Reconciles
  AnswersOwnRequest
  DatabaseNeverRefuses
