SPECIFICATION FairSpec
CONSTANTS
  alice = alice
  bob = bob
  carol = carol
  root = root
  treasury = treasury
  aliceAcct = aliceAcct
  bobAcct = bobAcct
  carolAcct = carolAcct
  k1 = k1
  k2 = k2
  k3 = k3
  h1 = h1
  h2 = h2
  None = None
  Admins = {root}
  Owner <- MCOwner
  Order <- MCOrder
  Sessions = {s1, s2}
  Customers = {alice, bob}
  Accounts = {treasury, aliceAcct, bobAcct}
  Seeded = {treasury, aliceAcct, bobAcct}
  Keys = {k1}
  ReversalKeys = {}
  Challenges = {}
  Threshold = 9
  ChallengeRequests = {}
  MaxTransactions = 3
  MaxEvents = 2
  Commands <- CrossingCommands
PROPERTIES
  EveryRequestEnds
