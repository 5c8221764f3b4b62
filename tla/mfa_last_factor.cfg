SPECIFICATION Spec
CONSTANTS
  root = root
  None = None
  Users = {root}
  Admins = {root}
  Passkeys = {c1, c2}
  Device <- MCDevice
  Transactions = {x1, x2}
  Sessions = {s1, s2}
  MaxAttempts = 2
  LastStep = 1
SYMMETRY Interchangeable
PROPERTIES
  AdministratorsKeepFactor
CHECK_DEADLOCK FALSE
