SPECIFICATION IdentitySpec
CONSTANTS
  root = root
  ann = ann
  None = None
  Users = {root}
  Admins = {root}
  Passkeys = {c1}
  Device <- MCDevice
  Transactions = {x1, x2, x3}
  Sessions = {s1, s2}
  MaxAttempts = 1
  LastStep = 2
  Emails = {root, ann}
  Applicants = {ann}
  SuperAdmin = root
  Bootstrap <- MCBootstrap
  Jtis = {j1, j2}
  Calls = {s1, s2}
  JwtTtl = 1
  StepUpTtl = 0
  LastSecond = 1
  Nothing = Nothing
SYMMETRY IdentitySymmetry
INVARIANTS
  IdentityTypes
  CodeUsedOnce
  ChallengeAnsweredOnce
  EndedSessionsRefused
  AuditorDecidedOnce
PROPERTIES
  LoginWithActiveFactor
CHECK_DEADLOCK FALSE
