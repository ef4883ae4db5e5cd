SPECIFICATION DeskSpec
CONSTANTS
  Users = {ann, bob}
  Admins = {ann}
  Senders = {ann, bob}
  Guessed = {bob}
  Remembered = {bob}
  Tabs = {t1, t2}
  None = None
  MaxAttempts = 2
  Lockout = 1
  SessionTTL = 0
  MaxTime = 1
  Campaigns = {c1}
  LinkTTL = 1
SYMMETRY TabSymmetry
INVARIANTS
  DeskTypeOK
  LockoutHolds
  OffAccountsStayOut
  PendingKeepsItsLink
CHECK_DEADLOCK FALSE
