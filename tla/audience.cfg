SPECIFICATION Spec
CONSTANTS
  ann = ann
  bob = bob
  Addresses = {ann, bob}
  Links <- MCLinks
  Files <- MCFiles
  Visitors = {v1, v2}
  Staff = {s1}
  Loaders = {r1}
  MaxLosses = 1
INVARIANTS
  TypeOK
  OptOutHolds
  OptOutReachesLists
  FirstTimeOnce
  RemovedStaysRemoved
