SPECIFICATION FairSpec
CONSTANTS
  ann = ann
  bob = bob
  cy = cy
  Addresses = {ann, bob, cy}
  Files <- MCFiles
  OptOuts = {cy}
  Senders = {p1, p2}
  MaxRetries = 1
  MaxUploads = 2
  MaxCrashes = 1
INVARIANTS
  TypeOK
  SettledCountsMail
PROPERTIES
  SendsOnce
  RecordsMatchMail
  RunEnds
