SPECIFICATION FairSpec
CONSTANTS
  ann = ann
  bob = bob
  cy = cy
  Addresses = {ann, bob, cy}
  Files <- MCFiles
  OptOuts = {cy}
  Senders = {p1, p2}
  MaxRetries = 1
  MaxUploads = 2
  MaxCrashes = 0
PROPERTIES
  AbortRecordsMail
