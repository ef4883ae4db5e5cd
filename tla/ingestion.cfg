SPECIFICATION Spec
CONSTANTS
  Paragraphs = {"heading", "note", "fair", "other", "third", "long"}
  Size <- MCSize
  Limit = 24
  Marker = 6
  Urls = {u1, u2, u3}
  Pages <- MCPages
  Typed <- MCTyped
  MaxPasted = 3
  MaxBatch = 2
  MaxArticles = 3
  MaxDrafts = 2
INVARIANTS
  TypeOK
  TextFits
  StoryOrder
  DraftedOnce
CHECK_DEADLOCK FALSE
