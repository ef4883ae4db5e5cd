SPECIFICATION Spec
CONSTANTS
  ann = ann
  bob = bob
  Recipients = {ann, bob}
  Known <- MCKnown
  Pages = {u1, u2}
  None = None
INVARIANTS
  OwnValues
CHECK_DEADLOCK FALSE
