SPECIFICATION AgentSpec
CONSTANTS
  Threads = {t1, t2}
  Keys <- MCKeys
  Inputs <- MCInputs
  Normal <- MCNormal
  Versions = {1, 2}
  Accepts <- MCAccepts
  Env <- MCEnv
  None = None
  MaxEdits = 3
  MaxPass = 2
INVARIANTS
  TypeOK
  LayersAgree
  NoFalseAlarm
PROPERTIES
  DeadWorkerReported
