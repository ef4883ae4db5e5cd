SPECIFICATION FairSpec
CONSTANTS
  Campaigns = {a1}
  AgentCampaigns = {a1}
  Sessions = {s1, s2}
  Workers = {w1}
  Approvers = {u1}
  None = None
  MaxTime = 2
  MaxEdits = 1
  MaxCrashes = 1
  NextSend <- MCNextSend
INVARIANTS ApprovalFixesContent
