SPECIFICATION FairSpec
CONSTANTS
  Posts <- MCPosts
  Sources = {api}
  Window = 1
  Runners = {r1}
  MaxAttempts = 2
  MaxPostsPerRun = 2
  MaxInFlight = 1
  MaxLosses = 1
  NoKey = NoKey
INVARIANTS
  TypeOK
  InFlightBounded
  SubmittedOncePerRow
  GenerationsBounded
  GeneratedIsSubmitted
PROPERTIES
  PostReachesReviewer
