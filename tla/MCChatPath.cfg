CONSTANTS
  Requests = {r1, r2}
  RouteTTLs = {0, 1}
  DefaultTTL = 3
  FallbackTTL = 3
  RouteCache = 2
  MaxLag = 1
  MaxTime = 8
  Bodies <- MCBodies
  Overflow = 1000000
  MaxSize = 1
  Types = {"openai", "anthropic", "gemini"}
  Openings <- MCOpenings
  Replies <- MCReplies
  Ids <- MCIds
  MaxRounds = 3
SYMMETRY Symmetry
SPECIFICATION PathSpec
INVARIANTS
  HitsAreFresh
  
  
  SpeechKept
  ResultsNameCalls
CHECK_DEADLOCK FALSE
