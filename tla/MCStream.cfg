CONSTANTS
  Protocols = {"openai", "anthropic", "gemini"}
  Cap = 2
  MaxEvents = 5
SPECIFICATION FairSpec
INVARIANTS
  OneDoneLast
  AccountedOnce
  SuccessIsComplete
  ChargesLastUsage
PROPERTIES
  HandlerReturns
