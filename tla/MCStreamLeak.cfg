CONSTANTS
  Protocols = {"openai"}
  Cap = 2
  MaxEvents = 4
SPECIFICATION FairSpec
PROPERTIES
  ReaderEnds
