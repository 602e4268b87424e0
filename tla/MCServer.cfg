CONSTANTS
  Rows = {"route", "key"}
  Seeds <- MCSeeds
  Entries <- MCEntries
  MaxStarts = 2
  Requests = {r1, r2}
  Writers = {w1, w2, w3}
  Layers <- MCLayers
  Codes = {404}
  MaxPanics = 1
SYMMETRY Symmetry
SPECIFICATION Spec
INVARIANTS
  WriterExclusive
  
  
  
PROPERTIES
  BootKeepsRows
CHECK_DEADLOCK FALSE
