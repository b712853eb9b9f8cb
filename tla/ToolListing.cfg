SPECIFICATION Spec
CONSTANTS
  Cases <- MCCases
  Facts <- MCFacts
  MaxTools = 3
  JSON <- MCJSON
  Depth <- MCDepth
  MaxDepth = 6
INVARIANTS ChildReturned ListingComplete 
PROPERTIES RequestEnds
CHECK_DEADLOCK FALSE
