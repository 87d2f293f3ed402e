SPECIFICATION Spec
CONSTANTS
  p1 = p1
  p2 = p2
  Proc = {p1, p2}
  First = p1
  Users <- MCUsers
  Freqs <- MCFreqs
  Rules <- MCRules
  MaxDepth = 2
  WIDTH = 2
  
PROPERTIES ReadWaitsForTick FaultIsFinal ReadReturns 
