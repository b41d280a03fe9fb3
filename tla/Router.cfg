CONSTANTS
  Apps = {a1, a2, a3}
  NumServers = 2
  SkewLimit = 4
  MaxTries = 3
  MaxLost = 4
SPECIFICATION Spec
INVARIANTS TypeOK LoadAccounted
PROPERTIES PlacementIsSound CallsEnd
