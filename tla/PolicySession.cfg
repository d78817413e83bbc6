CONSTANTS
  b1 = b1
  b2 = b2
  none = none
  pin1 = pin1
  pin2 = pin2
  Boots <- MCBoots
  Pins <- MCPins
  NoPIN = none
  MaxTries = 1
  MaxCount = 2
  MaxFences = 1
SPECIFICATION Spec
SYMMETRY Symmetry
INVARIANTS UnsealExactly ValidatedIsSound HintMatches BarredUntilReset
