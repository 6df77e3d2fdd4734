\* An array within an array, put there by push_back.
SPECIFICATION Spec
CONSTANTS
  Tokens <- AllTokens
  Strings <- TwoStrings
  MaxText = 5
  MaxWhite = 1
  MaxOps = 4
  MaxLen = 6
  Codes <- AllCodes
  Sample <- ShortStrings
  Lists = {1, 4}
  IntoMoved = TRUE
INVARIANTS InBounds
CHECK_DEADLOCK FALSE
