\* Texts of up to nine tokens, then operations on what was loaded.
SPECIFICATION Spec
CONSTANTS
  Tokens <- AllTokens
  Strings <- TwoStrings
  MaxText = 9
  MaxWhite = 1
  MaxOps = 3
  MaxLen = 6
  Codes <- AllCodes
  Sample <- ShortStrings
  Lists = {1, 4}
  IntoMoved = FALSE
INVARIANTS LoadRight Meant InBounds RoundTrip EscapesRight DumpedStrings
CHECK_DEADLOCK FALSE
