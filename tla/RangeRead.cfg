\* Every header "bytes=" / " bytes=" / "bytes" followed by up to four
\* characters of {0, 1, 2, -, ",", " ", x}, against objects of 0 to 3 bytes.
CONSTANTS
  Alphabet = {"0", "1", "2", "-", ",", " ", "x"}
  MaxRest = 4
  MaxSize = 3
  NONE = NONE
SPECIFICATION Spec
INVARIANT PartialContentInBounds
INVARIANT WellFormedRangesAsSpecified
