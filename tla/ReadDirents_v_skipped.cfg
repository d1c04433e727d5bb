SPECIFICATION Spec
CONSTANTS
  Letters <- LettersAB
  Keys <- SmallTree
  Rank <- Ascii
  Directories <- OnlyA
  MaxContents = 2
  MaxPrefixes = 1
  Capacity = 4
  MayFail = FALSE
INVARIANTS
  EofMeansAll
