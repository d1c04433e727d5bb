SPECIFICATION Spec
CONSTANTS
  Letters <- LettersAB
  Keys <- SmallTree
  Rank <- Ascii
  Directories <- RootAndA
  MaxContents = 2
  MaxPrefixes = 1
  Capacity = 4
  MayFail = TRUE
INVARIANTS
  ListsDirectory
  OverflowsOnlyIfFull
  EntriesExist
  NoneMissed
  EntriesOnce
