SPECIFICATION FairDataSpec
CONSTANTS
  c1 = c1
  c2 = c2
  c3 = c3
  k1 = k1
  small = small
  large = large
  Callers = {c1, c2, c3}
  Process <- Pids
  NAMELENGTH = 1
  RETRIES = 2
  MaxDescriptors = 2
  MaxTime = 1
  Keys = {k1}
  Sources <- TestFiles
  Lookups = {c1}
  Exporters = {c3}
  Uploaders = {c2}
  BUFFER = 2
  BreaksOff = TRUE
CHECK_DEADLOCK FALSE
INVARIANTS
  SharedInOneSecond
  FirstPieceWhole
  DownloadsWhole
PROPERTIES
  LookupEnds
