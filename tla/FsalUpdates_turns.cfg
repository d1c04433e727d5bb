SPECIFICATION UpdateSpec
CONSTANTS
  c1 = c1
  c2 = c2
  Callers <- TwoCallers
  Letters <- LetterA
  Names <- NameA
  MaxOid <- OneDeep
  CreateAttrs <- AsFile
  MakedirAttrs = {}
  SetAttrs <- ChmodChown
  ForeignKeys = {}
  ForeignMeta <- NoMetadata
  Faults = {"lost_put", "lost_answer"}
  Ordered = {"create", "makedir", "setattrs"}
  Observed <- FileA
SYMMETRY Symmetry
INVARIANTS
  SetattrsKept
  HandlesBacked
PROPERTIES
  AtomicChanges
  ReadsCurrent
