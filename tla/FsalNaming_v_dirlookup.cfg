SPECIFICATION NamingSpec
CONSTANTS
  c1 = c1
  c2 = c2
  Callers <- OneCaller
  Letters <- LetterA
  Names <- NameA
  MaxOid <- OneDeep
  CreateAttrs <- AsServer
  MakedirAttrs <- AsServer
  SetAttrs <- Chmod
  ForeignKeys = {}
  ForeignMeta <- NoMetadata
  Faults = {}
PROPERTIES
  DirectoriesAreFound
