SPECIFICATION FairNamingSpec
CONSTANTS
  c1 = c1
  c2 = c2
  Callers <- TwoCallers
  Letters <- LetterA
  Names <- NamesA_AA
  MaxOid <- OneDeep
  CreateAttrs <- AsServer
  MakedirAttrs <- AsServer
  SetAttrs <- AsServer
  ForeignKeys = {}
  ForeignMeta <- NoMetadata
  Faults = {"lost_put"}
PROPERTIES
  OnlyLookupsDie
  CallsEnd

  
  
