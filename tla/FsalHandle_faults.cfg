SPECIFICATION Spec
CONSTANTS
  c1 = c1
  c2 = c2
  Callers <- TwoCallers
  Letters <- LetterA
  Names <- NameA
  MaxOid <- OneDeep
  CreateAttrs <- AnyType
  MakedirAttrs <- DirectoryOrNoType
  SetAttrs <- Chmod
  ForeignKeys <- FileA
  ForeignMeta <- NoMetadata
  Faults = {"refused", "lost_put", "lost_answer", "no_details"}
SYMMETRY Symmetry
INVARIANTS
  TypeOK
  BucketComplete
  DirectoriesTyped
