SPECIFICATION Spec
INVARIANTS
  TypeOK
  OnlyHierarchyDecides
  ClerksCanWork
  SeedMatchesFallback
  ArchiveReachable
