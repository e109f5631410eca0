SPECIFICATION Spec
INVARIANT ExecutiveArchiveArchives
