SPECIFICATION Spec
CONSTANTS
  Names <- MCNames
  Contents <- MCContents
  Labels = {l1}
  Workers = {w1, w2}
  Nobody = Nobody
  Chunks <- MCChunks
  ChunksOf <- MCChunksOf
  LenOf <- MCLenOf
  DirsOf <- MCDirsOf
  MaxBytes = 2
  MaxOffset = 2
  Callers = {p1, p2}
  Ids = {i1, i2}
  Paths <- MCPaths
  Under <- MCUnder
  Torn = Torn
  Dirs = {r1, r2}
  FilesAtStart <- MCFilesAtStart
  Budgets <- MCBudgets
INVARIANTS TypeOK ReadsAreExact CacheIsConsistent ReadsComplete AckedSharesLast ArchiveIsTrue OneWatcher
PROPERTIES RequestsAnswered
CHECK_DEADLOCK FALSE
