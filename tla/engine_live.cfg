SPECIFICATION FairSpec
CONSTANTS
  c1 = c1  c2 = c2  k1 = k1  k2 = k2  k3 = k3
  t1 = t1  t2 = t2  f = f  g = g  s1 = s1
  Clients = {t1, t2}
  Opener = opener
  NoOne = NoOne
  Names = {f}
  Prefixes = {{f}}
  Contents = {c1, c2}
  Chunks = {k1, k2, k3}
  ChunksOf <- MCChunksOf
  Labels = {}
  MaxObjects = 2
  MaxVersion = 4
  MaxKeep = 1
  MaxPuts = 2
  MaxEdits = 2
  MaxCrashes = 2
  PowerMayFail = TRUE
  MaxFaults = 0
CONSTRAINT OneCallerAfterCrash
PROPERTIES PutsReturn CollectionsReturn StoreComesBack
