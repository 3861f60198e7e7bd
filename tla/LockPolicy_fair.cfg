CONSTANTS
  Threads = {t1, t2, t3}
  Proxies = {p1, p2}
  Mutexes = {m1, m2}
  Null = null
  ByRef = FALSE
SPECIFICATION FairSpec
INVARIANTS
  MutualExclusion
  UnlocksWhatItLocked
PROPERTY
  LocksAndUnlocks
