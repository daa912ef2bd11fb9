CONSTANTS
  Threads = {t1, t2, t3}
  NoThread = NoThread
  Build = "atomic_ops"
  MaxRefs = 3
SPECIFICATION RefSpec
INVARIANT
  FreedUnreferenced
