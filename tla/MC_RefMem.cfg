SPECIFICATION FairSpec
CONSTANTS
  Threads = {t1, t2}
  Vars = {v1, v2}
  Blocks = {b1, b2}
  NULL = NULL
  UINT_VALUES = 4
INVARIANTS TypeOK NoDanglingPointer RefcountExact DestroyedOnce TotalRefcountExact
PROPERTIES DyingIsFreed
