SPECIFICATION Spec
CONSTANTS
  Threads = {t1, t2}
  UINT_VALUES = 16
INVARIANTS NoLostUpdate
