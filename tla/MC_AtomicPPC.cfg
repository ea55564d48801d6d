SPECIFICATION Spec
CONSTANTS
  Threads = {t1, t2, t3}
  UINT_VALUES = 3
INVARIANTS TypeOK ReservationFresh
PROPERTIES ImplementsAtomicCounter
