\* Recordings and live TV, every failure: safety.
SPECIFICATION Spec
CONSTANT Scenes <- AllScenes
INVARIANTS TypeOK  RequestHasReader NothingLeaked
\* The program ends, and threads do block each other, see LockOrder.
CHECK_DEADLOCK FALSE
