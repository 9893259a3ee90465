\* Three workers and three tasks, each of which may block; it ends when
\* stopAndDrain() has returned.
SPECIFICATION FairSpec
CONSTANTS
    Worker = {w1, w2, w3}
    Task = {t1, t2, t3}
    None = None
INVARIANTS OnePlace QuietAfterStop
PROPERTIES ImplementsPool WorkGoesOn
CHECK_DEADLOCK FALSE
