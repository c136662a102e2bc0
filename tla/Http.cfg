\* Two connections of two requests each, over every outcome of a boot.
SPECIFICATION FairSpec
CONSTANTS
  Threads = {t1, t2}
  MaxRequests = 2
INVARIANTS TypeOK AttachedIsOpen
PROPERTY Answered
\* The process ends.
CHECK_DEADLOCK FALSE
