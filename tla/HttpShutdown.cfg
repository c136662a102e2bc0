\* Two connections of two requests each; not a regular run.
SPECIFICATION Spec
CONSTANTS
  Threads = {t1, t2}
  MaxRequests = 2
PROPERTY NoConnectionIsShared
\* The process ends.
CHECK_DEADLOCK FALSE
