\* As Authority.cfg; not a regular run.
SPECIFICATION Spec
CONSTANTS
  t1 = t1  t2 = t2
  claim = claim  closed = closed  other = other  refused = refused
  Events = {e1}
  Texts = {t1, t2}
  Bodies = {claim, closed, other, refused}
  DecisionsIn <- MCDecisionsIn
  LessonsIn <- MCLessonsIn
  TasksIn <- MCTasksIn
  SummaryIn <- MCSummaryIn
  Failed = {closed}
  Approvers = {ana, ben}
  NoBody = NoBody  NoRow = NoRow  NoCall = NoCall
INVARIANTS SubmittedIsProposed
