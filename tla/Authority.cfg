\* One event, four bodies, two approvers; the HTTP server and an MCP server read.
SPECIFICATION PSSpec
CONSTANTS
  t1 = t1  t2 = t2
  claim = claim  closed = closed  other = other  refused = refused
  Events = {e1}
  Texts = {t1, t2}
  Bodies = {claim, closed, other, refused}
  DecisionsIn <- MCDecisionsIn
  LessonsIn <- MCLessonsIn
  TasksIn <- MCTasksIn
  SummaryIn <- MCSummaryIn
  Failed = {closed}
  Approvers = {ana, ben}
  NoBody = NoBody  NoRow = NoRow  NoCall = NoCall
  McpServers = {mcp}
  Http = http
  Limit = 2
  MaxReading = 1
  MaxAsked = 2
SYMMETRY ApproverSymmetry
INVARIANTS PSTypeOK AuthorityIsGranted AuditIsTrue SkippedIsReported NeverBothListed StateIsComplete
PROPERTIES VerdictIsFinal
