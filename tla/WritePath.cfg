\* Two healthy front ends and a degraded one, one request_id, two contents; one follower.
SPECIFICATION WPSpec
CONSTANTS
  p1 = p1  p2 = p2  fact = fact  file = file
  NoPayload = NoPayload  NoCall = NoCall  NoRequest = NoRequest
  Requests = {r1}
  Payloads = {p1, p2}
  Items = {fact, file}
  Artefacts = {file}
  ItemsOf <- MCItemsOf
  FrontEnds = {http, mcp, late}
  Degraded = {late}
  Followers = {w1}  Drainers = {}  Inline = {}
  MaxAttempts = 2  Backoff <- MCBackoff
  StatementsMayFail = TRUE
  IdleTime = 1  ClaimBound = 3
  MaxAnswers = 1
SYMMETRY FrontEndSymmetry
INVARIANTS WPTypeOK AnswersAreTrue QueuedIsRemembered
PROPERTIES ImplementsIntake
