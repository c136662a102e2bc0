\* One follower that is signalled; not a regular run.
SPECIFICATION FairSpec
CONSTANTS
  small = small  large = large  fact = fact  lesson = lesson  file = file
  NoPayload = NoPayload  NoRequest = NoRequest
  Requests = {r1}
  Payloads <- MCOnePayload
  Items <- MCItems
  Artefacts = {file}
  ItemsOf <- MCOnePayloadItems
  Followers = {w1}  Drainers = {}  Inline = {}
  MaxAttempts = 2  BackoffCap = 2  Backoff <- MCBackoff
  StatementsMayFail = FALSE
  IdleTime = 1  ClaimBound = 3
PROPERTIES KillIsARestart
