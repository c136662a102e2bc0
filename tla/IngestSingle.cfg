\* One follower under launchd; two requests that share an artefact.
SPECIFICATION FairSpec
CONSTANTS
  small = small  large = large  fact = fact  lesson = lesson  file = file
  NoPayload = NoPayload  NoRequest = NoRequest
  Requests = {r1, r2}
  Payloads <- MCOnePayload
  Items <- MCItems
  Artefacts = {file}
  ItemsOf <- MCOnePayloadItems
  Followers = {w1}  Drainers = {}  Inline = {}
  MaxAttempts = 2  BackoffCap = 2  Backoff <- MCBackoff
  StatementsMayFail = FALSE
  IdleTime = 2  ClaimBound = 3
INVARIANTS RetryBudget NothingStranded
PROPERTIES NoOvertaking TerminalIsFinal ImplementsContract EventuallySettled
