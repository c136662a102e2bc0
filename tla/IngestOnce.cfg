\* A `worker --once' beside the follower; not a regular run.
SPECIFICATION Spec
CONSTANTS
  small = small  large = large  fact = fact  lesson = lesson  file = file
  NoPayload = NoPayload  NoRequest = NoRequest
  Requests = {r1}
  Payloads <- MCPayloads
  Items <- MCItems
  Artefacts = {file}
  ItemsOf <- MCPayloadsItems
  Followers = {w1}  Drainers = {w2}  Inline = {}
  MaxAttempts = 2  BackoffCap = 2  Backoff <- MCBackoff
  StatementsMayFail = FALSE
  IdleTime = 1  ClaimBound = 3
INVARIANTS RetryBudget
