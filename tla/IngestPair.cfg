\* A worker of each kind after one row; statements may raise.
SPECIFICATION Spec
CONSTANTS
  small = small  large = large  fact = fact  lesson = lesson  file = file
  NoPayload = NoPayload  NoRequest = NoRequest
  Requests = {r1}
  Payloads <- MCPayloads
  Items <- MCItems
  Artefacts = {file}
  ItemsOf <- MCPayloadsItems
  Followers = {w1}  Drainers = {w2}  Inline = {w3}
  MaxAttempts = 2  BackoffCap = 2  Backoff <- MCBackoff
  StatementsMayFail = TRUE
  IdleTime = 1  ClaimBound = 3
INVARIANTS PipelineInv DoneImpliesStored DeadOnlyAfterMaxAttempts
