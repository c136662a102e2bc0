\* Two front ends in enqueue(); not a regular run.
SPECIFICATION Spec
CONSTANTS
  NoPayload = NoPayload  NoCall = NoCall
  Requests = {r1}
  Payloads = {p1, p2}
  FrontEnds = {http, mcp}
  Degraded = {}
  MaxAttempts = 2  Backoff <- MCBackoff
INVARIANTS LossIsReported
