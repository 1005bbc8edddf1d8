SPECIFICATION FairSpec
CONSTANTS
  write = write
  upload = upload
  Asks <- SomeAsks
  Payloads = {write, upload}
  Uploads = {upload}
  Calls = {c1, c2}
  Validations = {v1, v2}
  None = None
  TTL = 0
  MaxTime = 1
  MaxRestarts = 1
  Elicits = TRUE
INVARIANT TypeOK
INVARIANT Authorised
INVARIANT OneSuccessPerValidation
PROPERTY CallsAreAnswered
CHECK_DEADLOCK FALSE
