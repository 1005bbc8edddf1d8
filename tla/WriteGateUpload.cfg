SPECIFICATION Spec
CONSTANTS
  write = write
  upload = upload
  Asks <- SomeAsks
  Payloads = {write, upload}
  Uploads = {upload}
  Calls = {c1, c2}
  Validations = {v1, v2}
  None = None
  TTL = 1
  MaxTime = 2
  MaxRestarts = 1
  Elicits = TRUE
PROPERTY UploadWritesFile
CHECK_DEADLOCK FALSE
