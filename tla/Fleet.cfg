SPECIFICATION FairSpec
CONSTANTS
  a = a
  b = b
  c = c
  ghost = ghost
  Keys <- MCInstances
  Instances <- MCInstances
  OptedOut <- MCOptedOut
  Tagged <- MCTagged
  Denied <- MCDenied
  Unknown = ghost
  Requests <- MCRequests
  MaxWorkers = 2
  MaxQueries = 1
  Health = health
  Threads = {0}
  Window = 2
  MaxCalls = 1
  MaxTrackedKeys = 2
  MaxTime = 1
  MaxStep = 0
  MaxRecorded = 1
  MaxRefused = 1
INVARIANT FleetTypeOK
INVARIANT EnvelopeIsRight
PROPERTY QueriesAreAnswered
