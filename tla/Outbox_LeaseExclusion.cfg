\* A worker that outlived its lease releases the lease of its successor.
SPECIFICATION Spec
CONSTANTS
  approved = approved
  paymentReady = paymentReady
  w1 = w1
  w2 = w2
  Event <- OneEvent
  Unsupported <- NoneUnsupported
  Worker <- TwoWorkers
  NoWorker = NoWorker
  Idle = Idle
  BatchSize = 2
  Lease = 2
  RetryDelay = 1
  MaxAttempts = 3
  MaxCrashes = 0
  MaxLapses = 1
  MaxReplays = 0
INVARIANT LeaseExclusion
