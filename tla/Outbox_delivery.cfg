\* Two workers deliver a mail and an event nobody handles: crash, lapse, retry, replay.
SPECIFICATION Spec
CONSTANTS
  approved = approved
  paymentReady = paymentReady
  w1 = w1
  w2 = w2
  Event <- TwoEvents
  Unsupported <- NoHandler
  Worker <- TwoWorkers
  NoWorker = NoWorker
  Idle = Idle
  BatchSize = 2
  Lease = 2
  RetryDelay = 1
  MaxAttempts = 2
  MaxCrashes = 1
  MaxLapses = 1
  MaxReplays = 1
SYMMETRY Symmetry
INVARIANTS
  TypeOK
  LogTellsOutcome
  AttemptsBounded
  SingleMail
