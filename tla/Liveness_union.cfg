\* One mail, three attempts, a crash and two lapsed leases; terms of two days; an image, a
\* video and a death.
SPECIFICATION LiveSpec
CONSTANTS
  approved = approved
  w1 = w1
  w2 = w2
  Event <- OneEvent
  Unsupported = {}
  Worker <- TwoWorkers
  NoWorker = NoWorker
  Idle = Idle
  BatchSize = 2
  Lease = 2
  RetryDelay = 1
  MaxAttempts = 3
  MaxCrashes = 1
  MaxLapses = 2
  MaxReplays = 1
  Term = 2
  Retention = 2
  Grace = 1
  Offsets = {1}
  LastDay = 4
  Images = {i1}
  Videos = {v1}
  MaximumImages = 1
  Nobody = Nobody
  MaxDeaths = 1
INVARIANTS
  StorageMatchesRows
PROPERTIES
  EventsSettle
  OverdueExpires
  TermsReminded
  StagingCleared
\* Events are settled, days are over, uploads are done.
CHECK_DEADLOCK FALSE
