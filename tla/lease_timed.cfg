SPECIFICATION LeaseSpec
CONSTANTS
  w1 = w1
  w2 = w2
  m1 = m1
  Workers = {w1, w2}
  Stoppable = {}
  Unconfigured = {}
  Msgs = {m1}
  MaxEntries = 3
  BatchSize = 2
  MaxRetries = 1
  StreamMaxlen = 4
  MaxFaults = 1
  Timely = FALSE
  Resend = FALSE
  Second = 1
  PostTimeout = 1
  BackoffMax = 2
  MinIdle = 14
  Latency = 2
SYMMETRY Symmetry
INVARIANTS
  LeaseTypeOK
  LeaseCoversAttempt
PROPERTY
  KeepsTiming
