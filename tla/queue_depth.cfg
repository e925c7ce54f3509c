SPECIFICATION DepthSpec
CONSTANTS
  w1 = w1
  w2 = w2
  m1 = m1
  m2 = m2
  api = api
  Workers = {w1, w2}
  Stoppable = {}
  Unconfigured = {w2}
  Msgs = {m1, m2}
  MaxEntries = 3
  BatchSize = 1
  MaxRetries = 1
  StreamMaxlen = 3
  MaxFaults = 1
  Timely = TRUE
  Resend = FALSE
  Readers = {api}
SYMMETRY Symmetry
PROPERTIES
  WaitingIsReported
  NoPhantomBacklog
