SPECIFICATION Spec
CONSTANTS
  w1 = w1
  w2 = w2
  m1 = m1
  m2 = m2
  Workers = {w1, w2}
  Stoppable = {}
  Unconfigured = {}
  Msgs = {m1, m2}
  MaxEntries = 4
  BatchSize = 2
  MaxRetries = 1
  StreamMaxlen = 1
  MaxFaults = 0
  Timely = TRUE
  Resend = FALSE
SYMMETRY Symmetry
INVARIANT
  NoLoss
