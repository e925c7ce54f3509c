SPECIFICATION Spec
CONSTANTS
  w1 = w1
  w2 = w2
  m1 = m1
  Workers = {w1, w2}
  Stoppable = {}
  Unconfigured = {}
  Msgs = {m1}
  MaxEntries = 4
  BatchSize = 2
  MaxRetries = 1
  StreamMaxlen = 4
  MaxFaults = 2
  Timely = TRUE
  Resend = TRUE
SYMMETRY Symmetry
INVARIANT
  OneSender
