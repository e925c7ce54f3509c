SPECIFICATION Spec
CONSTANTS
  w1 = w1
  w2 = w2
  m1 = m1
  Workers = {w1, w2}
  Stoppable = {}
  Unconfigured = {}
  Msgs = {m1}
  MaxEntries = 3
  BatchSize = 2
  MaxRetries = 1
  StreamMaxlen = 3
  MaxFaults = 1
  Timely = FALSE
  Resend = TRUE
SYMMETRY Symmetry
INVARIANTS
  TypeOK
  NoLoss
  NoLossInv
