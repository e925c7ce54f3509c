SPECIFICATION PipelineSpec
CONSTANTS
  w1 = w1
  w2 = w2
  d1 = d1
  Workers = {w1, w2}
  Stoppable = {w2}
  Unconfigured = {}
  Msgs <- MC_Events
  MaxEntries = 4
  BatchSize = 2
  MaxRetries = 1
  StreamMaxlen = 4
  MaxFaults = 1
  Timely = TRUE
  Resend = TRUE
  Deliveries = {d1}
  Requests = {1}
  Events <- MC_Events
  IdOf <- MC_IdOf
  Body <- MC_Body
INVARIANT
  AcceptedIsKept
PROPERTIES
  KeepsPromise
  AcceptedIsSettled
