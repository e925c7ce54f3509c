SPECIFICATION FairSpec
CONSTANTS
  d1 = d1
  d2 = d2
  Deliveries <- MC_Deliveries
  Requests = {1, 2}
  Json <- SharedJson
  Sent <- Shared
  Ids <- SharedIds
  Events <- SharedEvents
  IdOf <- SharedIdOf
  Body <- SharedBody
  Unreadable <- SharedUnreadable
  MaxFaults = 2
  Resend = FALSE
CHECK_DEADLOCK FALSE
INVARIANTS
  TypeOK
  OncePerId
  AckedIsClaimed
  LossNeedsFault
  PayloadCovered
PROPERTY
  AllAnswered
