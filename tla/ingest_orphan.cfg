SPECIFICATION Spec
CONSTANTS
  d1 = d1
  d2 = d2
  Deliveries <- MC_Deliveries
  Requests = {1, 2}
  Json <- SharedJson
  Sent <- Shared
  Ids <- SharedIds
  Events <- SharedEvents
  IdOf <- SharedIdOf
  Body <- SharedBody
  Unreadable <- SharedUnreadable
  MaxFaults = 1
  Resend = TRUE
INVARIANT
  AcceptedIsDurable
