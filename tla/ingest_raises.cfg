SPECIFICATION FairSpec
CONSTANTS
  d1 = d1
  d2 = d2
  Deliveries <- MC_Deliveries
  Requests = {1, 2}
  Json <- MistypedJson
  Sent <- Mistyped
  Ids <- MistypedIds
  Events <- MistypedEvents
  IdOf <- MistypedIdOf
  Body <- MistypedBody
  Unreadable <- MistypedUnreadable
  MaxFaults = 0
  Resend = FALSE
CHECK_DEADLOCK FALSE
PROPERTY
  AllAnswered
