------------------------------ MODULE MC_Ingest ------------------------------
(***************************************************************************)
(* Ingest on the events that Normalizer makes of small webhook payloads:   *)
(* two deliveries of two events each, the second of which carries a later  *)
(* status of a message in the first.                                       *)
(***************************************************************************)
EXTENDS Webhook, Payloads

CONSTANTS d1, d2

MC_Deliveries == {d1, d2}

-----------------------------------------------------------------------------
(* Payloads *)

\* An inbound message and the first status of an outbound one, next to parts
\* that are null, empty or of another type.
Inbound ==
  Payload(<<Null, EntryWith(<<Obj([value |-> Null]),
                          ChangeWith(<<Num(1), Message("inbound", "text", Null)>>,
                                 <<Obj([status |-> Str("sent")]), Status("out", "sent")>>)>>)>>)

\* That message's next status, and a message of a type that is not known.
Later ==
  Payload(<<EntryWith(<<ChangeWith(<< >>, <<Status("out", "read"), Obj([id |-> Null])>>)>>),
            EntryWith(<<ChangeWith(<<Message("other", "reaction", Null)>>, << >>)>>)>>)

\* A good message, and a text whose body is a number.
Odd == Payload(<<EntryWith(<<ChangeWith(<<Text("other"),
                                  Message("odd", "text", Obj([body |-> Num(5)]))>>, << >>)>>)>>)

\* What the ingest path sees of the payloads of the two deliveries.
Instance(sent) ==
  LET body == [d \in MC_Deliveries |-> ExtractEvents(sent[d])]
      events == Range(body[d1]) \union Range(body[d2])
  IN  [json |-> Parts(sent[d1]) \union Parts(sent[d2]),
       body |-> body, events |-> events,
       ids |-> {e.message_id : e \in events},
       idOf |-> [e \in events |-> e.message_id],
       unreadable |-> {d \in MC_Deliveries : Raises(sent[d])}]

Shared == d1 :> Inbound @@ d2 :> Later
SharedInstance == Instance(Shared)
SharedJson == SharedInstance.json
SharedBody == SharedInstance.body
SharedEvents == SharedInstance.events
SharedIds == SharedInstance.ids
SharedIdOf == SharedInstance.idOf
SharedUnreadable == SharedInstance.unreadable

Mistyped == d1 :> Inbound @@ d2 :> Odd
MistypedInstance == Instance(Mistyped)
MistypedJson == MistypedInstance.json
MistypedBody == MistypedInstance.body
MistypedEvents == MistypedInstance.events
MistypedIds == MistypedInstance.ids
MistypedIdOf == MistypedInstance.idOf
MistypedUnreadable == MistypedInstance.unreadable
=============================================================================
