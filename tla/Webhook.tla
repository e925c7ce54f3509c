------------------------------ MODULE Webhook ------------------------------
(***************************************************************************)
(* receive_webhook() from the JSON on: Ingest on what extract_events()     *)
(* makes of the payload of each delivery.                                  *)
(***************************************************************************)
EXTENDS Ingest, Normalizer

CONSTANTS
  Json,  \* JSON values, with all their parts
  Sent   \* the payload of each delivery

\* Nothing is of two types; what an object or a list holds is a value again.
ASSUME JsonAssumption ==
  \A v \in Json :
    /\ \A j, k \in {"null", "inf", "str", "num", "list", "obj"} :
         Is(v, j) /\ Is(v, k) => j = k
    /\ Is(v, "list") => v.list \in Seq(Json)
    /\ Is(v, "obj") => \A key \in DOMAIN v.obj : v.obj[key] \in Json

\* events = extract_events(payload), or the exception it ends with.
Extracted == [d \in Deliveries |-> ExtractEvents(Sent[d])]
Rejected == {d \in Deliveries : Raises(Sent[d])}
MessageId == [event \in Events |-> event.message_id]

\* A payload that is not an object is turned away (main.py:110-112).
ASSUME WebhookAssumption ==
  /\ Sent \in [Deliveries -> Json] /\ \A d \in Deliveries : Is(Sent[d], "obj")
  /\ Body = Extracted /\ Unreadable = Rejected /\ IdOf = MessageId

-----------------------------------------------------------------------------
(* Properties *)

\* The elements of the list under this key, if v has one.
Elements(v, key) ==
  IF Is(v, "obj") /\ key \in DOMAIN v.obj /\ Is(v.obj[key], "list")
  THEN Range(v.obj[key].list) ELSE {}

\* The ids of all messages and statuses of a payload that have one: what Meta
\* asks to be accepted, said without an order or a loop.
WellFormed(payload) ==
  LET changes == UNION {Elements(entry, "changes") : entry \in Elements(payload, "entry")}
      values == {c.obj["value"] : c \in {c \in changes : Is(c, "obj") /\ "value" \in DOMAIN c.obj}}
      items == UNION {Elements(v, "messages") \union Elements(v, "statuses") : v \in values}
      named == {item \in items : Is(item, "obj") /\ "id" \in DOMAIN item.obj}
  IN  {id \in {item.obj["id"] : item \in named} : Is(id, "str") /\ id.str # ""}

\* A 200 COVERS THE PAYLOAD AS SENT.  Meta is told 200 only when a key was
\* claimed for every message and status that has an id, wherever in the raw
\* payload it is and whatever is null, missing or of another type next to it
\* (normalizer.py:63-112, main.py:115-134, tests/test_normalizer.py:616).
PayloadCovered ==
  \A d \in Deliveries : meta[d] = "acked" => WellFormed(Sent[d]) \subseteq dedup
=============================================================================
