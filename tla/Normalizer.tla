----------------------------- MODULE Normalizer -----------------------------
(***************************************************************************)
(* extract_events() (app/normalizer.py) and the schema its events must     *)
(* meet (app/models.py): what one webhook payload becomes.                 *)
(*                                                                         *)
(* A JSON value is a record whose fields name what Python makes of it:     *)
(* "obj" (a function from keys), "list" (a sequence), "str", "null", "inf" *)
(* (1e999), and "int" next to "num" or "str" for what int() reads in it.   *)
(***************************************************************************)
EXTENDS Naturals, SequencesExt

Null == [null |-> TRUE]
Inf == [inf |-> TRUE]
Str(s) == [str |-> s]
Digits(s, n) == [str |-> s, int |-> n]
Num(n) == [num |-> n, int |-> n]
List(s) == [list |-> s]
Obj(f) == [obj |-> f]

Is(v, kind) == kind \in DOMAIN v

\* bool(v)
Truthy(v) ==
  /\ ~Is(v, "null")
  /\ Is(v, "str") => v.str # ""
  /\ Is(v, "num") => v.num # 0
  /\ Is(v, "list") => v.list # << >>
  /\ Is(v, "obj") => DOMAIN v.obj # {}

\* _as_dict(): anything but an object is an empty one.
AsDict(v) == IF Is(v, "obj") THEN v.obj ELSE [key \in {} |-> Null]

\* _as_list(): anything but a list is an empty one.
AsList(v) == IF Is(v, "list") THEN v.list ELSE << >>

\* dict.get(): an absent key reads like a null.
At(f, key) == IF key \in DOMAIN f THEN f[key] ELSE Null

MediaTypes == {Str(t) : t \in {"image", "video", "document", "audio", "sticker"}}

\* _extract_text().  The text of a location is a string that names both of its
\* coordinates.
ExtractText(message) ==
  LET type == At(message, "type")
      part(key) == AsDict(At(message, key))
      interactive == part("interactive")
      location == <<At(part("location"), "latitude"), At(part("location"), "longitude")>>
  IN  CASE type = Str("text") -> At(part("text"), "body")
        [] type = Str("button") -> At(part("button"), "text")
        [] type = Str("interactive") /\ "button_reply" \in DOMAIN interactive ->
             At(AsDict(interactive["button_reply"]), "title")
        [] type = Str("interactive") /\ "button_reply" \notin DOMAIN interactive ->
             At(AsDict(At(interactive, "list_reply")), "title")
        [] type \in MediaTypes -> At(part(type.str), "caption")
        [] type = Str("location") /\ Null \notin Range(location) -> [coords |-> location]
        [] OTHER -> Null

\* _safe_timestamp(): what int() cannot read is no timestamp -- except that
\* int() of an infinite number raises an error which is not caught.
SafeTimestamp(v) == CASE Is(v, "int") -> [int |-> v.int]
                      [] Is(v, "inf") -> Inf
                      [] OTHER -> Null

\* The events of one message or status; none when it has no id.
FromMessage(item, to) ==
  LET message == AsDict(item)
  IN  IF ~Truthy(At(message, "id")) THEN << >> ELSE
      <<[message_id |-> At(message, "id"), event_type |-> "message",
         message_type |-> At(message, "type"), text |-> ExtractText(message),
         status |-> Null, from_number |-> At(message, "from"), to_number |-> to,
         timestamp |-> SafeTimestamp(At(message, "timestamp"))]>>

FromStatus(item, to) ==
  LET status == AsDict(item)
  IN  IF ~Truthy(At(status, "id")) THEN << >> ELSE
      <<[message_id |-> At(status, "id"), event_type |-> "status",
         message_type |-> Null, text |-> Null,
         status |-> At(status, "status"), from_number |-> At(status, "recipient_id"),
         to_number |-> to, timestamp |-> SafeTimestamp(At(status, "timestamp"))]>>

\* Fault variant: the loop breaks off at an element that yields nothing.
Collected_ToFirstEmpty(yields) ==
  LET before == {n \in 0..Len(yields) : << >> \notin Range(SubSeq(yields, 1, n))}
  IN  FlattenSeq(SubSeq(yields, 1, Max(before)))

\* events.append() over a loop: what the elements yield, in order.
Collected(yields) == FlattenSeq(yields)

\* One change of one entry: its messages, then its statuses.
FromChange(change) ==
  LET value == AsDict(At(AsDict(change), "value"))
      to == At(AsDict(At(value, "metadata")), "display_phone_number")
      messages == AsList(At(value, "messages"))
      statuses == AsList(At(value, "statuses"))
  IN  Collected([i \in DOMAIN messages |-> FromMessage(messages[i], to)])
      \o Collected([i \in DOMAIN statuses |-> FromStatus(statuses[i], to)])

FromEntry(entry) ==
  LET changes == AsList(At(AsDict(entry), "changes"))
  IN  Collected([i \in DOMAIN changes |-> FromChange(changes[i])])

\* extract_events()
ExtractEvents(payload) ==
  LET entries == AsList(At(AsDict(payload), "entry"))
  IN  Collected([i \in DOMAIN entries |-> FromEntry(entries[i])])

OptionalStr(v) == Is(v, "null") \/ Is(v, "str") \/ Is(v, "coords")

\* Fault variant: the schema asks for a timestamp.
Constructs_Timestamped(e) ==
  /\ Is(e.message_id, "str")
  /\ \A v \in {e.message_type, e.text, e.status, e.from_number, e.to_number} : OptionalStr(v)
  /\ Is(e.timestamp, "int")

\* NormalizedEvent(...): pydantic turns no number or object into a string.
Constructs(e) ==
  /\ Is(e.message_id, "str")
  /\ \A v \in {e.message_type, e.text, e.status, e.from_number, e.to_number} : OptionalStr(v)
  /\ ~Is(e.timestamp, "inf")

\* One event that cannot be built fails the call, and the whole payload with it.
Raises(payload) == \E e \in Range(ExtractEvents(payload)) : ~Constructs(e)
=============================================================================
