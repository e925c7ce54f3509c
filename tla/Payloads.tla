------------------------------ MODULE Payloads ------------------------------
(***************************************************************************)
(* Webhook payloads for the instances that start from JSON, and the        *)
(* normalizer checked on bounded families of malformed ones.               *)
(***************************************************************************)
EXTENDS Normalizer

Payload(entries) == Obj([entry |-> List(entries)])
EntryWith(changes) == Obj([changes |-> List(changes)])
ChangeWith(messages, statuses) ==
  Obj([value |-> Obj([metadata |-> Obj([display_phone_number |-> Str("911")]),
                      messages |-> List(messages), statuses |-> List(statuses)])])
Message(id, type, content) ==
  Obj([id |-> Str(id), from |-> Str("919"), timestamp |-> Digits("17", 17),
       type |-> Str(type)] @@ (type :> content))
Status(id, status) ==
  Obj([id |-> Str(id), recipient_id |-> Str("919"), timestamp |-> Digits("18", 18),
       status |-> Str(status)])

Text(id) == Message(id, "text", Obj([body |-> Str("hi")]))

\* A value with all its parts.
RECURSIVE Parts(_)
Parts(v) ==
  {v} \union UNION {Parts(w) : w \in Range(AsDict(v)) \union Range(AsList(v))}

-----------------------------------------------------------------------------
(* The normalizer on its own *)

\* What the lists of a payload may hold besides what Meta documents.
Junk == {Null, Str("x"), Num(1), List(<<Null>>), Obj([k \in {} |-> Null]),
         Obj([id |-> Str(""), value |-> List(<< >>), changes |-> Obj([id |-> Str("x")])])}

\* Lists of up to three elements, junk among good.
Lists(good) == UNION {[1..n -> Junk \union good] : n \in 0..3}

IdsFrom(payload) == [i \in DOMAIN ExtractEvents(payload) |->
                       ExtractEvents(payload)[i].message_id.str]

\* Payloads that hold the list s at one of their four levels, with "z" next to
\* it where there is room.
AtLevel(level, s) ==
  LET z == ChangeWith(<<Text("z")>>, << >>)
  IN  CASE level = "entry"   -> Payload(s)
        [] level = "change"  -> Payload(<<EntryWith(s), EntryWith(<<z>>)>>)
        [] level = "message" -> Payload(<<EntryWith(<<ChangeWith(s, <<Status("z", "sent")>>)>>)>>)
        [] level = "status"  -> Payload(<<EntryWith(<<ChangeWith(<< >>, s), z>>)>>)

\* An element of that list that yields one event of this id.
Good(level, id) ==
  CASE level = "entry"   -> EntryWith(<<ChangeWith(<<Text(id)>>, << >>)>>)
    [] level = "change"  -> ChangeWith(<<Text(id)>>, << >>)
    [] level = "message" -> Text(id)
    [] level = "status"  -> Status(id, "sent")

Levels == {"entry", "change", "message", "status"}

\* Lists that do not yield exactly the events of their good elements, in order.
LostSiblings ==
  {<<level, s>> \in UNION {{level} \X Lists({Good(level, "a"), Good(level, "b")}) :
                            level \in Levels} :
     LET named(x) == SelectSeq(<<"a", "b">>, LAMBDA id : Good(level, id) = x)
     IN  \/ Raises(AtLevel(level, s))
         \/ IdsFrom(AtLevel(level, s))
              # FlattenSeq([i \in DOMAIN s |-> named(s[i])])
                \o IF level = "entry" THEN << >> ELSE <<"z">>}

\* MALFORMED SIBLINGS.  At every level of a payload, elements that are null,
\* empty or of another type are passed over, and every element next to them
\* yields its events, in the order of the payload (normalizer.py:66-68,
\* tests/test_normalizer.py:616).
SiblingsSurvive == LostSiblings = {}

\* v with some part of it nulled or left out.
RECURSIVE Degraded(_)
Degraded(v) ==
  {Null} \union
  (IF ~Is(v, "obj") THEN {} ELSE
     UNION {{Obj([v.obj EXCEPT ![key] = w]) : w \in Degraded(v.obj[key])}
              \union {Obj(Restrict(v.obj, DOMAIN v.obj \ {key}))} : key \in DOMAIN v.obj})

\* One message of each type the normalizer knows.
Samples ==
  {Text("a"), Message("a", "button", Obj([text |-> Str("yes")])),
   Message("a", "interactive", Obj([button_reply |-> Obj([title |-> Str("yes")])])),
   Message("a", "interactive", Obj([list_reply |-> Obj([title |-> Str("yes")])])),
   Message("a", "image", Obj([caption |-> Str("look")])),
   Message("a", "location", Obj([latitude |-> Num(12), longitude |-> Num(77)]))}

\* Messages and statuses, less two parts, that are not normalized any more.
LostToNulls ==
  {item \in UNION {Degraded(once) : once \in
                     UNION {Degraded(v) : v \in Samples \union {Status("a", "sent")}}} :
     /\ At(AsDict(item), "id") = Str("a")
     /\ \E p \in {AtLevel("message", <<item>>), AtLevel("status", <<item>>)} :
          Raises(p) \/ IdsFrom(p) # <<"a", "z">>}

\* NULLS COST ONE FIELD.  A message or status that still has its id is
\* normalized whatever else of it is null or missing (normalizer.py:6-15,
\* tests/test_normalizer.py:600).
NullsKeepTheEvent == LostToNulls = {}
=============================================================================
