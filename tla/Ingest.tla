------------------------------- MODULE Ingest -------------------------------
(***************************************************************************)
(* The ingest path: Meta's webhook deliveries, the API process that takes  *)
(* them (app/main.py), the dedup keys (app/dedup.py) and the stream it     *)
(* publishes to (app/queue.py).                                            *)
(*                                                                         *)
(* Requests run concurrently in one event loop; a step is what a request   *)
(* does between two awaits.  A request that is turned away before          *)
(* _ingest() (signature, JSON, rate limit) changes nothing, and is a       *)
(* delivery not sent yet.  Meta, outside the repository, sends a delivery  *)
(* until it sees a 200, and now and then again after that.                 *)
(***************************************************************************)
EXTENDS Naturals, Sequences, FiniteSets, Functions

CONSTANTS
  Deliveries,  \* webhook bodies Meta has to deliver
  Requests,    \* requests of one delivery that may be in progress at once
  Ids,         \* message ids
  Events,      \* normalized events
  IdOf,        \* message_id of each event; statuses share their message's
  Body,        \* what extract_events() makes of each delivery
  Unreadable,  \* deliveries for which it raises instead
  MaxFaults,   \* bound: crashes, refused commands, lost replies and answers
  Resend       \* REDIS_RETRIES > 0: the client re-sends a command whose
               \* reply it did not get

ASSUME IngestAssumption ==
  /\ IdOf \in [Events -> Ids]
  /\ Body \in [Deliveries -> Seq(Events)]
  /\ Unreadable \subseteq Deliveries
  /\ MaxFaults \in Nat /\ Resend \in BOOLEAN

\* Where a request is: none running, about to SET NX or to XADD for the event
\* at hand, about to answer 200 or an error: 503, or 500 for what is not caught.
PC == {"idle", "dedup", "publish", "ok", "failed"}

VARIABLES
  meta,    \* what Meta knows of each delivery: no 200 yet, a 200, over
  pc,      \* the requests of each delivery
  at,      \* the event of the payload each request is at
  dedup,   \* ids whose key wa:dedup:<id> exists
  stream,  \* the events added to the stream, in order
  up,      \* the API process runs
  faults   \* faults so far

vars == <<meta, pc, at, dedup, stream, up, faults>>

Init ==
  /\ meta = [d \in Deliveries |-> "open"]
  /\ pc = [d \in Deliveries |-> [c \in Requests |-> "idle"]]
  /\ at = [d \in Deliveries |-> [c \in Requests |-> 1]]
  /\ dedup = {} /\ stream = << >>
  /\ up = FALSE /\ faults = 0

Event(d, c) == Body[d][at[d][c]]
Id(d, c) == IdOf[Event(d, c)]
IdsIn(d) == {IdOf[Body[d][i]] : i \in 1..Len(Body[d])}

-----------------------------------------------------------------------------
(* receive_webhook() and _ingest() *)

Fault == faults < MaxFaults /\ faults' = faults + 1

Goes(d, c, to) == pc' = [pc EXCEPT ![d][c] = to] /\ UNCHANGED at

\* Fault variant: the loop runs once too often.
Advances_Past(d, c) ==
  /\ at' = [at EXCEPT ![d][c] = @ + 1]
  /\ pc' = [pc EXCEPT ![d][c] = IF at[d][c] <= Len(Body[d]) THEN "dedup" ELSE "ok"]

\* for event in events: the next one, or the answer.
Advances(d, c) ==
  /\ at' = [at EXCEPT ![d][c] = @ + 1]
  /\ pc' = [pc EXCEPT ![d][c] = IF at[d][c] < Len(Body[d]) THEN "dedup" ELSE "ok"]

\* No reply to a Redis command that took effect: the request fails with a
\* 503, or the client sends the command again.
ReplyLost(d, c) ==
  /\ Fault
  /\ Goes(d, c, "failed") \/ (Resend /\ UNCHANGED <<pc, at>>)

\* A delivery, or a redelivery, passes the checks; extract_events(), outside
\* of the try that answers 503.
Receive(d, c) ==
  /\ up /\ meta[d] # "closed" /\ pc[d][c] = "idle"
  /\ Goes(d, c, IF d \in Unreadable THEN "failed"
                ELSE IF Len(Body[d]) = 0 THEN "ok" ELSE "dedup")
  /\ UNCHANGED <<meta, dedup, stream, up, faults>>

\* is_duplicate(): SET NX creates the key.
Claim(d, c) ==
  /\ pc[d][c] = "dedup" /\ Id(d, c) \notin dedup
  /\ dedup' = dedup \union {Id(d, c)}
  /\ \/ Goes(d, c, "publish") /\ UNCHANGED faults
     \/ ReplyLost(d, c)
  /\ UNCHANGED <<meta, stream, up>>

\* Fault variant: the first duplicate ends the request.
DropDuplicate_Returns(d, c) ==
  /\ pc[d][c] = "dedup" /\ Id(d, c) \in dedup
  /\ Goes(d, c, "ok")
  /\ UNCHANGED <<meta, dedup, stream, up, faults>>

\* Fault variant: a duplicate is answered with an error.
DropDuplicate_Rejects(d, c) ==
  /\ pc[d][c] = "dedup" /\ Id(d, c) \in dedup
  /\ Goes(d, c, "failed")
  /\ UNCHANGED <<meta, dedup, stream, up, faults>>

\* is_duplicate(): the key exists; the event is dropped as a redelivery.
DropDuplicate(d, c) ==
  /\ pc[d][c] = "dedup" /\ Id(d, c) \in dedup
  /\ \/ Advances(d, c) /\ UNCHANGED faults
     \/ ReplyLost(d, c)
  /\ UNCHANGED <<meta, dedup, stream, up>>

\* enqueue_event(): XADD.
Enqueue(d, c) ==
  /\ pc[d][c] = "publish"
  /\ stream' = Append(stream, Event(d, c))
  /\ \/ Advances(d, c) /\ UNCHANGED faults
     \/ ReplyLost(d, c)
  /\ UNCHANGED <<meta, dedup, up>>

\* Fault variant: the loop skips the event that failed.
Refused_Skips(d, c) ==
  /\ pc[d][c] \in {"dedup", "publish"}
  /\ Fault
  /\ Advances(d, c)
  /\ UNCHANGED <<meta, dedup, stream, up>>

\* Redis is unreachable or refuses the write: _ingest() raises.
Refused(d, c) ==
  /\ pc[d][c] \in {"dedup", "publish"}
  /\ Fault
  /\ Goes(d, c, "failed")
  /\ UNCHANGED <<meta, dedup, stream, up>>

\* The answer: 200, which ends Meta's retries if it arrives, or an error.
Answer(d, c) ==
  /\ pc[d][c] \in {"ok", "failed"}
  /\ pc' = [pc EXCEPT ![d][c] = "idle"] /\ at' = [at EXCEPT ![d][c] = 1]
  /\ \/ /\ meta' = IF pc[d][c] = "ok" THEN [meta EXCEPT ![d] = "acked"] ELSE meta
        /\ UNCHANGED faults
     \/ Fault /\ UNCHANGED meta
  /\ UNCHANGED <<dedup, stream, up>>

Step(d, c) ==
  \/ Claim(d, c) \/ DropDuplicate(d, c) \/ Enqueue(d, c)
  \/ Refused(d, c) \/ Answer(d, c)

-----------------------------------------------------------------------------
(* The process, Meta and Redis's clock *)

\* lifespan(): validate() and ensure_group() succeed.
Start == ~up /\ up' = TRUE /\ UNCHANGED <<meta, pc, at, dedup, stream, faults>>

\* The API dies with its requests; Docker restarts it.
Crash ==
  /\ up /\ Fault
  /\ up' = FALSE
  /\ pc' = [d \in Deliveries |-> [c \in Requests |-> "idle"]]
  /\ at' = [d \in Deliveries |-> [c \in Requests |-> 1]]
  /\ UNCHANGED <<meta, dedup, stream>>

\* Meta, which saw a 200, redelivers no more.
Close(d) ==
  /\ meta[d] = "acked" /\ \A c \in Requests : pc[d][c] = "idle"
  /\ meta' = [meta EXCEPT ![d] = "closed"]
  /\ UNCHANGED <<pc, at, dedup, stream, up, faults>>

\* Fault variant: keys do not outlast Meta's redelivery window.
KeyLapses_Early(id) ==
  /\ id \in dedup
  /\ dedup' = dedup \ {id}
  /\ UNCHANGED <<meta, pc, at, stream, up, faults>>

\* DEDUP_TTL_SECONDS: the key outlasts Meta's redelivery window.
KeyLapses(id) ==
  /\ id \in dedup
  /\ \A d \in Deliveries : id \in IdsIn(d) => meta[d] = "closed"
  /\ dedup' = dedup \ {id}
  /\ UNCHANGED <<meta, pc, at, stream, up, faults>>

Next ==
  \/ \E d \in Deliveries, c \in Requests : Receive(d, c) \/ Step(d, c)
  \/ \E d \in Deliveries : Close(d)
  \/ \E id \in Ids : KeyLapses(id)
  \/ Start \/ Crash

Spec == Init /\ [][Next]_vars

\* The event loop runs every request to its answer, Docker restarts the API,
\* and Meta keeps sending what it has no 200 for.
Fairness ==
  /\ WF_vars(Start)
  /\ \A d \in Deliveries, c \in Requests :
       WF_vars(Step(d, c)) /\ WF_vars(meta[d] = "open" /\ Receive(d, c))

FairSpec == Spec /\ Fairness

-----------------------------------------------------------------------------
(* Properties *)

\* The state has its types; a request that is at an event is within its payload,
\* and one that begins is at its first.
TypeOK ==
  /\ meta \in [Deliveries -> {"open", "acked", "closed"}]
  /\ pc \in [Deliveries -> [Requests -> PC]]
  /\ at \in [Deliveries -> [Requests -> Nat]]
  /\ dedup \subseteq Ids
  /\ stream \in Seq(Events)
  /\ up \in BOOLEAN
  /\ faults \in 0..MaxFaults
  /\ \A d \in Deliveries, c \in Requests :
       /\ pc[d][c] = "idle" => at[d][c] = 1
       /\ pc[d][c] \in {"dedup", "publish"} => at[d][c] \in 1..Len(Body[d])

\* An event of this id is in the stream, or a request is about to put one there.
Queued(id) == \E i \in 1..Len(stream) : IdOf[stream[i]] = id
Publishing(d, c, id) == pc[d][c] = "publish" /\ Id(d, c) = id
Coming(id) == \E d \in Deliveries, c \in Requests : Publishing(d, c, id)

\* ONE ENTRY PER MESSAGE.  However often and however concurrently Meta sends
\* a delivery, whatever crashes and fails, the stream gets at most one entry
\* for a message id (dedup.py:5-12) -- which is what the workers take for
\* granted of what they read with retry_count 0.
OncePerId ==
  \A i, j \in 1..Len(stream) : IdOf[stream[i]] = IdOf[stream[j]] => i = j

\* A 200 COVERS THE WHOLE PAYLOAD.  Meta is told 200 only when a key was
\* claimed for every event of the delivery, over all its attempts, failed
\* ones included (main.py:117-134).
AckedIsClaimed ==
  \A d \in Deliveries : meta[d] = "acked" => IdsIn(d) \subseteq dedup

\* A 200 MEANS STORED.  Meta is told 200 only for ids that are in the stream,
\* or that a request is just writing: the 503 is there to make Meta redeliver
\* what could not be stored (main.py:120-123).
AcceptedIsDurable ==
  \A d \in Deliveries : meta[d] # "open" =>
    \A id \in IdsIn(d) : Queued(id) \/ Coming(id)

\* LOSS HAS A CAUSE.  Concurrent redeliveries alone never make Meta see a 200
\* for an id that is neither in the stream nor about to be (main.py:143-153).
LossNeedsFault == faults = 0 => AcceptedIsDurable

\* EVERY DELIVERY IS ACCEPTED.  Whatever fails, no delivery is left in a state
\* in which redelivering it fails for ever, and no payload is one the API can
\* only answer with an error (main.py:117-126, normalizer.py:67-68).
AllAnswered == \A d \in Deliveries : <>(meta[d] # "open")

\* ONLY REDELIVERIES ARE DROPPED.  An event is counted as a duplicate only if
\* it was written before, or is just being written by another request.
OnlyRedeliveriesDropped ==
  [][\A d \in Deliveries, c \in Requests :
       DropDuplicate(d, c) =>
         \/ Event(d, c) \in Range(stream)
         \/ \E d2 \in Deliveries, c2 \in Requests :
              pc[d2][c2] = "publish" /\ Event(d2, c2) = Event(d, c)]_vars
=============================================================================
