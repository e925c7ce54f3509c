------------------------------ MODULE Pipeline ------------------------------
(***************************************************************************)
(* The whole service: the API of Ingest writes to the stream the workers   *)
(* of Delivery read from.  The two share the stream, one Redis client      *)
(* configuration and one budget of faults, and nothing else: each goes on  *)
(* while the other crashes, waits or restarts.                             *)
(***************************************************************************)
EXTENDS Delivery

CONSTANTS
  Deliveries,  \* as in Ingest, whose Ids are the Msgs of Delivery
  Requests,    \* requests of one delivery that may be in progress at once
  Events, IdOf, Body

VARIABLES meta, pc, at, dedup, published, up  \* as in Ingest

API == INSTANCE Ingest WITH
  Ids <- Msgs, Unreadable <- {}, stream <- published

ASSUME PipelineAssumption == API!IngestAssumption

apiVars == <<meta, pc, at, dedup, published, up>>
pipelineVars == <<vars, apiVars>>

PipelineInit == Init /\ API!Init

-----------------------------------------------------------------------------

\* What enqueue_event() does to the stream for an event of the API.
OnStream(m) == XAdd(m, 0)

\* The rest of the service while the API takes a step: what the API adds is in
\* the stream in the same step.
WorkersWait ==
  /\ IF published' = published
     THEN UNCHANGED <<log, present>>
     ELSE OnStream(IdOf[published'[Len(published')]])
  /\ UNCHANGED <<lastDelivered, pel, stale, claim, dlq,
                 received, confirmed, workerVars>>

Serve(d, c) == (API!Receive(d, c) \/ API!Step(d, c)) /\ WorkersWait

\* The API process starts or dies, Meta gives up, dedup keys lapse.
Around ==
  /\ \/ API!Start \/ API!Crash
     \/ \E d \in Deliveries : API!Close(d)
     \/ \E m \in Msgs : API!KeyLapses(m)
  /\ WorkersWait

\* The workers, and Redis's clock, while the API does nothing.
Deliver ==
  /\ \/ \E m \in Msgs : ClaimLapses(m) \/ MarkerLapses(m)
     \/ \E e \in EntryIds : GoStale(e)
     \/ \E w \in Workers, e \in EntryIds : HandlerStep(w, e)
     \/ \E w \in Workers : LoopStep(w) \/ RequestShutdown(w) \/ Crash(w)
  /\ UNCHANGED apiVars

PipelineNext ==
  \/ \E d \in Deliveries, c \in Requests : Serve(d, c)
  \/ Around \/ Deliver

\* The API's event loop, Docker and Meta, as in Ingest, next to the workers.
PipelineSpec ==
  /\ PipelineInit /\ [][PipelineNext]_pipelineVars
  /\ Fairness
  /\ WF_pipelineVars(API!Start /\ WorkersWait)
  /\ \A d \in Deliveries, c \in Requests :
       /\ WF_pipelineVars(API!Step(d, c) /\ WorkersWait)
       /\ WF_pipelineVars(meta[d] = "open" /\ API!Receive(d, c) /\ WorkersWait)

-----------------------------------------------------------------------------
(* Properties *)

\* The id has its dedup key, is not in the stream and never will be: a request
\* failed between the two (Ingest's AcceptedIsDurable).
Orphaned(id) == id \in dedup /\ ~API!Queued(id) /\ ~API!Coming(id)

\* NOTHING ACCEPTED IS DROPPED.  Once Meta is told 200, no message of the
\* delivery is left to nobody: it has reached its end, a worker will read or
\* reclaim an entry of it, or a request is just writing one -- unless it never
\* reached the stream at all, and that takes a fault (main.py:117-134, 143-153,
\* queue.py:8-18).
AcceptedIsKept ==
  \A d \in Deliveries, id \in Msgs :
    meta[d] # "open" /\ id \in API!IdsIn(d) =>
      \/ Settled(id) \/ Copies(id) # {} \/ API!Coming(id)
      \/ faults > 0 /\ ~API!Queued(id)

\* ACCEPTED MEANS DELIVERED.  Once Meta is told 200, every message of the
\* delivery reaches the downstream or the dead-letter stream, whatever crashes
\* on either side; the one exception is the id a failed request has orphaned
\* (main.py:117-134, queue.py:8-18).
AcceptedIsSettled ==
  \A d \in Deliveries, id \in Msgs :
    meta[d] = "acked" /\ id \in API!IdsIn(d) ~> Settled(id) \/ Orphaned(id)
=============================================================================
