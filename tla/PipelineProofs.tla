--------------------------- MODULE PipelineProofs ---------------------------
(***************************************************************************)
(* Proofs about Pipeline: what is known of the API and what is known of    *)
(* the workers carries over to the two together.                           *)
(***************************************************************************)
EXTENDS Pipeline, CopiesProofs

\* Ingest with the theorems about it; its operators are those of API.
Proved == INSTANCE IngestProofs WITH
  Ids <- Msgs, Unreadable <- {}, stream <- published

-----------------------------------------------------------------------------
(* The API *)

\* API and Proved name the same operators of a state.
LEMMA SameState ==
  /\ \A d : Proved!IdsIn(d) = API!IdsIn(d)
  /\ \A d, c : Proved!Id(d, c) = API!Id(d, c)
  /\ \A id : Proved!Queued(id) <=> API!Queued(id)
  /\ \A id : Proved!Coming(id) <=> API!Coming(id)
<1>1. \A d : Proved!IdsIn(d) = API!IdsIn(d)
  BY DEF Proved!IdsIn, API!IdsIn
<1>2. \A d, c : Proved!Id(d, c) = API!Id(d, c)
  BY DEF Proved!Id, API!Id, Proved!Event, API!Event
<1>3. \A id : Proved!Queued(id) <=> API!Queued(id)
  BY DEF Proved!Queued, API!Queued
<1>4. \A id : Proved!Coming(id) <=> API!Coming(id)
  BY <1>2 DEF Proved!Coming, API!Coming, Proved!Publishing, API!Publishing
<1> QED
  BY <1>1, <1>2, <1>3, <1>4

\* What the API does in a step of the service, Ingest allows.
LEMMA RequestAgrees ==
  ASSUME NEW d \in Deliveries, NEW c \in Requests,
         API!Receive(d, c) \/ API!Step(d, c)
  PROVE  Proved!Receive(d, c) \/ Proved!Step(d, c)
<1>1. CASE API!Receive(d, c)
  BY <1>1 DEF API!Receive, API!Goes, Proved!Receive, Proved!Goes
<1>2. CASE API!Step(d, c)
  BY <1>2, SameState
  DEF API!Step, API!Claim, API!DropDuplicate, API!Enqueue, API!Refused, API!Answer,
      API!Goes, API!Advances, API!ReplyLost, API!Fault, API!Event,
      Proved!Step, Proved!Claim, Proved!DropDuplicate, Proved!Enqueue, Proved!Refused,
      Proved!Answer, Proved!Goes, Proved!Advances, Proved!ReplyLost, Proved!Fault,
      Proved!Event
<1> QED
  BY <1>1, <1>2

LEMMA AroundAgrees ==
  ASSUME Around
  PROVE  Proved!Next
BY SameState
DEF Around, API!Start, API!Crash, API!Close, API!KeyLapses, API!Fault,
    Proved!Next, Proved!Start, Proved!Crash, Proved!Close, Proved!KeyLapses, Proved!Fault

\* A step of the API is one fault at most.
LEMMA ApiFaults ==
  ASSUME Proved!Next
  PROVE  faults' \in {faults, faults + 1}
BY DEF Proved!Next, Proved!Receive, Proved!Step, Proved!Claim, Proved!DropDuplicate,
       Proved!Enqueue, Proved!Refused, Proved!Answer, Proved!ReplyLost, Proved!Fault,
       Proved!Close, Proved!KeyLapses, Proved!Start, Proved!Crash

\* The rest of the service, while the API takes a step.
WorkersUnchanged ==
  UNCHANGED <<lastDelivered, pel, stale, claim, dlq, received, confirmed, workerVars>>

\* A request writes its event to the stream.
Writes(d, c) ==
  /\ pc[d][c] = "publish"
  /\ published' = Append(published, API!Event(d, c))
  /\ XAdd(API!Id(d, c), 0)

\* The steps of the service: one of the workers' that the API has no part in;
\* or one of the API's that leaves the stream alone, or writes one event to it.
LEMMA ServiceSteps ==
  ASSUME Proved!TypeOK, [PipelineNext]_pipelineVars
  PROVE  \/ (Deliver \/ UNCHANGED vars) /\ [Next]_vars /\ UNCHANGED apiVars
         \/ Proved!Next /\ WorkersUnchanged /\ UNCHANGED <<log, present, published>>
         \/ /\ Proved!Next /\ WorkersUnchanged
            /\ \E d \in Deliveries, c \in Requests : Writes(d, c)
<1>1. CASE Deliver
  BY <1>1 DEF Deliver, Next
<1>2. CASE UNCHANGED pipelineVars
  BY <1>2 DEF pipelineVars
<1>3. CASE Around
  <2>1. Proved!Next
    BY <1>3, AroundAgrees
  <2>2. UNCHANGED published
    BY <1>3 DEF Around, API!Start, API!Crash, API!Close, API!KeyLapses
  <2> QED
    BY <1>3, <2>1, <2>2 DEF Around, WorkersWait, WorkersUnchanged
<1>4. ASSUME NEW d \in Deliveries, NEW c \in Requests, Serve(d, c)
      PROVE  /\ Proved!Next /\ WorkersUnchanged
             /\ UNCHANGED <<log, present, published>> \/ Writes(d, c)
  <2>1. Proved!Next /\ WorkersUnchanged
    BY <1>4, RequestAgrees DEF Serve, Proved!Next, WorkersWait, WorkersUnchanged
  <2>2. CASE UNCHANGED published
    BY <1>4, <2>1, <2>2 DEF Serve, WorkersWait
  <2>3. CASE published' # published
    <3>1. /\ pc[d][c] = "publish"
          /\ published' = Append(published, API!Event(d, c))
      BY <1>4, <2>3 DEF Serve, API!Receive, API!Step, API!Claim, API!DropDuplicate,
                        API!Enqueue, API!Refused, API!Answer
    <3>2. API!Event(d, c) \in Events /\ published \in Seq(Events)
      BY <3>1, PipelineAssumption
      DEF API!IngestAssumption, API!Event, Proved!TypeOK
    <3>3. published'[Len(published')] = API!Event(d, c)
      BY <3>1, <3>2
    <3>4. XAdd(IdOf[published'[Len(published')]], 0)
      BY <1>4, <2>3 DEF Serve, WorkersWait, OnStream
    <3> QED
      BY <2>1, <3>1, <3>3, <3>4 DEF Writes, API!Id
  <2> QED
    BY <2>1, <2>2, <2>3
<1> QED
  BY <1>1, <1>2, <1>3, <1>4 DEF PipelineNext

\* What a request writes is an event of a known id.
LEMMA WrittenId ==
  ASSUME Proved!TypeOK, NEW d \in Deliveries, NEW c \in Requests, Writes(d, c)
  PROVE  /\ API!Event(d, c) \in Events /\ published \in Seq(Events)
         /\ API!Id(d, c) = IdOf[API!Event(d, c)] /\ API!Id(d, c) \in Msgs
BY PipelineAssumption
DEF API!IngestAssumption, API!Event, API!Id, Proved!TypeOK, Writes

\* What the API keeps of its own, it keeps while the workers go on.
AcceptanceKept == Proved!TypeOK /\ Proved!PassedClaimed /\ Proved!ClaimedIsStored

LEMMA AcceptanceCarriesOver ==
  ASSUME TypeOK, ReadInOrder, AcceptanceKept, [PipelineNext]_pipelineVars
  PROVE  AcceptanceKept'
<1>1. CASE [Next]_vars /\ UNCHANGED apiVars
  <2>1. /\ UNCHANGED <<meta, pc, at, dedup, published, up>>
        /\ faults' \in {faults, faults + 1} /\ faults \in Nat
        /\ faults' \in 0..MaxFaults
    BY <1>1, LogGrows, TypesInductive DEF apiVars, TypeOK
  <2>2. Proved!TypeOK'
    BY <2>1 DEF AcceptanceKept, Proved!TypeOK
  <2>3. /\ \A d : Proved!IdsIn(d)' = Proved!IdsIn(d)
        /\ \A d, c : Proved!Id(d, c)' = Proved!Id(d, c)
        /\ \A d, c : Proved!Passed(d, c)' = Proved!Passed(d, c)
        /\ \A id : Proved!Stored(id)' <=> Proved!Stored(id)
    BY <2>1 DEF Proved!IdsIn, Proved!Id, Proved!Event, Proved!Passed, Proved!Stored,
                Proved!Queued, Proved!Coming, Proved!Publishing
  <2>4. Proved!PassedClaimed'
    BY <2>1, <2>3 DEF AcceptanceKept, Proved!PassedClaimed, Proved!AckedIsClaimed
  <2>5. Proved!ClaimedIsStored'
    BY <2>1, <2>3 DEF AcceptanceKept, Proved!ClaimedIsStored, Proved!AcceptedIsDurable,
                      Proved!Stored
  <2> QED
    BY <2>2, <2>4, <2>5 DEF AcceptanceKept
<1>2. CASE Proved!Next
  BY <1>2, PipelineAssumption, Proved!AcceptanceInductive
  DEF API!IngestAssumption, AcceptanceKept
<1> QED
  BY <1>1, <1>2, ServiceSteps DEF AcceptanceKept

-----------------------------------------------------------------------------
(* The stream *)

\* Whoever takes a step, the types hold after it.
LEMMA ServiceTypes ==
  ASSUME TypeOK, ReadInOrder, AcceptanceKept, [PipelineNext]_pipelineVars
  PROVE  TypeOK' /\ ReadInOrder'
<1>1. faults' \in 0..MaxFaults
  BY AcceptanceCarriesOver DEF AcceptanceKept, Proved!TypeOK
<1>2. CASE [Next]_vars
  BY <1>2, TypesInductive
<1>3. CASE WorkersUnchanged /\ UNCHANGED <<log, present>>
  BY <1>1, <1>3 DEF WorkersUnchanged, workerVars, TypeOK, ReadInOrder
<1>4. ASSUME NEW d \in Deliveries, NEW c \in Requests, Writes(d, c), WorkersUnchanged
      PROVE  TypeOK' /\ ReadInOrder'
  BY <1>1, <1>4, WrittenId, PublishTypes DEF AcceptanceKept, Writes, WorkersUnchanged
<1> QED
  BY <1>2, <1>3, <1>4, ServiceSteps DEF AcceptanceKept

\* The stream holds entries of exactly the ids the API wrote.
InStream(id) == \E e \in 1..Len(log) : Msg(e) = id
SameMessages == \A id \in Msgs : API!Queued(id) <=> InStream(id)

\* The workers write only what was in the stream before.
LEMMA WorkersAddNoMessage ==
  ASSUME TypeOK, ReadInOrder, Deliver \/ UNCHANGED vars, [Next]_vars, NEW id \in Msgs
  PROVE  InStream(id)' <=> InStream(id)
<1>1. /\ Len(log) \in Nat /\ Len(log') \in Nat /\ Len(log) <= Len(log')
      /\ \A i \in 1..Len(log) : log'[i] = log[i]
  BY LogGrows
<1>2. InStream(id) => InStream(id)'
  BY <1>1 DEF InStream, Msg
<1>3. CASE UNCHANGED log
  BY <1>3 DEF InStream, Msg
<1>4. ASSUME NEW w \in Workers, NEW e \in EntryIds, Requeue(w, e), InStream(id)'
      PROVE  InStream(id)
  <2>1. e \in 1..Len(log) /\ handler[w][e] = "requeue"
    <3>1. handler[w][e] = "requeue"
      BY <1>4 DEF Requeue
    <3>2. e <= lastDelivered /\ lastDelivered <= Len(log)
      BY <3>1 DEF ReadInOrder
    <3> QED
      BY <3>1, <3>2, <1>1, DeliveryAssumption DEF TypeOK, EntryIds, DeliveryAssumption
  <2>2. log' = Append(log, [msg |-> Msg(e), rc |-> log[e].rc + 1]) /\ log \in Seq(Entry)
    BY <1>4 DEF Requeue, XAdd, TypeOK
  <2>3. PICK f \in 1..Len(log') : log'[f].msg = id
    BY <1>4 DEF InStream, Msg
  <2>4. CASE f \in 1..Len(log)
    BY <1>1, <2>3, <2>4 DEF InStream, Msg
  <2>5. CASE f \notin 1..Len(log)
    <3>1. f = Len(log) + 1
      BY <1>1, <2>2, <2>5
    <3>2. log'[f].msg = Msg(e)
      BY <2>2, <3>1
    <3> QED
      BY <2>1, <2>3, <3>2 DEF InStream
  <2> QED
    BY <2>4, <2>5
<1>5. UNCHANGED log \/ \E w \in Workers, e \in EntryIds : Requeue(w, e)
  <2>1. CASE \E w \in Workers, e \in EntryIds : HandlerStep(w, e)
    BY <2>1, HandlerStepEffect
  <2> QED
    BY <2>1 DEF Deliver, ClaimLapses, MarkerLapses, GoStale, LoopStep, Start, Sweep, ReadNew,
                EndBatch, Stop, RequestShutdown, Crash, vars, redisVars
<1> QED
  BY <1>2, <1>3, <1>4, <1>5

LEMMA MessagesInductive ==
  ASSUME TypeOK, ReadInOrder, AcceptanceKept, SameMessages, [PipelineNext]_pipelineVars
  PROVE  SameMessages'
<1> SUFFICES ASSUME NEW id \in Msgs PROVE (API!Queued(id) <=> InStream(id))'
  BY DEF SameMessages
<1>0. API!Queued(id) <=> InStream(id)
  BY DEF SameMessages
<1>1. CASE (Deliver \/ UNCHANGED vars) /\ [Next]_vars /\ UNCHANGED apiVars
  <2>1. API!Queued(id)' <=> API!Queued(id)
    BY <1>1 DEF API!Queued, apiVars
  <2> QED
    BY <1>0, <1>1, <2>1, WorkersAddNoMessage
<1>2. CASE UNCHANGED <<log, published>>
  BY <1>0, <1>2 DEF API!Queued, InStream, Msg
<1>3. ASSUME NEW d \in Deliveries, NEW c \in Requests, Writes(d, c)
      PROVE  (API!Queued(id) <=> InStream(id))'
  <2> DEFINE m == API!Id(d, c)
  <2>1. /\ API!Event(d, c) \in Events /\ published \in Seq(Events)
        /\ m = IdOf[API!Event(d, c)] /\ m \in Msgs
    BY <1>3, WrittenId DEF AcceptanceKept
  <2>2. published' = Append(published, API!Event(d, c)) /\ XAdd(m, 0)
    BY <1>3 DEF Writes
  <2> HIDE DEF m
  <2>3. API!Queued(id)' <=> API!Queued(id) \/ id = m
    <3>1. /\ Len(published) \in Nat /\ Len(published') = Len(published) + 1
          /\ \A i \in 1..Len(published) : published'[i] = published[i]
          /\ published'[Len(published) + 1] = API!Event(d, c)
      BY <2>1, <2>2
    <3> QED
      BY <2>1, <3>1 DEF API!Queued
  <2>4. InStream(id)' <=> InStream(id) \/ id = m
    <3>1. 0 \in 0..MaxRetries
      BY DeliveryAssumption DEF DeliveryAssumption
    <3>2. /\ Len(log') = Len(log) + 1
          /\ \A i \in 1..Len(log) : log'[i] = log[i]
          /\ log'[Len(log) + 1] = [msg |-> m, rc |-> 0]
      BY <2>1, <2>2, <3>1, XAddAppends
    <3>3. Len(log) \in Nat /\ log'[Len(log) + 1].msg = m
      BY <3>2 DEF TypeOK
    <3> QED
      BY <3>2, <3>3 DEF InStream, Msg
  <2> QED
    BY <1>0, <2>3, <2>4
<1> QED
  BY <1>1, <1>2, <1>3, ServiceSteps DEF AcceptanceKept

\* What holds of the service in every state, whatever is assumed of it.
ServiceKept == TypeOK /\ ReadInOrder /\ AcceptanceKept /\ SameMessages

LEMMA ServiceInductive ==
  /\ PipelineInit => ServiceKept
  /\ ServiceKept /\ [PipelineNext]_pipelineVars => ServiceKept'
<1>1. PipelineInit => ServiceKept
  <2> SUFFICES ASSUME PipelineInit PROVE ServiceKept
    OBVIOUS
  <2>1. TypeOK /\ ReadInOrder
    BY TypesInductive DEF PipelineInit
  <2>2. Proved!Init
    BY DEF PipelineInit, API!Init, Proved!Init
  <2>3. AcceptanceKept
    BY <2>2, PipelineAssumption, Proved!AcceptanceInductive
    DEF API!IngestAssumption, AcceptanceKept
  <2>4. SameMessages
    <3>1. Len(log) = 0 /\ Len(published) = 0
      BY DEF PipelineInit, Init, API!Init
    <3> QED
      BY <3>1 DEF SameMessages, API!Queued, InStream
  <2> QED
    BY <2>1, <2>3, <2>4 DEF ServiceKept
<1>2. ServiceKept /\ [PipelineNext]_pipelineVars => ServiceKept'
  BY ServiceTypes, AcceptanceCarriesOver, MessagesInductive DEF ServiceKept
<1> QED
  BY <1>1, <1>2

-----------------------------------------------------------------------------
(* Nothing accepted is dropped *)

\* A write of the API is live until a worker reads it.
LEMMA ServiceNoLoss ==
  ASSUME ServiceKept, NoLossInv, [PipelineNext]_pipelineVars, ~Trims,
         Unconfigured = {}
  PROVE  NoLossInv'
<1> USE DEF ServiceKept
<1>1. CASE [Next]_vars
  BY <1>1, NoLossInductive
<1>2. CASE WorkersUnchanged /\ UNCHANGED <<log, present>>
  BY <1>2 DEF WorkersUnchanged, workerVars, NoLossInv, PendingPresent, DoneIsReceived,
              NoLoss, Grounded, Settled, Copies, Live, Msg
<1>3. ASSUME NEW d \in Deliveries, NEW c \in Requests, Writes(d, c), WorkersUnchanged
      PROVE  NoLossInv'
  BY <1>3, WrittenId, PublishNoLoss DEF AcceptanceKept, Writes, WorkersUnchanged, workerVars
<1> QED
  BY <1>1, <1>2, <1>3, ServiceSteps DEF AcceptanceKept

\* A 200 covers ids that the API has written, is writing, or has lost to a
\* fault; those it has written the workers do not drop.
LEMMA KeptIsKept ==
  ASSUME ServiceKept, NoLossInv
  PROVE  AcceptedIsKept
<1> SUFFICES ASSUME NEW d \in Deliveries, NEW id \in Msgs,
                    meta[d] # "open", id \in API!IdsIn(d)
             PROVE  \/ Settled(id) \/ Copies(id) # {} \/ API!Coming(id)
                    \/ faults > 0 /\ ~API!Queued(id)
  BY DEF AcceptedIsKept
<1>1. CASE API!Queued(id)
  <2>1. PICK e \in 1..Len(log) : Msg(e) = id
    BY <1>1 DEF ServiceKept, SameMessages, InStream
  <2> QED
    BY <2>1 DEF NoLossInv, NoLoss
<1>2. CASE ~API!Queued(id) /\ faults = 0
  BY <1>2, SameState
  DEF ServiceKept, AcceptanceKept, Proved!ClaimedIsStored, Proved!AcceptedIsDurable
<1>3. faults \in Nat
  BY DEF ServiceKept, TypeOK
<1> QED
  BY <1>1, <1>2, <1>3

\* For any deliveries, requests, workers, crashes and failures on either side,
\* and whatever the timing of claims, reclaims and keys: as long as XADD drops
\* no entry and every worker has a downstream, a message that Meta was told 200
\* for has reached its end, has an entry a worker will read or reclaim, or is
\* just being written -- or a fault kept it from the stream.
THEOREM AcceptedNeverDropped ==
  ASSUME Unconfigured = {}
  PROVE  PipelineSpec /\ [][~Trims]_vars => []AcceptedIsKept
<1>1. PipelineInit => ServiceKept /\ NoLossInv
  <2>1. PipelineInit => NoLossInv
    BY DEF PipelineInit, Init, NoLossInv, PendingPresent, DoneIsReceived, NoLoss, Grounded
  <2> QED
    BY <2>1, ServiceInductive
<1>2. ServiceKept /\ NoLossInv /\ [PipelineNext]_pipelineVars /\ [~Trims]_vars
        => (ServiceKept /\ NoLossInv)'
  <2> SUFFICES ASSUME ServiceKept, NoLossInv, [PipelineNext]_pipelineVars, [~Trims]_vars
               PROVE  ServiceKept' /\ NoLossInv'
    OBVIOUS
  <2>1. ~Trims
    BY DEF Trims, vars, redisVars
  <2> QED
    BY <2>1, ServiceInductive, ServiceNoLoss
<1>3. ServiceKept /\ NoLossInv => AcceptedIsKept
  BY KeptIsKept
<1> QED
  BY <1>1, <1>2, <1>3, PTL DEF PipelineSpec

-----------------------------------------------------------------------------
(* The service keeps the promise *)

\* A write of the API starts no handler.
LEMMA ServiceExclusive ==
  ASSUME ServiceKept, Exclusive, [PipelineNext]_pipelineVars, ~Trims, Timely, ~Resend
  PROVE  Exclusive'
<1> USE DEF ServiceKept
<1>1. CASE [Next]_vars
  BY <1>1, ExclusiveInductive, TimelySteps, InTimeSteps
<1>2. CASE WorkersUnchanged /\ UNCHANGED <<log, present>>
  BY <1>2, OnlyEndings DEF WorkersUnchanged, workerVars
<1>3. ASSUME NEW d \in Deliveries, NEW c \in Requests, Writes(d, c), WorkersUnchanged
      PROVE  Exclusive'
  BY <1>3, WrittenId, PublishExclusive
  DEF AcceptanceKept, Writes, WorkersUnchanged, workerVars
<1> QED
  BY <1>1, <1>2, <1>3, ServiceSteps DEF AcceptanceKept

LEMMA ServiceKeepsPromise ==
  ASSUME ServiceKept, Exclusive, NoLossInv', [PipelineNext]_pipelineVars, ~Trims, ~Resend
  PROVE  [Promise!Next]_(Promise!promiseVars)
<1> USE DEF ServiceKept
<1>1. CASE [Next]_vars
  BY <1>1, StepKeepsPromise
<1>2. CASE WorkersUnchanged /\ UNCHANGED <<log, present>>
  <2>1. Owed' = Owed
    BY <1>2, OwedStays DEF WorkersUnchanged, Live
  <2> QED
    BY <1>2, <2>1 DEF WorkersUnchanged, Promise!promiseVars
<1>3. ASSUME NEW d \in Deliveries, NEW c \in Requests, Writes(d, c), WorkersUnchanged
      PROVE  [Promise!Next]_(Promise!promiseVars)
  BY <1>3, WrittenId, PublishKeepsPromise DEF AcceptanceKept, Writes, WorkersUnchanged
<1> QED
  BY <1>1, <1>2, <1>3, ServiceSteps DEF AcceptanceKept

\* The service implements AtLeastOnce step by step, the API being the one that
\* makes events owed: under what DeliveryImplementsPromise assumes, but with the
\* API's own requests, crashes and faults in the place of Delivery's Publish.
THEOREM PipelineImplementsPromise ==
  ASSUME Timely, ~Resend, Unconfigured = {}
  PROVE  PipelineSpec /\ [][~Trims]_vars
           => Promise!Init /\ [][Promise!Next]_(Promise!promiseVars)
<1> DEFINE Inv == ServiceKept /\ Exclusive /\ NoLossInv
<1>1. PipelineInit => Inv /\ Promise!Init
  <2> SUFFICES ASSUME PipelineInit PROVE Inv /\ Promise!Init
    OBVIOUS
  <2>1. /\ log = << >> /\ 1..Len(log) = {} /\ pel = {} /\ dlq = {} /\ received = {}
        /\ \A w \in Workers, e \in EntryIds : handler[w][e] = "idle"
    BY DEF PipelineInit, Init
  <2>2. Exclusive
    BY <2>1 DEF Exclusive, PendingPresent
  <2>3. NoLossInv
    BY DEF PipelineInit, Init, NoLossInv, PendingPresent, DoneIsReceived, NoLoss, Grounded
  <2>4. Owed = {}
    BY <2>1 DEF Owed, Copies
  <2> QED
    BY <2>1, <2>2, <2>3, <2>4, ServiceInductive DEF Promise!Init
<1>2. Inv /\ [PipelineNext]_pipelineVars /\ [~Trims]_vars
        => Inv' /\ [Promise!Next]_(Promise!promiseVars)
  <2> SUFFICES ASSUME Inv, [PipelineNext]_pipelineVars, [~Trims]_vars
               PROVE  Inv' /\ [Promise!Next]_(Promise!promiseVars)
    OBVIOUS
  <2>1. ~Trims
    BY DEF Trims, vars, redisVars
  <2>2. ServiceKept' /\ Exclusive' /\ NoLossInv'
    BY <2>1, ServiceInductive, ServiceExclusive, ServiceNoLoss
  <2> QED
    BY <2>1, <2>2, ServiceKeepsPromise
<1> HIDE DEF Inv
<1> QED
  BY <1>1, <1>2, PTL DEF PipelineSpec

-----------------------------------------------------------------------------
(* The API publishes each message once *)

\* The workers leave the API's keys alone.
LEMMA ServiceKeys ==
  ASSUME ServiceKept, Proved!KeysHeld, [PipelineNext]_pipelineVars
  PROVE  Proved!KeysHeld'
<1>1. CASE [Next]_vars /\ UNCHANGED apiVars
  <2>1. UNCHANGED <<meta, pc, at, dedup, published>>
    BY <1>1 DEF apiVars
  <2>2. /\ \A d : Proved!IdsIn(d)' = Proved!IdsIn(d)
        /\ \A d, c : Proved!Id(d, c)' = Proved!Id(d, c)
        /\ \A id : Proved!Queued(id)' <=> Proved!Queued(id)
        /\ Proved!OncePerId' <=> Proved!OncePerId
    BY <2>1 DEF Proved!IdsIn, Proved!Id, Proved!Event, Proved!Queued, Proved!OncePerId
  <2>3. \A id : Proved!Spent(id)' <=> Proved!Spent(id)
    BY <2>1, <2>2 DEF Proved!Spent
  <2>4. Proved!NothingResent' => Proved!NothingResent
    <3>1. faults \in Nat /\ faults' \in {faults, faults + 1}
      BY <1>1, LogGrows DEF ServiceKept
    <3> QED
      BY <3>1 DEF Proved!NothingResent
  <2> QED
    BY <2>1, <2>2, <2>3, <2>4 DEF Proved!KeysHeld
<1>2. CASE Proved!Next
  BY <1>2, PipelineAssumption, Proved!OnceInductive
  DEF API!IngestAssumption, ServiceKept, AcceptanceKept
<1> QED
  BY <1>1, <1>2, ServiceSteps DEF ServiceKept, AcceptanceKept

\* What a request writes is of a message that was never in the stream, unless
\* it sends an XADD again that it had no reply to.
LEMMA WritesAreFresh ==
  ASSUME ServiceKept, Proved!KeysHeld, Resend => faults = 0,
         NEW d \in Deliveries, NEW c \in Requests, Writes(d, c)
  PROVE  \A e \in 1..Len(log) : Msg(e) # API!Id(d, c)
<1>1. API!Id(d, c) \in Msgs
  BY WrittenId DEF ServiceKept, AcceptanceKept
<1>2. ~API!Queued(API!Id(d, c))
  BY SameState DEF Proved!KeysHeld, Proved!NothingResent, Writes
<1> QED
  BY <1>1, <1>2 DEF ServiceKept, SameMessages, InStream

\* What Delivery takes on trust of the API, the dedup keys provide: it writes
\* only messages that are not in the stream and never were, for any deliveries
\* and requests, and however the workers and the faults of both sides interleave
\* with them (dedup.py:5-12, queue.py:51-65).
PublishedOnce ==
  [][\A d \in Deliveries, c \in Requests :
       Writes(d, c) => \A e \in 1..Len(log) : Msg(e) # API!Id(d, c)]_pipelineVars

THEOREM KeysKeepPublish ==
  ASSUME ~Resend
  PROVE  PipelineSpec => PublishedOnce
<1>1. PipelineInit => ServiceKept /\ Proved!KeysHeld
  <2>1. PipelineInit => Proved!Init
    BY DEF PipelineInit, API!Init, Proved!Init
  <2> QED
    BY <2>1, PipelineAssumption, Proved!OnceInductive, ServiceInductive
    DEF API!IngestAssumption
<1>2. ServiceKept /\ Proved!KeysHeld /\ [PipelineNext]_pipelineVars
        => (ServiceKept /\ Proved!KeysHeld)'
  BY ServiceInductive, ServiceKeys
<1>3. ServiceKept /\ Proved!KeysHeld =>
        \A d \in Deliveries, c \in Requests :
          Writes(d, c) => \A e \in 1..Len(log) : Msg(e) # API!Id(d, c)
  BY WritesAreFresh
<1> QED
  BY <1>1, <1>2, <1>3, PTL DEF PipelineSpec, PublishedOnce

-----------------------------------------------------------------------------
(* Confirmed is final, from the webhook on *)

LEMMA ServiceClaims ==
  ASSUME ServiceKept, ClaimHeld, [PipelineNext]_pipelineVars, Timely, ~Resend
  PROVE  ClaimHeld'
<1> USE DEF ServiceKept
<1>1. CASE [Next]_vars
  BY <1>1, ClaimsSurvive, TimelySteps, InTimeSteps
<1>2. CASE WorkersUnchanged /\ UNCHANGED <<log, present>>
  <2>1. UNCHANGED <<log, claim, handler>>
    BY <1>2 DEF WorkersUnchanged, workerVars
  <2> QED
    BY <2>1, HoldersRemain DEF Holds
<1>3. ASSUME NEW d \in Deliveries, NEW c \in Requests, Writes(d, c), WorkersUnchanged
      PROVE  ClaimHeld'
  BY <1>3, WrittenId, ServiceTypes, PublishClaims
  DEF AcceptanceKept, Writes, WorkersUnchanged, workerVars
<1> QED
  BY <1>1, <1>2, <1>3, ServiceSteps DEF AcceptanceKept

LEMMA ServiceFinal ==
  ASSUME ServiceKept, Proved!KeysHeld, Exclusive, ClaimHeld, ConfirmedIsFinal,
         [PipelineNext]_pipelineVars, Timely, ~Resend
  PROVE  ConfirmedIsFinal'
<1>1. CASE [Next]_vars
  BY <1>1, FinalInductive, TimelySteps DEF ServiceKept
<1>2. CASE WorkersUnchanged /\ UNCHANGED <<log, present>>
  BY <1>2 DEF WorkersUnchanged, workerVars, ConfirmedIsFinal, Final, Held, Holds, Copies,
              Live, Msg
<1>3. ASSUME NEW d \in Deliveries, NEW c \in Requests, Writes(d, c), WorkersUnchanged
      PROVE  ConfirmedIsFinal'
  <2>1. API!Id(d, c) \in Msgs /\ \A e \in 1..Len(log) : Msg(e) # API!Id(d, c)
    BY <1>3, WrittenId, WritesAreFresh DEF ServiceKept, AcceptanceKept
  <2> QED
    BY <1>3, <2>1, PublishFinal DEF ServiceKept, Writes, WorkersUnchanged, workerVars
<1> QED
  BY <1>1, <1>2, <1>3, ServiceSteps DEF ServiceKept, AcceptanceKept

\* Once complete_delivery() has recorded a message, it is not sent again -- not
\* by a worker that retries or reclaims, and not because Meta, which may send
\* its delivery any number of times, gets another entry of it into the stream
\* (queue.py:181-183, dedup.py:5-12).
THEOREM ConfirmedIsNeverRepublished ==
  ASSUME Timely, ~Resend
  PROVE  PipelineSpec /\ [][~Trims]_vars => NoSendAfterConfirmed
<1> DEFINE Inv == /\ ServiceKept /\ Proved!KeysHeld /\ Exclusive /\ ClaimHeld
                  /\ ConfirmedIsFinal
<1>1. PipelineInit => Inv
  <2> SUFFICES ASSUME PipelineInit PROVE Inv
    OBVIOUS
  <2>1. ServiceKept /\ Proved!KeysHeld
    <3>1. Proved!Init
      BY DEF PipelineInit, API!Init, Proved!Init
    <3> QED
      BY <3>1, PipelineAssumption, Proved!OnceInductive, ServiceInductive
      DEF API!IngestAssumption
  <2>2. /\ log = << >> /\ 1..Len(log) = {} /\ confirmed = {} /\ pel = {}
        /\ \A w \in Workers, e \in EntryIds : handler[w][e] = "idle"
    BY DEF PipelineInit, Init
  <2>3. Exclusive
    BY <2>2 DEF Exclusive, PendingPresent
  <2>4. ClaimHeld /\ ConfirmedIsFinal
    BY <2>2 DEF ClaimHeld, OneAttempt, ConfirmedIsFinal
  <2> QED
    BY <2>1, <2>3, <2>4
<1>2. Inv /\ [PipelineNext]_pipelineVars /\ [~Trims]_vars => Inv'
  <2> SUFFICES ASSUME Inv, [PipelineNext]_pipelineVars, [~Trims]_vars PROVE Inv'
    OBVIOUS
  <2>1. ~Trims
    BY DEF Trims, vars, redisVars
  <2>2. ServiceKept' /\ Proved!KeysHeld'
    BY ServiceInductive, ServiceKeys
  <2>3. Exclusive' /\ ClaimHeld' /\ ConfirmedIsFinal'
    BY <2>1, ServiceExclusive, ServiceClaims, ServiceFinal
  <2> QED
    BY <2>2, <2>3
<1>3. Inv => [\A w \in Workers, e \in EntryIds : Lands(w, e) => Msg(e) \notin confirmed]_vars
  BY FinalIsNotSent DEF ServiceKept
<1> HIDE DEF Inv
<1> QED
  BY <1>1, <1>2, <1>3, PTL DEF PipelineSpec, NoSendAfterConfirmed

-----------------------------------------------------------------------------
(* Copies and duplicates, from the webhook on *)

\* A request about to write has room for its entry: within the bound for the
\* unfinished entries of its message there is one to spare.
Room == \A m \in Msgs : API!Coming(m) => Cardinality(Todo(m)) + 1 <= 2^faults

\* What R has beyond S is at most what T has.
LEMMA NoMoreThanBoth ==
  ASSUME NEW S, IsFiniteSet(S), NEW T, IsFiniteSet(T), NEW R \in SUBSET (S \union T)
  PROVE  Cardinality(R) <= Cardinality(S) + Cardinality(T)
<1>1. /\ IsFiniteSet(S \union T)
      /\ Cardinality(S \union T) = Cardinality(S) + Cardinality(T) - Cardinality(S \intersect T)
  BY FS_Union
<1>2. /\ Cardinality(S) \in Nat /\ Cardinality(T) \in Nat
      /\ Cardinality(S \intersect T) \in Nat
  BY FS_CardinalityType, FS_Intersection
<1>3. Cardinality(R) <= Cardinality(S \union T) /\ Cardinality(R) \in Nat
  BY <1>1, FS_Subset, FS_CardinalityType
<1> QED
  BY <1>1, <1>2, <1>3

\* A step of the workers makes more of a message unfinished only in a fault, and
\* then no more than there might have been.
LEMMA WorkersAddLittle ==
  ASSUME TypeOK, ReadInOrder, OneHandler, Bounded, Deliver \/ UNCHANGED vars,
         NEW m \in Msgs
  PROVE  \/ Cardinality(Todo(m)') <= Cardinality(Todo(m))
         \/ /\ faults' = faults + 1
            /\ Cardinality(Todo(m)') <= Cardinality(Todo(m)) + 2^faults
<1> DEFINE Goal == \/ Cardinality(Todo(m)') <= Cardinality(Todo(m))
                   \/ /\ faults' = faults + 1
                      /\ Cardinality(Todo(m)') <= Cardinality(Todo(m)) + 2^faults
<1>1. faults \in Nat /\ IsFiniteSet(Todo(m)) /\ Cardinality(Todo(m)) \in Nat
  BY WorkIsFinite, FS_CardinalityType, DeliveryAssumption DEF TypeOK, DeliveryAssumption
<1>2. CASE Todo(m)' \subseteq Todo(m)
  BY <1>1, <1>2, FS_Subset
<1>3. ASSUME faults' = faults + 1, NEW T, IsFiniteSet(T), Cardinality(T) <= 2^faults,
             Todo(m)' \subseteq Todo(m) \union T
      PROVE  Goal
  <2>1. Cardinality(Todo(m)') <= Cardinality(Todo(m)) + Cardinality(T)
    BY <1>1, <1>3, NoMoreThanBoth
  <2>2. /\ Cardinality(T) \in Nat /\ 2^faults \in Nat
        /\ IsFiniteSet(Todo(m)') /\ Cardinality(Todo(m)') \in Nat
    BY <1>1, <1>3, FS_CardinalityType, FS_Union, FS_Subset, PowersPositive
  <2> QED
    BY <1>1, <1>3, <2>1, <2>2
<1>4. ASSUME NEW x, faults' = faults + 1, Todo(m)' \subseteq Todo(m) \union {x}
      PROVE  Goal
  <2>1. IsFiniteSet({x}) /\ Cardinality({x}) = 1 /\ 1 <= 2^faults
    BY <1>1, FS_Singleton, PowersPositive
  <2>2. Cardinality({x}) <= 2^faults
    BY <2>1
  <2> QED
    BY <1>3, <1>4, <2>1, <2>2
<1>5. ASSUME NEW w \in Workers, NEW e \in EntryIds, Requeue(w, e)
      PROVE  Goal
  <2>1. PICK new :
          \/ Todo(m)' \subseteq Todo(m)
          \/ m = Msg(e) /\ Todo(m)' \subseteq Todo(m) \union {new}
    BY <1>5, RequeueWork
  <2>2. CASE Todo(m)' \subseteq Todo(m)
    BY <1>2, <2>2
  <2>3. CASE faults' = faults + 1
    BY <1>2, <1>4, <2>1, <2>3
  <2>4. CASE m = Msg(e) /\ Todo(m)' \subseteq Todo(m) \union {new} /\ e \notin Todo(m)'
    <3>1. e \in Todo(m)
      BY <1>5, <2>4, RequeueWork
    <3>2. PICK S : S = (Todo(m) \ {e}) \union {new}
      OBVIOUS
    <3>3. /\ IsFiniteSet(Todo(m) \ {e})
          /\ Cardinality(Todo(m) \ {e}) = Cardinality(Todo(m)) - 1
      BY <1>1, <3>1, FS_RemoveElement
    <3>4. /\ IsFiniteSet(S)
          /\ \/ Cardinality(S) = Cardinality(Todo(m) \ {e})
             \/ Cardinality(S) = Cardinality(Todo(m) \ {e}) + 1
      BY <3>2, <3>3, FS_AddElement
    <3>5. Todo(m)' \subseteq S
      BY <2>4, <3>2
    <3>6. Cardinality(Todo(m)') <= Cardinality(S) /\ Cardinality(Todo(m)') \in Nat
      BY <3>4, <3>5, FS_Subset, FS_CardinalityType
    <3> QED
      BY <1>1, <3>3, <3>4, <3>6
  <2> QED
    BY <1>5, <2>1, <2>2, <2>3, <2>4, RequeueWork
<1>6. ASSUME NEW w \in Workers, NEW e \in EntryIds, HandlerStep(w, e), ~Requeue(w, e)
      PROVE  Goal
  BY <1>2, <1>4, <1>6, HandlerStepWork
<1>7. ASSUME NEW w \in Workers, LoopStep(w)
      PROVE  Goal
  BY <1>2, <1>7, LoopStepWork
<1>8. ASSUME NEW w \in Workers, Crash(w)
      PROVE  Goal
  <2>1. Todo(m)' \subseteq Todo(m) \union Batch(w, m) /\ faults' = faults + 1
    BY <1>8, CrashReturns
  <2>2. IsFiniteSet(Batch(w, m)) /\ Cardinality(Batch(w, m)) <= 2^faults
    BY WorkIsFinite DEF Bounded
  <2> QED
    BY <1>3, <2>1, <2>2
<1>9. ASSUME UNCHANGED <<log, pel, present, lastDelivered, handler>>
      PROVE  Goal
  <2>1. Todo(m)' = Todo(m)
    BY <1>9 DEF Todo, Unfinished, Msg
  <2> QED
    BY <1>2, <2>1
<1>10. CASE \/ \E k \in Msgs : ClaimLapses(k) \/ MarkerLapses(k)
            \/ \E e \in EntryIds : GoStale(e)
            \/ \E w \in Workers : RequestShutdown(w)
            \/ UNCHANGED vars
  BY <1>9, <1>10 DEF ClaimLapses, MarkerLapses, GoStale, RequestShutdown,
                     vars, redisVars, workerVars
<1> QED
  BY <1>5, <1>6, <1>7, <1>8, <1>10 DEF Deliver

\* A step that leaves the workers alone leaves their handlers as they were.
LEMMA WaitingOneHandler ==
  ASSUME OneHandler, WorkersUnchanged
  PROVE  OneHandler'
BY DEF WorkersUnchanged, workerVars, OneHandler, NoHandler

\* The bound of the next state is no less, and twice as much after a fault.
LEMMA BoundGrows ==
  ASSUME NEW n \in Nat, NEW k \in {n, n + 1}
  PROVE  /\ 2^n \in Nat /\ 2^k \in Nat /\ 1 <= 2^n /\ 2^n <= 2^k
         /\ k = n + 1 => 2^k = 2^n + 2^n
<1>1. 2^n \in Nat /\ 1 <= 2^n /\ 2^(n + 1) = 2^n + 2^n
  BY PowersPositive, PowersDouble
<1>2. CASE k = n
  <2>1. 2^k = 2^n /\ k # n + 1
    BY <1>2
  <2> QED
    BY <1>1, <2>1
<1>3. CASE k = n + 1
  <2>1. 2^k = 2^(n + 1)
    BY <1>3
  <2> QED
    BY <1>1, <2>1
<1> QED
  BY <1>2, <1>3

\* The workers take the room of a request only in a fault, which makes as much.
LEMMA WorkersLeaveRoom ==
  ASSUME TypeOK, ReadInOrder, OneHandler, Bounded, Room,
         Deliver \/ UNCHANGED vars, [Next]_vars, UNCHANGED apiVars
  PROVE  Room'
<1> SUFFICES ASSUME NEW m \in Msgs, API!Coming(m)'
             PROVE  Cardinality(Todo(m)') + 1 <= 2^(faults')
  BY DEF Room
<1>1. faults \in Nat /\ faults' \in {faults, faults + 1}
  BY LogGrows
<1>2. API!Coming(m)
  BY DEF API!Coming, API!Publishing, API!Id, API!Event, apiVars
<1>3. Cardinality(Todo(m)) + 1 <= 2^faults
  BY <1>2 DEF Room
<1>4. Cardinality(Todo(m)) \in Nat /\ Cardinality(Todo(m)') \in Nat
  <2>1. Len(log') \in Int
    BY LogGrows
  <2>2. IsFiniteSet(1..Len(log')) /\ Todo(m)' \in SUBSET (1..Len(log'))
    BY <2>1, FS_Interval DEF Todo
  <2>3. IsFiniteSet(Todo(m)) /\ IsFiniteSet(Todo(m)')
    BY <2>2, WorkIsFinite, FS_Subset
  <2> QED
    BY <2>3, FS_CardinalityType
<1>5. /\ 2^faults \in Nat /\ 2^(faults') \in Nat /\ 2^faults <= 2^(faults')
      /\ faults' = faults + 1 => 2^(faults') = 2^faults + 2^faults
  BY <1>1, BoundGrows
<1>6. CASE Cardinality(Todo(m)') <= Cardinality(Todo(m))
  BY <1>3, <1>4, <1>5, <1>6
<1>7. CASE /\ faults' = faults + 1
           /\ Cardinality(Todo(m)') <= Cardinality(Todo(m)) + 2^faults
  BY <1>3, <1>4, <1>5, <1>7
<1> QED
  BY <1>6, <1>7, WorkersAddLittle

\* A request that becomes a writer finds no entry of its message.
LEMMA WaitingBounded ==
  ASSUME ServiceKept, Proved!KeysHeld, Bounded, Room,
         Proved!Next, WorkersUnchanged, UNCHANGED <<log, present, published>>
  PROVE  Bounded' /\ Room'
<1>1. faults \in Nat /\ faults' \in {faults, faults + 1}
  BY ApiFaults, DeliveryAssumption DEF ServiceKept, TypeOK, DeliveryAssumption
<1>2. \A m \in Msgs : /\ Todo(m)' = Todo(m)
                      /\ \A w \in Workers : Batch(w, m)' = Batch(w, m)
  BY DEF WorkersUnchanged, workerVars, Todo, Batch, Unfinished, Msg
<1>3. Bounded'
  BY <1>1, <1>2, BoundKept DEF Bounded, ServiceKept
<1>4. ASSUME NEW m \in Msgs, API!Coming(m)'
      PROVE  Cardinality(Todo(m)') + 1 <= 2^(faults')
  <2>1. Todo(m)' = Todo(m)
    BY <1>2
  <2>2. /\ 2^faults \in Nat /\ 2^(faults') \in Nat /\ 1 <= 2^faults
        /\ 2^faults <= 2^(faults')
    BY <1>1, BoundGrows
  <2>3. IsFiniteSet(Todo(m)) /\ Cardinality(Todo(m)) \in Nat
    BY WorkIsFinite, FS_CardinalityType DEF ServiceKept
  <2>4. CASE API!Coming(m)
    <3>1. Cardinality(Todo(m)) + 1 <= 2^faults
      BY <2>4 DEF Room
    <3> QED
      BY <2>1, <2>2, <2>3, <3>1
  <2>5. CASE ~API!Coming(m)
    <3>1. ~Proved!Coming(m) /\ Proved!Coming(m)'
      <4>1. Proved!Coming(m)' <=> API!Coming(m)'
        BY DEF Proved!Coming, API!Coming, Proved!Publishing, API!Publishing,
               Proved!Id, API!Id, Proved!Event, API!Event
      <4> QED
        BY <1>4, <2>5, <4>1, SameState
    <3>2. ~Proved!Queued(m)
      BY <3>1, PipelineAssumption, Proved!NewWriterIsFirst
      DEF API!IngestAssumption, ServiceKept, AcceptanceKept
    <3>3. ~InStream(m)
      BY <3>2, SameState DEF ServiceKept, SameMessages
    <3>4. Todo(m) = {}
      BY <3>3 DEF Todo, InStream
    <3>5. Cardinality(Todo(m)) = 0
      BY <3>4, FS_EmptySet
    <3> QED
      BY <2>1, <2>2, <3>5
  <2> QED
    BY <2>4, <2>5
<1> QED
  BY <1>3, <1>4 DEF Room

\* A write takes the room its request had; one that is to be repeated is a
\* fault, which makes room for the next.
LEMMA WriteBounded ==
  ASSUME ServiceKept, Proved!KeysHeld, Bounded, Room,
         Proved!Next, WorkersUnchanged,
         NEW d \in Deliveries, NEW c \in Requests, Writes(d, c)
  PROVE  Bounded' /\ Room'
<1>1. faults \in Nat /\ faults' \in {faults, faults + 1} /\ 0 \in 0..MaxRetries
  BY ApiFaults, DeliveryAssumption DEF ServiceKept, TypeOK, DeliveryAssumption
<1>2. PICK m \in Msgs : m = API!Id(d, c)
  BY WrittenId DEF ServiceKept, AcceptanceKept
<1>3. PICK new : new = Len(log) + 1
  OBVIOUS
<1>4. /\ Todo(m)' \subseteq Todo(m) \union {new}
      /\ \A k \in Msgs : k # m => Todo(k)' \subseteq Todo(k)
      /\ \A v \in Workers, k \in Msgs : Batch(v, k)' \subseteq Batch(v, k)
  <2>1. XAdd(m, 0) /\ UNCHANGED <<lastDelivered, pel, handler>>
    BY <1>2 DEF Writes, WorkersUnchanged, workerVars
  <2> QED
    BY <1>1, <1>3, <2>1, XAddWork DEF ServiceKept
<1>5. \A k \in Msgs : /\ IsFiniteSet(Todo(k)) /\ Cardinality(Todo(k)) \in Nat
                      /\ IsFiniteSet(Todo(k)') /\ Cardinality(Todo(k)') \in Nat
  <2>1. \A k \in Msgs : IsFiniteSet(Todo(k))
    BY WorkIsFinite DEF ServiceKept
  <2>2. IsFiniteSet(Todo(m) \union {new})
    BY <2>1, FS_Singleton, FS_Union
  <2>3. \A k \in Msgs : IsFiniteSet(Todo(k)')
    BY <1>4, <2>1, <2>2, FS_Subset
  <2> QED
    BY <2>1, <2>3, FS_CardinalityType
<1>6. /\ 2^faults \in Nat /\ 2^(faults') \in Nat /\ 1 <= 2^faults
      /\ 2^faults <= 2^(faults')
      /\ faults' = faults + 1 => 2^(faults') = 2^faults + 2^faults
  BY <1>1, BoundGrows
<1>7. Cardinality(Todo(m)) + 1 <= 2^faults
  BY <1>2 DEF Writes, Room, API!Coming, API!Publishing
<1>8. Cardinality(Todo(m)') <= Cardinality(Todo(m)) + 1
  <2>1. IsFiniteSet({new}) /\ Cardinality({new}) = 1
    BY FS_Singleton
  <2>2. Cardinality(Todo(m)') <= Cardinality(Todo(m)) + Cardinality({new})
    BY <1>4, <1>5, <2>1, NoMoreThanBoth
  <2> QED
    BY <2>1, <2>2
<1>9. ASSUME NEW k \in Msgs, k # m
      PROVE  Cardinality(Todo(k)') <= Cardinality(Todo(k))
  BY <1>4, <1>5, <1>9, FS_Subset
<1>10. Bounded'
  <2>1. Cardinality(Todo(m)') <= 2^(faults')
    BY <1>5, <1>6, <1>7, <1>8
  <2> QED
    BY <1>1, <1>4, <2>1, BoundKept DEF Bounded, ServiceKept
<1>11. ASSUME NEW k \in Msgs, API!Coming(k)'
       PROVE  Cardinality(Todo(k)') + 1 <= 2^(faults')
  <2>1. API!Coming(k) /\ (k = m => faults' = faults + 1)
    <3>1. Proved!Coming(k)'
      BY <1>11 DEF Proved!Coming, API!Coming, Proved!Publishing, API!Publishing,
                   Proved!Id, API!Id, Proved!Event, API!Event
    <3>2. pc[d][c] = "publish" /\ published' = Append(published, Proved!Event(d, c))
      BY DEF Writes, API!Event, Proved!Event
    <3>3. Proved!Coming(k) /\ (k = Proved!Id(d, c) => faults' = faults + 1)
      BY <3>1, <3>2, PipelineAssumption, Proved!WriterGoes
      DEF API!IngestAssumption, ServiceKept, AcceptanceKept
    <3> QED
      BY <1>2, <3>3, SameState
  <2>2. Cardinality(Todo(k)) + 1 <= 2^faults
    BY <2>1 DEF Room
  <2>3. CASE k = m
    BY <1>5, <1>6, <1>7, <1>8, <2>1, <2>3
  <2>4. CASE k # m
    BY <1>5, <1>6, <1>9, <2>2, <2>4
  <2> QED
    BY <2>3, <2>4
<1> QED
  BY <1>10, <1>11 DEF Room

LEMMA ServiceBounded ==
  ASSUME ServiceKept, Proved!KeysHeld, OneHandler, Bounded, Room,
         [PipelineNext]_pipelineVars, Timely
  PROVE  OneHandler' /\ Bounded' /\ Room'
<1>1. CASE (Deliver \/ UNCHANGED vars) /\ [Next]_vars /\ UNCHANGED apiVars
  <2>1. OneHandler' /\ Bounded'
    BY <1>1, OneHandlerInductive, BoundedInductive, TimelySteps, InTimeSteps
    DEF ServiceKept
  <2> QED
    BY <1>1, <2>1, WorkersLeaveRoom DEF ServiceKept
<1>2. CASE Proved!Next /\ WorkersUnchanged /\ UNCHANGED <<log, present, published>>
  BY <1>2, WaitingOneHandler, WaitingBounded
<1>3. CASE /\ Proved!Next /\ WorkersUnchanged
           /\ \E d \in Deliveries, c \in Requests : Writes(d, c)
  BY <1>3, WaitingOneHandler, WriteBounded
<1> QED
  BY <1>1, <1>2, <1>3, ServiceSteps DEF ServiceKept, AcceptanceKept

\* Until something fails, a step of the service is one of Delivery.
LEMMA FaultOrStep ==
  ASSUME ServiceKept, Proved!KeysHeld, [PipelineNext]_pipelineVars
  PROVE  [Next]_vars \/ faults' # 0
<1>1. CASE [Next]_vars
  BY <1>1
<1>2. CASE Proved!Next /\ WorkersUnchanged /\ faults # 0
  <2>1. faults \in Nat /\ faults' \in {faults, faults + 1}
    BY <1>2, ApiFaults, DeliveryAssumption DEF ServiceKept, TypeOK, DeliveryAssumption
  <2> QED
    BY <1>2, <2>1
<1>3. CASE /\ Proved!Next /\ WorkersUnchanged /\ faults = 0
           /\ UNCHANGED <<log, present>>
  <2>1. faults' \in {0, 1}
    BY <1>3, ApiFaults
  <2>2. CASE faults' = 0
    BY <1>3, <2>2 DEF WorkersUnchanged, vars, redisVars, workerVars
  <2> QED
    BY <2>1, <2>2
<1>4. ASSUME NEW d \in Deliveries, NEW c \in Requests, Writes(d, c), Proved!Next,
             WorkersUnchanged, faults = 0
      PROVE  [Next]_vars \/ faults' # 0
  <2>1. /\ API!Id(d, c) \in Msgs /\ XAdd(API!Id(d, c), 0)
        /\ \A e \in 1..Len(log) : Msg(e) # API!Id(d, c)
    BY <1>4, WrittenId, WritesAreFresh DEF ServiceKept, AcceptanceKept, Writes
  <2>2. CASE faults' = 0
    <3>1. Publish(API!Id(d, c))
      BY <1>4, <2>1, <2>2 DEF Publish, WorkersUnchanged
    <3> QED
      BY <2>1, <3>1 DEF Next
  <2> QED
    BY <2>2
<1> QED
  BY <1>1, <1>2, <1>3, <1>4, ServiceSteps DEF ServiceKept, AcceptanceKept

\* What holds while nothing has failed.
LEMMA ServiceFaultFree ==
  ASSUME ServiceKept, Proved!KeysHeld, OneHandler, Bounded, [PipelineNext]_pipelineVars
  PROVE  /\ SentOnce => SentOnce'
         /\ Counted => Counted'
         /\ Cardinality(Msgs) * (MaxRetries + 1) <= MaxEntries /\ Counted /\ Attended
              => Attended'
<1> USE DEF ServiceKept
<1>1. CASE [Next]_vars
  <2>1. SentOnce => SentOnce'
    BY <1>1, SentOnceInductive
  <2>2. Counted => Counted'
    BY <1>1, CountedInductive
  <2>3. ASSUME Cardinality(Msgs) * (MaxRetries + 1) <= MaxEntries, Counted, Attended
        PROVE  Attended'
    <3>1. faults = 0 => \A w \in Workers, e \in EntryIds :
                          handler[w][e] = "requeue" => Len(log) < MaxEntries
      BY <2>3, RoomToRequeue
    <3> QED
      BY <1>1, <2>3, <3>1, AttendedInductive
  <2> QED
    BY <2>1, <2>2, <2>3
<1>2. CASE faults' # 0
  BY <1>2 DEF SentOnce, Counted, Attended
<1> QED
  BY <1>1, <1>2, FaultOrStep

\* The invariant of the three theorems that follow.
WorkKept ==
  /\ ServiceKept /\ Proved!KeysHeld /\ OneHandler /\ Bounded /\ Room
  /\ SentOnce /\ Counted

LEMMA WorkInductive ==
  ASSUME Timely
  PROVE  /\ PipelineInit => WorkKept /\ Attended
         /\ WorkKept /\ [PipelineNext]_pipelineVars => WorkKept'
<1>1. ASSUME PipelineInit PROVE WorkKept /\ Attended
  <2>1. ServiceKept /\ Proved!KeysHeld
    <3>1. Proved!Init
      BY <1>1 DEF PipelineInit, API!Init, Proved!Init
    <3> QED
      BY <1>1, <3>1, PipelineAssumption, Proved!OnceInductive, ServiceInductive
      DEF API!IngestAssumption
  <2>2. Init
    BY <1>1 DEF PipelineInit
  <2>3. OneHandler /\ Bounded
    BY <2>2, InitBounded
  <2>4. 1..Len(log) = {} /\ \A m \in Msgs : Todo(m) = {} /\ claim[m] = "none"
    BY <2>2 DEF Init, Todo
  <2>5. SentOnce /\ Counted /\ Attended
    BY <2>2, <2>4 DEF Init, SentOnce, Counted, Attended
  <2>6. Room
    <3>1. \A d \in Deliveries, c \in Requests : pc[d][c] = "idle"
      BY <1>1 DEF PipelineInit, API!Init
    <3> QED
      BY <3>1 DEF Room, API!Coming, API!Publishing
  <2> QED
    BY <2>1, <2>3, <2>5, <2>6 DEF WorkKept
<1>2. ASSUME WorkKept, [PipelineNext]_pipelineVars PROVE WorkKept'
  BY <1>2, ServiceInductive, ServiceKeys, ServiceBounded, ServiceFaultFree DEF WorkKept
<1> QED
  BY <1>1, <1>2

\* NO AMPLIFICATION, with the faults of both sides counted: a request that fails
\* after its XADD, or that Meta sends again, adds no entry that the bound does
\* not allow for (worker.py:175-177, main.py:120-123).
THEOREM FaultsAtMostDoubleEndToEnd ==
  ASSUME Timely
  PROVE  PipelineSpec => []NoAmplification
<1>1. WorkKept => NoAmplification
  BY BoundedCopies DEF WorkKept, ServiceKept
<1> QED
  BY <1>1, WorkInductive, PTL DEF PipelineSpec

\* DUPLICATES HAVE A CAUSE, from the webhook on: however often Meta sends a
\* delivery, the downstream gets an event a second time only after a fault on
\* one of the two sides (queue.py:15-18, dedup.py:5-12).
THEOREM NoDuplicateEndToEnd ==
  ASSUME Timely
  PROVE  PipelineSpec => DuplicateNeedsFault
<1>1. WorkKept => [\A w \in Workers, e \in EntryIds :
                     Lands(w, e) /\ Msg(e) \in received => faults > 0]_vars
  BY SecondNeedsFault DEF WorkKept, ServiceKept
<1> QED
  BY <1>1, WorkInductive, PTL DEF PipelineSpec, DuplicateNeedsFault

\* A SHUTDOWN FINISHES THE BATCH, while the API goes on writing to the stream
\* (worker.py:307-308).
THEOREM ShutdownDrainsEndToEnd ==
  ASSUME Timely, Cardinality(Msgs) * (MaxRetries + 1) <= MaxEntries
  PROVE  PipelineSpec => []ShutdownDrains
<1>1. WorkKept /\ Attended /\ [PipelineNext]_pipelineVars => Attended'
  BY ServiceFaultFree DEF WorkKept
<1>2. WorkKept /\ Attended => ShutdownDrains
  BY AttendedDrains DEF WorkKept, ServiceKept
<1> QED
  BY <1>1, <1>2, WorkInductive, PTL DEF PipelineSpec
=============================================================================
