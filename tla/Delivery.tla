------------------------------ MODULE Delivery ------------------------------
(***************************************************************************)
(* The delivery path: worker processes (app/worker.py) taking events from  *)
(* one Redis stream and consumer group (app/queue.py) to a downstream URL. *)
(*                                                                         *)
(* A step is one Redis command, one outcome of the downstream POST, or one *)
(* decision of the worker loop: everything between two awaits of the code  *)
(* happens in one step, and every await is a point where other workers,    *)
(* the API, a crash, a signal or an expiry may come in between.            *)
(*                                                                         *)
(* Time is not modelled here.  A claim's TTL may run out, and a pending    *)
(* entry may become old enough to be reclaimed, at any moment; with Timely *)
(* they may only do so once the attempt they cover is over, which is what  *)
(* the settings promise (config.py:61-65, 81-90).                          *)
(***************************************************************************)
EXTENDS Naturals, Sequences, FiniteSets

CONSTANTS
  Workers,       \* worker processes, CONSUMER_NAME of each
  Stoppable,     \* those that an operator may send a SIGTERM
  Unconfigured,  \* those started with DOWNSTREAM_WEBHOOK_URL left blank
  Msgs,          \* message ids; one event per id is published by the API
  MaxEntries,    \* bound: stream ids handed out before XADD is refused
  BatchSize,     \* BATCH_SIZE
  MaxRetries,    \* MAX_RETRIES
  StreamMaxlen,  \* STREAM_MAXLEN
  MaxFaults,     \* bound: crashes, refused commands, lost answers
  Timely,        \* every attempt ends before its claim lapses or its entry
                 \* is reclaimed, and no entry waits DELIVERED_TTL_SECONDS
  Resend         \* REDIS_RETRIES > 0: the client re-sends a command whose
                 \* reply it did not get

\* What validate() and the types of the settings leave of the constants.
ASSUME DeliveryAssumption ==
  /\ Stoppable \subseteq Workers /\ Unconfigured \subseteq Workers
  /\ IsFiniteSet(Msgs)
  /\ MaxEntries \in Nat /\ BatchSize \in Nat \ {0}
  /\ MaxRetries \in Nat /\ StreamMaxlen \in Nat \ {0}
  /\ MaxFaults \in Nat
  /\ Timely \in BOOLEAN /\ Resend \in BOOLEAN

EntryIds == 1..MaxEntries

\* The stream id of an entry is its position in log; rc is the event's retry_count.
Entry == [msg : Msgs, rc : 0..MaxRetries]

\* Where handle() is for one entry of one worker: the await it is about to
\* make.  "idle" stands for no handler running.
HolderPC == {"post", "landed", "complete", "dead", "dl_abandon", "backoff"}
PC == {"idle", "begin", "get", "requeue", "xack", "xdel"} \union HolderPC

\* Where run() is: the process is not running, at the top of the loop, in
\* the batch it reclaimed, about to read, in the batch it read, returned.
Phase == {"down", "sweep", "reclaimed", "read", "fresh", "stopped"}

VARIABLES
  log,            \* every entry ever added to the stream, in order
  present,        \* ids still in the stream (not XDELed, not trimmed)
  lastDelivered,  \* the group's last-delivered-id
  pel,            \* ids in the group's pending entries list
  stale,          \* those of pel idle for CLAIM_MIN_IDLE_MS or longer
  claim,          \* the key wa:delivered:<id> of each message
  dlq,            \* messages parked in the dead-letter stream
  received,       \* messages the downstream has accepted at least once
  confirmed,      \* messages complete_delivery() has recorded (history)
  handler,        \* the handlers of each worker
  phase,          \* the loop of each worker
  cursor,         \* reclaim_cursor of each worker, 0 for "0-0"
  stopping,       \* workers whose _shutdown event is set
  faults          \* faults so far

redisVars == <<log, present, lastDelivered, pel, stale, claim, dlq>>
workerVars == <<handler, phase, cursor, stopping>>
vars == <<redisVars, received, confirmed, workerVars, faults>>

Msg(e) == log[e].msg

Init ==
  /\ log = << >> /\ present = {} /\ lastDelivered = 0
  /\ pel = {} /\ stale = {}
  /\ claim = [m \in Msgs |-> "none"]
  /\ dlq = {} /\ received = {} /\ confirmed = {}
  /\ handler = [w \in Workers |-> [e \in EntryIds |-> "idle"]]
  /\ phase = [w \in Workers |-> "down"]
  /\ cursor = [w \in Workers |-> 0]
  /\ stopping = {}
  /\ faults = 0

-----------------------------------------------------------------------------
(* Shared vocabulary *)

Running(w) == phase[w] \notin {"down", "stopped"}
NoHandler(w) == \A e \in EntryIds : handler[w][e] = "idle"

\* The handler of e at w holds the claim of its message.
Holds(w, e) == handler[w][e] \in HolderPC
Held(m) == \E w \in Workers, e \in 1..Len(log) : Holds(w, e) /\ Msg(e) = m

\* An entry Redis still owes the workers: unread, or pending, and readable.
Live(e) == e \in present /\ (e \in pel \/ e > lastDelivered)
Copies(m) == {e \in 1..Len(log) : Live(e) /\ Msg(e) = m}

Fault == faults < MaxFaults /\ faults' = faults + 1

Goes(w, e, pc) == handler' = [handler EXCEPT ![w][e] = pc]

\* A Redis command took effect.  Its reply arrives; or it is lost and the
\* handler fails (gather() swallows the error, the entry stays as it is); or
\* it is lost and the client sends the command again.
Answered(w, e, pc) ==
  \/ Goes(w, e, pc) /\ UNCHANGED faults
  \/ Fault /\ Goes(w, e, "idle")
  \/ Resend /\ Fault /\ UNCHANGED handler

\* What XADD may leave of the stream S once the new entry is in it: all of
\* it, or, above MAXLEN, without some of the oldest (~: never below MAXLEN).
Trimmed(S) ==
  {S} \union
  {R \in {{e \in S : e >= first} : first \in S} :
     Cardinality(S) > StreamMaxlen /\ Cardinality(R) >= StreamMaxlen}

\* enqueue_event().  A stream that is full refuses the write.
XAdd(m, rc) ==
  /\ Len(log) < MaxEntries
  /\ log' = Append(log, [msg |-> m, rc |-> rc])
  /\ present' \in Trimmed(present \union {Len(log) + 1})

\* The first BatchSize ids of S, or all of them.
FirstOf(S) ==
  {T \in SUBSET S :
     /\ \A e \in T, f \in S : f < e => f \in T
     /\ Cardinality(T) = IF Cardinality(S) < BatchSize THEN Cardinality(S)
                                                       ELSE BatchSize}

-----------------------------------------------------------------------------
(* The API's side of the stream *)

\* enqueue_event() called by _ingest(), once per message id (the dedup key).
Publish(m) ==
  /\ \A e \in 1..Len(log) : Msg(e) # m
  /\ XAdd(m, 0)
  /\ UNCHANGED <<lastDelivered, pel, stale, claim, dlq,
                 received, confirmed, workerVars, faults>>

\* The API's client did not get the reply of that XADD and sends it again.
PublishAgain(m) ==
  /\ Resend /\ Fault
  /\ \E e \in 1..Len(log) : Msg(e) = m
  /\ XAdd(m, 0)
  /\ UNCHANGED <<lastDelivered, pel, stale, claim, dlq,
                 received, confirmed, workerVars>>

-----------------------------------------------------------------------------
(* handle(): one action per await *)

\* begin_delivery(): SET NX finds no key.
WinClaim(w, e) ==
  /\ handler[w][e] = "begin"
  /\ claim[Msg(e)] = "none"
  /\ claim' = [claim EXCEPT ![Msg(e)] = "inflight"]
  /\ Answered(w, e, "post")
  /\ UNCHANGED <<log, present, lastDelivered, pel, stale, dlq,
                 received, confirmed, phase, cursor, stopping>>

\* begin_delivery(): SET NX finds a key; read it next.
LoseClaim(w, e) ==
  /\ handler[w][e] = "begin"
  /\ claim[Msg(e)] # "none"
  /\ Answered(w, e, "get")
  /\ UNCHANGED <<redisVars, received, confirmed, phase, cursor, stopping>>

\* Fault variant: GET's answer is not looked at, a held claim is an ack.
ReadClaim_AckHeld(w, e) ==
  /\ handler[w][e] = "get"
  /\ Answered(w, e, "xack")
  /\ UNCHANGED <<redisVars, received, confirmed, phase, cursor, stopping>>

\* begin_delivery(): GET.  "done" is ALREADY_DELIVERED, and the handler acks;
\* anything else, no key included, is IN_PROGRESS, and it returns.
ReadClaim(w, e) ==
  /\ handler[w][e] = "get"
  /\ Answered(w, e, IF claim[Msg(e)] = "done" THEN "xack" ELSE "idle")
  /\ UNCHANGED <<redisVars, received, confirmed, phase, cursor, stopping>>

\* Fault variant: the count is compared before it is incremented.
AfterFailure_Late(e) == IF log[e].rc > MaxRetries THEN "dead" ELSE "backoff"

\* What a failed attempt does next: retry_count + 1 > MAX_RETRIES?
AfterFailure(e) == IF log[e].rc + 1 > MaxRetries THEN "dead" ELSE "backoff"

\* dispatch(): the downstream takes the event; its answer is on the way.
Land(w, e) ==
  /\ handler[w][e] = "post" /\ w \notin Unconfigured
  /\ received' = received \union {Msg(e)}
  /\ Goes(w, e, "landed")
  /\ UNCHANGED <<redisVars, confirmed, phase, cursor, stopping, faults>>

\* dispatch(): refused, unreachable or answered with a status >= 300.
Reject(w, e) ==
  /\ handler[w][e] = "post" /\ w \notin Unconfigured
  /\ Goes(w, e, AfterFailure(e))
  /\ UNCHANGED <<redisVars, received, confirmed, phase, cursor, stopping, faults>>

\* dispatch(): there is nowhere to send it, which counts as delivered.
NoDownstream(w, e) ==
  /\ handler[w][e] = "post" /\ w \in Unconfigured
  /\ Goes(w, e, "complete")
  /\ UNCHANGED <<redisVars, received, confirmed, phase, cursor, stopping, faults>>

\* dispatch(): the answer arrives, a 2xx.
Confirm(w, e) ==
  /\ handler[w][e] = "landed"
  /\ Goes(w, e, "complete")
  /\ UNCHANGED <<redisVars, received, confirmed, phase, cursor, stopping, faults>>

\* dispatch(): the answer times out or is lost; the worker sees a failure.
LoseAnswer(w, e) ==
  /\ handler[w][e] = "landed"
  /\ Fault
  /\ Goes(w, e, AfterFailure(e))
  /\ UNCHANGED <<redisVars, received, confirmed, phase, cursor, stopping>>

\* Fault variant: the claim is left as the short-lived one.
Complete_KeepInflight(w, e) ==
  /\ handler[w][e] = "complete"
  /\ confirmed' = confirmed \union {Msg(e)}
  /\ Answered(w, e, "xack")
  /\ UNCHANGED <<redisVars, received, phase, cursor, stopping>>

\* complete_delivery(): SET done.
Complete(w, e) ==
  /\ handler[w][e] = "complete"
  /\ claim' = [claim EXCEPT ![Msg(e)] = "done"]
  /\ confirmed' = confirmed \union {Msg(e)}
  /\ Answered(w, e, "xack")
  /\ UNCHANGED <<log, present, lastDelivered, pel, stale, dlq,
                 received, phase, cursor, stopping>>

\* dead_letter(): XADD to the dead-letter stream.
DeadLetter(w, e) ==
  /\ handler[w][e] = "dead"
  /\ dlq' = dlq \union {Msg(e)}
  /\ Answered(w, e, "dl_abandon")
  /\ UNCHANGED <<log, present, lastDelivered, pel, stale, claim,
                 received, confirmed, phase, cursor, stopping>>

\* abandon_delivery(): DEL, whoever owns the key, after the dead letter or
\* at the end of the backoff sleep.
Abandon(w, e) ==
  /\ handler[w][e] \in {"dl_abandon", "backoff"}
  /\ claim' = [claim EXCEPT ![Msg(e)] = "none"]
  /\ Answered(w, e, IF handler[w][e] = "backoff" THEN "requeue" ELSE "xack")
  /\ UNCHANGED <<log, present, lastDelivered, pel, stale, dlq,
                 received, confirmed, phase, cursor, stopping>>

\* Fault variant: the handler returns without the ack.
Requeue_NoAck(w, e) ==
  /\ handler[w][e] = "requeue"
  /\ XAdd(Msg(e), log[e].rc + 1)
  /\ Answered(w, e, "idle")
  /\ UNCHANGED <<lastDelivered, pel, stale, claim, dlq,
                 received, confirmed, phase, cursor, stopping>>

\* enqueue_event() with the incremented retry_count.
Requeue(w, e) ==
  /\ handler[w][e] = "requeue"
  /\ XAdd(Msg(e), log[e].rc + 1)
  /\ Answered(w, e, "xack")
  /\ UNCHANGED <<lastDelivered, pel, stale, claim, dlq,
                 received, confirmed, phase, cursor, stopping>>

\* ack(): XACK.
XAck(w, e) ==
  /\ handler[w][e] = "xack"
  /\ pel' = pel \ {e} /\ stale' = stale \ {e}
  /\ Answered(w, e, "xdel")
  /\ UNCHANGED <<log, present, lastDelivered, claim, dlq,
                 received, confirmed, phase, cursor, stopping>>

\* ack(): XDEL, and handle() returns.
XDel(w, e) ==
  /\ handler[w][e] = "xdel"
  /\ present' = present \ {e}
  /\ Answered(w, e, "idle")
  /\ UNCHANGED <<log, lastDelivered, pel, stale, claim, dlq,
                 received, confirmed, phase, cursor, stopping>>

\* Redis refuses a command, or stays unreachable through every retry: the
\* handler fails and the entry stays as it is.  An XADD to a stream that is
\* full always ends so.
Refused(w, e) ==
  /\ handler[w][e] \notin {"idle", "post", "landed"}
  /\ \/ Fault
     \/ handler[w][e] = "requeue" /\ Len(log) = MaxEntries /\ UNCHANGED faults
  /\ Goes(w, e, "idle")
  /\ UNCHANGED <<redisVars, received, confirmed, phase, cursor, stopping>>

HandlerStep(w, e) ==
  \/ WinClaim(w, e) \/ LoseClaim(w, e) \/ ReadClaim(w, e)
  \/ Land(w, e) \/ Reject(w, e) \/ NoDownstream(w, e)
  \/ Confirm(w, e) \/ LoseAnswer(w, e)
  \/ Complete(w, e) \/ DeadLetter(w, e) \/ Abandon(w, e) \/ Requeue(w, e)
  \/ XAck(w, e) \/ XDel(w, e) \/ Refused(w, e)

-----------------------------------------------------------------------------
(* run(): the worker loop *)

\* The process starts: a first start, or Docker's restart after a crash.
Start(w) ==
  /\ phase[w] = "down"
  /\ phase' = [phase EXCEPT ![w] = "sweep"]
  /\ UNCHANGED <<redisVars, received, confirmed, handler, cursor, stopping, faults>>

\* Handlers started by process_batch() for the entries of a batch.
Begins(w, batch) ==
  handler' = [handler EXCEPT ![w] = [e \in EntryIds |->
                                       IF e \in batch THEN "begin" ELSE "idle"]]

\* The cursor XAUTOCLAIM returns after looking at the ids in taken: the next
\* pending id when the count ran out before the list did, "0-0" otherwise.
NextCursor(taken, next) ==
  LET rest == {p \in pel : \A e \in taken : p > e}
  IN  IF Cardinality(taken) < BatchSize \/ rest = {}
      THEN next = 0
      ELSE next \in rest /\ \A p \in rest : next <= p

\* Fault variant: the loop does not look at the event.
KeepsRunning_Always(w) == TRUE

\* while not _shutdown.is_set()
KeepsRunning(w) == w \notin stopping

\* reclaim_stale(): XAUTOCLAIM from the cursor.  Pending ids the stream no
\* longer has are dropped from the list; those idle for long enough are
\* adopted, which makes them fresh again.  When the reply is lost the entries
\* change hands all the same, and no handler starts.
Sweep(w) ==
  /\ phase[w] = "sweep" /\ KeepsRunning(w)
  /\ \E taken \in FirstOf({e \in pel : /\ e >= cursor[w]
                                       /\ e \in stale \/ e \notin present}) :
       /\ pel' = pel \ (taken \ present)
       /\ stale' = stale \ taken
       /\ \/ /\ Begins(w, taken \intersect present)
             /\ \E next \in {0} \union pel :
                  NextCursor(taken, next) /\ cursor' = [cursor EXCEPT ![w] = next]
             /\ phase' = [phase EXCEPT ![w] = "reclaimed"]
             /\ UNCHANGED faults
          \/ Fault /\ UNCHANGED <<handler, cursor, phase>>
  /\ UNCHANGED <<log, present, lastDelivered, claim, dlq,
                 received, confirmed, stopping>>

\* read_new(): XREADGROUP ">".  Nothing to read ends in an empty batch after
\* BLOCK_MS.  When the reply is lost, the entries are pending and no handler
\* has them; the client reads again or the loop starts over.
ReadNew(w) ==
  /\ phase[w] = "read"
  /\ \E taken \in FirstOf({e \in present : e > lastDelivered}) :
       /\ pel' = pel \union taken
       /\ \E last \in IF taken = {} THEN {lastDelivered} ELSE taken :
            (\A e \in taken : e <= last) /\ lastDelivered' = last
       /\ \/ /\ Begins(w, taken)
             /\ phase' = [phase EXCEPT ![w] = "fresh"]
             /\ UNCHANGED faults
          \/ /\ Fault
             /\ \/ phase' = [phase EXCEPT ![w] = "sweep"]
                \/ Resend /\ UNCHANGED phase
             /\ UNCHANGED handler
  /\ UNCHANGED <<log, present, stale, claim, dlq,
                 received, confirmed, cursor, stopping>>

\* Fault variant: the batch is not awaited once a shutdown was requested.
EndBatch_Hasty(w) ==
  /\ phase[w] \in {"reclaimed", "fresh"}
  /\ NoHandler(w) \/ w \in stopping
  /\ phase' = [phase EXCEPT ![w] = IF w \in stopping THEN "stopped"
                                   ELSE IF phase[w] = "fresh" THEN "sweep"
                                   ELSE "read"]
  /\ handler' = [handler EXCEPT ![w] = [e \in EntryIds |-> "idle"]]
  /\ UNCHANGED <<redisVars, received, confirmed, cursor, stopping, faults>>

\* process_batch() returns once every handler has; then the shutdown check,
\* or refresh_gauges() and the top of the loop.
EndBatch(w) ==
  /\ phase[w] \in {"reclaimed", "fresh"}
  /\ NoHandler(w)
  /\ phase' = [phase EXCEPT ![w] = IF phase[w] = "fresh" THEN "sweep"
                                   ELSE IF KeepsRunning(w) THEN "read"
                                   ELSE "stopped"]
  /\ UNCHANGED <<redisVars, received, confirmed, handler, cursor, stopping, faults>>

\* while not _shutdown.is_set(): the loop ends and the process exits.
Stop(w) ==
  /\ phase[w] = "sweep" /\ ~KeepsRunning(w)
  /\ phase' = [phase EXCEPT ![w] = "stopped"]
  /\ UNCHANGED <<redisVars, received, confirmed, handler, cursor, stopping, faults>>

\* request_shutdown(): SIGTERM or SIGINT.
RequestShutdown(w) ==
  /\ w \in Stoppable \ stopping /\ Running(w)
  /\ stopping' = stopping \union {w}
  /\ UNCHANGED <<redisVars, received, confirmed, handler, phase, cursor, faults>>

\* The process dies with its handlers, or is killed at the end of its stop
\* grace period.  Docker restarts it unless it was being stopped.
Crash(w) ==
  /\ Running(w) /\ Fault
  /\ phase' = [phase EXCEPT ![w] = IF w \in stopping THEN "stopped" ELSE "down"]
  /\ handler' = [handler EXCEPT ![w] = [e \in EntryIds |-> "idle"]]
  /\ cursor' = [cursor EXCEPT ![w] = 0]
  /\ UNCHANGED <<redisVars, received, confirmed, stopping>>

LoopStep(w) == Start(w) \/ Sweep(w) \/ ReadNew(w) \/ EndBatch(w) \/ Stop(w)

-----------------------------------------------------------------------------
(* Redis keeping time *)

\* Fault variant: the claim's TTL does not outlast the attempt.
ClaimLapses_Early(m) ==
  /\ claim[m] = "inflight"
  /\ claim' = [claim EXCEPT ![m] = "none"]
  /\ UNCHANGED <<log, present, lastDelivered, pel, stale, dlq,
                 received, confirmed, workerVars, faults>>

\* Fault variant: the claim is set without a TTL.
ClaimLapses_Never(m) == claim[m] = "inflight" /\ FALSE /\ UNCHANGED vars

\* The in-flight claim reaches claim_ttl_seconds().
ClaimLapses(m) ==
  /\ claim[m] = "inflight"
  /\ Timely => ~Held(m)
  /\ claim' = [claim EXCEPT ![m] = "none"]
  /\ UNCHANGED <<log, present, lastDelivered, pel, stale, dlq,
                 received, confirmed, workerVars, faults>>

\* The completed marker reaches DELIVERED_TTL_SECONDS.
MarkerLapses(m) ==
  /\ claim[m] = "done"
  /\ Timely => Copies(m) = {}
  /\ claim' = [claim EXCEPT ![m] = "none"]
  /\ UNCHANGED <<log, present, lastDelivered, pel, stale, dlq,
                 received, confirmed, workerVars, faults>>

\* A pending entry has been idle for CLAIM_MIN_IDLE_MS.
GoStale(e) ==
  /\ e \in pel \ stale
  /\ Timely => \A w \in Workers : handler[w][e] = "idle"
  /\ stale' = stale \union {e}
  /\ UNCHANGED <<log, present, lastDelivered, pel, claim, dlq,
                 received, confirmed, workerVars, faults>>

-----------------------------------------------------------------------------

Next ==
  \/ \E m \in Msgs : Publish(m) \/ PublishAgain(m)
  \/ \E m \in Msgs : ClaimLapses(m) \/ MarkerLapses(m)
  \/ \E e \in EntryIds : GoStale(e)
  \/ \E w \in Workers, e \in EntryIds : HandlerStep(w, e)
  \/ \E w \in Workers : LoopStep(w) \/ RequestShutdown(w) \/ Crash(w)

Spec == Init /\ [][Next]_vars

\* The event loop of a worker never idles while a handler is ready, Docker
\* restarts a process that crashed (restart: unless-stopped), and Redis's clock
\* moves on.
Fairness ==
  /\ \A w \in Workers :
       WF_vars(LoopStep(w)) /\ WF_vars(\E e \in EntryIds : HandlerStep(w, e))
  /\ \A m \in Msgs : WF_vars(ClaimLapses(m))
  /\ \A e \in EntryIds : WF_vars(GoStale(e))

FairSpec == Spec /\ Fairness

-----------------------------------------------------------------------------
(* Properties *)

\* The state has its types.
TypeOK ==
  /\ log \in Seq(Entry) /\ Len(log) <= MaxEntries
  /\ present \subseteq EntryIds
  /\ lastDelivered \in 0..MaxEntries
  /\ pel \subseteq EntryIds /\ stale \subseteq pel
  /\ claim \in [Msgs -> {"none", "inflight", "done"}]
  /\ dlq \subseteq Msgs /\ received \subseteq Msgs /\ confirmed \subseteq Msgs
  /\ handler \in [Workers -> [EntryIds -> PC]]
  /\ phase \in [Workers -> Phase]
  /\ cursor \in [Workers -> 0..MaxEntries]
  /\ stopping \subseteq Workers
  /\ faults \in 0..MaxFaults

\* What handle() must reach before it acks.
Settled(m) == m \in received \union dlq

\* What is in the stream was added and what is pending was read; a handler works
\* on an entry that was read, and one that will requeue it has a retry left.
ReadInOrder ==
  /\ present \subseteq 1..Len(log)
  /\ lastDelivered <= Len(log)
  /\ \A e \in pel : e <= lastDelivered
  /\ \A w \in Workers, e \in EntryIds :
       /\ handler[w][e] # "idle" => e <= lastDelivered
       /\ handler[w][e] \in {"backoff", "requeue"} => log[e].rc < MaxRetries

\* In a stream that is not trimmed, what is pending is still there.
PendingPresent == pel \subseteq present

\* What a handler may rely on when it takes its next step.  An ack rests on a
\* settled event or on a LATER entry of it that is still live.
Grounded(w, e) ==
  /\ handler[w][e] \in {"landed", "complete"} => Msg(e) \in received
  /\ handler[w][e] = "dl_abandon" => Msg(e) \in dlq
  /\ handler[w][e] = "xack" =>
       \/ Settled(Msg(e))
       \/ \E later \in Copies(Msg(e)) : later > e
  /\ handler[w][e] = "xdel" => e \notin pel

\* Only what the downstream has taken is marked as delivered.
DoneIsReceived == \A m \in Msgs : claim[m] = "done" => m \in received

\* NO LOSS.  An event that reached the stream has been taken by the
\* downstream, is parked in the dead-letter stream, or still has an entry in
\* Redis that a worker will read or reclaim -- whatever crashes, commands that
\* fail half-way, lapsed claims and reclaims of running attempts came between
\* (queue.py:8-18, worker.py:180-185).
NoLoss == \A e \in 1..Len(log) : Settled(Msg(e)) \/ Copies(Msg(e)) # {}

\* NO LOSS, together with what makes it hold from one step to the next in a
\* stream that is not trimmed.
NoLossInv ==
  /\ PendingPresent /\ DoneIsReceived /\ NoLoss
  /\ \A w \in Workers, e \in EntryIds : Grounded(w, e)

\* A step whose XADD drops old entries.
Trims == Len(log') # Len(log) /\ present' # present \union {Len(log')}

\* ONE ATTEMPT.  No two handlers are inside an attempt at the same message,
\* from the claim won to the claim given back, across workers and across the
\* entries of one batch (worker.py:143-149, 175-177).
OneAttempt ==
  \A w1, w2 \in Workers : \A e1, e2 \in 1..Len(log) :
    Holds(w1, e1) /\ Holds(w2, e2) /\ Msg(e1) = Msg(e2) => w1 = w2 /\ e1 = e2

\* A handler's POST reaches the downstream in this step.
Lands(w, e) == handler[w][e] = "post" /\ handler'[w][e] = "landed"

\* CONFIRMED IS FINAL.  Once complete_delivery() has recorded a message, no
\* entry of it, requeued or reclaimed by anyone, is sent again
\* (queue.py:181-183, 201-202).
NoSendAfterConfirmed ==
  [][\A w \in Workers, e \in EntryIds : Lands(w, e) => Msg(e) \notin confirmed]_vars

\* DUPLICATES HAVE A CAUSE.  The downstream gets an event a second time only
\* after a crash, a failed command or a lost answer: retries, reclaims, batches
\* and shutdowns alone never send twice (queue.py:15-18).
DuplicateNeedsFault ==
  [][\A w \in Workers, e \in EntryIds :
       Lands(w, e) /\ Msg(e) \in received => faults > 0]_vars

\* Entries of m that are not about to be acked.
UnackedCopies(m) ==
  {e \in Copies(m) : \A w \in Workers : handler[w][e] # "xack"}

\* NO AMPLIFICATION.  A round of retries does not multiply the entries of an
\* event: it has one that still has work to do, and each fault can at most
\* double them (worker.py:175-177).
NoAmplification == \A m \in Msgs : Cardinality(UnackedCopies(m)) <= 2^faults

\* A SHUTDOWN FINISHES THE BATCH.  When every worker has left its loop on a
\* SIGTERM and nothing failed, no entry is left pending: each one that was read
\* has been acked (worker.py:307-308).
ShutdownDrains ==
  faults = 0 /\ (\A w \in Workers : ~Running(w)) => pel = {}

\* The events still owed: what the abstract specification calls owed.
Owed == {m \in Msgs : Copies(m) # {}}

Promise == INSTANCE AtLeastOnce WITH owed <- Owed, taken <- received, parked <- dlq

\* The stream, the workers and the claims together keep the promise of
\* at-least-once delivery, its progress included (queue.py:8-18).
KeepsPromise == Promise!Spec

\* A worker told to stop does return from its loop: no batch, backoff or
\* reclaim keeps it for ever (worker.py:270-280, config.py:55-57).
ShutdownCompletes ==
  \A w \in Workers : w \in stopping ~> phase[w] = "stopped"

\* ONE SENDER.  The claim lets one handler at a time send a message: while a
\* POST of it is out or not recorded yet, no other handler sends it
\* (queue.py:181-182, README.md on the claim held across the backoff sleep).
OneSender ==
  \A w1, w2 \in Workers : \A e1, e2 \in 1..Len(log) :
    /\ handler[w1][e1] \in {"post", "landed", "complete"}
    /\ handler[w2][e2] \in {"post", "landed", "complete"}
    /\ Msg(e1) = Msg(e2)
    => w1 = w2 /\ e1 = e2
=============================================================================
