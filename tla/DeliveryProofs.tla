--------------------------- MODULE DeliveryProofs ---------------------------
(***************************************************************************)
(* Proofs about Delivery: type correctness, no loss, one attempt at a time *)
(***************************************************************************)
EXTENDS Delivery, FiniteSetTheorems, TLAPS

-----------------------------------------------------------------------------
(* Lemmas about the operators the actions are built from *)

\* However the reply to a Redis command fares, one handler moves: on, to the
\* end, or nowhere.
LEMMA AnsweredMoves ==
  ASSUME TypeOK, NEW w \in Workers, NEW e \in EntryIds, NEW pc \in PC,
         Answered(w, e, pc)
  PROVE  /\ \E q \in {pc, "idle", handler[w][e]} :
               handler' = [handler EXCEPT ![w][e] = q]
         /\ handler' \in [Workers -> [EntryIds -> PC]]
         /\ faults' \in 0..MaxFaults
<1>1. handler = [handler EXCEPT ![w][e] = handler[w][e]]
  BY DEF TypeOK
<1>2. "idle" \in PC
  BY DEF PC
<1>3. \E q \in {pc, "idle", handler[w][e]} : handler' = [handler EXCEPT ![w][e] = q]
  BY <1>1 DEF Answered, Goes
<1>4. handler' \in [Workers -> [EntryIds -> PC]]
  BY <1>2, <1>3 DEF TypeOK
<1>5. faults' \in 0..MaxFaults
  BY DeliveryAssumption DEF Answered, Fault, TypeOK, DeliveryAssumption
<1> QED
  BY <1>3, <1>4, <1>5

\* XADD appends one entry and leaves the others where they are in log.
LEMMA XAddAppends ==
  ASSUME TypeOK, NEW m \in Msgs, NEW rc \in 0..MaxRetries, XAdd(m, rc)
  PROVE  /\ log' \in Seq(Entry)
         /\ Len(log') = Len(log) + 1
         /\ Len(log') <= MaxEntries
         /\ \A i \in 1..Len(log) : log'[i] = log[i]
         /\ log'[Len(log) + 1] = [msg |-> m, rc |-> rc]
         /\ present' \subseteq present \union {Len(log) + 1}
<1>1. [msg |-> m, rc |-> rc] \in Entry
  BY DEF Entry
<1>2. log' = Append(log, [msg |-> m, rc |-> rc]) /\ Len(log) < MaxEntries
  BY DEF XAdd
<1>3. present' \subseteq present \union {Len(log) + 1}
  BY DEF XAdd, Trimmed
<1> QED
  BY <1>1, <1>2, <1>3, DeliveryAssumption DEF TypeOK, DeliveryAssumption

\* A handler that moves from pc to one of the states in Q keeps the types and
\* what is known of handlers, provided it may requeue only with a retry left.
LEMMA HandlerMoves ==
  ASSUME TypeOK, ReadInOrder,
         NEW w \in Workers, NEW e \in EntryIds, NEW q \in PC,
         handler[w][e] # "idle",
         handler' = [handler EXCEPT ![w][e] = q],
         q \in {"backoff", "requeue"} => log[e].rc < MaxRetries,
         Len(log') \in Nat, Len(log) <= Len(log'), lastDelivered' = lastDelivered,
         pel' \subseteq pel, present' \subseteq 1..Len(log'),
         \A i \in 1..Len(log) : log'[i] = log[i]
  PROVE  ReadInOrder'
<1>1. /\ e \in 1..Len(log) /\ e <= lastDelivered
      /\ Len(log) \in Nat /\ lastDelivered \in Nat
      /\ lastDelivered <= Len(log)
  BY DeliveryAssumption DEF TypeOK, ReadInOrder, EntryIds, DeliveryAssumption
<1>2. ASSUME NEW v \in Workers, NEW f \in EntryIds
      PROVE  /\ handler'[v][f] # "idle" => f <= lastDelivered'
             /\ handler'[v][f] \in {"backoff", "requeue"} => log'[f].rc < MaxRetries
  <2>1. CASE v = w /\ f = e
    <3>1. handler'[v][f] = q
      BY <2>1 DEF TypeOK
    <3> QED
      BY <1>1, <2>1, <3>1
  <2>2. CASE ~(v = w /\ f = e)
    <3>1. handler'[v][f] = handler[v][f]
      BY <2>2 DEF TypeOK
    <3>2. CASE handler[v][f] = "idle"
      BY <3>1, <3>2
    <3>3. CASE handler[v][f] # "idle"
      <4>1. f <= lastDelivered
        BY <3>3 DEF ReadInOrder
      <4>2. f \in 1..Len(log)
        BY <4>1, <1>1, DeliveryAssumption DEF EntryIds, DeliveryAssumption
      <4> QED
        BY <3>1, <4>1, <4>2 DEF ReadInOrder
    <3> QED
      BY <3>2, <3>3
  <2> QED
    BY <2>1, <2>2
<1>3. lastDelivered' <= Len(log') /\ \A f \in pel' : f <= lastDelivered'
  BY <1>1 DEF ReadInOrder
<1> QED
  BY <1>2, <1>3 DEF ReadInOrder

-----------------------------------------------------------------------------
(* Type correctness *)

\* Every await of handle() keeps the types; a requeue writes the next retry_count
\* only after a failure that found one left.
LEMMA HandlerStepTypes ==
  ASSUME TypeOK, ReadInOrder, NEW w \in Workers, NEW e \in EntryIds,
         HandlerStep(w, e)
  PROVE  TypeOK' /\ ReadInOrder'
<1> USE DeliveryAssumption
<1>0. /\ handler[w][e] # "idle"
      /\ Msg(e) \in Msgs
      /\ e \in 1..Len(log)
      /\ log[e].rc \in 0..MaxRetries
  <2>1. handler[w][e] # "idle"
    BY DEF HandlerStep, WinClaim, LoseClaim, ReadClaim, Land, Reject, NoDownstream, Confirm,
           LoseAnswer, Complete, DeadLetter, Abandon, Requeue, XAck, XDel, Refused
  <2>2. e \in 1..Len(log)
    BY <2>1 DEF ReadInOrder, TypeOK, EntryIds, DeliveryAssumption
  <2>3. log[e] \in Entry
    BY <2>2 DEF TypeOK
  <2> QED
    BY <2>1, <2>2, <2>3 DEF Entry, Msg
<1>1. /\ {"idle", "post", "get", "xack", "dead", "backoff", "landed", "complete",
          "dl_abandon", "requeue", "xdel"} \subseteq PC
      /\ AfterFailure(e) \in PC
      /\ AfterFailure(e) \in {"backoff", "requeue"} => log[e].rc < MaxRetries
      /\ handler[w][e] \in PC
  BY <1>0 DEF PC, HolderPC, AfterFailure, DeliveryAssumption, TypeOK, EntryIds
<1>2. SUFFICES ASSUME UNCHANGED <<lastDelivered, phase, cursor, stopping>>
               PROVE  TypeOK' /\ ReadInOrder'
  BY DEF HandlerStep, WinClaim, LoseClaim, ReadClaim, Land, Reject, NoDownstream, Confirm,
         LoseAnswer, Complete, DeadLetter, Abandon, Requeue, XAck, XDel, Refused,
         redisVars
\* The handler, whatever its action.
<1>3. /\ faults' \in 0..MaxFaults
      /\ \E q \in PC : /\ handler' = [handler EXCEPT ![w][e] = q]
                       /\ q \in {"backoff", "requeue"} => log[e].rc < MaxRetries
  <2>1. ASSUME NEW pc \in PC, pc \in {"backoff", "requeue"} => log[e].rc < MaxRetries,
               Answered(w, e, pc)
        PROVE  <1>3!1 /\ <1>3!2
    <3>1. handler[w][e] \in {"backoff", "requeue"} => log[e].rc < MaxRetries
      BY DEF ReadInOrder
    <3>2. PICK q \in {pc, "idle", handler[w][e]} : handler' = [handler EXCEPT ![w][e] = q]
      BY <2>1, AnsweredMoves
    <3>3. q \in PC /\ (q \in {"backoff", "requeue"} => log[e].rc < MaxRetries)
      BY <2>1, <3>1, <3>2, <1>1
    <3> QED
      BY <2>1, <3>2, <3>3, AnsweredMoves
  <2>2. ASSUME NEW q \in PC, q \in {"backoff", "requeue"} => log[e].rc < MaxRetries,
               Goes(w, e, q), Fault \/ UNCHANGED faults
        PROVE  <1>3!1 /\ <1>3!2
    <3>1. faults' \in 0..MaxFaults
      BY <2>2 DEF Fault, TypeOK, DeliveryAssumption
    <3> QED
      BY <2>2, <3>1 DEF Goes
  <2>3. CASE WinClaim(w, e)
    BY <2>1, <2>3, <1>1 DEF WinClaim
  <2>4. CASE LoseClaim(w, e) \/ ReadClaim(w, e)
    BY <2>1, <2>4, <1>1 DEF LoseClaim, ReadClaim
  <2>5. CASE \/ Land(w, e) \/ Reject(w, e) \/ NoDownstream(w, e)
             \/ Confirm(w, e) \/ LoseAnswer(w, e)
    BY <2>2, <2>5, <1>1 DEF Land, Reject, NoDownstream, Confirm, LoseAnswer
  <2>6. CASE Complete(w, e) \/ DeadLetter(w, e)
    BY <2>1, <2>6, <1>1 DEF Complete, DeadLetter
  <2>7. CASE Abandon(w, e)
    <3>1. handler[w][e] = "backoff" => log[e].rc < MaxRetries
      BY DEF ReadInOrder
    <3> QED
      BY <2>1, <2>7, <3>1, <1>1 DEF Abandon
  <2>8. CASE Requeue(w, e) \/ XAck(w, e) \/ XDel(w, e)
    BY <2>1, <2>8, <1>1 DEF Requeue, XAck, XDel
  <2>9. CASE Refused(w, e)
    BY <2>2, <2>9, <1>1 DEF Refused
  <2> QED
    BY <2>3, <2>4, <2>5, <2>6, <2>7, <2>8, <2>9 DEF HandlerStep
\* The stream: only a requeue adds to it.
<1>4. /\ log' \in Seq(Entry) /\ Len(log') <= MaxEntries
      /\ Len(log) <= Len(log')
      /\ \A i \in 1..Len(log) : log'[i] = log[i]
      /\ present' \subseteq EntryIds /\ present' \subseteq 1..Len(log')
      /\ pel' \subseteq pel /\ stale' \subseteq pel'
  <2>1. CASE Requeue(w, e)
    <3>1. log[e].rc + 1 \in 0..MaxRetries
      BY <2>1, <1>0 DEF Requeue, ReadInOrder, DeliveryAssumption
    <3>2. XAdd(Msg(e), log[e].rc + 1)
      BY <2>1 DEF Requeue
    <3>3. /\ log' \in Seq(Entry) /\ Len(log') = Len(log) + 1 /\ Len(log') <= MaxEntries
          /\ \A i \in 1..Len(log) : log'[i] = log[i]
          /\ present' \subseteq present \union {Len(log) + 1}
      BY <3>1, <3>2, <1>0, XAddAppends
    <3>4. UNCHANGED <<pel, stale>>
      BY <2>1 DEF Requeue
    <3>5. Len(log) \in Nat /\ Len(log) + 1 \in EntryIds
      BY <3>3 DEF TypeOK, EntryIds, DeliveryAssumption
    <3>6. present' \subseteq 1..Len(log')
      <4>1. present \subseteq 1..Len(log)
        BY DEF ReadInOrder
      <4>2. present' \subseteq 1..(Len(log) + 1)
        BY <3>3, <3>5, <4>1
      <4> QED
        BY <3>3, <4>2
    <3> QED
      BY <3>3, <3>4, <3>5, <3>6 DEF TypeOK
  <2>2. CASE ~Requeue(w, e)
    <3>1. UNCHANGED log
      BY <2>2 DEF HandlerStep, WinClaim, LoseClaim, ReadClaim, Land, Reject, NoDownstream, Confirm,
           LoseAnswer, Complete, DeadLetter, Abandon, XAck, XDel, Refused, redisVars
    <3>2. present' \subseteq present
      BY <2>2 DEF HandlerStep, WinClaim, LoseClaim, ReadClaim, Land, Reject, NoDownstream, Confirm,
           LoseAnswer, Complete, DeadLetter, Abandon, XAck, XDel, Refused, redisVars
    <3>3. UNCHANGED <<pel, stale>> \/ (pel' = pel \ {e} /\ stale' = stale \ {e})
      BY <2>2 DEF HandlerStep, WinClaim, LoseClaim, ReadClaim, Land, Reject, NoDownstream, Confirm,
           LoseAnswer, Complete, DeadLetter, Abandon, XAck, XDel, Refused, redisVars
    <3>4. Len(log) \in Nat /\ present \subseteq 1..Len(log) /\ present \subseteq EntryIds
      BY DEF TypeOK, ReadInOrder
    <3>5. stale' \subseteq pel' /\ pel' \subseteq pel
      BY <3>3 DEF TypeOK
    <3>6. log' \in Seq(Entry) /\ Len(log') <= MaxEntries
      BY <3>1 DEF TypeOK
    <3> QED
      BY <3>1, <3>2, <3>4, <3>5, <3>6
  <2> QED
    BY <2>1, <2>2
\* The claims and the ends of events.
<1>5. /\ claim' \in [Msgs -> {"none", "inflight", "done"}]
      /\ dlq' \subseteq Msgs /\ received' \subseteq Msgs /\ confirmed' \subseteq Msgs
  <2>1. \/ UNCHANGED claim
        \/ \E c \in {"none", "inflight", "done"} : claim' = [claim EXCEPT ![Msg(e)] = c]
    BY DEF HandlerStep, WinClaim, LoseClaim, ReadClaim, Land, Reject, NoDownstream, Confirm,
           LoseAnswer, Complete, DeadLetter, Abandon, Requeue, XAck, XDel, Refused,
           redisVars
  <2>2. /\ UNCHANGED dlq \/ dlq' = dlq \union {Msg(e)}
        /\ UNCHANGED received \/ received' = received \union {Msg(e)}
        /\ UNCHANGED confirmed \/ confirmed' = confirmed \union {Msg(e)}
    BY DEF HandlerStep, WinClaim, LoseClaim, ReadClaim, Land, Reject, NoDownstream, Confirm,
           LoseAnswer, Complete, DeadLetter, Abandon, Requeue, XAck, XDel, Refused,
           redisVars
  <2> QED
    BY <2>1, <2>2, <1>0 DEF TypeOK
<1>6. PICK q \in PC : /\ handler' = [handler EXCEPT ![w][e] = q]
                      /\ q \in {"backoff", "requeue"} => log[e].rc < MaxRetries
  BY <1>3
<1>7. handler' \in [Workers -> [EntryIds -> PC]]
  <2>1. handler' = [handler EXCEPT ![w][e] = q]
    BY <1>6
  <2>2. handler \in [Workers -> [EntryIds -> PC]]
    BY DEF TypeOK
  <2> QED
    BY <2>1, <2>2
<1>8. ReadInOrder'
  <2>1. Len(log') \in Nat
    BY <1>4
  <2>2. lastDelivered' = lastDelivered
    BY <1>2
  <2>3. handler' = [handler EXCEPT ![w][e] = q]
    BY <1>6
  <2>4. q \in {"backoff", "requeue"} => log[e].rc < MaxRetries
    BY <1>6
  <2> QED
    BY <1>0, <1>4, <2>1, <2>2, <2>3, <2>4, HandlerMoves
<1> QED
  BY <1>2, <1>3, <1>4, <1>5, <1>7, <1>8 DEF TypeOK

\* Reading or reclaiming starts handlers on entries that were read.
LEMMA BatchBegins ==
  ASSUME TypeOK, ReadInOrder, NEW w \in Workers, NEW batch, Begins(w, batch),
         UNCHANGED log, lastDelivered' \in 0..Len(log), lastDelivered <= lastDelivered',
         present' \subseteq 1..Len(log'),
         \A e \in batch \union pel' : e <= lastDelivered'
  PROVE  handler' \in [Workers -> [EntryIds -> PC]] /\ ReadInOrder'
<1>1. {"begin", "idle"} \subseteq PC
  BY DEF PC
<1>2. handler' \in [Workers -> [EntryIds -> PC]]
  BY <1>1 DEF Begins, TypeOK
<1>3. ASSUME NEW v \in Workers, NEW e \in EntryIds
      PROVE  /\ handler'[v][e] # "idle" => e <= lastDelivered'
             /\ handler'[v][e] \in {"backoff", "requeue"} => log'[e].rc < MaxRetries
  <2>1. CASE v = w
    <3>1. handler'[v][e] = IF e \in batch THEN "begin" ELSE "idle"
      BY <2>1 DEF Begins, TypeOK
    <3> QED
      BY <3>1
  <2>2. CASE v # w
    <3>1. handler'[v][e] = handler[v][e]
      BY <2>2 DEF Begins, TypeOK
    <3>2. /\ lastDelivered \in Nat /\ lastDelivered' \in Nat /\ e \in Nat
      BY DeliveryAssumption DEF TypeOK, EntryIds, DeliveryAssumption
    <3> QED
      BY <3>1, <3>2 DEF ReadInOrder
  <2> QED
    BY <2>1, <2>2
<1>4. lastDelivered' <= Len(log')
  BY DEF TypeOK
<1> QED
  BY <1>2, <1>3, <1>4 DEF ReadInOrder

\* So does every step of the worker loop, whatever ids XREADGROUP or XAUTOCLAIM
\* returns.
LEMMA LoopStepTypes ==
  ASSUME TypeOK, ReadInOrder, NEW w \in Workers, LoopStep(w)
  PROVE  TypeOK' /\ ReadInOrder'
<1> USE DeliveryAssumption
<1>0. /\ Len(log) \in Nat /\ lastDelivered \in 0..Len(log)
      /\ Len(log) <= MaxEntries /\ MaxEntries \in Nat
      /\ {"down", "sweep", "reclaimed", "read", "fresh", "stopped"} \subseteq Phase
      /\ present \subseteq 1..Len(log)
  BY DEF TypeOK, ReadInOrder, DeliveryAssumption, Phase
<1>1. CASE Start(w) \/ EndBatch(w) \/ Stop(w)
  <2>1. UNCHANGED <<redisVars, received, confirmed, handler, cursor, stopping, faults>>
    BY <1>1 DEF Start, EndBatch, Stop
  <2>2. phase' \in [Workers -> Phase]
    BY <1>0, <1>1 DEF Start, EndBatch, Stop, TypeOK
  <2> QED
    BY <2>1, <2>2 DEF TypeOK, ReadInOrder, redisVars
<1>2. CASE Sweep(w)
  <2>1. PICK taken \in FirstOf({e \in pel : e >= cursor[w] /\ (e \in stale \/ e \notin present)}) :
          /\ pel' = pel \ (taken \ present)
          /\ stale' = stale \ taken
          /\ \/ /\ Begins(w, taken \intersect present)
                /\ \E next \in {0} \union pel :
                     NextCursor(taken, next) /\ cursor' = [cursor EXCEPT ![w] = next]
                /\ phase' = [phase EXCEPT ![w] = "reclaimed"]
                /\ UNCHANGED faults
             \/ Fault /\ UNCHANGED <<handler, cursor, phase>>
    BY <1>2 DEF Sweep
  <2>2. UNCHANGED <<log, present, lastDelivered, claim, dlq, received, confirmed, stopping>>
    BY <1>2 DEF Sweep
  <2>3. taken \subseteq pel
    BY DEF FirstOf
  <2>4. stale' \subseteq pel' /\ pel' \subseteq pel
    BY <2>1 DEF TypeOK
  <2>5. \A e \in pel : e <= lastDelivered
    BY DEF ReadInOrder
  <2>6. CASE Fault /\ UNCHANGED <<handler, cursor, phase>>
    <3>1. faults' \in 0..MaxFaults
      BY <2>6 DEF Fault, TypeOK, DeliveryAssumption
    <3>2. ReadInOrder'
      BY <2>2, <2>4, <2>6 DEF ReadInOrder
    <3> QED
      BY <2>2, <2>4, <2>6, <3>1, <3>2 DEF TypeOK
  <2>7. CASE ~(Fault /\ UNCHANGED <<handler, cursor, phase>>)
    <3>1. /\ Begins(w, taken \intersect present)
          /\ phase' = [phase EXCEPT ![w] = "reclaimed"]
          /\ UNCHANGED faults
      BY <2>1, <2>7
    <3>2. PICK next \in {0} \union pel : cursor' = [cursor EXCEPT ![w] = next]
      BY <2>1, <2>7
    <3>3. next \in 0..MaxEntries
      BY <3>2 DEF TypeOK, EntryIds, DeliveryAssumption
    <3>4. /\ phase' \in [Workers -> Phase]
          /\ cursor' \in [Workers -> 0..MaxEntries]
      BY <1>0, <3>1, <3>2, <3>3 DEF TypeOK
    <3>5. handler' \in [Workers -> [EntryIds -> PC]] /\ ReadInOrder'
      BY <1>0, <2>2, <2>3, <2>4, <2>5, <3>1, BatchBegins
    <3> QED
      BY <2>2, <2>4, <3>1, <3>4, <3>5 DEF TypeOK
  <2> QED
    BY <2>6, <2>7
<1>3. CASE ReadNew(w)
  <2>1. PICK taken \in FirstOf({e \in present : e > lastDelivered}) :
          /\ pel' = pel \union taken
          /\ \E last \in IF taken = {} THEN {lastDelivered} ELSE taken :
               (\A e \in taken : e <= last) /\ lastDelivered' = last
          /\ \/ /\ Begins(w, taken)
                /\ phase' = [phase EXCEPT ![w] = "fresh"]
                /\ UNCHANGED faults
             \/ /\ Fault
                /\ \/ phase' = [phase EXCEPT ![w] = "sweep"]
                   \/ Resend /\ UNCHANGED phase
                /\ UNCHANGED handler
    BY <1>3 DEF ReadNew
  <2>2. UNCHANGED <<log, present, stale, claim, dlq, received, confirmed, cursor, stopping>>
    BY <1>3 DEF ReadNew
  <2>3. taken \subseteq present /\ \A e \in taken : e > lastDelivered
    BY DEF FirstOf
  <2>4. PICK last \in IF taken = {} THEN {lastDelivered} ELSE taken :
          (\A e \in taken : e <= last) /\ lastDelivered' = last
    BY <2>1
  <2>5. lastDelivered' \in 0..Len(log) /\ lastDelivered <= lastDelivered'
    BY <1>0, <2>3, <2>4
  <2>6. \A e \in taken \union pel' : e <= lastDelivered'
    <3>1. \A e \in pel : e \in Nat /\ e <= lastDelivered
      BY DEF ReadInOrder, TypeOK, EntryIds, DeliveryAssumption
    <3> QED
      BY <1>0, <2>1, <2>4, <2>5, <3>1
  <2>7. pel' \subseteq EntryIds /\ stale' \subseteq pel'
    BY <2>1, <2>2, <2>3 DEF TypeOK
  <2>8. phase' \in [Workers -> Phase] /\ faults' \in 0..MaxFaults
    <3>1. \/ phase' = [phase EXCEPT ![w] = "fresh"]
          \/ phase' = [phase EXCEPT ![w] = "sweep"]
          \/ phase' = phase
      BY <2>1
    <3>2. phase' \in [Workers -> Phase]
      BY <1>0, <3>1 DEF TypeOK
    <3>3. faults' = faults \/ Fault
      BY <2>1
    <3>4. faults' \in 0..MaxFaults
      <4>1. faults \in 0..MaxFaults /\ MaxFaults \in Nat
        BY DEF TypeOK, DeliveryAssumption
      <4>2. CASE faults' = faults
        BY <4>1, <4>2
      <4>3. CASE Fault
        BY <4>1, <4>3 DEF Fault
      <4> QED
        BY <3>3, <4>2, <4>3
    <3> QED
      BY <3>2, <3>4
  <2>9. handler' \in [Workers -> [EntryIds -> PC]] /\ ReadInOrder'
    <3>1. CASE Begins(w, taken)
      BY <1>0, <2>2, <2>5, <2>6, <3>1, BatchBegins
    <3>2. CASE UNCHANGED handler
      <4>1. \A v \in Workers, e \in EntryIds :
              handler[v][e] # "idle" => e <= lastDelivered'
        <5>1. \A e \in EntryIds : e \in Nat
          BY DEF EntryIds, DeliveryAssumption
        <5> QED
          BY <1>0, <2>5, <5>1 DEF ReadInOrder
      <4>2. lastDelivered' <= Len(log') /\ present' \subseteq 1..Len(log')
        BY <1>0, <2>2, <2>5
      <4> QED
        BY <2>2, <2>6, <3>2, <4>1, <4>2 DEF ReadInOrder, TypeOK
    <3> QED
      BY <2>1, <3>1, <3>2
  <2>10. lastDelivered' \in 0..MaxEntries
    BY <1>0, <2>5
  <2> QED
    BY <2>2, <2>7, <2>8, <2>9, <2>10 DEF TypeOK
<1> QED
  BY <1>1, <1>2, <1>3 DEF LoopStep

\* An event that the API adds is one that nobody has read.
LEMMA PublishTypes ==
  ASSUME TypeOK, ReadInOrder, NEW m \in Msgs, XAdd(m, 0),
         UNCHANGED <<lastDelivered, pel, stale, claim, dlq, received, confirmed,
                     workerVars>>,
         faults' \in 0..MaxFaults
  PROVE  TypeOK' /\ ReadInOrder'
<1> USE DeliveryAssumption
<1>1. 0 \in 0..MaxRetries
  BY DEF DeliveryAssumption
<1>2. /\ log' \in Seq(Entry) /\ Len(log') = Len(log) + 1 /\ Len(log') <= MaxEntries
      /\ \A i \in 1..Len(log) : log'[i] = log[i]
      /\ present' \subseteq present \union {Len(log) + 1}
  BY <1>1, XAddAppends
<1>3. /\ Len(log) \in Nat /\ lastDelivered \in 0..Len(log)
      /\ present' \subseteq 1..Len(log') /\ 1..Len(log') \subseteq EntryIds
  BY <1>2 DEF TypeOK, ReadInOrder, EntryIds, DeliveryAssumption
<1>4. TypeOK'
  BY <1>2, <1>3 DEF TypeOK, workerVars
<1>5. ASSUME NEW w \in Workers, NEW e \in EntryIds
      PROVE  /\ handler'[w][e] # "idle" => e <= lastDelivered'
             /\ handler'[w][e] \in {"backoff", "requeue"} => log'[e].rc < MaxRetries
  <2>1. handler[w][e] # "idle" => e \in 1..Len(log)
    BY <1>3 DEF ReadInOrder, EntryIds, DeliveryAssumption
  <2>2. UNCHANGED <<handler, lastDelivered>>
    BY DEF workerVars
  <2>3. CASE handler[w][e] = "idle"
    BY <2>2, <2>3
  <2>4. CASE handler[w][e] # "idle"
    <3>1. log'[e].rc = log[e].rc
      BY <1>2, <2>1, <2>4
    <3> QED
      BY <2>2, <3>1 DEF ReadInOrder
  <2> QED
    BY <2>3, <2>4
<1> QED
  BY <1>2, <1>3, <1>4, <1>5 DEF ReadInOrder

\* The types hold from the start and after every step, and with them what is
\* read in order.
LEMMA TypesInductive ==
  /\ Init => TypeOK /\ ReadInOrder
  /\ TypeOK /\ ReadInOrder /\ [Next]_vars => TypeOK' /\ ReadInOrder'
<1> USE DeliveryAssumption
<1>1. Init => TypeOK /\ ReadInOrder
  <2> SUFFICES ASSUME Init PROVE TypeOK /\ ReadInOrder
    OBVIOUS
  <2>1. /\ log \in Seq(Entry) /\ Len(log) = 0
        /\ "idle" \in PC /\ "down" \in Phase
    BY DEF Init, PC, Phase
  <2> QED
    BY <2>1 DEF Init, TypeOK, ReadInOrder, DeliveryAssumption
<1>2. TypeOK /\ ReadInOrder /\ [Next]_vars => TypeOK' /\ ReadInOrder'
  <2> SUFFICES ASSUME TypeOK, ReadInOrder, [Next]_vars
               PROVE  TypeOK' /\ ReadInOrder'
    OBVIOUS
  <2>1. CASE \E m \in Msgs : Publish(m) \/ PublishAgain(m)
    <3>1. PICK m \in Msgs : Publish(m) \/ PublishAgain(m)
      BY <2>1
    <3>2. faults' \in 0..MaxFaults
      BY <3>1 DEF Publish, PublishAgain, Fault, TypeOK, DeliveryAssumption
    <3> QED
      BY <3>1, <3>2, PublishTypes DEF Publish, PublishAgain
  <2>2. CASE \E m \in Msgs : ClaimLapses(m) \/ MarkerLapses(m)
    <3>1. PICK m \in Msgs : ClaimLapses(m) \/ MarkerLapses(m)
      BY <2>2
    <3>2. /\ claim' = [claim EXCEPT ![m] = "none"]
          /\ UNCHANGED <<log, present, lastDelivered, pel, stale, dlq,
                         received, confirmed, handler, phase, cursor, stopping, faults>>
      BY <3>1 DEF ClaimLapses, MarkerLapses, workerVars
    <3>3. TypeOK'
      BY <3>2 DEF TypeOK
    <3> QED
      BY <3>2, <3>3 DEF ReadInOrder
  <2>3. CASE \E e \in EntryIds : GoStale(e)
    BY <2>3 DEF GoStale, TypeOK, ReadInOrder, workerVars
  <2>4. CASE \E w \in Workers, e \in EntryIds : HandlerStep(w, e)
    BY <2>4, HandlerStepTypes
  <2>5. CASE \E w \in Workers : LoopStep(w)
    BY <2>5, LoopStepTypes
  <2>6. CASE \E w \in Workers : RequestShutdown(w)
    BY <2>6 DEF RequestShutdown, TypeOK, ReadInOrder, redisVars, DeliveryAssumption
  <2>7. CASE \E w \in Workers : Crash(w)
    <3>1. PICK w \in Workers : Crash(w)
      BY <2>7
    <3>2. /\ "idle" \in PC /\ {"down", "stopped"} \subseteq Phase
          /\ faults' \in 0..MaxFaults /\ 0 \in 0..MaxEntries
      BY <3>1 DEF PC, Phase, Crash, Fault, TypeOK, DeliveryAssumption
    <3>3. TypeOK'
      BY <3>1, <3>2 DEF Crash, TypeOK, redisVars
    <3>4. \A v \in Workers, e \in EntryIds : handler'[v][e] \in {"idle", handler[v][e]}
      BY <3>1 DEF Crash, TypeOK
    <3> QED
      BY <3>1, <3>3, <3>4 DEF Crash, ReadInOrder, redisVars
  <2>8. CASE UNCHANGED vars
    BY <2>8 DEF vars, redisVars, workerVars, TypeOK, ReadInOrder
  <2> QED
    BY <2>1, <2>2, <2>3, <2>4, <2>5, <2>6, <2>7, <2>8 DEF Next
<1> QED
  BY <1>1, <1>2

\* Every state has its types, whatever the constants: retry_count in the stream
\* stays within MAX_RETRIES, ids within the stream, every handler at a known step.
THEOREM TypeCorrect == Spec => []TypeOK
<1>1. Init => TypeOK /\ ReadInOrder
  BY TypesInductive
<1>2. TypeOK /\ ReadInOrder /\ [Next]_vars => (TypeOK /\ ReadInOrder)'
  BY TypesInductive
<1> QED
  BY <1>1, <1>2, PTL DEF Spec

-----------------------------------------------------------------------------
(* No loss *)

\* A step that keeps the log, the settled events and the live entries, and
\* leaves every handler it moves grounded, keeps the invariant.
LEMMA CarriesOver ==
  ASSUME TypeOK, ReadInOrder, NoLossInv,
         Len(log') \in {Len(log), Len(log) + 1},
         \A i \in 1..Len(log) : log'[i] = log[i],
         received \subseteq received', dlq \subseteq dlq',
         \A f \in 1..Len(log) : Live(f) => Live(f)',
         \A f \in 1..Len(log') : f \notin 1..Len(log) => Live(f)',
         \A f \in pel' : f \in pel \/ f > lastDelivered,
         PendingPresent', DoneIsReceived',
         \A v \in Workers, f \in EntryIds :
           handler'[v][f] \in {handler[v][f], "idle", "begin"} \/ Grounded(v, f)'
  PROVE  NoLossInv'
<1>0. /\ Len(log) \in Nat /\ EntryIds \subseteq Nat /\ lastDelivered \in Nat
      /\ lastDelivered <= Len(log) /\ 1..Len(log) \subseteq 1..Len(log')
  BY DeliveryAssumption DEF TypeOK, ReadInOrder, EntryIds, DeliveryAssumption
<1>1. NoLoss'
  <2> SUFFICES ASSUME NEW f \in 1..Len(log')
               PROVE  (Settled(Msg(f)) \/ Copies(Msg(f)) # {})'
    BY DEF NoLoss
  <2>1. CASE f \in 1..Len(log)
    <3>1. Msg(f)' = Msg(f)
      BY <2>1 DEF Msg
    <3>2. Settled(Msg(f)) \/ Copies(Msg(f)) # {}
      BY <2>1 DEF NoLossInv, NoLoss
    <3>3. Settled(Msg(f))' \/ \E c \in Copies(Msg(f)) : c \in Copies(Msg(f))'
      <4>1. CASE Settled(Msg(f))
        BY <3>1, <4>1 DEF Settled
      <4>2. CASE Copies(Msg(f)) # {}
        BY <1>0, <3>1, <4>2 DEF Copies, Msg
      <4> QED
        BY <3>2, <4>1, <4>2
    <3> QED
      BY <3>3
  <2>2. CASE f \notin 1..Len(log)
    <3>1. Live(f)'
      BY <2>2
    <3> QED
      BY <3>1 DEF Copies
  <2> QED
    BY <2>1, <2>2
<1>2. ASSUME NEW v \in Workers, NEW f \in EntryIds PROVE Grounded(v, f)'
  <2>1. CASE Grounded(v, f)'
    BY <2>1
  <2>2. CASE handler'[v][f] \in {"idle", "begin"}
    BY <2>2 DEF Grounded
  <2>3. CASE handler'[v][f] = handler[v][f] /\ handler[v][f] # "idle"
    <3>1. f \in 1..Len(log) /\ f <= lastDelivered
      BY <1>0, <2>3, DeliveryAssumption DEF ReadInOrder, EntryIds, DeliveryAssumption
    <3>2. Msg(f)' = Msg(f)
      BY <3>1 DEF Msg
    <3>3. Grounded(v, f)
      BY DEF NoLossInv
    <3>4. handler[v][f] = "xdel" => f \notin pel'
      BY <1>0, <3>1, <3>3 DEF Grounded
    <3>5. handler[v][f] = "xack" =>
            Settled(Msg(f))' \/ \E later \in Copies(Msg(f))' : later > f
      <4>1. CASE Settled(Msg(f))
        BY <3>2, <4>1 DEF Settled
      <4>2. ASSUME NEW later \in Copies(Msg(f)), later > f
            PROVE  later \in Copies(Msg(f))'
        BY <1>0, <3>2, <4>2 DEF Copies, Msg
      <4> QED
        BY <3>3, <4>1, <4>2 DEF Grounded
    <3> QED
      BY <2>3, <3>2, <3>3, <3>4, <3>5 DEF Grounded
  <2> QED
    BY <2>1, <2>2, <2>3
<1> QED
  BY <1>1, <1>2 DEF NoLossInv

\* An XADD that drops nothing leaves every entry as live as it was and adds one
\* that no worker has read.
LEMMA XAddKeepsLive ==
  ASSUME TypeOK, ReadInOrder, NEW m \in Msgs, NEW rc \in 0..MaxRetries, XAdd(m, rc),
         ~Trims, UNCHANGED <<lastDelivered, pel>>
  PROVE  /\ Len(log') = Len(log) + 1
         /\ \A i \in 1..Len(log) : log'[i] = log[i]
         /\ log'[Len(log) + 1].msg = m
         /\ present \subseteq present'
         /\ \A f \in 1..Len(log) : Live(f) => Live(f)'
         /\ \A f \in 1..Len(log') : f \notin 1..Len(log) => Live(f)'
<1>1. /\ Len(log') = Len(log) + 1
      /\ \A i \in 1..Len(log) : log'[i] = log[i]
      /\ log'[Len(log) + 1] = [msg |-> m, rc |-> rc]
  BY XAddAppends
<1>2. Len(log) \in Nat /\ lastDelivered \in Nat /\ lastDelivered <= Len(log)
  BY DeliveryAssumption DEF TypeOK, ReadInOrder, DeliveryAssumption
<1>3. present' = present \union {Len(log) + 1}
  BY <1>1, <1>2 DEF Trims
<1>4. \A f \in 1..Len(log) : Live(f) => Live(f)'
  BY <1>3 DEF Live
<1>5. \A f \in 1..Len(log') : f \notin 1..Len(log) => Live(f)'
  <2> SUFFICES ASSUME NEW f \in 1..Len(log'), f \notin 1..Len(log) PROVE Live(f)'
    OBVIOUS
  <2>1. f = Len(log) + 1
    BY <1>1, <1>2
  <2>2. f \in present' /\ f > lastDelivered'
    BY <1>2, <1>3, <2>1
  <2> QED
    BY <2>2 DEF Live
<1> QED
  BY <1>1, <1>3, <1>4, <1>5

\* Every await of handle() leaves each event settled or with a live entry: the
\* ack comes after the downstream's answer, the dead letter or the requeue.
LEMMA HandlerStepNoLoss ==
  ASSUME TypeOK, ReadInOrder, NoLossInv, ~Trims, Unconfigured = {},
         NEW w \in Workers, NEW e \in EntryIds, HandlerStep(w, e)
  PROVE  NoLossInv'
<1>0. /\ handler[w][e] # "idle" /\ lastDelivered' = lastDelivered
      /\ e \in 1..Len(log) /\ e <= lastDelivered /\ log[e] \in Entry
      /\ Msg(e) \in Msgs /\ Len(log) \in Nat /\ lastDelivered \in Nat
  <2>1. handler[w][e] # "idle" /\ lastDelivered' = lastDelivered
    BY DEF HandlerStep, WinClaim, LoseClaim, ReadClaim, Land, Reject, NoDownstream, Confirm,
           LoseAnswer, Complete, DeadLetter, Abandon, Requeue, XAck, XDel, Refused,
           redisVars
  <2>2. e \in 1..Len(log) /\ e <= lastDelivered
    BY <2>1, DeliveryAssumption DEF ReadInOrder, TypeOK, EntryIds, DeliveryAssumption
  <2>3. log[e] \in Entry
    BY <2>2 DEF TypeOK
  <2> QED
    BY <2>1, <2>2, <2>3, DeliveryAssumption DEF Entry, Msg, TypeOK, DeliveryAssumption
<1>1. Grounded(w, e) /\ PendingPresent /\ DoneIsReceived /\ NoLoss
  BY DEF NoLossInv
\* The states a handler may be moved to without anything to rely on.
<1>2. ASSUME NEW pc \in PC, Answered(w, e, pc) \/ Goes(w, e, pc),
             pc \notin {"landed", "complete", "dl_abandon", "xack", "xdel"}
      PROVE  \A v \in Workers, f \in EntryIds :
               handler'[v][f] \in {handler[v][f], "idle", "begin"} \/ Grounded(v, f)'
  <2>1. "idle" \in PC
    BY DEF PC
  <2>2. PICK q \in {pc, "idle", handler[w][e]} : handler' = [handler EXCEPT ![w][e] = q]
    BY <1>2, <2>1, AnsweredMoves DEF Goes
  <2> SUFFICES ASSUME NEW v \in Workers, NEW f \in EntryIds
               PROVE  handler'[v][f] \in {handler[v][f], "idle", "begin"}
                        \/ Grounded(v, f)'
    OBVIOUS
  <2>3. handler'[v][f] \in {handler[v][f], "idle", pc}
    BY <2>2 DEF TypeOK
  <2> QED
    BY <1>2, <2>3 DEF Grounded
\* Those with something to rely on.
<1>3. ASSUME NEW pc \in PC, Answered(w, e, pc) \/ Goes(w, e, pc),
             handler'[w][e] = pc => Grounded(w, e)'
      PROVE  \A v \in Workers, f \in EntryIds :
               handler'[v][f] \in {handler[v][f], "idle", "begin"} \/ Grounded(v, f)'
  <2>1. PICK q \in {pc, "idle", handler[w][e]} : handler' = [handler EXCEPT ![w][e] = q]
    BY <1>3, AnsweredMoves DEF Goes
  <2> SUFFICES ASSUME NEW v \in Workers, NEW f \in EntryIds
               PROVE  handler'[v][f] \in {handler[v][f], "idle", "begin"}
                        \/ Grounded(v, f)'
    OBVIOUS
  <2>2. CASE v = w /\ f = e
    <3>1. handler'[v][f] = q
      BY <2>1, <2>2 DEF TypeOK
    <3> QED
      BY <1>3, <2>2, <3>1
  <2>3. CASE ~(v = w /\ f = e)
    BY <2>1, <2>3 DEF TypeOK
  <2> QED
    BY <2>2, <2>3
\* A step that leaves the stream alone.
<1>4. ASSUME UNCHANGED <<log, present, pel>>, received \subseteq received', dlq \subseteq dlq',
             DoneIsReceived',
             \A v \in Workers, f \in EntryIds :
               handler'[v][f] \in {handler[v][f], "idle", "begin"} \/ Grounded(v, f)'
      PROVE  NoLossInv'
  <2>1. \A f \in 1..Len(log) : Live(f) => Live(f)'
    BY <1>0, <1>4 DEF Live
  <2>2. PendingPresent'
    BY <1>1, <1>4 DEF PendingPresent
  <2> QED
    BY <1>4, <2>1, <2>2, CarriesOver
<1>5. CASE WinClaim(w, e)
  <2>1. "post" \in PC
    BY DEF PC, HolderPC
  <2>2. DoneIsReceived'
    BY <1>0, <1>1, <1>5 DEF WinClaim, DoneIsReceived, TypeOK
  <2> QED
    BY <1>2, <1>4, <1>5, <2>1, <2>2 DEF WinClaim
<1>6. CASE LoseClaim(w, e)
  <2>1. "get" \in PC
    BY DEF PC
  <2> QED
    BY <1>1, <1>2, <1>4, <1>6, <2>1 DEF LoseClaim, redisVars, DoneIsReceived
<1>7. CASE ReadClaim(w, e)
  <2>1. {"xack", "idle"} \subseteq PC
    BY DEF PC
  <2>2. DoneIsReceived' /\ UNCHANGED <<log, present, pel, received, dlq, lastDelivered>>
    BY <1>1, <1>7 DEF ReadClaim, redisVars, DoneIsReceived
  <2>3. CASE claim[Msg(e)] = "done"
    <3>1. Msg(e) \in received
      BY <1>0, <1>1, <2>3 DEF DoneIsReceived
    <3>2. handler'[w][e] = "xack" => Grounded(w, e)'
      BY <2>2, <3>1 DEF Grounded, Settled, Msg
    <3>3. Answered(w, e, "xack")
      BY <1>7, <2>3 DEF ReadClaim
    <3> QED
      BY <1>3, <1>4, <2>1, <2>2, <3>2, <3>3
  <2>4. CASE claim[Msg(e)] # "done"
    <3>1. Answered(w, e, "idle")
      BY <1>7, <2>4 DEF ReadClaim
    <3> QED
      BY <1>2, <1>4, <2>1, <2>2, <3>1
  <2> QED
    BY <2>3, <2>4
<1>8. CASE Land(w, e)
  <2>1. "landed" \in PC
    BY DEF PC, HolderPC
  <2>2. /\ UNCHANGED <<log, present, pel, claim, dlq>>
        /\ received' = received \union {Msg(e)} /\ Goes(w, e, "landed")
    BY <1>8 DEF Land, redisVars
  <2>3. handler'[w][e] = "landed" => Grounded(w, e)'
    BY <2>2 DEF Grounded, Msg
  <2>4. DoneIsReceived'
    BY <1>1, <2>2 DEF DoneIsReceived
  <2> QED
    BY <1>3, <1>4, <2>1, <2>2, <2>3, <2>4
<1>9. CASE Reject(w, e) \/ LoseAnswer(w, e)
  <2>1. AfterFailure(e) \in PC /\ AfterFailure(e) \in {"dead", "backoff"}
    BY DEF PC, HolderPC, AfterFailure
  <2>2. Goes(w, e, AfterFailure(e)) /\ UNCHANGED <<log, present, pel, claim, dlq, received>>
    BY <1>9 DEF Reject, LoseAnswer, redisVars
  <2>3. DoneIsReceived'
    BY <1>1, <2>2 DEF DoneIsReceived
  <2> QED
    BY <1>2, <1>4, <2>1, <2>2, <2>3
<1>10. CASE Confirm(w, e)
  <2>1. "complete" \in PC
    BY DEF PC, HolderPC
  <2>2. /\ UNCHANGED <<log, present, pel, claim, dlq, received>>
        /\ Goes(w, e, "complete") /\ handler[w][e] = "landed"
    BY <1>10 DEF Confirm, redisVars
  <2>3. handler'[w][e] = "complete" => Grounded(w, e)'
    BY <1>1, <2>2 DEF Grounded, Msg
  <2>4. DoneIsReceived'
    BY <1>1, <2>2 DEF DoneIsReceived
  <2> QED
    BY <1>3, <1>4, <2>1, <2>2, <2>3, <2>4
<1>11. CASE Complete(w, e)
  <2>1. "xack" \in PC
    BY DEF PC
  <2>2. /\ UNCHANGED <<log, present, pel, dlq, received>>
        /\ claim' = [claim EXCEPT ![Msg(e)] = "done"]
        /\ Answered(w, e, "xack") /\ handler[w][e] = "complete"
    BY <1>11 DEF Complete
  <2>3. Msg(e) \in received
    BY <1>1, <2>2 DEF Grounded
  <2>4. handler'[w][e] = "xack" => Grounded(w, e)'
    BY <2>2, <2>3 DEF Grounded, Settled, Msg
  <2>5. DoneIsReceived'
    BY <1>1, <2>2, <2>3 DEF DoneIsReceived, TypeOK
  <2> QED
    BY <1>3, <1>4, <2>1, <2>2, <2>4, <2>5
<1>12. CASE DeadLetter(w, e)
  <2>1. "dl_abandon" \in PC
    BY DEF PC, HolderPC
  <2>2. /\ UNCHANGED <<log, present, pel, claim, received>>
        /\ dlq' = dlq \union {Msg(e)} /\ Answered(w, e, "dl_abandon")
    BY <1>12 DEF DeadLetter
  <2>3. handler'[w][e] = "dl_abandon" => Grounded(w, e)'
    BY <2>2 DEF Grounded, Msg
  <2>4. DoneIsReceived'
    BY <1>1, <2>2 DEF DoneIsReceived
  <2> QED
    BY <1>3, <1>4, <2>1, <2>2, <2>3, <2>4
<1>13. CASE Abandon(w, e)
  <2>1. {"xack", "requeue"} \subseteq PC
    BY DEF PC
  <2>2. /\ UNCHANGED <<log, present, pel, received, dlq>>
        /\ claim' = [claim EXCEPT ![Msg(e)] = "none"]
        /\ handler[w][e] \in {"dl_abandon", "backoff"}
        /\ Answered(w, e, IF handler[w][e] = "backoff" THEN "requeue" ELSE "xack")
    BY <1>13 DEF Abandon
  <2>3. DoneIsReceived'
    BY <1>1, <2>2 DEF DoneIsReceived, TypeOK
  <2>4. CASE handler[w][e] = "backoff"
    BY <1>2, <1>4, <2>1, <2>2, <2>3, <2>4
  <2>5. CASE handler[w][e] = "dl_abandon"
    <3>1. Msg(e) \in dlq
      BY <1>1, <2>5 DEF Grounded
    <3>2. handler'[w][e] = "xack" => Grounded(w, e)'
      BY <2>2, <3>1 DEF Grounded, Settled, Msg
    <3> QED
      BY <1>3, <1>4, <2>1, <2>2, <2>3, <2>5, <3>2
  <2> QED
    BY <2>2, <2>4, <2>5
<1>14. CASE Requeue(w, e)
  <2>1. /\ XAdd(Msg(e), log[e].rc + 1) /\ handler[w][e] = "requeue"
        /\ Answered(w, e, "xack")
        /\ UNCHANGED <<lastDelivered, pel, claim, dlq, received>>
    BY <1>14 DEF Requeue
  <2>2. log[e].rc + 1 \in 0..MaxRetries
    BY <1>0, <2>1, DeliveryAssumption DEF ReadInOrder, Entry, DeliveryAssumption, TypeOK
  <2>3. /\ Len(log') = Len(log) + 1
        /\ \A i \in 1..Len(log) : log'[i] = log[i]
        /\ log'[Len(log) + 1].msg = Msg(e)
        /\ present \subseteq present'
        /\ \A f \in 1..Len(log) : Live(f) => Live(f)'
        /\ \A f \in 1..Len(log') : f \notin 1..Len(log) => Live(f)'
    BY <1>0, <2>1, <2>2, XAddKeepsLive
  <2>4. PendingPresent' /\ DoneIsReceived'
    BY <1>1, <2>1, <2>3 DEF PendingPresent, DoneIsReceived
  \* The entry just added is the later one the ack rests on.
  <2>5. handler'[w][e] = "xack" => Grounded(w, e)'
    <3>1. PICK new \in 1..Len(log') : new = Len(log) + 1
      BY <1>0, <2>3
    <3>2. new > e /\ new \notin 1..Len(log) /\ Msg(e)' = Msg(e) /\ Msg(new)' = Msg(e)
      BY <1>0, <2>3, <3>1 DEF Msg
    <3>3. Live(new)'
      BY <2>3, <3>2
    <3> QED
      BY <3>1, <3>2, <3>3 DEF Grounded, Copies
  <2>6. "xack" \in PC
    BY DEF PC
  <2>7. \A v \in Workers, f \in EntryIds :
          handler'[v][f] \in {handler[v][f], "idle", "begin"} \/ Grounded(v, f)'
    BY <1>3, <2>1, <2>5, <2>6
  <2> QED
    BY <2>1, <2>3, <2>4, <2>7, CarriesOver
<1>15. CASE XDel(w, e)
  <2>1. /\ present' = present \ {e} /\ Answered(w, e, "idle") /\ handler[w][e] = "xdel"
        /\ UNCHANGED <<log, lastDelivered, pel, claim, dlq, received>>
    BY <1>15 DEF XDel
  <2>2. e \notin pel
    BY <1>1, <2>1 DEF Grounded
  <2>3. \A f \in 1..Len(log) : Live(f) => Live(f)'
    BY <1>0, <2>1, <2>2 DEF Live
  <2>4. PendingPresent' /\ DoneIsReceived'
    BY <1>1, <2>1, <2>2 DEF PendingPresent, DoneIsReceived
  <2>5. "idle" \in PC
    BY DEF PC
  <2>6. \A v \in Workers, f \in EntryIds :
          handler'[v][f] \in {handler[v][f], "idle", "begin"} \/ Grounded(v, f)'
    BY <1>2, <2>1, <2>5
  <2> QED
    BY <1>0, <2>1, <2>3, <2>4, <2>6, CarriesOver
<1>16. CASE Refused(w, e)
  <2>1. "idle" \in PC
    BY DEF PC
  <2>2. Goes(w, e, "idle") /\ UNCHANGED <<log, present, pel, claim, dlq, received>>
    BY <1>16 DEF Refused, redisVars
  <2>3. DoneIsReceived'
    BY <1>1, <2>2 DEF DoneIsReceived
  <2> QED
    BY <1>2, <1>4, <2>1, <2>2, <2>3
<1>17. CASE XAck(w, e)
  <2>1. /\ pel' = pel \ {e} /\ Answered(w, e, "xdel") /\ handler[w][e] = "xack"
        /\ UNCHANGED <<log, present, lastDelivered, claim, dlq, received>>
    BY <1>17 DEF XAck
  \* Whatever rested on e can rest on what e's own ack rests on.
  <2>2. Settled(Msg(e)) \/ \E later \in Copies(Msg(e)) : later > e
    BY <1>1, <2>1 DEF Grounded
  <2>3. ASSUME NEW f \in 1..Len(log), f # e, Live(f) PROVE Live(f)'
    BY <2>1, <2>3 DEF Live
  <2>4. ASSUME NEW f \in 1..Len(log), NEW c \in Copies(Msg(f)), c >= f
        PROVE  \/ Settled(Msg(f))'
               \/ \E d \in Copies(Msg(f))' : d >= c
    <3>1. c \in 1..Len(log) /\ Live(c) /\ Msg(c) = Msg(f)
      BY <2>4 DEF Copies
    <3>2. CASE c # e
      <4>1. Live(c)'
        BY <2>3, <3>1, <3>2
      <4> QED
        BY <1>0, <2>1, <3>1, <4>1 DEF Copies, Msg
    <3>3. CASE c = e /\ Settled(Msg(e))
      BY <2>1, <3>1, <3>3 DEF Settled, Msg
    <3>4. CASE c = e /\ ~Settled(Msg(e))
      <4>1. PICK later \in Copies(Msg(e)) : later > e
        BY <2>2, <3>4
      <4>2. later \in 1..Len(log) /\ Live(later) /\ Msg(later) = Msg(f) /\ later # e
        BY <1>0, <3>1, <3>4, <4>1 DEF Copies
      <4>3. Live(later)'
        BY <2>3, <4>2
      <4> QED
        BY <1>0, <2>1, <3>4, <4>1, <4>2, <4>3 DEF Copies, Msg
    <3> QED
      BY <3>2, <3>3, <3>4
  <2>5. NoLoss'
    <3> SUFFICES ASSUME NEW f \in 1..Len(log), ~Settled(Msg(f))'
                 PROVE  Copies(Msg(f))' # {}
      BY <2>1 DEF NoLoss, Settled, Copies, Live, Msg
    <3>1. PICK c \in Copies(Msg(f)) : TRUE
      BY <1>1, <2>1 DEF NoLoss, Settled, Msg
    <3>2. c \in 1..Len(log) /\ Live(c) /\ Msg(c) = Msg(f)
      BY DEF Copies
    <3>3. \E d \in Copies(Msg(c))' : d >= c
      <4>1. c \in Copies(Msg(c)) /\ c >= c
        BY <1>0, <3>2
      <4>2. ~Settled(Msg(c))'
        BY <2>1, <3>2 DEF Settled, Msg
      <4> QED
        BY <2>4, <3>2, <4>1, <4>2
    <3> QED
      BY <2>1, <3>2, <3>3 DEF Copies, Msg
  <2>6. PendingPresent' /\ DoneIsReceived'
    BY <1>1, <2>1 DEF PendingPresent, DoneIsReceived
  <2>7. ASSUME NEW v \in Workers, NEW f \in EntryIds PROVE Grounded(v, f)'
    <3>1. CASE handler'[v][f] \in {"idle", "begin"}
      BY <3>1 DEF Grounded
    <3>2. CASE v = w /\ f = e
      <4>1. handler'[w][e] \in {"xdel", "idle", "xack"}
        <5>1. "xdel" \in PC
          BY DEF PC
        <5>2. PICK q \in {"xdel", "idle", handler[w][e]} :
                handler' = [handler EXCEPT ![w][e] = q]
          BY <2>1, <5>1, AnsweredMoves
        <5> QED
          BY <2>1, <5>2 DEF TypeOK
      <4>2. Settled(Msg(e))' \/ \E later \in Copies(Msg(e))' : later > e
        <5>1. CASE Settled(Msg(e))
          BY <2>1, <5>1 DEF Settled, Msg
        <5>2. CASE ~Settled(Msg(e))
          <6>1. PICK later \in Copies(Msg(e)) : later > e
            BY <2>2, <5>2
          <6>2. later \in 1..Len(log) /\ later # e /\ Live(later) /\ Msg(later) = Msg(e)
            BY <1>0, <6>1 DEF Copies
          <6>3. Live(later)'
            BY <2>3, <6>2
          <6> QED
            BY <2>1, <6>1, <6>2, <6>3 DEF Copies, Msg
        <5> QED
          BY <5>1, <5>2
      <4> QED
        BY <2>1, <3>2, <4>1, <4>2 DEF Grounded
    <3>3. CASE ~(v = w /\ f = e) /\ handler'[v][f] \notin {"idle", "begin"}
      <4>1. handler'[v][f] = handler[v][f]
        <5>1. "xdel" \in PC
          BY DEF PC
        <5>2. PICK q \in {"xdel", "idle", handler[w][e]} :
                handler' = [handler EXCEPT ![w][e] = q]
          BY <2>1, <5>1, AnsweredMoves
        <5> QED
          BY <3>3, <5>2 DEF TypeOK
      <4>2. f \in 1..Len(log)
        BY <1>0, <3>3, <4>1, DeliveryAssumption
        DEF ReadInOrder, EntryIds, DeliveryAssumption
      <4>3. Grounded(v, f)
        BY DEF NoLossInv
      <4>4. handler[v][f] = "xack" =>
              Settled(Msg(f))' \/ \E later \in Copies(Msg(f))' : later > f
        <5> SUFFICES ASSUME handler[v][f] = "xack", ~Settled(Msg(f))'
                     PROVE  \E later \in Copies(Msg(f))' : later > f
          OBVIOUS
        <5>1. ~Settled(Msg(f))
          BY <2>1 DEF Settled, Msg
        <5>2. PICK c \in Copies(Msg(f)) : c > f
          BY <4>3, <5>1 DEF Grounded
        <5>3. c \in 1..Len(log)
          BY DEF Copies
        <5>4. PICK d \in Copies(Msg(f))' : d >= c
          BY <1>0, <2>4, <4>2, <5>2, <5>3
        <5>5. d \in 1..Len(log)
          BY <2>1, <5>4 DEF Copies
        <5> QED
          BY <1>0, <4>2, <5>2, <5>3, <5>4, <5>5
      <4> QED
        BY <2>1, <4>1, <4>3, <4>4 DEF Grounded, Msg
    <3> QED
      BY <3>1, <3>2, <3>3
  <2> QED
    BY <2>5, <2>6, <2>7 DEF NoLossInv
<1>18. CASE NoDownstream(w, e)
  BY <1>18 DEF NoDownstream
<1> QED
  BY <1>5, <1>6, <1>7, <1>8, <1>9, <1>10, <1>11, <1>12, <1>13, <1>14, <1>15, <1>16,
     <1>17, <1>18 DEF HandlerStep

\* Reading makes unread entries pending and reclaiming hands pending ones over:
\* neither ends the life of an entry that is in the stream.
LEMMA LoopStepNoLoss ==
  ASSUME TypeOK, ReadInOrder, NoLossInv, NEW w \in Workers, LoopStep(w)
  PROVE  NoLossInv'
<1>0. /\ Len(log) \in Nat /\ lastDelivered \in Nat /\ EntryIds \subseteq Nat
      /\ PendingPresent /\ DoneIsReceived
  BY DeliveryAssumption DEF TypeOK, EntryIds, NoLossInv, DeliveryAssumption
<1>1. ASSUME NEW batch, Begins(w, batch) \/ UNCHANGED handler
      PROVE  \A v \in Workers, f \in EntryIds :
               handler'[v][f] \in {handler[v][f], "idle", "begin"} \/ Grounded(v, f)'
  BY <1>1 DEF Begins, TypeOK
<1>2. CASE Start(w) \/ EndBatch(w) \/ Stop(w)
  <2>1. UNCHANGED <<redisVars, received, handler>>
    BY <1>2 DEF Start, EndBatch, Stop
  <2>2. \A f \in 1..Len(log) : Live(f) => Live(f)'
    BY <2>1 DEF Live, redisVars
  <2>3. PendingPresent' /\ DoneIsReceived'
    BY <1>0, <2>1 DEF PendingPresent, DoneIsReceived, redisVars
  <2> QED
    BY <1>0, <2>1, <2>2, <2>3, CarriesOver DEF redisVars
<1>3. CASE Sweep(w)
  <2>1. PICK taken \in FirstOf({e \in pel : e >= cursor[w] /\ (e \in stale \/ e \notin present)}) :
          /\ pel' = pel \ (taken \ present)
          /\ Begins(w, taken \intersect present) \/ UNCHANGED handler
    BY <1>3 DEF Sweep
  <2>2. UNCHANGED <<log, present, lastDelivered, claim, dlq, received>>
    BY <1>3 DEF Sweep
  <2>3. pel' = pel
    BY <1>0, <2>1 DEF FirstOf, PendingPresent
  <2>4. \A f \in 1..Len(log) : Live(f) => Live(f)'
    BY <2>2, <2>3 DEF Live
  <2>5. PendingPresent' /\ DoneIsReceived'
    BY <1>0, <2>2, <2>3 DEF PendingPresent, DoneIsReceived
  <2>6. \A v \in Workers, f \in EntryIds :
          handler'[v][f] \in {handler[v][f], "idle", "begin"} \/ Grounded(v, f)'
    BY <1>1, <2>1
  <2> QED
    BY <1>0, <2>2, <2>3, <2>4, <2>5, <2>6, CarriesOver
<1>4. CASE ReadNew(w)
  <2>1. PICK taken \in FirstOf({e \in present : e > lastDelivered}) :
          /\ pel' = pel \union taken
          /\ \E last \in IF taken = {} THEN {lastDelivered} ELSE taken :
               (\A e \in taken : e <= last) /\ lastDelivered' = last
          /\ Begins(w, taken) \/ UNCHANGED handler
    BY <1>4 DEF ReadNew
  <2>2. UNCHANGED <<log, present, claim, dlq, received>>
    BY <1>4 DEF ReadNew
  <2>3. /\ taken \subseteq present /\ \A e \in taken : e > lastDelivered
        /\ \A e \in taken, f \in present : f > lastDelivered /\ f < e => f \in taken
    BY DEF FirstOf
  \* What was unread is either in the batch or behind it.
  <2>4. ASSUME NEW f \in 1..Len(log), Live(f) PROVE Live(f)'
    <3>1. f \in present /\ (f \in pel \/ f > lastDelivered)
      BY <2>4 DEF Live
    <3>2. CASE f \in pel
      BY <2>1, <2>2, <3>1, <3>2 DEF Live
    <3>3. CASE f > lastDelivered
      <4>1. PICK last \in IF taken = {} THEN {lastDelivered} ELSE taken :
              (\A e \in taken : e <= last) /\ lastDelivered' = last
        BY <2>1
      <4>2. present \subseteq EntryIds
        BY DEF TypeOK
      <4>3. f \in taken \/ f > lastDelivered'
        BY <1>0, <2>3, <3>1, <3>3, <4>1, <4>2
      <4> QED
        BY <2>1, <2>2, <3>1, <4>3 DEF Live
    <3> QED
      BY <3>1, <3>2, <3>3
  <2>5. PendingPresent' /\ DoneIsReceived'
    BY <1>0, <2>1, <2>2, <2>3 DEF PendingPresent, DoneIsReceived
  <2>6. \A v \in Workers, f \in EntryIds :
          handler'[v][f] \in {handler[v][f], "idle", "begin"} \/ Grounded(v, f)'
    BY <1>1, <2>1
  <2> QED
    BY <1>0, <2>1, <2>2, <2>3, <2>4, <2>5, <2>6, CarriesOver
<1> QED
  BY <1>2, <1>3, <1>4 DEF LoopStep

\* An event that the API adds is live until somebody reads it.
LEMMA PublishNoLoss ==
  ASSUME TypeOK, ReadInOrder, NoLossInv, ~Trims, NEW m \in Msgs, XAdd(m, 0),
         UNCHANGED <<lastDelivered, pel, claim, dlq, received, handler>>
  PROVE  NoLossInv'
<1>1. Len(log) \in Nat /\ PendingPresent /\ DoneIsReceived
  BY DEF TypeOK, NoLossInv
<1>2. 0 \in 0..MaxRetries
  BY DeliveryAssumption DEF DeliveryAssumption
<1>3. /\ Len(log') = Len(log) + 1
      /\ \A i \in 1..Len(log) : log'[i] = log[i]
      /\ present \subseteq present'
      /\ \A f \in 1..Len(log) : Live(f) => Live(f)'
      /\ \A f \in 1..Len(log') : f \notin 1..Len(log) => Live(f)'
  BY <1>2, XAddKeepsLive
<1>4. PendingPresent' /\ DoneIsReceived'
  BY <1>1, <1>3 DEF PendingPresent, DoneIsReceived
<1> QED
  BY <1>3, <1>4, CarriesOver

\* The strengthened invariant survives every step that trims nothing.
LEMMA NoLossInductive ==
  ASSUME TypeOK, ReadInOrder, NoLossInv, [Next]_vars, ~Trims, Unconfigured = {}
  PROVE  NoLossInv'
<1>0. Len(log) \in Nat /\ PendingPresent /\ DoneIsReceived
  BY DEF TypeOK, NoLossInv
\* A step that leaves the stream and the handlers alone, but for handlers that end.
<1>1. ASSUME UNCHANGED <<log, present, lastDelivered, pel, dlq, received>>,
             DoneIsReceived',
             \A v \in Workers, f \in EntryIds : handler'[v][f] \in {handler[v][f], "idle"}
      PROVE  NoLossInv'
  <2>1. \A f \in 1..Len(log) : Live(f) => Live(f)'
    BY <1>1 DEF Live
  <2>2. PendingPresent'
    BY <1>0, <1>1 DEF PendingPresent
  <2> QED
    BY <1>0, <1>1, <2>1, <2>2, CarriesOver
<1>2. CASE \E m \in Msgs : Publish(m) \/ PublishAgain(m)
  <2>1. PICK m \in Msgs : Publish(m) \/ PublishAgain(m)
    BY <1>2
  <2> QED
    BY <2>1, PublishNoLoss DEF Publish, PublishAgain, workerVars
<1>3. CASE \E m \in Msgs : ClaimLapses(m) \/ MarkerLapses(m)
  <2>1. PICK m \in Msgs : ClaimLapses(m) \/ MarkerLapses(m)
    BY <1>3
  <2>2. /\ claim' = [claim EXCEPT ![m] = "none"]
        /\ UNCHANGED <<log, present, lastDelivered, pel, dlq, received, handler>>
    BY <2>1 DEF ClaimLapses, MarkerLapses, workerVars
  <2>3. DoneIsReceived'
    BY <1>0, <2>2 DEF DoneIsReceived, TypeOK
  <2> QED
    BY <1>1, <2>2, <2>3
<1>4. CASE \E e \in EntryIds : GoStale(e)
  BY <1>0, <1>1, <1>4 DEF GoStale, workerVars, DoneIsReceived
<1>5. CASE \E w \in Workers, e \in EntryIds : HandlerStep(w, e)
  BY <1>5, HandlerStepNoLoss
<1>6. CASE \E w \in Workers : LoopStep(w)
  BY <1>6, LoopStepNoLoss
<1>7. CASE \E w \in Workers : RequestShutdown(w)
  BY <1>0, <1>1, <1>7 DEF RequestShutdown, redisVars, DoneIsReceived
<1>8. CASE \E w \in Workers : Crash(w)
  <2>1. PICK w \in Workers : Crash(w)
    BY <1>8
  <2>2. /\ UNCHANGED <<log, present, lastDelivered, pel, claim, dlq, received>>
        /\ handler' = [handler EXCEPT ![w] = [e \in EntryIds |-> "idle"]]
    BY <2>1 DEF Crash, redisVars
  <2>3. \A v \in Workers, f \in EntryIds : handler'[v][f] \in {handler[v][f], "idle"}
    BY <2>2 DEF TypeOK
  <2>4. DoneIsReceived'
    BY <1>0, <2>2 DEF DoneIsReceived
  <2> QED
    BY <1>1, <2>2, <2>3, <2>4
<1>9. CASE UNCHANGED vars
  BY <1>0, <1>1, <1>9 DEF vars, redisVars, workerVars, DoneIsReceived
<1> QED
  BY <1>2, <1>3, <1>4, <1>5, <1>6, <1>7, <1>8, <1>9 DEF Next

\* As long as XADD drops no entry and every worker has a downstream, a handler
\* about to ack has something to rely on, a claim that says done is right, and
\* what is pending is there to be reclaimed.
THEOREM NothingUngrounded ==
  ASSUME Unconfigured = {}
  PROVE  Spec /\ [][~Trims]_vars => []NoLossInv
<1>1. Init => NoLossInv
  BY DEF Init, NoLossInv, PendingPresent, DoneIsReceived, NoLoss, Grounded
<1>2. TypeOK /\ ReadInOrder /\ NoLossInv /\ [Next]_vars /\ [~Trims]_vars => NoLossInv'
  <2>1. CASE ~Trims
    BY <2>1, NoLossInductive
  <2>2. CASE UNCHANGED vars
    <3>1. TypeOK => ~Trims
      BY <2>2 DEF Trims, vars, redisVars
    <3> QED
      BY <3>1, NoLossInductive
  <2> QED
    BY <2>1, <2>2
<1> QED
  BY <1>1, <1>2, TypesInductive, PTL DEF Spec

\* Hence no event that reached the stream is lost: for any number of workers,
\* messages, crashes, refused or repeated commands and lost answers, and
\* whatever the timing of claims and reclaims.
THEOREM NoLossUnlessTrimmed ==
  ASSUME Unconfigured = {}
  PROVE  Spec /\ [][~Trims]_vars => []NoLoss
<1>1. NoLossInv => NoLoss
  BY DEF NoLossInv
<1> QED
  BY <1>1, NothingUngrounded, PTL

\* STREAM_MAXLEN at or above the number of entries ever added is one way never
\* to trim: no loss for every such instance.
THEOREM NoLossWithinMaxlen ==
  ASSUME MaxEntries <= StreamMaxlen, Unconfigured = {}
  PROVE  Spec => []NoLoss
<1>1. TypeOK /\ ReadInOrder /\ [Next]_vars => [~Trims]_vars
  <2> SUFFICES ASSUME TypeOK, ReadInOrder, Next PROVE ~Trims
    OBVIOUS
  <2>1. ASSUME NEW m \in Msgs, NEW rc \in 0..MaxRetries, XAdd(m, rc) PROVE ~Trims
    <3> DEFINE S == present \union {Len(log) + 1}
    <3>1. Len(log') = Len(log) + 1 /\ Len(log) + 1 \in EntryIds
      BY <2>1, XAddAppends, DeliveryAssumption
      DEF TypeOK, EntryIds, XAdd, DeliveryAssumption
    <3>2. S \subseteq 1..MaxEntries
      BY <3>1 DEF TypeOK, EntryIds
    <3>3. IsFiniteSet(1..MaxEntries) /\ Cardinality(1..MaxEntries) = MaxEntries
      BY FS_Interval, DeliveryAssumption DEF DeliveryAssumption
    <3>4. Cardinality(S) <= MaxEntries /\ Cardinality(S) \in Nat
      BY <3>2, <3>3, FS_Subset, FS_CardinalityType
    <3>5. ~(Cardinality(S) > StreamMaxlen)
      BY <3>4, DeliveryAssumption DEF DeliveryAssumption
    <3>6. present' = S
      BY <2>1, <3>5 DEF XAdd, Trimmed
    <3> QED
      BY <3>1, <3>6 DEF Trims
  <2>2. CASE UNCHANGED log
    BY <2>2 DEF Trims
  <2>3. CASE \E m \in Msgs : Publish(m) \/ PublishAgain(m)
    BY <2>1, <2>3, DeliveryAssumption DEF Publish, PublishAgain, DeliveryAssumption
  <2>4. CASE \E w \in Workers, e \in EntryIds : Requeue(w, e)
    <3>1. PICK w \in Workers, e \in EntryIds : Requeue(w, e)
      BY <2>4
    <3>2. handler[w][e] = "requeue" /\ Len(log) \in Nat /\ lastDelivered \in Nat
      BY <3>1 DEF Requeue, TypeOK
    <3>3. e <= lastDelivered /\ log[e].rc < MaxRetries
      BY <3>2 DEF ReadInOrder
    <3>4. e \in 1..Len(log)
      BY <3>2, <3>3, DeliveryAssumption DEF ReadInOrder, EntryIds, DeliveryAssumption
    <3>5. log[e] \in Entry
      BY <3>4 DEF TypeOK
    <3>6. Msg(e) \in Msgs /\ log[e].rc + 1 \in 0..MaxRetries
      BY <3>3, <3>5, DeliveryAssumption DEF Entry, Msg, DeliveryAssumption
    <3> QED
      BY <2>1, <3>1, <3>6 DEF Requeue
  <2> QED
    BY <2>2, <2>3, <2>4
    DEF Next, HandlerStep, WinClaim, LoseClaim, ReadClaim, Land, Reject, NoDownstream, Confirm,
        LoseAnswer, Complete, DeadLetter, Abandon, XAck, XDel, Refused, LoopStep,
        Start, Sweep, ReadNew, EndBatch, Stop, RequestShutdown, Crash, ClaimLapses,
        MarkerLapses, GoStale, redisVars
<1>2. Spec => [][~Trims]_vars
  BY <1>1, TypesInductive, PTL DEF Spec
<1> QED
  BY <1>2, NoLossUnlessTrimmed, PTL

-----------------------------------------------------------------------------
(* One attempt at a time *)

\* Who is inside an attempt holds the short-lived claim, alone.
ClaimHeld ==
  /\ OneAttempt
  /\ \A w \in Workers : \A e \in 1..Len(log) :
       Holds(w, e) => claim[Msg(e)] = "inflight"

\* A step that makes no new holder, and leaves the claims of those that
\* remain, keeps it.
LEMMA HoldersRemain ==
  ASSUME ClaimHeld,
         \A v \in Workers : \A f \in 1..Len(log') :
           handler'[v][f] \in HolderPC =>
             /\ f \in 1..Len(log) /\ log'[f] = log[f]
             /\ Holds(v, f) /\ claim'[Msg(f)] = claim[Msg(f)]
  PROVE  ClaimHeld'
BY DEF ClaimHeld, OneAttempt, Holds, Msg

\* So does one that appends to the stream: its new entries have no handler.
LEMMA NoNewHolder ==
  ASSUME TypeOK, ReadInOrder, ClaimHeld, UNCHANGED claim,
         \A v \in Workers, f \in EntryIds : handler'[v][f] \in HolderPC => Holds(v, f),
         Len(log') \in Nat, Len(log') <= MaxEntries,
         \A i \in 1..Len(log) : log'[i] = log[i]
  PROVE  ClaimHeld'
<1>1. ASSUME NEW v \in Workers, NEW f \in 1..Len(log'), handler'[v][f] \in HolderPC
      PROVE  /\ f \in 1..Len(log) /\ log'[f] = log[f]
             /\ Holds(v, f) /\ claim'[Msg(f)] = claim[Msg(f)]
  <2>2. f \in EntryIds /\ Len(log) \in Nat /\ lastDelivered \in Nat
    BY DeliveryAssumption DEF EntryIds, TypeOK, DeliveryAssumption
  <2>1. Holds(v, f) /\ handler[v][f] # "idle"
    BY <1>1, <2>2 DEF Holds, HolderPC
  <2>3. f <= lastDelivered /\ lastDelivered <= Len(log)
    BY <2>1, <2>2 DEF ReadInOrder
  <2>4. f \in 1..Len(log)
    BY <2>2, <2>3
  <2> QED
    BY <2>1, <2>4
<1> QED
  BY <1>1, HoldersRemain

\* What is in the stream is about a message of the API.
LEMMA EntryHasMsg ==
  ASSUME TypeOK, NEW e \in 1..Len(log)
  PROVE  Msg(e) \in Msgs
<1>1. log[e] \in Entry
  BY DEF TypeOK
<1> QED
  BY <1>1 DEF Entry, Msg

\* A handler's step: it wins a free claim, keeps the one it has, or ends its
\* attempt.
LEMMA HandlerKeepsClaims ==
  ASSUME TypeOK, ReadInOrder, ClaimHeld, ~Resend,
         NEW w \in Workers, NEW e \in EntryIds, HandlerStep(w, e)
  PROVE  ClaimHeld'
<1>1. /\ handler[w][e] # "idle" /\ e \in 1..Len(log)
      /\ Len(log) \in Nat /\ Msg(e) \in Msgs
  <2>1. handler[w][e] # "idle"
    BY DEF HandlerStep, WinClaim, LoseClaim, ReadClaim, Land, Reject, NoDownstream, Confirm,
           LoseAnswer, Complete, DeadLetter, Abandon, Requeue, XAck, XDel, Refused
  <2>2. e \in 1..Len(log) /\ Len(log) \in Nat
    BY <2>1, DeliveryAssumption DEF ReadInOrder, TypeOK, EntryIds, DeliveryAssumption
  <2> QED
    BY <2>1, <2>2, EntryHasMsg
<1>2. ASSUME NEW v \in Workers, NEW f \in 1..Len(log), <<v, f>> # <<w, e>>,
             NEW q, handler' = [handler EXCEPT ![w][e] = q]
      PROVE  handler'[v][f] = handler[v][f]
  BY <1>2, DeliveryAssumption DEF TypeOK, EntryIds, DeliveryAssumption
<1>3. ASSUME NEW q, handler' = [handler EXCEPT ![w][e] = q]
      PROVE  handler'[w][e] = q
  BY <1>3 DEF TypeOK
\* It does not hold the claim afterwards; if it did before, it was alone.
<1>4. ASSUME NEW q, q \notin HolderPC, handler' = [handler EXCEPT ![w][e] = q],
             UNCHANGED log,
             UNCHANGED claim \/ (/\ Holds(w, e)
                                 /\ \E c : claim' = [claim EXCEPT ![Msg(e)] = c])
      PROVE  ClaimHeld'
  <2>1. ASSUME NEW v \in Workers, NEW f \in 1..Len(log), handler'[v][f] \in HolderPC
        PROVE  Holds(v, f) /\ claim'[Msg(f)] = claim[Msg(f)]
    <3>1. <<v, f>> # <<w, e>>
      BY <1>3, <1>4, <2>1
    <3>2. Holds(v, f)
      BY <1>2, <1>4, <2>1, <3>1 DEF Holds
    <3>3. Holds(w, e) => Msg(f) # Msg(e)
      BY <1>1, <3>1, <3>2 DEF ClaimHeld, OneAttempt
    <3>4. claim \in [Msgs -> {"none", "inflight", "done"}]
      BY DEF TypeOK
    <3>5. Msg(f) \in Msgs
      BY EntryHasMsg
    <3> QED
      BY <1>4, <3>2, <3>3, <3>4, <3>5
  <2> QED
    BY <1>4, <2>1, HoldersRemain
\* It goes on with the attempt it is in.
<1>5. ASSUME Holds(w, e), UNCHANGED <<log, claim>>,
             NEW q, handler' = [handler EXCEPT ![w][e] = q]
      PROVE  ClaimHeld'
  <2>1. ASSUME NEW v \in Workers, NEW f \in 1..Len(log), handler'[v][f] \in HolderPC
        PROVE  Holds(v, f)
    BY <1>2, <1>5, <2>1 DEF Holds
  <2> QED
    BY <1>5, <2>1, HoldersRemain
\* It finds no key: nobody is in an attempt at this message.
<1>6. CASE WinClaim(w, e)
  <2>1. PICK q \in {"post", "idle"} : handler' = [handler EXCEPT ![w][e] = q]
    BY <1>6 DEF WinClaim, Answered, Goes
  <2>2. /\ claim[Msg(e)] = "none" /\ UNCHANGED log
        /\ claim' = [claim EXCEPT ![Msg(e)] = "inflight"]
    BY <1>6 DEF WinClaim
  <2>3. claim'[Msg(e)] = "inflight" /\ \A m \in Msgs : m # Msg(e) => claim'[m] = claim[m]
    BY <1>1, <2>2 DEF TypeOK
  <2>4. ASSUME NEW v \in Workers, NEW f \in 1..Len(log), handler'[v][f] \in HolderPC,
               <<v, f>> # <<w, e>>
        PROVE  /\ Holds(v, f) /\ Msg(f) # Msg(e)
               /\ claim'[Msg(f)] = "inflight"
    <3>1. Holds(v, f)
      BY <1>2, <2>1, <2>4 DEF Holds
    <3>2. claim[Msg(f)] = "inflight"
      BY <3>1 DEF ClaimHeld
    <3>3. Msg(f) \in Msgs
      BY EntryHasMsg
    <3> QED
      BY <2>2, <2>3, <3>1, <3>2, <3>3
  <2>5. ClaimHeld!2'
    <3>1. ASSUME NEW v \in Workers, NEW f \in 1..Len(log), handler'[v][f] \in HolderPC
          PROVE  claim'[Msg(f)] = "inflight"
      BY <2>3, <2>4, <3>1
    <3> QED
      BY <2>2, <3>1 DEF Holds, Msg
  <2>6. OneAttempt'
    <3>1. ASSUME NEW v1 \in Workers, NEW v2 \in Workers,
                 NEW f1 \in 1..Len(log), NEW f2 \in 1..Len(log),
                 handler'[v1][f1] \in HolderPC, handler'[v2][f2] \in HolderPC,
                 Msg(f1) = Msg(f2)
          PROVE  v1 = v2 /\ f1 = f2
      <4>1. CASE <<v1, f1>> = <<w, e>> \/ <<v2, f2>> = <<w, e>>
        BY <2>4, <3>1, <4>1
      <4>2. CASE <<v1, f1>> # <<w, e>> /\ <<v2, f2>> # <<w, e>>
        BY <2>4, <3>1, <4>2 DEF ClaimHeld, OneAttempt
      <4> QED
        BY <4>1, <4>2
    <3> QED
      BY <2>2, <3>1 DEF OneAttempt, Holds, Msg
  <2> QED
    BY <2>5, <2>6 DEF ClaimHeld
\* It ends its attempt.
<1>7. CASE Complete(w, e) \/ Abandon(w, e)
  <2>1. Holds(w, e) /\ UNCHANGED log
    BY <1>7 DEF Complete, Abandon, Holds, HolderPC
  <2>2. PICK q \in {"xack", "requeue", "idle"} : handler' = [handler EXCEPT ![w][e] = q]
    BY <1>7 DEF Complete, Abandon, Answered, Goes
  <2>3. \E c : claim' = [claim EXCEPT ![Msg(e)] = c]
    BY <1>7 DEF Complete, Abandon
  <2>4. q \notin HolderPC
    BY DEF HolderPC
  <2> QED
    BY <1>4, <2>1, <2>2, <2>3, <2>4
<1>8. CASE \/ Land(w, e) \/ Reject(w, e) \/ NoDownstream(w, e)
           \/ Confirm(w, e) \/ LoseAnswer(w, e) \/ DeadLetter(w, e)
  <2>1. Holds(w, e) /\ UNCHANGED <<log, claim>>
    BY <1>8 DEF Land, Reject, NoDownstream, Confirm, LoseAnswer, DeadLetter, Holds, HolderPC, redisVars
  <2>2. \E q : handler' = [handler EXCEPT ![w][e] = q]
    BY <1>8 DEF Land, Reject, NoDownstream, Confirm, LoseAnswer, DeadLetter, Answered, Goes
  <2> QED
    BY <1>5, <2>1, <2>2
\* It is outside an attempt.
<1>9. CASE LoseClaim(w, e) \/ ReadClaim(w, e) \/ XAck(w, e) \/ XDel(w, e) \/ Refused(w, e)
  <2>1. PICK q \in {"get", "xack", "idle", "xdel"} : handler' = [handler EXCEPT ![w][e] = q]
    BY <1>9 DEF LoseClaim, ReadClaim, XAck, XDel, Refused, Answered, Goes
  <2>2. q \notin HolderPC
    BY DEF HolderPC
  <2>3. UNCHANGED <<log, claim>>
    BY <1>9 DEF LoseClaim, ReadClaim, XAck, XDel, Refused, redisVars
  <2> QED
    BY <1>4, <2>1, <2>2, <2>3
<1>10. CASE Requeue(w, e)
  <2>1. PICK q \in {"xack", "idle"} : handler' = [handler EXCEPT ![w][e] = q]
    BY <1>10 DEF Requeue, Answered, Goes
  <2>2. q \notin HolderPC
    BY DEF HolderPC
  <2>3. ASSUME NEW v \in Workers, NEW f \in EntryIds, handler'[v][f] \in HolderPC
        PROVE  Holds(v, f)
    BY <1>3, <2>1, <2>2, <2>3 DEF Holds, TypeOK
  <2>4. TypeOK' /\ UNCHANGED claim
    BY <1>10, HandlerStepTypes DEF Requeue
  <2>5. /\ Len(log') \in Nat /\ Len(log') <= MaxEntries
        /\ \A i \in 1..Len(log) : log'[i] = log[i]
    <3>1. log \in Seq(Entry) /\ \E x : log' = Append(log, x)
      BY <1>10 DEF Requeue, XAdd, TypeOK
    <3> QED
      BY <2>4, <3>1 DEF TypeOK
  <2> QED
    BY <2>3, <2>4, <2>5, NoNewHolder
<1> QED
  BY <1>6, <1>7, <1>8, <1>9, <1>10 DEF HandlerStep

\* Next, but for claims that lapse under a running attempt.
OrderlyNext ==
  \/ \E m \in Msgs : Publish(m) \/ PublishAgain(m)
  \/ \E m \in Msgs : ClaimLapses(m) /\ ~Held(m)
  \/ \E m \in Msgs : MarkerLapses(m)
  \/ \E e \in EntryIds : GoStale(e)
  \/ \E w \in Workers, e \in EntryIds : HandlerStep(w, e)
  \/ \E w \in Workers : LoopStep(w) \/ RequestShutdown(w) \/ Crash(w)

\* Next, but for entries that become old enough to reclaim under a handler.
UnhurriedNext ==
  \/ \E m \in Msgs : Publish(m) \/ PublishAgain(m)
  \/ \E m \in Msgs : ClaimLapses(m) \/ MarkerLapses(m)
  \/ \E e \in EntryIds : GoStale(e) /\ \A w \in Workers : handler[w][e] = "idle"
  \/ \E w \in Workers, e \in EntryIds : HandlerStep(w, e)
  \/ \E w \in Workers : LoopStep(w) \/ RequestShutdown(w) \/ Crash(w)

\* What Timely makes of Next, whether Timely is assumed or the lifetimes of the
\* settings provide it (ClaimLeaseProofs).
InTimeNext ==
  \/ \E m \in Msgs : Publish(m) \/ PublishAgain(m)
  \/ \E m \in Msgs : ClaimLapses(m) /\ ~Held(m)
  \/ \E m \in Msgs : MarkerLapses(m) /\ Copies(m) = {}
  \/ \E e \in EntryIds : GoStale(e) /\ \A w \in Workers : handler[w][e] = "idle"
  \/ \E w \in Workers, e \in EntryIds : HandlerStep(w, e)
  \/ \E w \in Workers : LoopStep(w) \/ RequestShutdown(w) \/ Crash(w)

InTimeSpec == Init /\ [][InTimeNext]_vars
UnhurriedSpec == Init /\ [][UnhurriedNext]_vars

LEMMA InTimeSteps ==
  /\ [InTimeNext]_vars => [OrderlyNext]_vars /\ [UnhurriedNext]_vars
  /\ [OrderlyNext]_vars => [Next]_vars
  /\ [UnhurriedNext]_vars => [Next]_vars
<1>1. InTimeNext => OrderlyNext
  BY DEF InTimeNext, OrderlyNext
<1>2. InTimeNext => UnhurriedNext
  BY DEF InTimeNext, UnhurriedNext
<1>3. OrderlyNext => Next
  BY DEF OrderlyNext, Next
<1>4. UnhurriedNext => Next
  BY DEF UnhurriedNext, Next
<1> QED
  BY <1>1, <1>2, <1>3, <1>4

LEMMA TimelySteps == Timely /\ [Next]_vars => [InTimeNext]_vars
<1>1. ASSUME Timely, NEW m \in Msgs, ClaimLapses(m) PROVE ~Held(m)
  BY <1>1 DEF ClaimLapses
<1>2. ASSUME Timely, NEW m \in Msgs, MarkerLapses(m) PROVE Copies(m) = {}
  BY <1>2 DEF MarkerLapses
<1>3. ASSUME Timely, NEW e \in EntryIds, GoStale(e)
      PROVE  \A w \in Workers : handler[w][e] = "idle"
  BY <1>3 DEF GoStale
<1>4. Timely /\ Next => InTimeNext
  BY <1>1, <1>2, <1>3 DEF Next, InTimeNext
<1> QED
  BY <1>4

LEMMA TimelyIsInTime ==
  ASSUME Timely
  PROVE  Spec => InTimeSpec
BY TimelySteps, PTL DEF Spec, InTimeSpec

LEMMA InTimeIsUnhurried == InTimeSpec => UnhurriedSpec
BY InTimeSteps, PTL DEF InTimeSpec, UnhurriedSpec

\* An event that the API adds has nobody in an attempt at it.
LEMMA PublishClaims ==
  ASSUME TypeOK, TypeOK', ReadInOrder, ClaimHeld, NEW m \in Msgs, XAdd(m, 0),
         UNCHANGED <<handler, claim>>
  PROVE  ClaimHeld'
<1>1. \A i \in 1..Len(log) : log'[i] = log[i]
  <2>1. 0 \in 0..MaxRetries
    BY DeliveryAssumption DEF DeliveryAssumption
  <2> QED
    BY <2>1, XAddAppends
<1>2. Len(log') \in Nat /\ Len(log') <= MaxEntries
  BY DEF TypeOK
<1>3. \A v \in Workers, f \in EntryIds : handler'[v][f] \in HolderPC => Holds(v, f)
  BY DEF Holds
<1> QED
  BY <1>1, <1>2, <1>3, NoNewHolder

\* A claim is won only while nobody is in an attempt at its message, and when
\* claims outlast attempts nothing but the attempt's own end takes it away.
LEMMA ClaimsSurvive ==
  ASSUME TypeOK, ReadInOrder, ClaimHeld, [OrderlyNext]_vars, ~Resend
  PROVE  ClaimHeld'
<1>1. TypeOK' /\ Len(log) \in Nat
  <2>1. [Next]_vars
    BY DEF OrderlyNext, Next
  <2> QED
    BY <2>1, TypesInductive DEF TypeOK
<1>2. CASE \E m \in Msgs : Publish(m) \/ PublishAgain(m)
  BY <1>1, <1>2, PublishClaims DEF Publish, PublishAgain, workerVars
\* Redis's clock takes a claim only from a message nobody is in an attempt at.
<1>3. ASSUME NEW m \in Msgs, (ClaimLapses(m) /\ ~Held(m)) \/ MarkerLapses(m)
      PROVE  ClaimHeld'
  <2>1. claim' = [claim EXCEPT ![m] = "none"] /\ UNCHANGED <<log, handler>>
    BY <1>3 DEF ClaimLapses, MarkerLapses, workerVars
  <2>2. ASSUME NEW v \in Workers, NEW f \in 1..Len(log), Holds(v, f)
        PROVE  claim'[Msg(f)] = claim[Msg(f)]
    <3>1. CASE ~Held(m)
      <4>1. Msg(f) # m
        BY <2>2, <3>1 DEF Held
      <4> QED
        BY <2>1, <4>1, EntryHasMsg DEF TypeOK
    <3>2. CASE MarkerLapses(m)
      <4>1. Msg(f) # m
        BY <2>2, <3>2 DEF MarkerLapses, ClaimHeld
      <4> QED
        BY <2>1, <4>1, EntryHasMsg DEF TypeOK
    <3> QED
      BY <1>3, <3>1, <3>2
  <2> QED
    BY <2>1, <2>2, HoldersRemain DEF Holds
<1>4. CASE \E w \in Workers, e \in EntryIds : HandlerStep(w, e)
  BY <1>4, HandlerKeepsClaims
\* The loop starts handlers outside an attempt, or ends them with the process.
<1>5. ASSUME NEW w \in Workers, LoopStep(w) \/ RequestShutdown(w) \/ Crash(w)
      PROVE  ClaimHeld'
  <2>1. UNCHANGED <<log, claim>>
    BY <1>5 DEF LoopStep, Start, Sweep, ReadNew, EndBatch, Stop, RequestShutdown,
                Crash, redisVars
  <2>2. \/ UNCHANGED handler
        \/ \E batch : Begins(w, batch)
        \/ handler' = [handler EXCEPT ![w] = [e \in EntryIds |-> "idle"]]
    BY <1>5 DEF LoopStep, Start, Sweep, ReadNew, EndBatch, Stop, RequestShutdown, Crash
  <2>3. {"begin", "idle"} \intersect HolderPC = {}
    BY DEF HolderPC
  <2>4. ASSUME NEW v \in Workers, NEW f \in EntryIds, handler'[v][f] \in HolderPC
        PROVE  Holds(v, f)
    <3>1. handler'[v][f] = handler[v][f] \/ handler'[v][f] \in {"begin", "idle"}
      BY <2>2 DEF Begins, TypeOK
    <3> QED
      BY <2>3, <2>4, <3>1 DEF Holds
  <2>5. Len(log') \in Nat /\ Len(log') <= MaxEntries
    BY <1>1 DEF TypeOK
  <2> QED
    BY <2>1, <2>4, <2>5, NoNewHolder
<1>6. CASE \/ \E e \in EntryIds : GoStale(e)
           \/ UNCHANGED vars
  <2>1. UNCHANGED <<log, claim, handler>>
    BY <1>6 DEF GoStale, vars, redisVars, workerVars
  <2> QED
    BY <2>1, HoldersRemain DEF Holds
<1> QED
  BY <1>2, <1>3, <1>4, <1>5, <1>6 DEF OrderlyNext

\* With claims that outlast their attempts and a client that sends each
\* command once, no two handlers are inside an attempt at one message, for any
\* number of workers, batches, crashes, failed commands and lost answers.
THEOREM OneAttemptAtATime ==
  ASSUME Timely, ~Resend
  PROVE  Spec => []OneAttempt
<1>1. Init => ClaimHeld
  <2>1. Init => log = << >> /\ 1..Len(log) = {}
    BY DEF Init
  <2> QED
    BY <2>1 DEF ClaimHeld, OneAttempt
<1>2. TypeOK /\ ReadInOrder /\ ClaimHeld /\ [Next]_vars => ClaimHeld'
  <2>1. [Next]_vars => [OrderlyNext]_vars
    BY DEF Next, OrderlyNext, ClaimLapses
  <2> QED
    BY <2>1, ClaimsSurvive
<1>3. ClaimHeld => OneAttempt
  BY DEF ClaimHeld
<1> QED
  BY <1>1, <1>2, <1>3, TypesInductive, PTL DEF Spec
=============================================================================
