---------------------------- MODULE PromiseProofs ----------------------------
(***************************************************************************)
(* Proofs about Delivery: what is recorded as delivered is not sent again, *)
(* and the loop implements AtLeastOnce, but for progress.                  *)
(***************************************************************************)
EXTENDS DeliveryProofs

-----------------------------------------------------------------------------
(* One handler for a pending entry *)

\* A handler's entry is pending and too young to be reclaimed until it is
\* acked, and no other handler has it; in a stream that is not trimmed it is
\* there as well.
Exclusive ==
  /\ PendingPresent
  /\ \A w \in Workers, e \in EntryIds : handler[w][e] = "xdel" => e \notin pel
  /\ \A w \in Workers, e \in EntryIds :
       handler[w][e] \notin {"idle", "xdel"} => e \in pel \ stale
  /\ \A v, w \in Workers, e \in EntryIds :
       handler[v][e] # "idle" /\ handler[w][e] # "idle" => v = w

\* A handler that goes on before its ack, or ends, keeps it.
LEMMA OneMovesOn ==
  ASSUME TypeOK, Exclusive, NEW w \in Workers, NEW e \in EntryIds, NEW q,
         handler' = [handler EXCEPT ![w][e] = q],
         q = "idle" \/ (handler[w][e] \notin {"idle", "xdel"} /\ q # "xdel"),
         UNCHANGED <<pel, stale>>, present \subseteq present'
  PROVE  Exclusive'
<1>1. \A v \in Workers, f \in EntryIds :
        handler'[v][f] = IF v = w /\ f = e THEN q ELSE handler[v][f]
  BY DEF TypeOK
<1>2. PendingPresent'
  BY DEF Exclusive, PendingPresent
<1> QED
  BY <1>1, <1>2 DEF Exclusive

\* Handlers that end and entries that come keep it as well.
LEMMA OnlyEndings ==
  ASSUME TypeOK, Exclusive, UNCHANGED <<pel, stale>>, present \subseteq present',
         \A v \in Workers, f \in EntryIds : handler'[v][f] \in {handler[v][f], "idle"}
  PROVE  Exclusive'
<1>1. PendingPresent'
  BY DEF Exclusive, PendingPresent
<1> QED
  BY <1>1 DEF Exclusive

\* A step of a handler.
LEMMA HandlerStepExclusive ==
  ASSUME TypeOK, ReadInOrder, Exclusive, ~Trims, ~Resend,
         NEW w \in Workers, NEW e \in EntryIds, HandlerStep(w, e)
  PROVE  Exclusive'
<1>1. ASSUME NEW pc, Answered(w, e, pc)
      PROVE  \E q \in {pc, "idle"} : handler' = [handler EXCEPT ![w][e] = q]
  BY <1>1 DEF Answered, Goes
<1>2. CASE XAck(w, e)
  <2>1. /\ pel' = pel \ {e} /\ stale' = stale \ {e} /\ UNCHANGED present
        /\ handler[w][e] = "xack"
    BY <1>2 DEF XAck
  <2>2. PICK q \in {"xdel", "idle"} : handler' = [handler EXCEPT ![w][e] = q]
    BY <1>1, <1>2 DEF XAck
  <2>3. \A v \in Workers, f \in EntryIds :
          handler'[v][f] = IF v = w /\ f = e THEN q ELSE handler[v][f]
    BY <2>2 DEF TypeOK
  <2>4. \A v \in Workers : v # w => handler[v][e] = "idle"
    BY <2>1 DEF Exclusive
  <2>5. PendingPresent'
    BY <2>1 DEF Exclusive, PendingPresent
  <2> QED
    BY <2>1, <2>3, <2>4, <2>5 DEF Exclusive
<1>3. CASE XDel(w, e)
  <2>1. /\ present' = present \ {e} /\ UNCHANGED <<pel, stale>>
        /\ handler[w][e] = "xdel"
    BY <1>3 DEF XDel
  <2>2. handler' = [handler EXCEPT ![w][e] = "idle"]
    BY <1>1, <1>3 DEF XDel
  <2>3. \A v \in Workers, f \in EntryIds :
          handler'[v][f] = IF v = w /\ f = e THEN "idle" ELSE handler[v][f]
    BY <2>2 DEF TypeOK
  <2>4. PendingPresent'
    BY <2>1 DEF Exclusive, PendingPresent
  <2> QED
    BY <2>1, <2>3, <2>4 DEF Exclusive
<1>4. CASE Requeue(w, e)
  <2>1. /\ handler[w][e] = "requeue" /\ XAdd(Msg(e), log[e].rc + 1)
        /\ UNCHANGED <<lastDelivered, pel, stale>>
    BY <1>4 DEF Requeue
  <2>2. present \subseteq present'
    <3>1. Len(log') = Len(log) + 1 /\ Len(log) \in Nat
      BY <2>1 DEF XAdd, TypeOK
    <3> QED
      BY <3>1 DEF Trims
  <2>3. \E q \in {"xack", "idle"} : handler' = [handler EXCEPT ![w][e] = q]
    BY <1>1, <1>4 DEF Requeue
  <2> QED
    BY <2>1, <2>2, <2>3, OneMovesOn
<1>5. CASE \/ WinClaim(w, e) \/ LoseClaim(w, e) \/ ReadClaim(w, e)
           \/ Land(w, e) \/ Reject(w, e) \/ NoDownstream(w, e)
           \/ Confirm(w, e) \/ LoseAnswer(w, e)
           \/ Complete(w, e) \/ DeadLetter(w, e) \/ Abandon(w, e)
  <2>1. /\ handler[w][e] \notin {"idle", "xdel"}
        /\ UNCHANGED <<pel, stale, present>>
    BY <1>5 DEF WinClaim, LoseClaim, ReadClaim, Land, Reject, NoDownstream, Confirm,
                LoseAnswer, Complete, DeadLetter, Abandon, redisVars
  <2>2. \E q : q # "xdel" /\ handler' = [handler EXCEPT ![w][e] = q]
    BY <1>1, <1>5 DEF WinClaim, LoseClaim, ReadClaim, Land, Reject, NoDownstream, Confirm,
                      LoseAnswer, Complete, DeadLetter, Abandon, Goes, AfterFailure
  <2> QED
    BY <2>1, <2>2, OneMovesOn
<1>6. CASE Refused(w, e)
  BY <1>6, OneMovesOn DEF Refused, Goes, redisVars
<1> QED
  BY <1>2, <1>3, <1>4, <1>5, <1>6 DEF HandlerStep

\* The batch a worker starts on is of entries no handler has.
LEMMA BatchExclusive ==
  ASSUME TypeOK, Exclusive, NEW w \in Workers, NEW batch \in SUBSET EntryIds,
         Begins(w, batch),
         \A v \in Workers, e \in batch : handler[v][e] = "idle",
         batch \subseteq pel' \ stale', pel \ stale \subseteq pel' \ stale',
         \A e \in pel' \ pel : \A v \in Workers : handler[v][e] = "idle",
         PendingPresent'
  PROVE  Exclusive'
<1>1. \A v \in Workers, f \in EntryIds :
        handler'[v][f] = IF v # w THEN handler[v][f]
                         ELSE IF f \in batch THEN "begin" ELSE "idle"
  BY DEF Begins, TypeOK
<1> QED
  BY <1>1 DEF Exclusive

\* A step of the loop, of which only the two reads change anything here.
LEMMA LoopStepExclusive ==
  ASSUME TypeOK, ReadInOrder, Exclusive, NEW w \in Workers, LoopStep(w)
  PROVE  Exclusive'
<1>1. CASE Start(w) \/ EndBatch(w) \/ Stop(w)
  BY <1>1, OnlyEndings DEF Start, EndBatch, Stop, redisVars
<1>2. CASE Sweep(w)
  <2>1. PICK taken \in FirstOf({e \in pel : e >= cursor[w] /\ (e \in stale \/ e \notin present)}) :
          /\ pel' = pel \ (taken \ present) /\ stale' = stale \ taken
          /\ Begins(w, taken \intersect present) \/ UNCHANGED handler
    BY <1>2 DEF Sweep
  <2>2. taken \subseteq stale /\ taken \subseteq present /\ UNCHANGED present
    BY <1>2 DEF FirstOf, Exclusive, PendingPresent, Sweep
  <2>3. pel' = pel /\ PendingPresent'
    BY <2>1, <2>2 DEF Exclusive, PendingPresent
  <2>4. \A v \in Workers, e \in taken : handler[v][e] = "idle"
    BY <2>2 DEF Exclusive, TypeOK
  <2>5. CASE Begins(w, taken \intersect present)
    <3>1. taken \in SUBSET EntryIds /\ taken \intersect present = taken /\ taken \subseteq pel
      BY <2>2 DEF TypeOK
    <3>2. taken \subseteq pel' \ stale' /\ pel \ stale \subseteq pel' \ stale'
      BY <2>1, <2>3, <3>1
    <3> QED
      BY <2>3, <2>4, <2>5, <3>1, <3>2, BatchExclusive
  <2>6. CASE UNCHANGED handler
    BY <2>1, <2>3, <2>6 DEF Exclusive
  <2> QED
    BY <2>1, <2>5, <2>6
<1>3. CASE ReadNew(w)
  <2>1. PICK taken \in FirstOf({e \in present : e > lastDelivered}) :
          /\ pel' = pel \union taken
          /\ Begins(w, taken) \/ UNCHANGED handler
    BY <1>3 DEF ReadNew
  <2>2. taken \subseteq present /\ UNCHANGED <<present, stale>>
    BY <1>3 DEF FirstOf, ReadNew
  <2>3. ASSUME NEW e \in taken
        PROVE  /\ e \in EntryIds /\ e \notin pel
               /\ \A v \in Workers : handler[v][e] = "idle"
    <3>1. EntryIds \subseteq Nat /\ lastDelivered \in Nat /\ present \subseteq EntryIds
      BY DeliveryAssumption DEF EntryIds, TypeOK, DeliveryAssumption
    <3>2. e > lastDelivered /\ e \in EntryIds
      BY <2>2, <3>1 DEF FirstOf
    <3>3. ~(e <= lastDelivered)
      BY <3>1, <3>2
    <3> QED
      BY <3>2, <3>3 DEF ReadInOrder
  <2>4. \A v \in Workers, e \in taken : handler[v][e] = "idle"
    BY <2>3
  <2>5. PendingPresent'
    BY <2>1, <2>2 DEF Exclusive, PendingPresent
  <2>6. taken \subseteq pel' \ stale' /\ pel \ stale \subseteq pel' \ stale'
    BY <2>1, <2>2, <2>3 DEF TypeOK
  <2>7. CASE Begins(w, taken)
    <3>1. taken \in SUBSET EntryIds /\ pel' \ pel \subseteq taken
      BY <2>1, <2>3
    <3> QED
      BY <2>4, <2>5, <2>6, <2>7, <3>1, BatchExclusive
  <2>8. CASE UNCHANGED handler
    BY <2>1, <2>4, <2>5, <2>6, <2>8 DEF Exclusive
  <2> QED
    BY <2>1, <2>7, <2>8
<1> QED
  BY <1>1, <1>2, <1>3 DEF LoopStep

\* An event that the API adds has no handler.
LEMMA PublishExclusive ==
  ASSUME TypeOK, Exclusive, ~Trims, NEW m \in Msgs, XAdd(m, 0),
         UNCHANGED <<pel, stale, handler>>
  PROVE  Exclusive'
<1>1. Len(log') = Len(log) + 1 /\ Len(log) \in Nat
  BY DEF XAdd, TypeOK
<1>2. present \subseteq present'
  BY <1>1 DEF Trims
<1> QED
  BY <1>2, OnlyEndings

\* Every step that trims nothing keeps it, when entries under a handler do not
\* get old enough to be reclaimed.
LEMMA ExclusiveInductive ==
  ASSUME TypeOK, ReadInOrder, Exclusive, [UnhurriedNext]_vars, ~Trims, ~Resend
  PROVE  Exclusive'
<1>1. CASE \E m \in Msgs : Publish(m) \/ PublishAgain(m)
  BY <1>1, PublishExclusive DEF Publish, PublishAgain, workerVars
<1>2. CASE \/ \E m \in Msgs : ClaimLapses(m) \/ MarkerLapses(m)
           \/ \E w \in Workers : RequestShutdown(w)
           \/ UNCHANGED vars
  BY <1>2, OnlyEndings
  DEF ClaimLapses, MarkerLapses, RequestShutdown, vars, redisVars, workerVars
<1>3. CASE \E e \in EntryIds : GoStale(e) /\ \A w \in Workers : handler[w][e] = "idle"
  <2>1. PICK e \in EntryIds : GoStale(e) /\ \A w \in Workers : handler[w][e] = "idle"
    BY <1>3
  <2>2. /\ stale' = stale \union {e} /\ UNCHANGED <<pel, present, handler>>
        /\ \A w \in Workers : handler[w][e] = "idle"
    BY <2>1 DEF GoStale, workerVars
  <2> QED
    BY <2>2 DEF Exclusive, PendingPresent
<1>4. CASE \E w \in Workers, e \in EntryIds : HandlerStep(w, e)
  BY <1>4, HandlerStepExclusive
<1>5. CASE \E w \in Workers : LoopStep(w)
  BY <1>5, LoopStepExclusive
<1>6. CASE \E w \in Workers : Crash(w)
  <2>1. PICK w \in Workers : Crash(w)
    BY <1>6
  <2>2. /\ UNCHANGED <<pel, stale, present>>
        /\ handler' = [handler EXCEPT ![w] = [e \in EntryIds |-> "idle"]]
    BY <2>1 DEF Crash, redisVars
  <2>3. \A v \in Workers, f \in EntryIds : handler'[v][f] \in {handler[v][f], "idle"}
    BY <2>2 DEF TypeOK
  <2> QED
    BY <2>2, <2>3, OnlyEndings
<1> QED
  BY <1>1, <1>2, <1>3, <1>4, <1>5, <1>6 DEF UnhurriedNext

-----------------------------------------------------------------------------
(* What is recorded is final *)

\* Nobody is in an attempt at m; who begins one finds the marker, unless no
\* entry of m is left to begin one for; and the API will not publish m again.
Final(m) ==
  /\ ~Held(m)
  /\ claim[m] = "done" \/ Copies(m) = {}
  /\ \E e \in 1..Len(log) : Msg(e) = m

ConfirmedIsFinal == \A m \in confirmed : Final(m)

\* It stays so when no attempt at m begins and no entry of m comes.
LEMMA FinalStays ==
  ASSUME NEW m \in Msgs, Final(m), UNCHANGED log,
         \A v \in Workers, f \in 1..Len(log) :
           handler'[v][f] \in HolderPC => Holds(v, f) \/ Msg(f) # m,
         \A f \in 1..Len(log) : Live(f)' => Live(f),
         claim'[m] = claim[m] \/ Copies(m) = {}
  PROVE  Final(m)'
<1>1. \A f \in 1..Len(log) : Msg(f)' = Msg(f)
  BY DEF Msg
<1>2. ~Held(m)'
  BY <1>1 DEF Final, Held, Holds
<1>3. Copies(m)' \subseteq Copies(m)
  BY <1>1 DEF Copies
<1>4. (\E e \in 1..Len(log) : Msg(e) = m)'
  BY <1>1 DEF Final
<1> QED
  BY <1>2, <1>3, <1>4 DEF Final

\* An entry that comes is of another message, or of one whose marker is set.
LEMMA FinalAppend ==
  ASSUME TypeOK, ReadInOrder, NEW m \in Msgs, Final(m),
         NEW m2 \in Msgs, NEW rc \in 0..MaxRetries, XAdd(m2, rc),
         UNCHANGED <<lastDelivered, pel, claim>>,
         \A v \in Workers, f \in EntryIds : handler'[v][f] \in HolderPC => Holds(v, f),
         m2 = m => Copies(m) # {}
  PROVE  Final(m)'
<1>1. /\ Len(log') = Len(log) + 1 /\ Len(log) \in Nat /\ Len(log') <= MaxEntries
      /\ \A i \in 1..Len(log) : Msg(i)' = Msg(i)
      /\ \A i \in 1..Len(log') : i \in 1..Len(log) \/ Msg(i)' = m2
      /\ present' \subseteq present \union {Len(log) + 1}
  <2>1. /\ Len(log') = Len(log) + 1 /\ Len(log') <= MaxEntries
        /\ \A i \in 1..Len(log) : log'[i] = log[i]
        /\ log'[Len(log) + 1] = [msg |-> m2, rc |-> rc]
        /\ present' \subseteq present \union {Len(log) + 1}
    BY XAddAppends
  <2>2. Len(log) \in Nat
    BY DEF TypeOK
  <2>3. log'[Len(log) + 1].msg = m2
    BY <2>1
  <2>4. \A i \in 1..Len(log') : i \in 1..Len(log) \/ i = Len(log) + 1
    BY <2>1, <2>2
  <2> QED
    BY <2>1, <2>2, <2>3, <2>4 DEF Msg
<1>2. ASSUME NEW v \in Workers, NEW f \in 1..Len(log'), handler'[v][f] \in HolderPC
      PROVE  Msg(f)' # m
  <2>1. f \in EntryIds /\ lastDelivered \in Nat /\ lastDelivered <= Len(log)
    BY <1>1, DeliveryAssumption DEF EntryIds, TypeOK, ReadInOrder, DeliveryAssumption
  <2>2. Holds(v, f) /\ handler[v][f] # "idle"
    BY <1>2, <2>1 DEF Holds, HolderPC
  <2>3. f <= lastDelivered
    BY <2>1, <2>2 DEF ReadInOrder
  <2>4. f \in 1..Len(log)
    BY <1>1, <2>1, <2>3
  <2> QED
    BY <1>1, <2>2, <2>4 DEF Final, Held
<1>3. ~Held(m)'
  BY <1>2 DEF Held, Holds
<1>4. (\E e \in 1..Len(log) : Msg(e) = m)'
  <2>1. PICK e \in 1..Len(log) : Msg(e) = m
    BY DEF Final
  <2> QED
    BY <1>1, <2>1
<1>5. (claim[m] = "done" \/ Copies(m) = {})'
  <2>1. CASE claim[m] = "done"
    BY <2>1
  <2>2. CASE Copies(m) = {}
    <3>1. ASSUME NEW f \in 1..Len(log'), Live(f)', Msg(f)' = m PROVE FALSE
      <4>1. f \in 1..Len(log)
        BY <1>1, <2>2, <3>1
      <4>2. Live(f) /\ Msg(f) = m
        BY <1>1, <3>1, <4>1 DEF Live
      <4> QED
        BY <2>2, <4>1, <4>2 DEF Copies
    <3> QED
      BY <3>1 DEF Copies
  <2> QED
    BY <2>1, <2>2 DEF Final
<1> QED
  BY <1>3, <1>4, <1>5 DEF Final

\* A step of a handler: one that could begin an attempt finds the marker, and
\* the one that records the delivery was alone.
LEMMA HandlerKeepsFinal ==
  ASSUME TypeOK, ReadInOrder, Exclusive, ClaimHeld, ConfirmedIsFinal, ~Resend,
         NEW w \in Workers, NEW e \in EntryIds, HandlerStep(w, e)
  PROVE  ConfirmedIsFinal'
<1>1. /\ handler[w][e] # "idle" /\ e \in 1..Len(log) /\ e <= lastDelivered
      /\ Len(log) \in Nat /\ Msg(e) \in Msgs /\ confirmed \subseteq Msgs
  <2>1. handler[w][e] # "idle"
    BY DEF HandlerStep, WinClaim, LoseClaim, ReadClaim, Land, Reject, NoDownstream, Confirm,
           LoseAnswer, Complete, DeadLetter, Abandon, Requeue, XAck, XDel, Refused
  <2>2. e \in 1..Len(log) /\ e <= lastDelivered /\ Len(log) \in Nat
    BY <2>1, DeliveryAssumption DEF ReadInOrder, TypeOK, EntryIds, DeliveryAssumption
  <2> QED
    BY <2>1, <2>2, EntryHasMsg DEF TypeOK
<1>2. \E q : handler' = [handler EXCEPT ![w][e] = q]
  BY DEF HandlerStep, WinClaim, LoseClaim, ReadClaim, Land, Reject, NoDownstream, Confirm,
         LoseAnswer, Complete, DeadLetter, Abandon, Requeue, XAck, XDel, Refused,
         Answered, Goes
<1>3. \A v \in Workers, f \in EntryIds :
        <<v, f>> # <<w, e>> => handler'[v][f] = handler[v][f]
  BY <1>2 DEF TypeOK
<1>4. 1..Len(log) \subseteq EntryIds
  BY <1>1, DeliveryAssumption DEF TypeOK, EntryIds, DeliveryAssumption
\* While its entry is pending, the marker of a confirmed message is set.
<1>5. handler[w][e] \notin {"idle", "xdel"} => e \in Copies(Msg(e))
  BY <1>1 DEF Exclusive, PendingPresent, Copies, Live
\* Whatever is no attempt at a confirmed message, and records none.
<1>6. ASSUME UNCHANGED <<log, lastDelivered, confirmed>>,
             present' \subseteq present, pel' \subseteq pel,
             handler'[w][e] \in HolderPC => Holds(w, e) \/ Msg(e) \notin confirmed,
             \A m \in confirmed : claim'[m] = claim[m]
      PROVE  ConfirmedIsFinal'
  <2>1. \A f \in 1..Len(log) : Live(f)' => Live(f)
    BY <1>6 DEF Live
  <2>2. ASSUME NEW m \in confirmed PROVE Final(m)'
    <3>1. \A v \in Workers, f \in 1..Len(log) :
            handler'[v][f] \in HolderPC => Holds(v, f) \/ Msg(f) # m
      BY <1>3, <1>4, <1>6 DEF Holds
    <3> QED
      BY <1>1, <1>6, <2>1, <3>1, FinalStays DEF ConfirmedIsFinal
  <2> QED
    BY <1>6, <2>2 DEF ConfirmedIsFinal
<1>7. CASE WinClaim(w, e)
  <2>1. claim[Msg(e)] = "none" /\ e \in Copies(Msg(e))
    BY <1>5, <1>7 DEF WinClaim
  <2>2. Msg(e) \notin confirmed
    BY <2>1 DEF ConfirmedIsFinal, Final
  <2>3. \A m \in confirmed : claim'[m] = claim[m]
    BY <1>1, <1>7, <2>2 DEF WinClaim, TypeOK
  <2> QED
    BY <1>6, <1>7, <2>2, <2>3 DEF WinClaim
<1>8. CASE Complete(w, e)
  <2>1. /\ Holds(w, e) /\ UNCHANGED <<log, present, lastDelivered, pel>>
        /\ claim' = [claim EXCEPT ![Msg(e)] = "done"]
        /\ confirmed' = confirmed \union {Msg(e)}
    BY <1>8 DEF Complete, Holds, HolderPC
  <2>2. handler'[w][e] \in {"xack", "idle"} /\ handler'[w][e] \notin HolderPC
    BY <1>8 DEF Complete, Answered, Goes, TypeOK, HolderPC
  <2>3. \A f \in 1..Len(log) : Live(f)' => Live(f)
    BY <2>1 DEF Live
  <2>4. Msg(e) \notin confirmed
    BY <1>1, <2>1 DEF ConfirmedIsFinal, Final, Held
  <2>5. ASSUME NEW m \in confirmed PROVE Final(m)'
    <3>1. \A v \in Workers, f \in 1..Len(log) :
            handler'[v][f] \in HolderPC => Holds(v, f) \/ Msg(f) # m
      BY <1>3, <1>4, <2>2 DEF Holds
    <3>2. claim'[m] = claim[m]
      BY <1>1, <2>1, <2>4 DEF TypeOK
    <3> QED
      BY <1>1, <2>1, <2>3, <3>1, <3>2, FinalStays DEF ConfirmedIsFinal
  <2>6. Final(Msg(e))'
    <3>1. PICK m : m = Msg(e)
      OBVIOUS
    <3>2. \A f \in 1..Len(log) : Msg(f)' = Msg(f)
      BY <2>1 DEF Msg
    <3>3. ~Held(m)'
      <4>1. ASSUME NEW v \in Workers, NEW f \in 1..Len(log), handler'[v][f] \in HolderPC
            PROVE  Msg(f) # m
        <5>1. <<v, f>> # <<w, e>>
          BY <2>2, <4>1
        <5>2. Holds(v, f)
          BY <1>3, <1>4, <4>1, <5>1 DEF Holds
        <5> QED
          BY <1>1, <2>1, <3>1, <5>1, <5>2 DEF ClaimHeld, OneAttempt
      <4> QED
        BY <2>1, <3>2, <4>1 DEF Held, Holds
    <3>4. claim'[m] = "done"
      BY <1>1, <2>1, <3>1 DEF TypeOK
    <3>5. (\E f \in 1..Len(log) : Msg(f) = m)'
      BY <1>1, <2>1, <3>1, <3>2
    <3>6. Final(m)'
      BY <3>3, <3>4, <3>5 DEF Final
    <3> QED
      BY <1>1, <3>1, <3>2, <3>6
  <2> QED
    BY <1>1, <2>1, <2>5, <2>6 DEF ConfirmedIsFinal, Msg
<1>9. CASE Abandon(w, e)
  <2>1. /\ Holds(w, e) /\ UNCHANGED <<log, present, lastDelivered, pel, confirmed>>
        /\ claim' = [claim EXCEPT ![Msg(e)] = "none"]
    BY <1>9 DEF Abandon, Holds, HolderPC
  <2>2. Msg(e) \notin confirmed
    BY <1>1, <2>1 DEF ConfirmedIsFinal, Final, Held
  <2>3. \A m \in confirmed : claim'[m] = claim[m]
    BY <1>1, <2>1, <2>2 DEF TypeOK
  <2> QED
    BY <1>6, <2>1, <2>3
<1>10. CASE \/ Land(w, e) \/ Reject(w, e) \/ NoDownstream(w, e)
            \/ Confirm(w, e) \/ LoseAnswer(w, e) \/ DeadLetter(w, e)
  <2>1. /\ Holds(w, e)
        /\ UNCHANGED <<log, present, lastDelivered, pel, claim, confirmed>>
    BY <1>10 DEF Land, Reject, NoDownstream, Confirm, LoseAnswer, DeadLetter, Holds,
                 HolderPC, redisVars
  <2> QED
    BY <1>6, <2>1
<1>11. CASE LoseClaim(w, e) \/ ReadClaim(w, e) \/ XAck(w, e) \/ XDel(w, e) \/ Refused(w, e)
  <2>1. /\ UNCHANGED <<log, lastDelivered, claim, confirmed>>
        /\ present' \subseteq present /\ pel' \subseteq pel
    BY <1>11 DEF LoseClaim, ReadClaim, XAck, XDel, Refused, redisVars
  <2>2. handler'[w][e] \in {"get", "xack", "idle", "xdel"}
    BY <1>11 DEF LoseClaim, ReadClaim, XAck, XDel, Refused, Answered, Goes, TypeOK
  <2>3. handler'[w][e] \notin HolderPC
    BY <2>2 DEF HolderPC
  <2> QED
    BY <1>6, <2>1, <2>3
<1>12. CASE Requeue(w, e)
  <2>1. /\ handler[w][e] = "requeue" /\ XAdd(Msg(e), log[e].rc + 1)
        /\ UNCHANGED <<lastDelivered, pel, claim, confirmed>>
    BY <1>12 DEF Requeue
  <2>2. handler'[w][e] \in {"xack", "idle"} /\ handler'[w][e] \notin HolderPC
    BY <1>12 DEF Requeue, Answered, Goes, TypeOK, HolderPC
  <2>3. log[e].rc + 1 \in 0..MaxRetries
    <3>1. log[e] \in Entry
      BY <1>1 DEF TypeOK
    <3>2. log[e].rc \in 0..MaxRetries /\ log[e].rc < MaxRetries
      BY <2>1, <3>1 DEF ReadInOrder, Entry
    <3> QED
      BY <3>2, DeliveryAssumption DEF DeliveryAssumption
  <2>4. Copies(Msg(e)) # {}
    BY <1>5, <2>1
  <2>5. \A v \in Workers, f \in EntryIds : handler'[v][f] \in HolderPC => Holds(v, f)
    BY <1>3, <2>2 DEF Holds
  <2>6. ASSUME NEW m \in confirmed PROVE Final(m)'
    BY <1>1, <2>1, <2>3, <2>4, <2>5, FinalAppend DEF ConfirmedIsFinal
  <2> QED
    BY <2>1, <2>6 DEF ConfirmedIsFinal
<1> QED
  BY <1>7, <1>8, <1>9, <1>10, <1>11, <1>12 DEF HandlerStep

\* An event that the API adds is of a message that was never in the stream.
LEMMA PublishFinal ==
  ASSUME TypeOK, ReadInOrder, ConfirmedIsFinal, NEW m2 \in Msgs, XAdd(m2, 0),
         \A e \in 1..Len(log) : Msg(e) # m2,
         UNCHANGED <<lastDelivered, pel, claim, confirmed, handler>>
  PROVE  ConfirmedIsFinal'
<1>1. confirmed \subseteq Msgs
  BY DEF TypeOK
<1>2. 0 \in 0..MaxRetries
  BY DeliveryAssumption DEF DeliveryAssumption
<1>3. ASSUME NEW m \in confirmed PROVE Final(m)'
  <2>1. m2 # m
    BY DEF ConfirmedIsFinal, Final
  <2>2. \A v \in Workers, f \in EntryIds : handler'[v][f] \in HolderPC => Holds(v, f)
    BY DEF Holds
  <2> QED
    BY <1>1, <1>2, <2>1, <2>2, FinalAppend DEF ConfirmedIsFinal
<1> QED
  BY <1>3 DEF ConfirmedIsFinal

\* Every step keeps what is final so, when a marker outlives the entries of its
\* message.
LEMMA FinalInductive ==
  ASSUME TypeOK, ReadInOrder, Exclusive, ClaimHeld, ConfirmedIsFinal, [InTimeNext]_vars,
         ~Resend
  PROVE  ConfirmedIsFinal'
<1>0. confirmed \subseteq Msgs /\ Len(log) \in Nat /\ 1..Len(log) \subseteq EntryIds
  BY DeliveryAssumption DEF TypeOK, EntryIds, DeliveryAssumption
\* Steps that begin no attempt and add no entry.
<1>1. ASSUME UNCHANGED <<log, confirmed>>,
             \A v \in Workers, f \in EntryIds : handler'[v][f] \in HolderPC => Holds(v, f),
             \A f \in 1..Len(log) : Live(f)' => Live(f),
             \A m \in confirmed : claim'[m] = claim[m] \/ Copies(m) = {}
      PROVE  ConfirmedIsFinal'
  <2>1. ASSUME NEW m \in confirmed PROVE Final(m)'
    BY <1>0, <1>1, FinalStays DEF ConfirmedIsFinal
  <2> QED
    BY <1>1, <2>1 DEF ConfirmedIsFinal
<1>2. CASE \E m \in Msgs : Publish(m) \/ PublishAgain(m)
  BY <1>2, PublishFinal DEF Publish, PublishAgain, workerVars
<1>3. CASE \/ \E m \in Msgs : ClaimLapses(m) /\ ~Held(m)
           \/ \E m \in Msgs : MarkerLapses(m) /\ Copies(m) = {}
  <2>1. PICK m2 \in Msgs : ClaimLapses(m2) \/ (MarkerLapses(m2) /\ Copies(m2) = {})
    BY <1>3
  <2>2. /\ UNCHANGED <<log, confirmed, handler, present, pel, lastDelivered>>
        /\ claim' = [claim EXCEPT ![m2] = "none"]
    BY <2>1 DEF ClaimLapses, MarkerLapses, workerVars
  <2>3. ASSUME NEW m \in confirmed PROVE claim'[m] = claim[m] \/ Copies(m) = {}
    <3>1. CASE m = m2
      BY <2>1, <3>1 DEF ClaimLapses, MarkerLapses, ConfirmedIsFinal, Final
    <3>2. CASE m # m2
      BY <1>0, <2>2, <3>2 DEF TypeOK
    <3> QED
      BY <3>1, <3>2
  <2>4. \A f \in 1..Len(log) : Live(f)' => Live(f)
    BY <2>2 DEF Live
  <2> QED
    BY <1>1, <2>2, <2>3, <2>4 DEF Holds
<1>4. CASE \E w \in Workers, e \in EntryIds : HandlerStep(w, e)
  BY <1>4, HandlerKeepsFinal
<1>5. ASSUME NEW w \in Workers, LoopStep(w) \/ RequestShutdown(w) \/ Crash(w)
      PROVE  ConfirmedIsFinal'
  <2>1. UNCHANGED <<log, claim, confirmed, present>>
    BY <1>5 DEF LoopStep, Start, Sweep, ReadNew, EndBatch, Stop, RequestShutdown,
                Crash, redisVars
  <2>2. \/ UNCHANGED handler
        \/ \E batch : Begins(w, batch)
        \/ handler' = [handler EXCEPT ![w] = [e \in EntryIds |-> "idle"]]
    BY <1>5 DEF LoopStep, Start, Sweep, ReadNew, EndBatch, Stop, RequestShutdown, Crash
  <2>3. ASSUME NEW v \in Workers, NEW f \in EntryIds, handler'[v][f] \in HolderPC
        PROVE  Holds(v, f)
    <3>1. handler'[v][f] = handler[v][f] \/ handler'[v][f] \in {"begin", "idle"}
      BY <2>2 DEF Begins, TypeOK
    <3> QED
      BY <2>3, <3>1 DEF Holds, HolderPC
  \* What becomes pending was unread.
  <2>4. ASSUME NEW f \in 1..Len(log), Live(f)' PROVE Live(f)
    <3>1. CASE UNCHANGED <<pel, lastDelivered>>
      BY <2>1, <2>4, <3>1 DEF Live
    <3>2. CASE Sweep(w)
      BY <2>1, <2>4, <3>2 DEF Sweep, Live
    <3>3. CASE ReadNew(w)
      <4>1. PICK taken \in FirstOf({e \in present : e > lastDelivered}) :
              /\ pel' = pel \union taken
              /\ \E last \in IF taken = {} THEN {lastDelivered} ELSE taken :
                   lastDelivered' = last
        BY <3>3 DEF ReadNew
      <4>2. taken \subseteq {e \in present : e > lastDelivered}
        BY DEF FirstOf
      <4>3. lastDelivered' >= lastDelivered /\ lastDelivered' \in Nat
        <5>1. present \subseteq Nat /\ lastDelivered \in Nat
          BY DeliveryAssumption DEF TypeOK, EntryIds, DeliveryAssumption
        <5> QED
          BY <4>1, <4>2, <5>1
      <4>4. f \in present /\ (f \in pel \/ f \in taken \/ f > lastDelivered')
        BY <2>1, <2>4, <4>1 DEF Live
      <4>5. f > lastDelivered' => f > lastDelivered
        BY <4>3 DEF TypeOK
      <4> QED
        BY <4>2, <4>4, <4>5 DEF Live
    <3>4. UNCHANGED <<pel, lastDelivered>> \/ Sweep(w) \/ ReadNew(w)
      BY <1>5 DEF LoopStep, Start, EndBatch, Stop, RequestShutdown, Crash, redisVars
    <3> QED
      BY <3>1, <3>2, <3>3, <3>4
  <2> QED
    BY <1>1, <2>1, <2>3, <2>4
<1>6. CASE (\E e \in EntryIds : GoStale(e)) \/ UNCHANGED vars
  <2>1. UNCHANGED <<log, confirmed, handler, present, pel, lastDelivered, claim>>
    BY <1>6 DEF GoStale, vars, redisVars, workerVars
  <2> QED
    BY <1>1, <2>1 DEF Live, Holds
<1> QED
  BY <1>2, <1>3, <1>4, <1>5, <1>6 DEF InTimeNext

\* Who sends a message is in an attempt at it.
LEMMA FinalIsNotSent ==
  ASSUME TypeOK, ReadInOrder, ConfirmedIsFinal,
         NEW w \in Workers, NEW e \in EntryIds, Lands(w, e)
  PROVE  Msg(e) \notin confirmed
<1>1. /\ handler[w][e] = "post" /\ Holds(w, e)
      /\ Len(log) \in Nat /\ lastDelivered \in Nat
  BY DEF Lands, Holds, HolderPC, TypeOK
<1>2. e \in 1..Len(log)
  <2>1. e <= lastDelivered /\ lastDelivered <= Len(log)
    BY <1>1 DEF ReadInOrder
  <2> QED
    BY <1>1, <2>1, DeliveryAssumption DEF EntryIds, DeliveryAssumption
<1> QED
  BY <1>1, <1>2 DEF ConfirmedIsFinal, Final, Held

\* Whatever keeps lapses and reclaims away from running attempts.
LEMMA FinalInTime ==
  ASSUME ~Resend
  PROVE  InTimeSpec /\ [][~Trims]_vars => NoSendAfterConfirmed
<1> DEFINE Inv == TypeOK /\ ReadInOrder /\ Exclusive /\ ClaimHeld /\ ConfirmedIsFinal
<1>1. Init => Inv
  <2> SUFFICES ASSUME Init PROVE Inv
    OBVIOUS
  <2>1. TypeOK /\ ReadInOrder
    BY TypesInductive
  <2>2. /\ log = << >> /\ 1..Len(log) = {} /\ confirmed = {} /\ pel = {}
        /\ \A w \in Workers, e \in EntryIds : handler[w][e] = "idle"
    BY DEF Init
  <2>3. Exclusive
    BY <2>2 DEF Exclusive, PendingPresent
  <2>4. ClaimHeld /\ ConfirmedIsFinal
    BY <2>2 DEF ClaimHeld, OneAttempt, ConfirmedIsFinal
  <2> QED
    BY <2>1, <2>3, <2>4
<1>2. Inv /\ [InTimeNext]_vars /\ [~Trims]_vars => Inv'
  <2> SUFFICES ASSUME Inv, [InTimeNext]_vars, [~Trims]_vars PROVE Inv'
    OBVIOUS
  <2>1. TypeOK' /\ ReadInOrder'
    BY TypesInductive, InTimeSteps
  <2>2. ~Trims
    BY DEF Trims, vars, redisVars
  <2>3. Exclusive' /\ ConfirmedIsFinal'
    BY <2>2, ExclusiveInductive, FinalInductive, InTimeSteps
  <2> QED
    BY <2>1, <2>3, ClaimsSurvive, InTimeSteps
<1>3. Inv => \A w \in Workers, e \in EntryIds : Lands(w, e) => Msg(e) \notin confirmed
  BY FinalIsNotSent
<1> HIDE DEF Inv
<1> QED
  BY <1>1, <1>2, <1>3, PTL DEF InTimeSpec, NoSendAfterConfirmed

\* Once complete_delivery() has recorded a message, no handler ever sends it
\* again, for any workers, batches, retries, crashes and lost answers: as long
\* as claims outlast attempts and markers the entries of their message, the
\* client sends each command once and XADD drops no entry.
THEOREM ConfirmedIsNotSentAgain ==
  ASSUME Timely, ~Resend
  PROVE  Spec /\ [][~Trims]_vars => NoSendAfterConfirmed
BY FinalInTime, TimelyIsInTime, PTL

-----------------------------------------------------------------------------
(* How a step changes what is owed *)

\* Entries that neither come nor go leave what is owed alone.
LEMMA OwedStays ==
  ASSUME UNCHANGED log, \A f \in 1..Len(log) : Live(f)' <=> Live(f)
  PROVE  Owed' = Owed
<1>1. \A f \in 1..Len(log) : Msg(f)' = Msg(f)
  BY DEF Msg
<1>2. \A m \in Msgs : Copies(m)' = Copies(m)
  BY <1>1 DEF Copies
<1> QED
  BY <1>2 DEF Owed

\* XADD of an event makes it owed, and changes nothing for the others.
LEMMA OwedGrows ==
  ASSUME TypeOK, ReadInOrder, NEW m \in Msgs, NEW rc \in 0..MaxRetries, XAdd(m, rc),
         ~Trims, UNCHANGED <<lastDelivered, pel>>
  PROVE  Owed' = Owed \union {m}
<1>1. PICK new : new = Len(log) + 1
  OBVIOUS
<1>2. /\ Len(log') = Len(log) + 1 /\ Len(log) \in Nat
      /\ \A i \in 1..Len(log) : log'[i] = log[i]
      /\ log'[Len(log) + 1].msg = m
      /\ \A f \in 1..Len(log) : Live(f) => Live(f)'
      /\ \A f \in 1..Len(log') : f \notin 1..Len(log) => Live(f)'
  <2>1. Len(log) \in Nat
    BY DEF TypeOK
  <2> QED
    BY <2>1, XAddKeepsLive
<1>3. /\ \A f \in 1..Len(log) : Msg(f)' = Msg(f)
      /\ Msg(new)' = m
  BY <1>1, <1>2 DEF Msg
<1>4. \A f \in 1..Len(log) : Live(f)' => Live(f)
  <2>1. present' \subseteq present \union {Len(log) + 1}
    BY XAddAppends
  <2> QED
    BY <1>2, <2>1 DEF Live
<1>5. /\ 1..Len(log') = 1..Len(log) \union {new}
      /\ new \notin 1..Len(log) /\ Live(new)'
  <2>1. 1..Len(log') = 1..Len(log) \union {new} /\ new \notin 1..Len(log)
    BY <1>1, <1>2
  <2> QED
    BY <1>2, <2>1
<1>6. \A m2 \in Msgs : m2 # m => Copies(m2)' = Copies(m2)
  BY <1>2, <1>3, <1>4, <1>5 DEF Copies
<1>7. new \in Copies(m)'
  BY <1>3, <1>5 DEF Copies
<1> QED
  BY <1>6, <1>7 DEF Owed

\* An ack ends at most what its own message is owed.
LEMMA OwedShrinks ==
  ASSUME TypeOK, NEW e \in 1..Len(log), UNCHANGED <<log, present, lastDelivered>>,
         pel' = pel \ {e}
  PROVE  Owed' = Owed \/ (Msg(e) \in Owed /\ Owed' = Owed \ {Msg(e)})
<1>1. \A f \in 1..Len(log) :
        Msg(f)' = Msg(f) /\ (Live(f)' => Live(f)) /\ (f # e => (Live(f) <=> Live(f)'))
  BY DEF Msg, Live
<1>2. \A m \in Msgs : m # Msg(e) => Copies(m)' = Copies(m)
  BY <1>1 DEF Copies
<1>3. Copies(Msg(e))' \subseteq Copies(Msg(e))
  <2>1. PICK m : m = Msg(e)
    OBVIOUS
  <2>2. Copies(m)' \subseteq Copies(m)
    BY <1>1 DEF Copies
  <2> QED
    BY <1>1, <2>1, <2>2
<1>4. PICK m \in Msgs : m = Msg(e)
  BY EntryHasMsg
<1>5. Copies(m)' \subseteq Copies(m)
  BY <1>1 DEF Copies
<1>6. \A m2 \in Msgs : m2 # m => (m2 \in Owed' <=> m2 \in Owed)
  BY <1>2, <1>4 DEF Owed
<1>7. m \in Owed' => m \in Owed
  BY <1>5 DEF Owed
<1>8. Owed \subseteq Msgs /\ Owed' \subseteq Msgs
  BY DEF Owed
<1> QED
  BY <1>4, <1>6, <1>7, <1>8

-----------------------------------------------------------------------------
(* The refinement *)

\* The two reads of the loop hand entries out: none comes to life or dies.
LEMMA LoopKeepsOwed ==
  ASSUME TypeOK, ReadInOrder, Exclusive, NEW w \in Workers, LoopStep(w)
  PROVE  Owed' = Owed
<1>1. UNCHANGED <<log, present>>
  BY DEF LoopStep, Start, Sweep, ReadNew, EndBatch, Stop, redisVars
<1>2. CASE UNCHANGED <<pel, lastDelivered>>
  BY <1>1, <1>2, OwedStays DEF Live
<1>3. CASE Sweep(w)
  <2>1. UNCHANGED <<pel, lastDelivered>>
    BY <1>3 DEF Sweep, FirstOf, Exclusive, PendingPresent
  <2> QED
    BY <1>2, <2>1
<1>4. CASE ReadNew(w)
  <2>1. PICK taken \in FirstOf({e \in present : e > lastDelivered}) :
          /\ pel' = pel \union taken
          /\ \E last \in IF taken = {} THEN {lastDelivered} ELSE taken :
               (\A e \in taken : e <= last) /\ lastDelivered' = last
    BY <1>4 DEF ReadNew
  <2>2. /\ taken \subseteq {e \in present : e > lastDelivered}
        /\ \A e \in taken, f \in present : f > lastDelivered /\ f < e => f \in taken
    BY DEF FirstOf
  <2>3. present \subseteq Nat /\ lastDelivered \in Nat
    BY DeliveryAssumption DEF TypeOK, EntryIds, DeliveryAssumption
  <2>4. ASSUME NEW f \in 1..Len(log) PROVE Live(f)' <=> Live(f)
    <3>1. CASE f \in present
      <4>1. f > lastDelivered <=> f \in taken \/ f > lastDelivered'
        BY <2>1, <2>2, <2>3, <3>1
      <4>2. f \in pel' <=> f \in pel \/ f \in taken
        BY <2>1
      <4>3. Live(f)' <=> f \in pel' \/ f > lastDelivered'
        BY <1>1, <3>1 DEF Live
      <4> QED
        BY <3>1, <4>1, <4>2, <4>3 DEF Live
    <3>2. CASE f \notin present
      BY <1>1, <3>2 DEF Live
    <3> QED
      BY <3>1, <3>2
  <2> QED
    BY <1>1, <2>4, OwedStays
<1> QED
  BY <1>2, <1>3, <1>4 DEF LoopStep, Start, EndBatch, Stop, redisVars

\* A step of a handler takes, parks or retires its own message, or changes
\* nothing of what is promised.
LEMMA HandlerKeepsPromise ==
  ASSUME TypeOK, ReadInOrder, Exclusive, NoLossInv', ~Trims,
         NEW w \in Workers, NEW e \in EntryIds, HandlerStep(w, e)
  PROVE  [Promise!Next]_(Promise!promiseVars)
<1>1. /\ handler[w][e] # "idle" /\ e \in 1..Len(log) /\ e <= lastDelivered
      /\ Msg(e) \in Msgs /\ lastDelivered \in Nat
  <2>1. handler[w][e] # "idle"
    BY DEF HandlerStep, WinClaim, LoseClaim, ReadClaim, Land, Reject, NoDownstream, Confirm,
           LoseAnswer, Complete, DeadLetter, Abandon, Requeue, XAck, XDel, Refused
  <2>2. e \in 1..Len(log) /\ e <= lastDelivered /\ lastDelivered \in Nat
    BY <2>1, DeliveryAssumption DEF ReadInOrder, TypeOK, EntryIds, DeliveryAssumption
  <2> QED
    BY <2>1, <2>2, EntryHasMsg
<1>2. handler[w][e] # "xdel" => Msg(e) \in Owed
  <2>1. handler[w][e] # "xdel" => e \in Copies(Msg(e))
    BY <1>1 DEF Exclusive, PendingPresent, Copies, Live
  <2> QED
    BY <1>1, <2>1 DEF Owed
<1>3. CASE Land(w, e)
  <2>1. received' = received \union {Msg(e)} /\ UNCHANGED <<log, present, pel, lastDelivered, dlq>>
    BY <1>3 DEF Land, redisVars
  <2>2. Owed' = Owed
    BY <2>1, OwedStays DEF Live
  <2>3. Promise!Take(Msg(e))
    BY <1>2, <1>3, <2>1, <2>2 DEF Land, Promise!Take
  <2> QED
    BY <1>1, <2>3 DEF Promise!Next
<1>4. CASE DeadLetter(w, e)
  <2>1. /\ dlq' = dlq \union {Msg(e)}
        /\ UNCHANGED <<log, present, pel, lastDelivered, received>>
    BY <1>4 DEF DeadLetter
  <2>2. Owed' = Owed
    BY <2>1, OwedStays DEF Live
  <2>3. Promise!Park(Msg(e))
    BY <1>2, <1>4, <2>1, <2>2 DEF DeadLetter, Promise!Park
  <2> QED
    BY <1>1, <2>3 DEF Promise!Next
<1>5. CASE Requeue(w, e)
  <2>1. /\ XAdd(Msg(e), log[e].rc + 1) /\ handler[w][e] = "requeue"
        /\ UNCHANGED <<lastDelivered, pel, dlq, received>>
    BY <1>5 DEF Requeue
  <2>2. log[e].rc + 1 \in 0..MaxRetries
    <3>1. log[e] \in Entry
      BY <1>1 DEF TypeOK
    <3>2. log[e].rc \in 0..MaxRetries /\ log[e].rc < MaxRetries
      BY <2>1, <3>1 DEF ReadInOrder, Entry
    <3> QED
      BY <3>2, DeliveryAssumption DEF DeliveryAssumption
  <2>3. Owed' = Owed
    BY <1>1, <1>2, <2>1, <2>2, OwedGrows
  <2> QED
    BY <2>1, <2>3 DEF Promise!promiseVars
\* An ack that leaves no live entry comes after the first outcome.
<1>6. CASE XAck(w, e)
  <2>1. pel' = pel \ {e} /\ UNCHANGED <<log, present, lastDelivered, dlq, received>>
    BY <1>6 DEF XAck
  <2>2. CASE Owed' = Owed
    BY <2>1, <2>2 DEF Promise!promiseVars
  <2>3. CASE Msg(e) \in Owed /\ Owed' = Owed \ {Msg(e)}
    <3>1. PICK m \in Msgs : m = Msg(e)
      BY <1>1
    <3>2. Copies(m)' = {}
      BY <2>3, <3>1 DEF Owed
    <3>3. (\A f \in 1..Len(log) : Settled(Msg(f)) \/ Copies(Msg(f)) # {})'
      BY DEF NoLossInv, NoLoss
    <3>4. Msg(e)' = m /\ e \in 1..Len(log')
      BY <1>1, <2>1, <3>1 DEF Msg
    <3>5. Settled(m)'
      BY <3>2, <3>3, <3>4
    <3>6. Promise!Retire(m)
      BY <2>1, <2>3, <3>1, <3>5 DEF Promise!Retire, Settled
    <3> QED
      BY <3>6 DEF Promise!Next
  <2> QED
    BY <1>1, <2>1, <2>2, <2>3, OwedShrinks
\* What is deleted had been acked.
<1>7. CASE XDel(w, e)
  <2>1. /\ present' = present \ {e} /\ handler[w][e] = "xdel"
        /\ UNCHANGED <<log, pel, lastDelivered, dlq, received>>
    BY <1>7 DEF XDel
  <2>2. e \notin pel /\ ~(e > lastDelivered)
    <3>1. e \notin pel
      BY <2>1 DEF Exclusive
    <3> QED
      BY <1>1, <3>1
  <2>3. \A f \in 1..Len(log) : Live(f)' <=> Live(f)
    BY <2>1, <2>2 DEF Live
  <2> QED
    BY <2>1, <2>3, OwedStays DEF Promise!promiseVars
<1>8. CASE \/ WinClaim(w, e) \/ LoseClaim(w, e) \/ ReadClaim(w, e)
           \/ Reject(w, e) \/ NoDownstream(w, e) \/ Confirm(w, e) \/ LoseAnswer(w, e)
           \/ Complete(w, e) \/ Abandon(w, e) \/ Refused(w, e)
  <2>1. UNCHANGED <<log, present, pel, lastDelivered, dlq, received>>
    BY <1>8 DEF WinClaim, LoseClaim, ReadClaim, Reject, NoDownstream, Confirm,
                LoseAnswer, Complete, Abandon, Refused, redisVars
  <2>2. Owed' = Owed
    BY <2>1, OwedStays DEF Live
  <2> QED
    BY <2>1, <2>2 DEF Promise!promiseVars
<1> QED
  BY <1>3, <1>4, <1>5, <1>6, <1>7, <1>8 DEF HandlerStep

\* An event that the API adds is owed from then on, if it was not already.
LEMMA PublishKeepsPromise ==
  ASSUME TypeOK, ReadInOrder, ~Trims, NEW m \in Msgs, XAdd(m, 0),
         UNCHANGED <<lastDelivered, pel, dlq, received>>
  PROVE  [Promise!Next]_(Promise!promiseVars)
<1>1. Owed' = Owed \union {m}
  <2>1. 0 \in 0..MaxRetries
    BY DeliveryAssumption DEF DeliveryAssumption
  <2> QED
    BY <2>1, OwedGrows
<1>2. CASE m \in Owed
  BY <1>1, <1>2 DEF Promise!promiseVars
<1>3. CASE m \notin Owed
  <2>1. Promise!Accept(m)
    BY <1>1, <1>3 DEF Promise!Accept
  <2> QED
    BY <2>1 DEF Promise!Next
<1> QED
  BY <1>2, <1>3

\* Every step of the delivery path is a step of the promise, or none.
LEMMA StepKeepsPromise ==
  ASSUME TypeOK, ReadInOrder, Exclusive, NoLossInv', [Next]_vars, ~Trims, ~Resend
  PROVE  [Promise!Next]_(Promise!promiseVars)
<1>1. CASE \E m \in Msgs : Publish(m) \/ PublishAgain(m)
  BY <1>1, PublishKeepsPromise DEF Publish, PublishAgain
<1>2. CASE \E w \in Workers, e \in EntryIds : HandlerStep(w, e)
  BY <1>2, HandlerKeepsPromise
<1>3. CASE \E w \in Workers : LoopStep(w)
  <2>1. UNCHANGED <<dlq, received>>
    BY <1>3 DEF LoopStep, Start, Sweep, ReadNew, EndBatch, Stop, redisVars
  <2> QED
    BY <1>3, <2>1, LoopKeepsOwed DEF Promise!promiseVars
<1>4. CASE \/ \E m \in Msgs : ClaimLapses(m) \/ MarkerLapses(m)
           \/ \E e \in EntryIds : GoStale(e)
           \/ \E w \in Workers : RequestShutdown(w) \/ Crash(w)
           \/ UNCHANGED vars
  <2>1. UNCHANGED <<log, present, pel, lastDelivered, dlq, received>>
    BY <1>4 DEF ClaimLapses, MarkerLapses, GoStale, RequestShutdown, Crash, vars,
                redisVars, workerVars
  <2>2. Owed' = Owed
    BY <2>1, OwedStays DEF Live
  <2> QED
    BY <2>1, <2>2 DEF Promise!promiseVars
<1> QED
  BY <1>1, <1>2, <1>3, <1>4 DEF Next

\* Whatever keeps reclaims away from running handlers.
LEMMA PromiseUnhurried ==
  ASSUME ~Resend, Unconfigured = {}
  PROVE  UnhurriedSpec /\ [][~Trims]_vars
           => Promise!Init /\ [][Promise!Next]_(Promise!promiseVars)
<1> DEFINE Inv == TypeOK /\ ReadInOrder /\ Exclusive /\ NoLossInv
<1>1. Init => Inv /\ Promise!Init
  <2> SUFFICES ASSUME Init PROVE Inv /\ Promise!Init
    OBVIOUS
  <2>1. TypeOK /\ ReadInOrder
    BY TypesInductive
  <2>2. /\ log = << >> /\ 1..Len(log) = {} /\ pel = {} /\ dlq = {} /\ received = {}
        /\ \A w \in Workers, e \in EntryIds : handler[w][e] = "idle"
    BY DEF Init
  <2>3. Exclusive
    BY <2>2 DEF Exclusive, PendingPresent
  <2>4. NoLossInv
    BY DEF Init, NoLossInv, PendingPresent, DoneIsReceived, NoLoss, Grounded
  <2>5. Owed = {}
    BY <2>2 DEF Owed, Copies
  <2> QED
    BY <2>1, <2>2, <2>3, <2>4, <2>5 DEF Promise!Init
<1>2. Inv /\ [UnhurriedNext]_vars /\ [~Trims]_vars
        => Inv' /\ [Promise!Next]_(Promise!promiseVars)
  <2> SUFFICES ASSUME Inv, [UnhurriedNext]_vars, [~Trims]_vars
               PROVE  Inv' /\ [Promise!Next]_(Promise!promiseVars)
    OBVIOUS
  <2>1. TypeOK' /\ ReadInOrder'
    BY TypesInductive, InTimeSteps
  <2>2. ~Trims
    BY DEF Trims, vars, redisVars
  <2>3. Exclusive' /\ NoLossInv'
    BY <2>2, ExclusiveInductive, NoLossInductive, InTimeSteps
  <2> QED
    BY <2>1, <2>2, <2>3, StepKeepsPromise, InTimeSteps
<1> HIDE DEF Inv
<1> QED
  BY <1>1, <1>2, PTL DEF UnhurriedSpec

\* The delivery path implements AtLeastOnce step by step: an event is owed from
\* its XADD on, it is sent or parked only while it is owed, and it is retired
\* only after one of the two.  That holds while entries under a handler are not
\* reclaimed, the client sends each command once, every worker has a downstream
\* and XADD drops no entry; that the outcome comes is left to the runs.
THEOREM DeliveryImplementsPromise ==
  ASSUME Timely, ~Resend, Unconfigured = {}
  PROVE  Spec /\ [][~Trims]_vars
           => Promise!Init /\ [][Promise!Next]_(Promise!promiseVars)
BY PromiseUnhurried, TimelyIsInTime, InTimeIsUnhurried, PTL
=============================================================================
