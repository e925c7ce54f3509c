-------------------------- MODULE ClaimLeaseProofs --------------------------
(***************************************************************************)
(* What the lifetimes of ClaimLease guarantee, proved for every value of   *)
(* them: if Redis answers within the margin of claim_ttl_seconds(), a      *)
(* claim outlives the attempt it covers; if it answers within that of      *)
(* CLAIM_MIN_IDLE_MS, nobody reclaims an entry under a handler.  Timely is *)
(* not assumed: it follows, and with it all that is proved from it.        *)
(***************************************************************************)
EXTENDS ClaimLease, CopiesProofs

LEMMA LifetimesAreNat ==
  /\ ClaimTTL \in Nat
  /\ PostTimeout \in Nat /\ BackoffMax \in Nat /\ Latency \in Nat /\ MinIdle \in Nat
  /\ AfterPost \in Nat /\ AfterPost >= Latency + BackoffMax /\ AfterPost >= 2 * Latency
<1>1. /\ PostTimeout \in Nat /\ BackoffMax \in Nat /\ Latency \in Nat /\ MinIdle \in Nat
      /\ Second \in Nat \ {0}
  BY LeaseAssumption DEF LeaseAssumption
<1>2. ClaimTTL \in Nat
  <2>1. (PostTimeout + BackoffMax) \div Second \in Nat
    BY <1>1
  <2>2. \A q \in Nat : (q + 5) * Second \in Nat
    BY <1>1
  <2> QED
    BY <2>1, <2>2 DEF ClaimTTL
<1> QED
  BY <1>1, <1>2 DEF AfterPost

\* The awaits of an attempt: how long each may last, how far the end may be.
LEMMA AwaitBounds ==
  /\ Limit("post") = Latency + PostTimeout /\ Limit("landed") = Latency + PostTimeout
  /\ Limit("backoff") = BackoffMax + Latency
  /\ \A pc \in PC \ {"post", "landed", "backoff"} : Limit(pc) = Latency
  /\ ToRelease("post") = Latency + PostTimeout + AfterPost
  /\ ToRelease("landed") = Latency + PostTimeout + AfterPost
  /\ ToRelease("dead") = 2 * Latency /\ ToRelease("backoff") = BackoffMax + Latency
  /\ ToRelease("complete") = Latency /\ ToRelease("dl_abandon") = Latency
  /\ \A pc \in PC : Limit(pc) \in Nat
  /\ \A pc \in HolderPC : Limit(pc) <= ToRelease(pc)
<1>1. /\ Limit("post") = Latency + PostTimeout /\ Limit("landed") = Latency + PostTimeout
      /\ Limit("backoff") = BackoffMax + Latency
      /\ \A pc \in PC \ {"post", "landed", "backoff"} : Limit(pc) = Latency
  BY DEF Limit, PC, HolderPC
<1>2. /\ ToRelease("post") = Latency + PostTimeout + AfterPost
      /\ ToRelease("landed") = Latency + PostTimeout + AfterPost
      /\ ToRelease("dead") = 2 * Latency /\ ToRelease("backoff") = BackoffMax + Latency
      /\ ToRelease("complete") = Latency /\ ToRelease("dl_abandon") = Latency
  BY DEF ToRelease
<1>3. \A pc \in PC : Limit(pc) \in Nat
  BY <1>1, LifetimesAreNat DEF PC, HolderPC
<1>4. \A pc \in HolderPC : Limit(pc) <= ToRelease(pc)
  BY <1>1, <1>2, LifetimesAreNat DEF PC, HolderPC
<1> QED
  BY <1>1, <1>2, <1>3, <1>4

-----------------------------------------------------------------------------
(* How a step moves through an attempt *)

\* The awaits of an attempt and their order in handle().
Follows(pc, next) ==
  \/ pc = "begin"  /\ next = "post"
  \/ pc = "post"   /\ next \in {"landed", "complete", "dead", "backoff"}
  \/ pc = "landed" /\ next \in {"complete", "dead", "backoff"}
  \/ pc = "dead"   /\ next = "dl_abandon"

\* No step skips an await, and only winning the claim begins an attempt.
LEMMA AttemptsMoveOn ==
  ASSUME TypeOK, ReadInOrder, OrderlyNext, NEW v \in Workers, NEW f \in EntryIds,
         handler'[v][f] \in HolderPC
  PROVE  /\ handler'[v][f] = handler[v][f] \/ Follows(handler[v][f], handler'[v][f])
         /\ handler[v][f] = "begin" =>
              claim[Msg(f)] = "none" /\ claim'[Msg(f)] = "inflight"
         /\ handler[v][f] # "idle"
<1>0. /\ handler \in [Workers -> [EntryIds -> PC]]
      /\ claim \in [Msgs -> {"none", "inflight", "done"}]
      /\ "begin" \notin HolderPC /\ "idle" \notin HolderPC
  BY DEF TypeOK, HolderPC
<1>1. ASSUME NEW w \in Workers, NEW e \in EntryIds, HandlerStep(w, e)
      PROVE  /\ handler'[v][f] = handler[v][f] \/ Follows(handler[v][f], handler'[v][f])
             /\ handler[v][f] = "begin" =>
                  claim[Msg(f)] = "none" /\ claim'[Msg(f)] = "inflight"
  <2>1. CASE UNCHANGED handler
    BY <1>0, <2>1
  <2>2. ASSUME NEW q, handler' = [handler EXCEPT ![w][e] = q]
        PROVE  handler'[v][f] = IF v = w /\ f = e THEN q ELSE handler[v][f]
    BY <1>0, <2>2
  <2>3. CASE WinClaim(w, e)
    <3>1. Msg(e) \in Msgs
      <4>1. handler[w][e] # "idle"
        BY <2>3 DEF WinClaim
      <4>2. e <= lastDelivered /\ lastDelivered <= Len(log)
        BY <4>1 DEF ReadInOrder
      <4>3. /\ e \in 1..MaxEntries /\ MaxEntries \in Nat /\ Len(log) \in Nat
            /\ lastDelivered \in 0..MaxEntries
        BY DeliveryAssumption DEF TypeOK, EntryIds, DeliveryAssumption
      <4>4. e \in 1..Len(log)
        BY <4>2, <4>3
      <4> QED
        BY <4>4, EntryHasMsg
    <3>2. /\ handler[w][e] = "begin" /\ claim[Msg(e)] = "none"
          /\ claim'[Msg(e)] = "inflight"
      BY <1>0, <2>3, <3>1 DEF WinClaim
    <3>3. UNCHANGED handler \/ \E q \in {"post", "idle"} : handler' = [handler EXCEPT ![w][e] = q]
      BY <2>3 DEF WinClaim, Answered, Goes
    <3> QED
      BY <1>0, <2>1, <2>2, <3>2, <3>3 DEF Follows
  <2>4. CASE Land(w, e) \/ Reject(w, e) \/ NoDownstream(w, e)
    <3>1. handler[w][e] = "post"
      BY <2>4 DEF Land, Reject, NoDownstream
    <3>2. \E q \in {"landed", "complete", "dead", "backoff"} :
            handler' = [handler EXCEPT ![w][e] = q]
      BY <2>4 DEF Land, Reject, NoDownstream, Goes, AfterFailure
    <3> QED
      BY <1>0, <2>2, <3>1, <3>2 DEF Follows
  <2>5. CASE Confirm(w, e) \/ LoseAnswer(w, e)
    <3>1. handler[w][e] = "landed"
      BY <2>5 DEF Confirm, LoseAnswer
    <3>2. \E q \in {"complete", "dead", "backoff"} : handler' = [handler EXCEPT ![w][e] = q]
      BY <2>5 DEF Confirm, LoseAnswer, Goes, AfterFailure
    <3> QED
      BY <1>0, <2>2, <3>1, <3>2 DEF Follows
  <2>6. CASE DeadLetter(w, e)
    <3>1. handler[w][e] = "dead"
      BY <2>6 DEF DeadLetter
    <3>2. UNCHANGED handler \/ \E q \in {"dl_abandon", "idle"} : handler' = [handler EXCEPT ![w][e] = q]
      BY <2>6 DEF DeadLetter, Answered, Goes
    <3> QED
      BY <1>0, <2>1, <2>2, <3>1, <3>2 DEF Follows
  <2>7. CASE \/ LoseClaim(w, e) \/ ReadClaim(w, e) \/ Complete(w, e) \/ Abandon(w, e)
             \/ Requeue(w, e) \/ XAck(w, e) \/ XDel(w, e) \/ Refused(w, e)
    <3>1. \/ UNCHANGED handler
          \/ \E q \in {"get", "xack", "requeue", "xdel", "idle"} :
               handler' = [handler EXCEPT ![w][e] = q]
      BY <2>7 DEF LoseClaim, ReadClaim, Complete, Abandon, Requeue, XAck, XDel, Refused,
                  Answered, Goes
    <3>2. {"get", "xack", "requeue", "xdel", "idle"} \intersect HolderPC = {}
      BY DEF HolderPC
    <3> QED
      BY <1>0, <2>1, <2>2, <3>1, <3>2
  <2> QED
    BY <1>1, <2>3, <2>4, <2>5, <2>6, <2>7 DEF HandlerStep
<1>2. ASSUME NEW w \in Workers, LoopStep(w) \/ RequestShutdown(w) \/ Crash(w)
      PROVE  handler'[v][f] = handler[v][f]
  <2>1. \/ UNCHANGED handler
        \/ \E batch : Begins(w, batch)
        \/ handler' = [handler EXCEPT ![w] = [e \in EntryIds |-> "idle"]]
    BY <1>2 DEF LoopStep, Start, Sweep, ReadNew, EndBatch, Stop, RequestShutdown, Crash
  <2>2. handler'[v][f] = handler[v][f] \/ handler'[v][f] \in {"begin", "idle"}
    BY <1>0, <2>1 DEF Begins
  <2> QED
    BY <1>0, <2>2
<1>3. ASSUME \/ \E m \in Msgs : Publish(m) \/ PublishAgain(m) \/ ClaimLapses(m) \/ MarkerLapses(m)
             \/ \E e \in EntryIds : GoStale(e)
      PROVE  UNCHANGED handler
  BY <1>3 DEF Publish, PublishAgain, ClaimLapses, MarkerLapses, GoStale, workerVars
<1>4. handler'[v][f] = handler[v][f] \/ Follows(handler[v][f], handler'[v][f])
  BY <1>1, <1>2, <1>3 DEF OrderlyNext
<1>5. handler[v][f] = "begin" => claim[Msg(f)] = "none" /\ claim'[Msg(f)] = "inflight"
  BY <1>0, <1>1, <1>2, <1>3 DEF OrderlyNext
<1> QED
  BY <1>0, <1>4, <1>5 DEF Follows

-----------------------------------------------------------------------------
(* The timers *)

\* A step is a tick, or one of Delivery that the timers follow; a claim that
\* lapses has no time left.
LEMMA StepsOfTheClock ==
  ASSUME [LeaseNext]_<<vars, timers>>
  PROVE  \/ Tick
         \/ OrderlyNext /\ Timers
         \/ \E m \in Msgs : ttl[m] = 0 /\ ClaimLapses(m) /\ Timers
         \/ UNCHANGED <<vars, timers>>
BY DEF LeaseNext, Work, Lapse, AgeOut, Forget, OrderlyNext

LEMMA LeaseTypesInductive ==
  /\ LeaseInit => LeaseTypeOK
  /\ TypeOK /\ ReadInOrder /\ LeaseTypeOK /\ [LeaseNext]_<<vars, timers>> => LeaseTypeOK'
<1>1. ASSUME LeaseInit PROVE LeaseTypeOK
  <2>1. /\ ttl = [m \in Msgs |-> 0] /\ idle = [e \in EntryIds |-> 0]
        /\ clock = [w \in Workers |-> [e \in EntryIds |-> 0]]
        /\ handler = [w \in Workers |-> [e \in EntryIds |-> "idle"]]
    BY <1>1 DEF LeaseInit, Init
  <2>2. Limit("idle") \in Nat
    BY AwaitBounds DEF PC
  <2> QED
    BY <2>1, <2>2, LifetimesAreNat DEF LeaseTypeOK
<1>2. ASSUME TypeOK, ReadInOrder, LeaseTypeOK, [LeaseNext]_<<vars, timers>>
      PROVE  LeaseTypeOK'
  <2>0. /\ ttl \in [Msgs -> 0..ClaimTTL] /\ idle \in [EntryIds -> 0..MinIdle]
        /\ clock \in [Workers -> [EntryIds -> Nat]]
        /\ \A w \in Workers, e \in EntryIds :
             clock[w][e] \in Nat /\ clock[w][e] <= Limit(handler[w][e])
        /\ handler \in [Workers -> [EntryIds -> PC]]
        /\ ClaimTTL \in Nat /\ MinIdle \in Nat
    BY <1>2, LifetimesAreNat DEF LeaseTypeOK, TypeOK
  <2>1. CASE Tick
    <3>1. ttl' \in [Msgs -> 0..ClaimTTL]
      BY <2>0, <2>1 DEF Tick
    <3>2. idle' \in [EntryIds -> 0..MinIdle]
      BY <2>0, <2>1 DEF Tick
    <3>3. ASSUME NEW w \in Workers, NEW e \in EntryIds
          PROVE  clock'[w][e] \in Nat /\ clock'[w][e] <= Limit(handler'[w][e])
      <4>1. handler' = handler
        BY <2>1 DEF Tick, vars, workerVars
      <4>2. clock'[w][e] = IF handler[w][e] = "idle" THEN 0 ELSE clock[w][e] + 1
        BY <2>1 DEF Tick
      <4>3. handler[w][e] # "idle" => clock[w][e] < Limit(handler[w][e])
        BY <2>1 DEF Tick
      <4>4. Limit(handler[w][e]) \in Nat
        BY <2>0, AwaitBounds
      <4> QED
        BY <2>0, <4>1, <4>2, <4>3, <4>4
    <3>4. clock' = [w \in Workers |-> [e \in EntryIds |->
                      IF handler[w][e] = "idle" THEN 0 ELSE clock[w][e] + 1]]
      BY <2>1 DEF Tick
    <3>5. clock' \in [Workers -> [EntryIds -> Nat]]
      BY <2>0, <3>4
    <3> QED
      BY <3>1, <3>2, <3>3, <3>5 DEF LeaseTypeOK
  <2>2. ASSUME Timers, [Next]_vars,
               \A w \in Workers, e \in EntryIds :
                 handler'[w][e] = "landed" => handler[w][e] \in {"post", "landed"}
        PROVE  LeaseTypeOK'
    <3>1. ttl' \in [Msgs -> 0..ClaimTTL]
      BY <2>0, <2>2 DEF Timers
    <3>2. idle' \in [EntryIds -> 0..MinIdle]
      BY <2>0, <2>2 DEF Timers
    <3>3. handler' \in [Workers -> [EntryIds -> PC]]
      BY <1>2, <2>2, TypesInductive DEF TypeOK
    <3>4. clock' = [w \in Workers |-> [e \in EntryIds |->
                      IF handler'[w][e] \in {handler[w][e], "landed"}
                      THEN clock[w][e] ELSE 0]]
      BY <2>2 DEF Timers
    <3>5. clock' \in [Workers -> [EntryIds -> Nat]]
      BY <2>0, <3>4
    <3>6. ASSUME NEW w \in Workers, NEW e \in EntryIds
          PROVE  clock'[w][e] <= Limit(handler'[w][e])
      <4>1. clock'[w][e] = IF handler'[w][e] \in {handler[w][e], "landed"}
                           THEN clock[w][e] ELSE 0
        BY <3>4
      <4>2. Limit(handler'[w][e]) \in Nat
        BY <3>3, AwaitBounds
      <4>3. Limit("post") = Limit("landed")
        BY AwaitBounds
      <4> QED
        BY <2>0, <2>2, <4>1, <4>2, <4>3
    <3> QED
      BY <3>1, <3>2, <3>5, <3>6 DEF LeaseTypeOK
  <2>3. CASE OrderlyNext /\ Timers
    <3>1. [Next]_vars
      BY <2>3 DEF OrderlyNext, Next
    <3>2. ASSUME NEW w \in Workers, NEW e \in EntryIds, handler'[w][e] = "landed"
          PROVE  handler[w][e] \in {"post", "landed"}
      <4>1. "landed" \in HolderPC
        BY DEF HolderPC
      <4> QED
        BY <1>2, <2>3, <3>2, <4>1, AttemptsMoveOn DEF Follows
    <3> QED
      BY <2>2, <2>3, <3>1, <3>2
  <2>4. CASE \E m \in Msgs : ttl[m] = 0 /\ ClaimLapses(m) /\ Timers
    <3>1. Timers /\ [Next]_vars /\ UNCHANGED handler
      BY <2>4 DEF Next, ClaimLapses, workerVars
    <3> QED
      BY <2>2, <3>1
  <2>5. CASE UNCHANGED <<vars, timers>>
    BY <1>2, <2>5 DEF LeaseTypeOK, vars, workerVars, timers
  <2> QED
    BY <1>2, <2>1, <2>3, <2>4, <2>5, StepsOfTheClock
<1> QED
  BY <1>1, <1>2

\* Everything Delivery's own invariants say holds with the clock as well: a
\* tick is a step in which nothing of Delivery changes.
LEMMA LeaseStepIsStep == [LeaseNext]_<<vars, timers>> => [Next]_vars
BY DEF LeaseNext, Work, Lapse, AgeOut, Forget, Tick, Next, vars

\* The timers have their types and no await outlasts its timeout: the clock
\* never leaves a handler behind, for any lifetimes.
THEOREM LeaseTypeCorrect == LeaseSpec => []LeaseTypeOK
<1>1. LeaseInit => TypeOK /\ ReadInOrder
  BY TypesInductive DEF LeaseInit
<1>2. TypeOK /\ ReadInOrder /\ [LeaseNext]_<<vars, timers>> => (TypeOK /\ ReadInOrder)'
  BY TypesInductive, LeaseStepIsStep
<1> QED
  BY <1>1, <1>2, LeaseTypesInductive, PTL DEF LeaseSpec

-----------------------------------------------------------------------------
(* The lease outlasts the attempt *)

\* Inside an attempt the lease has time left, so it does not lapse.
LEMMA NoLapseUnderAttempt ==
  ASSUME TypeOK, LeaseTypeOK, LeaseCoversAttempt, NEW m \in Msgs, ttl[m] = 0
  PROVE  ~Held(m)
<1> SUFFICES ASSUME NEW w \in Workers, NEW e \in 1..Len(log), Holds(w, e), Msg(e) = m
             PROVE  FALSE
  BY DEF Held
<1>1. e \in EntryIds /\ handler[w][e] \in HolderPC
  BY DeliveryAssumption DEF TypeOK, EntryIds, DeliveryAssumption, Holds
<1>2. 0 + clock[w][e] > ToRelease(handler[w][e])
  BY DEF LeaseCoversAttempt
<1>3. clock[w][e] \in Nat /\ clock[w][e] <= Limit(handler[w][e])
  BY <1>1 DEF LeaseTypeOK
<1>4. Limit(handler[w][e]) \in Nat /\ Limit(handler[w][e]) <= ToRelease(handler[w][e])
  BY <1>1, AwaitBounds DEF PC
<1>5. ToRelease(handler[w][e]) \in Nat
  <2>1. handler[w][e] \in {"post", "landed", "complete", "dead", "dl_abandon", "backoff"}
    BY <1>1 DEF HolderPC
  <2> QED
    BY <2>1, AwaitBounds, LifetimesAreNat
<1> QED
  BY <1>2, <1>3, <1>4, <1>5

\* Moving on within the attempt needs no more time than staying did.
LEMMA FollowsIsCloser ==
  ASSUME NEW pc \in PC, NEW next \in HolderPC, Follows(pc, next), pc # "begin",
         NEW left \in Nat, NEW c \in Nat, c <= Limit(pc), left + c > ToRelease(pc)
  PROVE  left + (IF next = "landed" THEN c ELSE 0) > ToRelease(next)
<1>1. CASE pc = "post" /\ next = "landed"
  BY <1>1, AwaitBounds, LifetimesAreNat
<1>2. CASE pc \in {"post", "landed"} /\ next \in {"dead", "backoff", "complete"}
  <2>1. left > AfterPost
    BY <1>2, AwaitBounds, LifetimesAreNat
  <2>2. ToRelease(next) <= AfterPost /\ ToRelease(next) \in Nat
    BY <1>2, AwaitBounds, LifetimesAreNat
  <2> QED
    BY <1>2, <2>1, <2>2, LifetimesAreNat
<1>3. CASE pc = "dead" /\ next = "dl_abandon"
  <2>1. ToRelease(pc) = 2 * Latency /\ Limit(pc) = Latency /\ ToRelease(next) = Latency
    BY <1>3, AwaitBounds DEF PC, HolderPC
  <2> QED
    BY <1>3, <2>1, LifetimesAreNat
<1> QED
  BY <1>1, <1>2, <1>3 DEF Follows

\* A tick takes as much from the attempt as from its lease.
LEMMA TickKeepsLease ==
  ASSUME TypeOK, LeaseTypeOK, LeaseCoversAttempt, Tick
  PROVE  LeaseCoversAttempt'
<1>1. UNCHANGED <<log, claim, handler>>
  BY DEF Tick, vars, redisVars, workerVars
<1> SUFFICES ASSUME NEW e \in 1..Len(log), NEW w \in Workers, Holds(w, e)
             PROVE  /\ claim[Msg(e)] = "inflight"
                    /\ ttl'[Msg(e)] + clock'[w][e] > ToRelease(handler[w][e])
  BY <1>1 DEF LeaseCoversAttempt, Holds, Msg
<1>2. /\ e \in EntryIds /\ Msg(e) \in Msgs
      /\ handler[w][e] # "idle"
  BY DeliveryAssumption, EntryHasMsg
  DEF TypeOK, EntryIds, DeliveryAssumption, Holds, HolderPC
<1>3. /\ claim[Msg(e)] = "inflight"
      /\ ttl[Msg(e)] + clock[w][e] > ToRelease(handler[w][e])
  BY DEF LeaseCoversAttempt
<1>4. ttl[Msg(e)] \in Nat /\ clock[w][e] \in Nat
  BY <1>2, LifetimesAreNat DEF LeaseTypeOK
<1>5. ttl'[Msg(e)] = ttl[Msg(e)] - 1 /\ clock'[w][e] = clock[w][e] + 1
  BY <1>2, <1>3 DEF Tick
<1>6. ttl'[Msg(e)] + clock'[w][e] = ttl[Msg(e)] + clock[w][e]
  <2>1. \A a \in Nat, b \in Nat : (a - 1) + (b + 1) = a + b
    OBVIOUS
  <2>2. (ttl[Msg(e)] - 1) + (clock[w][e] + 1) = ttl[Msg(e)] + clock[w][e]
    BY <1>4, <2>1
  <2> QED
    BY <1>5, <2>2
<1> QED
  BY <1>3, <1>6

\* The stream ids handed out before a step mean afterwards what they meant.
LEMMA LogOnlyGrows ==
  ASSUME OrderlyNext
  PROVE  UNCHANGED log \/ \E x : log' = Append(log, x)
<1>1. ASSUME NEW m \in Msgs, Publish(m) \/ PublishAgain(m)
      PROVE  \E x : log' = Append(log, x)
  BY <1>1 DEF Publish, PublishAgain, XAdd
<1>2. ASSUME NEW w \in Workers, NEW e \in EntryIds, HandlerStep(w, e)
      PROVE  UNCHANGED log \/ \E x : log' = Append(log, x)
  <2>1. CASE Requeue(w, e)
    BY <2>1 DEF Requeue, XAdd
  <2>2. CASE ~Requeue(w, e)
    BY <1>2, <2>2 DEF HandlerStep, WinClaim, LoseClaim, ReadClaim, Land, Reject, NoDownstream, Confirm,
       LoseAnswer, Complete, DeadLetter, Abandon, XAck, XDel, Refused, redisVars
  <2> QED
    BY <2>1, <2>2
<1>3. ASSUME NEW w \in Workers, LoopStep(w) \/ RequestShutdown(w) \/ Crash(w)
      PROVE  UNCHANGED log
  BY <1>3 DEF LoopStep, Start, Sweep, ReadNew, EndBatch, Stop, RequestShutdown, Crash,
     redisVars
<1>4. ASSUME \/ \E m \in Msgs : ClaimLapses(m) \/ MarkerLapses(m)
             \/ \E e \in EntryIds : GoStale(e)
      PROVE  UNCHANGED log
  BY <1>4 DEF ClaimLapses, MarkerLapses, GoStale
<1> QED
  BY <1>1, <1>2, <1>3, <1>4 DEF OrderlyNext

\* So does every other step: a new attempt has the whole lease before it, and
\* within an attempt nobody touches the claim.
LEMMA StepKeepsLease ==
  ASSUME TypeOK, ReadInOrder, LeaseTypeOK, ClaimHeld, LeaseCoversAttempt,
         LatencyFits, ~Resend, OrderlyNext, Timers
  PROVE  LeaseCoversAttempt'
<1>1. ClaimHeld' /\ TypeOK' /\ Len(log) \in Nat
  <2>1. [Next]_vars
    BY DEF OrderlyNext, Next
  <2> QED
    BY <2>1, ClaimsSurvive, TypesInductive DEF TypeOK
<1> SUFFICES ASSUME NEW e \in 1..Len(log'), NEW w \in Workers, handler'[w][e] \in HolderPC
             PROVE  /\ claim'[Msg(e)'] = "inflight"
                    /\ ttl'[Msg(e)'] + clock'[w][e] > ToRelease(handler'[w][e])
  BY DEF LeaseCoversAttempt, Holds
<1>2. e \in EntryIds
  BY <1>1, DeliveryAssumption DEF TypeOK, EntryIds, DeliveryAssumption
<1>3. /\ handler'[w][e] = handler[w][e] \/ Follows(handler[w][e], handler'[w][e])
      /\ handler[w][e] = "begin" =>
           claim[Msg(e)] = "none" /\ claim'[Msg(e)] = "inflight"
      /\ handler[w][e] # "idle"
  BY <1>2, AttemptsMoveOn
<1>4. e \in 1..Len(log) /\ log'[e] = log[e]
  <2>1. e \in 1..Len(log)
    BY <1>1, <1>2, <1>3, DeliveryAssumption DEF ReadInOrder, TypeOK, EntryIds, DeliveryAssumption
  <2>2. UNCHANGED log \/ \E x : log' = Append(log, x)
    BY LogOnlyGrows
  <2>3. log \in Seq(Entry)
    BY DEF TypeOK
  <2> QED
    BY <2>1, <2>2, <2>3
<1>5. Msg(e)' = Msg(e) /\ Msg(e) \in Msgs
  BY <1>4, EntryHasMsg DEF Msg
<1>6. claim'[Msg(e)] = "inflight"
  BY <1>1, <1>5 DEF ClaimHeld, Holds
<1>7. /\ handler[w][e] \in PC /\ ttl[Msg(e)] \in Nat /\ clock[w][e] \in Nat
      /\ clock[w][e] <= Limit(handler[w][e])
  BY <1>2, <1>5, LifetimesAreNat DEF TypeOK, LeaseTypeOK
<1>8. /\ clock'[w][e] = IF handler'[w][e] \in {handler[w][e], "landed"}
                        THEN clock[w][e] ELSE 0
      /\ ttl'[Msg(e)] = IF claim[Msg(e)] = "none" THEN ClaimTTL ELSE ttl[Msg(e)]
  BY <1>2, <1>5, <1>6 DEF Timers
<1>9. CASE handler[w][e] \in HolderPC
  <2>1. /\ claim[Msg(e)] = "inflight"
        /\ ttl[Msg(e)] + clock[w][e] > ToRelease(handler[w][e])
    BY <1>4, <1>9 DEF LeaseCoversAttempt, Holds
  <2>2. ttl'[Msg(e)] = ttl[Msg(e)]
    BY <1>8, <2>1
  <2>3. CASE handler'[w][e] = handler[w][e]
    BY <1>5, <1>6, <1>8, <2>1, <2>2, <2>3
  <2>4. CASE handler'[w][e] # handler[w][e]
    <3>1. clock'[w][e] = IF handler'[w][e] = "landed" THEN clock[w][e] ELSE 0
      BY <1>8, <2>4
    <3>2. handler[w][e] # "begin"
      BY <1>9 DEF HolderPC
    <3>3. ttl[Msg(e)] + clock'[w][e] > ToRelease(handler'[w][e])
      BY <1>3, <1>7, <2>1, <2>4, <3>1, <3>2, FollowsIsCloser
    <3> QED
      BY <1>5, <1>6, <2>2, <3>3
  <2> QED
    BY <2>3, <2>4
<1>10. CASE handler[w][e] \notin HolderPC
  <2>1. handler[w][e] = "begin" /\ handler'[w][e] = "post"
    BY <1>3, <1>10 DEF Follows, HolderPC
  <2>2. ttl'[Msg(e)] = ClaimTTL /\ clock'[w][e] = 0
    BY <1>3, <1>8, <2>1
  <2>3. ToRelease("post") < ClaimTTL
    BY DEF LatencyFits
  <2> QED
    BY <1>5, <1>6, <2>1, <2>2, <2>3, AwaitBounds, LifetimesAreNat
<1> QED
  BY <1>9, <1>10

\* While somebody is in an attempt the claim is his alone and has time left.
LeaseHeld == LeaseTypeOK /\ ClaimHeld /\ LeaseCoversAttempt

LEMMA LeaseInductive ==
  ASSUME LatencyFits, ~Resend
  PROVE  /\ LeaseInit => TypeOK /\ ReadInOrder /\ LeaseHeld
         /\ TypeOK /\ ReadInOrder /\ LeaseHeld /\ [LeaseNext]_<<vars, timers>> =>
              (TypeOK /\ ReadInOrder /\ LeaseHeld)'
<1>1. ASSUME LeaseInit PROVE TypeOK /\ ReadInOrder /\ LeaseHeld
  <2>1. log = << >> /\ 1..Len(log) = {}
    BY <1>1 DEF LeaseInit, Init
  <2>2. ClaimHeld /\ LeaseCoversAttempt
    BY <2>1 DEF ClaimHeld, OneAttempt, LeaseCoversAttempt
  <2> QED
    BY <1>1, <2>2, TypesInductive, LeaseTypesInductive DEF LeaseInit, LeaseHeld
<1>2. ASSUME TypeOK, ReadInOrder, LeaseHeld, [LeaseNext]_<<vars, timers>>
      PROVE  TypeOK' /\ ReadInOrder' /\ LeaseHeld'
  <2>1. TypeOK' /\ ReadInOrder' /\ LeaseTypeOK'
    BY <1>2, LeaseStepIsStep, TypesInductive, LeaseTypesInductive DEF LeaseHeld
  <2>2. CASE Tick
    <3>1. UNCHANGED vars
      BY <2>2 DEF Tick
    <3>2. ClaimHeld'
      BY <1>2, <3>1, ClaimsSurvive DEF LeaseHeld
    <3> QED
      BY <1>2, <2>1, <2>2, <3>2, TickKeepsLease DEF LeaseHeld
  <2>3. ASSUME OrderlyNext, Timers PROVE LeaseHeld'
    <3>1. ClaimHeld'
      BY <1>2, <2>3, ClaimsSurvive DEF LeaseHeld
    <3> QED
      BY <1>2, <2>1, <2>3, <3>1, StepKeepsLease DEF LeaseHeld
  <2>4. CASE \E m \in Msgs : ttl[m] = 0 /\ ClaimLapses(m) /\ Timers
    <3>1. OrderlyNext /\ Timers
      BY <1>2, <2>4, NoLapseUnderAttempt DEF OrderlyNext, LeaseHeld
    <3> QED
      BY <2>1, <2>3, <3>1
  <2>5. CASE UNCHANGED <<vars, timers>>
    <3>1. UNCHANGED <<log, claim, handler, ttl, clock>>
      BY <2>5 DEF vars, redisVars, workerVars, timers
    <3>2. ClaimHeld'
      BY <1>2, <2>5, ClaimsSurvive DEF LeaseHeld
    <3> QED
      BY <1>2, <2>1, <3>1, <3>2 DEF LeaseHeld, LeaseCoversAttempt, Holds, Msg
  <2> QED
    BY <1>2, <2>1, <2>2, <2>3, <2>4, <2>5, StepsOfTheClock
<1> QED
  BY <1>1, <1>2

\* If Redis answers within the margin, and the client sends each command once,
\* claim_ttl_seconds() outlasts every attempt, to the last command of it.
THEOREM ClaimOutlastsAttempt ==
  ASSUME LatencyFits, ~Resend
  PROVE  LeaseSpec => []LeaseCoversAttempt
<1>1. LeaseHeld => LeaseCoversAttempt
  BY DEF LeaseHeld
<1> QED
  BY <1>1, LeaseInductive, PTL DEF LeaseSpec

\* Hence no two handlers are ever inside an attempt at one message: what
\* OneAttemptAtATime has to assume of time, the lifetimes provide.
THEOREM OneAttemptUnderLease ==
  ASSUME LatencyFits, ~Resend
  PROVE  LeaseSpec => []OneAttempt
<1>1. LeaseHeld => OneAttempt
  BY DEF LeaseHeld, ClaimHeld
<1> QED
  BY <1>1, LeaseInductive, PTL DEF LeaseSpec

-----------------------------------------------------------------------------
(* Nobody reclaims an entry under a handler *)

\* The longest that may be since an entry was handed out when its handler comes
\* to an await: every await before it on the longest way there.
Since(pc) ==
  CASE pc \in {"get", "post", "landed"}      -> Latency
    [] pc \in {"complete", "dead", "backoff"} -> 2 * Latency + PostTimeout
    [] pc = "dl_abandon"                     -> 3 * Latency + PostTimeout
    [] pc = "requeue" -> 3 * Latency + PostTimeout + BackoffMax
    [] pc = "xack"    -> 4 * Latency + PostTimeout + BackoffMax
    [] OTHER          -> 0

\* A pending entry with a handler has not been idle for longer than that handler
\* has been at work on it.
IdleBounded ==
  \A w \in Workers, e \in pel :
    handler[w][e] # "idle" => idle[e] <= Since(handler[w][e]) + clock[w][e]

\* The awaits of handle() in their order, to the XACK.
Onward(pc, next) ==
  \/ pc = "begin"   /\ next \in {"post", "get"}
  \/ pc = "post"    /\ next \in {"landed", "complete", "dead", "backoff"}
  \/ pc = "landed"  /\ next \in {"complete", "dead", "backoff"}
  \/ pc = "dead"    /\ next = "dl_abandon"
  \/ pc = "backoff" /\ next = "requeue"
  \/ pc \in {"get", "complete", "dl_abandon", "requeue"} /\ next = "xack"

LEMMA SinceValues ==
  /\ Since("begin") = 0 /\ Since("xdel") = 0 /\ Since("idle") = 0
  /\ Since("get") = Latency /\ Since("post") = Latency /\ Since("landed") = Latency
  /\ Since("complete") = 2 * Latency + PostTimeout
  /\ Since("dead") = 2 * Latency + PostTimeout
  /\ Since("backoff") = 2 * Latency + PostTimeout
  /\ Since("dl_abandon") = 3 * Latency + PostTimeout
  /\ Since("requeue") = 3 * Latency + PostTimeout + BackoffMax
  /\ Since("xack") = 4 * Latency + PostTimeout + BackoffMax
  /\ \A pc \in PC : Since(pc) \in Nat
<1>1. /\ Since("begin") = 0 /\ Since("xdel") = 0 /\ Since("idle") = 0
      /\ Since("get") = Latency /\ Since("post") = Latency /\ Since("landed") = Latency
      /\ Since("complete") = 2 * Latency + PostTimeout
      /\ Since("dead") = 2 * Latency + PostTimeout
      /\ Since("backoff") = 2 * Latency + PostTimeout
      /\ Since("dl_abandon") = 3 * Latency + PostTimeout
      /\ Since("requeue") = 3 * Latency + PostTimeout + BackoffMax
      /\ Since("xack") = 4 * Latency + PostTimeout + BackoffMax
  BY DEF Since
<1>2. \A pc \in PC : Since(pc) \in Nat
  BY <1>1, LifetimesAreNat DEF PC, HolderPC
<1> QED
  BY <1>1, <1>2

\* Each await ends before the latest start of the next, and the last of them
\* before the entry may be reclaimed.  POST and its answer share one timeout.
LEMMA AwaitsAddUp ==
  ASSUME NEW pc \in PC
  PROVE  /\ \A next \in PC \ {"landed"} :
              Onward(pc, next) => Since(pc) + Limit(pc) <= Since(next)
         /\ \A next \in PC :
              Onward(pc, next) /\ next = "landed" => Since(pc) = Since(next)
         /\ IdleFits /\ pc \notin {"idle", "xdel"} => Since(pc) + Limit(pc) < MinIdle
<1>1. ASSUME NEW next \in PC \ {"landed"}, Onward(pc, next)
      PROVE  Since(pc) + Limit(pc) <= Since(next)
  <2>1. CASE pc \in {"begin", "get", "complete", "dead", "dl_abandon", "requeue"}
    BY <1>1, <2>1, SinceValues, AwaitBounds, LifetimesAreNat DEF Onward
  <2>2. CASE pc \in {"post", "landed", "backoff"}
    BY <1>1, <2>2, SinceValues, AwaitBounds, LifetimesAreNat DEF Onward
  <2> QED
    BY <1>1, <2>1, <2>2 DEF Onward
<1>2. ASSUME NEW next \in PC, Onward(pc, next), next = "landed"
      PROVE  Since(pc) = Since(next)
  BY <1>2, SinceValues DEF Onward
<1>3. ASSUME IdleFits, pc \notin {"idle", "xdel"}
      PROVE  Since(pc) + Limit(pc) < MinIdle
  <2>1. Since(pc) + Limit(pc) <= PostTimeout + BackoffMax + 5 * Latency
    BY <1>3, SinceValues, AwaitBounds, LifetimesAreNat DEF PC, HolderPC
  <2> QED
    BY <1>3, <2>1, SinceValues, AwaitBounds, LifetimesAreNat DEF IdleFits
<1> QED
  BY <1>1, <1>2, <1>3

\* While an entry stays with whom it was handed to, its handlers only move on.
LEMMA HandlersMoveOn ==
  ASSUME TypeOK, ReadInOrder, [Next]_vars, NEW v \in Workers, NEW f \in pel,
         f \in pel', ~(f \in stale /\ f \notin stale'), handler'[v][f] # "idle"
  PROVE  /\ handler[v][f] # "idle"
         /\ handler'[v][f] = handler[v][f] \/ Onward(handler[v][f], handler'[v][f])
<1>0. f \in EntryIds /\ f <= lastDelivered
  BY DEF TypeOK, ReadInOrder
<1>1. CASE \E w \in Workers, e \in EntryIds : HandlerStep(w, e)
  <2>1. PICK w \in Workers, e \in EntryIds : HandlerStep(w, e)
    BY <1>1
  <2>2. PICK q \in PC :
          /\ handler' = [handler EXCEPT ![w][e] = q]
          /\ q = "xdel" => handler[w][e] = "xdel" \/ e \notin pel'
    BY <2>1, HandlerStepEffect
  <2>3. handler[w][e] # "idle"
    BY <2>1, HandlerStepEffect
  <2>4. CASE v = w /\ f = e
    <3>1. handler'[v][f] = q
      BY <2>2, <2>4 DEF TypeOK
    <3>2. q = handler[w][e] \/ q \in {"idle", "xdel"} \/ Onward(handler[w][e], q)
      <4>0. /\ handler[w][e] \in PC
            /\ {"idle", "post", "get", "xack", "dl_abandon", "requeue", "xdel"} \subseteq PC
        BY DEF TypeOK, PC, HolderPC
      <4>1. ASSUME NEW pc \in PC, Answered(w, e, pc),
                   pc \in {"idle", "xdel"} \/ Onward(handler[w][e], pc)
            PROVE  <3>2
        <5>1. PICK r \in {pc, "idle", handler[w][e]} : handler' = [handler EXCEPT ![w][e] = r]
          BY <4>1, AnsweredMoves
        <5>2. r = q
          BY <2>2, <5>1 DEF TypeOK
        <5> QED
          BY <4>1, <5>1, <5>2
      <4>2. ASSUME NEW pc, Goes(w, e, pc), pc = "idle" \/ Onward(handler[w][e], pc)
            PROVE  <3>2
        <5>1. pc = q
          BY <2>2, <4>2 DEF Goes, TypeOK
        <5> QED
          BY <4>2, <5>1
      <4>3. CASE WinClaim(w, e) \/ LoseClaim(w, e)
        BY <4>0, <4>1, <4>3 DEF WinClaim, LoseClaim, Onward
      <4>4. CASE ReadClaim(w, e)
        <5>1. handler[w][e] = "get" /\ \E pc \in {"xack", "idle"} : Answered(w, e, pc)
          BY <4>4 DEF ReadClaim
        <5> QED
          BY <4>0, <4>1, <5>1 DEF Onward
      <4>5. CASE Land(w, e) \/ NoDownstream(w, e) \/ Confirm(w, e)
        BY <4>2, <4>5 DEF Land, NoDownstream, Confirm, Onward
      <4>6. CASE Reject(w, e) \/ LoseAnswer(w, e)
        BY <4>2, <4>6 DEF Reject, LoseAnswer, AfterFailure, Onward
      <4>7. CASE Complete(w, e) \/ DeadLetter(w, e) \/ Requeue(w, e) \/ XAck(w, e)
        BY <4>0, <4>1, <4>7 DEF Complete, DeadLetter, Requeue, XAck, Onward
      <4>8. CASE Abandon(w, e)
        <5>1. CASE handler[w][e] = "backoff"
          BY <4>0, <4>1, <4>8, <5>1 DEF Abandon, Onward
        <5>2. CASE handler[w][e] = "dl_abandon"
          BY <4>0, <4>1, <4>8, <5>2 DEF Abandon, Onward
        <5> QED
          BY <4>8, <5>1, <5>2 DEF Abandon
      <4>9. CASE XDel(w, e)
        BY <4>0, <4>1, <4>9 DEF XDel
      <4>10. CASE Refused(w, e)
        BY <4>2, <4>10 DEF Refused
      <4> QED
        BY <2>1, <4>3, <4>4, <4>5, <4>6, <4>7, <4>8, <4>9, <4>10 DEF HandlerStep
    <3> QED
      BY <2>2, <2>3, <2>4, <3>1, <3>2
  <2>5. CASE ~(v = w /\ f = e)
    <3>1. handler'[v][f] = handler[v][f]
      BY <1>0, <2>2, <2>5 DEF TypeOK
    <3> QED
      BY <3>1
  <2> QED
    BY <2>4, <2>5
<1>2. ASSUME NEW w \in Workers, NEW batch, Begins(w, batch), f \notin batch
      PROVE  handler'[v][f] = handler[v][f]
  BY <1>0, <1>2 DEF Begins, TypeOK
<1>3. CASE \E w \in Workers : Sweep(w)
  <2>1. PICK w \in Workers, taken \in SUBSET pel :
          /\ \A e \in taken : e \in stale \/ e \notin present
          /\ stale' = stale \ taken
          /\ Begins(w, taken \intersect present) \/ UNCHANGED handler
    BY <1>3, SweepTakes
  <2>2. f \notin taken \intersect present
    BY <2>1
  <2> QED
    BY <1>2, <2>1, <2>2
<1>4. CASE \E w \in Workers : ReadNew(w)
  <2>1. PICK w \in Workers, taken \in SUBSET present :
          /\ \A e \in taken : e > lastDelivered
          /\ Begins(w, taken) \/ UNCHANGED handler
    BY <1>4, ReadTakes
  <2>2. f \notin taken
    <3>1. f \in Nat /\ lastDelivered \in Nat
      BY <1>0, DeliveryAssumption DEF TypeOK, EntryIds, DeliveryAssumption
    <3> QED
      BY <1>0, <2>1, <3>1
  <2> QED
    BY <1>2, <2>1, <2>2
<1>5. CASE \E w \in Workers : Crash(w)
  <2>1. PICK w \in Workers : handler' = [handler EXCEPT ![w] = [e \in EntryIds |-> "idle"]]
    BY <1>5 DEF Crash
  <2> QED
    BY <1>0, <2>1 DEF TypeOK
<1>6. CASE \/ \E m \in Msgs : \/ Publish(m) \/ PublishAgain(m)
                              \/ ClaimLapses(m) \/ MarkerLapses(m)
           \/ \E e \in EntryIds : GoStale(e)
           \/ \E w \in Workers : Start(w) \/ EndBatch(w) \/ Stop(w) \/ RequestShutdown(w)
           \/ UNCHANGED vars
  <2>1. UNCHANGED handler
    BY <1>6 DEF Publish, PublishAgain, ClaimLapses, MarkerLapses, GoStale, Start, EndBatch,
                Stop, RequestShutdown, vars, workerVars
  <2> QED
    BY <2>1
<1> QED
  BY <1>1, <1>3, <1>4, <1>5, <1>6 DEF Next, LoopStep

\* With an entry that is old enough to be reclaimed nobody is at work.
LEMMA NoReclaimUnderHandler ==
  ASSUME IdleFits, TypeOK, LeaseTypeOK, OneHandler, IdleBounded,
         NEW e \in pel, idle[e] = MinIdle, NEW w \in Workers
  PROVE  handler[w][e] = "idle"
<1> SUFFICES ASSUME handler[w][e] # "idle" PROVE FALSE
  OBVIOUS
<1>1. e \in EntryIds /\ handler[w][e] \in PC
  BY DEF TypeOK
<1>2. handler[w][e] # "xdel"
  BY <1>1 DEF OneHandler
<1>3. MinIdle <= Since(handler[w][e]) + clock[w][e]
  BY DEF IdleBounded
<1>4. /\ clock[w][e] \in Nat /\ clock[w][e] <= Limit(handler[w][e])
      /\ Since(handler[w][e]) \in Nat /\ Limit(handler[w][e]) \in Nat
  BY <1>1, SinceValues, AwaitBounds DEF LeaseTypeOK
<1>5. Since(handler[w][e]) + Limit(handler[w][e]) < MinIdle
  BY <1>1, <1>2, AwaitsAddUp
<1> QED
  BY <1>3, <1>4, <1>5, LifetimesAreNat

\* A handler that moves on has been at it for no longer than its next await
\* allows for; a handler that stays ages with its entry.
LEMMA IdleInductive ==
  ASSUME TypeOK, ReadInOrder, LeaseTypeOK, IdleBounded, [LeaseNext]_<<vars, timers>>
  PROVE  IdleBounded'
<1>0. TypeOK' /\ LeaseTypeOK' /\ [Next]_vars
  BY LeaseStepIsStep, TypesInductive, LeaseTypesInductive
<1> SUFFICES ASSUME NEW w \in Workers, NEW e \in pel', handler'[w][e] # "idle"
             PROVE  idle'[e] <= Since(handler'[w][e]) + clock'[w][e]
  BY DEF IdleBounded
<1>1. /\ e \in EntryIds /\ handler'[w][e] \in PC /\ handler[w][e] \in PC
      /\ idle'[e] \in Nat /\ clock'[w][e] \in Nat /\ Since(handler'[w][e]) \in Nat
      /\ idle[e] \in Nat /\ clock[w][e] \in Nat /\ Since(handler[w][e]) \in Nat
      /\ clock[w][e] <= Limit(handler[w][e]) /\ Limit(handler[w][e]) \in Nat
  BY <1>0, SinceValues, AwaitBounds, LifetimesAreNat DEF TypeOK, LeaseTypeOK
<1>2. CASE Tick
  <2>1. UNCHANGED <<pel, handler>>
    BY <1>2 DEF Tick, vars, redisVars, workerVars
  <2>2. idle[e] <= Since(handler[w][e]) + clock[w][e]
    BY <2>1 DEF IdleBounded
  <2>3. idle'[e] \in {idle[e], idle[e] + 1} /\ clock'[w][e] = clock[w][e] + 1
    BY <1>1, <1>2, <2>1 DEF Tick
  <2> QED
    BY <1>1, <2>1, <2>2, <2>3
<1>3. CASE Timers
  <2>1. CASE idle'[e] = 0
    BY <1>1, <2>1
  <2>2. CASE idle'[e] # 0
    <3>1. /\ e \in pel /\ ~(e \in stale /\ e \notin stale')
          /\ idle'[e] = idle[e]
      BY <1>1, <1>3, <2>2 DEF Timers
    <3>2. /\ handler[w][e] # "idle"
          /\ handler'[w][e] = handler[w][e] \/ Onward(handler[w][e], handler'[w][e])
      BY <1>0, <3>1, HandlersMoveOn
    <3>3. idle[e] <= Since(handler[w][e]) + clock[w][e]
      BY <3>1, <3>2 DEF IdleBounded
    <3>4. clock'[w][e] = IF handler'[w][e] \in {handler[w][e], "landed"}
                         THEN clock[w][e] ELSE 0
      BY <1>1, <1>3 DEF Timers
    <3>5. CASE handler'[w][e] = handler[w][e]
      BY <3>1, <3>3, <3>4, <3>5
    <3>6. CASE handler'[w][e] # handler[w][e] /\ handler'[w][e] = "landed"
      <4>1. Since(handler[w][e]) = Since(handler'[w][e])
        BY <1>1, <3>2, <3>6, AwaitsAddUp
      <4> QED
        BY <3>1, <3>3, <3>4, <3>6, <4>1
    <3>7. CASE handler'[w][e] # handler[w][e] /\ handler'[w][e] # "landed"
      <4>1. Since(handler[w][e]) + Limit(handler[w][e]) <= Since(handler'[w][e])
        BY <1>1, <3>2, <3>7, AwaitsAddUp
      <4>2. clock'[w][e] = 0
        BY <3>4, <3>7
      <4> QED
        BY <1>1, <3>1, <3>3, <4>1, <4>2
    <3> QED
      BY <3>5, <3>6, <3>7
  <2> QED
    BY <2>1, <2>2
<1>4. CASE UNCHANGED <<vars, timers>>
  <2>1. UNCHANGED <<pel, handler, idle, clock>>
    BY <1>4 DEF vars, redisVars, workerVars, timers
  <2> QED
    BY <2>1 DEF IdleBounded
<1> QED
  BY <1>2, <1>3, <1>4, StepsOfTheClock

\* An entry is with one handler, and never for longer than that handler may take.
IdleHeld == LeaseTypeOK /\ OneHandler /\ IdleBounded

LEMMA IdleHeldInductive ==
  ASSUME IdleFits
  PROVE  /\ LeaseInit => TypeOK /\ ReadInOrder /\ IdleHeld
         /\ TypeOK /\ ReadInOrder /\ IdleHeld /\ [LeaseNext]_<<vars, timers>> =>
              [UnhurriedNext]_vars /\ (TypeOK /\ ReadInOrder /\ IdleHeld)'
<1>1. ASSUME LeaseInit PROVE TypeOK /\ ReadInOrder /\ IdleHeld
  <2>1. Init /\ pel = {}
    BY <1>1 DEF LeaseInit, Init
  <2>2. OneHandler /\ IdleBounded
    BY <2>1, InitBounded DEF IdleBounded
  <2> QED
    BY <1>1, <2>1, <2>2, TypesInductive, LeaseTypesInductive DEF IdleHeld
<1>2. ASSUME TypeOK, ReadInOrder, IdleHeld, [LeaseNext]_<<vars, timers>>
      PROVE  [UnhurriedNext]_vars /\ TypeOK' /\ ReadInOrder' /\ IdleHeld'
  <2>1. ASSUME NEW e \in EntryIds, AgeOut(e)
        PROVE  GoStale(e) /\ \A w \in Workers : handler[w][e] = "idle"
    <3>1. e \in pel /\ idle[e] = MinIdle /\ GoStale(e)
      BY <2>1 DEF AgeOut, GoStale
    <3> QED
      BY <1>2, <3>1, NoReclaimUnderHandler DEF IdleHeld
  <2>2. [UnhurriedNext]_vars
    BY <1>2, <2>1 DEF LeaseNext, Work, Lapse, Forget, Tick, UnhurriedNext, vars
  <2>3. TypeOK' /\ ReadInOrder' /\ LeaseTypeOK' /\ IdleBounded'
    BY <1>2, LeaseStepIsStep, TypesInductive, LeaseTypesInductive, IdleInductive DEF IdleHeld
  <2>4. OneHandler'
    BY <1>2, <2>2, OneHandlerInductive DEF IdleHeld
  <2> QED
    BY <2>2, <2>3, <2>4 DEF IdleHeld
<1> QED
  BY <1>1, <1>2

\* If a handler's five commands fit beside the attempt ceiling, nobody reclaims
\* an entry under it: whatever else is late, is sent twice or crashes.
LEMMA LeaseIsUnhurried ==
  ASSUME IdleFits
  PROVE  LeaseSpec => UnhurriedSpec
<1>1. LeaseInit => Init
  BY DEF LeaseInit
<1> QED
  BY <1>1, IdleHeldInductive, PTL DEF LeaseSpec, UnhurriedSpec

\* NO AMPLIFICATION, from the lifetimes.  With CLAIM_MIN_IDLE_MS above the
\* attempt ceiling and five commands, the entries of an event that have work to
\* do are one, and at most twice as many after each fault (config.py:61-65).
THEOREM FaultsAtMostDoubleUnderLease ==
  ASSUME IdleFits
  PROVE  LeaseSpec => []NoAmplification
BY CopiesUnhurried, LeaseIsUnhurried, PTL

\* DUPLICATES HAVE A CAUSE, from the lifetimes: a claim that lapses early alone
\* does not make a worker send an event again, nobody else has its entry.
THEOREM NoDuplicateUnderLease ==
  ASSUME IdleFits
  PROVE  LeaseSpec => DuplicateNeedsFault
BY SentOnceUnhurried, LeaseIsUnhurried, PTL

\* A SHUTDOWN FINISHES THE BATCH, from the lifetimes (worker.py:307-308).
THEOREM ShutdownUnderLease ==
  ASSUME IdleFits, Cardinality(Msgs) * (MaxRetries + 1) <= MaxEntries
  PROVE  LeaseSpec => []ShutdownDrains
BY DrainsUnhurried, LeaseIsUnhurried, PTL

\* The promise of at-least-once delivery, from the lifetimes: every step of the
\* workers, with the clock running, is a step of AtLeastOnce or changes nothing
\* that it promises.
THEOREM LeaseImplementsPromise ==
  ASSUME IdleFits, ~Resend, Unconfigured = {}
  PROVE  LeaseSpec /\ [][~Trims]_vars =>
           Promise!Init /\ [][Promise!Next]_(Promise!promiseVars)
BY PromiseUnhurried, LeaseIsUnhurried, PTL

-----------------------------------------------------------------------------
(* The lifetimes of the settings are as good as Timely *)

\* No claim lapses and no entry is reclaimed under a running attempt.
LEMMA LeaseIsInTime ==
  ASSUME LatencyFits, IdleFits, ~Resend
  PROVE  LeaseSpec => InTimeSpec
<1> DEFINE Inv == TypeOK /\ ReadInOrder /\ LeaseHeld /\ IdleHeld
<1>1. LeaseInit => Init /\ Inv
  BY LeaseInductive, IdleHeldInductive DEF LeaseInit
<1>2. Inv /\ [LeaseNext]_<<vars, timers>> => Inv'
  BY LeaseInductive, IdleHeldInductive
<1>3. Inv /\ [LeaseNext]_<<vars, timers>> => [InTimeNext]_vars
  <2> SUFFICES ASSUME Inv, [LeaseNext]_<<vars, timers>> PROVE [InTimeNext]_vars
    OBVIOUS
  <2>1. ASSUME NEW e \in EntryIds, AgeOut(e)
        PROVE  GoStale(e) /\ \A w \in Workers : handler[w][e] = "idle"
    <3>1. e \in pel /\ idle[e] = MinIdle /\ GoStale(e)
      BY <2>1 DEF AgeOut, GoStale
    <3> QED
      BY <3>1, NoReclaimUnderHandler DEF IdleHeld
  <2>2. ASSUME NEW m \in Msgs, Lapse(m)
        PROVE  ClaimLapses(m) /\ ~Held(m)
    BY <2>2, NoLapseUnderAttempt DEF Lapse, LeaseHeld
  <2>3. ASSUME NEW m \in Msgs, Forget(m)
        PROVE  MarkerLapses(m) /\ Copies(m) = {}
    BY <2>3 DEF Forget
  <2> QED
    BY <2>1, <2>2, <2>3 DEF LeaseNext, Work, Tick, InTimeNext, vars
<1> QED
  BY <1>1, <1>2, <1>3, PTL DEF LeaseSpec, InTimeSpec

\* CONFIRMED IS FINAL, from the lifetimes (queue.py:181-183, 201-202).
THEOREM ConfirmedIsFinalUnderLease ==
  ASSUME LatencyFits, IdleFits, ~Resend
  PROVE  LeaseSpec /\ [][~Trims]_vars => NoSendAfterConfirmed
BY FinalInTime, LeaseIsInTime, PTL

\* The operators that both instances of Delivery share.
LEMMA SameOperators ==
  /\ \A S : TimelyDelivery!Trimmed(S) = Trimmed(S)
  /\ \A S : TimelyDelivery!FirstOf(S) = FirstOf(S)
  /\ \A S, n : TimelyDelivery!NextCursor(S, n) = NextCursor(S, n)
<1>1. ASSUME NEW S PROVE TimelyDelivery!Cardinality(S) = Cardinality(S)
  BY DEF TimelyDelivery!Cardinality, Cardinality
<1>2. ASSUME NEW S PROVE TimelyDelivery!Trimmed(S) = Trimmed(S)
  BY <1>1 DEF TimelyDelivery!Trimmed, Trimmed
<1>3. ASSUME NEW S PROVE TimelyDelivery!FirstOf(S) = FirstOf(S)
  BY <1>1 DEF TimelyDelivery!FirstOf, FirstOf
<1>4. ASSUME NEW S, NEW n PROVE TimelyDelivery!NextCursor(S, n) = NextCursor(S, n)
  BY <1>1 DEF TimelyDelivery!NextCursor, NextCursor
<1> QED
  BY <1>2, <1>3, <1>4

\* What a handler does, it may do with Timely.
LEMMA HandlerStepInTime ==
  ASSUME NEW w \in Workers, NEW e \in EntryIds, HandlerStep(w, e)
  PROVE  TimelyDelivery!HandlerStep(w, e)
<1> USE DEF TimelyDelivery!HandlerStep
<1>1. ASSUME NEW pc, Answered(w, e, pc) PROVE TimelyDelivery!Answered(w, e, pc)
  BY <1>1 DEF TimelyDelivery!Answered, TimelyDelivery!Goes, TimelyDelivery!Fault,
              Answered, Goes, Fault
<1>2. TimelyDelivery!Msg(e) = Msg(e) /\ TimelyDelivery!AfterFailure(e) = AfterFailure(e)
  BY DEF TimelyDelivery!Msg, Msg, TimelyDelivery!AfterFailure, AfterFailure
<1>3. ASSUME NEW m, NEW rc, XAdd(m, rc) PROVE TimelyDelivery!XAdd(m, rc)
  BY <1>3, SameOperators DEF TimelyDelivery!XAdd, XAdd
<1>4. CASE WinClaim(w, e)
  BY <1>1, <1>2, <1>4 DEF TimelyDelivery!WinClaim, WinClaim
<1>5. CASE LoseClaim(w, e)
  BY <1>1, <1>2, <1>5 DEF TimelyDelivery!LoseClaim, LoseClaim,
     TimelyDelivery!redisVars, redisVars
<1>6. CASE ReadClaim(w, e)
  BY <1>1, <1>2, <1>6 DEF TimelyDelivery!ReadClaim, ReadClaim,
     TimelyDelivery!redisVars, redisVars
<1>7. CASE Land(w, e) \/ NoDownstream(w, e) \/ Confirm(w, e)
  BY <1>2, <1>7 DEF TimelyDelivery!Land, Land, TimelyDelivery!NoDownstream, NoDownstream,
     TimelyDelivery!Confirm, Confirm, TimelyDelivery!Goes, Goes,
     TimelyDelivery!redisVars, redisVars
<1>8. CASE Reject(w, e) \/ LoseAnswer(w, e)
  BY <1>2, <1>8 DEF TimelyDelivery!Reject, Reject, TimelyDelivery!LoseAnswer, LoseAnswer,
     TimelyDelivery!Goes, Goes, TimelyDelivery!Fault, Fault,
     TimelyDelivery!redisVars, redisVars
<1>9. CASE Complete(w, e)
  BY <1>1, <1>2, <1>9 DEF TimelyDelivery!Complete, Complete
<1>10. CASE DeadLetter(w, e)
  BY <1>1, <1>2, <1>10 DEF TimelyDelivery!DeadLetter, DeadLetter
<1>11. CASE Abandon(w, e)
  BY <1>1, <1>2, <1>11 DEF TimelyDelivery!Abandon, Abandon
<1>12. CASE Requeue(w, e)
  BY <1>1, <1>2, <1>3, <1>12 DEF TimelyDelivery!Requeue, Requeue
<1>13. CASE XAck(w, e)
  BY <1>1, <1>13 DEF TimelyDelivery!XAck, XAck
<1>14. CASE XDel(w, e)
  BY <1>1, <1>14 DEF TimelyDelivery!XDel, XDel
<1>15. CASE Refused(w, e)
  BY <1>15 DEF TimelyDelivery!Refused, Refused, TimelyDelivery!Goes, Goes,
     TimelyDelivery!Fault, Fault, TimelyDelivery!redisVars, redisVars
<1> QED
  BY <1>4, <1>5, <1>6, <1>7, <1>8, <1>9, <1>10, <1>11, <1>12, <1>13, <1>14, <1>15 DEF HandlerStep

\* So it is with what the worker loop does.
LEMMA LoopStepInTime ==
  ASSUME NEW w \in Workers, LoopStep(w)
  PROVE  TimelyDelivery!LoopStep(w)
<1>1. CASE Start(w) \/ EndBatch(w) \/ Stop(w)
  BY <1>1 DEF TimelyDelivery!LoopStep, TimelyDelivery!Start, Start,
     TimelyDelivery!EndBatch, EndBatch, TimelyDelivery!Stop, Stop,
     TimelyDelivery!NoHandler, NoHandler, TimelyDelivery!KeepsRunning, KeepsRunning,
     TimelyDelivery!redisVars, redisVars, TimelyDelivery!EntryIds, EntryIds
<1>2. CASE Sweep(w)
  BY <1>2, SameOperators DEF TimelyDelivery!LoopStep, TimelyDelivery!Sweep, Sweep,
     TimelyDelivery!KeepsRunning, KeepsRunning, TimelyDelivery!Begins, Begins,
     TimelyDelivery!Fault, Fault, TimelyDelivery!EntryIds, EntryIds
<1>3. CASE ReadNew(w)
  BY <1>3, SameOperators DEF TimelyDelivery!LoopStep, TimelyDelivery!ReadNew, ReadNew,
     TimelyDelivery!Begins, Begins, TimelyDelivery!Fault, Fault,
     TimelyDelivery!EntryIds, EntryIds
<1> QED
  BY <1>1, <1>2, <1>3 DEF LoopStep

LEMMA StepInTime == [InTimeNext]_vars => [TimelyDelivery!Next]_vars
<1> SUFFICES ASSUME InTimeNext PROVE TimelyDelivery!Next
  OBVIOUS
<1>0. /\ TimelyDelivery!EntryIds = EntryIds
      /\ \A x : TimelyDelivery!Msg(x) = Msg(x)
      /\ \A w, x : TimelyDelivery!Holds(w, x) <=> Holds(w, x)
  BY DEF TimelyDelivery!EntryIds, EntryIds, TimelyDelivery!Msg, Msg,
         TimelyDelivery!Holds, Holds, TimelyDelivery!HolderPC, HolderPC
<1>1. ASSUME NEW m \in Msgs, Publish(m) \/ PublishAgain(m)
      PROVE  TimelyDelivery!Publish(m) \/ TimelyDelivery!PublishAgain(m)
  BY <1>0, <1>1, SameOperators DEF TimelyDelivery!Publish, Publish,
     TimelyDelivery!PublishAgain, PublishAgain, TimelyDelivery!XAdd, XAdd,
     TimelyDelivery!Fault, Fault, TimelyDelivery!workerVars, workerVars
<1>2. ASSUME NEW m \in Msgs, ClaimLapses(m), ~Held(m)
      PROVE  TimelyDelivery!ClaimLapses(m)
  <2>1. TimelyDelivery!Held(m) => Held(m)
    BY <1>0 DEF TimelyDelivery!Held, Held
  <2> QED
    BY <1>2, <2>1 DEF TimelyDelivery!ClaimLapses, ClaimLapses,
       TimelyDelivery!workerVars, workerVars
<1>3. ASSUME NEW m \in Msgs, MarkerLapses(m), Copies(m) = {}
      PROVE  TimelyDelivery!MarkerLapses(m)
  <2>1. TimelyDelivery!Copies(m) = Copies(m)
    BY <1>0 DEF TimelyDelivery!Copies, Copies, TimelyDelivery!Live, Live
  <2> QED
    BY <1>3, <2>1 DEF TimelyDelivery!MarkerLapses, MarkerLapses,
       TimelyDelivery!workerVars, workerVars
<1>4. ASSUME NEW e \in EntryIds, GoStale(e), \A w \in Workers : handler[w][e] = "idle"
      PROVE  TimelyDelivery!GoStale(e)
  BY <1>4 DEF TimelyDelivery!GoStale, GoStale, TimelyDelivery!workerVars, workerVars
<1>5. ASSUME NEW w \in Workers, RequestShutdown(w) \/ Crash(w)
      PROVE  TimelyDelivery!RequestShutdown(w) \/ TimelyDelivery!Crash(w)
  BY <1>0, <1>5 DEF TimelyDelivery!RequestShutdown, RequestShutdown,
     TimelyDelivery!Crash, Crash, TimelyDelivery!Running, Running,
     TimelyDelivery!Fault, Fault, TimelyDelivery!redisVars, redisVars
<1> QED
  BY <1>0, <1>1, <1>2, <1>3, <1>4, <1>5, HandlerStepInTime, LoopStepInTime
  DEF InTimeNext, TimelyDelivery!Next

\* What Delivery takes on trust, the lifetimes provide: with the claim above
\* the longest attempt and CLAIM_MIN_IDLE_MS above the longest handler, every
\* step is one that Delivery allows with Timely (config.py:61-65, 81-90).
THEOREM LifetimesKeepTiming ==
  ASSUME LatencyFits, IdleFits, ~Resend
  PROVE  LeaseSpec => KeepsTiming
<1>1. InTimeSpec => [][TimelyDelivery!Next]_vars
  BY StepInTime, PTL DEF InTimeSpec
<1> QED
  BY <1>1, LeaseIsInTime, PTL DEF KeepsTiming
=============================================================================
