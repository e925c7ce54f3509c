---------------------------- MODULE CopiesProofs ----------------------------
(***************************************************************************)
(* Proofs about Delivery: how many entries of an event can be at work, how *)
(* often it is sent, and what a shutdown leaves.  Of time, they need only  *)
(* that no entry becomes old enough to reclaim under a handler.            *)
(***************************************************************************)
EXTENDS PromiseProofs

-----------------------------------------------------------------------------
(* Powers of two, as cardinalities: the provers know no arithmetic of ^ *)

LEMMA SizeOfRange ==
  ASSUME NEW n \in Nat
  PROVE  /\ IsFiniteSet(1..n) /\ Cardinality(1..n) = n
         /\ IsFiniteSet(0..n) /\ Cardinality(0..n) = n + 1
<1>1. IsFiniteSet(1..n) /\ Cardinality(1..n) = n
  BY FS_Interval
<1>2. IsFiniteSet(0..n) /\ Cardinality(0..n) = n + 1
  <2>1. 0 \in Int /\ n \in Int /\ ~(0 > n) /\ n - 0 + 1 = n + 1
    OBVIOUS
  <2> QED
    BY <2>1, FS_Interval
<1> QED
  BY <1>1, <1>2

\* There are 2^n sets of numbers from 1 to n.
LEMMA PowerOfTwo ==
  ASSUME NEW n \in Nat
  PROVE  /\ IsFiniteSet(SUBSET (1..n))
         /\ 2^n = Cardinality(SUBSET (1..n))
         /\ 2^n \in Nat
<1>1. IsFiniteSet(1..n) /\ Cardinality(1..n) = n
  BY SizeOfRange
<1>2. IsFiniteSet(SUBSET (1..n)) /\ Cardinality(SUBSET (1..n)) = 2^Cardinality(1..n)
  BY <1>1, FS_SUBSET
<1> QED
  BY <1>1, <1>2, FS_CardinalityType

\* There are as many with n+1 in them as there are without.
LEMMA PowersDouble ==
  ASSUME NEW n \in Nat
  PROVE  2^(n + 1) = 2^n + 2^n
<1> DEFINE S == SUBSET (1..n)
           T == {X \in SUBSET (1..(n + 1)) : n + 1 \in X}
<1>1. SUBSET (1..(n + 1)) = S \union T /\ S \intersect T = {}
  <2>1. \A X : X \in SUBSET (1..(n + 1)) /\ n + 1 \notin X => X \in S
    OBVIOUS
  <2>2. \A X : X \in S => X \in SUBSET (1..(n + 1)) /\ n + 1 \notin X
    OBVIOUS
  <2> QED
    BY <2>1, <2>2
<1>2. ExistsBijection(S, T)
  <2> DEFINE with == [X \in S |-> X \union {n + 1}]
  <2>1. with \in [S -> T]
    OBVIOUS
  <2>2. ASSUME NEW X \in S, NEW Y \in S, with[X] = with[Y] PROVE X = Y
    <3>1. n + 1 \notin X /\ n + 1 \notin Y
      OBVIOUS
    <3>2. X \union {n + 1} = Y \union {n + 1}
      BY <2>2
    <3>3. \A x : x \in X <=> x \in Y
      BY <3>1, <3>2
    <3> HIDE DEF S
    <3> QED
      BY <3>3
  <2>3. ASSUME NEW Y \in T PROVE \E X \in S : with[X] = Y
    <3>1. Y \ {n + 1} \in S
      OBVIOUS
    <3>2. (Y \ {n + 1}) \union {n + 1} = Y
      OBVIOUS
    <3> QED
      BY <3>1, <3>2
  <2> QED
    BY <2>1, <2>2, <2>3 DEF ExistsBijection, Bijection, Injection, Surjection, IsInjective
<1>3. IsFiniteSet(S) /\ Cardinality(S) = 2^n /\ 2^n \in Nat
  BY PowerOfTwo
<1>4. IsFiniteSet(T) /\ Cardinality(T) = Cardinality(S)
  BY <1>2, <1>3, FS_Bijection
<1>5. Cardinality(S \union T) = Cardinality(S) + Cardinality(T)
  <2>1. S \intersect T = {}
    BY <1>1
  <2> HIDE DEF S, T
  <2>2. Cardinality(S \union T) = Cardinality(S) + Cardinality(T) - Cardinality(S \intersect T)
    BY <1>3, <1>4, FS_Union
  <2>3. Cardinality(S \intersect T) = 0
    BY <2>1, FS_EmptySet
  <2> QED
    BY <1>3, <1>4, <2>2, <2>3
<1>6. 2^(n + 1) = Cardinality(S \union T)
  <2>1. n + 1 \in Nat
    OBVIOUS
  <2> QED
    BY <1>1, <2>1, PowerOfTwo
<1> QED
  BY <1>3, <1>4, <1>5, <1>6

\* 2^n is positive.
LEMMA PowersPositive ==
  ASSUME NEW n \in Nat
  PROVE  2^n \in Nat /\ 1 <= 2^n
<1>1. {} \in SUBSET (1..n)
  OBVIOUS
<1>2. SUBSET (1..n) # {}
  BY <1>1
<1>3. 2^n # 0 /\ 2^n \in Nat
  BY <1>2, PowerOfTwo, FS_EmptySet
<1>4. \A k \in Nat : k # 0 => 1 <= k
  OBVIOUS
<1> QED
  BY <1>3, <1>4

\* What a fault may add to a bounded set leaves it within twice the bound.
LEMMA TwiceAsMany ==
  ASSUME NEW n \in Nat,
         NEW S, IsFiniteSet(S), Cardinality(S) <= 2^n,
         NEW T, IsFiniteSet(T), Cardinality(T) <= 2^n,
         NEW R \in SUBSET (S \union T)
  PROVE  IsFiniteSet(R) /\ Cardinality(R) <= 2^(n + 1)
<1>1. /\ IsFiniteSet(S \union T)
      /\ Cardinality(S \union T) = Cardinality(S) + Cardinality(T) - Cardinality(S \intersect T)
  BY FS_Union
<1>2. /\ Cardinality(S) \in Nat /\ Cardinality(T) \in Nat
      /\ Cardinality(S \intersect T) \in Nat
  BY FS_CardinalityType, FS_Intersection
<1>3. /\ IsFiniteSet(R) /\ Cardinality(R) <= Cardinality(S \union T)
      /\ Cardinality(R) \in Nat /\ Cardinality(S \union T) \in Nat
  BY <1>1, FS_Subset, FS_CardinalityType
<1>4. 2^(n + 1) = 2^n + 2^n /\ 2^n \in Nat
  BY PowersDouble, PowersPositive
<1> QED
  BY <1>1, <1>2, <1>3, <1>4

\* A bound that held before a step holds after it when nothing was added,
\* whether or not the step was a fault.
LEMMA NoMore ==
  ASSUME NEW n \in Nat, NEW k \in {n, n + 1},
         NEW S, IsFiniteSet(S), Cardinality(S) <= 2^n,
         NEW R \in SUBSET S
  PROVE  IsFiniteSet(R) /\ Cardinality(R) <= 2^k
<1>1. IsFiniteSet(R) /\ Cardinality(R) <= Cardinality(S)
  BY FS_Subset
<1>2. Cardinality(R) \in Nat /\ Cardinality(S) \in Nat
  BY <1>1, FS_CardinalityType
<1>3. 2^(n + 1) = 2^n + 2^n /\ 2^n \in Nat
  BY PowersDouble, PowersPositive
<1>4. CASE k = n
  BY <1>1, <1>2, <1>3, <1>4
<1>5. CASE k = n + 1
  <2>1. Cardinality(R) <= 2^(n + 1)
    BY <1>1, <1>2, <1>3
  <2> QED
    BY <1>1, <1>5, <2>1
<1> QED
  BY <1>4, <1>5

-----------------------------------------------------------------------------
(* The invariant *)

\* An entry that may still put work on the stream: it is owed to the workers, or
\* a handler is at it, and the handler has not come to the ack.
Unfinished(e) ==
  /\ \/ e \in pel
     \/ e \in present /\ e > lastDelivered
     \/ \E w \in Workers : handler[w][e] \notin {"idle", "xack", "xdel"}
  /\ \A w \in Workers : handler[w][e] # "xack"

\* The entries of m that are unfinished, and those that w has in its batch.
Todo(m) == {e \in 1..Len(log) : Msg(e) = m /\ Unfinished(e)}
Batch(w, m) == {e \in 1..Len(log) : Msg(e) = m /\ handler[w][e] # "idle"}

\* Nobody reclaims an entry under a handler, so an entry has one handler at most,
\* and that one ends before its worker takes the next batch.
OneHandler ==
  /\ \A v, w \in Workers, e \in EntryIds :
       handler[v][e] # "idle" /\ handler[w][e] # "idle" => v = w
  /\ \A w \in Workers, e \in EntryIds : handler[w][e] # "idle" => e \notin stale
  /\ \A w \in Workers, e \in EntryIds : handler[w][e] = "xdel" => e \notin pel
  /\ \A w \in Workers : phase[w] \notin {"reclaimed", "fresh"} => NoHandler(w)

\* What is unfinished of a message is bounded, and so is what one crash can
\* give back to the others: a worker's batch was unfinished when it began.
Bounded ==
  \A m \in Msgs :
    /\ Cardinality(Todo(m)) <= 2^faults
    /\ \A w \in Workers : Cardinality(Batch(w, m)) <= 2^faults

-----------------------------------------------------------------------------
(* What a handler's step does to its entry *)

\* One handler moves.  It comes to XDEL only with its entry off the list, past
\* the ack it does nothing else, and it gives an ack up only in a fault.
LEMMA HandlerStepEffect ==
  ASSUME TypeOK, ReadInOrder, NEW w \in Workers, NEW e \in EntryIds,
         HandlerStep(w, e)
  PROVE  /\ handler[w][e] # "idle"
         /\ UNCHANGED <<lastDelivered, phase>>
         /\ pel' \subseteq pel /\ stale' \subseteq stale
         /\ faults' \in {faults, faults + 1}
         /\ \E q \in PC :
              /\ handler' = [handler EXCEPT ![w][e] = q]
              /\ q = "xdel" => handler[w][e] = "xdel" \/ e \notin pel'
              /\ handler[w][e] = "xdel" => q \in {"idle", "xdel"}
              /\ handler[w][e] = "xack" =>
                   \/ q = "xack"
                   \/ q \in {"idle", "xdel"} /\ (e \notin pel' \/ faults' = faults + 1)
         /\ \/ Requeue(w, e)
            \/ UNCHANGED log /\ present' \subseteq present
<1>0. /\ handler[w][e] \in PC
      /\ {"idle", "post", "get", "xack", "dead", "backoff", "landed", "complete",
          "dl_abandon", "requeue", "xdel"} \subseteq PC
  BY DEF TypeOK, PC, HolderPC
<1>1. ASSUME NEW pc \in PC, Answered(w, e, pc)
      PROVE  /\ faults' \in {faults, faults + 1}
             /\ \E q \in {pc, "idle", handler[w][e]} :
                  /\ handler' = [handler EXCEPT ![w][e] = q]
                  /\ q = pc \/ faults' = faults + 1
  <2>1. handler = [handler EXCEPT ![w][e] = handler[w][e]]
    BY DEF TypeOK
  <2> QED
    BY <1>1, <2>1 DEF Answered, Goes, Fault
<1>2. CASE \/ WinClaim(w, e) \/ LoseClaim(w, e) \/ ReadClaim(w, e)
           \/ Complete(w, e) \/ DeadLetter(w, e) \/ Abandon(w, e)
  <2>1. /\ handler[w][e] \notin {"idle", "xack", "xdel"}
        /\ UNCHANGED <<lastDelivered, phase, pel, stale, log, present>>
    BY <1>2 DEF WinClaim, LoseClaim, ReadClaim, Complete, DeadLetter, Abandon, redisVars
  <2>2. \E pc \in PC : pc # "xdel" /\ Answered(w, e, pc)
    BY <1>0, <1>2 DEF WinClaim, LoseClaim, ReadClaim, Complete, DeadLetter, Abandon
  <2> QED
    BY <1>0, <1>1, <2>1, <2>2
<1>3. CASE \/ Land(w, e) \/ Reject(w, e) \/ NoDownstream(w, e)
           \/ Confirm(w, e) \/ LoseAnswer(w, e)
  <2>1. /\ handler[w][e] \in {"post", "landed"}
        /\ UNCHANGED <<lastDelivered, phase, pel, stale, log, present>>
        /\ faults' \in {faults, faults + 1}
    BY <1>3 DEF Land, Reject, NoDownstream, Confirm, LoseAnswer, redisVars, Fault
  <2>2. AfterFailure(e) \in {"dead", "backoff"}
    BY DEF AfterFailure
  <2>3. \E pc \in PC : pc # "xdel" /\ Goes(w, e, pc)
    BY <1>0, <1>3, <2>2 DEF Land, Reject, NoDownstream, Confirm, LoseAnswer
  <2> QED
    BY <2>1, <2>3 DEF Goes
<1>4. CASE Requeue(w, e)
  <2>1. /\ handler[w][e] = "requeue"
        /\ UNCHANGED <<lastDelivered, phase, pel, stale>>
        /\ Answered(w, e, "xack")
    BY <1>4 DEF Requeue
  <2> QED
    BY <1>0, <1>1, <1>4, <2>1
<1>5. CASE XAck(w, e)
  <2>1. /\ handler[w][e] = "xack"
        /\ UNCHANGED <<lastDelivered, phase, log, present>>
        /\ pel' = pel \ {e} /\ stale' = stale \ {e}
        /\ Answered(w, e, "xdel")
    BY <1>5 DEF XAck
  <2> QED
    BY <1>0, <1>1, <2>1
<1>6. CASE XDel(w, e)
  <2>1. /\ handler[w][e] = "xdel"
        /\ UNCHANGED <<lastDelivered, phase, log, pel, stale>>
        /\ present' = present \ {e}
        /\ Answered(w, e, "idle")
    BY <1>6 DEF XDel
  <2> QED
    BY <1>0, <1>1, <2>1
<1>7. CASE Refused(w, e)
  <2>1. /\ handler[w][e] # "idle"
        /\ UNCHANGED <<lastDelivered, phase, log, present, pel, stale>>
        /\ handler' = [handler EXCEPT ![w][e] = "idle"]
        /\ faults' = faults + 1 \/ (handler[w][e] = "requeue" /\ faults' = faults)
    BY <1>7 DEF Refused, redisVars, Goes, Fault
  <2> QED
    BY <1>0, <2>1
<1> QED
  BY <1>2, <1>3, <1>4, <1>5, <1>6, <1>7 DEF HandlerStep

-----------------------------------------------------------------------------
(* An entry has one handler *)

\* Handlers that end leave the others alone.
LEMMA EndingsKeepOneHandler ==
  ASSUME OneHandler, UNCHANGED <<pel, stale>>,
         \A v \in Workers, f \in EntryIds : handler'[v][f] \in {handler[v][f], "idle"},
         \A v \in Workers :
           \/ phase'[v] \in {"reclaimed", "fresh"} \/ phase'[v] = phase[v]
           \/ \A f \in EntryIds : handler'[v][f] = "idle"
  PROVE  OneHandler'
<1>1. ASSUME NEW v \in Workers, phase'[v] \notin {"reclaimed", "fresh"}
      PROVE  NoHandler(v)'
  BY <1>1 DEF OneHandler, NoHandler
<1> QED
  BY <1>1 DEF OneHandler

LEMMA HandlerStepOneHandler ==
  ASSUME TypeOK, ReadInOrder, OneHandler,
         NEW w \in Workers, NEW e \in EntryIds, HandlerStep(w, e)
  PROVE  OneHandler'
<1>1. PICK q \in PC :
        /\ handler' = [handler EXCEPT ![w][e] = q]
        /\ q = "xdel" => handler[w][e] = "xdel" \/ e \notin pel'
  BY HandlerStepEffect
<1>2. /\ handler[w][e] # "idle" /\ UNCHANGED phase
      /\ pel' \subseteq pel /\ stale' \subseteq stale
  BY HandlerStepEffect
<1>3. \A v \in Workers, f \in EntryIds :
        handler'[v][f] = IF v = w /\ f = e THEN q ELSE handler[v][f]
  BY <1>1 DEF TypeOK
<1>4. \A v \in Workers, f \in EntryIds : handler'[v][f] # "idle" => handler[v][f] # "idle"
  BY <1>2, <1>3
<1>5. ASSUME NEW v \in Workers, NEW f \in EntryIds, handler'[v][f] = "xdel"
      PROVE  f \notin pel'
  BY <1>1, <1>2, <1>3, <1>5 DEF OneHandler
<1>6. ASSUME NEW v \in Workers, phase'[v] \notin {"reclaimed", "fresh"}
      PROVE  NoHandler(v)'
  BY <1>2, <1>4, <1>6 DEF OneHandler, NoHandler
<1> QED
  BY <1>2, <1>4, <1>5, <1>6 DEF OneHandler

\* A batch is of entries nobody has, and its worker had none.
LEMMA BatchOneHandler ==
  ASSUME TypeOK, OneHandler, NEW w \in Workers, NEW batch, Begins(w, batch),
         \A v \in Workers, f \in EntryIds : f \in batch => handler[v][f] = "idle",
         batch \intersect stale' = {}, stale' \subseteq stale,
         phase'[w] \in {"reclaimed", "fresh"},
         \A v \in Workers : v # w => phase'[v] = phase[v],
         \A v \in Workers, f \in EntryIds : f \in pel' \ pel => handler[v][f] = "idle"
  PROVE  OneHandler'
<1>1. \A v \in Workers, f \in EntryIds :
        handler'[v][f] = IF v # w THEN handler[v][f]
                         ELSE IF f \in batch THEN "begin" ELSE "idle"
  BY DEF Begins, TypeOK
<1>2. ASSUME NEW u \in Workers, NEW v \in Workers, NEW f \in EntryIds,
             handler'[u][f] # "idle", handler'[v][f] # "idle"
      PROVE  u = v
  BY <1>1, <1>2 DEF OneHandler
<1>3. ASSUME NEW v \in Workers, NEW f \in EntryIds
      PROVE  /\ handler'[v][f] # "idle" => f \notin stale'
             /\ handler'[v][f] = "xdel" => f \notin pel'
  BY <1>1 DEF OneHandler
<1>4. ASSUME NEW v \in Workers, phase'[v] \notin {"reclaimed", "fresh"}
      PROVE  NoHandler(v)'
  <2>1. v # w /\ phase'[v] = phase[v]
    BY <1>4
  <2> QED
    BY <1>1, <1>4, <2>1 DEF OneHandler, NoHandler
<1> QED
  BY <1>2, <1>3, <1>4 DEF OneHandler

\* What Sweep and ReadNew take, and what becomes of the batch.
LEMMA SweepTakes ==
  ASSUME TypeOK, ReadInOrder, NEW w \in Workers, Sweep(w)
  PROVE  \E taken \in SUBSET pel :
           /\ \A e \in taken : e \in stale \/ e \notin present
           /\ pel' = pel \ (taken \ present) /\ stale' = stale \ taken
           /\ UNCHANGED <<log, present, lastDelivered, claim, dlq, received, confirmed>>
           /\ phase[w] = "sweep"
           /\ \/ /\ Begins(w, taken \intersect present)
                 /\ phase' = [phase EXCEPT ![w] = "reclaimed"]
                 /\ UNCHANGED faults
              \/ UNCHANGED <<handler, phase>> /\ faults' = faults + 1
  BY DEF Sweep, FirstOf, Fault

LEMMA ReadTakes ==
  ASSUME TypeOK, ReadInOrder, NEW w \in Workers, ReadNew(w)
  PROVE  \E taken \in SUBSET present :
           /\ \A e \in taken : e > lastDelivered
           /\ pel' = pel \union taken
           /\ lastDelivered <= lastDelivered'
           /\ \A e \in taken : e <= lastDelivered'
           /\ UNCHANGED <<log, present, stale, claim, dlq, received, confirmed>>
           /\ phase[w] = "read"
           /\ \/ /\ Begins(w, taken)
                 /\ phase' = [phase EXCEPT ![w] = "fresh"]
                 /\ UNCHANGED faults
              \/ /\ UNCHANGED handler /\ faults' = faults + 1
                 /\ phase' = [phase EXCEPT ![w] = "sweep"] \/ UNCHANGED phase
<1>1. PICK taken \in FirstOf({e \in present : e > lastDelivered}) :
        /\ pel' = pel \union taken
        /\ \E last \in IF taken = {} THEN {lastDelivered} ELSE taken :
             (\A e \in taken : e <= last) /\ lastDelivered' = last
        /\ \/ /\ Begins(w, taken)
              /\ phase' = [phase EXCEPT ![w] = "fresh"]
              /\ UNCHANGED faults
           \/ /\ Fault
              /\ \/ phase' = [phase EXCEPT ![w] = "sweep"]
                 \/ Resend /\ UNCHANGED phase
              /\ UNCHANGED handler
  BY DEF ReadNew
<1>2. taken \in SUBSET present /\ \A e \in taken : e > lastDelivered
  BY DEF FirstOf
<1>3. /\ lastDelivered \in Nat /\ \A e \in present : e \in Nat
  BY DeliveryAssumption DEF TypeOK, EntryIds, DeliveryAssumption
<1>4. PICK last \in IF taken = {} THEN {lastDelivered} ELSE taken :
        (\A e \in taken : e <= last) /\ lastDelivered' = last
  BY <1>1
<1>5. lastDelivered <= last
  BY <1>2, <1>3
<1>6. UNCHANGED <<log, present, stale, claim, dlq, received, confirmed>> /\ phase[w] = "read"
  BY DEF ReadNew
<1> QED
  BY <1>1, <1>2, <1>4, <1>5, <1>6 DEF Fault

\* A step of the loop begins handlers only on what was stale or unread.
LEMMA LoopStepOneHandler ==
  ASSUME TypeOK, ReadInOrder, OneHandler, NEW w \in Workers, LoopStep(w)
  PROVE  OneHandler'
<1>1. CASE Start(w) \/ EndBatch(w) \/ Stop(w)
  <2>1. /\ UNCHANGED <<pel, stale, handler>>
        /\ \E p : phase' = [phase EXCEPT ![w] = p]
    BY <1>1 DEF Start, EndBatch, Stop, redisVars
  <2>2. NoHandler(w)
    BY <1>1 DEF Start, EndBatch, Stop, OneHandler
  <2>3. \A v \in Workers : v # w => phase'[v] = phase[v]
    BY <2>1 DEF TypeOK
  <2>4. \A v \in Workers : phase'[v] = phase[v] \/ \A f \in EntryIds : handler'[v][f] = "idle"
    BY <2>1, <2>2, <2>3 DEF NoHandler
  <2> QED
    BY <2>1, <2>4, EndingsKeepOneHandler
<1>2. CASE Sweep(w)
  <2>1. PICK taken \in SUBSET pel :
          /\ \A e \in taken : e \in stale \/ e \notin present
          /\ pel' = pel \ (taken \ present) /\ stale' = stale \ taken
          /\ \/ /\ Begins(w, taken \intersect present)
                /\ phase' = [phase EXCEPT ![w] = "reclaimed"]
             \/ UNCHANGED <<handler, phase>>
    BY <1>2, SweepTakes
  <2>2. CASE UNCHANGED <<handler, phase>>
    BY <2>1, <2>2 DEF OneHandler, NoHandler
  <2>3. CASE /\ Begins(w, taken \intersect present)
             /\ phase' = [phase EXCEPT ![w] = "reclaimed"]
    <3>1. \A v \in Workers, f \in EntryIds :
            f \in taken \intersect present => handler[v][f] = "idle"
      BY <2>1 DEF OneHandler
    <3>2. /\ (taken \intersect present) \intersect stale' = {} /\ stale' \subseteq stale
          /\ pel' \ pel = {}
      BY <2>1
    <3>3. /\ phase'[w] \in {"reclaimed", "fresh"}
          /\ \A v \in Workers : v # w => phase'[v] = phase[v]
      BY <2>3 DEF TypeOK
    <3> QED
      BY <2>3, <3>1, <3>2, <3>3, BatchOneHandler
  <2> QED
    BY <2>1, <2>2, <2>3
<1>3. CASE ReadNew(w)
  <2>1. PICK taken \in SUBSET present :
          /\ \A e \in taken : e > lastDelivered
          /\ pel' = pel \union taken /\ UNCHANGED stale
          /\ phase[w] = "read"
          /\ \/ /\ Begins(w, taken)
                /\ phase' = [phase EXCEPT ![w] = "fresh"]
             \/ /\ UNCHANGED handler
                /\ phase' = [phase EXCEPT ![w] = "sweep"] \/ UNCHANGED phase
    BY <1>3, ReadTakes
  <2>2. ASSUME NEW e \in taken
        PROVE  ~(e <= lastDelivered)
    <3>1. e \in Nat /\ lastDelivered \in Nat
      BY DeliveryAssumption DEF TypeOK, EntryIds, DeliveryAssumption
    <3> QED
      BY <2>1, <3>1
  <2>3. \A v \in Workers, f \in EntryIds : f \in taken => handler[v][f] = "idle"
    BY <2>2 DEF ReadInOrder
  <2>4. taken \intersect stale = {}
    BY <2>2 DEF ReadInOrder, TypeOK
  <2>5. CASE Begins(w, taken) /\ phase' = [phase EXCEPT ![w] = "fresh"]
    <3>1. /\ phase'[w] \in {"reclaimed", "fresh"}
          /\ \A v \in Workers : v # w => phase'[v] = phase[v]
      BY <2>5 DEF TypeOK
    <3>2. \A v \in Workers, f \in EntryIds : f \in pel' \ pel => handler[v][f] = "idle"
      BY <2>1, <2>3
    <3> QED
      BY <2>1, <2>3, <2>4, <2>5, <3>1, <3>2, BatchOneHandler
  <2>6. CASE /\ UNCHANGED handler
             /\ phase' = [phase EXCEPT ![w] = "sweep"] \/ UNCHANGED phase
    <3>1. \A v \in Workers : phase'[v] \notin {"reclaimed", "fresh"} => NoHandler(v)'
      <4>1. NoHandler(w)
        BY <2>1 DEF OneHandler
      <4>2. \A v \in Workers : v # w => phase'[v] = phase[v]
        BY <2>6 DEF TypeOK
      <4> QED
        BY <2>6, <4>1, <4>2 DEF OneHandler, NoHandler
    <3>2. \A v \in Workers, f \in EntryIds : handler'[v][f] = "xdel" => f \notin pel'
      BY <2>1, <2>3, <2>6 DEF OneHandler
    <3> QED
      BY <2>1, <2>6, <3>1, <3>2 DEF OneHandler
  <2> QED
    BY <2>1, <2>5, <2>6
<1> QED
  BY <1>1, <1>2, <1>3 DEF LoopStep

LEMMA OneHandlerInductive ==
  ASSUME TypeOK, ReadInOrder, OneHandler, [UnhurriedNext]_vars
  PROVE  OneHandler'
<1>1. CASE \/ \E m \in Msgs : \/ Publish(m) \/ PublishAgain(m)
                              \/ ClaimLapses(m) \/ MarkerLapses(m)
           \/ \E w \in Workers : RequestShutdown(w)
           \/ UNCHANGED vars
  <2>1. UNCHANGED <<pel, stale, handler, phase>>
    BY <1>1 DEF Publish, PublishAgain, ClaimLapses, MarkerLapses, RequestShutdown,
                vars, redisVars, workerVars
  <2> QED
    BY <2>1 DEF OneHandler, NoHandler
<1>2. CASE \E e \in EntryIds : GoStale(e) /\ \A w \in Workers : handler[w][e] = "idle"
  <2>1. PICK e \in EntryIds :
          /\ \A w \in Workers : handler[w][e] = "idle"
          /\ stale' = stale \union {e} /\ UNCHANGED <<pel, handler, phase>>
    BY <1>2 DEF GoStale, workerVars
  <2> QED
    BY <2>1 DEF OneHandler, NoHandler
<1>3. CASE \E w \in Workers, e \in EntryIds : HandlerStep(w, e)
  BY <1>3, HandlerStepOneHandler
<1>4. CASE \E w \in Workers : LoopStep(w)
  BY <1>4, LoopStepOneHandler
<1>5. CASE \E w \in Workers : Crash(w)
  <2>1. PICK w \in Workers :
          /\ UNCHANGED <<pel, stale>>
          /\ handler' = [handler EXCEPT ![w] = [e \in EntryIds |-> "idle"]]
          /\ \E p : phase' = [phase EXCEPT ![w] = p]
    BY <1>5 DEF Crash, redisVars
  <2>2. \A v \in Workers, f \in EntryIds :
          handler'[v][f] = IF v = w THEN "idle" ELSE handler[v][f]
    BY <2>1 DEF TypeOK
  <2>3. \A v \in Workers : v = w \/ phase'[v] = phase[v]
    BY <2>1 DEF TypeOK
  <2> QED
    BY <2>1, <2>2, <2>3, EndingsKeepOneHandler
<1> QED
  BY <1>1, <1>2, <1>3, <1>4, <1>5 DEF UnhurriedNext

-----------------------------------------------------------------------------
(* The unfinished entries are bounded *)

LEMMA WorkIsFinite ==
  ASSUME TypeOK, NEW m \in Msgs
  PROVE  /\ Todo(m) \subseteq 1..Len(log) /\ IsFiniteSet(Todo(m))
         /\ \A w \in Workers : IsFiniteSet(Batch(w, m))
<1>1. Len(log) \in Int
  BY DEF TypeOK
<1>2. IsFiniteSet(1..Len(log))
  BY <1>1, FS_Interval
<1>3. /\ Todo(m) \in SUBSET (1..Len(log))
      /\ \A w \in Workers : Batch(w, m) \in SUBSET (1..Len(log))
  BY DEF Todo, Batch
<1> QED
  BY <1>2, <1>3, FS_Subset

\* A step that adds nothing to them keeps the bounds.
LEMMA BoundKept ==
  ASSUME TypeOK, NEW m \in Msgs, Bounded, faults' \in {faults, faults + 1}
  PROVE  /\ Todo(m)' \subseteq Todo(m) => Cardinality(Todo(m)') <= 2^(faults')
         /\ \A w \in Workers :
              \/ Batch(w, m)' \subseteq Batch(w, m)
              \/ Batch(w, m)' \subseteq Todo(m)
              => Cardinality(Batch(w, m)') <= 2^(faults')
<1>1. faults \in Nat
  BY DeliveryAssumption DEF TypeOK, DeliveryAssumption
<1>2. /\ IsFiniteSet(Todo(m)) /\ Cardinality(Todo(m)) <= 2^faults
      /\ \A w \in Workers : IsFiniteSet(Batch(w, m)) /\ Cardinality(Batch(w, m)) <= 2^faults
  BY WorkIsFinite DEF Bounded
<1>3. ASSUME NEW S, IsFiniteSet(S), Cardinality(S) <= 2^faults, NEW R, R \subseteq S
      PROVE  Cardinality(R) <= 2^(faults')
  BY <1>1, <1>3, NoMore
<1> QED
  BY <1>2, <1>3

\* A step that adds as many as there may be keeps them too if it is a fault.
LEMMA BoundDoubled ==
  ASSUME TypeOK, NEW m \in Msgs, Bounded, faults' = faults + 1,
         NEW T, IsFiniteSet(T), Cardinality(T) <= 2^faults,
         Todo(m)' \subseteq Todo(m) \union T
  PROVE  Cardinality(Todo(m)') <= 2^(faults')
<1>1. faults \in Nat
  BY DeliveryAssumption DEF TypeOK, DeliveryAssumption
<1>2. IsFiniteSet(Todo(m)) /\ Cardinality(Todo(m)) <= 2^faults
  BY WorkIsFinite DEF Bounded
<1> QED
  BY <1>1, <1>2, TwiceAsMany

\* An XADD adds its own entry, which nobody has yet; nothing else becomes
\* unfinished by it.
LEMMA XAddWork ==
  ASSUME TypeOK, ReadInOrder, NEW m \in Msgs, NEW rc \in 0..MaxRetries, XAdd(m, rc),
         UNCHANGED <<lastDelivered, pel>>,
         \A v \in Workers, f \in EntryIds :
           /\ handler'[v][f] \notin {"idle", "xack"} => handler'[v][f] = handler[v][f]
           /\ handler'[v][f] # "idle" => handler[v][f] # "idle"
           /\ handler[v][f] = "xack" => handler'[v][f] = "xack"
  PROVE  /\ Todo(m)' \subseteq Todo(m) \union {Len(log) + 1}
         /\ \A k \in Msgs : k # m => Todo(k)' \subseteq Todo(k)
         /\ \A v \in Workers, k \in Msgs : Batch(v, k)' \subseteq Batch(v, k)
<1>1. PICK new : new = Len(log) + 1
  OBVIOUS
<1>2. /\ Len(log') = new /\ new <= MaxEntries
      /\ \A i \in 1..Len(log) : log'[i] = log[i]
      /\ log'[new] = [msg |-> m, rc |-> rc]
      /\ present' \subseteq present \union {new}
  BY <1>1, XAddAppends
<1>3. Len(log) \in Nat /\ lastDelivered <= Len(log) /\ MaxEntries \in Nat
      /\ lastDelivered \in Nat /\ Len(log) <= MaxEntries
  BY DeliveryAssumption DEF TypeOK, ReadInOrder, DeliveryAssumption
<1>4. ASSUME NEW f \in 1..new
      PROVE  /\ f \in EntryIds
             /\ f # new => f \in 1..Len(log) /\ log'[f].msg = log[f].msg
             /\ f = new => log'[f].msg = m /\ ~(f <= lastDelivered)
  BY <1>1, <1>2, <1>3 DEF EntryIds
<1>5. ASSUME NEW f \in 1..new, f # new, Unfinished(f)'
      PROVE  Unfinished(f)
  <2>1. f \in EntryIds
    BY <1>4
  <2> QED
    BY <1>2, <1>5, <2>1 DEF Unfinished
<1>6. ASSUME NEW k \in Msgs, NEW f \in Todo(k)'
      PROVE  f \in Todo(k) \/ (f = new /\ k = m)
  <2>1. f \in 1..new /\ log'[f].msg = k /\ Unfinished(f)'
    BY <1>2, <1>6 DEF Todo, Msg
  <2>2. CASE f = new
    BY <1>4, <2>1, <2>2
  <2>3. CASE f # new
    BY <1>4, <1>5, <2>1, <2>3 DEF Todo, Msg
  <2> QED
    BY <2>2, <2>3
<1>7. ASSUME NEW v \in Workers, NEW k \in Msgs, NEW f \in Batch(v, k)'
      PROVE  f \in Batch(v, k)
  <2>1. f \in 1..new /\ log'[f].msg = k /\ handler'[v][f] # "idle"
    BY <1>2, <1>7 DEF Batch, Msg
  <2>2. f \in EntryIds /\ handler[v][f] # "idle"
    BY <1>4, <2>1
  <2>3. f # new
    BY <1>4, <2>1, <2>2 DEF ReadInOrder
  <2> QED
    BY <1>4, <2>1, <2>2, <2>3 DEF Batch, Msg
<1> QED
  BY <1>1, <1>6, <1>7

\* An event that the API adds is the first unfinished entry of its message, or
\* one more in a fault.
LEMMA AddedBounded ==
  ASSUME TypeOK, ReadInOrder, Bounded, NEW m \in Msgs, XAdd(m, 0),
         UNCHANGED <<lastDelivered, pel, handler>>, faults' \in {faults, faults + 1},
         Todo(m) = {} \/ faults' = faults + 1
  PROVE  Bounded'
<1>1. 0 \in 0..MaxRetries /\ faults \in Nat
  BY DeliveryAssumption DEF TypeOK, DeliveryAssumption
<1>2. PICK new : new = Len(log) + 1
  OBVIOUS
<1>3. /\ Todo(m)' \subseteq Todo(m) \union {new}
      /\ \A k \in Msgs : k # m => Todo(k)' \subseteq Todo(k)
      /\ \A v \in Workers, k \in Msgs : Batch(v, k)' \subseteq Batch(v, k)
  BY <1>1, <1>2, XAddWork
<1>4. IsFiniteSet({new}) /\ Cardinality({new}) = 1 /\ 1 <= 2^faults
  BY <1>1, FS_Singleton, PowersPositive
<1>5. Cardinality({new}) <= 2^faults
  BY <1>4
<1>6. Cardinality(Todo(m)') <= 2^(faults')
  <2>1. CASE Todo(m) = {}
    <3>1. Todo(m)' \subseteq {new}
      BY <1>3, <2>1
    <3> QED
      BY <1>1, <1>4, <1>5, <3>1, NoMore
  <2>2. CASE faults' = faults + 1
    BY <1>3, <1>4, <1>5, <2>2, BoundDoubled
  <2> QED
    BY <2>1, <2>2
<1> QED
  BY <1>3, <1>6, BoundKept DEF Bounded

\* The API's writes: the first of a message finds no entry of it, and a repeated
\* one is a fault.
LEMMA PublishBounded ==
  ASSUME TypeOK, ReadInOrder, Bounded, NEW m \in Msgs, Publish(m) \/ PublishAgain(m)
  PROVE  Bounded'
<1>1. XAdd(m, 0) /\ UNCHANGED <<lastDelivered, pel, handler>>
  BY DEF Publish, PublishAgain, workerVars
<1>2. CASE Publish(m)
  <2>1. Todo(m) = {} /\ faults' \in {faults, faults + 1}
    BY <1>2 DEF Publish, Todo
  <2> QED
    BY <1>1, <2>1, AddedBounded
<1>3. CASE PublishAgain(m)
  <2>1. faults' = faults + 1
    BY <1>3 DEF PublishAgain, Fault
  <2> QED
    BY <1>1, <2>1, AddedBounded
<1> QED
  BY <1>2, <1>3

\* A requeue that goes to its ack trades its entry for the new one; one that
\* goes anywhere else is a fault.
LEMMA RequeueWork ==
  ASSUME TypeOK, ReadInOrder, OneHandler,
         NEW w \in Workers, NEW e \in EntryIds, Requeue(w, e)
  PROVE  /\ e \in 1..Len(log) /\ Msg(e) \in Msgs /\ e \in Todo(Msg(e))
         /\ \E new : /\ new = Len(log) + 1
                    /\ \A k \in Msgs : \/ Todo(k)' \subseteq Todo(k)
                                       \/ k = Msg(e) /\ Todo(k)' \subseteq Todo(k) \union {new}
         /\ \A v \in Workers, k \in Msgs : Batch(v, k)' \subseteq Batch(v, k)
         /\ \/ faults' = faults + 1
            \/ /\ faults' = faults /\ handler'[w][e] = "xack"
               /\ \A k \in Msgs : e \notin Todo(k)'
<1>0. /\ handler[w][e] = "requeue" /\ XAdd(Msg(e), log[e].rc + 1)
      /\ UNCHANGED <<lastDelivered, pel>> /\ Answered(w, e, "xack")
  BY DEF Requeue
<1>1. PICK m : m = Msg(e)
  OBVIOUS
<1>2. /\ e \in 1..Len(log) /\ m \in Msgs /\ log[e].rc + 1 \in 0..MaxRetries
      /\ Len(log) \in Nat
  <2>1. e <= lastDelivered /\ lastDelivered <= Len(log) /\ log[e].rc < MaxRetries
    BY <1>0 DEF ReadInOrder
  <2>2. e \in 1..Len(log) /\ Len(log) \in Nat
    BY <2>1, DeliveryAssumption DEF TypeOK, EntryIds, DeliveryAssumption
  <2>3. log[e] \in Entry
    BY <2>2 DEF TypeOK
  <2>4. m \in Msgs /\ log[e].rc \in Nat
    BY <1>1, <2>3, DeliveryAssumption DEF Entry, Msg, DeliveryAssumption
  <2> QED
    BY <2>1, <2>2, <2>4, DeliveryAssumption DEF DeliveryAssumption
<1>3. PICK q \in {"xack", "idle", "requeue"} :
        /\ handler' = [handler EXCEPT ![w][e] = q]
        /\ (q = "xack" /\ faults' = faults) \/ faults' = faults + 1
  <2>1. handler = [handler EXCEPT ![w][e] = "requeue"]
    BY <1>0 DEF TypeOK
  <2> QED
    BY <1>0, <2>1 DEF Answered, Goes, Fault
<1>4. \A v \in Workers, f \in EntryIds :
        handler'[v][f] = IF v = w /\ f = e THEN q ELSE handler[v][f]
  BY <1>3 DEF TypeOK
<1>5. PICK new : new = Len(log) + 1
  OBVIOUS
<1>6. /\ Todo(m)' \subseteq Todo(m) \union {new}
      /\ \A k \in Msgs : k # m => Todo(k)' \subseteq Todo(k)
      /\ \A v \in Workers, k \in Msgs : Batch(v, k)' \subseteq Batch(v, k)
  <2>1. \A v \in Workers, f \in EntryIds :
          /\ handler'[v][f] \notin {"idle", "xack"} => handler'[v][f] = handler[v][f]
          /\ handler'[v][f] # "idle" => handler[v][f] # "idle"
          /\ handler[v][f] = "xack" => handler'[v][f] = "xack"
    BY <1>0, <1>4
  <2>2. XAdd(m, log[e].rc + 1)
    BY <1>0, <1>1
  <2> QED
    BY <1>0, <1>2, <1>5, <2>1, <2>2, XAddWork
<1>7. q = "xack" => \A k \in Msgs : e \notin Todo(k)'
  BY <1>2, <1>4 DEF Todo, Unfinished
<1>8. e \in Todo(m)
  <2>1. \A v \in Workers : handler[v][e] # "xack"
    BY <1>0 DEF OneHandler
  <2> QED
    BY <1>0, <1>1, <1>2, <2>1 DEF Todo, Unfinished
<1>9. handler'[w][e] = q
  BY <1>4
<1> QED
  BY <1>1, <1>2, <1>3, <1>5, <1>6, <1>7, <1>8, <1>9

LEMMA RequeueBounded ==
  ASSUME TypeOK, ReadInOrder, OneHandler, Bounded,
         NEW w \in Workers, NEW e \in EntryIds, Requeue(w, e)
  PROVE  Bounded'
<1>1. PICK m \in Msgs : m = Msg(e)
  BY RequeueWork
<1>2. PICK new :
        \A k \in Msgs : \/ Todo(k)' \subseteq Todo(k)
                        \/ k = m /\ Todo(k)' \subseteq Todo(k) \union {new}
  BY <1>1, RequeueWork
<1>3. faults \in Nat /\ faults' \in {faults, faults + 1}
  BY RequeueWork, DeliveryAssumption DEF TypeOK, DeliveryAssumption
<1>4. IsFiniteSet({new}) /\ Cardinality({new}) = 1 /\ 1 <= 2^faults
  BY <1>3, FS_Singleton, PowersPositive
<1>5. Cardinality(Todo(m)') <= 2^(faults')
  <2>1. CASE Todo(m)' \subseteq Todo(m)
    BY <1>3, <2>1, BoundKept
  <2>2. CASE faults' = faults + 1 /\ Todo(m)' \subseteq Todo(m) \union {new}
    <3>1. Cardinality({new}) <= 2^faults
      BY <1>4
    <3> QED
      BY <1>4, <2>2, <3>1, BoundDoubled
  <2>3. CASE e \notin Todo(m)' /\ Todo(m)' \subseteq Todo(m) \union {new}
    <3>1. e \in Todo(m)
      BY <1>1, RequeueWork
    <3>2. PICK S : S = (Todo(m) \ {e}) \union {new}
      OBVIOUS
    <3>3. Todo(m)' \subseteq S
      BY <2>3, <3>2
    <3>4. IsFiniteSet(Todo(m)) /\ Cardinality(Todo(m)) <= 2^faults
      BY WorkIsFinite DEF Bounded
    <3>5. /\ IsFiniteSet(Todo(m) \ {e})
          /\ Cardinality(Todo(m) \ {e}) = Cardinality(Todo(m)) - 1
      BY <3>1, <3>4, FS_RemoveElement
    <3>6. /\ IsFiniteSet(S)
          /\ \/ Cardinality(S) = Cardinality(Todo(m) \ {e})
             \/ Cardinality(S) = Cardinality(Todo(m) \ {e}) + 1
      BY <3>2, <3>5, FS_AddElement
    <3>7. Cardinality(S) <= 2^faults
      <4>1. 2^faults \in Nat /\ Cardinality(Todo(m)) \in Nat
        BY <1>3, <3>4, PowersPositive, FS_CardinalityType
      <4> QED
        BY <3>4, <3>5, <3>6, <4>1
    <3> QED
      BY <1>3, <3>3, <3>6, <3>7, NoMore
  <2> QED
    BY <1>2, <2>1, <2>2, <2>3, RequeueWork
<1>6. \A k \in Msgs : k # m => Todo(k)' \subseteq Todo(k)
  BY <1>2
<1>7. \A v \in Workers, k \in Msgs : Batch(v, k)' \subseteq Batch(v, k)
  BY RequeueWork
<1> QED
  BY <1>3, <1>5, <1>6, <1>7, BoundKept DEF Bounded

\* Any other step of a handler makes nothing unfinished but, in a fault, an entry
\* whose ack it gives up.
LEMMA HandlerStepWork ==
  ASSUME TypeOK, ReadInOrder, OneHandler,
         NEW w \in Workers, NEW e \in EntryIds, HandlerStep(w, e), ~Requeue(w, e)
  PROVE  \A m \in Msgs :
           /\ \/ Todo(m)' \subseteq Todo(m)
              \/ faults' = faults + 1 /\ Todo(m)' \subseteq Todo(m) \union {e}
           /\ \A v \in Workers : Batch(v, m)' \subseteq Batch(v, m)
<1>1. /\ handler[w][e] # "idle" /\ UNCHANGED <<lastDelivered, log>>
      /\ pel' \subseteq pel /\ present' \subseteq present
      /\ faults' \in {faults, faults + 1}
  BY HandlerStepEffect
<1>2. PICK q \in PC :
        /\ handler' = [handler EXCEPT ![w][e] = q]
        /\ q = "xdel" => handler[w][e] = "xdel" \/ e \notin pel'
        /\ handler[w][e] = "xdel" => q \in {"idle", "xdel"}
        /\ handler[w][e] = "xack" =>
             \/ q = "xack"
             \/ q \in {"idle", "xdel"} /\ (e \notin pel' \/ faults' = faults + 1)
  BY HandlerStepEffect
<1>3. \A v \in Workers, f \in EntryIds :
        handler'[v][f] = IF v = w /\ f = e THEN q ELSE handler[v][f]
  BY <1>2 DEF TypeOK
<1>4. e \in 1..Len(log) /\ ~(e > lastDelivered) /\ Len(log) <= MaxEntries
  BY <1>1, DeliveryAssumption DEF TypeOK, ReadInOrder, EntryIds, DeliveryAssumption
<1>5. faults \in Nat /\ Len(log) \in Nat /\ MaxEntries \in Nat
  BY DeliveryAssumption DEF TypeOK, DeliveryAssumption
<1>6. ASSUME NEW f \in 1..Len(log), Unfinished(f)'
      PROVE  Unfinished(f) \/ (f = e /\ faults' = faults + 1)
  <2>1. f \in EntryIds
    BY <1>4, <1>5 DEF EntryIds
  <2>2. CASE f # e
    BY <1>1, <1>3, <1>6, <2>1, <2>2 DEF Unfinished
  <2>3. CASE f = e
    <3>1. \A v \in Workers : v # w => handler[v][e] = "idle" /\ handler'[v][e] = "idle"
      BY <1>1, <1>3 DEF OneHandler
    <3>2. handler'[w][e] = q
      BY <1>3
    <3>3. q # "xack" /\ (e \in pel' \/ q \notin {"idle", "xack", "xdel"})
      BY <1>1, <1>4, <1>6, <2>3, <3>1, <3>2 DEF Unfinished
    <3>4. CASE handler[w][e] = "xack"
      BY <1>2, <2>3, <3>3, <3>4
    <3>5. CASE handler[w][e] = "xdel"
      BY <1>1, <1>2, <3>3, <3>5 DEF OneHandler
    <3>6. CASE handler[w][e] \notin {"xack", "xdel"}
      BY <1>1, <2>3, <3>1, <3>6 DEF Unfinished
    <3> QED
      BY <3>4, <3>5, <3>6
  <2> QED
    BY <2>2, <2>3
<1>7. ASSUME NEW m \in Msgs
      PROVE  /\ \/ Todo(m)' \subseteq Todo(m)
                \/ faults' = faults + 1 /\ Todo(m)' \subseteq Todo(m) \union {e}
             /\ \A v \in Workers : Batch(v, m)' \subseteq Batch(v, m)
  <2>1. ASSUME NEW f \in Todo(m)'
        PROVE  f \in Todo(m) \/ (f = e /\ faults' = faults + 1)
    BY <1>1, <1>6, <2>1 DEF Todo, Msg
  <2>2. ASSUME NEW v \in Workers, NEW f \in Batch(v, m)'
        PROVE  f \in Batch(v, m)
    <3>1. f \in 1..Len(log) /\ log[f].msg = m /\ handler'[v][f] # "idle"
      BY <1>1, <2>2 DEF Batch, Msg
    <3>2. f \in EntryIds
      BY <1>5, <1>4, <3>1 DEF EntryIds
    <3>3. handler[v][f] # "idle"
      BY <1>1, <1>3, <3>1, <3>2
    <3> QED
      BY <3>1, <3>3 DEF Batch, Msg
  <2> QED
    BY <2>1, <2>2
<1> QED
  BY <1>7

LEMMA HandlerStepBounded ==
  ASSUME TypeOK, ReadInOrder, OneHandler, Bounded,
         NEW w \in Workers, NEW e \in EntryIds, HandlerStep(w, e), ~Requeue(w, e)
  PROVE  Bounded'
<1>1. faults \in Nat /\ faults' \in {faults, faults + 1}
  BY HandlerStepEffect, DeliveryAssumption DEF TypeOK, DeliveryAssumption
<1>2. IsFiniteSet({e}) /\ Cardinality({e}) <= 2^faults
  BY <1>1, FS_Singleton, PowersPositive
<1>3. ASSUME NEW m \in Msgs
      PROVE  Cardinality(Todo(m)') <= 2^(faults')
  <2>1. CASE Todo(m)' \subseteq Todo(m)
    BY <1>1, <2>1, BoundKept
  <2>2. CASE faults' = faults + 1 /\ Todo(m)' \subseteq Todo(m) \union {e}
    BY <1>2, <2>2, BoundDoubled
  <2> QED
    BY <2>1, <2>2, HandlerStepWork
<1>4. ASSUME NEW m \in Msgs, NEW v \in Workers
      PROVE  Batch(v, m)' \subseteq Batch(v, m)
  BY HandlerStepWork
<1> QED
  BY <1>1, <1>3, <1>4, BoundKept DEF Bounded

\* A worker takes a batch of unfinished entries, and it had none before.
LEMMA LoopStepWork ==
  ASSUME TypeOK, ReadInOrder, OneHandler, NEW w \in Workers, LoopStep(w)
  PROVE  \A m \in Msgs :
           /\ Todo(m)' \subseteq Todo(m)
           /\ \A v \in Workers : \/ Batch(v, m)' \subseteq Batch(v, m)
                                \/ Batch(v, m)' \subseteq Todo(m)
<1> DEFINE Goal == \A m \in Msgs :
             /\ Todo(m)' \subseteq Todo(m)
             /\ \A v \in Workers : \/ Batch(v, m)' \subseteq Batch(v, m)
                                  \/ Batch(v, m)' \subseteq Todo(m)
<1>0. /\ UNCHANGED <<log, present>> /\ faults' \in {faults, faults + 1}
      /\ lastDelivered \in Nat /\ lastDelivered' \in Nat /\ lastDelivered <= lastDelivered'
      /\ \A f \in 1..Len(log) : f \in EntryIds /\ f \in Nat
  <2>1. UNCHANGED <<log, present>> /\ faults' \in {faults, faults + 1}
    BY DEF LoopStep, Start, Sweep, ReadNew, EndBatch, Stop, redisVars, Fault
  <2>2. TypeOK'
    BY LoopStepTypes
  <2>3. lastDelivered \in Nat /\ lastDelivered' \in Nat
    BY <2>2, DeliveryAssumption DEF TypeOK, DeliveryAssumption
  <2>4. lastDelivered <= lastDelivered'
    <3>1. CASE ReadNew(w)
      BY <3>1, ReadTakes
    <3>2. CASE ~ReadNew(w)
      BY <2>3, <3>2 DEF LoopStep, Start, Sweep, EndBatch, Stop, redisVars
    <3> QED
      BY <3>1, <3>2
  <2>5. \A f \in 1..Len(log) : f \in EntryIds /\ f \in Nat
    BY DeliveryAssumption DEF TypeOK, EntryIds, DeliveryAssumption
  <2> QED
    BY <2>1, <2>3, <2>4, <2>5
\* A batch that begins is of entries that were pending or unread, and nobody's.
<1>1. ASSUME NEW batch, Begins(w, batch), NoHandler(w),
             \A f \in batch : f \in pel \/ (f \in present /\ f > lastDelivered),
             \A f \in batch, v \in Workers : f \in EntryIds => handler[v][f] = "idle",
             \A f \in pel' : f \in pel \/ (f \in present /\ f > lastDelivered)
      PROVE  Goal
  <2>1. \A v \in Workers, f \in EntryIds :
          handler'[v][f] = IF v # w THEN handler[v][f]
                           ELSE IF f \in batch THEN "begin" ELSE "idle"
    BY <1>1 DEF Begins, TypeOK
  <2>2. ASSUME NEW f \in 1..Len(log), f \in batch
        PROVE  Unfinished(f)
    BY <1>0, <1>1, <2>2 DEF Unfinished
  <2>3. ASSUME NEW f \in 1..Len(log), Unfinished(f)'
        PROVE  Unfinished(f)
    <3>1. \A v \in Workers : handler[v][f] # "xack"
      BY <1>0, <1>1, <2>1, <2>3 DEF Unfinished, NoHandler
    <3>2. CASE f \in pel'
      BY <1>1, <3>1, <3>2 DEF Unfinished
    <3>3. CASE f \in present' /\ f > lastDelivered'
      BY <1>0, <3>1, <3>3 DEF Unfinished
    <3>4. CASE \E v \in Workers : handler'[v][f] \notin {"idle", "xack", "xdel"}
      BY <1>0, <2>1, <2>2, <3>1, <3>4 DEF Unfinished
    <3> QED
      BY <2>3, <3>2, <3>3, <3>4 DEF Unfinished
  <2>4. ASSUME NEW m \in Msgs
        PROVE  /\ Todo(m)' \subseteq Todo(m)
               /\ \A v \in Workers : v # w => Batch(v, m)' \subseteq Batch(v, m)
               /\ Batch(w, m)' \subseteq Todo(m)
    <3>1. Todo(m)' \subseteq Todo(m)
      BY <1>0, <2>3 DEF Todo, Msg
    <3>2. ASSUME NEW v \in Workers, v # w
          PROVE  Batch(v, m)' \subseteq Batch(v, m)
      BY <1>0, <2>1, <3>2 DEF Batch, Msg
    <3>3. Batch(w, m)' \subseteq Todo(m)
      BY <1>0, <2>1, <2>2 DEF Batch, Todo, Msg
    <3> QED
      BY <3>1, <3>2, <3>3
  <2> QED
    BY <2>4
<1>2. ASSUME UNCHANGED handler,
             \A f \in pel' : f \in pel \/ (f \in present /\ f > lastDelivered)
      PROVE  Goal
  <2>1. \A f \in 1..Len(log) : Unfinished(f)' => Unfinished(f)
    BY <1>0, <1>2 DEF Unfinished
  <2>2. \A m \in Msgs : Todo(m)' \subseteq Todo(m)
    BY <1>0, <2>1 DEF Todo, Msg
  <2>3. \A m \in Msgs, v \in Workers : Batch(v, m)' \subseteq Batch(v, m)
    BY <1>0, <1>2 DEF Batch, Msg
  <2> QED
    BY <2>2, <2>3
<1>3. CASE Start(w) \/ EndBatch(w) \/ Stop(w)
  BY <1>2, <1>3 DEF Start, EndBatch, Stop, redisVars
<1>4. CASE Sweep(w)
  <2>1. PICK taken \in SUBSET pel :
          /\ \A e \in taken : e \in stale \/ e \notin present
          /\ pel' = pel \ (taken \ present) /\ phase[w] = "sweep"
          /\ Begins(w, taken \intersect present) \/ UNCHANGED handler
    BY <1>4, SweepTakes
  <2>2. NoHandler(w)
    BY <2>1 DEF OneHandler
  <2>3. \A f \in taken \intersect present, v \in Workers : f \in EntryIds => handler[v][f] = "idle"
    BY <2>1 DEF OneHandler
  <2>4. CASE UNCHANGED handler
    BY <1>2, <2>1, <2>4
  <2>5. CASE Begins(w, taken \intersect present)
    <3>1. \A f \in taken \intersect present : f \in pel
      OBVIOUS
    <3>2. \A f \in pel' : f \in pel
      BY <2>1
    <3> QED
      BY <1>1, <2>2, <2>3, <2>5, <3>1, <3>2
  <2> QED
    BY <2>1, <2>4, <2>5
<1>5. CASE ReadNew(w)
  <2>1. PICK taken \in SUBSET present :
          /\ \A e \in taken : e > lastDelivered
          /\ pel' = pel \union taken /\ phase[w] = "read"
          /\ Begins(w, taken) \/ UNCHANGED handler
    BY <1>5, ReadTakes
  <2>2. NoHandler(w)
    BY <2>1 DEF OneHandler
  <2>3. \A f \in pel' : f \in pel \/ (f \in present /\ f > lastDelivered)
    BY <2>1
  <2>4. ASSUME NEW f \in taken, NEW v \in Workers, f \in EntryIds
        PROVE  handler[v][f] = "idle"
    <3>1. f \in Nat
      BY <2>4, DeliveryAssumption DEF EntryIds, DeliveryAssumption
    <3>2. ~(f <= lastDelivered)
      BY <1>0, <2>1, <3>1
    <3> QED
      BY <2>4, <3>2 DEF ReadInOrder
  <2>5. CASE UNCHANGED handler
    BY <1>2, <2>3, <2>5
  <2>6. CASE Begins(w, taken)
    <3>1. \A f \in taken : f \in present /\ f > lastDelivered
      BY <2>1
    <3> QED
      BY <1>1, <2>2, <2>3, <2>4, <2>6, <3>1
  <2> QED
    BY <2>1, <2>5, <2>6
<1> QED
  BY <1>3, <1>4, <1>5 DEF LoopStep

LEMMA LoopStepBounded ==
  ASSUME TypeOK, ReadInOrder, OneHandler, Bounded, NEW w \in Workers, LoopStep(w)
  PROVE  Bounded'
<1>1. faults' \in {faults, faults + 1}
  BY DEF LoopStep, Start, Sweep, ReadNew, EndBatch, Stop, Fault
<1> QED
  BY <1>1, LoopStepWork, BoundKept DEF Bounded

\* A crash gives back the acks of one batch.
LEMMA CrashReturns ==
  ASSUME TypeOK, NEW w \in Workers, Crash(w)
  PROVE  /\ faults' = faults + 1
         /\ \A m \in Msgs :
              /\ Todo(m)' \subseteq Todo(m) \union Batch(w, m)
              /\ \A v \in Workers : Batch(v, m)' \subseteq Batch(v, m)
<1>1. /\ UNCHANGED <<log, pel, present, lastDelivered>>
      /\ faults' = faults + 1
      /\ handler' = [handler EXCEPT ![w] = [e \in EntryIds |-> "idle"]]
  BY DEF Crash, redisVars, Fault
<1>2. \A v \in Workers, f \in EntryIds :
        handler'[v][f] = IF v = w THEN "idle" ELSE handler[v][f]
  BY <1>1 DEF TypeOK
<1>3. \A f \in 1..Len(log) : f \in EntryIds
  BY DeliveryAssumption DEF TypeOK, EntryIds, DeliveryAssumption
<1>4. ASSUME NEW f \in 1..Len(log), Unfinished(f)', handler[w][f] = "idle"
      PROVE  Unfinished(f)
  BY <1>1, <1>2, <1>3, <1>4 DEF Unfinished
<1>5. \A m \in Msgs : Todo(m)' \subseteq Todo(m) \union Batch(w, m)
  BY <1>1, <1>4 DEF Todo, Batch, Msg
<1>6. \A m \in Msgs, v \in Workers : Batch(v, m)' \subseteq Batch(v, m)
  BY <1>1, <1>2, <1>3 DEF Batch, Msg
<1> QED
  BY <1>1, <1>5, <1>6

\* That is no more than the bound.
LEMMA CrashBounded ==
  ASSUME TypeOK, ReadInOrder, Bounded, NEW w \in Workers, Crash(w)
  PROVE  Bounded'
<1>1. ASSUME NEW m \in Msgs
      PROVE  Cardinality(Todo(m)') <= 2^(faults')
  <2>1. IsFiniteSet(Batch(w, m)) /\ Cardinality(Batch(w, m)) <= 2^faults
    BY WorkIsFinite DEF Bounded
  <2> QED
    BY <2>1, CrashReturns, BoundDoubled
<1>2. faults' \in {faults, faults + 1}
  BY CrashReturns
<1> QED
  BY <1>1, <1>2, CrashReturns, BoundKept DEF Bounded

LEMMA BoundedInductive ==
  ASSUME TypeOK, ReadInOrder, OneHandler, Bounded, [Next]_vars
  PROVE  Bounded'
<1>1. ASSUME UNCHANGED <<log, pel, present, lastDelivered, handler, faults>>
      PROVE  Bounded'
  BY <1>1 DEF Bounded, Todo, Batch, Unfinished, Msg
<1>2. CASE \E m \in Msgs : Publish(m) \/ PublishAgain(m)
  BY <1>2, PublishBounded
<1>3. CASE \/ \E m \in Msgs : ClaimLapses(m) \/ MarkerLapses(m)
           \/ \E e \in EntryIds : GoStale(e)
           \/ \E w \in Workers : RequestShutdown(w)
           \/ UNCHANGED vars
  BY <1>1, <1>3 DEF ClaimLapses, MarkerLapses, GoStale, RequestShutdown,
                    vars, redisVars, workerVars
<1>4. CASE \E w \in Workers, e \in EntryIds : HandlerStep(w, e)
  BY <1>4, RequeueBounded, HandlerStepBounded
<1>5. CASE \E w \in Workers : LoopStep(w)
  BY <1>5, LoopStepBounded
<1>6. CASE \E w \in Workers : Crash(w)
  BY <1>6, CrashBounded
<1> QED
  BY <1>2, <1>3, <1>4, <1>5, <1>6 DEF Next

LEMMA InitBounded ==
  ASSUME Init
  PROVE  OneHandler /\ Bounded
<1>1. OneHandler
  BY DEF Init, OneHandler, NoHandler
<1>2. Bounded
  <2>1. 1..Len(log) = {} /\ faults = 0
    BY DEF Init
  <2>2. \A m \in Msgs : Todo(m) = {} /\ \A w \in Workers : Batch(w, m) = {}
    BY <2>1 DEF Todo, Batch
  <2>3. 2^faults \in Nat /\ Cardinality({}) = 0
    BY <2>1, PowersPositive, FS_EmptySet
  <2>4. 0 <= 2^faults
    BY <2>3
  <2> QED
    BY <2>2, <2>3, <2>4 DEF Bounded
<1> QED
  BY <1>1, <1>2

\* A live entry not about to be acked is unfinished.
LEMMA BoundedCopies ==
  ASSUME TypeOK, Bounded
  PROVE  NoAmplification
<1> SUFFICES ASSUME NEW m \in Msgs
             PROVE  Cardinality(UnackedCopies(m)) <= 2^faults
  BY DEF NoAmplification
<1>1. UnackedCopies(m) \subseteq Todo(m)
  BY DEF UnackedCopies, Copies, Live, Todo, Unfinished
<1>2. IsFiniteSet(Todo(m)) /\ Cardinality(Todo(m)) <= 2^faults
  BY WorkIsFinite DEF Bounded
<1>3. faults \in Nat
  BY DeliveryAssumption DEF TypeOK, DeliveryAssumption
<1> QED
  BY <1>1, <1>2, <1>3, NoMore

\* Whatever keeps reclaims away from running handlers.
LEMMA CopiesUnhurried ==
  UnhurriedSpec => []NoAmplification
<1> DEFINE Inv == TypeOK /\ ReadInOrder /\ OneHandler /\ Bounded
<1>1. Init => Inv
  <2> SUFFICES ASSUME Init PROVE Inv
    OBVIOUS
  <2>1. TypeOK /\ ReadInOrder
    BY TypesInductive
  <2>2. OneHandler /\ Bounded
    BY InitBounded
  <2> QED
    BY <2>1, <2>2
<1>2. Inv /\ [UnhurriedNext]_vars => Inv'
  BY InTimeSteps, TypesInductive, OneHandlerInductive, BoundedInductive
<1>3. Inv => NoAmplification
  BY BoundedCopies
<1> QED
  BY <1>1, <1>2, <1>3, PTL DEF UnhurriedSpec

\* NO AMPLIFICATION.  Whatever the sizes, in any stream and with any client: if
\* attempts end before their entries can be reclaimed, the entries of an event
\* that still have work to do are one, and at most twice as many after each
\* crash, failed command or lost answer (worker.py:175-177).
THEOREM FaultsAtMostDouble ==
  ASSUME Timely
  PROVE  Spec => []NoAmplification
BY CopiesUnhurried, TimelyIsInTime, InTimeIsUnhurried, PTL

-----------------------------------------------------------------------------
(* Steps in which nothing fails *)

\* The log only grows, and so does the count of faults.
LEMMA LogGrows ==
  ASSUME TypeOK, ReadInOrder, [Next]_vars
  PROVE  /\ Len(log) \in Nat /\ Len(log') \in Nat /\ Len(log) <= Len(log')
         /\ Len(log') <= MaxEntries
         /\ \A i \in 1..Len(log) : log'[i] = log[i]
         /\ faults' \in {faults, faults + 1} /\ faults \in Nat
<1> DEFINE Grown ==
             /\ Len(log) \in Nat /\ Len(log') \in Nat /\ Len(log) <= Len(log')
             /\ Len(log') <= MaxEntries
             /\ \A i \in 1..Len(log) : log'[i] = log[i]
             /\ faults' \in {faults, faults + 1} /\ faults \in Nat
<1>1. Len(log) \in Nat /\ faults \in Nat /\ Len(log) <= MaxEntries
  BY DeliveryAssumption DEF TypeOK, DeliveryAssumption
<1>2. ASSUME UNCHANGED log, faults' \in {faults, faults + 1}
      PROVE  Grown
  BY <1>1, <1>2
<1>3. ASSUME NEW m \in Msgs, NEW rc \in 0..MaxRetries, XAdd(m, rc),
             faults' \in {faults, faults + 1}
      PROVE  Grown
  <2>1. /\ Len(log') = Len(log) + 1 /\ Len(log') <= MaxEntries
        /\ \A i \in 1..Len(log) : log'[i] = log[i]
    BY <1>3, XAddAppends
  <2> QED
    BY <1>1, <1>3, <2>1
<1>4. CASE \E m \in Msgs : Publish(m) \/ PublishAgain(m)
  <2>1. 0 \in 0..MaxRetries
    BY DeliveryAssumption DEF DeliveryAssumption
  <2> QED
    BY <1>3, <1>4, <2>1 DEF Publish, PublishAgain, Fault
<1>5. CASE \E w \in Workers, e \in EntryIds : HandlerStep(w, e)
  <2>1. PICK w \in Workers, e \in EntryIds : HandlerStep(w, e)
    BY <1>5
  <2>2. faults' \in {faults, faults + 1}
    BY <2>1, HandlerStepEffect
  <2>3. CASE Requeue(w, e)
    <3>1. XAdd(Msg(e), log[e].rc + 1) /\ handler[w][e] = "requeue"
      BY <2>3 DEF Requeue
    <3>2. e \in 1..Len(log) /\ log[e].rc < MaxRetries
      <4>1. e <= lastDelivered /\ lastDelivered <= Len(log) /\ log[e].rc < MaxRetries
        BY <3>1 DEF ReadInOrder
      <4> QED
        BY <4>1, DeliveryAssumption DEF TypeOK, EntryIds, DeliveryAssumption
    <3>3. log[e] \in Entry
      BY <3>2 DEF TypeOK
    <3>4. Msg(e) \in Msgs /\ log[e].rc + 1 \in 0..MaxRetries
      BY <3>2, <3>3, DeliveryAssumption DEF Entry, Msg, DeliveryAssumption
    <3> QED
      BY <1>3, <2>2, <3>1, <3>4
  <2>4. CASE ~Requeue(w, e)
    BY <1>2, <2>1, <2>2, <2>4, HandlerStepEffect
  <2> QED
    BY <2>3, <2>4
<1>6. CASE \/ \E m \in Msgs : ClaimLapses(m) \/ MarkerLapses(m)
           \/ \E e \in EntryIds : GoStale(e)
           \/ \E w \in Workers : LoopStep(w) \/ RequestShutdown(w) \/ Crash(w)
           \/ UNCHANGED vars
  <2>1. UNCHANGED log
    BY <1>6 DEF ClaimLapses, MarkerLapses, GoStale, LoopStep, Start, Sweep, ReadNew, EndBatch,
                Stop, RequestShutdown, Crash, vars, redisVars
  <2>2. faults' \in {faults, faults + 1}
    BY <1>6 DEF ClaimLapses, MarkerLapses, GoStale, LoopStep, Start, Sweep, ReadNew, EndBatch,
                Stop, RequestShutdown, Crash, vars, Fault
  <2> QED
    BY <1>2, <2>1, <2>2
<1> QED
  BY <1>4, <1>5, <1>6 DEF Next

\* When nothing has failed, an event has at most one unfinished entry.
LEMMA OneUnfinished ==
  ASSUME TypeOK, Bounded, faults = 0, NEW m \in Msgs,
         NEW e \in Todo(m), NEW f \in Todo(m)
  PROVE  e = f
<1>1. IsFiniteSet(Todo(m)) /\ Cardinality(Todo(m)) <= 2^0
  BY WorkIsFinite DEF Bounded
<1>2. 2^0 = 1
  <2>1. SUBSET (1..0) = {{}}
    OBVIOUS
  <2> QED
    BY <2>1, PowerOfTwo, FS_Singleton
<1>3. Cardinality(Todo(m)) \in Nat /\ Cardinality(Todo(m)) # 0
  BY <1>1, FS_CardinalityType, FS_EmptySet
<1>4. Cardinality(Todo(m)) = 1
  BY <1>1, <1>2, <1>3
<1> QED
  BY <1>1, <1>4, FS_Singleton

\* A handler is at one entry of its message until its ack.
LEMMA HandlerIsUnfinished ==
  ASSUME TypeOK, ReadInOrder, OneHandler, NEW w \in Workers, NEW e \in EntryIds,
         handler[w][e] \notin {"idle", "xack", "xdel"}
  PROVE  e \in 1..Len(log) /\ Msg(e) \in Msgs /\ e \in Todo(Msg(e))
<1>1. e <= lastDelivered /\ lastDelivered <= Len(log)
  BY DEF ReadInOrder
<1>2. e \in 1..Len(log)
  BY <1>1, DeliveryAssumption DEF TypeOK, EntryIds, DeliveryAssumption
<1>3. \A v \in Workers : handler[v][e] # "xack"
  BY DEF OneHandler
<1> QED
  BY <1>2, <1>3, EntryHasMsg DEF Todo, Unfinished

\* Which steps add to the unfinished entries of a message when nothing fails.
LEMMA FaultFreeWork ==
  ASSUME TypeOK, ReadInOrder, OneHandler, Bounded, [Next]_vars, faults = 0, faults' = 0,
         NEW m \in Msgs
  PROVE  \/ Todo(m)' \subseteq Todo(m)
         \/ \E new : /\ new = Len(log) + 1 /\ Todo(m)' \subseteq {new}
                     /\ \/ Publish(m)
                        \/ \E w \in Workers, e \in Todo(m) :
                             e \in EntryIds /\ Requeue(w, e) /\ handler'[w][e] = "xack"
<1>1. CASE \E k \in Msgs : Publish(k)
  <2>1. PICK k \in Msgs : Publish(k)
    BY <1>1
  <2>2. XAdd(k, 0) /\ UNCHANGED <<lastDelivered, pel, handler>>
    BY <2>1 DEF Publish, workerVars
  <2>3. 0 \in 0..MaxRetries
    BY DeliveryAssumption DEF DeliveryAssumption
  <2>4. PICK new : new = Len(log) + 1
    OBVIOUS
  <2>5. /\ Todo(k)' \subseteq Todo(k) \union {new}
        /\ \A j \in Msgs : j # k => Todo(j)' \subseteq Todo(j)
    BY <2>2, <2>3, <2>4, XAddWork
  <2>6. Todo(k) = {}
    BY <2>1 DEF Publish, Todo
  <2> QED
    BY <2>1, <2>4, <2>5, <2>6
<1>2. CASE \E w \in Workers, e \in EntryIds : HandlerStep(w, e)
  <2>1. PICK w \in Workers, e \in EntryIds : HandlerStep(w, e)
    BY <1>2
  <2>2. CASE ~Requeue(w, e)
    BY <2>1, <2>2, HandlerStepWork
  <2>3. CASE Requeue(w, e)
    <3>1. /\ Msg(e) \in Msgs /\ e \in Todo(Msg(e))
          /\ handler'[w][e] = "xack" /\ e \notin Todo(m)'
      BY <2>3, RequeueWork
    <3>2. PICK new :
            /\ new = Len(log) + 1
            /\ \/ Todo(m)' \subseteq Todo(m)
               \/ m = Msg(e) /\ Todo(m)' \subseteq Todo(m) \union {new}
      BY <2>3, RequeueWork
    <3>3. m = Msg(e) => Todo(m) = {e}
      BY <3>1, OneUnfinished
    <3> QED
      BY <2>3, <3>1, <3>2, <3>3
  <2> QED
    BY <2>2, <2>3
<1>3. CASE \E w \in Workers : LoopStep(w)
  BY <1>3, LoopStepWork
<1>4. CASE \/ \E k \in Msgs : ClaimLapses(k) \/ MarkerLapses(k)
           \/ \E e \in EntryIds : GoStale(e)
           \/ \E w \in Workers : RequestShutdown(w)
           \/ UNCHANGED vars
  <2>1. UNCHANGED <<log, pel, present, lastDelivered, handler>>
    BY <1>4 DEF ClaimLapses, MarkerLapses, GoStale, RequestShutdown, vars, redisVars, workerVars
  <2> QED
    BY <2>1 DEF Todo, Unfinished, Msg
<1>5. CASE (\E k \in Msgs : PublishAgain(k)) \/ (\E w \in Workers : Crash(w))
  BY <1>5 DEF PublishAgain, Crash, Fault
<1> QED
  BY <1>1, <1>2, <1>3, <1>4, <1>5 DEF Next

\* Where a handler goes when nothing fails.
LEMMA FaultFreeHandlers ==
  ASSUME TypeOK, ReadInOrder, OneHandler, [Next]_vars, faults' = faults,
         NEW v \in Workers, NEW f \in EntryIds
  PROVE  \/ handler'[v][f] = handler[v][f]
         \/ handler[v][f] = "idle" /\ handler'[v][f] = "begin"
         \/ HandlerStep(v, f)
<1>0. faults # faults + 1
  BY DeliveryAssumption DEF TypeOK, DeliveryAssumption
<1>1. CASE \E w \in Workers, e \in EntryIds : HandlerStep(w, e)
  <2>1. PICK w \in Workers, e \in EntryIds : HandlerStep(w, e)
    BY <1>1
  <2>2. \E q : handler' = [handler EXCEPT ![w][e] = q]
    BY <2>1, HandlerStepEffect
  <2>3. ~(v = w /\ f = e) => handler'[v][f] = handler[v][f]
    BY <2>2 DEF TypeOK
  <2> QED
    BY <2>1, <2>3
<1>2. CASE \E w \in Workers : LoopStep(w)
  <2>1. PICK w \in Workers : LoopStep(w)
    BY <1>2
  <2>2. ASSUME NEW batch, Begins(w, batch), NoHandler(w)
        PROVE  \/ handler'[v][f] = handler[v][f]
               \/ handler[v][f] = "idle" /\ handler'[v][f] = "begin"
    <3>1. handler'[v][f] = IF v # w THEN handler[v][f]
                           ELSE IF f \in batch THEN "begin" ELSE "idle"
      BY <2>2 DEF Begins, TypeOK
    <3> QED
      BY <2>2, <3>1 DEF NoHandler
  <2>3. \/ UNCHANGED handler
        \/ NoHandler(w) /\ \E batch : Begins(w, batch)
    BY <2>1 DEF LoopStep, Start, Sweep, ReadNew, EndBatch, Stop, OneHandler
  <2> QED
    BY <2>2, <2>3
<1>3. CASE ~(\E w \in Workers, e \in EntryIds : HandlerStep(w, e)) /\ ~(\E w \in Workers : LoopStep(w))
  <2>1. UNCHANGED handler
    BY <1>0, <1>3 DEF Next, Publish, PublishAgain, ClaimLapses, MarkerLapses, GoStale,
                      RequestShutdown, Crash, Fault, vars, workerVars
  <2> QED
    BY <2>1
<1> QED
  BY <1>1, <1>2, <1>3

\* When nothing fails, the answer to a command arrives.
LEMMA AnswerArrives ==
  ASSUME TypeOK, NEW w \in Workers, NEW e \in EntryIds, NEW pc,
         Answered(w, e, pc), faults' = faults
  PROVE  handler' = [handler EXCEPT ![w][e] = pc] /\ handler'[w][e] = pc
<1>1. faults' # faults + 1
  BY DeliveryAssumption DEF TypeOK, DeliveryAssumption
<1>2. handler' = [handler EXCEPT ![w][e] = pc]
  BY <1>1 DEF Answered, Fault, Goes
<1> QED
  BY <1>2 DEF TypeOK

\* A sender whose POST landed goes on to record it and to its ack.
LEMMA SenderMoves ==
  ASSUME TypeOK, NEW w \in Workers, NEW e \in EntryIds, HandlerStep(w, e),
         faults' = faults, handler[w][e] \in {"landed", "complete"}
  PROVE  handler'[w][e] \in {"complete", "xack"}
<1>1. faults' # faults + 1
  BY DeliveryAssumption DEF TypeOK, DeliveryAssumption
<1>2. Confirm(w, e) \/ Complete(w, e)
  BY <1>1 DEF HandlerStep, WinClaim, LoseClaim, ReadClaim, Land, Reject, NoDownstream, LoseAnswer,
              DeadLetter, Abandon, Requeue, XAck, XDel, Refused, Fault
<1>3. CASE Confirm(w, e)
  BY <1>3 DEF Confirm, Goes, TypeOK
<1>4. CASE Complete(w, e)
  BY <1>4, AnswerArrives DEF Complete
<1> QED
  BY <1>2, <1>3, <1>4

-----------------------------------------------------------------------------
(* No duplicate without a fault *)

\* While nothing has failed, the only unfinished entry of an event that the
\* downstream has is the one whose handler is about to record it.
SentOnce ==
  faults = 0 => \A m \in received :
    /\ \E e \in 1..Len(log) : Msg(e) = m
    /\ \A e \in Todo(m) : \E w \in Workers : handler[w][e] \in {"landed", "complete"}

LEMMA SentOnceInductive ==
  ASSUME TypeOK, ReadInOrder, OneHandler, Bounded, SentOnce, [Next]_vars
  PROVE  SentOnce'
<1> SUFFICES ASSUME faults' = 0, NEW m \in received'
             PROVE  /\ (\E e \in 1..Len(log) : Msg(e) = m)'
                    /\ \A e \in Todo(m)' :
                         \E w \in Workers : handler'[w][e] \in {"landed", "complete"}
  BY DEF SentOnce
<1>1. /\ faults = 0 /\ Len(log) \in Nat /\ Len(log') \in Nat /\ Len(log) <= Len(log')
      /\ \A i \in 1..Len(log) : log'[i] = log[i]
  <2>1. faults \in Nat /\ faults' \in {faults, faults + 1}
    BY LogGrows
  <2> QED
    BY <2>1, LogGrows
<1>2. \A f \in 1..Len(log) : f \in EntryIds
  BY DeliveryAssumption DEF TypeOK, EntryIds, DeliveryAssumption
<1>3. ASSUME NEW f \in 1..Len(log), Msg(f) = m
      PROVE  (\E e \in 1..Len(log) : Msg(e) = m)'
  <2>1. f \in 1..Len(log') /\ log'[f].msg = m
    BY <1>1, <1>3 DEF Msg
  <2> QED
    BY <2>1 DEF Msg
\* The event was there before: nobody adds an entry of it, and its sender
\* stays or comes to the ack.
<1>4. CASE m \in received
  <2>1. m \in Msgs
    BY <1>4 DEF TypeOK
  <2>2. PICK f \in 1..Len(log) : Msg(f) = m
    BY <1>1, <1>4 DEF SentOnce
  <2>3. ASSUME NEW e \in Todo(m)
        PROVE  /\ e \in EntryIds
               /\ \E w \in Workers : handler[w][e] \in {"landed", "complete"}
    BY <1>1, <1>2, <1>4, <2>3 DEF SentOnce, Todo
  <2>4. ~Publish(m)
    BY <2>2 DEF Publish
  <2>5. ASSUME NEW w \in Workers, NEW e \in Todo(m), e \in EntryIds
        PROVE  ~Requeue(w, e)
    <3>1. PICK v \in Workers : handler[v][e] \in {"landed", "complete"}
      BY <2>3, <2>5
    <3>2. Requeue(w, e) => handler[w][e] = "requeue"
      BY DEF Requeue
    <3> QED
      BY <2>5, <3>1, <3>2 DEF OneHandler
  <2>6. Todo(m)' \subseteq Todo(m)
    BY <1>1, <2>1, <2>4, <2>5, FaultFreeWork
  <2>7. ASSUME NEW e \in Todo(m)'
        PROVE  \E w \in Workers : handler'[w][e] \in {"landed", "complete"}
    <3>1. e \in Todo(m)
      BY <2>6, <2>7
    <3>2. PICK w \in Workers : handler[w][e] \in {"landed", "complete"}
      BY <2>3, <3>1
    <3>3. e \in EntryIds
      BY <2>3, <3>1
    <3>4. handler'[w][e] # "xack"
      BY <2>7 DEF Todo, Unfinished
    <3>5. faults' = faults
      BY <1>1
    <3>6. CASE HandlerStep(w, e)
      BY <3>2, <3>3, <3>4, <3>5, <3>6, SenderMoves
    <3>7. CASE ~HandlerStep(w, e)
      BY <3>2, <3>3, <3>5, <3>7, FaultFreeHandlers
    <3> QED
      BY <3>6, <3>7
  <2> QED
    BY <1>3, <2>2, <2>7
\* It landed in this step, from the one unfinished entry it has.
<1>5. CASE m \notin received
  <2>1. PICK w \in Workers, e \in EntryIds : Land(w, e)
    BY <1>5 DEF Next, Publish, PublishAgain, ClaimLapses, MarkerLapses, GoStale, HandlerStep,
                WinClaim, LoseClaim, ReadClaim, Reject, NoDownstream, Confirm, LoseAnswer,
                Complete, DeadLetter, Abandon, Requeue, XAck, XDel, Refused,
                LoopStep, Start, Sweep, ReadNew, EndBatch, Stop, RequestShutdown, Crash, vars
  <2>2. /\ handler[w][e] = "post" /\ received' = received \union {Msg(e)}
        /\ handler' = [handler EXCEPT ![w][e] = "landed"] /\ UNCHANGED log
    BY <2>1 DEF Land, Goes, redisVars
  <2>3. m = Msg(e) /\ handler'[w][e] = "landed"
    BY <1>5, <2>2 DEF TypeOK
  <2>4. e \in 1..Len(log) /\ m \in Msgs /\ e \in Todo(m)
    BY <2>2, <2>3, HandlerIsUnfinished
  <2>5. Todo(m)' \subseteq Todo(m)
    <3>1. HandlerStep(w, e) /\ ~Requeue(w, e)
      BY <2>1, <2>2 DEF HandlerStep, Requeue
    <3>2. faults' # faults + 1
      BY <1>1
    <3> QED
      BY <2>4, <3>1, <3>2, HandlerStepWork
  <2>6. ASSUME NEW f \in Todo(m)'
        PROVE  f = e
    BY <1>1, <2>4, <2>5, <2>6, OneUnfinished
  <2> QED
    BY <1>3, <2>3, <2>4, <2>6
<1> QED
  BY <1>4, <1>5

\* Who sends without a fault has the only unfinished entry, so it is not there yet.
LEMMA SecondNeedsFault ==
  ASSUME TypeOK, ReadInOrder, OneHandler, SentOnce, NEW w \in Workers, NEW e \in EntryIds,
         Lands(w, e), Msg(e) \in received
  PROVE  faults > 0
<1> SUFFICES ASSUME ~(faults > 0) PROVE FALSE
  OBVIOUS
<1>1. faults = 0
  BY DeliveryAssumption DEF TypeOK, DeliveryAssumption
<1>2. handler[w][e] = "post"
  BY DEF Lands
<1>3. e \in Todo(Msg(e))
  BY <1>2, HandlerIsUnfinished
<1>4. \E v \in Workers : handler[v][e] \in {"landed", "complete"}
  BY <1>1, <1>3 DEF SentOnce
<1> QED
  BY <1>2, <1>4 DEF OneHandler

\* Without a fault, only what is still with its sender has been received.
LEMMA SentOnceUnhurried ==
  UnhurriedSpec => DuplicateNeedsFault
<1> DEFINE Inv == TypeOK /\ ReadInOrder /\ OneHandler /\ Bounded /\ SentOnce
<1>1. Init => Inv
  <2> SUFFICES ASSUME Init PROVE Inv
    OBVIOUS
  <2>1. TypeOK /\ ReadInOrder
    BY TypesInductive
  <2>2. OneHandler /\ Bounded
    BY InitBounded
  <2>3. SentOnce
    BY DEF Init, SentOnce
  <2> QED
    BY <2>1, <2>2, <2>3
<1>2. Inv /\ [UnhurriedNext]_vars => Inv'
  BY InTimeSteps, TypesInductive, OneHandlerInductive, BoundedInductive, SentOnceInductive
<1>3. Inv => [\A w \in Workers, e \in EntryIds :
                Lands(w, e) /\ Msg(e) \in received => faults > 0]_vars
  BY SecondNeedsFault
<1> QED
  BY <1>1, <1>2, <1>3, PTL DEF UnhurriedSpec, DuplicateNeedsFault

\* DUPLICATES HAVE A CAUSE.  With any number of workers, messages and retries,
\* with any stream and any client: if attempts end before their entries can be
\* reclaimed, the downstream is sent an event it already has only after a crash,
\* a failed command or a lost answer (queue.py:15-18).
THEOREM NoDuplicateWithoutFault ==
  ASSUME Timely
  PROVE  Spec => DuplicateNeedsFault
BY SentOnceUnhurried, TimelyIsInTime, InTimeIsUnhurried, PTL

-----------------------------------------------------------------------------
(* There is room for every retry *)

\* Which steps add an entry when nothing fails.
LEMMA FaultFreeAdds ==
  ASSUME TypeOK, [Next]_vars, faults' = faults
  PROVE  \/ UNCHANGED log
         \/ \E m \in Msgs : Publish(m)
         \/ \E w \in Workers, e \in EntryIds : Requeue(w, e)
<1>1. faults' # faults + 1
  BY DeliveryAssumption DEF TypeOK, DeliveryAssumption
<1> QED
  BY <1>1 DEF Next, PublishAgain, ClaimLapses, MarkerLapses, GoStale, HandlerStep,
              WinClaim, LoseClaim, ReadClaim, Land, Reject, NoDownstream, Confirm, LoseAnswer,
              Complete, DeadLetter, Abandon, XAck, XDel, Refused,
              LoopStep, Start, Sweep, ReadNew, EndBatch, Stop, RequestShutdown, Crash,
              Fault, vars, redisVars

\* While nothing has failed, the entries of an event are its attempts: no two
\* have the same retry_count, and the unfinished one is the latest.
Counted ==
  faults = 0 =>
    /\ \A m \in Msgs : \A e \in Todo(m), f \in 1..Len(log) :
         Msg(f) = m => log[f].rc <= log[e].rc
    /\ \A i, j \in 1..Len(log) : log[i] = log[j] => i = j

LEMMA CountedInductive ==
  ASSUME TypeOK, ReadInOrder, OneHandler, Bounded, Counted, [Next]_vars
  PROVE  Counted'
<1> SUFFICES ASSUME faults' = 0
             PROVE  /\ \A m \in Msgs : \A e \in Todo(m)', f \in 1..Len(log') :
                         log'[f].msg = m => log'[f].rc <= log'[e].rc
                    /\ \A i, j \in 1..Len(log') : log'[i] = log'[j] => i = j
  BY DEF Counted, Msg
<1>1. /\ faults = 0 /\ Len(log) \in Nat /\ Len(log') \in Nat /\ Len(log) <= Len(log')
      /\ \A i \in 1..Len(log) : log'[i] = log[i]
  <2>1. faults \in Nat /\ faults' \in {faults, faults + 1}
    BY LogGrows
  <2> QED
    BY <2>1, LogGrows
<1>2. /\ \A m \in Msgs : \A e \in Todo(m), f \in 1..Len(log) :
           log[f].msg = m => log[f].rc <= log[e].rc
      /\ \A i, j \in 1..Len(log) : log[i] = log[j] => i = j
  BY <1>1 DEF Counted, Msg
<1>3. CASE UNCHANGED log
  <2>1. \A m \in Msgs : Todo(m)' \subseteq Todo(m)
    <3>1. Len(log') = Len(log)
      BY <1>3
    <3>2. \A m \in Msgs : ~Publish(m)
      BY <1>1, <3>1 DEF Publish, XAdd
    <3>3. \A w \in Workers, e \in EntryIds : ~Requeue(w, e)
      BY <1>1, <3>1 DEF Requeue, XAdd
    <3> QED
      BY <1>1, <3>2, <3>3, FaultFreeWork
  <2> QED
    BY <1>2, <1>3, <2>1
\* An entry is added: a later attempt at its event than any before.
<1>4. ASSUME NEW k \in Msgs, NEW rc \in 0..MaxRetries, NEW new, new = Len(log) + 1,
             Len(log') = new, log'[new] = [msg |-> k, rc |-> rc],
             \A f \in 1..Len(log) : log[f].msg = k => log[f].rc < rc,
             Todo(k)' \subseteq {new},
             \A m \in Msgs : m # k => Todo(m)' \subseteq Todo(m)
      PROVE  /\ \A m \in Msgs : \A e \in Todo(m)', f \in 1..Len(log') :
                  log'[f].msg = m => log'[f].rc <= log'[e].rc
             /\ \A i, j \in 1..Len(log') : log'[i] = log'[j] => i = j
  <2>1. \A f \in 1..Len(log') : f = new \/ f \in 1..Len(log)
    BY <1>1, <1>4
  <2>2. log'[new].msg = k /\ log'[new].rc = rc /\ rc \in Nat
    BY <1>4
  <2>3. \A f \in 1..Len(log) : log[f].rc \in Nat
    <3>1. \A f \in 1..Len(log) : log[f] \in Entry
      BY DEF TypeOK
    <3> QED
      BY <3>1, DeliveryAssumption DEF Entry, DeliveryAssumption
  <2>4. ASSUME NEW m \in Msgs, NEW e \in Todo(m)', NEW f \in 1..Len(log'),
               log'[f].msg = m
        PROVE  log'[f].rc <= log'[e].rc
    <3>1. CASE m = k
      <4>1. e = new
        BY <1>4, <2>4, <3>1
      <4>2. CASE f = new
        BY <2>2, <4>1, <4>2
      <4>3. CASE f \in 1..Len(log)
        <5>1. log[f].rc < rc
          BY <1>1, <1>4, <2>4, <3>1, <4>3
        <5> QED
          BY <1>1, <2>2, <2>3, <4>1, <4>3, <5>1
      <4> QED
        BY <2>1, <4>2, <4>3
    <3>2. CASE m # k
      <4>1. e \in Todo(m) /\ e \in 1..Len(log)
        BY <1>4, <2>4, <3>2 DEF Todo
      <4>2. f \in 1..Len(log)
        BY <2>1, <2>2, <2>4, <3>2
      <4> QED
        BY <1>1, <1>2, <2>4, <4>1, <4>2
    <3> QED
      BY <3>1, <3>2
  <2>5. ASSUME NEW i \in 1..Len(log), log'[i] = log'[new]
        PROVE  FALSE
    <3>1. log[i].msg = k /\ log[i].rc = rc
      BY <1>1, <2>2, <2>5
    <3>2. log[i].rc < rc
      BY <1>4, <3>1
    <3> QED
      BY <2>2, <3>1, <3>2
  <2>6. ASSUME NEW i \in 1..Len(log'), NEW j \in 1..Len(log'), log'[i] = log'[j]
        PROVE  i = j
    BY <1>1, <1>2, <2>1, <2>5, <2>6
  <2> QED
    BY <2>4, <2>6
<1>5. CASE \E m \in Msgs : Publish(m)
  <2>1. PICK k \in Msgs : Publish(k)
    BY <1>5
  <2>2. XAdd(k, 0) /\ UNCHANGED <<lastDelivered, pel, handler>>
    BY <2>1 DEF Publish, workerVars
  <2>3. 0 \in 0..MaxRetries
    BY DeliveryAssumption DEF DeliveryAssumption
  <2>4. PICK new : new = Len(log) + 1
    OBVIOUS
  <2>5. /\ Todo(k)' \subseteq Todo(k) \union {new}
        /\ \A j \in Msgs : j # k => Todo(j)' \subseteq Todo(j)
        /\ Len(log') = new /\ log'[new] = [msg |-> k, rc |-> 0]
    BY <2>2, <2>3, <2>4, XAddWork, XAddAppends
  <2>6. Todo(k) = {} /\ \A f \in 1..Len(log) : log[f].msg # k
    BY <2>1 DEF Publish, Todo, Msg
  <2>7. Todo(k)' \subseteq {new} /\ \A f \in 1..Len(log) : log[f].msg = k => log[f].rc < 0
    BY <2>5, <2>6
  <2> QED
    BY <1>4, <2>3, <2>4, <2>5, <2>7
<1>6. CASE \E w \in Workers, e \in EntryIds : Requeue(w, e)
  <2>1. PICK w \in Workers, e \in EntryIds : Requeue(w, e)
    BY <1>6
  <2>2. PICK k \in Msgs : k = Msg(e) /\ e \in Todo(k) /\ e \notin Todo(k)' /\ e \in 1..Len(log)
    BY <1>1, <2>1, RequeueWork
  <2>3. PICK new :
          /\ new = Len(log) + 1
          /\ \A j \in Msgs : \/ Todo(j)' \subseteq Todo(j)
                             \/ j = k /\ Todo(j)' \subseteq Todo(j) \union {new}
    BY <2>1, <2>2, RequeueWork
  <2>4. Todo(k) = {e}
    BY <1>1, <2>2, OneUnfinished
  <2>5. Todo(k)' \subseteq {new} /\ \A j \in Msgs : j # k => Todo(j)' \subseteq Todo(j)
    BY <2>2, <2>3, <2>4
  <2>6. /\ XAdd(k, log[e].rc + 1) /\ handler[w][e] = "requeue"
    BY <2>1, <2>2 DEF Requeue
  <2>7. PICK rc : rc = log[e].rc + 1
    OBVIOUS
  <2>8. log[e].rc \in Nat /\ rc \in 0..MaxRetries
    <3>1. log[e].rc < MaxRetries
      BY <2>6 DEF ReadInOrder
    <3>2. log[e] \in Entry
      BY <2>2 DEF TypeOK
    <3>3. log[e].rc \in 0..MaxRetries
      BY <3>2 DEF Entry
    <3> QED
      BY <2>7, <3>1, <3>3, DeliveryAssumption DEF DeliveryAssumption
  <2>9. Len(log') = new /\ log'[new] = [msg |-> k, rc |-> rc]
    <3>1. XAdd(k, rc)
      BY <2>6, <2>7
    <3> QED
      BY <2>3, <2>8, <3>1, XAddAppends
  <2>10. ASSUME NEW f \in 1..Len(log), log[f].msg = k
         PROVE  log[f].rc < rc
    <3>1. log[f].rc <= log[e].rc
      BY <1>2, <2>2, <2>10
    <3>2. log[f] \in Entry
      BY DEF TypeOK
    <3>3. log[f].rc \in Nat
      BY <3>2, DeliveryAssumption DEF Entry, DeliveryAssumption
    <3> QED
      BY <2>7, <2>8, <3>1, <3>3
  <2> QED
    BY <1>4, <2>3, <2>5, <2>8, <2>9, <2>10
<1> QED
  BY <1>1, <1>3, <1>5, <1>6, FaultFreeAdds

\* So a stream that holds every attempt at every event has room for the next.
LEMMA RoomToRequeue ==
  ASSUME TypeOK, ReadInOrder, OneHandler, Counted, faults = 0,
         Cardinality(Msgs) * (MaxRetries + 1) <= MaxEntries,
         NEW w \in Workers, NEW e \in EntryIds, handler[w][e] = "requeue"
  PROVE  Len(log) < MaxEntries
<1>1. e \in 1..Len(log) /\ Msg(e) \in Msgs /\ e \in Todo(Msg(e)) /\ log[e].rc < MaxRetries
  BY HandlerIsUnfinished DEF ReadInOrder
<1>2. Len(log) \in Nat /\ MaxRetries \in Nat /\ IsFiniteSet(Msgs) /\ MaxEntries \in Nat
  BY DeliveryAssumption DEF TypeOK, DeliveryAssumption
<1>3. \A f \in 1..Len(log) : log[f] \in Entry
  BY DEF TypeOK
<1>4. log[e].rc \in 0..MaxRetries
  BY <1>1, <1>3 DEF Entry
<1> DEFINE Attempts == Msgs \X (0..MaxRetries)
           next == <<Msg(e), log[e].rc + 1>>
           attempt == [f \in 1..Len(log) |-> <<log[f].msg, log[f].rc>>]
<1>5. IsFiniteSet(Attempts) /\ Cardinality(Attempts) = Cardinality(Msgs) * (MaxRetries + 1)
  <2>1. IsFiniteSet(0..MaxRetries) /\ Cardinality(0..MaxRetries) = MaxRetries + 1
    BY <1>2, SizeOfRange
  <2> QED
    BY <1>2, <2>1, FS_Product
<1>6. next \in Attempts
  BY <1>1, <1>2, <1>4
<1>7. ASSUME NEW f \in 1..Len(log)
      PROVE  attempt[f] \in Attempts \ {next}
  <2>1. log[f].msg \in Msgs /\ log[f].rc \in 0..MaxRetries
    BY <1>3 DEF Entry
  <2>2. log[f].msg = Msg(e) => log[f].rc <= log[e].rc
    BY <1>1 DEF Counted, Msg
  <2> QED
    BY <1>2, <1>4, <2>1, <2>2
<1>8. ASSUME NEW i \in 1..Len(log), NEW j \in 1..Len(log), attempt[i] = attempt[j]
      PROVE  i = j
  <2>1. log[i].msg = log[j].msg /\ log[i].rc = log[j].rc
    BY <1>8
  <2>2. log[i] \in Entry /\ log[j] \in Entry
    BY <1>3
  <2>3. log[i] = log[j]
    BY <2>1, <2>2 DEF Entry
  <2> QED
    BY <2>3 DEF Counted
<1>9. attempt \in Injection(1..Len(log), Attempts \ {next})
  <2>1. attempt \in [1..Len(log) -> Attempts \ {next}]
    BY <1>7
  <2> QED
    BY <1>8, <2>1 DEF Injection, IsInjective
<1>10. /\ IsFiniteSet(Attempts \ {next})
       /\ Cardinality(Attempts \ {next}) = Cardinality(Attempts) - 1
  BY <1>5, <1>6, FS_RemoveElement
<1>11. Cardinality(1..Len(log)) <= Cardinality(Attempts \ {next})
  BY <1>9, <1>10, FS_Injection
<1>12. Cardinality(1..Len(log)) = Len(log)
  BY <1>2, SizeOfRange
<1>13. Cardinality(Attempts) \in Nat
  BY <1>5, FS_CardinalityType
<1> HIDE DEF Attempts, next, attempt
<1> QED
  BY <1>2, <1>5, <1>10, <1>11, <1>12, <1>13

-----------------------------------------------------------------------------
(* Nothing is left pending without a fault *)

\* While nothing has failed, a claim in flight has its holder, a message marked
\* as delivered has nothing left to do, no handler finds its claim taken, and
\* every pending entry is on its way to the ack.
Attended ==
  faults = 0 =>
    /\ \A m \in Msgs : claim[m] = "inflight" => Held(m)
    /\ \A m \in Msgs : claim[m] = "done" =>
         Todo(m) = {} /\ \E e \in 1..Len(log) : Msg(e) = m
    /\ \A w \in Workers, e \in EntryIds : handler[w][e] # "get"
    /\ \A e \in pel : \E w \in Workers : handler[w][e] \notin {"idle", "xdel"}

\* A step of a handler when nothing fails and the stream has room: an attempt
\* ends with its claim marked or given back, and a handler returns only once
\* its entry is acked.
LEMMA FaultFreeHandlerStep ==
  ASSUME TypeOK, ReadInOrder, NEW w \in Workers, NEW e \in EntryIds, HandlerStep(w, e),
         faults' = faults, handler[w][e] # "get",
         handler[w][e] = "requeue" => Len(log) < MaxEntries
  PROVE  /\ handler'[w][e] = "get" => handler[w][e] = "begin" /\ claim[Msg(e)] # "none"
         /\ handler[w][e] # "xdel" /\ handler'[w][e] \in {"idle", "xdel"} => e \notin pel'
         /\ Holds(w, e) => \/ handler'[w][e] \in HolderPC
                           \/ e \in 1..Len(log) /\ claim'[Msg(e)] # "inflight"
         /\ \/ UNCHANGED claim
            \/ \E c \in {"none", "inflight", "done"} :
                 /\ claim' = [claim EXCEPT ![Msg(e)] = c]
                 /\ c = "inflight" => handler'[w][e] \in HolderPC
                 /\ c = "done" => handler[w][e] = "complete" /\ handler'[w][e] = "xack"
<1>0. faults' # faults + 1
  BY DeliveryAssumption DEF TypeOK, DeliveryAssumption
<1>1. ASSUME NEW pc, Goes(w, e, pc)
      PROVE  handler'[w][e] = pc
  BY <1>1 DEF Goes, TypeOK
<1>2. ASSUME NEW pc, Answered(w, e, pc)
      PROVE  handler'[w][e] = pc
  BY <1>2, AnswerArrives
<1>3. handler[w][e] # "idle" => e \in 1..Len(log) /\ Msg(e) \in Msgs
  <2>1. ASSUME handler[w][e] # "idle" PROVE e \in 1..Len(log)
    <3>1. e <= lastDelivered /\ lastDelivered <= Len(log)
      BY <2>1 DEF ReadInOrder
    <3> QED
      BY <3>1, DeliveryAssumption DEF TypeOK, EntryIds, DeliveryAssumption
  <2> QED
    BY <2>1, EntryHasMsg
<1>4. CASE WinClaim(w, e)
  BY <1>2, <1>4 DEF WinClaim, HolderPC, Holds
<1>5. CASE LoseClaim(w, e)
  BY <1>2, <1>5 DEF LoseClaim, HolderPC, Holds, redisVars
<1>6. CASE Land(w, e) \/ Reject(w, e) \/ NoDownstream(w, e) \/ Confirm(w, e)
  BY <1>1, <1>6 DEF Land, Reject, NoDownstream, Confirm, AfterFailure, HolderPC, redisVars
<1>7. CASE Complete(w, e)
  <2>1. handler[w][e] = "complete" /\ handler'[w][e] = "xack"
    BY <1>2, <1>7 DEF Complete
  <2>2. claim' = [claim EXCEPT ![Msg(e)] = "done"]
    BY <1>7 DEF Complete
  <2>3. e \in 1..Len(log) /\ claim'[Msg(e)] = "done"
    BY <1>3, <2>1, <2>2 DEF TypeOK
  <2> QED
    BY <2>1, <2>2, <2>3
<1>8. CASE DeadLetter(w, e)
  BY <1>2, <1>8 DEF DeadLetter, HolderPC
<1>9. CASE Abandon(w, e)
  <2>1. handler[w][e] \in {"dl_abandon", "backoff"} /\ handler'[w][e] \in {"requeue", "xack"}
    BY <1>2, <1>9 DEF Abandon
  <2>2. claim' = [claim EXCEPT ![Msg(e)] = "none"]
    BY <1>9 DEF Abandon
  <2>3. e \in 1..Len(log) /\ claim'[Msg(e)] = "none"
    BY <1>3, <2>1, <2>2 DEF TypeOK
  <2> QED
    BY <2>1, <2>2, <2>3
<1>10. CASE Requeue(w, e)
  BY <1>2, <1>10 DEF Requeue, HolderPC, Holds
<1>11. CASE XAck(w, e) \/ XDel(w, e)
  BY <1>2, <1>11 DEF XAck, XDel, HolderPC, Holds
<1>12. ~ReadClaim(w, e) /\ ~LoseAnswer(w, e)
  BY <1>0 DEF ReadClaim, LoseAnswer, Fault
<1>13. ~Refused(w, e)
  <2>1. ASSUME Refused(w, e) PROVE FALSE
    <3>1. handler[w][e] = "requeue" /\ Len(log) = MaxEntries
      BY <1>0, <2>1 DEF Refused, Fault
    <3>2. Len(log) \in Nat
      BY DEF TypeOK
    <3> QED
      BY <3>1, <3>2, DeliveryAssumption DEF DeliveryAssumption
  <2> QED
    BY <2>1
<1> QED
  BY <1>4, <1>5, <1>6, <1>7, <1>8, <1>9, <1>10, <1>11, <1>12, <1>13 DEF HandlerStep

\* Who changes a claim when nothing fails.
LEMMA FaultFreeClaims ==
  ASSUME TypeOK, [Next]_vars, faults' = faults, NEW m \in Msgs,
         claim'[m] # claim[m]
  PROVE  \/ \E w \in Workers, e \in EntryIds : HandlerStep(w, e)
         \/ claim'[m] = "none"
<1>1. CASE \E k \in Msgs : ClaimLapses(k) \/ MarkerLapses(k)
  <2>1. PICK k \in Msgs : claim' = [claim EXCEPT ![k] = "none"]
    BY <1>1 DEF ClaimLapses, MarkerLapses
  <2> QED
    BY <2>1 DEF TypeOK
<1>2. CASE ~(\E k \in Msgs : ClaimLapses(k) \/ MarkerLapses(k))
  BY <1>2 DEF Next, Publish, PublishAgain, GoStale, LoopStep, Start, Sweep, ReadNew, EndBatch,
              Stop, RequestShutdown, Crash, vars, redisVars
<1> QED
  BY <1>1, <1>2

LEMMA AttendedInductive ==
  ASSUME TypeOK, ReadInOrder, OneHandler, Bounded, Attended, [Next]_vars,
         faults = 0 => \A w \in Workers, e \in EntryIds :
                         handler[w][e] = "requeue" => Len(log) < MaxEntries
  PROVE  Attended'
<1> SUFFICES ASSUME faults' = 0
             PROVE  /\ \A m \in Msgs : claim'[m] = "inflight" => Held(m)'
                    /\ \A m \in Msgs : claim'[m] = "done" =>
                         Todo(m)' = {} /\ (\E e \in 1..Len(log) : Msg(e) = m)'
                    /\ \A w \in Workers, e \in EntryIds : handler'[w][e] # "get"
                    /\ \A e \in pel' : \E w \in Workers : handler'[w][e] \notin {"idle", "xdel"}
  BY DEF Attended
<1>1. /\ faults = 0 /\ Len(log) \in Nat /\ Len(log') \in Nat /\ Len(log) <= Len(log')
      /\ \A i \in 1..Len(log) : log'[i] = log[i]
  <2>1. faults \in Nat /\ faults' \in {faults, faults + 1}
    BY LogGrows
  <2> QED
    BY <2>1, LogGrows
<1>2. /\ \A m \in Msgs : claim[m] = "inflight" => Held(m)
      /\ \A m \in Msgs : claim[m] = "done" =>
           Todo(m) = {} /\ \E e \in 1..Len(log) : Msg(e) = m
      /\ \A w \in Workers, e \in EntryIds : handler[w][e] # "get"
      /\ \A e \in pel : \E w \in Workers : handler[w][e] \notin {"idle", "xdel"}
  BY <1>1 DEF Attended
<1>3. \A f \in 1..Len(log) : f \in EntryIds
  BY DeliveryAssumption DEF TypeOK, EntryIds, DeliveryAssumption
<1>4. \A f \in 1..Len(log) : f \in 1..Len(log') /\ Msg(f)' = Msg(f)
  BY <1>1 DEF Msg
<1>5. ASSUME NEW w \in Workers, NEW e \in EntryIds, HandlerStep(w, e)
      PROVE  /\ handler'[w][e] = "get" => handler[w][e] = "begin" /\ claim[Msg(e)] # "none"
             /\ handler[w][e] # "xdel" /\ handler'[w][e] \in {"idle", "xdel"} => e \notin pel'
             /\ Holds(w, e) => \/ handler'[w][e] \in HolderPC
                               \/ e \in 1..Len(log) /\ claim'[Msg(e)] # "inflight"
             /\ \/ UNCHANGED claim
                \/ \E c \in {"none", "inflight", "done"} :
                     /\ claim' = [claim EXCEPT ![Msg(e)] = c]
                     /\ c = "inflight" => handler'[w][e] \in HolderPC
                     /\ c = "done" => handler[w][e] = "complete" /\ handler'[w][e] = "xack"
  BY <1>1, <1>2, <1>5, FaultFreeHandlerStep
\* Where the others go.
<1>6. ASSUME NEW w \in Workers, NEW e \in EntryIds
      PROVE  \/ handler'[w][e] = handler[w][e]
             \/ handler[w][e] = "idle" /\ handler'[w][e] = "begin"
             \/ HandlerStep(w, e)
  BY <1>1, FaultFreeHandlers
\* A handler at its claim finds it free: the one unfinished entry is its own.
<1>7. ASSUME NEW w \in Workers, NEW e \in EntryIds
      PROVE  handler'[w][e] # "get"
  <2>1. CASE HandlerStep(w, e) /\ handler[w][e] = "begin"
    <3>1. e \in 1..Len(log) /\ Msg(e) \in Msgs /\ e \in Todo(Msg(e))
      BY <2>1, HandlerIsUnfinished
    <3>2. claim[Msg(e)] # "done"
      BY <1>2, <3>1
    <3>3. claim[Msg(e)] # "inflight"
      <4>1. ASSUME NEW v \in Workers, NEW f \in 1..Len(log), Holds(v, f), Msg(f) = Msg(e)
            PROVE  FALSE
        <5>1. f \in EntryIds /\ handler[v][f] \notin {"idle", "xack", "xdel"}
          BY <1>3, <4>1 DEF Holds, HolderPC
        <5>2. f \in Todo(Msg(e))
          BY <4>1, <5>1, HandlerIsUnfinished
        <5>3. f = e
          BY <1>1, <3>1, <5>2, OneUnfinished
        <5> QED
          BY <2>1, <4>1, <5>1, <5>3 DEF OneHandler, Holds, HolderPC
      <4> QED
        BY <1>2, <3>1, <4>1 DEF Held
    <3>4. claim[Msg(e)] = "none"
      BY <3>1, <3>2, <3>3 DEF TypeOK
    <3> QED
      BY <1>5, <2>1, <3>4
  <2> QED
    BY <1>2, <1>5, <1>6, <2>1
\* A pending entry keeps its handler until it is acked.
<1>8. ASSUME NEW e \in pel'
      PROVE  \E w \in Workers : handler'[w][e] \notin {"idle", "xdel"}
  <2>1. CASE e \in pel
    <3>1. PICK w \in Workers : handler[w][e] \notin {"idle", "xdel"}
      BY <1>2, <2>1
    <3>2. e \in EntryIds
      BY <2>1 DEF TypeOK
    <3> QED
      BY <1>5, <1>6, <1>8, <3>1, <3>2
  <2>2. CASE e \notin pel
    <3>1. PICK w \in Workers : ReadNew(w)
      <4>1. ~\E v \in Workers, f \in EntryIds : HandlerStep(v, f)
        BY <1>8, <2>2, HandlerStepEffect
      <4> QED
        BY <1>8, <2>2, <4>1 DEF Next, Publish, PublishAgain, ClaimLapses, MarkerLapses, GoStale,
           LoopStep, Start, Sweep, EndBatch, Stop, RequestShutdown, Crash, vars, redisVars
    <3>2. PICK taken \in SUBSET present :
            /\ pel' = pel \union taken
            /\ Begins(w, taken) \/ faults' = faults + 1
      BY <3>1, ReadTakes
    <3>3. e \in taken /\ e \in EntryIds /\ Begins(w, taken)
      BY <1>1, <1>8, <2>2, <3>2 DEF TypeOK
    <3>4. handler'[w][e] = "begin"
      BY <3>3 DEF Begins, TypeOK
    <3> QED
      BY <3>4
  <2> QED
    BY <2>1, <2>2
\* Whose claim is in flight is in its attempt.
<1>9. ASSUME NEW m \in Msgs, claim'[m] = "inflight"
      PROVE  Held(m)'
  <2>1. ASSUME NEW w \in Workers, NEW e \in 1..Len(log), Msg(e) = m,
               handler'[w][e] \in HolderPC
        PROVE  Held(m)'
    <3>1. e \in 1..Len(log') /\ Msg(e)' = m /\ Holds(w, e)'
      BY <1>4, <2>1 DEF Holds
    <3> QED
      BY <3>1 DEF Held
  <2>2. CASE claim[m] = "inflight"
    <3>1. PICK w \in Workers, e \in 1..Len(log) : Holds(w, e) /\ Msg(e) = m
      BY <1>2, <2>2 DEF Held
    <3>2. handler'[w][e] \in HolderPC
      BY <1>3, <1>5, <1>6, <1>9, <3>1 DEF Holds, HolderPC
    <3> QED
      BY <2>1, <3>1, <3>2
  <2>3. CASE claim[m] # "inflight"
    <3>1. PICK w \in Workers, e \in EntryIds : HandlerStep(w, e)
      BY <1>1, <1>9, <2>3, FaultFreeClaims
    <3>2. PICK c \in {"none", "inflight", "done"} :
            /\ claim' = [claim EXCEPT ![Msg(e)] = c]
            /\ c = "inflight" => handler'[w][e] \in HolderPC
      BY <1>5, <1>9, <2>3, <3>1
    <3>3. Msg(e) = m /\ c = "inflight"
      BY <1>9, <2>3, <3>2 DEF TypeOK
    <3>4. e \in 1..Len(log)
      <4>1. handler[w][e] # "idle"
        BY <3>1, HandlerStepEffect
      <4>2. e <= lastDelivered /\ lastDelivered <= Len(log)
        BY <4>1 DEF ReadInOrder
      <4> QED
        BY <4>2, DeliveryAssumption DEF TypeOK, EntryIds, DeliveryAssumption
    <3> QED
      BY <2>1, <3>2, <3>3, <3>4
  <2> QED
    BY <2>2, <2>3
\* What is marked as delivered stays finished.
<1>10. ASSUME NEW m \in Msgs, claim'[m] = "done"
       PROVE  Todo(m)' = {} /\ (\E e \in 1..Len(log) : Msg(e) = m)'
  <2>1. ASSUME NEW e \in 1..Len(log), Msg(e) = m
        PROVE  (\E f \in 1..Len(log) : Msg(f) = m)'
    BY <1>4, <2>1
  <2>2. CASE claim[m] = "done"
    <3>1. Todo(m) = {} /\ \E e \in 1..Len(log) : Msg(e) = m
      BY <1>2, <2>2
    <3>2. ~Publish(m)
      BY <3>1 DEF Publish
    <3>3. Todo(m)' \subseteq Todo(m)
      BY <1>1, <3>1, <3>2, FaultFreeWork
    <3> QED
      BY <2>1, <3>1, <3>3
  <2>3. CASE claim[m] # "done"
    <3>1. PICK w \in Workers, e \in EntryIds : HandlerStep(w, e)
      BY <1>1, <1>10, <2>3, FaultFreeClaims
    <3>2. PICK c \in {"none", "inflight", "done"} :
            /\ claim' = [claim EXCEPT ![Msg(e)] = c]
            /\ c = "done" => handler[w][e] = "complete" /\ handler'[w][e] = "xack"
      BY <1>5, <1>10, <2>3, <3>1
    <3>3. Msg(e) = m /\ c = "done"
      BY <1>10, <2>3, <3>2 DEF TypeOK
    <3>4. e \in 1..Len(log) /\ e \in Todo(m)
      BY <3>2, <3>3, HandlerIsUnfinished
    <3>5. ~Requeue(w, e)
      BY <3>2, <3>3 DEF Requeue
    <3>6. Todo(m)' \subseteq Todo(m)
      <4>1. faults' # faults + 1
        BY <1>1
      <4> QED
        BY <3>1, <3>5, <4>1, HandlerStepWork
    <3>7. e \notin Todo(m)'
      BY <3>2, <3>3 DEF Todo, Unfinished
    <3>8. \A f \in Todo(m) : f = e
      BY <1>1, <3>4, OneUnfinished
    <3> QED
      BY <2>1, <3>3, <3>4, <3>6, <3>7, <3>8
  <2> QED
    BY <2>2, <2>3
<1> QED
  BY <1>7, <1>8, <1>9, <1>10

\* Who is running when something is pending has not left its loop.
LEMMA AttendedDrains ==
  ASSUME TypeOK, OneHandler, Attended
  PROVE  ShutdownDrains
<1> SUFFICES ASSUME faults = 0, \A w \in Workers : ~Running(w), NEW e \in pel
             PROVE  FALSE
  BY DEF ShutdownDrains
<1>1. e \in EntryIds
  BY DEF TypeOK
<1>2. PICK w \in Workers : handler[w][e] # "idle"
  BY DEF Attended
<1>3. phase[w] \in {"reclaimed", "fresh"}
  BY <1>1, <1>2 DEF OneHandler, NoHandler, TypeOK
<1> QED
  BY <1>3 DEF Running

\* Whatever keeps reclaims away from running handlers.
LEMMA DrainsUnhurried ==
  ASSUME Cardinality(Msgs) * (MaxRetries + 1) <= MaxEntries
  PROVE  UnhurriedSpec => []ShutdownDrains
<1> DEFINE Inv == TypeOK /\ ReadInOrder /\ OneHandler /\ Bounded /\ Counted /\ Attended
<1>1. Init => Inv
  <2> SUFFICES ASSUME Init PROVE Inv
    OBVIOUS
  <2>1. TypeOK /\ ReadInOrder
    BY TypesInductive
  <2>2. OneHandler /\ Bounded
    BY InitBounded
  <2>3. 1..Len(log) = {} /\ \A m \in Msgs : Todo(m) = {} /\ claim[m] = "none"
    BY DEF Init, Todo
  <2>4. Counted /\ Attended
    BY <2>3 DEF Init, Counted, Attended
  <2> QED
    BY <2>1, <2>2, <2>4
<1>2. Inv /\ [UnhurriedNext]_vars => Inv'
  <2> SUFFICES ASSUME Inv, [UnhurriedNext]_vars PROVE Inv'
    OBVIOUS
  <2>1. faults = 0 => \A w \in Workers, e \in EntryIds :
                        handler[w][e] = "requeue" => Len(log) < MaxEntries
    BY RoomToRequeue
  <2> QED
    BY <2>1, InTimeSteps, TypesInductive, OneHandlerInductive, BoundedInductive, CountedInductive,
       AttendedInductive
<1>3. Inv => ShutdownDrains
  BY AttendedDrains
<1> QED
  BY <1>1, <1>2, <1>3, PTL DEF UnhurriedSpec

\* A SHUTDOWN FINISHES THE BATCH.  In a stream with room for every attempt at
\* every event: when attempts end before their entries can be reclaimed and
\* nothing has failed, workers that have all left their loop leave nothing
\* pending (worker.py:307-308).
THEOREM ShutdownLeavesNothingPending ==
  ASSUME Timely, Cardinality(Msgs) * (MaxRetries + 1) <= MaxEntries
  PROVE  Spec => []ShutdownDrains
BY DrainsUnhurried, TimelyIsInTime, InTimeIsUnhurried, PTL
=============================================================================
