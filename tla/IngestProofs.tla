---------------------------- MODULE IngestProofs ----------------------------
(***************************************************************************)
(* Proofs about Ingest: type correctness, one stream entry per message id, *)
(* what a 200 covers, and no loss without a fault.                         *)
(***************************************************************************)
EXTENDS Ingest, SequenceTheorems, FiniteSetTheorems, TLAPS

-----------------------------------------------------------------------------
(* What one request's step does to the requests *)

\* A request's step moves that request only.
LEMMA OthersStay ==
  ASSUME TypeOK, NEW d \in Deliveries, NEW c \in Requests,
         Receive(d, c) \/ Step(d, c),
         NEW d2 \in Deliveries, NEW c2 \in Requests, <<d2, c2>> # <<d, c>>
  PROVE  pc'[d2][c2] = pc[d2][c2] /\ at'[d2][c2] = at[d2][c2]
BY DEF TypeOK, Receive, Step, Claim, DropDuplicate, Enqueue, Refused, Answer,
       Goes, Advances, ReplyLost

\* It goes on within its payload, from the first event.
LEMMA RequestMoves ==
  ASSUME TypeOK, NEW d \in Deliveries, NEW c \in Requests,
         Receive(d, c) \/ Step(d, c)
  PROVE  \E q \in PC, k \in Nat :
           /\ pc' = [pc EXCEPT ![d][c] = q]
           /\ at' = [at EXCEPT ![d][c] = k]
           /\ q = "idle" => k = 1
           /\ q \in {"dedup", "publish"} => k \in 1..Len(Body[d])
<1> USE IngestAssumption
<1>1. Len(Body[d]) \in Nat /\ at[d][c] \in Nat /\ pc[d][c] \in PC
  BY DEF IngestAssumption, TypeOK
<1>2. /\ pc = [pc EXCEPT ![d][c] = pc[d][c]]
      /\ at = [at EXCEPT ![d][c] = at[d][c]]
  BY DEF TypeOK
<1>3. {"idle", "dedup", "publish", "ok", "failed"} = PC
  BY DEF PC
<1>4. /\ pc[d][c] = "idle" => at[d][c] = 1
      /\ pc[d][c] \in {"dedup", "publish"} => at[d][c] \in 1..Len(Body[d])
  BY DEF TypeOK
<1>5. CASE Receive(d, c)
  <2>1. PICK q \in {"dedup", "ok", "failed"} :
          /\ pc' = [pc EXCEPT ![d][c] = q] /\ UNCHANGED at
          /\ q = "dedup" => Len(Body[d]) # 0
    BY <1>5 DEF Receive, Goes
  <2>2. at' = [at EXCEPT ![d][c] = 1]
    BY <1>2, <1>4, <1>5, <2>1 DEF Receive
  <2>3. q \in PC /\ q # "idle" /\ (q = "dedup" => 1 \in 1..Len(Body[d]))
    BY <1>1, <1>3, <2>1
  <2> QED
    BY <2>1, <2>2, <2>3
<1>6. CASE Advances(d, c) /\ pc[d][c] \in {"dedup", "publish"}
  <2> DEFINE q == IF at[d][c] < Len(Body[d]) THEN "dedup" ELSE "ok"
  <2>1. /\ pc' = [pc EXCEPT ![d][c] = q]
        /\ at' = [at EXCEPT ![d][c] = at[d][c] + 1]
    BY <1>6 DEF Advances, TypeOK
  <2>2. q \in PC /\ q # "idle" /\ q # "publish" /\ at[d][c] + 1 \in Nat
    BY <1>1, <1>3
  <2>3. q = "dedup" => at[d][c] + 1 \in 1..Len(Body[d])
    BY <1>1, <1>4, <1>6
  <2> HIDE DEF q
  <2> QED
    BY <2>1, <2>2, <2>3
<1>7. CASE ReplyLost(d, c) /\ pc[d][c] \in {"dedup", "publish"}
  <2>1. PICK q \in {"failed", pc[d][c]} : pc' = [pc EXCEPT ![d][c] = q] /\ UNCHANGED at
    BY <1>2, <1>7 DEF ReplyLost, Goes
  <2> QED
    BY <1>1, <1>2, <1>3, <1>4, <1>7, <2>1
<1>8. CASE Goes(d, c, "publish") /\ pc[d][c] = "dedup"
  BY <1>1, <1>2, <1>3, <1>4, <1>8 DEF Goes
<1>9. CASE Goes(d, c, "failed")
  BY <1>1, <1>2, <1>3, <1>9 DEF Goes
<1>10. CASE Answer(d, c)
  BY <1>1, <1>3, <1>10 DEF Answer
<1>11. CASE Claim(d, c) \/ DropDuplicate(d, c) \/ Enqueue(d, c) \/ Refused(d, c)
  <2>1. \/ (Advances(d, c) \/ ReplyLost(d, c)) /\ pc[d][c] \in {"dedup", "publish"}
        \/ Goes(d, c, "publish") /\ pc[d][c] = "dedup"
        \/ Goes(d, c, "failed")
    BY <1>11 DEF Claim, DropDuplicate, Enqueue, Refused
  <2> QED
    BY <1>6, <1>7, <1>8, <1>9, <2>1
<1> QED
  BY <1>5, <1>10, <1>11 DEF Step

-----------------------------------------------------------------------------
(* Type correctness *)

\* The types hold from the start and after every step.
LEMMA TypesInductive ==
  /\ Init => TypeOK
  /\ TypeOK /\ [Next]_vars => TypeOK'
<1> USE IngestAssumption
<1>1. Init => TypeOK
  <2> SUFFICES ASSUME Init PROVE TypeOK
    OBVIOUS
  <2>1. /\ meta \in [Deliveries -> {"open", "acked", "closed"}]
        /\ pc \in [Deliveries -> [Requests -> {"idle"}]]
        /\ at \in [Deliveries -> [Requests -> {1}]]
    BY DEF Init
  <2>2. dedup \subseteq Ids /\ stream \in Seq(Events) /\ up \in BOOLEAN
    BY EmptySeq DEF Init
  <2>3. faults \in 0..MaxFaults /\ {"idle"} \subseteq PC
    BY DEF Init, PC, IngestAssumption
  <2> QED
    BY <2>1, <2>2, <2>3 DEF TypeOK
<1>2. TypeOK /\ [Next]_vars => TypeOK'
  <2> SUFFICES ASSUME TypeOK, [Next]_vars PROVE TypeOK'
    OBVIOUS
  <2>1. ASSUME NEW d \in Deliveries, NEW c \in Requests, Receive(d, c) \/ Step(d, c)
        PROVE  TypeOK'
    <3>1. PICK q \in PC, k \in Nat :
            /\ pc' = [pc EXCEPT ![d][c] = q]
            /\ at' = [at EXCEPT ![d][c] = k]
            /\ q = "idle" => k = 1
            /\ q \in {"dedup", "publish"} => k \in 1..Len(Body[d])
      BY <2>1, RequestMoves
    <3>2. /\ pc' \in [Deliveries -> [Requests -> PC]]
          /\ at' \in [Deliveries -> [Requests -> Nat]]
      BY <3>1 DEF TypeOK
    <3>3. ASSUME NEW d2 \in Deliveries, NEW c2 \in Requests
          PROVE  /\ pc'[d2][c2] = "idle" => at'[d2][c2] = 1
                 /\ pc'[d2][c2] \in {"dedup", "publish"} =>
                      at'[d2][c2] \in 1..Len(Body[d2])
      <4>1. CASE <<d2, c2>> = <<d, c>>
        <5>1. pc'[d][c] = q /\ at'[d][c] = k
          BY <3>1 DEF TypeOK
        <5> QED
          BY <3>1, <4>1, <5>1
      <4>2. CASE <<d2, c2>> # <<d, c>>
        <5>1. pc'[d2][c2] = pc[d2][c2] /\ at'[d2][c2] = at[d2][c2]
          BY <2>1, <4>2, OthersStay
        <5> QED
          BY <5>1 DEF TypeOK
      <4> QED
        BY <4>1, <4>2
    <3>4. faults' \in 0..MaxFaults
      BY <2>1 DEF Receive, Step, Claim, DropDuplicate, Enqueue, Refused, Answer,
                  ReplyLost, Fault, TypeOK, IngestAssumption
    <3>5. meta' \in [Deliveries -> {"open", "acked", "closed"}] /\ up' \in BOOLEAN
      BY <2>1 DEF Receive, Step, Claim, DropDuplicate, Enqueue, Refused, Answer, TypeOK
    <3>6. dedup' \subseteq Ids /\ stream' \in Seq(Events)
      <4>1. pc[d][c] \in {"dedup", "publish"} => Event(d, c) \in Events
        BY DEF Event, TypeOK, IngestAssumption
      <4>2. pc[d][c] \in {"dedup", "publish"} => Id(d, c) \in Ids
        BY <4>1 DEF Id, IngestAssumption
      <4>3. \/ UNCHANGED dedup
            \/ pc[d][c] = "dedup" /\ dedup' = dedup \union {Id(d, c)}
        BY <2>1 DEF Receive, Step, Claim, DropDuplicate, Enqueue, Refused, Answer
      <4>4. \/ UNCHANGED stream
            \/ pc[d][c] = "publish" /\ stream' = Append(stream, Event(d, c))
        BY <2>1 DEF Receive, Step, Claim, DropDuplicate, Enqueue, Refused, Answer
      <4>5. dedup' \subseteq Ids
        BY <4>2, <4>3 DEF TypeOK
      <4>6. stream' \in Seq(Events)
        <5>1. stream \in Seq(Events)
          BY DEF TypeOK
        <5>2. CASE pc[d][c] = "publish" /\ stream' = Append(stream, Event(d, c))
          <6>1. Event(d, c) \in Events
            BY <4>1, <5>2
          <6>2. Append(stream, Event(d, c)) \in Seq(Events)
            BY <5>1, <6>1, AppendProperties
          <6> QED
            BY <5>2, <6>2
        <5> QED
          BY <4>4, <5>1, <5>2
      <4> QED
        BY <4>5, <4>6
    <3> QED
      BY <3>2, <3>3, <3>4, <3>5, <3>6 DEF TypeOK
  <2>2. CASE Crash
    <3>1. /\ pc' \in [Deliveries -> [Requests -> {"idle"}]]
          /\ at' \in [Deliveries -> [Requests -> {1}]]
      BY <2>2 DEF Crash
    <3>2. {"idle"} \subseteq PC
      BY DEF PC
    <3>3. faults' \in 0..MaxFaults
      BY <2>2 DEF Crash, Fault, TypeOK, IngestAssumption
    <3> QED
      BY <2>2, <3>1, <3>2, <3>3 DEF Crash, TypeOK
  <2>3. ASSUME NEW d \in Deliveries, Close(d) PROVE TypeOK'
    BY <2>3 DEF Close, TypeOK
  <2>4. ASSUME NEW id \in Ids, KeyLapses(id) PROVE TypeOK'
    BY <2>4 DEF KeyLapses, TypeOK
  <2>5. CASE Start \/ UNCHANGED vars
    BY <2>5 DEF Start, vars, TypeOK
  <2> QED
    BY <2>1, <2>2, <2>3, <2>4, <2>5 DEF Next
<1> QED
  BY <1>1, <1>2

\* Every state has its types, and no request is ever past the end of its payload.
THEOREM TypeCorrect == Spec => []TypeOK
BY TypesInductive, PTL DEF Spec

-----------------------------------------------------------------------------
(* One stream entry per message id *)

\* No request can claim the id any more: its key exists, or Meta is done with
\* every delivery that carries it.
Spent(id) ==
  \/ id \in dedup
  \/ \A d \in Deliveries : id \in IdsIn(d) => meta[d] = "closed"

\* No command was sent twice so far: the client does not, or had no reason to.
NothingResent == Resend => faults = 0

\* Meta keeps a delivery open while a request of it runs; every id in the
\* stream is spent; a request about to write has the key of its id to itself,
\* and unless it sends its XADD again, it has not written.
KeysHeld ==
  /\ \A d \in Deliveries, c \in Requests : pc[d][c] # "idle" => meta[d] # "closed"
  /\ \A i \in 1..Len(stream) : Spent(IdOf[stream[i]])
  /\ \A d \in Deliveries, c \in Requests : pc[d][c] = "publish" =>
       Id(d, c) \in dedup /\ (NothingResent => ~Queued(Id(d, c)))
  /\ \A d1, d2 \in Deliveries, c1, c2 \in Requests :
       pc[d1][c1] = "publish" /\ pc[d2][c2] = "publish" /\ Id(d1, c1) = Id(d2, c2)
         => d1 = d2 /\ c1 = c2
  /\ NothingResent => OncePerId

\* A request that is at an event is at an id of its delivery.
LEMMA IdIsInBody ==
  ASSUME TypeOK, NEW d \in Deliveries, NEW c \in Requests,
         pc[d][c] \in {"dedup", "publish"}
  PROVE  Id(d, c) \in IdsIn(d)
BY DEF Id, Event, IdsIn, TypeOK

\* Faults are not undone.
LEMMA FaultsRemain ==
  ASSUME TypeOK, [Next]_vars
  PROVE  faults' \in {faults, faults + 1} /\ (NothingResent' => NothingResent)
<1>1. faults \in Nat
  BY IngestAssumption DEF TypeOK, IngestAssumption
<1>2. faults' \in {faults, faults + 1}
  BY DEF Next, Receive, Step, Claim, DropDuplicate, Enqueue, Refused, Answer, ReplyLost,
         Fault, Close, KeyLapses, Start, Crash, vars
<1> QED
  BY <1>1, <1>2 DEF NothingResent

\* A step that writes nothing and leaves the keys of the requests about to
\* write alone keeps it.
LEMMA NoNewWriter ==
  ASSUME KeysHeld, UNCHANGED stream, NothingResent' => NothingResent,
         \A d \in Deliveries, c \in Requests : pc'[d][c] # "idle" => meta'[d] # "closed",
         \A i \in 1..Len(stream) : Spent(IdOf[stream[i]])',
         \A d \in Deliveries, c \in Requests : pc'[d][c] = "publish" =>
           /\ pc[d][c] = "publish" /\ at'[d][c] = at[d][c]
           /\ Id(d, c) \in dedup'
  PROVE  KeysHeld'
<1>1. \A d \in Deliveries, c \in Requests : pc'[d][c] = "publish" => Id(d, c)' = Id(d, c)
  BY DEF Id, Event
<1> QED
  BY <1>1 DEF KeysHeld, Queued, OncePerId

\* Every step of a request.
LEMMA StepKeepsKeys ==
  ASSUME TypeOK, KeysHeld, NEW d \in Deliveries, NEW c \in Requests,
         Receive(d, c) \/ Step(d, c)
  PROVE  KeysHeld'
<1> USE IngestAssumption
<1>0. faults \in Nat /\ faults' \in {faults, faults + 1} /\ (NothingResent' => NothingResent)
  BY FaultsRemain DEF Next, TypeOK, IngestAssumption
<1>1. TypeOK'
  BY TypesInductive DEF Next
<1>2. ASSUME NEW d2 \in Deliveries, NEW c2 \in Requests, pc'[d2][c2] # "idle"
      PROVE  meta'[d2] # "closed"
  <2>1. pc[d2][c2] # "idle" \/ meta[d2] # "closed"
    <3>1. CASE <<d2, c2>> = <<d, c>>
      BY <3>1 DEF Receive, Step, Claim, DropDuplicate, Enqueue, Refused, Answer
    <3>2. CASE <<d2, c2>> # <<d, c>>
      BY <1>2, <3>2, OthersStay
    <3> QED
      BY <3>1, <3>2
  <2>2. meta[d2] # "closed"
    BY <2>1 DEF KeysHeld
  <2>3. UNCHANGED meta \/ meta' = [meta EXCEPT ![d] = "acked"]
    BY DEF Receive, Step, Claim, DropDuplicate, Enqueue, Refused, Answer
  <2> QED
    BY <2>2, <2>3 DEF TypeOK
\* What was closed stays closed: the request that acks was not of such a one.
<1>3. ASSUME NEW id, Spent(id) PROVE Spent(id)'
  <2>1. dedup \subseteq dedup'
    BY DEF Receive, Step, Claim, DropDuplicate, Enqueue, Refused, Answer
  <2>2. ASSUME NEW d2 \in Deliveries, meta[d2] = "closed"
        PROVE  meta'[d2] = "closed"
    <3>1. \/ UNCHANGED meta
          \/ pc[d][c] # "idle" /\ meta' = [meta EXCEPT ![d] = "acked"]
      BY DEF Receive, Step, Claim, DropDuplicate, Enqueue, Refused, Answer
    <3> QED
      BY <2>2, <3>1 DEF KeysHeld, TypeOK
  <2> QED
    BY <1>3, <2>1, <2>2 DEF Spent, IdsIn
\* No request becomes a writer.
<1>4. CASE UNCHANGED stream /\ pc'[d][c] # "publish" /\ dedup \subseteq dedup'
  <2>1. ASSUME NEW d2 \in Deliveries, NEW c2 \in Requests, pc'[d2][c2] = "publish"
        PROVE  /\ pc[d2][c2] = "publish" /\ at'[d2][c2] = at[d2][c2]
               /\ Id(d2, c2) \in dedup'
    <3>1. <<d2, c2>> # <<d, c>>
      BY <1>4, <2>1
    <3>2. pc[d2][c2] = "publish" /\ at'[d2][c2] = at[d2][c2]
      BY <2>1, <3>1, OthersStay
    <3> QED
      BY <1>4, <3>2 DEF KeysHeld
  <2>2. \A i \in 1..Len(stream) : Spent(IdOf[stream[i]])'
    <3>1. ASSUME NEW i \in 1..Len(stream) PROVE Spent(IdOf[stream[i]])'
      <4>1. PICK id : id = IdOf[stream[i]]
        OBVIOUS
      <4>2. Spent(id)
        BY <4>1 DEF KeysHeld
      <4>3. Spent(id)'
        BY <4>2, <1>3
      <4> QED
        BY <1>4, <4>1, <4>3
    <3> QED
      BY <3>1
  <2> QED
    BY <1>0, <1>2, <1>4, <2>1, <2>2, NoNewWriter
\* A request wins the key of an id that nobody has written or will write.
<1>5. CASE Claim(d, c) /\ Goes(d, c, "publish")
  <2>1. /\ pc[d][c] = "dedup" /\ Id(d, c) \notin dedup
        /\ dedup' = dedup \union {Id(d, c)}
        /\ UNCHANGED <<stream, at, meta>>
    BY <1>5 DEF Claim, Goes
  <2>2. \A d2 \in Deliveries, c2 \in Requests : Id(d2, c2)' = Id(d2, c2)
    BY <2>1 DEF Id, Event
  <2>3. ~Queued(Id(d, c))
    <3>1. ~Spent(Id(d, c))
      BY <2>1, IdIsInBody DEF Spent, KeysHeld
    <3> QED
      BY <3>1 DEF Queued, KeysHeld
  <2>4. ASSUME NEW d2 \in Deliveries, NEW c2 \in Requests, <<d2, c2>> # <<d, c>>,
               pc'[d2][c2] = "publish"
        PROVE  /\ pc[d2][c2] = "publish" /\ Id(d2, c2) \in dedup
               /\ NothingResent => ~Queued(Id(d2, c2))
               /\ Id(d2, c2) # Id(d, c)
    <3>1. pc[d2][c2] = "publish"
      BY <2>4, OthersStay
    <3> QED
      BY <2>1, <3>1 DEF KeysHeld
  <2>5. ASSUME NEW d2 \in Deliveries, NEW c2 \in Requests, pc'[d2][c2] = "publish"
        PROVE  (Id(d2, c2) \in dedup /\ (NothingResent => ~Queued(Id(d2, c2))))'
    <3>1. Id(d2, c2) \in dedup' /\ (NothingResent => ~Queued(Id(d2, c2)))
      BY <2>1, <2>3, <2>4, <2>5
    <3> QED
      BY <1>0, <2>1, <2>2, <3>1 DEF Queued
  <2>6. ASSUME NEW e1 \in Deliveries, NEW e2 \in Deliveries,
               NEW k1 \in Requests, NEW k2 \in Requests,
               pc'[e1][k1] = "publish", pc'[e2][k2] = "publish", Id(e1, k1) = Id(e2, k2)
        PROVE  e1 = e2 /\ k1 = k2
    <3>1. CASE <<e1, k1>> = <<d, c>> \/ <<e2, k2>> = <<d, c>>
      BY <2>4, <2>6, <3>1
    <3>2. CASE <<e1, k1>> # <<d, c>> /\ <<e2, k2>> # <<d, c>>
      BY <2>4, <2>6, <3>2 DEF KeysHeld
    <3> QED
      BY <3>1, <3>2
  <2>7. \A i \in 1..Len(stream) : Spent(IdOf[stream[i]])'
    BY <2>1 DEF KeysHeld, Spent, IdsIn
  <2>8. (NothingResent => OncePerId)'
    BY <1>0, <2>1 DEF KeysHeld, OncePerId
  <2> QED
    BY <1>2, <2>1, <2>2, <2>5, <2>6, <2>7, <2>8 DEF KeysHeld
\* A writer writes the only entry of its id, unless it will write another.
<1>6. CASE Enqueue(d, c)
  <2>1. /\ pc[d][c] = "publish" /\ stream' = Append(stream, Event(d, c))
        /\ UNCHANGED <<dedup, meta>>
    BY <1>6 DEF Enqueue
  <2>2. \/ pc'[d][c] # "publish"
        \/ UNCHANGED <<pc, at>> /\ ~(NothingResent')
    <3>1. CASE Resend /\ Fault /\ UNCHANGED <<pc, at>>
      BY <1>0, <3>1 DEF Fault, NothingResent
    <3>2. CASE ~(Resend /\ Fault /\ UNCHANGED <<pc, at>>)
      BY <1>6, <3>2 DEF Enqueue, Advances, ReplyLost, Goes, TypeOK
    <3> QED
      BY <3>1, <3>2
  <2>3. /\ Len(stream) \in Nat /\ Len(stream') = Len(stream) + 1
        /\ \A i \in 1..Len(stream) : stream'[i] = stream[i]
        /\ stream'[Len(stream) + 1] = Event(d, c)
    <3>1. Event(d, c) \in Events
      BY <2>1 DEF Event, TypeOK, IngestAssumption
    <3>2. stream \in Seq(Events)
      BY DEF TypeOK
    <3> QED
      BY <2>1, <3>1, <3>2, AppendProperties
  <2>4. \A i \in 1..Len(stream') :
          \/ i \in 1..Len(stream) /\ stream'[i] = stream[i]
          \/ i = Len(stream) + 1 /\ IdOf[stream'[i]] = Id(d, c)
    BY <2>3 DEF Id
  <2>5. Id(d, c) \in dedup /\ (NothingResent => ~Queued(Id(d, c)))
    BY <2>1 DEF KeysHeld
  <2>6. ASSUME NEW d2 \in Deliveries, NEW c2 \in Requests, pc'[d2][c2] = "publish"
        PROVE  /\ pc[d2][c2] = "publish" /\ Id(d2, c2)' = Id(d2, c2)
               /\ Id(d2, c2) \in dedup
               /\ NothingResent' => Id(d2, c2) # Id(d, c) /\ ~Queued(Id(d2, c2))
    <3>1. pc[d2][c2] = "publish" /\ at'[d2][c2] = at[d2][c2]
      <4>1. CASE <<d2, c2>> = <<d, c>>
        BY <2>1, <2>2, <2>6, <4>1
      <4>2. CASE <<d2, c2>> # <<d, c>>
        BY <2>6, <4>2, OthersStay
      <4> QED
        BY <4>1, <4>2
    <3>2. Id(d2, c2)' = Id(d2, c2)
      BY <3>1 DEF Id, Event
    <3>3. NothingResent' => <<d2, c2>> # <<d, c>>
      BY <2>2, <2>6
    <3> QED
      BY <1>0, <2>1, <3>1, <3>2, <3>3 DEF KeysHeld
  <2>7. ASSUME NEW d2 \in Deliveries, NEW c2 \in Requests, pc'[d2][c2] = "publish"
        PROVE  (Id(d2, c2) \in dedup /\ (NothingResent => ~Queued(Id(d2, c2))))'
    <3>1. Id(d2, c2)' = Id(d2, c2) /\ Id(d2, c2) \in dedup
      BY <2>6, <2>7
    <3>2. NothingResent' => \A i \in 1..Len(stream') : IdOf[stream'[i]] # Id(d2, c2)
      BY <2>4, <2>6, <2>7 DEF Queued
    <3> QED
      BY <2>1, <3>1, <3>2 DEF Queued
  <2>8. \A e1, e2 \in Deliveries, k1, k2 \in Requests :
          pc'[e1][k1] = "publish" /\ pc'[e2][k2] = "publish" /\ Id(e1, k1)' = Id(e2, k2)'
            => e1 = e2 /\ k1 = k2
    BY <2>6 DEF KeysHeld
  <2>9. \A i \in 1..Len(stream') : Spent(IdOf[stream'[i]])
    BY <2>4, <2>5 DEF KeysHeld, Spent
  <2>10. (\A i \in 1..Len(stream) : Spent(IdOf[stream[i]]))'
    BY <2>1, <2>9 DEF Spent, IdsIn
  <2>11. (NothingResent => OncePerId)'
    BY <1>0, <2>4, <2>5 DEF KeysHeld, OncePerId, Queued
  <2> QED
    BY <1>2, <2>7, <2>8, <2>10, <2>11 DEF KeysHeld
<1>7. CASE \/ Receive(d, c) \/ DropDuplicate(d, c) \/ Refused(d, c) \/ Answer(d, c)
           \/ Claim(d, c) /\ ~Goes(d, c, "publish")
  <2>1. UNCHANGED stream /\ dedup \subseteq dedup'
    BY <1>7 DEF Receive, DropDuplicate, Refused, Answer, Claim
  <2>2. pc'[d][c] # "publish"
    BY <1>7 DEF Receive, DropDuplicate, Refused, Answer, Claim, Goes, Advances,
                ReplyLost, TypeOK
  <2> QED
    BY <1>4, <2>1, <2>2
<1> QED
  BY <1>5, <1>6, <1>7 DEF Step

\* The invariant survives every step.
LEMMA KeysInductive ==
  ASSUME TypeOK, KeysHeld, [Next]_vars
  PROVE  KeysHeld'
<1>0. NothingResent' => NothingResent
  BY FaultsRemain
<1>1. CASE \E d \in Deliveries, c \in Requests : Receive(d, c) \/ Step(d, c)
  BY <1>1, StepKeepsKeys
<1>2. ASSUME NEW d \in Deliveries, Close(d) PROVE KeysHeld'
  <2>1. /\ meta' = [meta EXCEPT ![d] = "closed"]
        /\ \A c \in Requests : pc[d][c] = "idle"
        /\ UNCHANGED <<pc, at, dedup, stream>>
    BY <1>2 DEF Close
  <2>2. \A d2 \in Deliveries, c \in Requests : pc'[d2][c] # "idle" => meta'[d2] # "closed"
    BY <2>1 DEF KeysHeld, TypeOK
  <2>3. \A i \in 1..Len(stream) : Spent(IdOf[stream[i]])'
    BY <2>1 DEF KeysHeld, Spent, IdsIn, TypeOK
  <2>4. \A d2 \in Deliveries, c \in Requests : pc'[d2][c] = "publish" =>
          pc[d2][c] = "publish" /\ at'[d2][c] = at[d2][c] /\ Id(d2, c) \in dedup'
    BY <2>1 DEF KeysHeld
  <2> QED
    BY <2>1, <2>2, <2>3, <2>4, <1>0, NoNewWriter
\* A key that lapses is of an id nobody can send any more.
<1>3. ASSUME NEW id \in Ids, KeyLapses(id) PROVE KeysHeld'
  <2>1. /\ \A d \in Deliveries : id \in IdsIn(d) => meta[d] = "closed"
        /\ dedup' = dedup \ {id}
        /\ UNCHANGED <<meta, pc, at, stream>>
    BY <1>3 DEF KeyLapses
  <2>2. \A i \in 1..Len(stream) : Spent(IdOf[stream[i]])'
    BY <2>1 DEF KeysHeld, Spent, IdsIn
  <2>3. ASSUME NEW d \in Deliveries, NEW c \in Requests, pc'[d][c] = "publish"
        PROVE  pc[d][c] = "publish" /\ at'[d][c] = at[d][c] /\ Id(d, c) \in dedup'
    <3>1. pc[d][c] = "publish" /\ meta[d] # "closed" /\ Id(d, c) \in dedup
      BY <2>1, <2>3 DEF KeysHeld
    <3>2. Id(d, c) # id
      BY <2>1, <3>1, IdIsInBody
    <3> QED
      BY <2>1, <3>1, <3>2
  <2>4. \A d \in Deliveries, c \in Requests : pc'[d][c] # "idle" => meta'[d] # "closed"
    BY <2>1 DEF KeysHeld
  <2> QED
    BY <2>1, <2>2, <2>3, <2>4, <1>0, NoNewWriter
<1>4. CASE Start \/ Crash \/ UNCHANGED vars
  <2>1. UNCHANGED <<meta, dedup, stream>>
    BY <1>4 DEF Start, Crash, vars
  <2>2. ASSUME NEW d \in Deliveries, NEW c \in Requests, pc'[d][c] # "idle"
        PROVE  pc'[d][c] = pc[d][c] /\ at'[d][c] = at[d][c]
    BY <1>4, <2>2 DEF Start, Crash, vars
  <2>3. \A i \in 1..Len(stream) : Spent(IdOf[stream[i]])'
    BY <2>1 DEF KeysHeld, Spent, IdsIn
  <2>4. \A d \in Deliveries, c \in Requests : pc'[d][c] = "publish" =>
          pc[d][c] = "publish" /\ at'[d][c] = at[d][c] /\ Id(d, c) \in dedup'
    BY <2>1, <2>2 DEF KeysHeld
  <2>5. \A d \in Deliveries, c \in Requests : pc'[d][c] # "idle" => meta'[d] # "closed"
    BY <2>1, <2>2 DEF KeysHeld
  <2> QED
    BY <2>1, <2>3, <2>4, <2>5, <1>0, NoNewWriter
<1> QED
  BY <1>1, <1>2, <1>3, <1>4 DEF Next

\* A request that becomes the writer of an id has won its key, and won it for an
\* id that is not in the stream.
LEMMA NewWriterIsFirst ==
  ASSUME TypeOK, KeysHeld, [Next]_vars, NEW id, ~Coming(id), Coming(id)'
  PROVE  ~Queued(id)
<1>1. PICK d \in Deliveries, c \in Requests : pc'[d][c] = "publish" /\ Id(d, c)' = id
  BY DEF Coming, Publishing
<1>2. \/ pc[d][c] = "publish" /\ Id(d, c)' = Id(d, c)
      \/ pc[d][c] = "dedup" /\ Id(d, c) \notin dedup /\ Id(d, c)' = Id(d, c)
  <2>1. ASSUME NEW d2 \in Deliveries, NEW c2 \in Requests, Receive(d2, c2) \/ Step(d2, c2)
        PROVE  \/ pc[d][c] = "publish" /\ at'[d][c] = at[d][c]
               \/ pc[d][c] = "dedup" /\ Id(d, c) \notin dedup /\ at'[d][c] = at[d][c]
    <3>1. CASE <<d, c>> # <<d2, c2>>
      BY <1>1, <2>1, <3>1, OthersStay
    <3>2. CASE <<d, c>> = <<d2, c2>>
      BY <1>1, <2>1, <3>2
      DEF Receive, Step, Claim, DropDuplicate, Enqueue, Refused, Answer, Goes, Advances,
          ReplyLost, TypeOK
    <3> QED
      BY <3>1, <3>2
  <2>2. CASE \/ \E d2 \in Deliveries : Close(d2)
             \/ \E k \in Ids : KeyLapses(k)
             \/ Start \/ Crash \/ UNCHANGED vars
    BY <1>1, <2>2 DEF Close, KeyLapses, Start, Crash, vars, Id, Event
  <2> QED
    BY <2>1, <2>2 DEF Next, Id, Event
<1>3. pc[d][c] = "dedup" /\ Id(d, c) = id /\ id \notin dedup
  BY <1>1, <1>2 DEF Coming, Publishing
<1>4. ~Spent(id)
  BY <1>3, IdIsInBody DEF Spent, KeysHeld
<1> QED
  BY <1>4 DEF Queued, KeysHeld

\* A write adds no writer, and after one that is not repeated its id has none.
LEMMA WriterGoes ==
  ASSUME TypeOK, KeysHeld, Next, NEW d \in Deliveries, NEW c \in Requests,
         pc[d][c] = "publish", stream' = Append(stream, Event(d, c))
  PROVE  \A id : Coming(id)' => Coming(id) /\ (id = Id(d, c) => faults' = faults + 1)
<1>1. /\ Event(d, c) \in Events /\ stream \in Seq(Events)
      /\ stream' # stream
  BY IngestAssumption DEF Event, TypeOK, IngestAssumption
<1>2. Enqueue(d, c)
  <2>1. PICK d2 \in Deliveries, c2 \in Requests : Enqueue(d2, c2)
    BY <1>1 DEF Next, Receive, Step, Claim, DropDuplicate, Refused, Answer, Close, KeyLapses,
                Start, Crash
  <2>2. pc[d2][c2] = "publish" /\ Event(d2, c2) \in Events
    BY <2>1, IngestAssumption DEF Enqueue, Event, TypeOK, IngestAssumption
  <2>3. stream' = Append(stream, Event(d2, c2))
    BY <2>1 DEF Enqueue
  <2>4. Event(d2, c2) = Event(d, c)
    <3>1. stream'[Len(stream) + 1] = Event(d2, c2)
      BY <1>1, <2>2, <2>3
    <3>2. stream'[Len(stream) + 1] = Event(d, c)
      BY <1>1
    <3> QED
      BY <3>1, <3>2
  <2>5. d2 = d /\ c2 = c
    BY <2>2, <2>4 DEF KeysHeld, Id
  <2> QED
    BY <2>1, <2>5
<1>3. \/ pc'[d][c] # "publish"
      \/ UNCHANGED at /\ faults' = faults + 1
  <2>1. CASE ReplyLost(d, c)
    BY <2>1 DEF ReplyLost, Fault, Goes, TypeOK
  <2>2. CASE Advances(d, c)
    BY <2>2 DEF Advances, TypeOK
  <2> QED
    BY <1>2, <2>1, <2>2 DEF Enqueue
<1>4. ASSUME NEW d2 \in Deliveries, NEW c2 \in Requests, pc'[d2][c2] = "publish"
      PROVE  /\ pc[d2][c2] = "publish" /\ Id(d2, c2)' = Id(d2, c2)
             /\ Id(d2, c2) = Id(d, c) => faults' = faults + 1
  <2>1. CASE <<d2, c2>> = <<d, c>>
    BY <1>3, <1>4, <2>1 DEF Id, Event
  <2>2. CASE <<d2, c2>> # <<d, c>>
    <3>1. pc[d2][c2] = "publish" /\ at'[d2][c2] = at[d2][c2]
      BY <1>2, <1>4, <2>2, OthersStay DEF Step
    <3> QED
      BY <2>2, <3>1 DEF KeysHeld, Id, Event
  <2> QED
    BY <2>1, <2>2
<1> QED
  BY <1>4 DEF Coming, Publishing

\* The keys hold from the start and after every step.
LEMMA OnceInductive ==
  /\ Init => KeysHeld
  /\ TypeOK /\ KeysHeld /\ [Next]_vars => KeysHeld'
  /\ KeysHeld /\ NothingResent => OncePerId
<1>1. Init => KeysHeld
  <2>1. Init => Len(stream) = 0 /\ 1..Len(stream) = {}
    BY DEF Init
  <2> QED
    BY <2>1 DEF Init, KeysHeld, OncePerId
<1>2. KeysHeld /\ NothingResent => OncePerId
  BY DEF KeysHeld
<1> QED
  BY <1>1, <1>2, KeysInductive

\* With a client that sends each command once and keys that outlast Meta's
\* redeliveries, the stream gets at most one entry per message id, for any
\* deliveries, however many requests run at once and whatever fails.
THEOREM OneEntryPerMessage ==
  ASSUME ~Resend
  PROVE  Spec => []OncePerId
<1>1. KeysHeld => OncePerId
  BY OnceInductive DEF NothingResent
<1> QED
  BY <1>1, OnceInductive, TypesInductive, PTL DEF Spec

\* The entries of an id are one, and one more for each fault; a request about
\* to write has its own still to come.
EntriesOf(id) == {i \in 1..Len(stream) : IdOf[stream[i]] = id}

EntriesHaveCauses == \A id \in Ids : Cardinality(EntriesOf(id)) <= 1 + faults

RoomToWrite == \A id \in Ids : Coming(id) => Cardinality(EntriesOf(id)) <= faults

\* A step of the API writes nothing, or one event by the request that is at it.
LEMMA OneWriteAtATime ==
  ASSUME TypeOK, [Next]_vars
  PROVE  \/ UNCHANGED stream
         \/ \E d \in Deliveries, c \in Requests :
              /\ Next /\ pc[d][c] = "publish" /\ Event(d, c) \in Events
              /\ stream' = Append(stream, Event(d, c))
<1>1. CASE \E d \in Deliveries, c \in Requests : Enqueue(d, c)
  <2>1. PICK d \in Deliveries, c \in Requests : Enqueue(d, c)
    BY <1>1
  <2>2. /\ pc[d][c] = "publish" /\ stream' = Append(stream, Event(d, c))
        /\ Event(d, c) \in Events
    BY <2>1, IngestAssumption DEF Enqueue, Event, TypeOK, IngestAssumption
  <2>3. Next
    BY <2>1 DEF Next, Step
  <2> QED
    BY <2>2, <2>3
<1>2. CASE ~\E d \in Deliveries, c \in Requests : Enqueue(d, c)
  BY <1>2 DEF Next, Receive, Step, Claim, DropDuplicate, Refused, Answer, Close, KeyLapses,
              Start, Crash, vars
<1> QED
  BY <1>1, <1>2

LEMMA CausesInductive ==
  ASSUME TypeOK, KeysHeld, EntriesHaveCauses, RoomToWrite, [Next]_vars
  PROVE  EntriesHaveCauses' /\ RoomToWrite'
<1>1. faults \in Nat /\ faults' \in {faults, faults + 1}
  BY FaultsRemain, IngestAssumption DEF TypeOK, IngestAssumption
<1>2. Len(stream) \in Nat
  BY DEF TypeOK
<1>3. \A id : IsFiniteSet(EntriesOf(id)) /\ Cardinality(EntriesOf(id)) \in Nat
  <2>1. \A id : EntriesOf(id) \in SUBSET (1..Len(stream))
    BY DEF EntriesOf
  <2>2. Len(stream) \in Int
    BY <1>2
  <2>3. IsFiniteSet(1..Len(stream))
    BY <2>2, FS_Interval
  <2> QED
    BY <2>1, <2>3, FS_Subset, FS_CardinalityType
<1>4. CASE UNCHANGED stream
  <2>1. \A id : EntriesOf(id)' = EntriesOf(id)
    BY <1>4 DEF EntriesOf
  <2>2. ASSUME NEW id \in Ids, Coming(id)', ~Coming(id)
        PROVE  Cardinality(EntriesOf(id)) = 0
    <3>1. ~Queued(id)
      BY <2>2, NewWriterIsFirst
    <3>2. EntriesOf(id) = {}
      BY <3>1 DEF Queued, EntriesOf
    <3> QED
      BY <3>2, FS_EmptySet
  <2>3. EntriesHaveCauses'
    BY <1>1, <1>3, <2>1 DEF EntriesHaveCauses
  <2>4. ASSUME NEW id \in Ids, Coming(id)'
        PROVE  Cardinality(EntriesOf(id)') <= faults'
    <3>1. Cardinality(EntriesOf(id)) <= faults
      BY <1>1, <2>2, <2>4 DEF RoomToWrite
    <3> QED
      BY <1>1, <1>3, <2>1, <3>1
  <2> QED
    BY <2>3, <2>4 DEF RoomToWrite
<1>5. ASSUME NEW d \in Deliveries, NEW c \in Requests, Next, pc[d][c] = "publish",
             Event(d, c) \in Events, stream' = Append(stream, Event(d, c))
      PROVE  EntriesHaveCauses' /\ RoomToWrite'
  <2>1. /\ Len(stream') = Len(stream) + 1
        /\ \A i \in 1..Len(stream) : stream'[i] = stream[i]
        /\ stream'[Len(stream) + 1] = Event(d, c)
    <3>1. stream \in Seq(Events)
      BY DEF TypeOK
    <3> QED
      BY <1>5, <3>1, AppendProperties
  <2>2. PICK m \in Ids : m = Id(d, c)
    BY <1>5, IngestAssumption DEF Id, IngestAssumption
  <2>3. \A id : id # m => EntriesOf(id)' = EntriesOf(id)
    BY <1>2, <2>1, <2>2 DEF EntriesOf, Id
  <2>4. Cardinality(EntriesOf(m)') = Cardinality(EntriesOf(m)) + 1
    <3>1. EntriesOf(m)' = EntriesOf(m) \union {Len(stream) + 1}
      BY <1>2, <2>1, <2>2 DEF EntriesOf, Id
    <3>2. Len(stream) + 1 \notin EntriesOf(m)
      BY <1>2 DEF EntriesOf
    <3> QED
      BY <1>3, <3>1, <3>2, FS_AddElement
  <2>5. \A id : Coming(id)' => Coming(id) /\ (id = m => faults' = faults + 1)
    BY <1>5, <2>2, WriterGoes
  <2>6. Cardinality(EntriesOf(m)) <= faults
    BY <1>5, <2>2 DEF RoomToWrite, Coming, Publishing
  <2>7. ASSUME NEW id \in Ids PROVE Cardinality(EntriesOf(id)') <= 1 + faults'
    <3>1. CASE id = m
      BY <1>1, <1>3, <2>4, <2>6, <3>1
    <3>2. CASE id # m
      BY <1>1, <1>3, <2>3, <3>2 DEF EntriesHaveCauses
    <3> QED
      BY <3>1, <3>2
  <2>8. ASSUME NEW id \in Ids, Coming(id)' PROVE Cardinality(EntriesOf(id)') <= faults'
    <3>1. CASE id = m
      BY <1>1, <1>3, <2>4, <2>5, <2>6, <2>8, <3>1
    <3>2. CASE id # m
      <4>1. Cardinality(EntriesOf(id)) <= faults
        BY <2>5, <2>8 DEF RoomToWrite
      <4> QED
        BY <1>1, <1>3, <2>3, <3>2, <4>1
    <3> QED
      BY <3>1, <3>2
  <2> QED
    BY <2>7, <2>8 DEF EntriesHaveCauses, RoomToWrite
<1> QED
  BY <1>4, <1>5, OneWriteAtATime

\* SECOND ENTRIES HAVE A CAUSE.  With a client that sends commands again: an id
\* has one entry, and at most one more for each fault so far (dedup.py:5-12,
\* redis_client.py:20-27).
THEOREM EveryFurtherEntryIsAFault == Spec => []EntriesHaveCauses
<1> DEFINE Inv == TypeOK /\ KeysHeld /\ EntriesHaveCauses /\ RoomToWrite
<1>1. Init => Inv
  <2> SUFFICES ASSUME Init PROVE Inv
    OBVIOUS
  <2>1. TypeOK /\ KeysHeld
    BY TypesInductive, OnceInductive
  <2>2. Len(stream) = 0 /\ faults = 0 /\ \A id : EntriesOf(id) = {}
    BY DEF Init, EntriesOf
  <2>3. \A id : Cardinality(EntriesOf(id)) = 0
    BY <2>2, FS_EmptySet
  <2> QED
    BY <2>1, <2>2, <2>3 DEF EntriesHaveCauses, RoomToWrite
<1>2. Inv /\ [Next]_vars => Inv'
  BY TypesInductive, OnceInductive, CausesInductive
<1> QED
  BY <1>1, <1>2, PTL DEF Spec

-----------------------------------------------------------------------------
(* What a 200 covers *)

\* The ids of the events a request has been through.
Passed(d, c) ==
  CASE pc[d][c] \in {"dedup", "publish"} -> {IdOf[Body[d][i]] : i \in 1..(at[d][c] - 1)}
    [] pc[d][c] = "ok" -> IdsIn(d)
    [] OTHER -> {}

\* Meta keeps a delivery open while a request of it runs; what a request has
\* been through is claimed, and so is what it is about to write.
PassedClaimed ==
  /\ \A d \in Deliveries, c \in Requests : pc[d][c] # "idle" => meta[d] # "closed"
  /\ \A d \in Deliveries, c \in Requests : Passed(d, c) \subseteq dedup
  /\ \A d \in Deliveries, c \in Requests : pc[d][c] = "publish" => Id(d, c) \in dedup
  /\ AckedIsClaimed

\* A request is only ever through with ids of its delivery.
LEMMA PassedIsInBody ==
  ASSUME TypeOK, NEW d \in Deliveries, NEW c \in Requests
  PROVE  Passed(d, c) \subseteq IdsIn(d)
<1>1. Len(Body[d]) \in Nat
  BY IngestAssumption DEF IngestAssumption
<1>2. pc[d][c] \in {"dedup", "publish"} => at[d][c] \in 1..Len(Body[d])
  BY DEF TypeOK
<1> QED
  BY <1>1, <1>2 DEF Passed, IdsIn

\* A request moves on from an event when its id is claimed.
LEMMA AdvancesPasses ==
  ASSUME TypeOK, NEW d \in Deliveries, NEW c \in Requests,
         pc[d][c] \in {"dedup", "publish"}, Advances(d, c)
  PROVE  /\ Passed(d, c)' \subseteq Passed(d, c) \union {Id(d, c)}
         /\ pc'[d][c] \notin {"idle", "publish"}
<1>1. Len(Body[d]) \in Nat /\ at[d][c] \in 1..Len(Body[d])
  BY IngestAssumption DEF IngestAssumption, TypeOK
<1>2. /\ at'[d][c] = at[d][c] + 1
      /\ pc'[d][c] = IF at[d][c] < Len(Body[d]) THEN "dedup" ELSE "ok"
  BY DEF Advances, TypeOK
<1>3. \A i \in 1..(at'[d][c] - 1) : i \in 1..(at[d][c] - 1) \/ i = at[d][c]
  BY <1>1, <1>2
<1>4. Passed(d, c) = {IdOf[Body[d][i]] : i \in 1..(at[d][c] - 1)}
  BY DEF Passed
<1>5. CASE at[d][c] < Len(Body[d])
  <2>1. Passed(d, c)' = {IdOf[Body[d][i]] : i \in 1..(at'[d][c] - 1)}
    BY <1>2, <1>5 DEF Passed
  <2> QED
    BY <1>2, <1>3, <1>4, <1>5, <2>1 DEF Id, Event
<1>6. CASE ~(at[d][c] < Len(Body[d]))
  <2>1. at'[d][c] - 1 = Len(Body[d])
    BY <1>1, <1>2, <1>6
  <2>2. Passed(d, c)' = IdsIn(d)
    BY <1>2, <1>6 DEF Passed, IdsIn
  <2> QED
    BY <1>2, <1>3, <1>4, <1>6, <2>1, <2>2 DEF IdsIn, Id, Event
<1> QED
  BY <1>5, <1>6

\* What a request is through with after its step it was through with before,
\* or has just been found claimed.
LEMMA StepPasses ==
  ASSUME TypeOK, PassedClaimed, NEW d \in Deliveries, NEW c \in Requests,
         Receive(d, c) \/ Step(d, c)
  PROVE  /\ Passed(d, c)' \subseteq dedup'
         /\ pc'[d][c] = "publish" => Id(d, c)' \in dedup'
<1>1. dedup \subseteq dedup' /\ Passed(d, c) \subseteq dedup
  BY DEF PassedClaimed, Receive, Step, Claim, DropDuplicate, Enqueue, Refused, Answer
<1>2. CASE Advances(d, c) /\ Id(d, c) \in dedup /\ pc[d][c] \in {"dedup", "publish"}
  BY <1>1, <1>2, AdvancesPasses
\* The request stays at its event, with the same events behind it or none.
<1>3. CASE /\ UNCHANGED at /\ pc[d][c] \in {"dedup", "publish"}
           /\ pc'[d][c] \in {"dedup", "publish", "failed"}
           /\ pc'[d][c] = "publish" => Id(d, c) \in dedup'
  <2>1. Id(d, c)' = Id(d, c)
    BY <1>3 DEF Id, Event
  <2>2. Passed(d, c)' \subseteq Passed(d, c)
    BY <1>3 DEF Passed
  <2> QED
    BY <1>1, <1>3, <2>1, <2>2
<1>4. CASE Receive(d, c)
  <2>1. /\ pc'[d][c] \in {"dedup", "ok", "failed"}
        /\ pc'[d][c] = "ok" => Len(Body[d]) = 0
        /\ UNCHANGED at /\ at[d][c] = 1
    BY <1>4 DEF Receive, Goes, TypeOK
  <2>2. Passed(d, c)' = {}
    BY <2>1 DEF Passed, IdsIn
  <2> QED
    BY <2>1, <2>2
<1>5. CASE Answer(d, c)
  <2>1. pc'[d][c] = "idle"
    BY <1>5 DEF Answer, TypeOK
  <2> QED
    BY <2>1 DEF Passed
<1>6. CASE Claim(d, c)
  <2>1. UNCHANGED at /\ pc[d][c] = "dedup" /\ Id(d, c) \in dedup'
    BY <1>6 DEF Claim, ReplyLost, Goes
  <2>2. pc'[d][c] \in {"dedup", "publish", "failed"}
    BY <1>6 DEF Claim, ReplyLost, Goes, TypeOK
  <2> QED
    BY <1>3, <2>1, <2>2
<1>7. CASE DropDuplicate(d, c) \/ Enqueue(d, c) \/ Refused(d, c)
  <2>1. pc[d][c] \in {"dedup", "publish"}
    BY <1>7 DEF DropDuplicate, Enqueue, Refused
  <2>2. CASE Advances(d, c) /\ ~Refused(d, c)
    BY <1>2, <1>7, <2>1, <2>2 DEF DropDuplicate, Enqueue, PassedClaimed
  <2>3. CASE UNCHANGED at
    <3>1. pc'[d][c] = "failed" \/ UNCHANGED pc
      <4>1. ReplyLost(d, c) \/ Goes(d, c, "failed") \/ Advances(d, c)
        BY <1>7 DEF DropDuplicate, Enqueue, Refused
      <4>2. ~Advances(d, c)
        <5>1. at[d][c] \in Nat
          BY DEF TypeOK
        <5>2. Advances(d, c) => at'[d][c] = at[d][c] + 1
          BY DEF Advances, TypeOK
        <5> QED
          BY <2>3, <5>1, <5>2
      <4> QED
        BY <4>1, <4>2 DEF ReplyLost, Goes, TypeOK
    <3>2. pc[d][c] = "publish" => Id(d, c) \in dedup
      BY DEF PassedClaimed
    <3> QED
      BY <1>1, <1>3, <2>1, <2>3, <3>1, <3>2
  <2> QED
    BY <1>7, <2>2, <2>3 DEF DropDuplicate, Enqueue, Refused, ReplyLost, Goes
<1> QED
  BY <1>4, <1>5, <1>6, <1>7 DEF Step

\* The invariant survives every step.
LEMMA PassedInductive ==
  ASSUME TypeOK, PassedClaimed, [Next]_vars
  PROVE  PassedClaimed'
<1>1. ASSUME NEW d \in Deliveries, NEW c \in Requests, Receive(d, c) \/ Step(d, c)
      PROVE  PassedClaimed'
  <2>1. /\ dedup \subseteq dedup'
        /\ \/ UNCHANGED meta
           \/ pc[d][c] = "ok" /\ meta' = [meta EXCEPT ![d] = "acked"]
    BY <1>1 DEF Receive, Step, Claim, DropDuplicate, Enqueue, Refused, Answer
  <2>2. ASSUME NEW d2 \in Deliveries, NEW c2 \in Requests
        PROVE  /\ Passed(d2, c2)' \subseteq dedup'
               /\ pc'[d2][c2] = "publish" => Id(d2, c2)' \in dedup'
    <3>1. CASE <<d2, c2>> = <<d, c>>
      BY <1>1, <3>1, StepPasses
    <3>2. CASE <<d2, c2>> # <<d, c>>
      <4>1. pc'[d2][c2] = pc[d2][c2] /\ at'[d2][c2] = at[d2][c2]
        BY <1>1, <3>2, OthersStay
      <4>2. Passed(d2, c2)' = Passed(d2, c2) /\ Id(d2, c2)' = Id(d2, c2)
        BY <4>1 DEF Passed, Id, Event, IdsIn
      <4> QED
        BY <2>1, <4>1, <4>2 DEF PassedClaimed
    <3> QED
      BY <3>1, <3>2
  <2>3. ASSUME NEW d2 \in Deliveries, NEW c2 \in Requests, pc'[d2][c2] # "idle"
        PROVE  meta'[d2] # "closed"
    <3>1. meta[d2] # "closed"
      <4>1. CASE <<d2, c2>> = <<d, c>>
        BY <1>1, <4>1 DEF PassedClaimed, Receive, Step, Claim, DropDuplicate,
                          Enqueue, Refused, Answer
      <4>2. CASE <<d2, c2>> # <<d, c>>
        BY <1>1, <2>3, <4>2, OthersStay DEF PassedClaimed
      <4> QED
        BY <4>1, <4>2
    <3> QED
      BY <2>1, <3>1 DEF TypeOK
  <2>4. AckedIsClaimed'
    <3>1. pc[d][c] = "ok" => IdsIn(d) \subseteq dedup
      BY DEF PassedClaimed, Passed
    <3>2. \A d2 \in Deliveries : meta'[d2] = "acked" => IdsIn(d2) \subseteq dedup'
      BY <2>1, <3>1 DEF PassedClaimed, AckedIsClaimed, TypeOK
    <3> QED
      BY <3>2 DEF AckedIsClaimed, IdsIn
  <2> QED
    BY <2>2, <2>3, <2>4 DEF PassedClaimed
<1>2. ASSUME NEW d \in Deliveries, Close(d) PROVE PassedClaimed'
  <2>1. /\ meta' = [meta EXCEPT ![d] = "closed"] /\ UNCHANGED <<pc, at, dedup>>
        /\ \A c \in Requests : pc[d][c] = "idle"
    BY <1>2 DEF Close
  <2> QED
    BY <2>1 DEF PassedClaimed, AckedIsClaimed, Passed, IdsIn, Id, Event, TypeOK
\* A key that lapses is of no delivery a request of which runs.
<1>3. ASSUME NEW id \in Ids, KeyLapses(id) PROVE PassedClaimed'
  <2>1. /\ \A d \in Deliveries : id \in IdsIn(d) => meta[d] = "closed"
        /\ dedup' = dedup \ {id} /\ UNCHANGED <<meta, pc, at>>
    BY <1>3 DEF KeyLapses
  <2>2. \A d \in Deliveries, c \in Requests :
          Passed(d, c)' = Passed(d, c) /\ Id(d, c)' = Id(d, c)
    BY <2>1 DEF Passed, IdsIn, Id, Event
  <2>3. ASSUME NEW d \in Deliveries, NEW c \in Requests PROVE id \notin Passed(d, c)
    <3>1. pc[d][c] = "idle" \/ id \notin IdsIn(d)
      BY <2>1 DEF PassedClaimed
    <3>2. pc[d][c] = "idle" => Passed(d, c) = {}
      BY DEF Passed
    <3> QED
      BY <3>1, <3>2, PassedIsInBody
  <2>4. ASSUME NEW d \in Deliveries, NEW c \in Requests, pc[d][c] = "publish"
        PROVE  Id(d, c) # id
    BY <2>1, <2>4, IdIsInBody DEF PassedClaimed
  <2>5. AckedIsClaimed'
    BY <2>1 DEF PassedClaimed, AckedIsClaimed, IdsIn
  <2> QED
    BY <2>1, <2>2, <2>3, <2>4, <2>5 DEF PassedClaimed
<1>4. CASE Start \/ Crash \/ UNCHANGED vars
  <2>1. UNCHANGED <<meta, dedup>>
    BY <1>4 DEF Start, Crash, vars
  <2>2. ASSUME NEW d \in Deliveries, NEW c \in Requests
        PROVE  \/ pc'[d][c] = "idle"
               \/ pc'[d][c] = pc[d][c] /\ at'[d][c] = at[d][c]
    BY <1>4 DEF Start, Crash, vars
  <2>3. ASSUME NEW d \in Deliveries, NEW c \in Requests
        PROVE  /\ Passed(d, c)' \subseteq Passed(d, c)
               /\ pc'[d][c] = "publish" => pc[d][c] = "publish" /\ Id(d, c)' = Id(d, c)
    BY <2>2 DEF Passed, Id, Event, IdsIn
  <2>4. AckedIsClaimed'
    BY <2>1 DEF PassedClaimed, AckedIsClaimed, IdsIn
  <2>5. \A d \in Deliveries, c \in Requests :
          pc'[d][c] # "idle" => pc[d][c] # "idle"
    BY <2>2
  <2> QED
    BY <2>1, <2>3, <2>4, <2>5 DEF PassedClaimed
<1> QED
  BY <1>1, <1>2, <1>3, <1>4 DEF Next

\* It holds from the start.
LEMMA PassedAtFirst == Init => PassedClaimed
BY DEF Init, PassedClaimed, AckedIsClaimed, Passed

\* Meta is told 200 only when the key of every event of the delivery exists,
\* for any deliveries and any number of requests, whatever fails or is re-sent.
THEOREM AckCoversPayload == Spec => []AckedIsClaimed
<1>1. TypeOK /\ PassedClaimed /\ [Next]_vars => PassedClaimed'
  BY PassedInductive
<1>2. PassedClaimed => AckedIsClaimed
  BY DEF PassedClaimed
<1> QED
  BY <1>1, <1>2, PassedAtFirst, TypesInductive, PTL DEF Spec

-----------------------------------------------------------------------------
(* Nothing is lost without a fault *)

Stored(id) == Queued(id) \/ Coming(id)

\* Until something fails, an id with a key is in the stream or on its way.
ClaimedIsStored ==
  faults = 0 => (\A id \in dedup : Stored(id)) /\ AcceptedIsDurable

\* In a step without a fault, what is stored stays so.
LEMMA StoredStays ==
  ASSUME TypeOK, [Next]_vars, faults' = 0, NEW id, Stored(id)
  PROVE  faults = 0 /\ Stored(id)'
<1>1. faults = 0 /\ ~Fault
  BY DEF Next, Receive, Step, Claim, DropDuplicate, Enqueue, Refused, Answer,
         ReplyLost, Fault, Close, KeyLapses, Start, Crash, vars, TypeOK
<1> SUFFICES Stored(id)'
  BY <1>1
<1>2. CASE Queued(id)
  <2>1. PICK i \in 1..Len(stream) : IdOf[stream[i]] = id
    BY <1>2 DEF Queued
  <2>2. CASE UNCHANGED stream
    BY <2>1, <2>2 DEF Stored, Queued
  <2>3. CASE \E d \in Deliveries, c \in Requests : Enqueue(d, c)
    <3>1. PICK d \in Deliveries, c \in Requests : Enqueue(d, c)
      BY <2>3
    <3>2. Event(d, c) \in Events /\ stream \in Seq(Events)
      BY <3>1, IngestAssumption DEF Enqueue, Event, TypeOK, IngestAssumption
    <3>3. i \in 1..Len(stream') /\ stream'[i] = stream[i]
      BY <3>1, <3>2, AppendProperties DEF Enqueue
    <3> QED
      BY <2>1, <3>3 DEF Stored, Queued
  <2> QED
    BY <2>2, <2>3 DEF Next, Receive, Step, Claim, DropDuplicate, Refused, Answer,
                      Close, KeyLapses, Start, Crash, vars
<1>3. CASE Coming(id)
  <2>1. PICK d \in Deliveries, c \in Requests : pc[d][c] = "publish" /\ Id(d, c) = id
    BY <1>3 DEF Coming, Publishing
  <2>2. CASE pc'[d][c] = pc[d][c] /\ at'[d][c] = at[d][c]
    BY <2>1, <2>2 DEF Stored, Coming, Publishing, Id, Event
  <2>3. CASE Enqueue(d, c)
    <3>1. Event(d, c) \in Events /\ stream \in Seq(Events)
      BY <2>1, IngestAssumption DEF Event, TypeOK, IngestAssumption
    <3>2. Len(stream') \in 1..Len(stream') /\ stream'[Len(stream')] = Event(d, c)
      BY <2>3, <3>1, AppendProperties DEF Enqueue
    <3> QED
      BY <2>1, <3>2 DEF Stored, Queued, Id
  <2>4. ASSUME NEW d2 \in Deliveries, NEW c2 \in Requests,
               Receive(d2, c2) \/ Step(d2, c2)
        PROVE  Stored(id)'
    <3>1. CASE <<d2, c2>> = <<d, c>>
      BY <1>1, <2>1, <2>3, <2>4, <3>1
         DEF Receive, Step, Claim, DropDuplicate, Refused, Answer
    <3>2. CASE <<d2, c2>> # <<d, c>>
      BY <2>2, <2>4, <3>2, OthersStay
    <3> QED
      BY <3>1, <3>2
  <2> QED
    BY <1>1, <2>2, <2>4 DEF Next, Close, KeyLapses, Start, Crash, vars
<1> QED
  BY <1>2, <1>3 DEF Stored

\* The invariant survives every step.
LEMMA StoredInductive ==
  ASSUME TypeOK, PassedClaimed, ClaimedIsStored, [Next]_vars
  PROVE  ClaimedIsStored'
<1> SUFFICES ASSUME faults' = 0
             PROVE  (\A id \in dedup' : Stored(id)') /\ AcceptedIsDurable'
  BY DEF ClaimedIsStored
\* Without a fault a key is only ever made by a request that goes on to write.
<1>1. ASSUME NEW id \in dedup' PROVE Stored(id)'
  <2>1. CASE id \in dedup
    <3>1. faults = 0
      BY DEF Next, Receive, Step, Claim, DropDuplicate, Enqueue, Refused, Answer,
             ReplyLost, Fault, Close, KeyLapses, Start, Crash, vars, TypeOK
    <3> QED
      BY <2>1, <3>1, StoredStays DEF ClaimedIsStored
  <2>2. CASE id \notin dedup
    <3>1. PICK d \in Deliveries, c \in Requests : Claim(d, c) /\ id = Id(d, c)
      BY <1>1, <2>2 DEF Next, Receive, Step, Claim, DropDuplicate, Enqueue, Refused,
                        Answer, Close, KeyLapses, Start, Crash, vars
    <3>2. ~ReplyLost(d, c)
      BY DEF ReplyLost, Fault, TypeOK
    <3>3. Goes(d, c, "publish")
      BY <3>1, <3>2 DEF Claim
    <3>4. pc'[d][c] = "publish" /\ Id(d, c)' = id
      BY <3>1, <3>3 DEF Goes, Id, Event, TypeOK
    <3> QED
      BY <3>4 DEF Stored, Coming, Publishing
  <2> QED
    BY <2>1, <2>2
<1>2. ASSUME NEW d \in Deliveries, meta'[d] # "open", NEW id \in IdsIn(d)
      PROVE  Stored(id)'
  <2>1. CASE meta[d] # "open"
    <3>1. faults = 0
      BY DEF Next, Receive, Step, Claim, DropDuplicate, Enqueue, Refused, Answer,
             ReplyLost, Fault, Close, KeyLapses, Start, Crash, vars, TypeOK
    <3>2. Stored(id)
      BY <1>2, <2>1, <3>1 DEF ClaimedIsStored, AcceptedIsDurable, Stored
    <3> QED
      BY <3>2, StoredStays
  <2>2. CASE meta[d] = "open"
    <3>1. PICK c \in Requests : Answer(d, c) /\ pc[d][c] = "ok"
      BY <1>2, <2>2 DEF Next, Receive, Step, Claim, DropDuplicate, Enqueue, Refused,
                        Answer, Close, KeyLapses, Start, Crash, vars, TypeOK
    <3>2. id \in dedup'
      BY <1>2, <3>1 DEF PassedClaimed, Passed, Answer
    <3> QED
      BY <1>1, <3>2
  <2> QED
    BY <2>1, <2>2
<1>3. AcceptedIsDurable'
  BY <1>2 DEF AcceptedIsDurable, Stored, IdsIn
<1> QED
  BY <1>1, <1>3

\* It holds from the start.
LEMMA StoredAtFirst == Init => ClaimedIsStored
BY DEF Init, ClaimedIsStored, AcceptedIsDurable

\* Until something fails, Meta is told 200 only for ids that are in the stream
\* or that a request is just writing, for any number of concurrent requests.
THEOREM NoLossWithoutFault == Spec => []LossNeedsFault
<1>1. TypeOK /\ PassedClaimed /\ [Next]_vars => PassedClaimed'
  BY PassedInductive
<1>2. TypeOK /\ PassedClaimed /\ ClaimedIsStored /\ [Next]_vars => ClaimedIsStored'
  BY StoredInductive
<1>3. ClaimedIsStored => LossNeedsFault
  BY DEF ClaimedIsStored, LossNeedsFault
<1> QED
  BY <1>1, <1>2, <1>3, PassedAtFirst, StoredAtFirst, TypesInductive, PTL DEF Spec

-----------------------------------------------------------------------------
(* The invariants, for whoever composes the API with something else *)

\* What is known of a 200 holds from the start and after every step.
LEMMA AcceptanceInductive ==
  /\ Init => TypeOK /\ PassedClaimed /\ ClaimedIsStored
  /\ TypeOK /\ PassedClaimed /\ ClaimedIsStored /\ [Next]_vars =>
       (TypeOK /\ PassedClaimed /\ ClaimedIsStored)'
BY TypesInductive, PassedAtFirst, PassedInductive, StoredAtFirst, StoredInductive
=============================================================================
