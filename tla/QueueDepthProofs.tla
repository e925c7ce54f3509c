--------------------------- MODULE QueueDepthProofs ---------------------------
(***************************************************************************)
(* Proofs about QueueDepth: what depth() reports, between two commands, is *)
(* neither less than what waits nor more than what is left.                *)
(***************************************************************************)
EXTENDS QueueDepth, CopiesProofs

\* The readers' state has its types.
DepthTypeOK ==
  /\ first \in [Readers -> Nat \union {NoReply}]
  /\ queued \in [Readers -> Nat \union {NoReply}]
  /\ unread \in [Readers -> SUBSET EntryIds]
  /\ slack \in [Readers -> Nat]

\* What depth() finds is finite.
LEMMA StreamIsFinite ==
  ASSUME TypeOK
  PROVE  /\ IsFiniteSet(EntryIds)
         /\ \A S \in SUBSET EntryIds : IsFiniteSet(S) /\ Cardinality(S) \in Nat
         /\ pel \in SUBSET EntryIds /\ present \in SUBSET EntryIds
<1>1. IsFiniteSet(EntryIds)
  BY DeliveryAssumption, SizeOfRange DEF EntryIds, DeliveryAssumption
<1> QED
  BY <1>1, FS_Subset, FS_CardinalityType DEF TypeOK

\* A union has at most as many members as its parts together.
LEMMA AtMostTheSum ==
  ASSUME TypeOK, NEW S \in SUBSET EntryIds, NEW T \in SUBSET EntryIds
  PROVE  Cardinality(S \union T) <= Cardinality(S) + Cardinality(T)
<1>1. /\ IsFiniteSet(S) /\ IsFiniteSet(T)
      /\ Cardinality(S) \in Nat /\ Cardinality(T) \in Nat
      /\ Cardinality(S \intersect T) \in Nat
  BY StreamIsFinite
<1>2. Cardinality(S \union T) = Cardinality(S) + Cardinality(T) - Cardinality(S \intersect T)
  BY <1>1, FS_Union
<1> QED
  BY <1>1, <1>2

\* A call's steps leave the delivery path alone, but for a fault counted.
LEMMA CallLeavesDelivery ==
  ASSUME NEW r \in Readers,
         Measure(r) \/ Report(r) \/ ReportWithoutGroup(r) \/ GiveUp(r)
  PROVE  /\ UNCHANGED <<redisVars, received, confirmed, workerVars>>
         /\ UNCHANGED faults \/ Fault
  BY DEF Measure, Report, ReportWithoutGroup, GiveUp, vars

LEMMA DepthTypesInductive ==
  ASSUME TypeOK, ReadInOrder, DepthTypeOK, [DepthNext]_<<vars, depthVars>>
  PROVE  TypeOK' /\ ReadInOrder' /\ DepthTypeOK'
<1>1. CASE UNCHANGED <<vars, depthVars>>
  <2>1. UNCHANGED vars /\ UNCHANGED depthVars
    BY <1>1
  <2>2. DepthTypeOK'
    BY <2>1 DEF DepthTypeOK, depthVars
  <2> QED
    BY <2>1, <2>2, TypesInductive
<1>2. CASE Meanwhile
  <2>1. TypeOK' /\ ReadInOrder'
    BY <1>2, TypesInductive DEF Meanwhile
  <2>2. Cardinality(pel \ pel') \in Nat
    BY StreamIsFinite
  <2>3. DepthTypeOK'
    BY <1>2, <2>2 DEF Meanwhile, DepthTypeOK
  <2> QED
    BY <2>1, <2>3
<1>3. ASSUME NEW r \in Readers,
             Measure(r) \/ Report(r) \/ ReportWithoutGroup(r) \/ GiveUp(r)
      PROVE  TypeOK' /\ ReadInOrder' /\ DepthTypeOK'
  <2>1. TypeOK' /\ ReadInOrder'
    <3>1. UNCHANGED <<redisVars, received, confirmed, workerVars>>
      BY <1>3, CallLeavesDelivery
    <3>2. faults' \in 0..MaxFaults
      BY <1>3, CallLeavesDelivery, DeliveryAssumption DEF Fault, TypeOK, DeliveryAssumption
    <3> QED
      BY <3>1, <3>2 DEF TypeOK, ReadInOrder, redisVars, workerVars
  <2>2. /\ Cardinality(present) \in Nat /\ Cardinality(pel) \in Nat
        /\ Unread \in SUBSET EntryIds /\ Cardinality(Residue) \in Nat
    BY StreamIsFinite DEF Unread, Residue
  <2>3. CASE Measure(r)
    <3>1. Reply(Commands[1]) \in Nat
      BY <2>2 DEF Reply
    <3> QED
      BY <2>1, <2>2, <2>3, <3>1 DEF Measure, DepthTypeOK
  <2>4. ASSUME NEW reply \in Nat, first[r] # NoReply, Reports(r, reply)
        PROVE  DepthTypeOK'
    <3>1. first[r] \in Nat
      BY <2>4 DEF DepthTypeOK
    <3>2. Queued(first[r], reply) \in Nat /\ Queued(reply, first[r]) \in Nat
      BY <3>1 DEF Queued
    <3> QED
      BY <2>4, <3>2 DEF Reports, DepthTypeOK
  <2>5. CASE Report(r)
    <3>1. Reply(Commands[2]) \in Nat
      BY <2>2 DEF Reply
    <3> QED
      BY <2>1, <2>4, <2>5, <3>1 DEF Report
  <2>6. CASE ReportWithoutGroup(r)
    BY <2>1, <2>4, <2>6 DEF ReportWithoutGroup
  <2>7. CASE GiveUp(r)
    BY <2>1, <2>7 DEF GiveUp, DepthTypeOK
  <2> QED
    BY <1>3, <2>3, <2>5, <2>6, <2>7
<1> QED
  BY <1>1, <1>2, <1>3 DEF DepthNext

\* A report is the end of a call.
LEMMA WhoReports ==
  ASSUME DepthTypeOK, [DepthNext]_<<vars, depthVars>>, NEW r \in Readers, Reported(r)
  PROVE  /\ first[r] # NoReply
         /\ \/ Report(r) /\ queued'[r] = Queued(first[r], Cardinality(pel))
            \/ ReportWithoutGroup(r) /\ queued'[r] = Queued(first[r], 0)
<1>1. ~UNCHANGED queued
  BY DEF Reported
<1>2. ~Meanwhile
  BY DEF Meanwhile, Reported
<1>3. PICK s \in Readers : Measure(s) \/ Report(s) \/ ReportWithoutGroup(s) \/ GiveUp(s)
  BY <1>1, <1>2 DEF DepthNext, depthVars
<1>4. ~GiveUp(s)
  BY <1>1 DEF GiveUp
<1>5. ~Measure(s)
  <2>1. ASSUME Measure(s) PROVE FALSE
    <3>1. queued' = [queued EXCEPT ![s] = NoReply]
      BY <2>1 DEF Measure
    <3>2. queued'[r] \in {queued[r], NoReply}
      BY <3>1 DEF DepthTypeOK
    <3> QED
      BY <3>2 DEF Reported
  <2> QED
    BY <2>1
<1>6. Commands[1] = "xlen" /\ Commands[2] = "xpending"
  BY DEF Commands
<1>7. Reply(Commands[2]) = Cardinality(pel)
  BY <1>6 DEF Reply
<1>8. ASSUME NEW reply, Reports(s, reply)
      PROVE  s = r /\ queued'[r] = Queued(first[r], reply)
  <2>1. queued' = [queued EXCEPT ![s] = Queued(first[s], reply)]
    BY <1>6, <1>8 DEF Reports
  <2>2. s = r
    BY <2>1 DEF DepthTypeOK, Reported
  <2> QED
    BY <2>1, <2>2 DEF DepthTypeOK
<1> QED
  BY <1>3, <1>4, <1>5, <1>7, <1>8 DEF Report, ReportWithoutGroup

-----------------------------------------------------------------------------
(* What workers hold is not reported as waiting *)

\* While a call is under way, what it counted is accounted for: nobody had read
\* it, or it was acked then or since, or it is pending.
Accounted ==
  \A r \in Readers : first[r] # NoReply =>
    first[r] <= Cardinality(unread[r]) + slack[r] + Cardinality(pel)

LEMMA MeasureAccounts ==
  ASSUME TypeOK, DepthTypeOK, Accounted, NEW r \in Readers, Measure(r)
  PROVE  Accounted'
<1>1. /\ first' = [first EXCEPT ![r] = Cardinality(present)]
      /\ unread' = [unread EXCEPT ![r] = Unread]
      /\ slack' = [slack EXCEPT ![r] = Cardinality(Residue)]
      /\ UNCHANGED pel
  BY DEF Measure, Commands, Reply, vars, redisVars
<1>2. Cardinality(present) <= Cardinality(Unread) + Cardinality(Residue) + Cardinality(pel)
  <2>1. /\ Unread \in SUBSET EntryIds /\ Residue \in SUBSET EntryIds
        /\ Unread \union Residue \in SUBSET EntryIds
        /\ (Unread \union Residue) \union pel \in SUBSET EntryIds
    BY StreamIsFinite DEF Unread, Residue
  <2>2. /\ Cardinality(Unread \union Residue) <= Cardinality(Unread) + Cardinality(Residue)
    BY <2>1, AtMostTheSum
  <2>3. Cardinality((Unread \union Residue) \union pel)
          <= Cardinality(Unread \union Residue) + Cardinality(pel)
    BY <2>1, StreamIsFinite, AtMostTheSum
  <2>4. present \subseteq (Unread \union Residue) \union pel
    BY DeliveryAssumption DEF Unread, Residue, TypeOK, EntryIds, DeliveryAssumption
  <2>5. Cardinality(present) <= Cardinality((Unread \union Residue) \union pel)
    BY <2>1, <2>4, StreamIsFinite, FS_Subset
  <2>6. /\ Cardinality(present) \in Nat /\ Cardinality(Unread) \in Nat
        /\ Cardinality(Residue) \in Nat /\ Cardinality(pel) \in Nat
        /\ Cardinality(Unread \union Residue) \in Nat
        /\ Cardinality((Unread \union Residue) \union pel) \in Nat
    BY <2>1, StreamIsFinite
  <2> QED
    BY <2>2, <2>3, <2>5, <2>6
<1> QED
  BY <1>1, <1>2 DEF Accounted, DepthTypeOK

LEMMA AccountedInductive ==
  ASSUME TypeOK, ReadInOrder, DepthTypeOK, Accounted, [DepthNext]_<<vars, depthVars>>
  PROVE  Accounted'
<1>1. CASE UNCHANGED <<vars, depthVars>>
  BY <1>1 DEF Accounted, vars, redisVars, depthVars
<1>2. CASE Meanwhile
  <2>1. pel' \in SUBSET EntryIds /\ pel \in SUBSET EntryIds /\ pel \ pel' \in SUBSET EntryIds
    BY <1>2, TypesInductive DEF Meanwhile, TypeOK
  <2>2. Cardinality((pel \ pel') \union pel') <= Cardinality(pel \ pel') + Cardinality(pel')
    BY <2>1, AtMostTheSum
  <2>3. (pel \ pel') \union pel' \in SUBSET EntryIds /\ pel \subseteq (pel \ pel') \union pel'
    BY <2>1
  <2>4. Cardinality(pel) <= Cardinality((pel \ pel') \union pel')
    BY <2>3, StreamIsFinite, FS_Subset
  <2>5. /\ Cardinality(pel) \in Nat /\ Cardinality(pel') \in Nat
        /\ Cardinality(pel \ pel') \in Nat
        /\ Cardinality((pel \ pel') \union pel') \in Nat
    BY <2>1, <2>3, StreamIsFinite
  <2>6. Cardinality(pel) <= Cardinality(pel \ pel') + Cardinality(pel')
    BY <2>2, <2>4, <2>5
  <2> SUFFICES ASSUME NEW r \in Readers, first'[r] # NoReply
               PROVE  first'[r] <= Cardinality(unread'[r]) + slack'[r] + Cardinality(pel')
    BY DEF Accounted
  <2>7. /\ first'[r] = first[r] /\ unread'[r] = unread[r]
        /\ slack'[r] = slack[r] + Cardinality(pel \ pel')
    BY <1>2 DEF Meanwhile
  <2>8. first[r] <= Cardinality(unread[r]) + slack[r] + Cardinality(pel)
    BY <2>7 DEF Accounted
  <2>9. first[r] \in Nat /\ slack[r] \in Nat /\ Cardinality(unread[r]) \in Nat
    BY <2>7, StreamIsFinite DEF DepthTypeOK
  <2> QED
    BY <2>5, <2>6, <2>7, <2>8, <2>9
<1>3. ASSUME NEW r \in Readers, Report(r) \/ ReportWithoutGroup(r) \/ GiveUp(r)
      PROVE  Accounted'
  <2>1. /\ first' = [first EXCEPT ![r] = NoReply] /\ UNCHANGED pel
        /\ unread' = [unread EXCEPT ![r] = {}] /\ slack' = [slack EXCEPT ![r] = 0]
    BY <1>3 DEF Report, ReportWithoutGroup, GiveUp, Reports, vars, redisVars
  <2> QED
    BY <2>1 DEF Accounted, DepthTypeOK
<1> QED
  BY <1>1, <1>2, <1>3, MeasureAccounts DEF DepthNext

\* What depth() reports beyond the entries that no worker had read is no more
\* than those acked since, or acked and not deleted before: for any stream,
\* trimmed or not, any number of workers, callers and faults.
THEOREM NoPhantom == DepthSpec => NoPhantomBacklog
<1> DEFINE Inv == TypeOK /\ ReadInOrder /\ DepthTypeOK /\ Accounted
           Honest == \A r \in Readers : Reported(r) /\ UNCHANGED faults =>
                       queued'[r] <= Cardinality(unread[r]) + slack[r]
<1>1. DepthInit => Inv
  <2>1. DepthInit => TypeOK /\ ReadInOrder
    BY TypesInductive DEF DepthInit
  <2>2. DepthInit => DepthTypeOK /\ Accounted
    BY DEF DepthInit, DepthTypeOK, Accounted
  <2> QED
    BY <2>1, <2>2
<1>2. Inv /\ [DepthNext]_<<vars, depthVars>> => Inv'
  BY DepthTypesInductive, AccountedInductive
<1>3. Inv /\ [DepthNext]_<<vars, depthVars>> => [Honest]_<<vars, depthVars>>
  <2> SUFFICES ASSUME Inv, [DepthNext]_<<vars, depthVars>>, NEW r \in Readers,
                      Reported(r), UNCHANGED faults
               PROVE  queued'[r] <= Cardinality(unread[r]) + slack[r]
    OBVIOUS
  <2>1. first[r] # NoReply /\ (Report(r) \/ ReportWithoutGroup(r))
    BY WhoReports
  <2>2. faults \in Nat
    BY DeliveryAssumption DEF TypeOK, DeliveryAssumption
  <2>3. ~ReportWithoutGroup(r)
    BY <2>2 DEF ReportWithoutGroup, Fault
  <2>4. queued'[r] = Queued(first[r], Cardinality(pel))
    BY <2>3, WhoReports
  <2>5. first[r] <= Cardinality(unread[r]) + slack[r] + Cardinality(pel)
    BY <2>1 DEF Accounted
  <2>6. /\ first[r] \in Nat /\ slack[r] \in Nat
        /\ Cardinality(unread[r]) \in Nat /\ Cardinality(pel) \in Nat
    BY <2>1, StreamIsFinite DEF DepthTypeOK
  <2> QED
    BY <2>4, <2>5, <2>6 DEF Queued
<1> QED
  BY <1>1, <1>2, <1>3, PTL DEF DepthSpec, NoPhantomBacklog

-----------------------------------------------------------------------------
(* What waits is reported *)

\* In a stream that is not trimmed only XDEL takes an entry out, and by then its
\* handler has acked it.
AckedBeforeDeleted ==
  /\ PendingPresent
  /\ \A w \in Workers, e \in EntryIds : handler[w][e] = "xdel" => e \notin pel

LEMMA XAddDropsNothing ==
  ASSUME TypeOK, NEW m \in Msgs, NEW rc \in 0..MaxRetries, XAdd(m, rc), ~Trims
  PROVE  present' = present \union {Len(log')}
<1>1. Len(log') = Len(log) + 1
  BY XAddAppends
<1>2. Len(log) \in Nat
  BY DEF TypeOK
<1> QED
  BY <1>1, <1>2 DEF Trims

LEMMA HandlerStepDeletes ==
  ASSUME TypeOK, ReadInOrder, AckedBeforeDeleted, ~Trims,
         NEW w \in Workers, NEW e \in EntryIds, HandlerStep(w, e)
  PROVE  AckedBeforeDeleted'
<1>1. PICK q \in PC :
        /\ handler' = [handler EXCEPT ![w][e] = q]
        /\ q = "xdel" => handler[w][e] = "xdel" \/ e \notin pel'
  BY HandlerStepEffect
<1>2. pel' \subseteq pel
  BY HandlerStepEffect
<1>3. \A v \in Workers, f \in EntryIds : handler'[v][f] = "xdel" => f \notin pel'
  <2> SUFFICES ASSUME NEW v \in Workers, NEW f \in EntryIds, handler'[v][f] = "xdel"
               PROVE  f \notin pel'
    OBVIOUS
  <2>1. handler'[v][f] = IF v = w /\ f = e THEN q ELSE handler[v][f]
    BY <1>1 DEF TypeOK
  <2> QED
    BY <1>1, <1>2, <2>1 DEF AckedBeforeDeleted
<1>4. pel' \subseteq present'
  <2>1. CASE Requeue(w, e)
    <3>1. /\ Msg(e) \in Msgs /\ log[e].rc + 1 \in 0..MaxRetries
      <4>1. handler[w][e] = "requeue"
        BY <2>1 DEF Requeue
      <4>2. e <= lastDelivered /\ lastDelivered <= Len(log) /\ log[e].rc < MaxRetries
        BY <4>1 DEF ReadInOrder
      <4>3. e \in 1..Len(log)
        BY <4>2, DeliveryAssumption DEF TypeOK, EntryIds, DeliveryAssumption
      <4>4. log[e] \in Entry
        BY <4>3 DEF TypeOK
      <4> QED
        BY <4>2, <4>4, DeliveryAssumption DEF Entry, Msg, DeliveryAssumption
    <3>2. XAdd(Msg(e), log[e].rc + 1)
      BY <2>1 DEF Requeue
    <3>3. present' = present \union {Len(log')}
      BY <3>1, <3>2, XAddDropsNothing
    <3> QED
      BY <1>2, <3>3 DEF AckedBeforeDeleted, PendingPresent
  <2>2. CASE XDel(w, e)
    <3>1. handler[w][e] = "xdel" /\ present' = present \ {e}
      BY <2>2 DEF XDel
    <3> QED
      BY <1>2, <3>1 DEF AckedBeforeDeleted, PendingPresent
  <2>3. CASE ~Requeue(w, e) /\ ~XDel(w, e)
    <3>1. UNCHANGED present
      BY <2>3 DEF HandlerStep, WinClaim, LoseClaim, ReadClaim, Land, Reject, NoDownstream,
             Confirm, LoseAnswer, Complete, DeadLetter, Abandon, XAck, Refused, redisVars
    <3> QED
      BY <1>2, <3>1 DEF AckedBeforeDeleted, PendingPresent
  <2> QED
    BY <2>1, <2>2, <2>3
<1> QED
  BY <1>3, <1>4 DEF AckedBeforeDeleted, PendingPresent

LEMMA DeletedInductive ==
  ASSUME TypeOK, ReadInOrder, AckedBeforeDeleted, [Next]_vars, ~Trims
  PROVE  AckedBeforeDeleted'
\* Steps that only add to the stream, and handlers that end.
<1>1. ASSUME pel' \subseteq pel \union (present' \ 1..lastDelivered),
             pel' \intersect present \subseteq present',
             \A v \in Workers, f \in EntryIds :
               handler'[v][f] \in {handler[v][f], "idle", "begin"},
             pel \intersect pel' \subseteq present
      PROVE  AckedBeforeDeleted'
  <2>1. pel' \subseteq present'
    BY <1>1 DEF AckedBeforeDeleted, PendingPresent
  <2>2. ASSUME NEW v \in Workers, NEW f \in EntryIds, handler'[v][f] = "xdel", f \in pel'
        PROVE  FALSE
    <3>1. handler[v][f] = "xdel"
      BY <1>1, <2>2
    <3>2. f \notin pel /\ f <= lastDelivered
      BY <3>1 DEF AckedBeforeDeleted, ReadInOrder
    <3>3. f \in 1..lastDelivered
      BY <3>2, DeliveryAssumption DEF TypeOK, EntryIds, DeliveryAssumption
    <3> QED
      BY <1>1, <2>2, <3>2, <3>3
  <2> QED
    BY <2>1, <2>2 DEF AckedBeforeDeleted, PendingPresent
<1>2. pel \subseteq present
  BY DEF AckedBeforeDeleted, PendingPresent
<1>3. CASE \/ \E m \in Msgs : ClaimLapses(m) \/ MarkerLapses(m)
           \/ \E e \in EntryIds : GoStale(e)
           \/ \E w \in Workers : RequestShutdown(w)
           \/ UNCHANGED vars
  <2>1. UNCHANGED <<pel, present, handler>>
    BY <1>3 DEF ClaimLapses, MarkerLapses, GoStale, RequestShutdown, vars, redisVars, workerVars
  <2> QED
    BY <2>1 DEF AckedBeforeDeleted, PendingPresent
<1>4. ASSUME NEW m \in Msgs, Publish(m) \/ PublishAgain(m)
      PROVE  AckedBeforeDeleted'
  <2>1. XAdd(m, 0) /\ UNCHANGED <<pel, handler>>
    BY <1>4 DEF Publish, PublishAgain, workerVars
  <2>2. 0 \in 0..MaxRetries
    BY DeliveryAssumption DEF DeliveryAssumption
  <2>3. present' = present \union {Len(log')}
    BY <2>1, <2>2, XAddDropsNothing
  <2> QED
    BY <2>1, <2>3 DEF AckedBeforeDeleted, PendingPresent
<1>5. ASSUME NEW w \in Workers, LoopStep(w)
      PROVE  AckedBeforeDeleted'
  <2>1. CASE Start(w) \/ EndBatch(w) \/ Stop(w)
    BY <2>1 DEF Start, EndBatch, Stop, redisVars, AckedBeforeDeleted, PendingPresent
  <2>2. CASE Sweep(w)
    <3>1. PICK taken \in SUBSET pel :
            /\ pel' = pel \ (taken \ present) /\ UNCHANGED present
            /\ Begins(w, taken \intersect present) \/ UNCHANGED handler
      BY <2>2, SweepTakes
    <3>2. \A v \in Workers, f \in EntryIds : handler'[v][f] \in {handler[v][f], "idle", "begin"}
      BY <3>1 DEF Begins, TypeOK
    <3> QED
      BY <1>1, <1>2, <3>1, <3>2
  <2>3. CASE ReadNew(w)
    <3>1. PICK taken \in SUBSET present :
            /\ \A e \in taken : e > lastDelivered
            /\ pel' = pel \union taken /\ UNCHANGED present
            /\ Begins(w, taken) \/ UNCHANGED handler
      BY <2>3, ReadTakes
    <3>2. \A v \in Workers, f \in EntryIds : handler'[v][f] \in {handler[v][f], "idle", "begin"}
      BY <3>1 DEF Begins, TypeOK
    <3>3. taken \intersect 1..lastDelivered = {}
      BY <3>1, DeliveryAssumption DEF TypeOK, EntryIds, DeliveryAssumption
    <3> QED
      BY <1>1, <1>2, <3>1, <3>2, <3>3
  <2> QED
    BY <1>5, <2>1, <2>2, <2>3 DEF LoopStep
<1>6. ASSUME NEW w \in Workers, Crash(w)
      PROVE  AckedBeforeDeleted'
  <2>1. /\ UNCHANGED <<pel, present>>
        /\ handler' = [handler EXCEPT ![w] = [e \in EntryIds |-> "idle"]]
    BY <1>6 DEF Crash, redisVars
  <2>2. \A v \in Workers, f \in EntryIds : handler'[v][f] \in {handler[v][f], "idle", "begin"}
    BY <2>1 DEF TypeOK
  <2> QED
    BY <1>1, <1>2, <2>1, <2>2
<1> QED
  BY <1>3, <1>4, <1>5, <1>6, HandlerStepDeletes DEF Next

\* While a call is under way, what it counted contains the entries nobody had
\* read and every entry before one of them that is still in the stream.
Counts(r, P) ==
  /\ first[r] = Cardinality(P)
  /\ unread[r] \subseteq P /\ unread[r] \subseteq 1..Len(log)
  /\ \A e \in present, u \in unread[r] : e <= u => e \in P

Snapshots == \A r \in Readers : first[r] # NoReply => \E P \in SUBSET EntryIds : Counts(r, P)

\* The stream only grows behind what was there.
LEMMA StreamGrowsBehind ==
  ASSUME TypeOK, ReadInOrder, [Next]_vars
  PROVE  \A e \in present' : e \in present \/ e > Len(log)
<1>1. ASSUME NEW m \in Msgs, NEW rc \in 0..MaxRetries, XAdd(m, rc)
      PROVE  \A e \in present' : e \in present \/ e > Len(log)
  <2>1. present' \subseteq present \union {Len(log) + 1}
    BY <1>1, XAddAppends
  <2>2. Len(log) \in Nat
    BY DEF TypeOK
  <2> QED
    BY <2>1, <2>2
<1>2. CASE present' \subseteq present
  BY <1>2
<1>3. CASE \E m \in Msgs : Publish(m) \/ PublishAgain(m)
  BY <1>1, <1>3, DeliveryAssumption DEF Publish, PublishAgain, DeliveryAssumption
<1>4. CASE \E w \in Workers, e \in EntryIds : Requeue(w, e)
  <2>1. PICK w \in Workers, e \in EntryIds : Requeue(w, e)
    BY <1>4
  <2>2. handler[w][e] = "requeue" /\ XAdd(Msg(e), log[e].rc + 1)
    BY <2>1 DEF Requeue
  <2>3. e <= lastDelivered /\ lastDelivered <= Len(log) /\ log[e].rc < MaxRetries
    BY <2>2 DEF ReadInOrder
  <2>4. e \in 1..Len(log)
    BY <2>3, DeliveryAssumption DEF TypeOK, EntryIds, DeliveryAssumption
  <2>5. log[e] \in Entry
    BY <2>4 DEF TypeOK
  <2>6. Msg(e) \in Msgs /\ log[e].rc + 1 \in 0..MaxRetries
    BY <2>3, <2>5, DeliveryAssumption DEF Entry, Msg, DeliveryAssumption
  <2> QED
    BY <1>1, <2>2, <2>6
<1>5. CASE \E w \in Workers, e \in EntryIds : HandlerStep(w, e) /\ ~Requeue(w, e)
  <2>1. present' \subseteq present
    BY <1>5, HandlerStepEffect
  <2> QED
    BY <2>1
<1>6. ASSUME ~(\E m \in Msgs : Publish(m) \/ PublishAgain(m)),
             ~(\E w \in Workers, e \in EntryIds : HandlerStep(w, e))
      PROVE  UNCHANGED present
  BY <1>6 DEF Next, ClaimLapses, MarkerLapses, GoStale, LoopStep, Start, Sweep, ReadNew,
         EndBatch, Stop, RequestShutdown, Crash, vars, redisVars
<1> QED
  BY <1>2, <1>3, <1>4, <1>5, <1>6

LEMMA SnapshotsInductive ==
  ASSUME TypeOK, ReadInOrder, DepthTypeOK, Snapshots, [DepthNext]_<<vars, depthVars>>
  PROVE  Snapshots'
<1>1. CASE UNCHANGED <<vars, depthVars>>
  BY <1>1 DEF Snapshots, Counts, vars, redisVars, depthVars
<1>2. CASE Meanwhile
  <2> SUFFICES ASSUME NEW r \in Readers, first'[r] # NoReply
               PROVE  \E P \in SUBSET EntryIds : Counts(r, P)'
    BY DEF Snapshots
  <2>1. first'[r] = first[r] /\ unread'[r] = unread[r]
    BY <1>2 DEF Meanwhile
  <2>2. PICK P \in SUBSET EntryIds : Counts(r, P)
    BY <2>1 DEF Snapshots
  <2>3. Len(log) \in Nat /\ Len(log') \in Nat /\ Len(log) <= Len(log')
    BY <1>2, LogGrows DEF Meanwhile
  <2>4. ASSUME NEW e \in present', NEW u \in unread[r], e <= u
        PROVE  e \in P
    <3>1. u \in 1..Len(log)
      BY <2>2 DEF Counts
    <3>2. e \in present \/ e > Len(log)
      BY <1>2, StreamGrowsBehind DEF Meanwhile
    <3>3. e \in Nat
      BY <1>2, TypesInductive, DeliveryAssumption DEF Meanwhile, TypeOK, EntryIds, DeliveryAssumption
    <3>4. e \in present
      BY <2>3, <2>4, <3>1, <3>2, <3>3
    <3> QED
      BY <2>2, <2>4, <3>4 DEF Counts
  <2>5. unread[r] \subseteq 1..Len(log')
    BY <2>2, <2>3 DEF Counts
  <2> QED
    BY <2>1, <2>2, <2>4, <2>5 DEF Counts
<1>3. ASSUME NEW s \in Readers, Measure(s) \/ Report(s) \/ ReportWithoutGroup(s) \/ GiveUp(s)
      PROVE  Snapshots'
  <2>1. UNCHANGED <<log, present, lastDelivered>>
    BY <1>3, CallLeavesDelivery DEF redisVars
  <2> SUFFICES ASSUME NEW r \in Readers, first'[r] # NoReply
               PROVE  \E P \in SUBSET EntryIds : Counts(r, P)'
    BY DEF Snapshots
  <2>2. CASE first'[r] = first[r] /\ unread'[r] = unread[r]
    BY <2>1, <2>2 DEF Snapshots, Counts
  <2>3. CASE Measure(s) /\ r = s
    <3>1. first'[r] = Cardinality(present) /\ unread'[r] = Unread
      BY <2>3 DEF Measure, Commands, Reply, DepthTypeOK
    <3>2. Unread \subseteq present /\ present \in SUBSET EntryIds /\ present \subseteq 1..Len(log)
      BY DEF Unread, TypeOK, ReadInOrder
    <3> QED
      BY <2>1, <3>1, <3>2 DEF Counts
  <2>4. CASE ~Measure(s) /\ r = s
    <3>1. first' = [first EXCEPT ![s] = NoReply]
      BY <1>3, <2>4 DEF Report, ReportWithoutGroup, GiveUp, Reports
    <3> QED
      BY <2>4, <3>1 DEF DepthTypeOK
  <2>5. CASE r # s
    <3>1. first'[r] = first[r] /\ unread'[r] = unread[r]
      BY <1>3, <2>5 DEF Measure, Report, ReportWithoutGroup, GiveUp, Reports, DepthTypeOK
    <3> QED
      BY <2>2, <3>1
  <2> QED
    BY <2>3, <2>4, <2>5
<1> QED
  BY <1>1, <1>2, <1>3 DEF DepthNext

\* What depth() reports is no less than the entries that no worker had read from
\* before the call to after it, in a stream that is not trimmed: for any number
\* of workers, callers and faults, a failed XPENDING included.
THEOREM WaitingReported ==
  DepthSpec /\ [][~Trims]_vars => WaitingIsReported
<1> DEFINE Inv == TypeOK /\ ReadInOrder /\ DepthTypeOK /\ AckedBeforeDeleted /\ Snapshots
           AllWaiting == \A r \in Readers : Reported(r) =>
                       queued'[r] >= Cardinality(unread[r] \intersect Unread)
<1>1. DepthInit => Inv
  <2>1. DepthInit => TypeOK /\ ReadInOrder
    BY TypesInductive DEF DepthInit
  <2>2. DepthInit => DepthTypeOK /\ Snapshots
    BY DEF DepthInit, DepthTypeOK, Snapshots
  <2>3. DepthInit => AckedBeforeDeleted
    BY DEF DepthInit, Init, AckedBeforeDeleted, PendingPresent
  <2> QED
    BY <2>1, <2>2, <2>3
<1>2. Inv /\ [DepthNext]_<<vars, depthVars>> /\ [~Trims]_vars => Inv'
  <2> SUFFICES ASSUME Inv, [DepthNext]_<<vars, depthVars>>, [~Trims]_vars
               PROVE  Inv'
    OBVIOUS
  <2>1. TypeOK' /\ ReadInOrder' /\ DepthTypeOK' /\ Snapshots'
    BY DepthTypesInductive, SnapshotsInductive
  <2>2. CASE Meanwhile
    <3>1. ~Trims
      BY <2>2 DEF Trims, vars, redisVars
    <3> QED
      BY <2>1, <2>2, <3>1, DeletedInductive DEF Meanwhile
  <2>3. CASE UNCHANGED <<redisVars, received, confirmed, workerVars>>
    BY <2>1, <2>3 DEF AckedBeforeDeleted, PendingPresent, redisVars, workerVars
  <2>4. CASE UNCHANGED <<vars, depthVars>>
    BY <2>3, <2>4 DEF vars
  <2> QED
    BY <2>2, <2>3, <2>4, CallLeavesDelivery DEF DepthNext
<1>3. Inv /\ [DepthNext]_<<vars, depthVars>> => [AllWaiting]_<<vars, depthVars>>
  <2> SUFFICES ASSUME Inv, [DepthNext]_<<vars, depthVars>>, NEW r \in Readers, Reported(r)
               PROVE  queued'[r] >= Cardinality(unread[r] \intersect Unread)
    OBVIOUS
  <2> DEFINE W == unread[r] \intersect Unread
  <2>1. /\ first[r] # NoReply
        /\ \/ queued'[r] = Queued(first[r], Cardinality(pel))
           \/ queued'[r] = Queued(first[r], 0)
    BY WhoReports
  <2>2. PICK P \in SUBSET EntryIds : Counts(r, P)
    BY <2>1 DEF Snapshots
  <2>3. first[r] = Cardinality(P) /\ W \subseteq P
    BY <2>2 DEF Counts
  <2>4. /\ W \in SUBSET EntryIds /\ IsFiniteSet(P) /\ Cardinality(P) \in Nat
        /\ Cardinality(W) \in Nat /\ Cardinality(pel) \in Nat
        /\ IsFiniteSet(W) /\ IsFiniteSet(pel)
    BY <2>3, StreamIsFinite
  <2>5. Cardinality(W) <= Cardinality(P)
    BY <2>3, <2>4, FS_Subset
  <2>6. Cardinality(W) # 0 => Cardinality(W) + Cardinality(pel) <= Cardinality(P)
    <3> SUFFICES ASSUME Cardinality(W) # 0
                 PROVE  Cardinality(W) + Cardinality(pel) <= Cardinality(P)
      OBVIOUS
    <3>1. PICK u \in W : TRUE
      BY <2>4, FS_EmptySet
    <3>2. u \in unread[r] /\ u > lastDelivered /\ u \in Nat
      BY <2>4, <3>1, DeliveryAssumption DEF Unread, EntryIds, DeliveryAssumption
    <3>3. ASSUME NEW e \in pel PROVE e \in P /\ e \notin W
      <4>1. e <= lastDelivered /\ e \in present
        BY DEF ReadInOrder, AckedBeforeDeleted, PendingPresent
      <4>2. e \in Nat /\ lastDelivered \in Nat
        BY DeliveryAssumption DEF TypeOK, EntryIds, DeliveryAssumption
      <4>3. e <= u
        BY <3>2, <4>1, <4>2
      <4>4. e \in P
        BY <2>2, <3>2, <4>1, <4>3 DEF Counts
      <4>5. e \notin Unread
        BY <4>1, <4>2 DEF Unread
      <4> QED
        BY <4>4, <4>5
    <3>4. W \intersect pel = {} /\ W \union pel \subseteq P
      BY <2>3, <3>3
    <3>5. Cardinality(W \union pel) <= Cardinality(P) /\ Cardinality(W \union pel) \in Nat
      BY <2>4, <3>4, FS_Subset, FS_CardinalityType
    <3>6. Cardinality(W \intersect pel) = 0
      BY <3>4, FS_EmptySet
    <3>7. Cardinality(W \union pel)
            = Cardinality(W) + Cardinality(pel) - Cardinality(W \intersect pel)
      BY <2>4, FS_Union
    <3> QED
      BY <2>4, <3>5, <3>6, <3>7
  <2>7. queued'[r] >= Cardinality(W)
    BY <2>1, <2>3, <2>4, <2>5, <2>6 DEF Queued
  <2> QED
    BY <2>7
<1> QED
  BY <1>1, <1>2, <1>3, PTL DEF DepthSpec, WaitingIsReported
=============================================================================
