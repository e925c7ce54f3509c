----------------------------- MODULE ClaimLease -----------------------------
(***************************************************************************)
(* Delivery with a clock.  Delivery takes it on trust (Timely) that an     *)
(* attempt is over before its claim lapses and before its entry may be     *)
(* reclaimed.  Here the lifetimes are those the settings give              *)
(* (config.py:61-90), time passes in ticks, an await lasts at most as long *)
(* as its timeout lets it, and the trust becomes a property: every step is *)
(* one that Delivery allows with Timely.                                   *)
(*                                                                         *)
(* The claim is a lease: nobody renews it and nobody checks it again, so   *)
(* the only thing that makes the attempt exclusive is that the lease       *)
(* outlasts every path through the attempt, Redis's latency included.      *)
(***************************************************************************)
EXTENDS Delivery, Integers

CONSTANTS
  Second,       \* ticks per second
  PostTimeout,  \* DOWNSTREAM_TIMEOUT_SECONDS, in ticks
  BackoffMax,   \* RETRY_BACKOFF_MAX_SECONDS, in ticks
  MinIdle,      \* CLAIM_MIN_IDLE_MS, in ticks
  Latency       \* the longest a Redis command takes, retries included

\* validate(): the "attempt ceiling" is below CLAIM_MIN_IDLE_MS.  Nothing in it
\* is about Latency.
Validated == PostTimeout + BackoffMax < MinIdle

ASSUME LeaseAssumption ==
  /\ Second \in Nat \ {0}
  /\ PostTimeout \in Nat /\ BackoffMax \in Nat
  /\ MinIdle \in Nat /\ Latency \in Nat
  /\ Validated

\* Fault variant: the lease has no margin.
ClaimTTL_NoMargin == ((PostTimeout + BackoffMax) \div Second) * Second

\* claim_ttl_seconds(): int() drops the fraction of a second, then 5 are added.
ClaimTTL == ((PostTimeout + BackoffMax) \div Second + 5) * Second

VARIABLES
  ttl,    \* ticks until the claim of a message expires
  idle,   \* ticks since an entry was last handed out, up to MinIdle
  clock   \* ticks a handler has spent in its current await

timers == <<ttl, idle, clock>>

LeaseInit ==
  /\ Init
  /\ ttl = [m \in Msgs |-> 0]
  /\ idle = [e \in EntryIds |-> 0]
  /\ clock = [w \in Workers |-> [e \in EntryIds |-> 0]]

-----------------------------------------------------------------------------
(* How long an await may last *)

\* A Redis command takes up to Latency.  The POST starts when the reply of SET
\* NX is in, and httpx gives up on it after PostTimeout; the DEL after a failed
\* attempt is sent when the backoff, min(base ** n, BackoffMax), is over.
Limit(pc) ==
  CASE pc \in {"post", "landed"} -> Latency + PostTimeout
    [] pc = "backoff"            -> BackoffMax + Latency
    [] OTHER                     -> Latency

\* Fault variant: nothing bounds an await, the client has no timeout.
Tick_NoTimeout ==
  /\ \A m \in Msgs : claim[m] = "inflight" => ttl[m] > 0
  /\ ttl' = [m \in Msgs |-> IF claim[m] = "inflight" THEN ttl[m] - 1 ELSE 0]
  /\ idle' = [e \in EntryIds |->
                IF e \in pel /\ idle[e] < MinIdle THEN idle[e] + 1 ELSE idle[e]]
  /\ clock' = [w \in Workers |-> [e \in EntryIds |->
                 IF handler[w][e] = "idle" THEN 0 ELSE clock[w][e] + 1]]
  /\ UNCHANGED vars

\* A tick, unless someone is due.
Tick ==
  /\ \A w \in Workers, e \in EntryIds :
       handler[w][e] # "idle" => clock[w][e] < Limit(handler[w][e])
  /\ \A m \in Msgs : claim[m] = "inflight" => ttl[m] > 0
  /\ ttl' = [m \in Msgs |-> IF claim[m] = "inflight" THEN ttl[m] - 1 ELSE 0]
  /\ idle' = [e \in EntryIds |->
                IF e \in pel /\ idle[e] < MinIdle THEN idle[e] + 1 ELSE idle[e]]
  /\ clock' = [w \in Workers |-> [e \in EntryIds |->
                 IF handler[w][e] = "idle" THEN 0 ELSE clock[w][e] + 1]]
  /\ UNCHANGED vars

\* Fault variant: XAUTOCLAIM with JUSTID, which leaves the idle time alone.
Timers_JustId ==
  /\ ttl' = [m \in Msgs |-> CASE claim'[m] # "inflight" -> 0
                              [] claim[m] = "none"      -> ClaimTTL
                              [] OTHER                  -> ttl[m]]
  /\ idle' = [e \in EntryIds |-> IF e \in pel /\ e \in pel' THEN idle[e] ELSE 0]
  /\ clock' = [w \in Workers |-> [e \in EntryIds |->
                 IF handler'[w][e] \in {handler[w][e], "landed"}
                 THEN clock[w][e] ELSE 0]]

\* What a step of Delivery does to the timers: SET NX starts a lease, handing
\* an entry out restarts its idle time, and the next await starts its clock.
\* The answer of the POST is awaited within the time of the POST.
Timers ==
  /\ ttl' = [m \in Msgs |-> CASE claim'[m] # "inflight" -> 0
                              [] claim[m] = "none"      -> ClaimTTL
                              [] OTHER                  -> ttl[m]]
  /\ idle' = [e \in EntryIds |->
                IF e \in pel /\ e \in pel' /\ ~(e \in stale /\ e \notin stale')
                THEN idle[e] ELSE 0]
  /\ clock' = [w \in Workers |-> [e \in EntryIds |->
                 IF handler'[w][e] \in {handler[w][e], "landed"}
                 THEN clock[w][e] ELSE 0]]

-----------------------------------------------------------------------------

\* The claim's key expires.
Lapse(m) == ttl[m] = 0 /\ ClaimLapses(m) /\ Timers

\* XAUTOCLAIM would take the entry from now on.
AgeOut(e) == idle[e] = MinIdle /\ GoStale(e) /\ Timers

\* DELIVERED_TTL_SECONDS, a day, is not on the scale of this clock: the marker
\* outlives the entries of its message, as in Delivery with Timely.
Forget(m) == Copies(m) = {} /\ MarkerLapses(m) /\ Timers

\* Everything else happens as in Delivery.
Work ==
  /\ \/ \E m \in Msgs : Publish(m) \/ PublishAgain(m)
     \/ \E w \in Workers, e \in EntryIds : HandlerStep(w, e)
     \/ \E w \in Workers : LoopStep(w) \/ RequestShutdown(w) \/ Crash(w)
  /\ Timers

LeaseNext ==
  \/ Tick
  \/ Work
  \/ \E m \in Msgs : Lapse(m) \/ Forget(m)
  \/ \E e \in EntryIds : AgeOut(e)

LeaseSpec == LeaseInit /\ [][LeaseNext]_<<vars, timers>>

-----------------------------------------------------------------------------
(* Properties *)

\* The timers have their types, and no await outlasts its timeout.
LeaseTypeOK ==
  /\ ttl \in [Msgs -> 0..ClaimTTL]
  /\ idle \in [EntryIds -> 0..MinIdle]
  /\ clock \in [Workers -> [EntryIds -> Nat]]
  /\ \A w \in Workers, e \in EntryIds : clock[w][e] <= Limit(handler[w][e])

\* After a failed POST: the backoff and the DEL, or the dead letter and the DEL.
AfterPost == Latency + (IF BackoffMax > Latency THEN BackoffMax ELSE Latency)

\* From the start of an await, the longest way to the end of the attempt.
ToRelease(pc) ==
  CASE pc \in {"post", "landed"} -> Latency + PostTimeout + AfterPost
    [] pc = "dead"               -> 2 * Latency
    [] pc = "backoff"            -> BackoffMax + Latency
    [] OTHER                     -> Latency

\* What the settings leave to the operator: the margin of 5 seconds is more than
\* Redis may take at both ends of an attempt.
LatencyFits == ToRelease("post") < ClaimTTL

\* What validate() leaves to the operator: CLAIM_MIN_IDLE_MS exceeds the "attempt
\* ceiling" (config.py:61-65) by more than the five commands of the longest
\* handler, from the claim to the XACK, may take.
IdleFits == PostTimeout + BackoffMax + 5 * Latency < MinIdle

\* "Must outlast one full attempt" (config.py:85): at every await of an attempt,
\* what is left of the lease is longer than what may be left of the attempt.
LeaseCoversAttempt ==
  \A e \in 1..Len(log) : \A w \in Workers :
    Holds(w, e) =>
      /\ claim[Msg(e)] = "inflight"
      /\ ttl[Msg(e)] + clock[w][e] > ToRelease(handler[w][e])

\* The lifetimes of the settings make good on Timely: no claim lapses and no
\* entry is reclaimed under a running attempt, whatever is late or crashes.
TimelyDelivery == INSTANCE Delivery WITH Timely <- TRUE
KeepsTiming == [][TimelyDelivery!Next]_vars

=============================================================================
