----------------------------- MODULE AtLeastOnce -----------------------------
(***************************************************************************)
(* What the delivery path promises to whoever publishes an event           *)
(* (queue.py:8-18): an event is owed from the moment it is in the stream   *)
(* until its last entry is retired, and it is only retired once the        *)
(* downstream has taken it or it is parked in the dead-letter stream.      *)
(* Nothing is said of how often it is sent.                                *)
(***************************************************************************)
CONSTANT Msgs

VARIABLES
  owed,    \* events the stream still has an entry for
  taken,   \* events the downstream has accepted at least once
  parked   \* events in the dead-letter stream

promiseVars == <<owed, taken, parked>>

Init == owed = {} /\ taken = {} /\ parked = {}

Accept(m) ==
  /\ m \notin owed
  /\ owed' = owed \union {m}
  /\ UNCHANGED <<taken, parked>>

Take(m) ==
  /\ m \in owed
  /\ taken' = taken \union {m}
  /\ UNCHANGED <<owed, parked>>

Park(m) ==
  /\ m \in owed
  /\ parked' = parked \union {m}
  /\ UNCHANGED <<owed, taken>>

\* The first outcome of an owed event.
Settle(m) == m \notin taken \union parked /\ (Take(m) \/ Park(m))

Retire(m) ==
  /\ m \in owed
  /\ m \in taken \union parked
  /\ owed' = owed \ {m}
  /\ UNCHANGED <<taken, parked>>

Next == \E m \in Msgs : Accept(m) \/ Take(m) \/ Park(m) \/ Retire(m)

Spec == /\ Init /\ [][Next]_promiseVars
        /\ \A m \in Msgs : WF_promiseVars(Settle(m)) /\ WF_promiseVars(Retire(m))
=============================================================================
