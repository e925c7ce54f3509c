----------------------------- MODULE QueueDepth -----------------------------
(***************************************************************************)
(* depth() (app/queue.py): what GET /stats and the gauges of the API and   *)
(* the workers say is queued, read with separate commands while the        *)
(* delivery path goes on.                                                  *)
(*                                                                         *)
(* XLEN is a snapshot of the stream and XPENDING a later one of the group; *)
(* whatever is added, read, acked and deleted in between is in one of them *)
(* and not in the other.  The XLEN of the dead-letter stream, sent between *)
(* the two, is left out: it says nothing of the queue.                     *)
(***************************************************************************)
EXTENDS Delivery, Integers

CONSTANT Readers  \* processes that call depth(), one call at a time each

VARIABLES
  first,   \* reply to the first command of a call under way, or NoReply
  queued,  \* what a call that has just ended reports as queued, or NoReply
  unread,  \* ids no worker had read at the first command (history)
  slack    \* acked entries the first command may have counted (history)

depthVars == <<first, queued, unread, slack>>

NoReply == -1

DepthInit ==
  /\ Init
  /\ first = [r \in Readers |-> NoReply]
  /\ queued = [r \in Readers |-> NoReply]
  /\ unread = [r \in Readers |-> {}]
  /\ slack = [r \in Readers |-> 0]

Unread == {e \in present : e > lastDelivered}

\* Acked, and not deleted: nobody will read these again.
Residue == {e \in present : e <= lastDelivered /\ e \notin pel}

-----------------------------------------------------------------------------

\* Fault variant: the pending count is read before the length.
Commands_Swapped == <<"xpending", "xlen">>

\* The commands of depth(), in order.
Commands == <<"xlen", "xpending">>

Reply(command) == Cardinality(IF command = "xlen" THEN present ELSE pel)

\* Fault variant: XLEN is reported as it is.
Queued_Raw(xlen, pending) == xlen

\* max(0, stream_len - pending)
Queued(xlen, pending) == IF xlen > pending THEN xlen - pending ELSE 0

\* depth() is called and its first command answered.
Measure(r) ==
  /\ first[r] = NoReply
  /\ first' = [first EXCEPT ![r] = Reply(Commands[1])]
  /\ unread' = [unread EXCEPT ![r] = Unread]
  /\ slack' = [slack EXCEPT ![r] = Cardinality(Residue)]
  /\ queued' = [queued EXCEPT ![r] = NoReply]
  /\ UNCHANGED vars

\* The call ends with this reply to its second command.
Reports(r, reply) ==
  /\ queued' = [queued EXCEPT ![r] =
                  IF Commands[1] = "xlen" THEN Queued(first[r], reply)
                                          ELSE Queued(reply, first[r])]
  /\ first' = [first EXCEPT ![r] = NoReply]
  /\ unread' = [unread EXCEPT ![r] = {}] /\ slack' = [slack EXCEPT ![r] = 0]

Report(r) ==
  /\ first[r] # NoReply
  /\ Reports(r, Reply(Commands[2]))
  /\ UNCHANGED vars

\* XPENDING fails: the except clause takes it for a group that does not exist
\* yet, and nothing for pending.
ReportWithoutGroup(r) ==
  /\ first[r] # NoReply /\ Fault
  /\ Reports(r, 0)
  /\ UNCHANGED <<redisVars, received, confirmed, workerVars>>

\* An XLEN fails, or the process dies: no report, the gauges stay as they were.
GiveUp(r) ==
  /\ first[r] # NoReply /\ Fault
  /\ first' = [first EXCEPT ![r] = NoReply]
  /\ unread' = [unread EXCEPT ![r] = {}] /\ slack' = [slack EXCEPT ![r] = 0]
  /\ UNCHANGED <<redisVars, received, confirmed, workerVars, queued>>

\* The delivery path goes on.
Meanwhile ==
  /\ Next
  /\ slack' = [r \in Readers |-> IF first[r] = NoReply THEN 0
                                 ELSE slack[r] + Cardinality(pel \ pel')]
  /\ queued' = [r \in Readers |-> NoReply]
  /\ UNCHANGED <<first, unread>>

DepthNext ==
  \/ Meanwhile
  \/ \E r \in Readers : Measure(r) \/ Report(r) \/ ReportWithoutGroup(r) \/ GiveUp(r)

DepthSpec == DepthInit /\ [][DepthNext]_<<vars, depthVars>>

-----------------------------------------------------------------------------
(* Properties *)

\* A call ends with a report in this step.
Reported(r) == queued[r] = NoReply /\ queued'[r] # NoReply

\* WHAT WAITS IS REPORTED.  An entry that no worker has read from before the
\* call to after it is in the number reported, whatever was added, read, acked
\* and deleted meanwhile.  It rests on XLEN coming first and on the group
\* reading in order: what is added later is read later; and on a stream that is
\* not trimmed, for a trimmed entry stays pending without being in the stream
\* (queue.py:217-231).
WaitingIsReported ==
  [][\A r \in Readers : Reported(r) =>
       queued'[r] >= Cardinality(unread[r] \intersect Unread)]_<<vars, depthVars>>

\* NO PHANTOM BACKLOG.  What is reported beyond the entries no worker had read
\* is no more than those acked since and those a failure between XACK and XDEL
\* had left in the stream: what workers hold is never reported as waiting,
\* unless XPENDING failed (queue.py:229-230).
NoPhantomBacklog ==
  [][\A r \in Readers : Reported(r) /\ UNCHANGED faults =>
       queued'[r] <= Cardinality(unread[r]) + slack[r]]_<<vars, depthVars>>
=============================================================================
