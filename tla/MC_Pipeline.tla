----------------------------- MODULE MC_Pipeline -----------------------------
(***************************************************************************)
(* The whole service on one delivery: a payload with one inbound message.  *)
(* Its event is named by its id.                                           *)
(***************************************************************************)
EXTENDS Pipeline, Payloads

CONSTANT d1

MC_Events == {"m1"}
MC_IdOf == [e \in MC_Events |-> e]
MC_Body == [d \in {d1} |-> <<"m1">>]

Inbound == Payload(<<Null, EntryWith(<<ChangeWith(<<Null, Text("m1")>>, << >>)>>)>>)

\* That is what the normalizer makes of such a payload; it passes over what is
\* malformed, and over nothing else.
ASSUME NormalizerAssumption ==
  /\ IdsFrom(Inbound) = MC_Body[d1]
  /\ SiblingsSurvive /\ NullsKeepTheEvent
=============================================================================
