---------------------------- MODULE SvcConnection ----------------------------
(***************************************************************************)
(* What the handshake of SVC promises to the two applications.  A session  *)
(* is what both ends must agree on: the endpoint ID, the server's host and *)
(* the two challenges.  It is answered by a listenConnection, trusted by   *)
(* the establishConnection that verified the answer, accepted when that    *)
(* call returns an endpoint, and established when the listenConnection     *)
(* does: in this order, and what was returned is never taken back.         *)
(***************************************************************************)
CONSTANT Sessions

VARIABLES answered, trusted, accepted, established

vars == <<answered, trusted, accepted, established>>

Init == answered = {} /\ trusted = {} /\ accepted = {} /\ established = {}

Answer(s) ==
  /\ answered' = answered \cup {s}
  /\ UNCHANGED <<trusted, accepted, established>>

Trust(s) ==
  /\ s \in answered
  /\ trusted' = trusted \cup {s}
  /\ UNCHANGED <<answered, accepted, established>>

(* The call that trusts the answer times out. *)
Abandon(s) ==
  /\ s \notin accepted
  /\ trusted' = trusted \ {s}
  /\ UNCHANGED <<answered, accepted, established>>

Accept(s) ==
  /\ s \in trusted
  /\ accepted' = accepted \cup {s}
  /\ UNCHANGED <<answered, trusted, established>>

Establish(s) ==
  /\ s \in accepted
  /\ established' = established \cup {s}
  /\ UNCHANGED <<answered, trusted, accepted>>

Next == \E s \in Sessions : Answer(s) \/ Trust(s) \/ Abandon(s) \/ Accept(s) \/ Establish(s)

Spec == Init /\ [][Next]_vars
==============================================================================
