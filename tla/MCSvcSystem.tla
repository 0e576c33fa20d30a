----------------------------- MODULE MCSvcSystem -----------------------------
EXTENDS SvcSystem, TLC

CONSTANTS hA, hB, hC, a1, a2, e1, e2

TwoHosts   == {hA, hB}
ThreeHosts == {hA, hB, hC}
JustB      == {hB}
OneAttempt == {a1}
TwoAttempts == {a1, a2}
TwoIds     == {e1, e2}
OneId      == {e1}

(* Both hosts connect to each other: a1 is A's call, a2 is B's. *)
Crossed == a1 :> hA @@ a2 :> hB
CrossedServers == a1 :> hB @@ a2 :> hA

OneClient == a1 :> hA
OneServer == a1 :> hB
OneOwn    == a1 :> e1
OwnIds == a1 :> e1 @@ a2 :> e2

(* A connects to B twice within one second, so that both calls seed rand() *)
(* alike and get one ID.                                                   *)
Again == a1 :> hA @@ a2 :> hA
AgainServers == a1 :> hB @@ a2 :> hB
AgainIds == a1 :> e1 @@ a2 :> e1

(* A's call names a string that is not an address. *)
BadServer == a1 :> Invalid

(* A's calls name address 0 and B. *)
ZeroServers == a1 :> NoAddress @@ a2 :> hB
ZeroIds     == a1 :> e1 @@ a2 :> e2

(* Nobody connected before, or B connected to A, or to C. *)
FirstCalls == [h \in Hosts |-> << >>]
BKnowsC == [h \in Hosts |-> IF h = hB THEN <<hC>> ELSE << >>]
BKnowsA == [h \in Hosts |-> IF h = hB THEN <<hA>> ELSE << >>]
==============================================================================
