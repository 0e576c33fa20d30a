----------------------------- MODULE MCWifiLink -----------------------------
\* Instances of WifiLink for TLC: who does what on which interface.
EXTENDS WifiLink, TLC

CONSTANTS w1, w2, s1, s2, c1, c2, c3, d1, ap1, ap2, ap3

\* The first two access points are of one network.
OfSsid == ap1 :> "office" @@ ap2 :> "office" @@ ap3 :> "guest"

Where == [o \in {s1, s2, c1, c2, c3, d1} |-> w1]
What == s1 :> "scan" @@ s2 :> "scan" @@ c1 :> "connect" @@ c2 :> "connect" @@ c3 :> "connect"
        @@ d1 :> "disconnect"
Whom == s1 :> ap1 @@ s2 :> ap1 @@ c1 :> ap1 @@ c2 :> ap2 @@ c3 :> ap3 @@ d1 :> ap1
Together == {{s1, s2}, {c1, c2}, {c1, c3}, {c1, d1}}

\* All addresses but that of the third access point begin with a zero byte.
Begins == [a \in Interfaces \cup AccessPoints |-> IF a = ap3 THEN "other" ELSE "zero"]
ZeroFirst == {a \in Interfaces \cup AccessPoints : a # ap3}

\* Nothing, one, and two networks of which one has two access points.
SomeOrAll == {{}, {ap1}, {ap1, ap2, ap3}}
OneOrNone == {{}, {ap1}}

ScanAlone == {{s1}}
ConnectAndLeave == {{c1, d1}}
ConnectTwice == {{c1, c2}}
=============================================================================
