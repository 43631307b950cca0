------------------------------- MODULE MCProxy -------------------------------
(* An instance of Proxy for TLC: two circles of two backends. *)
EXTENDS Proxy

CONSTANTS h1, h2, k1, k2, u1, u2

MCHandler == {h1, h2}
MCKey == {k1, k2}

\* In the first circle one url was configured twice.
MCUrls == {<<<<u1, u1>>, <<u1, u2>>>>}

\* The keys' backends by index, together or apart, and by url.
MCRings ==
    {<<[k \in Key |-> <<0, 1>>], [k \in Key |-> IF k = k1 THEN <<0, 2>> ELSE <<0, 1>>]>>,
     <<[k \in Key |-> IF k = k1 THEN <<0, 1>> ELSE <<0, 2>>], [k \in Key |-> <<0, 2>>]>>,
     <<[k \in Key |-> u1], [k \in Key |-> IF k = k1 THEN u2 ELSE u1]>>}

Request(kind, keys) == [kind |-> kind, keys |-> keys]

\* Two points, for one backend of a circle or for two, one point, and a look.
MCRequests ==
    {Request("write", <<k1, k2>>), Request("write", <<k1>>), Request("replica", <<k2>>)}

=============================================================================
