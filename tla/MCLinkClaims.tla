----------------------------- MODULE MCLinkClaims -----------------------------
(***************************************************************************)
(* Instances of LinkClaims for TLC.                                        *)
(***************************************************************************)
EXTENDS LinkClaims, TLC

CONSTANTS w1, w2, o1, o2, o3, r1, r2

\* A gateway link, one that expires, one with a capped number of minted orders, and one
\* with a stock of one and a cap of two.
GatewayLink == [fixed |-> {o1}, stock |-> {}, pool |-> <<>>, cap |-> 1, expires |-> 0]
ShortLink == [fixed |-> {}, stock |-> {}, pool |-> <<>>, cap |-> 1, expires |-> 2]
CappedLink == [fixed |-> {}, stock |-> {}, pool |-> <<>>, cap |-> 2, expires |-> 0]
StockLink == [fixed |-> {}, stock |-> {o1}, pool |-> <<o1>>, cap |-> 2, expires |-> 0]

AllLinks == {GatewayLink, ShortLink, CappedLink, StockLink}
GatewayLinks == {GatewayLink}
CappedLinks == {CappedLink}

\* Requests and wallets are interchangeable (no liveness is checked).
Alike == Permutations(Requests) \cup Permutations(Wallets)

=============================================================================
