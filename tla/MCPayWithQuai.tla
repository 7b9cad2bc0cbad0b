---------------------------- MODULE MCPayWithQuai ----------------------------
(***************************************************************************)
(* Instances of PayWithQuai for TLC.                                       *)
(***************************************************************************)
EXTENDS PayWithQuai

CONSTANTS m1, a, b, p1, p2, w1, w2, r1, s1, g1, usdt, zero, owner

\* After deploy.js and allowTokens.js, with a fee of 30 basis points.
NativeShop ==
    [acceptedToken |-> {zero}, feeBps |-> 30, feeRecipient |-> w1,
     relayers |-> {}, signers |-> {}, pauseGuardian |-> zero,
     paused |-> FALSE, signingReady |-> FALSE]

\* The same after upgrade.js: signed orders are on, in QUAI and in an ERC-20.
SigningShop ==
    [NativeShop EXCEPT !.feeBps = 500, !.acceptedToken = {zero, usdt}, !.signers = {s1},
                       !.relayers = {r1}, !.signingReady = TRUE]

=============================================================================
