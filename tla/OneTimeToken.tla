----------------------------- MODULE OneTimeToken -----------------------------
(***************************************************************************)
(* What a one-time token promises, whoever issues it: it admits the holder *)
(* it was issued to and nobody else, once, and only while it is young.     *)
(* The sign-in nonces of the backend (SignIn) and the OAuth states of the  *)
(* Shopify connector (Install) implement it.                               *)
(***************************************************************************)
EXTENDS Clock, Sequences

CONSTANTS
    Tokens,
    Holders,
    Lifetime,  \* the greatest age at which a token is accepted
    Blank      \* a token that is not issued yet

VARIABLES
    issued,    \* the holder and the time each token was issued to and at
    admitted   \* whom each token has admitted

tokenVars == <<clock, issued, admitted>>

TokenInit ==
    /\ clock = 0
    /\ issued = [t \in Tokens |-> Blank]
    /\ admitted = [t \in Tokens |-> <<>>]

Issue(t, holder) ==
    /\ issued[t] = Blank
    /\ issued' = [issued EXCEPT ![t] = [holder |-> holder, at |-> clock]]
    /\ UNCHANGED <<clock, admitted>>

Admit(t) ==
    /\ issued[t] # Blank
    /\ admitted[t] = <<>>
    /\ clock - issued[t].at <= Lifetime
    /\ admitted' = [admitted EXCEPT ![t] = <<issued[t].holder>>]
    /\ UNCHANGED <<clock, issued>>

PassTime ==
    /\ clock' = clock + 1
    /\ UNCHANGED <<issued, admitted>>

TokenNext ==
    \/ \E t \in Tokens : Admit(t) \/ \E holder \in Holders : Issue(t, holder)
    \/ PassTime

Spec == TokenInit /\ [][TokenNext]_tokenVars

=============================================================================
