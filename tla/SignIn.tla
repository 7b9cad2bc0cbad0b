-------------------------------- MODULE SignIn --------------------------------
(***************************************************************************)
(* Signing in to the backend: POST /v1/auth/challenge, /login and /logout  *)
(* of backend/src/api/server.ts over the nonces and sessions of            *)
(* backend/src/store/postgres.ts.  Store calls are atomic, but the         *)
(* statement that stores a session reads the merchant's sessions in a      *)
(* snapshot: two of them side by side do not see each other's row.         *)
(***************************************************************************)
EXTENDS Clock, Sequences, FiniteSets, SequencesExt

CONSTANTS
    Wallets,      \* wallets that may sign
    Merchant,     \* the one of an active merchant
    Nonces,       \* the random values issued as nonce
    Logins,       \* login requests served at the same time
    Window,       \* LOGIN_WINDOW_MS
    SessionCap,   \* the sessions a merchant keeps (20)
    SignInTime    \* bound: the latest instant explored

ASSUME SignInAssumption ==
    /\ Merchant \in Wallets
    /\ IsFiniteSet(Logins)
    /\ {Window, SessionCap} \subseteq Nat \ {0}
    /\ SignInTime \in Nat

VARIABLES
    nonces,       \* the nonces on file: the wallet and the time of each
    logins,       \* the login requests being served
    merchantSessions, \* the merchant's sessions, each named by the nonce it began with
    challenges,   \* the wallet and the time each nonce was issued to and at
    signedIn      \* the wallets signed in with each nonce

signInVars == <<nonces, logins, merchantSessions, challenges, signedIn>>

NoNonce == [holder |-> "nobody"]
Waiting == [step |-> "waiting"]

SignInInit ==
    /\ nonces = [n \in Nonces |-> NoNonce]
    /\ logins = [l \in Logins |-> Waiting]
    /\ merchantSessions = {}
    /\ challenges = [n \in Nonces |-> NoNonce]
    /\ signedIn = [n \in Nonces |-> <<>>]

InWindow(n) == nonces[n] # NoNonce /\ clock < nonces[n].at + Window

\* POST /v1/auth/challenge: lapsed nonces are swept, and a fresh one is stored.
Challenge(w, n) ==
    /\ challenges[n] = NoNonce
    /\ nonces' = [m \in Nonces |->
                     IF m = n THEN [holder |-> w, at |-> clock]
                     ELSE IF InWindow(m) THEN nonces[m] ELSE NoNonce]
    /\ challenges' = [challenges EXCEPT ![n] = [holder |-> w, at |-> clock]]
    /\ UNCHANGED <<clock, logins, merchantSessions, signedIn>>

\* Mutant of ConsumeNonce: the nonce is looked up and deleted with the session's row.
ReadNonce(n) == UNCHANGED nonces

ConsumeNonce(n) == nonces' = [nonces EXCEPT ![n] = NoNonce]

\* POST /v1/auth/login with a message that names wallet w and nonce n, signed by signer.
\* The nonce is consumed before anything else is looked at.
Login(l, n, w, signer) ==
    /\ logins[l] = Waiting
    /\ challenges[n] # NoNonce
    /\ ConsumeNonce(n)
    /\ IF InWindow(n) /\ nonces[n].holder = w /\ signer = w /\ w = Merchant
       THEN /\ logins' = [logins EXCEPT ![l] = [step |-> "store", nonce |-> n]]
            /\ signedIn' = [signedIn EXCEPT ![n] = Append(@, w)]
       ELSE UNCHANGED <<logins, signedIn>>
    /\ UNCHANGED <<clock, merchantSessions, challenges>>

\* Mutant of Kept: one row too many is left.
KeptLate == SessionCap

\* Rows left besides the one about to be stored (OFFSET 19).
Kept == SessionCap - 1

\* The sets of rows that createSession may evict: all but the newest.
Evictions ==
    {old \in SUBSET merchantSessions :
        /\ Cardinality(merchantSessions \ old) <= Kept
        /\ Cardinality(merchantSessions \ old) = Kept \/ old = {}
        /\ \A gone \in old, kept \in merchantSessions \ old : gone.at <= kept.at}

\* createSession: the statement takes its snapshot ...
BeginSession(l) ==
    /\ logins[l].step = "store"
    /\ \E old \in Evictions :
          logins' = [logins EXCEPT
              ![l] = [step |-> "commit", nonce |-> logins[l].nonce, at |-> clock, evict |-> old]]
    /\ UNCHANGED <<clock, nonces, merchantSessions, challenges, signedIn>>

\* ... and commits: what it found to evict goes, the new row comes.
CommitSession(l) ==
    /\ logins[l].step = "commit"
    /\ merchantSessions' =
          (merchantSessions \ logins[l].evict)
              \cup {[nonce |-> logins[l].nonce, at |-> logins[l].at]}
    /\ logins' = [logins EXCEPT ![l] = Waiting]
    /\ UNCHANGED <<clock, nonces, challenges, signedIn>>

\* A store call fails, or the process ends: the client is not signed in.
LoginFails(l) ==
    /\ logins[l] # Waiting
    /\ logins' = [logins EXCEPT ![l] = Waiting]
    /\ UNCHANGED <<clock, nonces, merchantSessions, challenges, signedIn>>

\* POST /v1/auth/logout, or a request with an expired session, whose row is deleted.
EndSession ==
    /\ \E s \in merchantSessions : merchantSessions' = merchantSessions \ {s}
    /\ UNCHANGED <<clock, nonces, logins, challenges, signedIn>>

SignInNext ==
    \/ TickTo(SignInTime) /\ UNCHANGED signInVars
    \/ \E n \in Nonces, w \in Wallets :
          Challenge(w, n) \/ \E l \in Logins, signer \in Wallets : Login(l, n, w, signer)
    \/ \E l \in Logins : BeginSession(l) \/ CommitSession(l) \/ LoginFails(l)
    \/ EndSession

-----------------------------------------------------------------------------
(* Properties.                                                             *)

\* Every session was opened by a nonce that signed the merchant in, and however many logins
\* are stored side by side, the sessions stay within the cap and one for each login but one
\* that did not see the others.
SignInTypeOK ==
    /\ nonces \in [Nonces -> {NoNonce} \cup [holder : Wallets, at : Nat]]
    /\ \A n \in Nonces : nonces[n] \in {NoNonce, challenges[n]}
    /\ merchantSessions \subseteq [nonce : Nonces, at : Nat]
    /\ \A l \in Logins :
          logins[l] # Waiting => signedIn[logins[l].nonce] = <<Merchant>>
    /\ \A s \in merchantSessions : signedIn[s.nonce] = <<Merchant>>
    /\ Cardinality(merchantSessions) <= SessionCap + Cardinality(Logins) - 1

OneTimeNonces ==
    INSTANCE OneTimeToken WITH
        Tokens <- Nonces, Holders <- Wallets, Lifetime <- Window - 1, Blank <- NoNonce,
        issued <- challenges, admitted <- signedIn

\* The nonces implement one-time tokens: whatever messages are replayed, side by side or
\* for another wallet, a nonce signs in once, the wallet that asked for it, in its window.
NoncesAreOneTime == OneTimeNonces!Spec

=============================================================================
