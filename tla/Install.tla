-------------------------------- MODULE Install -------------------------------
(***************************************************************************)
(* Installing the Shopify connector on a shop: GET /auth and               *)
(* GET /auth/callback of shopify-app/src/index.ts over the OAuth states of *)
(* the file store.  A callback carries Shopify's signature and the state   *)
(* the install began with; it may come twice, late, or never.              *)
(***************************************************************************)
EXTENDS Clock, Sequences, FiniteSets, SequencesExt

CONSTANTS
    Shops,
    States,     \* the random values issued as state
    Callbacks,  \* callbacks served at the same time
    StateTTL,   \* OAUTH_STATE_TTL_MS
    InstallTime \* bound: the latest instant explored

ASSUME InstallAssumption == {StateTTL, InstallTime} \subseteq Nat

VARIABLES
    states,     \* the states on file: the shop and the time of each
    callbacks,  \* the callbacks being served
    sessions,   \* the state by which each shop's session was obtained last, if any
    begun,      \* the shop and the time each state was issued for and at
    exchanges   \* the shops whose token was asked for with each state

installVars == <<states, callbacks, sessions, begun, exchanges>>

NoState == [holder |-> "nobody"]
Ready == [step |-> "ready"]

InstallInit ==
    /\ states = [s \in States |-> NoState]
    /\ callbacks = [c \in Callbacks |-> Ready]
    /\ sessions = [shop \in Shops |-> {}]
    /\ begun = [s \in States |-> NoState]
    /\ exchanges = [s \in States |-> <<>>]

\* GET /auth: a fresh state is on file before the redirect to Shopify.
Auth(shop, s) ==
    /\ begun[s] = NoState
    /\ states' = [states EXCEPT ![s] = [holder |-> shop, at |-> clock]]
    /\ begun' = [begun EXCEPT ![s] = [holder |-> shop, at |-> clock]]
    /\ UNCHANGED <<clock, callbacks, sessions, exchanges>>

\* consumeState: whoever asks, and whatever for, the state is gone.
ConsumeState(s) == states' = [states EXCEPT ![s] = NoState]

\* GET /auth/callback for a state issued to some shop: consumed, and of use if it was this
\* shop's and is not too old.
Callback(c, shop, s) ==
    /\ callbacks[c] = Ready
    /\ begun[s] # NoState
    /\ ConsumeState(s)
    /\ IF states[s] # NoState /\ states[s].holder = shop /\ clock - states[s].at <= StateTTL
       THEN /\ callbacks' = [callbacks EXCEPT
                   ![c] = [step |-> "exchange", shop |-> shop, state |-> s]]
            /\ exchanges' = [exchanges EXCEPT ![s] = Append(@, shop)]
       ELSE UNCHANGED <<callbacks, exchanges>>
    /\ UNCHANGED <<clock, sessions, begun>>

\* exchangeCodeForToken answers and the session is stored, or the exchange fails.
Exchange(c) ==
    /\ callbacks[c].step = "exchange"
    /\ \/ sessions' = [sessions EXCEPT ![callbacks[c].shop] = {callbacks[c].state}]
       \/ UNCHANGED sessions
    /\ callbacks' = [callbacks EXCEPT ![c] = Ready]
    /\ UNCHANGED <<clock, states, begun, exchanges>>

TooOld(s) == states[s] # NoState /\ states[s].at < clock - StateTTL

\* pruneStates.
PruneStates ==
    /\ \E s \in States : TooOld(s)
    /\ states' = [s \in States |-> IF TooOld(s) THEN NoState ELSE states[s]]
    /\ UNCHANGED <<clock, callbacks, sessions, begun, exchanges>>

\* The process ends: callbacks are dropped, the file stays.
InstallCrash ==
    /\ \E c \in Callbacks : callbacks[c] # Ready
    /\ callbacks' = [c \in Callbacks |-> Ready]
    /\ UNCHANGED <<clock, states, sessions, begun, exchanges>>

InstallNext ==
    \/ TickTo(InstallTime) /\ UNCHANGED installVars
    \/ \E s \in States, shop \in Shops :
          Auth(shop, s) \/ \E c \in Callbacks : Callback(c, shop, s)
    \/ \E c \in Callbacks : Exchange(c)
    \/ PruneStates
    \/ InstallCrash

-----------------------------------------------------------------------------
(* Properties.                                                             *)

InstallTypeOK ==
    /\ states \in [States -> {NoState} \cup [holder : Shops, at : Nat]]
    /\ \A s \in States : states[s] \in {NoState, begun[s]}
    /\ \A c \in Callbacks :
          callbacks[c] # Ready => callbacks[c].shop \in Range(exchanges[callbacks[c].state])
    /\ sessions \in [Shops -> SUBSET States]

OneTimeStates ==
    INSTANCE OneTimeToken WITH
        Tokens <- States, Holders <- Shops, Lifetime <- StateTTL, Blank <- NoState,
        issued <- begun, admitted <- exchanges

\* The states implement one-time tokens: whatever callbacks are replayed, side by side, for
\* another shop or after a restart, Shopify is asked for a token at most once for a state,
\* for the shop it was issued for and while it is young.
StatesAreOneTime == OneTimeStates!Spec

=============================================================================
