-------------------------------- MODULE Services ------------------------------
(***************************************************************************)
(* The parts around the payment path, side by side.                        *)
(*                                                                         *)
(* Each module has the state of its own part, and the time is all that     *)
(* they share: a step of one changes no guard of another.  Therefore no    *)
(* interleaving of two of them is explored: every behaviour exercises one  *)
(* of them, chosen at the start, and the states of an instance are the sum *)
(* of theirs, not the product.                                             *)
(***************************************************************************)
EXTENDS Connector, Install, SignIn, Payouts, Profiles, GatewayOrders, Checkout, Deployment,
        Dashboard, WalletPicker, Stores

VARIABLE part    \* the part this behaviour exercises

vars == <<part, clock, connectorVars, installVars, signInVars, payoutVars, gatewayVars,
          checkoutVars, deploymentVars, dashboardVars, profileVars, pickerVars, storeVars>>

Untimed == {"payouts", "profiles", "checkout", "deployment", "dashboard", "wallets"}
Parts == {"connector", "install", "sign-in", "gateway", "stores"} \cup Untimed

Init ==
    /\ part \in Parts
    /\ clock = 0
    /\ \E load \in Loads :
          ConnectorInit(load) /\ (part # "connector" => load = CHOOSE any \in Loads : TRUE)
    /\ InstallInit
    /\ SignInInit
    /\ PayoutsInit
    /\ \E m \in Markets :
          GatewayInit(m) /\ (part # "gateway" => m = CHOOSE any \in Markets : TRUE)
    /\ \E v \in Visits :
          CheckoutInit(v) /\ (part # "checkout" => v = CHOOSE any \in Visits : TRUE)
    /\ DeploymentInit
    /\ part # "deployment" =>
          environment = [signer |-> TRUE, multisig |-> TRUE] /\ record = NoRecord
    /\ DashboardInit
    /\ \E d \in Days :
          ProfilesInit(d) /\ (part # "profiles" => d = CHOOSE any \in Days : TRUE)
    /\ PickerInit
    /\ part # "wallets" => browser = CHOOSE any \in Browsers : TRUE
    /\ StoresInit
    /\ part # "stores" => group = "merchants"

OthersStill ==
    /\ UNCHANGED part
    /\ part \in Untimed => UNCHANGED clock
    /\ part # "connector" => UNCHANGED connectorVars
    /\ part # "install" => UNCHANGED installVars
    /\ part # "sign-in" => UNCHANGED signInVars
    /\ part # "payouts" => UNCHANGED payoutVars
    /\ part # "gateway" => UNCHANGED gatewayVars
    /\ part # "checkout" => UNCHANGED checkoutVars
    /\ part # "deployment" => UNCHANGED deploymentVars
    /\ part # "dashboard" => UNCHANGED dashboardVars
    /\ part # "profiles" => UNCHANGED profileVars
    /\ part # "wallets" => UNCHANGED pickerVars
    /\ part # "stores" => UNCHANGED storeVars

Next ==
    \/ part = "connector" /\ ConnectorNext /\ OthersStill
    \/ part = "install" /\ InstallNext /\ OthersStill
    \/ part = "sign-in" /\ SignInNext /\ OthersStill
    \/ part = "payouts" /\ PayoutsNext /\ OthersStill
    \/ part = "gateway" /\ GatewayNext /\ OthersStill
    \/ part = "checkout" /\ CheckoutNext /\ OthersStill
    \/ part = "deployment" /\ DeploymentNext /\ OthersStill
    \/ part = "dashboard" /\ DashboardNext /\ OthersStill
    \/ part = "profiles" /\ ProfilesNext /\ OthersStill
    \/ part = "wallets" /\ PickerNext /\ OthersStill
    \/ part = "stores" /\ StoresNext /\ OthersStill

\* The connector's process keeps running, Shopify answers or fails, the gateway retries.
ConnectorFairness ==
    /\ \A h \in Hooks : WF_connectorVars(part = "connector" /\ Answer(h))
    /\ \A g \in GatewayIds :
          WF_connectorVars(part = "connector" /\ \E h \in Hooks : HookArrives(h, g))

\* The customer answers the wallet, reads are answered, and deadlines pass.
CheckoutFairness ==
    \A t \in Taps : WF_checkoutVars(part = "checkout" /\ Advance(t))

\* A script goes on, and its operator runs again what is not done.
DeploymentFairness == WF_deploymentVars(part = "deployment" /\ (ScriptStep \/ Rerun))

\* A tab polls as long as it is open, and is answered.
DashboardFairness ==
    \A t \in Tabs : WF_dashboardVars(part = "dashboard" /\ PollGoesOn(t))

Fairness == ConnectorFairness /\ CheckoutFairness /\ DeploymentFairness /\ DashboardFairness

Spec == Init /\ [][Next]_vars /\ Fairness

-----------------------------------------------------------------------------
\* The records of every part have the shape, and keep the relations, that its module states.
ServicesTypeOK ==
    /\ part \in Parts
    /\ clock \in Nat
    /\ ConnectorTypeOK
    /\ InstallTypeOK
    /\ SignInTypeOK
    /\ PayoutsTypeOK
    /\ GatewayTypeOK
    /\ CheckoutTypeOK
    /\ DeploymentTypeOK
    /\ DashboardTypeOK
    /\ ProfilesTypeOK
    /\ PickerTypeOK
    /\ StoresTypeOK

\* StatesAreOneTime of Install and NoncesAreOneTime of SignIn: neither an install state nor a
\* login nonce serves two requests, however they overlap, nor one that is late.
TokensAreOneTime == StatesAreOneTime /\ NoncesAreOneTime

\* DeclaredKept of Payouts and ProfileKept of Profiles: what a merchant declared stays until it
\* is declared anew, whichever other requests read the old settings before and write later.
SettingsKept == DeclaredKept /\ ProfileKept

\* EveryPaidMarked, of the behaviours in which the connector runs: a payment of a gateway order
\* ends as a sale on its shop order, unless the shop moves to another account before.
PaidGetsMarked == part = "connector" => EveryPaidMarked

\* EveryAttemptEnds, of the behaviours in which a payment page is open: no attempt to pay goes
\* on for ever.
AttemptEnds == part = "checkout" => EveryAttemptEnds

\* RerunCompletes, of the behaviours in which the scripts run: whichever step of them fails or
\* succeeds unseen, running again what is not done makes the router ready and recorded.
DeploymentCompletes == part = "deployment" => RerunCompletes

\* EveryTabSettles, of the behaviours in which the dashboard runs.
DashboardSettles == part = "dashboard" => EveryTabSettles

=============================================================================
