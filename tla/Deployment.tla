------------------------------ MODULE Deployment -----------------------------
(***************************************************************************)
(* The scripts an operator runs to bring the router to a network and to    *)
(* keep it there: contracts/scripts/deploy.js, upgrade.js (with            *)
(* lib/signingUpgrade.js) and allowTokens.js, against what the contract    *)
(* accepts from its owner.  The network's RPC node is unreliable: a        *)
(* transaction may be mined although the script is told it failed, and     *)
(* then the script sends it again; a script may stop anywhere.             *)
(***************************************************************************)
EXTENDS Integers, Sequences, FiniteSets

CONSTANTS
    Native,       \* the native currency, allowed by deploy.js
    Tokens,       \* the tokens allowTokens.js allows
    NoRecord,     \* no deployments/<network>.json
    MaxMishaps,    \* bound: mishaps of the node or of a script
    MaxReleases   \* bound: upgrades of a router that needs none

ASSUME DeploymentAssumption ==
    /\ Native \notin Tokens
    /\ IsFiniteSet(Tokens)
    /\ {MaxMishaps, MaxReleases} \subseteq Nat

VARIABLES
    environment,   \* is ORDER_SIGNER_ADDRESS set, is MULTISIG_ADDR
    impls,      \* the implementations on chain: 1 .. impls; 0 is one before signed orders
    proxies,    \* the proxies on chain
    record,     \* deployments/<network>.json
    run,        \* the script that runs
    mishaps, releases

deploymentVars == <<environment, impls, proxies, record, run, mishaps, releases>>

NoScript ==
    [script |-> "none", step |-> "none", impl |-> 0, proxy |-> 0, initialized |-> FALSE,
     todo |-> {}]
Begin(script, step, proxy) ==
    run' = [NoScript EXCEPT !.script = script, !.step = step, !.proxy = proxy]

NewProxy(impl) ==
    [impl |-> impl, signing |-> FALSE, signer |-> FALSE, accepted |-> {},
     owner |-> "deployer", heir |-> "nobody"]

\* A network with nothing, or with a router from before signed orders, whose ownership may
\* have been offered to a timelock that never accepted.
DeploymentInit ==
    /\ environment \in [signer : BOOLEAN, multisig : BOOLEAN]
    /\ \/ proxies = <<>> /\ record = NoRecord
       \/ /\ \E heir \in {"nobody", "timelock"} :
                proxies = <<[NewProxy(0) EXCEPT !.accepted = {Native}, !.heir = heir]>>
          /\ record = [proxy |-> 1, impl |-> 0]
    /\ impls = 0
    /\ run = NoScript
    /\ mishaps = 0
    /\ releases = 0

Proxy == proxies[run.proxy]
Recorded == proxies[record.proxy]

Mishap == mishaps < MaxMishaps /\ mishaps' = mishaps + 1

SignedOrdersPayable(p) == p.signing /\ (environment.signer => p.signer)

\* The record describes the router, and the router does what the scripts are for.
Upgraded ==
    record # NoRecord /\ record.impl = Recorded.impl /\ SignedOrdersPayable(Recorded)
RouterReady == Upgraded /\ Tokens \subseteq Recorded.accepted

-----------------------------------------------------------------------------
(* The operator.                                                           *)

\* What is not done yet is run, or run again.
Rerun ==
    /\ run = NoScript
    /\ ~RouterReady
    /\ IF record = NoRecord THEN Begin("deploy", "impl", 0)
       ELSE IF ~Upgraded THEN Begin("upgrade", "impl", record.proxy)
       ELSE Begin("allow", "owner", record.proxy)
    /\ UNCHANGED <<environment, impls, proxies, record, mishaps, releases>>

\* A new implementation for a router that is ready.
Release ==
    /\ run = NoScript
    /\ RouterReady
    /\ releases < MaxReleases
    /\ releases' = releases + 1
    /\ Begin("upgrade", "impl", record.proxy)
    /\ UNCHANGED <<environment, impls, proxies, record, mishaps>>

-----------------------------------------------------------------------------
(* The steps of the scripts.                                               *)

Go(step) == run' = [run EXCEPT !.step = step]
Done == run' = NoScript

\* withRetry over a transaction: its success is seen, or it is not and it is sent again.
Mined(next) ==
    \/ Go(next) /\ UNCHANGED mishaps
    \/ Mishap /\ UNCHANGED run

\* Every attempt of this one reverts: the script throws.
Throws ==
    /\ Done
    /\ UNCHANGED <<proxies, mishaps>>

\* A transaction only the owner may send, and what it does to the proxy.
ByOwner(becomes, next) ==
    IF Proxy.owner # "deployer" THEN Throws
    ELSE proxies' = [proxies EXCEPT ![run.proxy] = becomes] /\ Mined(next)

\* deployContract; an implementation mined unseen is deployed again.
DeployImplementation ==
    /\ run.step = "impl"
    /\ impls < 1 + MaxMishaps + MaxReleases
    /\ impls' = impls + 1
    /\ \/ /\ run' = [run EXCEPT !.impl = impls',
                               !.step = IF run.script = "deploy" THEN "proxy" ELSE "read"]
          /\ UNCHANGED mishaps
       \/ Mishap /\ UNCHANGED run
    /\ UNCHANGED <<environment, proxies, record, releases>>

\* deploy.js: the proxy, initialized with the deployer as its owner.
DeployProxy ==
    /\ run.step = "proxy"
    /\ proxies' = Append(proxies, NewProxy(run.impl))
    /\ \/ /\ run' = [run EXCEPT !.proxy = Len(proxies'), !.step = "signing", !.todo = {Native}]
          /\ UNCHANGED mishaps
       \/ Mishap /\ UNCHANGED run
    /\ UNCHANGED <<environment, impls, record, releases>>

\* deploy.js: a reinitializer, which reverts once it has run.
InitializeSigning ==
    /\ run.step = "signing"
    /\ IF Proxy.signing THEN Throws ELSE ByOwner([Proxy EXCEPT !.signing = TRUE], "signer")
    /\ UNCHANGED <<environment, impls, record, releases>>

\* upgrade.js, readSigningInitialized: an error that does not look like the transport's is
\* read as "not initialized".
ReadSigningInitialized ==
    /\ run.step = "read"
    /\ \E answer \in {Proxy.signing, FALSE} :
          /\ run' = [run EXCEPT !.step = "upgrade", !.initialized = answer]
          /\ IF answer = Proxy.signing THEN UNCHANGED mishaps ELSE Mishap
    /\ UNCHANGED <<environment, impls, proxies, record, releases>>

\* Mutant of BuildInitData: the domain is always initialized.
AlwaysInitialize == TRUE

\* buildInitData: is the domain initialized in the transaction of the upgrade?
BuildInitData == ~run.initialized

UpgradeToAndCall ==
    /\ run.step = "upgrade"
    /\ IF BuildInitData /\ Proxy.signing THEN Throws
       ELSE ByOwner([Proxy EXCEPT !.impl = run.impl, !.signing = BuildInitData \/ @], "signer")
    /\ UNCHANGED <<environment, impls, record, releases>>

\* setSigner; upgrade.js does not send what the router has already.
SetSigner ==
    /\ run.step = "signer"
    /\ LET next == IF run.script = "deploy" THEN "allowlist" ELSE "verify"
       IN IF ~environment.signer \/ (run.script = "upgrade" /\ Proxy.signer)
          THEN Go(next) /\ UNCHANGED <<proxies, mishaps>>
          ELSE ByOwner([Proxy EXCEPT !.signer = TRUE], next)
    /\ UNCHANGED <<environment, impls, record, releases>>

\* setTokenAccepted: deploy.js sends it for the native currency, allowTokens.js for the
\* tokens not accepted yet.
AcceptAsset(a) ==
    /\ run.step = "allowlist"
    /\ a \in run.todo
    /\ ByOwner([Proxy EXCEPT !.accepted = @ \cup {a}],
               IF run.script = "deploy" THEN "verify" ELSE "tokens")
    /\ UNCHANGED <<environment, impls, record, releases>>

\* The state the scripts leave behind is read back.
Verify ==
    /\ run.step = "verify"
    /\ IF SignedOrdersPayable(Proxy) /\ Proxy.impl = run.impl
       THEN Go(IF run.script = "deploy" /\ environment.multisig THEN "transfer"
               ELSE IF run.script = "deploy" THEN "guardian"
               ELSE "record")
       ELSE Done
    /\ UNCHANGED <<environment, impls, proxies, record, mishaps, releases>>

\* deploy.js, with a multisig: ownership is offered to a timelock ...
TransferOwnership ==
    /\ run.step = "transfer"
    /\ ByOwner([Proxy EXCEPT !.heir = "timelock"], "guardian")
    /\ UNCHANGED <<environment, impls, record, releases>>

\* ... and the guardian is named by the owner, who is the deployer still.
SetPauseGuardian ==
    /\ run.step = "guardian"
    /\ ByOwner(Proxy, "record")
    /\ UNCHANGED <<environment, impls, record, releases>>

WriteRecord ==
    /\ run.step = "record"
    /\ record' = [proxy |-> run.proxy, impl |-> run.impl]
    /\ Done
    /\ UNCHANGED <<environment, impls, proxies, mishaps, releases>>

\* allowTokens.js: not if the owner is another, unless the owner cannot be read.
CheckOwner ==
    /\ run.step = "owner"
    /\ \/ /\ IF Proxy.owner = "deployer" THEN Go("tokens") ELSE Done
          /\ UNCHANGED mishaps
       \/ Mishap /\ Go("tokens")
    /\ UNCHANGED <<environment, impls, proxies, record, releases>>

\* allowTokens.js looks for a token that is not accepted.
FindTokens ==
    /\ run.step = "tokens"
    /\ LET missing == Tokens \ Proxy.accepted
       IN IF missing = {} THEN Done
          ELSE \E a \in missing :
                  run' = [run EXCEPT !.step = "allowlist", !.todo = {a}]
    /\ UNCHANGED <<environment, impls, proxies, record, mishaps, releases>>

\* Five attempts fail, the process is killed, a check is told something wrong.
ScriptStops ==
    /\ run # NoScript
    /\ Mishap
    /\ Done
    /\ UNCHANGED <<environment, impls, proxies, record, releases>>

\* The timelock accepts, a day or more after the offer: while deploy.js still runs for it,
\* this counts as a fault.
AcceptOwnership(p) ==
    /\ proxies[p].heir = "timelock"
    /\ proxies' = [proxies EXCEPT ![p].owner = "timelock", ![p].heir = "nobody"]
    /\ IF run.script = "deploy" /\ run.step \in {"guardian", "record"} THEN Mishap
       ELSE UNCHANGED mishaps
    /\ UNCHANGED <<environment, impls, record, run, releases>>

-----------------------------------------------------------------------------
ScriptStep ==
    \/ DeployImplementation \/ DeployProxy \/ InitializeSigning
    \/ ReadSigningInitialized \/ UpgradeToAndCall \/ SetSigner
    \/ \E a \in {Native} \cup Tokens : AcceptAsset(a)
    \/ Verify \/ TransferOwnership \/ SetPauseGuardian \/ WriteRecord
    \/ CheckOwner \/ FindTokens

DeploymentNext ==
    \/ Rerun \/ Release \/ ScriptStep \/ ScriptStops
    \/ \E p \in DOMAIN proxies : AcceptOwnership(p)

-----------------------------------------------------------------------------
(* Properties.                                                             *)

\* A record of an implementation with signed orders is of a router on which they can be paid.
DeploymentTypeOK ==
    /\ impls \in 0 .. 1 + MaxMishaps + MaxReleases
    /\ proxies \in Seq([impl : 0 .. impls, signing : BOOLEAN, signer : BOOLEAN,
                        accepted : SUBSET ({Native} \cup Tokens),
                        owner : {"deployer", "timelock"}, heir : {"nobody", "timelock"}])
    /\ record # NoRecord =>
          /\ record.proxy \in DOMAIN proxies
          /\ record.impl <= Recorded.impl
          /\ record.impl > 0 => SignedOrdersPayable(Recorded)
    /\ mishaps <= MaxMishaps

\* The scripts are safe to run again: whichever step fails or succeeds unseen, an operator
\* who runs again what is not done comes to a router that is ready and recorded, unless its
\* ownership has moved to the timelock.
RerunCompletes ==
    ~RouterReady ~> RouterReady \/ (record # NoRecord /\ Recorded.owner # "deployer")

=============================================================================
