-------------------------------- MODULE Payouts -------------------------------
(***************************************************************************)
(* A merchant's payout addresses, one for each chain: what a login seeds   *)
(* (backend/src/settlement/payout.ts), what the merchant declares and      *)
(* clears (/v1/me/payouts), the address a new link pays (POST /v1/links),  *)
(* and the lookup by which the indexer finds whose payment it saw          *)
(* (getMerchantByPayoutAddress of backend/src/store/postgres.ts).          *)
(***************************************************************************)
EXTENDS Integers, FiniteSets

CONSTANTS
    Chains,      \* the enabled chains of the deployment
    ServedBy,    \* of each chain its kind, "quai" or "evm", and its zone ("" if it names none)
    Addresses,   \* strings, normalized
    ZoneByte,    \* the zone an address' prefix names, or ""
    WellFormed,  \* the addresses that one of the two checksum schemes takes
    Identity,    \* the merchant's login address
    Nowhere,     \* no payout address
    Seeders,     \* logins that seed at the same time
    Makers,      \* links being created at the same time
    MaxLinks     \* bound: links on file before another one is begun

ASSUME PayoutsAssumption ==
    /\ \A c \in Chains : ServedBy[c].kind \in {"quai", "evm"}
    /\ DOMAIN ZoneByte = Addresses
    /\ WellFormed \subseteq Addresses
    /\ Identity \in WellFormed
    /\ MaxLinks \in Nat \ {0}
    /\ Nowhere \notin Addresses

VARIABLES
    payoutRows,  \* merchant_payout_addresses
    seeders,     \* the logins being served; since: chains declared since the rows were read
    makers,      \* the links being created; changed: the chain's row changed since
    payLinks     \* the links created; changed: as above

payoutVars == <<payoutRows, seeders, makers, payLinks>>

NoRow == [address |-> Nowhere, source |-> "none"]
Rest == [step |-> "rest"]

PayoutsInit ==
    /\ payoutRows = [c \in Chains |-> NoRow]
    /\ seeders = [s \in Seeders |-> Rest]
    /\ makers = [m \in Makers |-> Rest]
    /\ payLinks = {}

Configured == {c \in Chains : payoutRows[c] # NoRow}

-----------------------------------------------------------------------------
(* validatePayoutAddress and seedableChainsFor.                            *)

\* On a Quai chain only an address of another zone is refused: one that names no zone, or is
\* no address at all, is kept as it is.
QuaiTakes(c, address) ==
    \/ ZoneByte[address] = ""
    \/ ServedBy[c].zone = ""
    \/ ZoneByte[address] = ServedBy[c].zone

ReceivableOn(c, address) ==
    IF ServedBy[c].kind = "evm" THEN address \in WellFormed ELSE QuaiTakes(c, address)

\* An EVM chain would take a Quai address as well, but it is not entered for one unasked.
Seedable ==
    LET family == IF ZoneByte[Identity] = "" THEN "evm" ELSE "quai"
    IN  {c \in Chains : ServedBy[c].kind = family /\ ReceivableOn(c, Identity)}

-----------------------------------------------------------------------------
(* seedIdentityPayoutAddresses.                                            *)

\* Mutant of ToSeed: rows that exist are written as well.
ToSeedAll == Seedable

ToSeed == Seedable \ Configured

\* The merchant's rows are read, once.
BeginSeed(s) ==
    /\ seeders[s] = Rest
    /\ seeders' = [seeders EXCEPT ![s] = [step |-> "seed", todo |-> ToSeed, since |-> {}]]
    /\ UNCHANGED <<payoutRows, makers, payLinks>>

\* What is under way or published for chain c has been overtaken by a change of its row.
Overtaken(c) ==
    /\ makers' = [m \in Makers |->
           IF makers[m] # Rest /\ makers[m].chain = c
           THEN [makers[m] EXCEPT !.changed = TRUE] ELSE makers[m]]
    /\ payLinks' = {IF k.chain = c THEN [k EXCEPT !.changed = TRUE] ELSE k : k \in payLinks}

SetRow(c, address, source) ==
    payoutRows' = [payoutRows EXCEPT ![c] = [address |-> address, source |-> source]]

\* One missing row is written, over whatever is there by now, or the write fails.
SeedChain(s, c) ==
    /\ seeders[s].step = "seed"
    /\ c \in seeders[s].todo
    /\ seeders' = [seeders EXCEPT ![s].todo = @ \ {c}]
    /\ \/ SetRow(c, Identity, "login") /\ Overtaken(c)
       \/ UNCHANGED <<payoutRows, makers, payLinks>>

\* Nothing is left to seed, or the request ends before that.
EndSeed(s) ==
    /\ seeders[s].step = "seed"
    /\ seeders' = [seeders EXCEPT ![s] = Rest]
    /\ UNCHANGED <<payoutRows, makers, payLinks>>

-----------------------------------------------------------------------------
(* PUT and DELETE /v1/me/payouts/:chainId.                                 *)

Declare(c, address) ==
    /\ ReceivableOn(c, address)
    /\ SetRow(c, address, "declared")
    /\ seeders' = [s \in Seeders |->
           IF seeders[s] = Rest THEN Rest ELSE [seeders[s] EXCEPT !.since = @ \cup {c}]]
    /\ Overtaken(c)

ClearRow(c) ==
    /\ payoutRows[c] # NoRow
    /\ payoutRows' = [payoutRows EXCEPT ![c] = NoRow]
    /\ Overtaken(c)
    /\ UNCHANGED seeders

-----------------------------------------------------------------------------
(* POST /v1/links, and the indexer's lookup.                               *)

\* resolveSettlementAddress.  A merchant without any rows is paid at the login address.
Destination(c) ==
    IF c \in Configured /\ ReceivableOn(c, payoutRows[c].address) THEN payoutRows[c].address
    ELSE IF (c \in Configured \/ Configured = {}) /\ ReceivableOn(c, Identity) THEN Identity
    ELSE Nowhere

\* The link's payout address is resolved; without one the link is refused.
BeginLink(m, c) ==
    /\ makers[m] = Rest
    /\ Cardinality(payLinks) < MaxLinks
    /\ Destination(c) # Nowhere
    /\ makers' = [makers EXCEPT
           ![m] = [step |-> "upsert", chain |-> c, pays |-> Destination(c), changed |-> FALSE]]
    /\ UNCHANGED <<payoutRows, seeders, payLinks>>

\* upsertLink; or the request ends before it.
EndLink(m) ==
    /\ makers[m].step = "upsert"
    /\ \/ payLinks' = payLinks \cup
              {[chain |-> makers[m].chain, pays |-> makers[m].pays,
                changed |-> makers[m].changed]}
       \/ UNCHANGED payLinks
    /\ makers' = [makers EXCEPT ![m] = Rest]
    /\ UNCHANGED <<payoutRows, seeders>>

\* Mutant of FindsMerchant: the configured rows only.
FindsConfigured(c, address) == address = payoutRows[c].address

\* getMerchantByPayoutAddress: a configured row of the chain, or the login address.
FindsMerchant(c, address) == address \in {payoutRows[c].address, Identity}

PayoutsNext ==
    \/ \E s \in Seeders :
          BeginSeed(s) \/ EndSeed(s) \/ \E c \in Chains : SeedChain(s, c)
    \/ \E c \in Chains :
          \/ \E address \in Addresses : Declare(c, address)
          \/ ClearRow(c)
          \/ \E m \in Makers : BeginLink(m, c)
    \/ \E m \in Makers : EndLink(m)

-----------------------------------------------------------------------------
(* Properties.                                                             *)

LinkRecord == [chain : Chains, pays : Addresses, changed : BOOLEAN]

PayoutsTypeOK ==
    /\ \A c \in Chains :
          payoutRows[c] = NoRow
              \/ /\ ReceivableOn(c, payoutRows[c].address)
                 /\ payoutRows[c].source = "login" => payoutRows[c].address = Identity
    /\ \A s \in Seeders :
          seeders[s] # Rest => seeders[s].todo \subseteq Seedable /\ seeders[s].since \subseteq Chains
    /\ payLinks \subseteq LinkRecord
    /\ \A k \in payLinks : ReceivableOn(k.chain, k.pays)

\* A declared payout address is never replaced by the login address, except by a login that
\* had read the merchant's rows before it was declared (seeding reads them once and writes
\* the missing ones later).
DeclaredKept ==
    [][\A c \in Chains :
          payoutRows[c].source = "declared" /\ payoutRows'[c].source = "login" =>
              \E s \in Seeders : seeders[s] # Rest /\ c \in seeders[s].since]_payoutVars

\* The indexer finds the merchant of a payment to any link, unless the link pays a declared
\* address and the chain's row has changed since that address was read: through the fallback
\* to the login address, the seeding of further rows and the clearing of others.
LinkFindsMerchant ==
    \A k \in payLinks : FindsMerchant(k.chain, k.pays) \/ (k.changed /\ k.pays # Identity)

=============================================================================
