# TripplePay Merchants: verification project

TripplePay Merchants is a payment gateway. A merchant publishes orders and
payment links, a customer pays on a chain, and the merchant's server is told by
a signed webhook. This directory holds TLA+ models of the contract, the backend,
the browser pages, the Shopify connector and the deployment scripts, as far as
they keep state that can go wrong, the TLC configurations that check them, and
TLAPS proofs of their safety: of the contract, the webhook queue, the indexer, the
claims, Qi settlement, and most of the services around them.

Paths below are relative to the repository's root.

## 1. Inventory

| Component | Source | State it keeps | Operations |
|---|---|---|---|
| Payment router | `contracts/contracts/PayWithQuai.sol` | orders by (merchant, id), a nonce per merchant, fee rate and recipient, token/relayer/signer lists, pause | register (single, batch, for one payer, by relayer), cancel, purge, pay (ERC-20, native, signed), owner's setters, pause, rescue |
| Order signer | `backend/src/chain/signer.ts` | its key | sign an order's terms for one payer |
| Payment indexer | `backend/src/indexer/indexer.ts` | cursor (in the store), a `running` flag | tick: read the next final range, file each payment as a delivery, move the cursor |
| Webhook dispatcher | `backend/src/webhooks/dispatcher.ts` | `running` flag; rows in the store | sweep, attempt, hold, commit with compare-and-set |
| Webhook transport | `backend/src/webhooks/*.ts` | none | sign, resolve, post, back off |
| API: merchants | `backend/src/api/server.ts` | merchant rows | onboarding, profile, admin patch, delivery retry |
| API: links and claims | `backend/src/api/server.ts` | links, claims, order metadata | create, claim, Qi claim, sign |
| API: gateway orders | `backend/src/api/server.ts` | links with a fixed order, order metadata | create from a shop's cart, save metadata, status |
| Price conversion | `backend/src/gateway/rate-provider.ts` | the rates fetched last | fetch, serve from the cache or the fixed fallback |
| Qi service and indexer | `backend/src/chain/qi.ts`, `backend/src/indexer/qi-indexer.ts` | one-time addresses and what they received | derive an address, check a balance, settle, enqueue the webhook |
| Payout addresses | `backend/src/settlement/payout.ts` | an address per merchant and chain | validate, seed, declare, clear, resolve, look up |
| Login | `backend/src/api/server.ts` | nonces, sessions | challenge, login, logout, expiry |
| API keys | `backend/src/api/server.ts`, `backend/src/util/apikey.ts` | keys | create, list, rotate, revoke, migrate a legacy key |
| Store | `backend/src/store/postgres.ts`, `json.ts` | all of the above | two implementations of one interface: one statement or transaction each, or the whole file rewritten |
| Payment pages | `frontend/src/lib/payment.ts`, `app/pay`, `app/checkout` | the page's stage, attempts under way | load, claim, approve, pay, wait, poll for Qi, try again |
| Browser wallets | `frontend/src/lib/wallets.ts`, `components/ui/wallet-selector.tsx` | the wallets detected, the id stored | detect, connect, switch account, look up |
| Dashboard | `frontend/src/lib/auth.ts`, `lib/relayer.ts`, `app/dashboard`, `app/login`, `app/onboarding` | a token in memory, two cookies, a form | sign in, poll, switch account, sign out, save settings |
| Shopify connector | `shopify-app/src/` | install states, sessions, settings, pending orders | install, create a gateway order, mark the shop's order paid, expire |
| Contract scripts | `contracts/scripts/` | a record per network, the chain | deploy, upgrade, allow tokens, hand over to the timelock |

How they interact. The contract and the backend share only the chain: the
indexer reads `PaymentSettled` events and then the order itself. The indexer,
the API handlers and the dispatcher share only the store. Each handler is a
sequence of awaited store calls; every call is atomic (one SQL statement or one
transaction) and anything may run between two of them. The dispatcher is the
only one that talks to merchants. A signed authorization travels from the API
through the customer's browser to the contract. The connector is a merchant's
server like others: it asks the gateway for orders and is told of payments by
webhook. The dashboard's tabs share one browser's cookies and storage, and reach
the backend through a proxy that retries.

What is hard in it, and in which form it is modelled:

- foreign code runs in the middle of a payment, and all functions but the three
  payment functions may be called from it (`PayWithQuai`: a payment is several
  steps, other functions are enabled between them, a revert undoes all);
- order ids are reused after a purge, while events, webhooks and authorizations
  of the earlier life of the id are still about (`PayWithQuai`, `Relay`);
- rows are read, acted on for seconds, and written back (`WebhookQueue`);
- the process may end between any two store calls (`WebhookQueue`, `Relay`,
  `LinkClaims`);
- claims are recycled by age, with nobody telling the first claimant
  (`LinkClaims`);
- Qi addresses are derived from a counter that only the process knows, sweeps may
  overlap, and requests are served before the counter is moved (`QiSettlement`);
- whole records are read, changed and written back by overlapping requests, and a
  page may send a request twice (`Payouts`, `Profiles`, `GatewayOrders`);
- two systems have to agree on one payment over calls that fail after they took
  effect (`Connector`), and scripts have to be run again over a chain that has done
  part of their work (`Deployment`);
- a page's asynchronous attempts write one variable in any order (`Checkout`), tabs
  share cookies but not memory (`Dashboard`), and extensions appear in any order
  under any name (`WalletPicker`);
- two stores written by hand are to behave as one (`Stores`).

What makes each component correct:

- router: a registration is paid once, on the terms it was registered or signed
  with, and the contract keeps nothing;
- indexer: every final payment is filed once, none that is not final;
- dispatcher: the outcome of a row happened, a delivered row stays delivered,
  each queued row reaches an outcome;
- claims: the cap holds, an order has one customer at a time, a settled order is
  not sold again;
- Qi: an address belongs to one order, a confirmed order was paid, and is notified
  once;
- settings: what was declared or shown stays, but for requests that overlap; the
  indexer finds whose payment it saw;
- login and installation: a nonce or a state admits one holder, once, in time;
- gateway orders: the price is of a rate as fresh as promised, the shop's own
  reference survives what customers write;
- payment pages: a transaction is shown as confirmed only when its order is paid, and
  each attempt ends;
- wallets: the stored choice names the wallet that was stored last, and no other;
- dashboard: each tab ends up with a live session and that session's account;
- connector: a link that is shown is on the books, and a payment ends up marked;
- scripts: running them again makes the router ready;
- stores: the same calls leave the same rows.

`PROJECT.json` lists the components with what is modelled of each, and the
hazards of the code, each at its line, with the properties that cover it.

## 2. Modules

### PayWithQuai, OrderFate

`PayWithQuai.tla` is the contract. Storage: `orders`, `orderNonces`, and
`config` (fee, recipient, accepted tokens, relayers, signers, guardian, pause).
`registered` and `settlements` are the `OrderRegistered` and `PaymentSettled`
events in the order in which they are emitted; `stray` counts native funds that
arrived by other means. `call` is the payment in progress and `saved` the
storage it found, which `RevertPayment` restores.

- A payment is `PayOrder`, `PayOrderNative` or `PaySignedOrder` (checks, effects,
  first transfer), `TransferNet` (the second transfer, when there is a fee) and
  `FinishPayment` (the event). Between them every function that is not
  `nonReentrant` may run, called by whoever may call it.
- `PayeeNow` and `NonceNow` are the reads the code makes from storage *after*
  foreign code has run.
- The clock advances between transactions only.
- `registerOrder` and `registerOrderWithPayer` share one action;
  `registerOrderBatch` is all or nothing.
- uint256 products beyond `UintMax` revert.
- A signature is a choice of a signer and of terms: any terms may have been
  signed by a key on the list.

`OrderFate.tla` is what the contract promises without its storage: each
registration is unused, open, then paid or void for good; a transaction pays at
most one. `ImplementsOrderFate` is the refinement: the mapping reads the
committed storage (`saved` while a payment is in progress), so that a payment
is one step when it ends and a stutter when it reverts.

### WebhookQueue

The deliveries table and the dispatcher. `rows` is the table, `attempts` holds,
for each delivery in flight, the row its attempt started from, `retry` the
admin's retry between its read and its write. `Sweep` is `tick`: it takes the due
rows, oldest first, at most `SweepLimit`, and not while the last sweep is at
work. `Post`, `Hold`, `Accept`, `Refuse`, `RecordDelivered` and `RecordRefused`
are `attempt` cut at its awaits; `BreakOff` is the error `safeAttempt` swallows.
`Commit` is `updateDeliveryIfCurrent`; the guard compares the four fields the
SQL compares. `accepted` and `refused` record what the merchant's endpoint
really answered.

`refused` starts anew with each re-queueing that changes the row: what the
property compares with it is the row's attempts since then.

The store's rows keep their timestamps. Time moves when a delivery waits for it,
and may move with a retry's write, so that two writes may fall on one instant,
which the compare-and-set cannot tell apart.

### Relay

Extends `WebhookQueue` with the chain (`head`, `blocks`, `purged`), the indexer
(`cursor`, `indexing`) and the merchant's record with the requests that write it
(`merchant`, `request`). `TickStart`, `NextEvent`, `CheckKnown`, `CheckOrder`,
`FindMerchant` and `RecordPayment` are `tick` and `processEvent` cut at their
store and chain calls; `TickFails` is a call that fails or times out. `OnboardRead`,
`PatchRead`, `Upsert` and `RequeueRequest` are the handlers of `POST
/v1/merchants` and of `PATCH` with a webhook URL. `Crash` ends the process.

Abstractions: the cursor starts at 0, which stands for `START_BLOCK - 1`; the
payload is left out; one merchant, whose identity and payout address are one;
one profile request at a time; an order that was purged is gone from `getOrder`
and is not registered again.

### LinkClaims

One link, its claims (`claims`, keyed by order), the requests being served
(`requests`), the authorizations customers hold (`held`), payments on the
contract (`paid`) and by Qi (`qiOrders`). `Claim`, `TakeFixed`, `CheckLatest`,
`Recycle`, `TakePooled`, `Mint` and `Sign` are `POST /v1/links/:slug/claim` cut
at its store calls; `QiClaim`, `QiRecycle`, `QiReserve`, `QiEnsure` and `QiMeta`
are `qi-claim`. `Abandon` is an error or the end of the process between two calls.

Abstractions: the store is PostgreSQL (the oldest stale claim is recycled); rows
another request has locked are skipped there, which is an order the model has too.
The order signer is configured. A minted id is any order not seen before; when the
bounded set of orders is used up minting stops. The pool a handler read and the
pool in the store differ only by orders taken since, so the store's is used.
All Qi customers are one payer, as in the code. `CustomerMeta` is the request by which
anyone may save an order's metadata: it takes the slug, by which the Qi indexer finds the
claim, off the order, or puts it back.

### QiSettlement

The Qi rail: `QiService` and `QiIndexer`, the table `qi_orders` (`records`), the
deliveries it files, and the addresses' unspent value (`funds`). The wallet's
address is its index; `pointer` is the next one and lives in the process. `boot`
is `main` after `app.listen`: the API serves requests while `BootList` and
`BootAdvance` (`QiService.init`) have still to move the pointer past the stored
addresses, and the first sweep is awaited before the timer starts.

- `Ask`, `Load`, `Derive`, `Insert`, `Show` are a request for an order's address:
  `GET /v1/orders` (a view) or `POST qi-claim` (a claim, which also saves the
  order's link), with `ensureQiOrder` cut at its store calls.
- `List`, `Revisit`, `Check`, `Mark`, `SettleLinkClaim`, `LookUp`, `File`,
  `EndSweep` are `sweep`, `afterSettlement` and `enqueueDelivery` cut at theirs.
- `RequestFails` and `RowFails` are errors; `Restart` ends the process and starts it.
- `CustomerMeta` is `POST /v1/orders/:merchant/:orderId/meta`, open to everyone: without a
  slug it writes NULL over the one `Show` saved. `linked` are the orders that name their
  link now.
- `Send` is a customer who was shown an address. `shown` and `sent` remember what
  customers saw and paid, which no table holds.

Abstractions: the view's own `getQiOrder` is the one in `ensureQiOrder`;
`getOrderMeta` and `settleClaimedOrder` are one step; whether the delivery is
queued or skipped is `Relay`'s subject; value on an address is not spent; an
address is tried when its index is at most `MaxIndex`; two merchants do not use
one order id.

The model settles a point the comments get wrong. `index.ts:105` says that the
wallet is seeded "BEFORE any fresh derivation", while the server has been
listening since line 102; and an address that is taken is not "derive again"
(`postgres.ts:984`): the insert raises, and nothing in `ensureQiOrder` catches it,
so that the request fails. Both are harmless to the money: the UNIQUE column
refuses the second use, which `ShownAddressWatched` is about.

### Services and its parts

The parts around the payment path are modules of their own: each has its variables,
an initial predicate and a next-state relation. `Services.tla` puts them side by
side. No variable of one occurs in a guard of another, so a behaviour chooses one
`part` and runs that: the instance has the sum of their states and not the product.
`Clock` is the time the timed parts read.

- `OneTimeToken` is an abstract specification: a token admits the holder it was
  issued to, once, while it is young. `SignIn` (nonces and sessions of the backend)
  and `Install` (OAuth states of the connector) implement it, by the mappings
  `OneTimeNonces` and `OneTimeStates`. In `SignIn` the statement that stores a
  session sees a snapshot, as in PostgreSQL: `BeginSession` reads, `CommitSession`
  writes; the cap may be overstepped by one row fewer than there are logins side by
  side, which is what `SignInTypeOK` says.
- `Payouts`: `BeginSeed`, `SeedChain`, `EndSeed` are `seedIdentityPayoutAddresses`
  cut at its store calls; `Declare` and `ClearRow` the merchant's endpoints;
  `BeginLink` and `EndLink` the creation of a link around `Destination`
  (`resolveSettlementAddress`); `ReceivableOn` and `Seedable` the rules of
  `validatePayoutAddress` and `seedableChainsFor`. An address is told apart by the
  zone its prefix names and by whether it is well formed.
- `Profiles`: onboarding (`LookUp`, `Create`) behind a proxy that sends it again,
  `PATCH` requests (`Starts`, `Save`), which write back the whole record they read,
  and the settings form with its draft.
- `GatewayOrders`: `CachedRateProvider` with requests to the feed that overtake each
  other or fail, and `POST /v1/gateway/orders` up to the metadata row that customers
  write as well. A plugin posts a wish: an order of its own (`Supplied`), which it may post
  again with the same reference, another or none, or none, when an order is minted. Each
  post that is answered has a link of its own; links of one supplied order share its row.
  `CustomerMeta` and the two calls of a Qi claim (`CheckoutReads`, `CheckoutEnds`) write it
  too. A rate is the instant it is of.
- `Connector`: `orders/create`, the gateway's payment webhook, the settings and the
  sweep over the file store, cut where a handler waits for another service. Shopify
  delivers at least once; the gateway retries until its attempts run out; a call may
  fail, or take effect and fail.
- `Checkout`: the link page and the checkout page. `tries` are the attempts, which
  run side by side; each step writes `stage`. `CheckClaim` and `TakeOrder` are the two
  store calls of `POST claim`, so that two attempts may get an order each; `shown` is the
  page's `claimedOrderId`, which `Claimed` overwrites whoever's order it was. `Mine` is the
  contract, which pays an order once.
- `Dashboard`: two cookies, a token in each tab's memory, requests answered at any
  later time. `Check` is the shell's `checkSession`, which takes every answer that is not
  in order for an expired session: `Fail` makes it such an answer (429, 500, the proxy's
  502), `Lose` leaves it without one. `SessionOver` is the `logout()` that follows, a call
  that itself may fail. `Visit` and `VisitKept` are another page of the dashboard, fetched or
  kept by the browser, whose shell checks anew. `shown` is what the polls brought; the name
  in the sidebar, which a check or a switch sets, is left out.
- `WalletPicker`: `Detected` is `detectWallets` over what extensions announced and
  injected; `Look` is `getActiveWallet`, which forgets an id that nobody has. `asking` has
  for each picker the request it is busy with: `Connect`, `ConnectBlip` or `SwitchChain`
  ask the wallet, and `Answered` stores the id when it has answered, whatever has been
  stored meanwhile. `mismatch` and `signing` are the dialog about another account and the
  login it leads to.
- `Deployment`: `deploy.js`, `upgrade.js`, `allowTokens.js` as sequences of
  transactions and reads; `Mined` and `Throws` are the two ends of a transaction,
  after either of which the script may be told the other.
- `Stores`: `StorePostgres` and `StoreJson` translate the two backend stores method
  by method as functions from tables to tables and an answer (`Tables`),
  `ConnectorPostgres` and `ConnectorFile` those of the connector. `Stores` makes the
  calls the handlers make to both, in each of the groups of tables. `agree` says that
  the last answers were equal; `parted` that a call was made on which the two are
  known to differ (below).

`Interchangeable` has eight exceptions, each a guard in the module. Nothing more is said
after five calls: a stale claim recycled while another is no younger (`RecyclesAnother`); an
eviction among sessions of one age at the cap (`EvictsEither`); a metadata row written again
without its name or by another merchant (`ReplacesMore`); a Qi address that is taken; an
install state presented for another shop. And nothing of three reads: a payout lookup with
several claimants (`PlainAddress`); the latest or the next due among rows of one instant
(`AllDiffer`, `TakeDue`); several rows for one shop order (`SamePending`).

## 3. Runs

| Run | Module, cfg | Question | States |
|---|---|---|---|
| `contract_native` | `MCPayWithQuai`, `PayWithQuaiNative.cfg` | native orders under one reused id, with reentrant calls, fee changes, rescues and purges | 223,602 |
| `contract_signed` | `MCPayWithQuai`, `PayWithQuaiSigned.cfg` | two ids, two customers; merchant's, batch, relayed and signed orders race, one administrative call anywhere | 775,780 |
| `queue` | `MCWebhookQueue`, `WebhookQueue.cfg` | attempts, retry, hold and crash on two rows | 391,501 |
| `relay` | `MCRelay`, `Relay.cfg` | indexer, onboarding, profile request and dispatcher over one store | 1,060,924 |
| `link_claims` | `MCLinkClaims`, `LinkClaims.cfg` | two requests at a time on four kinds of links | 1,887,373 |
| `qi_settlement` | `MCQiSettlement`, `QiSettlement.cfg` | two requests and overlapping sweeps over two orders, with a failure or restart anywhere | 395,234 |
| `services` | `MCServices`, `Services.cfg` | the parts around the payment path: connector, installs, sign-in, payouts, profiles, gateway, payment pages, deployment, dashboard, wallets, stores | 770,926 |
| `relay_empty_url` | `MCRelay`, `RelayEmptyUrl.cfg` | finding 1 | |
| `relay_left_skipped` | `MCRelay`, `RelayLeftSkipped.cfg` | finding 2 | |
| `claims_after_paid` | `MCLinkClaims`, `LinkClaimsAfterPaid.cfg` | finding 3 | |
| `claims_twice` | `MCLinkClaims`, `LinkClaimsTwice.cfg` | finding 4 | |
| `qi_rate` | `MCQiSettlement`, `QiSettlementRate.cfg` | finding 5 | |

What the passing runs check:

- contract: `PaidOnce`, `PaidAgainOnlyAfterPurge`, `SettledAsRegistered`,
  `RecentPaymentOnRecord`, `FundsPassThrough`, the inductive invariant
  `PaymentInv` of the proofs, and `ImplementsOrderFate`;
- queue: `OutcomeEarned`, `DeliveredIsFinal`, and under fairness
  `EventuallySettled`;
- relay: `CursorCoversPayments`, `OnlyFinalPayments`, `DeliveredOnce`, and under
  fairness `EventuallyOnFile`;
- claims: `RedemptionsCapped`, `ExclusiveForWindow`, `SettledNotSoldAgain`;
- Qi: `ShownAddressWatched`, `ConfirmedWasPaid`, `ConfirmedOnce`, and under fairness
  `EventuallyConfirmed`, `EventuallyClosed`;
- services: `PaymentOnBooks`, `TokensAreOneTime` (the two refinements of `OneTimeToken`),
  `SettingsKept`, `LinkFindsMerchant`, `FreshUnlessFailed`, `ReferenceKept`,
  `SaysPaidOnlyIfPaid`, `WalletsKeptApart`, `Interchangeable`, and under fairness
  `PaidGetsMarked`, `AttemptEnds`, `DeploymentCompletes`, `DashboardSettles`.

Each run also has a type invariant; `ServicesTypeOK` collects those of the parts, which
relate the parts' variables as well.

What some of these properties say, and do not:

- `EventuallyClosed`: the claim of a settled order is closed as long as the order names
  its link; the sweeps come back to it when a link taken off is put back. That nobody
  takes it off is not promised, and not so (section 5).
- `ReferenceKept`: an order minted for its post keeps exactly the reference posted. Of one
  that the plugin supplies and posts again, the row has one of the references posted with
  it: a later post replaces the earlier one, whose plugin was answered, and two at once
  may end either way. What customers save never removes it. Nor does a Qi claim invent
  one, but it may put back a former one.
- `SaysPaidOnlyIfPaid` is about the transaction on the screen, and its order. The order
  that is printed next to it may be another.
- `WalletsKeptApart` is about the id stored last, by whichever request: a
  network switch that has waited for its wallet is one of them, and undoes a connection that
  the other picker has made meanwhile.
- `DashboardSettles` holds because polls go on and a 401 leads to the login page; it does not
  say that a tab keeps its session: a check that fails for another reason ends it too.
- `EventuallySettled` is about crashes, broken-off attempts and retries. That held rows may
  fill the batch of a sweep is not exercised: the instance has one merchant.

The bounds, and why they are enough:

- Contract: two registrations of a merchant are what a reused id, and a nested
  registration inside a payment, need. The purge delay is 2 and time goes to 4
  (native), so that an id is paid, purged, registered and paid again. The amount
  199 at 30, 250 and 500 basis points has fees 0, 4 and 9: the case without a fee
  and the rounded one. `MaxFeeBps` is 500 and 10000 is the denominator, as in the
  code; `UintMax` 50000 makes 199 * 500 overflow (native). `MaxAdmin` bounds
  administrative calls and forced transfers: three of them suffice to force funds
  in, change the fee and rescue within one payment. `contract_signed` has one, and
  time up to 2, for the sake of the larger sets.
- Queue: two rows with a sweep limit of one compete for the sweep. Two attempts
  each distinguish the first failure from the last. One retry, one crash or broken-off
  attempt and one deactivation may come at any point.
- Relay: two payments may share a block or not; three blocks with one confirmation
  and a range of two give ranges that start after a partial one; one failed call
  or end of the process (`MaxFaults` bounds both together) anywhere.
- Claims: two requests at once are what each race here needs; three orders; two
  wallets and Qi. Staleness is three times the double-pay window, as 15 to 5
  minutes, and time goes one beyond it so that a claim can be recycled. Wallets
  and requests are interchangeable, which is sound as no liveness is checked there.
- Qi: two orders, so that one can take the other's address; the customers of one
  send up to twice its price, so that two sweeps see different balances. Two requests
  in all, and two requests and sweeps at a time (`MaxBusy`), are what each race here
  needs. `MaxAttempts` is 2 for the code's 5: the first and the last. `MaxIndex` is
  never reached. One fault, at any point, restarts the process with its pointer at 0.
  `Renamed`: metadata is saved for the order that gets paid, at any time and any number
  of times.

- Services, part by part: two requests of each kind side by side, which is what each
  race needs; three nonces for two logins, two OAuth states for two callbacks, and time one
  beyond their life. `SomeMarkets` has prices over time; two posts at once of one supplied
  order with two references; and posts in turn, of a supplied and of a minted order, with and
  without a reference, while customers save their details and a claim is under way (`buyers`,
  `checkouts`). `SomeVisits` has for the signed link two orders, so that two attempts can hold
  one each, and one order that others may pay too (`rivals`). Two pickers, whose requests
  overlap where `Overlapping` says so: in the browser with two wallets that announce
  themselves and one that hides. `SomeLoads`, `SomeVisits`, `SomeDays`, `SomeBrowsers` list what is
  installed or served together, each for a case of its own: two `orders/create` and a
  webhook, or two webhooks and a change of account; signed and registered orders, in
  Blip and with a token; a registration sent twice, or the settings page beside
  another client; extensions that imitate or cover each other. `HookAttempts` is 2 for
  the code's 10, with one fault (`MaxFaults`): fewer than attempts, as the property
  needs. `SessionCap` is 1 and `MaxSessions` 2 for the code's 20. `MaxMishaps` 2 lets a
  transaction be mined unseen and the script stop as well. `MaxUpsets` 1 is a lost
  or failing answer, a page visited or reloaded, or an expiry anywhere. `MaxLinks` 2: links do not act on each other.

Deadlock is not checked where a bound on time, blocks or calls lets the system
stop (contract, queue, relay, services).

## 4. Fairness

- `WF(Sweep)`, `WF(Attempt(id))`: the dispatcher's timer fires every second and
  goes on while the process lives, a restart starts it again, and a post has a
  timeout. Weak fairness is enough: a due row stays due, and a sweep in progress
  ends.
- `WF(IndexerStep)`: the same for the indexer's timer and `withTimeout`.
- `WF(Upsert \/ RequeueRequest)`, `WF(RetryWrite)`: a handler that was not cut
  short by a crash ends.
- `WF(Tick)`, `WF(NewBlock)`: time passes while something waits for it; the chain
  grows.
- `WF(Activate)`: deliveries of a deactivated merchant wait as long as it is
  deactivated; the property is about merchants that come back.
- `WF(BootStep)`, `WF(SweepStep(s))`, `WF(Serve(r))`: the process is restarted when it
  ends, its Qi timer goes on, and store and node calls return. Customers need not
  ask, nor pay.
- `ConnectorFairness`: an answer Shopify owes comes or fails, and the gateway sends a
  webhook again while it has attempts left. The shop need not send its order again.
- `CheckoutFairness`: the customer answers the wallet, reads are answered, and the
  page's deadlines pass. A transaction need not be mined.
- `DeploymentFairness`: a script goes on, and its operator runs again what is not done.
- `DashboardFairness`: a tab polls and its polls are answered. No other answer need
  come: a check, a sign-out or a switch may be lost.
- Nothing is assumed of merchants' endpoints, admins, crashes or failing calls,
  except that faults are finitely many, which the bounds say.

## 5. Findings

Five places where the code does not do what its documentation says. Each is a run that
ends in a counterexample.

1. `relay_empty_url` (`QueuedHasUrl`): onboarding without a webhook URL re-queues
   the merchant's skipped payments to the empty URL (`server.ts:1548`), where they
   fail for good.
2. `relay_left_skipped` (`NothingLeftSkipped`): a payment that the indexer is
   recording while the URL is configured stays skipped (`indexer.ts:213`).
3. `claims_after_paid` (`NoOwnerAfterSettlement`): nothing marks a claim settled
   when its order is paid on the contract (`qi-indexer.ts:135` is the only caller),
   so that a paid order passes to another wallet when its claim is stale. The contract
   refuses the second payment; that wallet holds an authorization it cannot use.
4. `claims_twice` (`OneOrderPerWindow`): the double-pay guard is a read followed
   by a write, and two requests of one wallet both pass it (`server.ts:969`).
5. `qi_rate` (`ConfirmedAtRate`): `orderQits` (`qi.ts:84`) divides by 10^18 before it
   multiplies by the rate, so that an order is priced by its whole QUAI. One below 1
   QUAI, or in a token with fewer decimals, costs nothing and is confirmed as soon as
   its address was asked for. `ConfirmedWasPaid` is about the price the code computes,
   this one about the rate the documentation states.

### Other divergences met while modelling

No run is spent on these; the models have the code's behaviour, and the properties are
stated so that they hold of it. Files are named without their directories.

Backend. A link's payment is not attributed once the payout row it was resolved from has
changed (`LinkFindsMerchant` says so); clearing the last row makes a merchant one without
rows again, paid at the login address (`payout.ts:222`). A seeding login overwrites an
address declared since it read the rows, against "never overwrites" (`payout.ts:162-166`).
On a Quai chain any string is accepted as a payout address (`payout.ts:108-123`). Two
overlapping `POST /v1/merchants`, or one retried by the proxy, both find no merchant; the
second replaces the secret that the first showed, against `server.ts:1528`; a lost answer
leaves a merchant whose secret nobody has. `PATCH` writes back the record it read, an old
`active` flag included. The JSON store keeps an absent markup, which then takes
the configured default, while PostgreSQL stores 0. The gateway's status looks a delivery
up under the merchant's address although it is filed under the payout address; skipped
payments are re-queued by the former too. While the price feed fails, cached rates are served however old they are.

Shared rows and state, which these properties are stated around. The Qi indexer finds the claim
to settle by the slug in the order's metadata (`qi-indexer.ts:134`), which anybody's metadata
request without a slug sets to NULL (`postgres.ts:943`): until another one puts it back, the
claim of the paid order stays open and can be recycled, against `qi-indexer.ts:129-131`
(`EventuallyClosed`). The Qi claim of a gateway link reads the reference (`server.ts:1063`) and
writes it back in a later call, over the one that a post of the order has brought in between,
against "Preserve the merchant's shop reference" (`server.ts:1061`; `ReferenceKept`). The
confirmed screen and the receipt show an attempt's transaction with the order claimed last
(`app/pay/[slug]/page.tsx:276`); after two taps these may be of two attempts
(`SaysPaidOnlyIfPaid`). `switchChain` stores the id it started with after waiting for the wallet
(`wallet-selector.tsx:196`), over one that the other picker has connected, although "the wallet
itself hasn't changed" (`WalletsKeptApart`). `checkSession` takes any answer that is not ok for
an expired session (`auth.ts:216`), the proxy's 502 for an unreachable backend included, and the
shell logs out, against "a network blip must not look like a logout"
(`dashboard-shell.tsx:160-161`; `DashboardSettles`).

Stores. Beside the exceptions of `Interchangeable`: `getMerchantByPayoutAddress` of the JSON
store drops the login address once the chain has a row (`postgres.ts:313-330` says they
mirror each other); `reclaimStaleClaim` takes the first stale row there, not the oldest;
`updateDelivery` inserts a missing row there; `insertQiOrder` raises in PostgreSQL where
callers expect `false`; the connector's file store deletes a state that another shop
presents. `upsertClaim` has no caller. A JSON write that throws stays in memory.

Connector. Two concurrent `orders/create` both mint an order, and after the first row has
expired each retry mints another. `sweepExpired` leaves the expired link on the shop's
order. A change of settings between order and payment makes the webhook fail until its
attempts run out. When the row's write fails after the sale was marked, the retry marks it
again. The entry point always takes the file store, whatever `DATABASE_URL` says.

Payment pages. The pay button stays while the network is being checked: two taps run two
attempts, and the later error replaces "done"; the late answer of "Try again" can replace
"done" with "ready". In Blip no receipt is waited for. A transaction that is pending
longer than the claim's window leads to a second order. The status endpoint answers 404
for an order the contract does not know, so a Qi payment of a gateway order never shows
on the page.

Wallets. A stored `eip6963:` id does not survive a reload, as the uuid is new on each page;
a wallet that comes into the page late is forgotten as soon as another was detected;
two unknown wallets of one class share an id.

Dashboard. The proxy has no `PUT`, so that `PUT /v1/me/payouts/:chainId` cannot be reached
from the page. A late 401 of an old session ends the new one. Sign-out ends the cookie's
session and not the tab's; when it does not reach the server both stay alive
(`auth.ts:238` says they are dead). The proxy sends a `POST` again after a timeout. A URL
typed while the settings are being saved is replaced by the saved one.

Scripts. `deploy.js:121` uses `wallet` before its definition when the network has no
`FEE_RECIPIENT`. A retried `initializeSigning` whose first answer was lost reverts and
stops the script. An error that is not on the list of transport errors reads as "not
initialized". The timelock must not accept ownership before `setPauseGuardian` is sent.

## 6. Proofs

The proofs hold for all values of the constants that satisfy the modules' named
assumptions, which TLC evaluates on every run. Each proof module states its inductive
invariant first, then has one lemma for each action or group of actions, and ends with
the theorems.

| Module | Subject | Theorems |
|---|---|---|
| `PayWithQuaiProofs` | the contract | `TypeCorrect`, `PaymentCorrect` and five properties |
| `OrderFateProofs` | the contract against its abstract specification | `RefinesOrderFate` |
| `RelayProofs` | deliveries and dispatcher | `QueueCorrect`, `QueueTypeCorrect`, `OutcomeEarnedAlways`, `DeliveredIsFinalAlways` |
| | indexer, requests and dispatcher over one store | `RelayCorrect`, `CursorCoversPaymentsAlways`, `OnlyFinalPaymentsAlways`, `OutcomeEarnedInRelay`, `DeliveredOnceAlways` |
| `LinkClaimsProofs` | claims and authorizations | `ClaimsCorrect`, `TypeCorrect`, `RedemptionsCappedAlways`, `ExclusiveForWindowAlways`, `SettledNotSoldAgainAlways` |
| `QiSettlementProofs` | the Qi rail | `TypeCorrect`, `QiCorrect`, `ShownAddressWatchedAlways`, `ConfirmedWasPaidAlways`, `ConfirmedOnceAlways` |
| `ConnectorProofs` | lemmas about the connector | cited by `ServicesProofs` |
| `StoresProofs` | lemmas about the stores, method by method | cited by `ServicesProofs` |
| `ServicesProofs` | the eleven services | `PartsCorrect`, `ServicesTypeOKAlways`, `InterchangeableAlways`, `WalletsKeptApartAlways`, `SaysPaidOnlyIfPaidAlways`, `LinkFindsMerchantAlways`, `PaymentOnBooksAlways`, `FreshUnlessFailedAlways`, `ReferenceKeptAlways`, `TokensAreOneTimeAlways`, `SettingsKeptAlways` |

A theorem `...Always` proves the property it is named for.

### The contract

Assumption: `ConstantsAssumption` of `PayWithQuai` (the zero address is nobody, the
numbers are naturals, the fee cap is at most 100%, the purge delay is positive, the
initial configuration is one).

- `TypeCorrect`: `TypeOK`. The one numeric lemma is `FeeBound`: a fee at a rate of
  at most 100% is at most the amount, so `amount - fee` does not underflow.
- `PaymentCorrect`: `PaymentInv`, by induction. The properties are about the log of
  settlements and are not inductive: a payment in progress has settled its order
  and not logged it, and a revert brings back an earlier storage. So the invariant
  - is stated of a *storage* `s` (`StorageInv(s)`) and claimed both of the current
    one and of `saved`, so that `RevertPayment` preserves it;
  - says that live orders are registrations on record under their nonce
    (`OrdersOnRecord`), that an order waiting for its payment was never paid
    (`OpenIsUnpaid`), and what the log looks like (`LogOK`);
  - says of a payment in progress that its order is settled as of now and not
    logged (`CallInv`). Now is less than the purge delay away and a settled order
    cannot be cancelled, so no nested call can remove or replace it: the reason
    why reading the order again after a transfer is safe.
- `RefinesOrderFate`: the refinement itself, step by step, with the mapping of
  `PayWithQuai` (the storage a revert would bring back). Two facts carry it. A step of
  the contract other than the end of a payment logs nothing and only *advances* the
  storage (`Advances`): registrations are appended, and what is on record under an old
  nonce was so before; then an open registration stays open or becomes void and a fresh
  one is open, which is a step of `OrderFate` whatever the calls nested in it did,
  because `Advances` is transitive and `saved` advances to the storage now
  (`FateInv`). The end of a payment logs one registration that was open.

### Queue and relay

Assumptions: `QueueAssumption` and `RelayAssumption` (the numbers' ranges; the payments
are finitely many).

- `QueueInv`. `OutcomeEarned` compares a row with what the endpoint answered, but what
  writes the row is an attempt that read it seconds earlier, or a retry. The invariant
  says of an attempt in flight (`AttemptOK`) that the stored row is pending still, under
  the same URL, and that once it differs from the attempt's copy it stays different: no
  retry can write the copy back, which is older than a retry or not freshly queued. So
  the compare-and-set succeeds only on the row the attempt started from. Of a retry it
  says that its row was not delivered when it was read and that its URL still holds.
- `RelayInv` adds to `QueueInv` what the indexer's tick holds between two calls
  (`TickInv`): every payment up to the end of its range is on file, was purged, or is
  among the events still to come. That is why the cursor may pass the range when no
  event is left, and why a call that fails anywhere loses nothing. The order of a
  block's events is any. Purging is part of the invariant because a purged order is
  skipped, as in the code.

### Claims

Assumptions: `ClaimAssumption` and `LinkAssumption` (a link's pool holds each order once,
from its stock; a gateway link has one order and no pool). Both hold of the links that
`POST /v1/links` and the gateway endpoint create.

`ExclusiveForWindow` is about the authorizations customers hold, while the claims they
came from are recycled. `ClaimsInv` says of all that were issued, and of those whose claim is in
hand but not yet signed (`Issued`), that each is backed by the claim on file or older
than it by the staleness time (`Backed`), and that two for one order and different payers
are that far apart (`Apart`). `BooksInv` has the cap: the claims are of the pool's stock
until there are others, and then the pool is empty and their number is within it; this is
what `Mint`, which counts under the link's lock, preserves. `SettledNotSoldAgain` follows
for each step from the guards of recycling.

### Qi settlement

Assumption: `QiAssumption` (the orders are finitely many, the numbers naturals).

- `TypeCorrect`: `TypeOK`.
- `QiCorrect`: `QiInv`, by induction. What customers saw and sent is tied to what
  the table says *now*, although requests and sweeps work on rows they read before:
  - each order has one record and each address one (`OneAddressEach`), which
    `Insert` keeps because it looks at the table and not at what the request read;
  - an address holds what was sent for its order (`LedgerOK`);
  - the row a sweep works on is still on record under its address, its balance was
    sent, and past `Mark` it is settled (`SweepOK`); all of this lasts because
    records stay and `sent` only grows (`Grown`).
- From it: `ShownAddressWatchedAlways`, `ConfirmedWasPaidAlways` and
  `ConfirmedOnceAlways`. The last two hold for any number of overlapping sweeps.

### Services

Assumptions: those of the parts (`ConnectorAssumption`, `InstallAssumption`,
`SignInAssumption`, `PayoutsAssumption`, `GatewayAssumption`, `CheckoutAssumption`,
`ProfilesAssumption`, `DeploymentAssumption`, `DashboardAssumption`, `WalletAssumption`,
`StoresAssumption`). Among them: rates are cached for some time (`config.ts:166`); the body
of a profile request names known fields with values of their types, as its schema
demands; a secret is not the empty string; a link's pool names each order once and none
that random bytes will bring forth. No bound is put on the number of tabs, requests,
extensions, orders or deliveries.

Each part has an invariant of its own, preserved by its own steps; a step of `Services` is
a step of one part which leaves the others' variables alone, except that `clock` is
shared: it stands still or advances by one, which every timed part's invariant survives.
`PartsInv` is the conjunction.

- `ConnectorInv`: a gateway order was minted for the shop's order under which it is
  on the connector's books, or a handler that is still running will put it there and
  nobody has been shown it (`GatewayPart`, `CreatesOK`). Any number of `orders/create` and
  webhooks may run side by side, and end anywhere.
- `CheckoutInv`: whichever orders attempts have claimed, each one's transaction pays the
  order of that attempt (`TryOK`), and
  it is past its receipt only if that says "paid", except in Blip; what the page shows was
  true when it was written (`StageOK`), and stays so because transactions are only
  added and what is paid stays paid (`Extends`).
- `PayoutsInv`: what a creator of a link and a published link hold agrees with the
  chain's row, or is marked as overtaken by a change of it (`MakerOK`, `PaysWell`); a
  seeding login overwrites a declared row only if it had read before it was declared
  (`SeederOK`).
- `GatewayInv`: the cache's rate is no older than one answer at the time it was stored
  (`CacheOK`), and so is the rate of each link but after a failure. A minted order is its
  link's alone. What the metadata row of an order holds, and what a claim under way has
  read of it, is of the references posted with that order, and, from the first post with a
  reference that is saved, is one; of a minted order it is the one posted.
- `InstallInv`, `SignInInv`: a token on file is the one that was issued, and one that
  has admitted somebody is not on file. From these every step of either part is
  a step of `OneTimeToken` under its mapping, or a stutter: both refinements.
- `ProfilesInv`: the secrets in the record, on the pages and in copies that requests
  hold are of calls that created the record (`MadeIn`); a request is given known fields
  with values of their types, and one of the settings page its URL. `SecretsShown`: a
  page shows a secret exactly when it is done.
- `InstallTyped`: a callback under way is for a shop that Shopify was asked for with its
  state (`Underway`).
- `SignInTyped`, for the cap on sessions. A statement deletes what its snapshot showed it
  as too old, while others insert; that the table is within its bound is not inductive.
  The logins between snapshot and write are ordered by their snapshots (`Before`). Of each
  the invariant says that what it leaves of the table as it is *now*, with one row for
  each login that looked before it and has yet to write, is at most the cap and one row
  for each login but two (`Room`). One that writes is in nobody's `Before` any more, which
  pays for its row there; to those that looked earlier its row is new, and it has left
  room for them, because they were in its own `Before`.
- `DashboardInv`: a tab's memory and account, the cookie and every answer on its way are
  of a session that was entered (`TabOK`, `AnswerOK`).
- `DeploymentInv`: a router only gains (`Gains`): no step takes back an implementation, its
  signing domain or its signer. A script that is about to upgrade has an implementation
  no older than the router's, and one that is past its check of the result has a router
  on which signed orders can be paid (`RunFits`), so that the record it writes, and every
  record written before, describes the router it names (`RecordFits`), wherever
  scripts stopped, were run again, or were told that a mined transaction had failed.
- `StoresInv`: each group of tables has a relation between the two stores' rows, and each
  call of the two on related tables gives the same answer and related tables (`...Same`), or
  is one of the exceptions. A table in SQL is a set of rows under a key, in the
  file an object or a list: the relation says which list (`Lists`, `ClaimsOf`), that a
  row is there once, and, of sessions, that the stores agree on the ones alive, since the
  file drops expired ones when it is read and PostgreSQL when a merchant signs in.
- `PickerInv`: the stored id is one of the ids of the extension picked last (`IdsOf`), and so
  is the id that each request under way, in a picker or the dialog, will store of its own.
  What `detectWallets` finds is computed by going through the extensions one after another,
  four times. That each pass keeps what its step keeps (`GoThroughKeeps`) would be an
  induction over the sequence, and the library's induction theorem is out of the
  provers' reach; the argument is that of the least position at which it fails, which exists
  because `<` is well-founded on the naturals (`NatMin`). So the list names extensions that
  are in the page, those that announced themselves first, and no brand twice
  (`DetectedInOrder`).

`SettingsKeptAlways` proves an action property together with an invariant: it has one
lemma for each kind of step and uses both `PayoutsInv` and `ProfilesInv`.

### Only model-checked

- Liveness under fairness, which TLAPS does not do: `EventuallySettled`,
  `EventuallyOnFile`, `EventuallyConfirmed`, `EventuallyClosed`, `PaidGetsMarked`,
  `AttemptEnds`, `DeploymentCompletes`, `DashboardSettles`.

Every invariant and every action property that a passing run checks is also a theorem. The
five runs that expect a violation show, on small instances, what is not so.

## 7. Not modelled

- Library code: ownership transfer and UUPS upgrades beyond the scripts' use of them,
  the timelock, wallets' signing. ERC-20 balances and tokens that take a fee of their
  own.
- Encodings, signatures, hashing of keys, URL rules (`webhooks/urlGuard.ts`), DNS
  pinning, gas estimation, the arithmetic of quotes and of displayed amounts: pure
  functions.
- Reads that change nothing: lists of links, deliveries and orders, analytics, the
  gateway's status endpoint, chains' health.
- What pages render: the documentation, landing, analytics, payments and links pages,
  the demo checkout, balances; the connected chain of a page (`useConnectedChain`).
- Development aids: `dev/`, `scripts/dev*.js`, `payLink.js`, mocks.
- Reorganisations below the confirmation depth are what `OnlyFinalPayments` is about;
  deeper ones are outside the system's own assumptions.

## 8. Plan

Written in this order, the money first:

1. *Done*: `PayWithQuai`, `OrderFate`, `PayWithQuaiProofs`.
2. *Done*: `WebhookQueue`, and `Relay` composing it with the indexer and merchants.
3. *Done*: `LinkClaims`, composing claims, authorizations, the contract's
   one payment per order and Qi.
4. *Done*: `QiSettlement` and `QiSettlementProofs`.
5. *Done*: `SignIn`, `Install`, `Payouts`, `Profiles`, `GatewayOrders`, `Connector`.
6. *Done*: `Checkout`, `Dashboard`, `WalletPicker`, `Deployment`, `Stores`.
7. *Done*: `OrderFateProofs`, `RelayProofs`, `LinkClaimsProofs`, `ConnectorProofs`,
   `StoresProofs`, `ServicesProofs`.

What is left: liveness, which stays with TLC; the wallet a page sends a payment with
(`useConnectedChain`) and the read endpoints listed in section 7.
