----------------------------- MODULE GatewayOrders ----------------------------
(***************************************************************************)
(* The order a shop's plugin asks the gateway for: POST /v1/gateway/orders *)
(* of backend/src/api/server.ts, the price it is quoted at                 *)
(* (backend/src/gateway/rate-provider.ts), and the metadata from which its *)
(* webhook takes the shop's reference (saveOrderMeta of                    *)
(* backend/src/store/postgres.ts), which customers write to as well.       *)
(*                                                                         *)
(* Every request that is answered makes a link of its own.  Its order is   *)
(* minted, and then named here as the link's slug is: both are random and  *)
(* new; or it is one the plugin supplies, which exists on the chain and    *)
(* can be posted again, as a retry or with another reference.              *)
(*                                                                         *)
(* The price feed's rate at an instant is stood for by that instant.       *)
(***************************************************************************)
EXTENDS Clock, FiniteSets

CONSTANTS
    Plugins,      \* gateway order requests served at the same time
    Slugs,        \* the links that are made, each with the order minted for it
    Supplied,     \* the orders merchants have registered on the chain by themselves
    References,   \* the shops' own order numbers
    Nothing,      \* no reference, no order supplied, no rate
    Fixed,        \* a configured fallback rate
    RateTTL,      \* GATEWAY_RATE_TTL_MS
    AbortAfter,   \* the time the feed is given to answer
    BodyTime,     \* the longest time the answer's body takes after that
    Markets       \* bound: the circumstances explored

ASSUME GatewayAssumption ==
    /\ Nothing \notin Nat \cup References \cup Supplied
    /\ Fixed \notin Nat
    /\ Slugs \cap Supplied = {}
    /\ RateTTL \in Nat \ {0}
    /\ {AbortAfter, BodyTime} \subseteq Nat

Orders == Slugs \cup Supplied

\* What a plugin posts: an order of its own or none, a reference or none.
Wishes == [given : Supplied \cup {Nothing}, ref : References \cup {Nothing}]

\* The fallback rate; and the bounds: which requests are made, what they post, which links
\* they make, the latest instant, the orders whose buyers save details of their own, and the
\* Qi claims of gateway links at the same time.
ASSUME MarketAssumption ==
    Markets \subseteq [fallback : {Fixed, Nothing}, plugins : SUBSET Plugins,
                      wishes : SUBSET Wishes, slugs : SUBSET Slugs,
                      until : Nat, buyers : SUBSET Orders, checkouts : Nat]

VARIABLES
    market,       \* the circumstances
    cache,        \* the rates fetched last: the feed's instant, or Nothing; and when
    plugins,      \* the requests being served
    links,        \* the links: order, reference posted, the rate quoted and when
    orderMeta,    \* order_meta: each order's reference, and whether its row names a link
    checkouts,    \* the Qi claims under way, with the reference they have read
    answered      \* the links the plugins were told of

gatewayVars == <<market, cache, plugins, links, orderMeta, checkouts, answered>>

NoRequest == [step |-> "free"]
NoMeta == [reference |-> Nothing, linked |-> FALSE]
NoLink == [at |-> Nothing]

GatewayInit(m) ==
    /\ market = m
    /\ cache = [at |-> Nothing, rate |-> Nothing]
    /\ plugins = [p \in Plugins |-> NoRequest]
    /\ links = [s \in Slugs |-> NoLink]
    /\ orderMeta = [o \in Orders |-> NoMeta]
    /\ checkouts = {}
    /\ answered = {}

To(p, request) == plugins' = [plugins EXCEPT ![p] = request]

-----------------------------------------------------------------------------
(* CachedRateProvider.getRates.                                            *)

\* Mutant of Fresh: what was fetched once is served for ever.
FreshForever == cache.at # Nothing

Fresh == cache.at # Nothing /\ clock - cache.at < RateTTL

\* Served from the cache, else the fallback's rate, if one is configured.
Served(cached) == IF cached.rate # Nothing THEN cached.rate ELSE market.fallback

Quoted(wish, cached, failed) ==
    [step |-> "allocate", wish |-> wish, rate |-> Served(cached), at |-> clock,
     failed |-> failed]

\* A request comes in; without a fresh cache the feed is asked.
OrderRequest(p, wish) ==
    /\ plugins[p] = NoRequest
    /\ p \in market.plugins
    /\ wish \in market.wishes
    /\ IF Fresh THEN To(p, Quoted(wish, cache, FALSE))
       ELSE To(p, [step |-> "headers", wish |-> wish, asked |-> clock])
    /\ UNCHANGED <<clock, market, cache, links, orderMeta, checkouts, answered>>

\* The feed has answered at some instant since; the timer is cleared, the body is to come.
FeedAnswers(p) ==
    /\ plugins[p].step = "headers"
    /\ clock - plugins[p].asked <= AbortAfter
    /\ \E sample \in (plugins[p].asked .. clock) \cup {Nothing} :
          To(p, [step |-> "body", wish |-> plugins[p].wish, sample |-> sample,
                 heard |-> clock])
    /\ UNCHANGED <<clock, market, cache, links, orderMeta, checkouts, answered>>

\* The cache takes the answer's rates, however old the question and whatever has been
\* cached since; a currency the feed does not name is looked up in the fallback.
FillCache(p) ==
    LET filled == [at |-> clock, rate |-> plugins[p].sample]
    IN  /\ plugins[p].step = "body"
        /\ clock - plugins[p].heard <= BodyTime
        /\ cache' = filled
        /\ To(p, Quoted(plugins[p].wish, filled, FALSE))
        /\ UNCHANGED <<clock, market, links, orderMeta, checkouts, answered>>

\* The feed refuses, is cut off or sends rubbish: the cache as it is, of any age.
FeedFails(p) ==
    /\ plugins[p].step \in {"headers", "body"}
    /\ To(p, Quoted(plugins[p].wish, cache, TRUE))
    /\ UNCHANGED <<clock, market, cache, links, orderMeta, checkouts, answered>>

-----------------------------------------------------------------------------
(* The order.                                                              *)

\* A link is stored under a new slug for the order supplied, else for a new one; without a
\* rate the request is refused.
Allocate(p, s) ==
    LET wish == plugins[p].wish
    IN
    /\ plugins[p].step = "allocate"
    /\ s \in market.slugs
    /\ links[s] = NoLink
    /\ IF plugins[p].rate = Nothing THEN To(p, NoRequest) /\ UNCHANGED links
       ELSE /\ links' = [links EXCEPT
                   ![s] = [order |-> IF wish.given # Nothing THEN wish.given ELSE s,
                           ref |-> wish.ref, at |-> plugins[p].at,
                           rate |-> plugins[p].rate, failed |-> plugins[p].failed]]
            /\ To(p, [step |-> "save", slug |-> s])
    /\ UNCHANGED <<clock, market, cache, orderMeta, checkouts, answered>>

Coalesce(new, old) == IF new # Nothing THEN new ELSE old

\* Mutant of SaveMeta: the row is replaced.
SaveMetaOver(o, ref, linked) ==
    orderMeta' = [orderMeta EXCEPT ![o] = [reference |-> ref, linked |-> linked]]

\* saveOrderMeta: a row keeps its reference where the new one has none.
SaveMeta(o, ref, linked) ==
    orderMeta' = [orderMeta EXCEPT
        ![o] = [reference |-> Coalesce(ref, @.reference), linked |-> linked]]

\* The order's metadata is saved with the shop's reference.
SaveReference(p) ==
    /\ plugins[p].step = "save"
    /\ LET link == links[plugins[p].slug]
       IN  SaveMeta(link.order, link.ref, FALSE)
    /\ To(p, [plugins[p] EXCEPT !.step = "answer"])
    /\ UNCHANGED <<clock, market, cache, links, checkouts, answered>>

\* 201, with the order and its link's checkout URL.
AnswerPlugin(p) ==
    /\ plugins[p].step = "answer"
    /\ answered' = answered \cup {plugins[p].slug}
    /\ To(p, NoRequest)
    /\ UNCHANGED <<clock, market, cache, links, orderMeta, checkouts>>

\* A store call fails; the plugin has no order.
OrderFails(p) ==
    /\ plugins[p] # NoRequest
    /\ To(p, NoRequest)
    /\ UNCHANGED <<clock, market, cache, links, orderMeta, checkouts, answered>>

\* The process ends, and its cache with it.
GatewayRestart ==
    /\ plugins' = [p \in Plugins |-> NoRequest]
    /\ checkouts' = {}
    /\ cache' = [at |-> Nothing, rate |-> Nothing]
    /\ UNCHANGED <<clock, market, links, orderMeta, answered>>

-----------------------------------------------------------------------------
(* The customer's pages.                                                   *)

\* Supplied orders are on the chain, for everyone to see; others are known by their link.
Known(o) == o \in Supplied \cup answered

\* POST /v1/orders/:merchant/:orderId/meta, with a link's slug or without.
CustomerMeta(o) ==
    /\ Known(o)
    /\ o \in market.buyers
    /\ \E linked \in BOOLEAN : SaveMeta(o, Nothing, linked)
    /\ UNCHANGED <<clock, market, cache, plugins, links, checkouts, answered>>

\* POST /v1/links/:slug/qi-claim of a gateway link: getOrderMeta,
CheckoutReads(s) ==
    /\ s \in answered
    /\ Cardinality(checkouts) < market.checkouts
    /\ checkouts' = checkouts
           \cup {[slug |-> s, ref |-> orderMeta[links[s].order].reference]}
    /\ UNCHANGED <<clock, market, cache, plugins, links, orderMeta, answered>>

\* and saveOrderMeta, which hands on the reference that was read; or it fails.
CheckoutEnds(c) ==
    /\ \/ SaveMeta(links[c.slug].order, c.ref, TRUE)
       \/ UNCHANGED orderMeta
    /\ checkouts' = checkouts \ {c}
    /\ UNCHANGED <<clock, market, cache, plugins, links, answered>>

GatewayNext ==
    \/ TickTo(market.until) /\ UNCHANGED gatewayVars
    \/ \E p \in Plugins :
          \/ \E wish \in Wishes : OrderRequest(p, wish)
          \/ FeedAnswers(p) \/ FillCache(p) \/ FeedFails(p)
          \/ \E s \in Slugs : Allocate(p, s)
          \/ SaveReference(p) \/ AnswerPlugin(p) \/ OrderFails(p)
    \/ GatewayRestart
    \/ \E o \in Orders : CustomerMeta(o)
    \/ \E s \in Slugs : CheckoutReads(s)
    \/ \E c \in checkouts : CheckoutEnds(c)

-----------------------------------------------------------------------------
(* Properties.                                                             *)

Rates == Nat \cup {Fixed, Nothing}

Stored(s) == links[s] # NoLink

GatewayTypeOK ==
    /\ cache.at \in Nat \cup {Nothing}
    /\ cache.rate \in Nat \cup {Nothing}
    /\ cache.at = Nothing => cache.rate = Nothing
    /\ cache.rate # Nothing => cache.rate <= cache.at
    /\ \A p \in Plugins :
          /\ plugins[p].step = "allocate" => plugins[p].rate \in Rates
          /\ plugins[p].step \in {"save", "answer"} => Stored(plugins[p].slug)
    /\ \A s \in Slugs : Stored(s) =>
          /\ links[s].order \in {s} \cup Supplied
          /\ links[s].rate \in Rates \ {Nothing} /\ links[s].at <= clock
    /\ orderMeta \in [Orders -> [reference : References \cup {Nothing},
                                 linked : BOOLEAN]]
    /\ answered \subseteq {s \in Slugs : Stored(s)}

\* An order is quoted at a rate of the feed that is at most as old as the cache may be, and
\* an answer may take, when the rate is served, although answers of the feed overtake each
\* other, unless the feed failed this very request.
FreshUnlessFailed ==
    \A s \in Slugs :
        ~Stored(s) \/ links[s].failed \/ links[s].rate = Fixed
            \/ links[s].at - links[s].rate <= RateTTL - 1 + AbortAfter + BodyTime

\* The references that were posted with order o, by links stored for it.
Posted(o) == {links[s].ref : s \in {x \in Slugs : Stored(x) /\ links[x].order = o}}

\* The shop's reference survives what customers save on its order, and claims that write
\* back later what they had read before.  Of an order minted for its request the webhook
\* will name the very reference posted with it; of one that the plugin supplied, and may
\* post again, as a retry does, one of those posted with it.
ReferenceKept ==
    \A s \in answered :
        LET o == links[s].order
        IN  /\ o \in Slugs => orderMeta[o].reference = links[s].ref
            /\ links[s].ref # Nothing => orderMeta[o].reference \in Posted(o) \ {Nothing}

=============================================================================
