----------------------------- MODULE MCServices ------------------------------
(***************************************************************************)
(* An instance of Services for TLC.                                        *)
(***************************************************************************)
EXTENDS Services, TLC

CONSTANTS o1, g1, g2, a1, a2, c1, c2, h1, h2, w1, w2, n1, n2, n3, ch1, ch2, id, t1, t2,
          e1, e2, u1

\* Two orders/create requests and a webhook side by side; and one with two webhooks, while
\* the shop's account changes.
SomeLoads ==
    {[requests |-> {c1, c2, h1}, changes |-> 0],
     [requests |-> {c1, h1, h2}, changes |-> 1]}

\* A Quai chain of the zone of the merchant's login address, and an EVM chain; a string that is
\* no address, and an address of another zone: each can be declared on one of the chains.
SomeChains ==
    [c \in {ch1, ch2} |-> IF c = ch1 THEN [kind |-> "quai", zone |-> "cyprus1"]
                           ELSE [kind |-> "evm", zone |-> ""]]

SomeZones == [a \in {id, a1, a2} |->
    CASE a = id -> "cyprus1" [] a = a1 -> "" [] a = a2 -> "cyprus2"]

Post(order, ref) == [given |-> order, ref |-> ref]

\* Prices: two posts, as time passes.  References: an order is posted twice, at once, with
\* two references; and orders of both kinds are posted in turn, while customers claim them.
SomeMarkets ==
    {[fallback |-> Fixed, plugins |-> Plugins, wishes |-> {Post(Nothing, n1)},
      slugs |-> {g1}, until |-> 2, buyers |-> {}, checkouts |-> 0],
     [fallback |-> Nothing, plugins |-> Plugins, wishes |-> {Post(o1, n1), Post(o1, n2)},
      slugs |-> Slugs, until |-> 0, buyers |-> {}, checkouts |-> 0],
     [fallback |-> Nothing, plugins |-> {c1}, slugs |-> Slugs, until |-> 0, buyers |-> {o1, g1},
      checkouts |-> 1, wishes |-> {Post(o1, n1), Post(o1, Nothing), Post(Nothing, n1)}]}

AnyVisit == [link |-> TRUE, blip |-> FALSE, signed |-> FALSE, token |-> FALSE, qi |-> TRUE,
             orders |-> 1, rivals |-> TRUE]

\* On the link page signed orders, of which two attempts may hold two, or others may have one
\* too, and one registered before and payable in Qi too; on the checkout page one paid through Blip or in Qi, and one in a token.
SomeVisits ==
    {[AnyVisit EXCEPT !.signed = TRUE, !.qi = FALSE, !.orders = 2, !.rivals = FALSE],
     [AnyVisit EXCEPT !.signed = TRUE],
     AnyVisit,
     [AnyVisit EXCEPT !.link = FALSE, !.blip = TRUE],
     [AnyVisit EXCEPT !.link = FALSE, !.token = TRUE, !.qi = FALSE]}

\* One order was registered for the link from before.
SomePool == <<g1>>

\* One page that sends its registration twice while the profile is changed; and the settings
\* page beside another client.
SomeDays == {[calls |-> 2, edits |-> {e1}], [calls |-> 1, edits |-> {e1, e2}]}

\* The operator's switch, or the merchant's attempt at it.
SomeAsks == {[active |-> b] : b \in BOOLEAN}

\* Phantom under MetaMask's flags; Blip over the slots of others; unknown and old wallets that
\* share window.ethereum.
SomeBrowsers ==
    {{"pelagus", "metamask", "phantom"},
     {"blip", "pelagus", "metamask"},
     {"old1", "old2", "oldmask", "phantom"}}

Silent(flags, class, slots) ==
    [announces |-> "no", same |-> FALSE, flags |-> flags, class |-> class, slots |-> slots]

SomeKit ==
    [e \in UNION SomeBrowsers |->
        CASE e = "pelagus" -> [announces |-> "pelagus", same |-> FALSE, flags |-> "pelagus",
                               class |-> "Pelagus", slots |-> {"quai", "pelagus"}]
          [] e = "metamask" -> [announces |-> "metamask", same |-> TRUE, flags |-> "metamask",
                                class |-> "MetaMask", slots |-> {"ethereum"}]
          [] e = "blip" -> Silent("blip", "Blip", {"quai", "pelagus", "ethereum"})
          [] e = "phantom" -> Silent("metamask", "Phantom", {"ethereum"})
          [] e = "oldmask" -> Silent("metamask", "MetaMask", {"ethereum"})
          [] OTHER -> Silent("generic", "Object", {"ethereum", "providers"})]

\* Requests overlap where two wallets announce themselves and a third one hides.
SomeOverlaps == {{"pelagus", "metamask", "phantom"}}

\* Two merchants sign in, once each.
SomeHolder == [s \in {n1, n2} |-> IF s = n1 THEN w1 ELSE w2]

=============================================================================
