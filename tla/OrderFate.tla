------------------------------ MODULE OrderFate ------------------------------
(***************************************************************************)
(* What the payment router promises about an order, without its storage,   *)
(* its fees or its calls.  The n-th registration of a merchant is unused,  *)
(* then open, then either paid or void (cancelled) for good.  A paid or a  *)
(* void registration is never open again, whatever becomes of its order    *)
(* id, and one transaction pays at most one registration.                  *)
(***************************************************************************)
EXTENDS Integers

CONSTANTS
    Merchants,  \* the merchants
    Nonces      \* the numbers of a merchant's registrations: 1 .. some bound

VARIABLE fate   \* what became of each registration

Fates == {"unused", "open", "paid", "void"}

Registrations == Merchants \X Nonces

\* One transaction may take a registration through several stages.
Later(f) ==
    IF f = "unused" THEN Fates
    ELSE IF f = "open" THEN {"open", "paid", "void"}
    ELSE {f}

\* Numbers are given out in order.
Gapless(f) ==
    \A m \in Merchants, i, j \in Nonces :
        i < j /\ f[m, j] # "unused" => f[m, i] # "unused"

Init == fate = [x \in Registrations |-> "unused"]

\* A transaction on the router.
Transact ==
    /\ \A x \in Registrations : fate'[x] \in Later(fate[x])
    /\ \A x, y \in Registrations :
          fate[x] # "paid" /\ fate'[x] = "paid"
          /\ fate[y] # "paid" /\ fate'[y] = "paid" => x = y
    /\ Gapless(fate')

Spec == Init /\ [][fate' \in [Registrations -> Fates] /\ Transact]_fate

=============================================================================
