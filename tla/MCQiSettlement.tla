---------------------------- MODULE MCQiSettlement ----------------------------
(***************************************************************************)
(* Instances of QiSettlement for TLC.                                      *)
(***************************************************************************)
EXTENDS QiSettlement, TLC

CONSTANTS o1, o2

\* With two units to a QUAI: one QUAI each, and half a QUAI each.
WholeAmounts == (o1 :> 2) @@ (o2 :> 2)
HalfAmounts == (o1 :> 1) @@ (o2 :> 1)

\* The customers of the first order may pay its price twice over, those of the other one
\* do not pay.
OnePaying == (o1 :> 2) @@ (o2 :> 0)

=============================================================================
