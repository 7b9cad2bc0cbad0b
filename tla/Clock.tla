--------------------------------- MODULE Clock --------------------------------
(***************************************************************************)
(* The time the services read with Date.now(), in the unit of the instance *)
(* that uses it.                                                           *)
(***************************************************************************)
EXTENDS Integers

VARIABLE clock

\* limit bounds the instants explored.
TickTo(limit) == clock < limit /\ clock' = clock + 1

=============================================================================
