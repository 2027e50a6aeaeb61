----------------------------- MODULE MCPayments -----------------------------
(* An instance of Payments for TLC. *)
EXTENDS Payments

CONSTANTS a1, a2

OnePair == {<<a1, a2>>}
OneId   == {<<1>>}

\* Nobody, both, and a list that is too long.
Lists == {<< >>, <<a1, a2>>, <<a1, a2, a1>>}
=============================================================================
