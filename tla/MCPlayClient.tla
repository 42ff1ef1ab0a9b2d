----------------------------- MODULE MCPlayClient -----------------------------
(* A few taps over a network that fails: one phone that stays on its screen  *)
(* and refetches nothing, and one that comes and goes and does.              *)
EXTENDS PlayClient

CONSTANTS p1, p2, a, b

OnePhone == {p1}

TwoPhones == {p1, p2}

SecondPhone == {p2}

TwoKeys == {a, b}

(* The bound on what is under way at once, late requests included.           *)
TwoAtOnce == Cardinality(calls') <= 2
=============================================================================
