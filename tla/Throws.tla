------------------------------- MODULE Throws -------------------------------
(***************************************************************************)
(* One dart: what a legal throw is and what it is worth in isolation       *)
(* (backend/darts/engine/throws.py).  A throw is a record of a board       *)
(* segment and a multiplier.                                               *)
(***************************************************************************)
EXTENDS Integers

Miss == 0
Bull == 25

(* The construction check of Throw: a miss is the only throw with          *)
(* multiplier 0, and the bull has no triple ring.                          *)
IsLegalThrow(t) ==
    /\ t.segment \in 1..20 \cup {Miss, Bull}
    /\ t.multiplier \in 0..3
    /\ (t.segment = Miss) <=> (t.multiplier = 0)
    /\ ~(t.segment = Bull /\ t.multiplier = 3)

AllThrows == {t \in [segment : 0..25, multiplier : 0..3] : IsLegalThrow(t)}

Score(t) == t.segment * t.multiplier

IsDouble(t) == t.multiplier = 2     \* the inner bull is 25 doubled

IsTriple(t) == t.multiplier = 3
=============================================================================
