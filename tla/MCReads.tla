------------------------------- MODULE MCReads -------------------------------
(* One-target cricket, where a T20 wins a leg at once and a D20 thrown      *)
(* twice scores: a best of three in which legs are won, taken back and      *)
(* opened again while they are being read.                                  *)
EXTENDS CacheSweep, Statistics, TLC

CONSTANT MaxTotal

At(s, m) == [segment |-> s, multiplier |-> m]

OneAndTwo == (0 :> 2) @@ (1 :> 1)

Standard == [game |-> "cricket", variant |-> "standard"]

CricketDarts == {At(12, 1), At(20, 2), At(20, 3)}

TotalDarts(ls) == MapThenSumSet(LAMBDA k : Len(ls[k].darts), DOMAIN ls)

WithinTotal == TotalDarts(legs') <= MaxTotal
=============================================================================
