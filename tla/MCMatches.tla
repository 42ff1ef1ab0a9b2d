------------------------------- MODULE MCMatches -------------------------------
(* Best of three between three teams under loser_starts, on legs of x01     *)
(* from 4 with a double in and a double out: a D1 opens or leaves the       *)
(* double that wins, a D2 wins at once, a single waits or busts.  The bound *)
(* is on the darts of the whole match.                                      *)
EXTENDS Statistics, MatchRefinement, TLC

CONSTANT MaxTotal

At(s, m) == [segment |-> s, multiplier |-> m]

ShortLeg == [game |-> "x01", start |-> 4, in_rule |-> "double", out_rule |-> "double"]

OneTwoOne == (0 :> 1) @@ (1 :> 2) @@ (2 :> 1)

WinBustOrWait == {At(1, 1), At(1, 2), At(2, 2)}

TotalDarts(ls) == MapThenSumSet(LAMBDA k : Len(ls[k].darts), DOMAIN ls)

WithinTotal == TotalDarts(legs') <= MaxTotal
=============================================================================
