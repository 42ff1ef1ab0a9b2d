------------------------------ MODULE MCLegPlay ------------------------------
(* Small legs for TLC: rules of both games, short boards and two or three   *)
(* teams, chosen so that busts, openings, surplus marks and wins all occur. *)
EXTENDS LegPlay, TLC

At(s, m) == [segment |-> s, multiplier |-> m]

TwoTeams == (0 :> 2) @@ (1 :> 1)

ThreeTeams == (0 :> 1) @@ (1 :> 2) @@ (2 :> 1)

X01Rules == [game : {"x01"}, start : {6}, in_rule : X01Rule, out_rule : X01Rule]

X01Throws == {At(0, 0), At(1, 1), At(2, 2), At(1, 3)}

CricketRules == [game : {"cricket"}, variant : Variant]

CricketThrows == {At(12, 1), At(20, 2), At(20, 3), At(15, 3)}

CutthroatRules == [game : {"cricket"}, variant : {"cutthroat"}]

CutthroatThrows == [cricket |-> {At(0, 0), At(20, 3), At(15, 3)}]

CutthroatDarts == [cricket |-> 13]

BothGames == X01Rules \cup CricketRules

BothThrows == [x01 |-> X01Throws, cricket |-> CricketThrows]

BothDarts == [x01 |-> 5, cricket |-> 6]
=============================================================================
