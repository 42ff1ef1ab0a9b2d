------------------------------- MODULE Rotation -------------------------------
(***************************************************************************)
(* Who throws, and who opens a leg (backend/darts/engine/rotation.py).     *)
(* Teams are the numbers 0..n-1, as in the engine.                         *)
(***************************************************************************)
EXTENDS Integers

NoTeam == -1            \* None, where a team index is expected

StartRules == {"alternate", "loser_starts", "winner_starts", "fixed"}

(* Mutant: the visit being thrown is counted too.                          *)
ThrowerAfter(members, team, teamVisits) == (teamVisits + 1) % members[team]

(* The member of a team who throws its visit number `teamVisits'.          *)
ThrowerFor(members, team, teamVisits) == teamVisits % members[team]

(* Mutant: the table's wrap-round is forgotten.                            *)
NextLoserUnwrapped(n, previousWinner, previousStarter) ==
    LET candidate == previousStarter + 1
    IN  IF candidate = previousWinner THEN candidate + 1 ELSE candidate

(* Of several losers, the next team after the previous starter that did    *)
(* not win.                                                                *)
NextLoser(n, previousWinner, previousStarter) ==
    LET candidate == (previousStarter + 1) % n
    IN  IF candidate = previousWinner THEN (candidate + 1) % n ELSE candidate

StartingTeam(n, legIndex, rule, fixedTeam, previousWinner, previousStarter) ==
    CASE rule = "alternate" -> legIndex % n
      [] rule = "fixed" \/ (rule # "alternate" /\ legIndex = 0) -> fixedTeam
      [] rule = "winner_starts" /\ legIndex # 0 -> previousWinner
      [] rule = "loser_starts" /\ legIndex # 0 ->
            IF n = 1 THEN 0 ELSE NextLoser(n, previousWinner, previousStarter)
=============================================================================
