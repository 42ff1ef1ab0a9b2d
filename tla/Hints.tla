-------------------------------- MODULE Hints --------------------------------
(***************************************************************************)
(* What the play screen suggests to whoever throws next, or the one reason *)
(* there is nothing to suggest (backend/darts/services/hints.py, over a    *)
(* leg replayed by Replay.tla).                                            *)
(***************************************************************************)
EXTENDS Replay, Checkout

Nobody == <<>>

NextThrower(members, leg) ==
    IF leg.winner # NoTeam THEN Nobody
    ELSE <<leg.active, NextMember(members, leg)>>

NoHints(members, leg, why, named) ==
    [thrower    |-> IF named THEN NextThrower(members, leg) ELSE Nobody,
     remaining  |-> <<>>,
     darts_left |-> DartsLeft(leg),
     paths      |-> <<>>,
     reason     |-> why]

Suggested(members, leg, paths) ==
    [thrower    |-> NextThrower(members, leg),
     remaining  |-> <<leg.teams[leg.active].remaining>>,
     darts_left |-> DartsLeft(leg),
     paths      |-> paths,
     reason     |-> IF paths = <<>> THEN "not_checkable" ELSE "none"]

PathsFor(rules, members, leg) ==
    Suggested(members, leg, Suggest(leg.teams[leg.active].remaining, DartsLeft(leg),
                                    rules.out_rule))

(* Mutant: the in-rule is forgotten, the table knows only the out-rule.    *)
HintsForAnyone(rules, members, leg, decided, abandoned) ==
    CASE rules.game # "x01"                     -> NoHints(members, leg, "not_x01", TRUE)
      [] rules.game = "x01" /\ abandoned        -> NoHints(members, leg, "match_abandoned", FALSE)
      [] rules.game = "x01" /\ ~abandoned       ->
            IF decided THEN NoHints(members, leg, "leg_complete", TRUE)
            ELSE PathsFor(rules, members, leg)

(* The refusals in the order for_leg makes them.  `decided' is the winner  *)
(* stored for the leg, which a read may find behind the darts: only then   *)
(* is there nobody to throw on a leg not decided.                          *)
HintsFor(rules, members, leg, decided, abandoned) ==
    LET why == IF rules.game # "x01" THEN "not_x01"
               ELSE IF abandoned THEN "match_abandoned"
               ELSE IF decided THEN "leg_complete"
               ELSE IF leg.winner # NoTeam THEN "no_thrower"
               ELSE IF ~leg.teams[leg.active].open THEN "not_open"
               ELSE "none"
    IN  IF why = "none" THEN PathsFor(rules, members, leg)
        ELSE NoHints(members, leg, why, why # "match_abandoned")
=============================================================================
