-------------------------------- MODULE Replay --------------------------------
(***************************************************************************)
(* A leg, and a match, derived from nothing but the darts recorded in it   *)
(* (backend/darts/engine/replay.py).  `rules' is [game |-> "x01", start,   *)
(* in_rule, out_rule] or [game |-> "cricket", variant]; `members' gives    *)
(* the number of players of each team.                                     *)
(***************************************************************************)
EXTENDS X01, Cricket, Rotation

DartsPerVisit == 3

InitialStates(rules, members) ==
    [s \in DOMAIN members |-> IF rules.game = "x01" THEN X01Initial(rules)
                                                    ELSE CricketInitial]

X01Outcome(states, team, visit) ==
    [teams  |-> [states EXCEPT ![team] = visit.state],
     darts  |-> visit.darts,
     before |-> states[team].remaining,
     after  |-> visit.state.remaining,
     bust   |-> visit.bust # NoBust,
     won    |-> visit.won]

CricketOutcome(states, team, visit) ==
    [teams  |-> visit.states,
     darts  |-> visit.darts,
     before |-> states[team].points,
     after  |-> visit.states[team].points,
     bust   |-> FALSE,
     won    |-> visit.won]

(* What a visit's darts do to every team, whichever game is played.        *)
VisitOutcome(rules, states, team, throws) ==
    IF rules.game = "x01"
    THEN X01Outcome(states, team, X01ApplyVisit(states[team], throws, rules))
    ELSE CricketOutcome(states, team, CricketApplyVisit(states, team, throws, rules.variant))

(* The cricket engine raises on a dart thrown from a position that has     *)
(* already won; x01 positions are finished only by their own checkout,     *)
(* which ends the leg.                                                     *)
AlreadyWon(rules, states, team) ==
    rules.game = "cricket" /\ HasWon(states, team, rules.variant)

Opening(rules, members, starter) ==
    [teams   |-> InitialStates(rules, members),
     visits  |-> <<>>,
     counts  |-> [s \in DOMAIN members |-> 0],
     active  |-> starter,
     offset  |-> 0,
     winner  |-> NoTeam,
     refused |-> FALSE]

IsComplete(outcome) ==
    outcome.bust \/ outcome.won \/ Len(outcome.darts) = DartsPerVisit

(* The darts of the next visit, or as many of them as were thrown.         *)
NextThrows(darts, offset) ==
    LET left == Len(darts) - offset
    IN  SubSeq(darts, offset + 1, offset + (IF left < DartsPerVisit THEN left ELSE DartsPerVisit))

(* The leg once the active team's visit has come out so.                   *)
AfterVisit(members, thrown, leg, outcome) ==
    LET team   == leg.active
        offset == leg.offset + Len(outcome.darts)
        turned == IsComplete(outcome) /\ ~outcome.won
    IN  [teams   |-> outcome.teams,
         visits  |-> Append(leg.visits,
                        [team     |-> team,
                         member   |-> ThrowerFor(members, team, leg.counts[team]),
                         darts    |-> outcome.darts,
                         before   |-> outcome.before,
                         after    |-> outcome.after,
                         bust     |-> outcome.bust,
                         complete |-> IsComplete(outcome)]),
         counts  |-> [leg.counts EXCEPT ![team] = IF turned THEN @ + 1 ELSE @],
         active  |-> IF turned THEN (team + 1) % Cardinality(DOMAIN members) ELSE team,
         offset  |-> offset,
         winner  |-> IF outcome.won THEN team ELSE NoTeam,
         refused |-> outcome.won /\ offset # thrown]

(* Take the next visit's darts off the record and apply them.              *)
PlayVisit(rules, members, darts, leg) ==
    IF AlreadyWon(rules, leg.teams, leg.active) THEN [leg EXCEPT !.refused = TRUE]
    ELSE AfterVisit(members, Len(darts), leg,
                    VisitOutcome(rules, leg.teams, leg.active, NextThrows(darts, leg.offset)))

(* The whole leg.  `refused' stands for the ValueError the engine raises.  *)
LegReplay(rules, members, starter, darts) ==
    LET leg[i \in 0..Len(darts)] ==
          IF i = 0 THEN Opening(rules, members, starter)
          ELSE LET before == leg[i - 1]
               IN  IF before.refused \/ before.offset = Len(darts) THEN before
                   ELSE PlayVisit(rules, members, darts, before)
    IN  leg[Len(darts)]

DartsLeft(leg) ==
    IF leg.winner # NoTeam THEN 0
    ELSE IF leg.visits = <<>> \/ leg.visits[Len(leg.visits)].complete THEN DartsPerVisit
    ELSE DartsPerVisit - Len(leg.visits[Len(leg.visits)].darts)

(* The member due to throw, for a leg that has no winner.                  *)
NextMember(members, leg) == ThrowerFor(members, leg.active, leg.counts[leg.active])

Undone(darts) == IF darts = <<>> THEN darts ELSE SubSeq(darts, 1, Len(darts) - 1)
=============================================================================
