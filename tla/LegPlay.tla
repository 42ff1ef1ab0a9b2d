------------------------------- MODULE LegPlay -------------------------------
(***************************************************************************)
(* One leg played on the engine alone: darts are thrown until a team wins, *)
(* and any of them may be undone.  The state is the record of darts;       *)
(* everything else is the replay of it.  The properties compare the replay *)
(* with definitions that do not go through it.                             *)
(***************************************************************************)
EXTENDS Hints, FiniteSetsExt, Functions

CONSTANTS RuleSet,      \* the rules of game a leg may be played under
          Members,      \* a function from teams to their number of players
          Throw,        \* of each game, the throws explored
          MaxDarts      \* of each game, the bound on the darts of a leg

Team == DOMAIN Members

NTeams == Cardinality(Team)

(* A table bounded by TopScore is as good as the whole one if no game      *)
(* starts above it; no three darts score more than 180.                    *)
ASSUME LegPlayAssumption ==
    /\ NTeams \in Nat \ {0} /\ Team = 0..NTeams - 1
    /\ \A r \in RuleSet : \A t \in Throw[r.game] : IsLegalThrow(t)
    /\ \A r \in RuleSet : r.game = "x01" =>
           /\ r.start \in Nat \ {0} /\ r.in_rule \in X01Rule /\ r.out_rule \in X01Rule
           /\ r.start <= TopScore \/ TopScore >= 180
    /\ \A r \in RuleSet : r.game = "cricket" => r.variant \in Variant /\ Targets # {}

VARIABLES rules, starter, darts

vars == <<rules, starter, darts>>

Leg == LegReplay(rules, Members, starter, darts)

Init ==
    /\ rules \in RuleSet
    /\ starter \in Team
    /\ darts = <<>>

(* The engine accepts a dart if replaying the longer record does not raise. *)
ThrowDart(t) ==
    /\ Len(darts) < MaxDarts[rules.game]
    /\ Leg.winner = NoTeam
    /\ ~LegReplay(rules, Members, starter, Append(darts, t)).refused
    /\ darts' = Append(darts, t)
    /\ UNCHANGED <<rules, starter>>

UndoDart ==
    /\ darts # <<>>
    /\ darts' = Undone(darts)
    /\ UNCHANGED <<rules, starter>>

Next == (\E t \in Throw[rules.game] : ThrowDart(t)) \/ UndoDart

Spec == Init /\ [][Next]_vars
-----------------------------------------------------------------------------
(* The darts of a team, in order, as the outcomes of the replay.           *)
VisitsOf(leg, team) == {i \in 1..Len(leg.visits) : leg.visits[i].team = team}

(* Every dart of the replay by the team, as <<visit, dart>> positions.     *)
DartsOf(leg, team) ==
    UNION {{<<i, j>> : j \in DOMAIN leg.visits[i].darts} : i \in VisitsOf(leg, team)}

Outcome(leg, p) == leg.visits[p[1]].darts[p[2]]

(* A reference for the rotation, with no running counts: visits go round   *)
(* the teams from the starter, and each team's go round its members,       *)
(* however early a visit ended.                                            *)
RotationIsRoundRobin ==
    LET leg == Leg
    IN  \A i \in 1..Len(leg.visits) :
            /\ leg.visits[i].team = (starter + i - 1) % NTeams
            /\ leg.visits[i].member = ((i - 1) \div NTeams) % Members[leg.visits[i].team]

(* A dart moves only the visit in progress, or opens the next one: a visit  *)
(* once complete is never rescored by a later dart.  The service writes     *)
(* only the last visit's rows and relies on it (_record in play.py).        *)
CompleteVisitsAreSettled ==
    LET leg     == Leg
        earlier == LegReplay(rules, Members, starter, Undone(darts))
    IN  \A i \in 1..Len(earlier.visits) :
            earlier.visits[i].complete =>
                i <= Len(leg.visits) /\ leg.visits[i] = earlier.visits[i]

(* x01 by definition rather than by replay: what has come off a team's     *)
(* score is what its counted darts are worth, so a bust that reverts the   *)
(* score has uncounted all its darts; and a team is open exactly when the  *)
(* in-rule is straight or one of its counted darts met it, the first of    *)
(* which always did, so a bust that takes back the opening dart closes it. *)
X01ByDefinition ==
    LET leg           == Leg
        Counted(team) == {p \in DartsOf(leg, team) : Outcome(leg, p).counted}
        Worth(p)      == Score(Outcome(leg, p).throw)
        Earlier(p, q) == p[1] < q[1] \/ (p[1] = q[1] /\ p[2] < q[2])
    IN  rules.game = "x01" =>
            \A team \in Team :
                /\ rules.start - leg.teams[team].remaining = MapThenSumSet(Worth, Counted(team))
                /\ leg.teams[team].open <=> (rules.in_rule = "straight" \/ Counted(team) # {})
                /\ \A p \in Counted(team) :
                     (\A q \in Counted(team) : ~Earlier(q, p))
                         => Satisfies(rules.in_rule, Outcome(leg, p).throw)

(* Cricket's marks and points by definition rather than by replay.  No      *)
(* visit ends early before the leg is won, so dart k's thrower follows from *)
(* k; the surplus of a dart is what its team's marks gained beyond three.   *)
DartThrower(k) == (starter + (k - 1) \div DartsPerVisit) % NTeams

MarksThrown(team, g, k) ==
    MapThenSumSet(LAMBDA j : darts[j].multiplier,
                  {j \in 1..k : DartThrower(j) = team /\ darts[j].segment = g})

SurplusOf(k) ==
    LET Beyond(j) == Max({0, MarksThrown(DartThrower(k), darts[k].segment, j) - MarksToClose})
    IN  Beyond(k) - Beyond(k - 1)

PaidBy(k) ==
    LET open == {o \in Team \ {DartThrower(k)} :
                    MarksThrown(o, darts[k].segment, k) < MarksToClose}
    IN  CASE rules.variant = "quick"     -> {}
          [] rules.variant = "cutthroat" -> open
          [] rules.variant = "standard"  -> IF open = {} THEN {} ELSE {DartThrower(k)}

CricketByDefinition ==
    LET leg == Leg
    IN  rules.game = "cricket" =>
            \A team \in Team :
                /\ \A g \in Targets :
                     leg.teams[team].marks[g] =
                         Min({MarksToClose, MarksThrown(team, g, Len(darts))})
                /\ leg.teams[team].points =
                     MapThenSumSet(LAMBDA k : darts[k].segment * SurplusOf(k),
                                   {k \in 1..Len(darts) :
                                       darts[k].segment \in Targets /\ team \in PaidBy(k)})

(* On the winning side of the points, as the variant has it.               *)
Leads(leg, team) ==
    LET points == [o \in Team |-> leg.teams[o].points]
    IN  CASE rules.variant = "quick"     -> TRUE
          [] rules.variant = "cutthroat" -> points[team] = Min(Range(points))
          [] rules.variant = "standard"  -> points[team] = Max(Range(points))

(* Cricket: a team that has closed every target on the winning side of the  *)
(* points has won, whoever threw the dart that put it there (the win        *)
(* column of the table in engine/cricket.py).                               *)
WonPositionHasWinner ==
    LET leg == Leg
    IN  rules.game = "cricket" =>
            \A team \in Team :
                (\A g \in Targets : leg.teams[team].marks[g] = MarksToClose) /\ Leads(leg, team)
                    => leg.winner # NoTeam

(* Whether an open thrower can still win the leg this visit, found dart by *)
(* dart on the scoring rules and not on the table; a dart that busts is    *)
(* the visit's last.                                                       *)
CanFinish(state, dartsLeft) ==
    LET Useful == {t \in AllThrows : Score(t) <= state.remaining}
        Open   == [remaining : 0..state.remaining, open : {TRUE}, darts : Nat]
        finish[n \in 1..DartsPerVisit] ==
            [s \in Open |->
                \E t \in Useful :
                    LET dart == X01ApplyDart(s, t, rules)
                    IN  \/ dart.checkout
                        \/ n > 1 /\ dart.bust = NoBust /\ finish[n - 1][dart.state]]
    IN  finish[dartsLeft][state]

(* x01: a hint is offered exactly when the thrower can win the leg with    *)
(* the darts left, and every path offered wins it when it is thrown; an    *)
(* abandoned or decided leg offers none and an abandoned one names nobody. *)
(* The table knows neither the in-rule nor the bust rules (hints.py), and  *)
(* keeps only the best few paths of each length (generate).                *)
HintsFinish ==
    LET leg  == Leg
        hint == HintsFor(rules, Members, leg, leg.winner # NoTeam, FALSE)
        team == leg.teams[leg.active]
    IN  rules.game = "x01" =>
            /\ hint.reason = "none" <=> hint.paths # <<>>
            /\ hint.paths # <<>> <=>
                 leg.winner = NoTeam /\ team.open /\ CanFinish(team, DartsLeft(leg))
            /\ \A i \in DOMAIN hint.paths :
                 LegReplay(rules, Members, starter, darts \o hint.paths[i]).winner = leg.active
            /\ HintsFor(rules, Members, leg, FALSE, TRUE).thrower = Nobody
=============================================================================
