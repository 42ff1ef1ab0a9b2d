------------------------------ MODULE Statistics ------------------------------
(***************************************************************************)
(* The figures about a match: what the statistics queries and the exports  *)
(* read off the stored rows (backend/darts/stats/queries.py and report.py, *)
(* their SQL over db/views.sql, services/stats.py, services/export.py,     *)
(* api/stats.py).                                                          *)
(*                                                                         *)
(* A report is read in one transaction, so here it is an operator on a     *)
(* state.  Its scope is one match nobody in which is archived: the match,  *)
(* date and game filters and the window of last_matches narrow it to whole *)
(* matches and are left out.  An average is kept as the sum and the count  *)
(* it divides, and <<>> where there is nothing to average; the bands and   *)
(* the segment frequencies, which count the same rows again, are left out. *)
(***************************************************************************)
EXTENDS Verify

CONSTANT FirstDarts         \* how many darts of each leg "first nine" takes: 9

(* Every side has somebody to throw; an x01 game starts above 0, under     *)
(* rules of this engine (repo/matches.py:147, engine/x01.py:45), and the   *)
(* table it is judged by reaches its start, or as far as one dart scores.  *)
ASSUME StatisticsAssumption ==
    /\ FirstDarts \in Nat
    /\ \A team \in Team : Members[team] \in Nat \ {0}
    /\ IsX01 => /\ Rules.start # 0 /\ Rules.in_rule \in X01Rule /\ Rules.out_rule \in X01Rule
                /\ Rules.start <= TopScore \/ TopScore >= 60

Players == UNION {{<<team, member>> : member \in 0..Members[team] - 1} : team \in Team}

(* v_darts: a dart with its visit and its leg.                             *)
DartView(k, s) ==
    LET dart  == rows[k].darts[s]
        visit == rows[k].visits[dart.visit]
    IN  [leg |-> k, seq |-> s, visit |-> <<k, dart.visit>>, index |-> dart.index,
         team |-> visit.team, player |-> <<visit.team, visit.member>>,
         throw |-> legs[k].darts[s], flags |-> dart.flags, effects |-> dart.cricket.effects,
         before |-> visit.verdict.before, after |-> visit.verdict.after,
         winner |-> legs[k].winner]

AllDarts == UNION {{DartView(k, s) : s \in DOMAIN rows[k].darts} : k \in DOMAIN legs}

OwnDarts(darts, p) == {d \in darts : d.player = p}

(* Practice: a match with one team is neither played nor won.              *)
SingleSided == NTeams = 1

Mean(sum, count) == IF count = 0 THEN <<>> ELSE <<sum, count>>

Highest(values) == IF values = {} THEN <<>> ELSE <<Max(values)>>

ScoredRaw(d) == Score(d.throw)      \* mutant: a bust keeps its points

Scored(d) == IF d.flags.counted THEN Score(d.throw) ELSE 0

PointsOf(darts) == SumFunction([d \in darts |-> Scored(d)])

Visits(darts) == {d.visit : d \in darts}

InVisit(darts, v) == {d \in darts : d.visit = v}

(* The player's own first darts in each leg, not the leg's.                *)
FirstNine(own) ==
    {d \in own : Cardinality({e \in own : e.leg = d.leg /\ e.seq <= d.seq}) <= FirstDarts}

X01Totals(own) ==
    [darts      |-> Cardinality(own),
     visits     |-> Cardinality(Visits(own)),
     points     |-> PointsOf(own),
     average    |-> Mean(PointsOf(own), Cardinality(own)),
     first_nine |-> Mean(PointsOf(FirstNine(own)), Cardinality(FirstNine(own))),
     highest    |-> Highest({PointsOf(InVisit(own, v)) : v \in Visits(own)})]

Attempts(darts) == Cardinality({d \in darts : d.flags.attempt})

CheckedOut(d) == d.after = 0 /\ d.winner = d.team

(* The last dart of a visit that reached 0 won the leg.                    *)
Winning(own) ==
    {d \in own : CheckedOut(d) /\ \A e \in InVisit(own, d.visit) : e.index <= d.index}

(* checkout_totals.                                                        *)
CheckoutTotals(own) ==
    [attempts |-> Attempts(own),
     hits     |-> Cardinality(Winning(own)),
     best     |-> Highest({d.before : d \in Winning(own)})]

MarksCounted(d) ==                  \* mutant: surplus marks are not marks
    SumFunction([e \in d.effects |-> e.marks])

(* Every mark that landed on a target, counted or surplus.                 *)
MarksOf(d) == SumFunction([e \in d.effects |-> e.marks + e.surplus])

MarksOn(darts) == SumFunction([d \in darts |-> MarksOf(d)])

OnTarget(darts, g) == {d \in darts : \E e \in d.effects : e.target = g}

(* cricket_totals and cricket_targets, a row for each target hit or not.   *)
CricketTotals(own) ==
    [darts     |-> Cardinality(own),
     marks     |-> MarksOn(own),
     on_target |-> Cardinality(UNION {OnTarget(own, g) : g \in Targets}),
     wasted    |-> Cardinality({d \in own : \E e \in d.effects : e.wasted}),
     round     |-> Mean(MarksOn(own), Cardinality(own)),
     targets   |-> [g \in Targets |->
                      [hits  |-> Cardinality(OnTarget(own, g)),
                       marks |-> MarksOn(OnTarget(own, g)),
                       rate  |-> IF OnTarget(own, g) = {} THEN <<>>
                                 ELSE Mean(Cardinality(OnTarget(own, g)), Cardinality(own))]]]

(* leg_results and match_results: a win is the team's, and so each of its  *)
(* members', whoever threw.  Giving the match up takes no leg away.        *)
LegsWon(team) ==
    IF SingleSided THEN 0 ELSE Cardinality({k \in DOMAIN legs : legs[k].winner = team})

Results(p) ==
    [legs_played    |-> IF SingleSided THEN 0 ELSE Len(legs),
     legs_won       |-> LegsWon(p[1]),
     matches_played |-> IF SingleSided THEN 0 ELSE 1,
     matches_won    |-> IF SingleSided \/ winner # p[1] THEN 0 ELSE 1,
     single_sided   |-> IF SingleSided THEN 1 ELSE 0]

(* player_stats: each family over the darts of its own game.               *)
PlayerReport(darts, p) ==
    LET own     == OwnDarts(darts, p)
        x01     == IF IsX01 THEN own ELSE {}
        cricket == IF IsX01 THEN {} ELSE own
    IN  [thrown |-> Cardinality(own), results |-> Results(p), x01 |-> X01Totals(x01),
         checkout |-> CheckoutTotals(x01), cricket |-> CricketTotals(cricket)]

(* leg_lines: one player in one leg they threw in.                         *)
LegLine(darts, k, p) ==
    LET own == {d \in OwnDarts(darts, p) : d.leg = k}
    IN  [darts   |-> Cardinality(own),
         won     |-> ~SingleSided /\ \E d \in own : d.winner = d.team,
         average |-> IF IsX01 THEN Mean(PointsOf(own), Cardinality(own)) ELSE <<>>,
         round   |-> IF IsX01 THEN <<>> ELSE Mean(MarksOn(own), Cardinality(own))]

(* match_stats: everybody in the match, and their lines.                   *)
MatchReport(darts) ==
    [players |-> [p \in Players |-> PlayerReport(darts, p)],
     legs    |-> [kp \in {<<d.leg, d.player>> : d \in darts} |-> LegLine(darts, kp[1], kp[2])]]

(* leaderboard: the same figures, taken per visit in one query.            *)
LeaderboardLine(own) ==
    [darts    |-> Cardinality(own),
     average  |-> Mean(PointsOf(own), Cardinality(own)),
     highest  |-> Highest({PointsOf(InVisit(own, v)) : v \in Visits(own)}),
     attempts |-> Attempts(own),
     hits     |-> Cardinality({v \in Visits(own) : \E d \in InVisit(own, v) : CheckedOut(d)}),
     best     |-> Highest({d.before : d \in {e \in own : CheckedOut(e)}})]

Leaderboard(darts, minDarts) ==
    [p \in {q \in Players : IsX01 /\ OwnDarts(darts, q) # {}
                           /\ Cardinality(OwnDarts(darts, q)) >= minDarts}
        |-> LeaderboardLine(OwnDarts(darts, p))]

(* The line of matches.csv; darts.csv has a line per dart.                 *)
MatchLine(darts) ==
    [status         |-> IF abandoned THEN "abandoned"
                        ELSE IF winner # NoTeam THEN "complete" ELSE "in_progress",
     legs_played    |-> Len(legs),
     legs_completed |-> Cardinality({k \in DOMAIN legs : legs[k].winner # NoTeam}),
     darts_thrown   |-> Cardinality(darts),
     winner         |-> IF SingleSided THEN NoTeam ELSE winner]
-----------------------------------------------------------------------------
(* What the darts say, with no stored visit, flag or winner: the legs      *)
(* replayed, the visits of each that are a player's, and their darts.      *)
Replays == [k \in DOMAIN legs |-> LegAfter(legs[k].starter, legs[k].darts)]

VisitsBy(replays, p) ==
    UNION {{<<k, v>> : v \in {i \in DOMAIN replays[k].visits :
                                 <<replays[k].visits[i].team, replays[k].visits[i].member>> = p}}
           : k \in DOMAIN replays}

ThrownBy(replays, p) ==
    UNION {{<<k, s>> : s \in {i \in DOMAIN legs[k].darts :
                                 <<k, Position(replays[k], i)[1]>> \in VisitsBy(replays, p)}}
           : k \in DOMAIN replays}

WonBySelf(replays, p) ==
    {k \in DOMAIN replays : /\ replays[k].winner # NoTeam
                            /\ <<k, Len(replays[k].visits)>> \in VisitsBy(replays, p)}

(* What a visit took off the score, what a dart was worth in its visit, and *)
(* what was left when the visit that won leg k began.                      *)
TakenOff(replays, kv) ==
    LET visit == replays[kv[1]].visits[kv[2]] IN visit.before - visit.after

WorthAt(replays, ks) ==
    LET at   == Position(replays[ks[1]], ks[2])
        dart == replays[ks[1]].visits[at[1]].darts[at[2]]
    IN  IF dart.counted THEN Score(dart.throw) ELSE 0

LeftAt(replays, k) == LastOf(replays[k].visits).before

(* The first few of these darts in each leg.                               *)
FirstOf(thrown) ==
    {ks \in thrown : Cardinality({js \in thrown : js[1] = ks[1] /\ js[2] <= ks[2]}) <= FirstDarts}

(* The legs won by a dart worth all there was to score, where a double or  *)
(* the like had to be hit first: the dart may have opened the leg.         *)
WonFromStart(replays, p) ==
    {k \in WonBySelf(replays, p) : /\ Rules.in_rule # "straight"
                                   /\ Score(LastOf(legs[k].darts)) = Rules.start}

(* Points are what the player's visits took off the score, busts and darts *)
(* before the double included at nothing; a checkout is a leg they ended   *)
(* themselves, from what was left when their visit began.  A checkout      *)
(* without an attempt is a dart that opened the leg it won.                *)
X01FollowsPlay(replays, report, p) ==
    LET mine  == VisitsBy(replays, p)
        early == FirstOf(ThrownBy(replays, p))
        won   == WonBySelf(replays, p)
    IN  /\ report.x01.visits = Cardinality(mine)
        /\ report.x01.points = SumFunction([kv \in mine |-> TakenOff(replays, kv)])
        /\ report.x01.first_nine =
             Mean(SumFunction([ks \in early |-> WorthAt(replays, ks)]), Cardinality(early))
        /\ report.x01.highest = Highest({TakenOff(replays, kv) : kv \in mine})
        /\ report.checkout.hits = Cardinality(won)
        /\ report.checkout.best = Highest({LeftAt(replays, k) : k \in won})
        /\ report.checkout.hits <=
             report.checkout.attempts + Cardinality(WonFromStart(replays, p))

(* The player's darts that landed on some targets, and what they multiply. *)
Landed(replays, p, aimed) ==
    {ks \in ThrownBy(replays, p) : legs[ks[1]].darts[ks[2]].segment \in aimed}

Multiplied(thrown) == SumFunction([ks \in thrown |-> legs[ks[1]].darts[ks[2]].multiplier])

(* Marks are what landed on the targets in play.                           *)
CricketFollowsPlay(replays, report, p) ==
    /\ report.cricket.marks = Multiplied(Landed(replays, p, Targets))
    /\ report.cricket.on_target = Cardinality(Landed(replays, p, Targets))
    /\ \A g \in Targets :
         /\ report.cricket.targets[g].hits = Cardinality(Landed(replays, p, {g}))
         /\ report.cricket.targets[g].marks = Multiplied(Landed(replays, p, {g}))

(* The lines per leg are of the legs the player threw in, and add up.      *)
LinesFollowPlay(replays, match, p) ==
    LET lines == {k \in DOMAIN legs : <<k, p>> \in DOMAIN match.legs}
    IN  /\ match.players[p].thrown = SumFunction([k \in lines |-> match.legs[<<k, p>>].darts])
        /\ \A k \in lines : match.legs[<<k, p>>].won <=> ~SingleSided /\ replays[k].winner = p[1]

RankedAsReported(line, report) ==
    /\ line.darts = report.x01.darts
    /\ line.average = report.x01.average
    /\ line.highest = report.x01.highest
    /\ line.attempts = report.checkout.attempts
    /\ line.hits = report.checkout.hits
    /\ line.best = report.checkout.best

PlayerFollowsPlay(replays, report, p) ==
    /\ report.thrown = Cardinality(ThrownBy(replays, p))
    /\ report.results.legs_won =
         Cardinality({k \in DOMAIN legs : ~SingleSided /\ replays[k].winner = p[1]})
    /\ IF IsX01 THEN X01FollowsPlay(replays, report, p)
       ELSE CricketFollowsPlay(replays, report, p)

(* "A report is several queries and they must agree with each other": each *)
(* player's figures are what their own darts did, whatever was undone,     *)
(* busted or won since; the leaderboard, which counts checkouts by visits  *)
(* where the report counts darts, says the same; the lines per leg and of  *)
(* the exports add up to it.                                               *)
ReportsFollowPlay ==
    LET darts   == AllDarts
        replays == Replays
        match   == MatchReport(darts)
        ranked  == Leaderboard(darts, 0)
    IN  /\ MatchLine(darts).darts_thrown = SumFunction([p \in Players |-> match.players[p].thrown])
        /\ \A p \in Players :
             /\ PlayerFollowsPlay(replays, match.players[p], p)
             /\ LinesFollowPlay(replays, match, p)
             /\ p \in DOMAIN ranked => RankedAsReported(ranked[p], match.players[p])
=============================================================================
