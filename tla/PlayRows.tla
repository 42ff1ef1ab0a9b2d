------------------------------- MODULE PlayRows -------------------------------
(***************************************************************************)
(* The rows the play service derives and keeps beside the darts of a leg:  *)
(* the visits, the judgement columns of each dart, the cricket effects and *)
(* point events, and the caches a leg in progress is resumed from          *)
(* (backend/darts/services/play.py and derive.py).  They are written       *)
(* incrementally, by each throw and each undo; Verify.tla compares them    *)
(* with a replay of the leg's darts from nothing.                          *)
(***************************************************************************)
EXTENDS PlayService, Replay, Checkout, FiniteSetsExt

CONSTANTS Rules,        \* the rules of game the match is played under
          Members       \* a function from teams to their number of players

ASSUME RowsAssumption ==
    /\ DOMAIN Members = Team
    /\ Rules.game = "x01" => Rules.start \in Nat
    /\ \A t \in Dart : IsLegalThrow(t)

LegAfter(starter, darts) == LegReplay(Rules, Members, starter, darts)

(* What LegVerdict stands for in the service.                              *)
EngineVerdict(starter, darts) ==
    LET leg == LegReplay(Rules, Members, starter, darts)
    IN  IF leg.refused THEN Refused ELSE leg.winner

ASSUME EngineAssumption ==
    \A starter \in Team, darts \in DartSeq :
        LegVerdict(starter, darts) = EngineVerdict(starter, darts)

VARIABLE rows           \* beside each leg: [visits, darts, caches]

rowVars == <<vars, rows>>

NoRows == [visits |-> <<>>, darts |-> <<>>, caches |-> {}]

IsX01 == Rules.game = "x01"

(* The columns of a visit that its later darts can move.                   *)
VisitVerdict(visit) ==
    [before |-> visit.before, after |-> visit.after, bust |-> visit.bust,
     complete |-> visit.complete]

CountedFlags(visit) ==
    [i \in DOMAIN visit.darts |-> IsX01 => visit.darts[i].counted]

(* The judgements on dart i of a visit; `prior' is its team just before it. *)
DartFlags(visit, i, prior) ==
    [counted     |-> CountedFlags(visit)[i],
     caused_bust |-> IsX01 /\ visit.darts[i].bust # NoBust,
     attempt     |-> IsX01 /\ prior.open /\ WasCheckoutAttempt(prior.remaining, Rules.out_rule)]

(* Mutant: the effect row says what was thrown, not what was marked.       *)
CricketRowsThrown(visit, i) ==
    LET dart == visit.darts[i]
    IN  [effects |-> {[target |-> dart.target, marks |-> dart.marks + dart.surplus,
                       surplus |-> dart.surplus, wasted |-> dart.wasted]},
         awards  |-> dart.awards]

(* The effect row and the point events of a dart; none in x01.             *)
CricketRows(visit, i) ==
    IF IsX01 THEN [effects |-> {}, awards |-> {}]
    ELSE LET dart == visit.darts[i]
         IN  [effects |-> {[target |-> dart.target, marks |-> dart.marks,
                            surplus |-> dart.surplus, wasted |-> dart.wasted]},
              awards  |-> dart.awards]

DartsThrown(leg, team) ==
    MapThenSumSet(LAMBDA i : Len(leg.visits[i].darts),
                  {i \in DOMAIN leg.visits : leg.visits[i].team = team})

TeamCache(leg, team) ==
    [team     |-> team,
     thrown   |-> DartsThrown(leg, team),
     position |-> IF IsX01 THEN [remaining |-> leg.teams[team].remaining,
                                 open |-> leg.teams[team].open]
                  ELSE leg.teams[team]]

(* Mutant: a won leg keeps its rows.                                       *)
CacheRowsKept(leg) ==
    IF leg.visits = <<>> THEN {} ELSE {TeamCache(leg, team) : team \in Team}

(* Nothing to resume in a leg nobody has thrown into, nor in a won one.    *)
CacheRows(leg) ==
    IF leg.winner # NoTeam \/ leg.visits = <<>> THEN {}
    ELSE {TeamCache(leg, team) : team \in Team}

TeamVisitsAll(visits, team) == Len(visits)          \* mutant: numbered across the teams

TeamVisits(visits, team) == Cardinality({i \in DOMAIN visits : visits[i].team = team})

(* _write_visit_row: the dart opens a visit, or brings the open one up to  *)
(* date.                                                                   *)
WriteVisit(stored, leg) ==
    LET visit   == LastOf(leg.visits)
        verdict == VisitVerdict(visit)
    IN  IF Len(visit.darts) = 1
        THEN Append(stored, [team       |-> visit.team,
                             member     |-> visit.member,
                             team_visit |-> TeamVisits(FrontOf(leg.visits), visit.team),
                             verdict    |-> verdict])
        ELSE [stored EXCEPT ![Len(leg.visits)].verdict =
                [verdict EXCEPT !.before = stored[Len(leg.visits)].verdict.before]]

SyncNothing(darts, v, flags) == darts               \* mutant: flags are left as written

(* _sync_counted.                                                          *)
SyncCounted(darts, v, flags) ==
    [i \in DOMAIN darts |->
        IF darts[i].visit # v THEN darts[i]
        ELSE [darts[i] EXCEPT !.flags.counted = flags[darts[i].index]]]

(* _record and _write_caches.                                              *)
RecordedRows(row, before, after) ==
    LET v     == Len(after.visits)
        visit == after.visits[v]
        i     == Len(visit.darts)
        dart  == [visit   |-> v,
                  index   |-> i,
                  flags   |-> DartFlags(visit, i, before.teams[visit.team]),
                  cricket |-> CricketRows(visit, i)]
        darts == Append(row.darts, dart)
    IN  [visits |-> WriteVisit(row.visits, after),
         darts  |-> IF visit.bust THEN SyncCounted(darts, v, CountedFlags(visit)) ELSE darts,
         caches |-> CacheRows(after)]

RestoreNothing(visits, open) == visits              \* mutant: the visit is left as it was

(* _restore_visit: the visit now last says what the replay says of it.     *)
RestoreVisit(visits, open) ==
    [visits EXCEPT ![Len(visits)].verdict =
        [VisitVerdict(open) EXCEPT !.before = visits[Len(visits)].verdict.before]]

(* undo: the last dart goes with its cricket rows, its visit too if that   *)
(* was its only dart, and the visit now last is put back to what it is.    *)
UndoneRows(row, after) ==
    LET darts  == FrontOf(row.darts)
        v      == LastOf(row.darts).visit
        visits == IF \A i \in DOMAIN darts : darts[i].visit # v
                  THEN FrontOf(row.visits) ELSE row.visits
        open   == LastOf(after.visits)
    IN  IF after.visits = <<>>
        THEN [visits |-> visits, darts |-> darts, caches |-> CacheRows(after)]
        ELSE [visits |-> RestoreVisit(visits, open),
              darts  |-> SyncCounted(darts, Len(visits), CountedFlags(open)),
              caches |-> CacheRows(after)]

(* _advance: a leg deleted takes its rows with it, a leg opened has none.  *)
AdvancedRows(k, row, count) ==
    [j \in 1..count |-> IF j = k THEN row ELSE IF j \in DOMAIN rows THEN rows[j] ELSE NoRows]

RowsInit == Init /\ rows = <<NoRows>>

ThrowRows(k, d) ==
    /\ Throw(k, d)
    /\ rows' = AdvancedRows(k, RecordedRows(rows[k],
                                            LegAfter(legs[k].starter, legs[k].darts),
                                            LegAfter(legs[k].starter, Append(legs[k].darts, d))),
                            Len(legs'))

UndoRows(k) ==
    /\ Undo(k)
    /\ rows' = AdvancedRows(k, UndoneRows(rows[k], LegAfter(legs[k].starter,
                                                            FrontOf(legs[k].darts))),
                            Len(legs'))

AbandonRows == Abandon /\ UNCHANGED rows

RowsNext ==
    \/ \E k \in 1..Len(legs), d \in Dart : ThrowRows(k, d)
    \/ \E k \in 1..Len(legs) : UndoRows(k)
    \/ AbandonRows

RowsSpec == RowsInit /\ [][RowsNext]_rowVars
-----------------------------------------------------------------------------
(* The effects and the point events stored add up to the position the      *)
(* replay reaches, and there are none of them on an x01 leg.               *)
CricketRowsAddUp ==
    \A k \in DOMAIN legs :
        LET leg  == LegAfter(legs[k].starter, legs[k].darts)
            Effect(s) == CHOOSE e \in rows[k].darts[s].cricket.effects : TRUE
        IN  IF IsX01 THEN \A s \in DOMAIN rows[k].darts :
                            rows[k].darts[s].cricket = [effects |-> {}, awards |-> {}]
            ELSE \A team \in Team :
                   /\ \A g \in Targets :
                        leg.teams[team].marks[g] = MapThenSumSet(
                            LAMBDA s : Effect(s).marks,
                            {s \in DOMAIN rows[k].darts :
                                /\ rows[k].visits[rows[k].darts[s].visit].team = team
                                /\ Effect(s).target = g})
                   /\ leg.teams[team].points = MapThenSumSet(
                        LAMBDA s : MapThenSumSet(LAMBDA a : a.points,
                                     {a \in rows[k].darts[s].cricket.awards : a.recipient = team}),
                        DOMAIN rows[k].darts)

(* The CHECK and UNIQUE constraints of visits, darts, the effects and      *)
(* point events of a dart, and both caches of a leg: a bust leaves the     *)
(* score and ends its visit, a dart that busts does not count, nothing is  *)
(* numbered twice; marks and surplus are what three marks, or two of the   *)
(* bull, leave room for, and only surplus is wasted; points are paid once  *)
(* to each team; caches are not below zero.                                *)
VisitKept(visits, v) ==
    LET row == visits[v]
    IN  /\ row.verdict.before >= 0 /\ row.verdict.after >= 0
        /\ row.verdict.bust => row.verdict.after = row.verdict.before /\ row.verdict.complete
        /\ \A w \in DOMAIN visits :
             visits[w].team = row.team /\ visits[w].team_visit = row.team_visit => w = v

DartKept(darts, s) ==
    LET row == darts[s]
    IN  /\ row.flags.caused_bust => ~row.flags.counted
        /\ row.index \in 1..DartsPerVisit
        /\ \A r \in DOMAIN darts :
             darts[r].visit = row.visit /\ darts[r].index = row.index => r = s

EffectKept(e) ==
    /\ e.target \in Targets \cup {NoTarget} /\ e.marks \in 0..3 /\ e.surplus \in 0..3
    /\ e.marks + e.surplus <= (IF e.target = Bull THEN 2 ELSE 3)
    /\ e.target = NoTarget => e.marks = 0 /\ e.surplus = 0 /\ ~e.wasted
    /\ e.wasted => e.surplus > 0

AwardsKept(awards) ==
    /\ \A a \in awards : a.points > 0
    /\ \A a, b \in awards : a.recipient = b.recipient => a = b

CricketKept(cricket) ==
    /\ \A e, f \in cricket.effects : e = f
    /\ \A e \in cricket.effects : EffectKept(e)
    /\ AwardsKept(cricket.awards)

PositionKept(position) ==
    IF IsX01 THEN position.remaining >= 0
    ELSE position.points >= 0 /\ \A g \in Targets : position.marks[g] \in 0..3

CachesKept(caches) ==
    /\ \A c \in caches : c.thrown >= 0 /\ PositionKept(c.position)
    /\ \A c, d \in caches : c.team = d.team => c = d

(* Those constraints of migration 0001 refuse no write the service makes.  *)
ConstraintsHold ==
    \A k \in DOMAIN legs :
        /\ \A v \in DOMAIN rows[k].visits : VisitKept(rows[k].visits, v)
        /\ \A s \in DOMAIN rows[k].darts :
             DartKept(rows[k].darts, s) /\ CricketKept(rows[k].darts[s].cricket)
        /\ CachesKept(rows[k].caches)
=============================================================================
