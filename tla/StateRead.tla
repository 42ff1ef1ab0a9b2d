------------------------------- MODULE StateRead -------------------------------
(***************************************************************************)
(* What the play endpoints answer with: one complete state of the match    *)
(* (backend/darts/api/play.py over `state' and `_project' of               *)
(* services/play.py).                                                      *)
(*                                                                         *)
(* A write projects the state inside its own transaction.  A read opens no *)
(* transaction: each of its statements sees whatever has been committed by *)
(* then, and so does the second read any answer makes when the leg it      *)
(* reports has been won and the next dart goes to another.  One request is *)
(* followed at a time, and other phones' writes fall between its           *)
(* statements.                                                             *)
(***************************************************************************)
EXTENDS Verify, Hints

CONSTANT MaxOvertakes       \* bound: commits that fall within one request

ASSUME OvertakesAssumption == MaxOvertakes \in Nat

VARIABLE req                \* the request being answered

readVars == <<rowVars, req>>

Board == [legs |-> legs, winner |-> winner, abandoned |-> abandoned]

Db == [board |-> Board, rows |-> rows]

-----------------------------------------------------------------------------
(* The statements of one `state', and what each returns.  A leg that an    *)
(* undo has deleted has no row, no darts and no visits.                    *)
Statements == <<"leg", "match", "darts", "legs", "visits", "visit_darts">>

DartRows(db, k) ==
    [s \in DOMAIN db.board.legs[k].darts |->
        [throw |-> db.board.legs[k].darts[s], visit |-> db.rows[k].darts[s].visit,
         index |-> db.rows[k].darts[s].index, flags |-> db.rows[k].darts[s].flags]]

Look(db, statement, k) ==
    LET found == k \in DOMAIN db.board.legs
    IN  CASE statement = "leg"    -> IF found THEN <<[starter |-> db.board.legs[k].starter,
                                                      winner |-> db.board.legs[k].winner]>>
                                     ELSE <<>>
          [] statement = "match"  -> [winner |-> db.board.winner, abandoned |-> db.board.abandoned]
          [] statement = "legs"   -> [i \in DOMAIN db.board.legs |-> db.board.legs[i].winner]
          [] statement = "visits" -> IF found THEN db.rows[k].visits ELSE <<>>
          [] OTHER                -> IF found THEN DartRows(db, k) ELSE <<>>

(* The darts are read again only if there are visits to put them in.       *)
AllRead(got) == Len(got) = 6 \/ (Len(got) = 5 /\ got[5] = <<>>)

Status(match) ==
    IF match.abandoned THEN "abandoned"
    ELSE IF match.winner # NoTeam THEN "complete" ELSE "in_progress"

(* The darts of a visit, in the order they were thrown.                    *)
DartsOfVisit(darts, v) ==
    LET mine   == {s \in DOMAIN darts : darts[s].visit = v}
        Nth(i) == CHOOSE s \in mine : Cardinality({r \in mine : r <= s}) = i
    IN  [i \in 1..Cardinality(mine) |-> darts[Nth(i)]]

VisitState(visits, darts, v) ==
    [visit |-> v, team |-> visits[v].team, member |-> visits[v].member,
     verdict |-> visits[v].verdict, darts |-> DartsOfVisit(darts, v)]

(* _visits: the part-thrown visit and the last finished one.               *)
ShownVisits(visits, darts) ==
    LET last == Len(visits)
    IN  IF last = 0 THEN [current |-> <<>>, previous |-> <<>>]
        ELSE IF visits[last].verdict.complete
        THEN [current |-> <<>>, previous |-> <<VisitState(visits, darts, last)>>]
        ELSE [current  |-> <<VisitState(visits, darts, last)>>,
              previous |-> IF last = 1 THEN <<>> ELSE <<VisitState(visits, darts, last - 1)>>]

(* three_dart_average, as points over darts; none before the first dart.   *)
Average(leg, team) ==
    LET Scored(v) == MapThenSumSet(
            LAMBDA i : IF leg.visits[v].darts[i].counted
                       THEN Score(leg.visits[v].darts[i].throw) ELSE 0,
            DOMAIN leg.visits[v].darts)
    IN  IF ~IsX01 \/ DartsThrown(leg, team) = 0 THEN <<>>
        ELSE <<MapThenSumSet(Scored, {v \in DOMAIN leg.visits : leg.visits[v].team = team}),
               DartsThrown(leg, team)>>

TeamLegState(leg, team) == [cache |-> TeamCache(leg, team), average |-> Average(leg, team)]

(* _project, from what its statements returned.                            *)
GameState(k, got) ==
    LET darts == got[3]
        leg   == LegAfter(got[1][1].starter, [s \in DOMAIN darts |-> darts[s].throw])
        open  == {i \in DOMAIN got[4] : got[4][i] = NoTeam}
    IN  [status   |-> Status(got[2]),
         winner   |-> got[2].winner,
         legs_won |-> [team \in Team |-> Cardinality({i \in DOMAIN got[4] : got[4][i] = team})],
         active   |-> IF open = {} THEN 0 ELSE Min(open),
         current  |-> [leg |-> k, row |-> got[1][1], replay |-> leg, thrown |-> Len(darts),
                       visits |-> ShownVisits(got[5], IF Len(got) = 6 THEN got[6] ELSE <<>>)]]

(* The whole of it at once, inside a transaction.                          *)
Project(db, k) == GameState(k, [i \in DOMAIN Statements |-> Look(db, Statements[i], k)])

LegResponse(view, given) ==
    [leg      |-> view.leg,
     starter  |-> view.row.starter,
     winner   |-> view.row.winner,
     thrown   |-> view.thrown,
     left     |-> DartsLeft(view.replay),
     thrower  |-> IF given THEN Nobody ELSE NextThrower(Members, view.replay),
     teams    |-> [team \in Team |-> TeamLegState(view.replay, team)],
     visits   |-> view.visits,
     checkout |-> HintsFor(Rules, Members, view.replay, view.row.winner # NoTeam, given)]

NextIndex(state) ==                     \* mutant: the leg after the one won, if any or not
    IF state.status = "abandoned" THEN 0
    ELSE IF state.current.replay.winner = NoTeam THEN state.current.leg
    ELSE state.current.leg + 1

(* Where the next dart goes; withheld from a match that was given up.      *)
ActiveId(state) == IF state.status = "abandoned" THEN 0 ELSE state.active

StateResponse(state, second) ==
    [status    |-> state.status,
     winner    |-> state.winner,
     legs_won  |-> state.legs_won,
     current   |-> LegResponse(state.current, state.status = "abandoned"),
     active_id |-> ActiveId(state),
     active    |-> IF second = <<>> THEN <<>> ELSE <<LegResponse(second[1], FALSE)>>]

-----------------------------------------------------------------------------
(* A request: who made it, the leg it addresses, the leg being read and    *)
(* what has been read of it, the state its answer starts from, the answer  *)
(* (<<"state", ...>>, <<"checkout", ...>> or <<"not_found">>) and - for    *)
(* the properties - the boards there were while it was made.               *)
NoRequest == [by |-> "nobody"]

Request(by, k, board) ==
    [by |-> by, asked |-> k, leg |-> k, got |-> <<>>, first |-> <<>>, answer |-> <<>>,
     seen |-> <<board>>]

Idle == req.by = "nobody"

Reading == ~Idle /\ req.answer = <<>>

(* _state_response on a state: an answer, or the read of a second leg,     *)
(* which is then answered beside the first.                                *)
Respond(r, state) ==
    IF r.by = "checkout"
    THEN [r EXCEPT !.answer = <<"checkout", HintsFor(Rules, Members, state.current.replay,
                                                     state.current.row.winner # NoTeam,
                                                     state.status = "abandoned")>>]
    ELSE IF r.first = <<>> /\ ActiveId(state) \notin {0, state.current.leg}
    THEN [r EXCEPT !.first = <<state>>, !.leg = ActiveId(state), !.got = <<>>]
    ELSE LET second == r.first # <<>>
         IN  [r EXCEPT !.answer =
                <<"state", StateResponse(IF second THEN r.first[1] ELSE state,
                                         IF second THEN <<state.current>> ELSE <<>>)>>]

(* What a write answers with; the mutant reads the state once it has let   *)
(* go of its transaction.                                                  *)
AnsweredLater(by, k, db) == Request(by, k, db.board)

Answered(by, k, db) == Respond(Request(by, k, db.board), Project(db, k))

ServeThrow(k, d) ==
    /\ Idle
    /\ ThrowRows(k, d)
    /\ req' = Answered("throw", k, Db')

ServeUndo(k) ==
    /\ Idle
    /\ UndoRows(k)
    /\ req' = Answered("undo", k, Db')

(* A dart posted again records nothing and answers with what there is now. *)
ServeRepeat(k) ==
    /\ Idle
    /\ legs[k].darts # <<>>
    /\ req' = Answered("repeat", k, Db)
    /\ UNCHANGED rowVars

(* GET the state of the match: its last leg, found by a statement of its   *)
(* own.                                                                    *)
GetState ==
    /\ Idle
    /\ req' = Request("get", Len(legs), Board)
    /\ UNCHANGED rowVars

GetCheckout(k) ==
    /\ Idle
    /\ req' = Request("checkout", k, Board)
    /\ UNCHANGED rowVars

(* The next statement of the read in hand.                                 *)
ReadOn ==
    /\ Reading /\ req.by \notin {"history", "sweep"}
    /\ LET result == Look(Db, Statements[Len(req.got) + 1], req.leg)
           got    == Append(req.got, result)
           read   == [req EXCEPT !.got = got]
       IN  \/ /\ req.got = <<>> /\ result = <<>>
              /\ req' = [req EXCEPT !.answer = <<"not_found">>]
           \/ /\ got[1] # <<>> /\ ~AllRead(got)
              /\ req' = read
           \/ /\ got[1] # <<>> /\ AllRead(got)
              /\ req' = Respond(read, GameState(req.leg, got))
    /\ UNCHANGED rowVars

(* GET the darts of the match: every leg of a list read first, its darts   *)
(* and then its visits, a statement each (history).                        *)
GetDarts ==
    /\ Idle
    /\ req' = [by |-> "history", seen |-> <<Board>>,
               answer |-> <<>>, darts |-> <<>>, told |-> <<>>,
               listed |-> [k \in DOMAIN legs |-> Look(Db, "leg", k)[1]]]
    /\ UNCHANGED rowVars

ReadDarts ==
    /\ Reading /\ req.by = "history" /\ req.darts = <<>>
    /\ req' = [req EXCEPT !.darts = <<Look(Db, "darts", Len(req.told) + 1)>>]
    /\ UNCHANGED rowVars

ReadVisits ==
    /\ Reading /\ req.by = "history" /\ req.darts # <<>>
    /\ LET k      == Len(req.told) + 1
           visits == Look(Db, "visits", k)
           told   == Append(req.told,
                            [row |-> req.listed[k],
                             visits |-> [v \in DOMAIN visits |->
                                            VisitState(visits, req.darts[1], v)]])
       IN  req' = [req EXCEPT !.darts = <<>>, !.told = told,
                              !.answer = IF k = Len(req.listed) THEN <<"history", told>> ELSE <<>>]
    /\ UNCHANGED rowVars

Delivered ==
    /\ ~Idle /\ req.answer # <<>>
    /\ req' = NoRequest
    /\ UNCHANGED rowVars

(* Another phone's write, between two statements of the request.           *)
Overtaken ==
    /\ Reading
    /\ Len(req.seen) <= MaxOvertakes
    /\ RowsNext
    /\ req' = [req EXCEPT !.seen = Append(@, Board')]

(* Giving a match up is answered with the match, not with its state.       *)
AbandonIdle == Idle /\ AbandonRows /\ UNCHANGED req

ReadInit == RowsInit /\ req = NoRequest

ReadNext ==
    \/ \E k \in 1..Len(legs), d \in Dart : ServeThrow(k, d)
    \/ \E k \in 1..Len(legs) : ServeUndo(k) \/ ServeRepeat(k) \/ GetCheckout(k)
    \/ GetState
    \/ GetDarts
    \/ ReadOn
    \/ ReadDarts
    \/ ReadVisits
    \/ Delivered
    \/ Overtaken
    \/ AbandonIdle
-----------------------------------------------------------------------------
(* The complete state of a board, from the darts alone: no stored visit,   *)
(* flag or winner of a leg has a part in it.                               *)
Replayed(board) ==
    [k \in DOMAIN board.legs |-> LegAfter(board.legs[k].starter, board.legs[k].darts)]

TrueVisit(l, leg, v) ==
    LET Mine == {s \in DOMAIN l.darts : Position(leg, s)[1] = v}
    IN  [visit |-> v, team |-> leg.visits[v].team, member |-> leg.visits[v].member,
         verdict |-> VisitVerdict(leg.visits[v]),
         darts |-> [i \in 1..Cardinality(Mine) |->
                      LET s == Min(Mine) + i - 1
                      IN  [throw |-> l.darts[s], visit |-> v, index |-> i,
                           flags |-> ExpectedFlags(l, leg, s)]]]

(* The visits that a leg shows: the open one, and the last complete one.   *)
TrueVisits(l, leg) ==
    LET last == Len(leg.visits)
        open == last > 0 /\ ~leg.visits[last].complete
        Shown(v) == IF v = 0 THEN <<>> ELSE <<TrueVisit(l, leg, v)>>
    IN  [current  |-> Shown(IF open THEN last ELSE 0),
         previous |-> Shown(IF open THEN last - 1 ELSE last)]

TrueLeg(board, leg, k) ==
    [leg      |-> k,
     starter  |-> board.legs[k].starter,
     winner   |-> leg.winner,
     thrown   |-> Len(board.legs[k].darts),
     left     |-> DartsLeft(leg),
     thrower  |-> IF board.abandoned THEN Nobody ELSE NextThrower(Members, leg),
     teams    |-> [team \in Team |-> TeamLegState(leg, team)],
     visits   |-> TrueVisits(board.legs[k], leg),
     checkout |-> HintsFor(Rules, Members, leg, leg.winner # NoTeam, board.abandoned)]

TrueLegs(board, replays) == [k \in DOMAIN replays |-> TrueLeg(board, replays[k], k)]

TrueResponse(board, replays, told, k) ==
    LET Won(team)  == {i \in DOMAIN replays : replays[i].winner = team}
        champions  == {team \in Team : Cardinality(Won(team)) >= Needed}
        active     == IF board.abandoned \/ champions # {} THEN 0 ELSE Len(board.legs)
    IN  [status    |-> IF board.abandoned THEN "abandoned"
                       ELSE IF champions # {} THEN "complete" ELSE "in_progress",
         winner    |-> IF champions = {} THEN NoTeam ELSE CHOOSE team \in champions : TRUE,
         legs_won  |-> [team \in Team |-> Cardinality(Won(team))],
         current   |-> told[k],
         active_id |-> active,
         active    |-> IF active \in {0, k} THEN <<>>
                       ELSE <<told[active]>>]

TrueHistory(board, replays) ==
    [k \in DOMAIN replays |->
        [row    |-> [starter |-> board.legs[k].starter, winner |-> replays[k].winner],
         visits |-> [v \in DOMAIN replays[k].visits |->
                        TrueVisit(board.legs[k], replays[k], v)]]]

AnsweredWith(kind) == ~Idle /\ req.answer # <<>> /\ req.answer[1] = kind

Undisturbed == Len(req.seen) = 1

SameButForTheSecondLeg(answer, true) ==
    [answer EXCEPT !.active = <<>>] = [true EXCEPT !.active = <<>>]

(* A write answers with the board it left, whoever else has written since: *)
(* the tally, the leg won and the visit in hand are all of that moment.    *)
(* Only the second leg is read later.  With nobody else writing, a GET is  *)
(* the board too, the darts of the match included, and the visit it shows  *)
(* is the thrower's (_visits decides by the last stored row, the thrower   *)
(* comes from the replay).                                                 *)
AnswersAreOfTheirBoard ==
    LET board   == req.seen[1]
        replays == Replayed(board)
        Whole(answer, true) ==
            /\ req.by # "get" => SameButForTheSecondLeg(answer, true)
            /\ Undisturbed => answer = true
    IN  /\ AnsweredWith("state") =>
             Whole(req.answer[2],
                   TrueResponse(board, replays, TrueLegs(board, replays), req.asked))
        /\ AnsweredWith("history") /\ Undisturbed =>
             req.answer[2] = TrueHistory(board, replays)

(* A state asked for of a leg that exists is not found only when an undo   *)
(* has taken that leg back in the meantime, the leg a won leg's answer     *)
(* goes on to read included.                                               *)
NotFoundOnlyAfterAnUndo ==
    AnsweredWith("not_found") =>
        \E i \in 2..Len(req.seen) :
            Len(req.seen[i].legs) < Len(req.seen[i - 1].legs)
=============================================================================
