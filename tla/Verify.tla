-------------------------------- MODULE Verify --------------------------------
(***************************************************************************)
(* Every stored conclusion recomputed from the darts                       *)
(* (backend/darts/services/verify.py, the darts-verify tool): what it      *)
(* finds out of step with them, as a set of subjects.  A leg is given by   *)
(* its row `l' of PlayService and its rows `r' of PlayRows.                *)
(***************************************************************************)
EXTENDS PlayRows

CheckWinner(l, leg) == IF l.winner = leg.winner THEN {} ELSE {<<"winner">>}

CheckVisitsShorter(r, leg) ==           \* mutant: zip, with nothing said of what is left over
    {<<"visit", v>> : v \in {w \in DOMAIN leg.visits \cap DOMAIN r.visits :
                                r.visits[w].verdict # VisitVerdict(leg.visits[w])}}

(* A visit too many or too few is one finding, and the rest are not looked *)
(* at.                                                                     *)
CheckVisits(r, leg) ==
    IF Len(r.visits) # Len(leg.visits) THEN {<<"visits">>}
    ELSE {<<"visit", v>> : v \in {w \in DOMAIN leg.visits :
                                    r.visits[w].verdict # VisitVerdict(leg.visits[w])}}

(* Dart s of a replayed leg as <<visit, dart of the visit>>.               *)
Position(leg, s) ==
    CHOOSE p \in (DOMAIN leg.visits) \X (1..DartsPerVisit) :
        /\ p[2] \in DOMAIN leg.visits[p[1]].darts
        /\ s = p[2] + MapThenSumSet(LAMBDA i : Len(leg.visits[i].darts), 1..p[1] - 1)

(* Each dart judged against the position just before it, a replay of the   *)
(* darts up to it.                                                         *)
ExpectedFlags(l, leg, s) ==
    LET p     == Position(leg, s)
        prior == LegAfter(l.starter, SubSeq(l.darts, 1, s - 1))
    IN  DartFlags(leg.visits[p[1]], p[2], prior.teams[leg.visits[p[1]].team])

CheckDarts(l, r, leg) ==
    {<<"dart", s>> : s \in {i \in DOMAIN l.darts : r.darts[i].flags # ExpectedFlags(l, leg, i)}}

(* Cricket: the effect row of each dart, and all the point events at once; *)
(* x01: no such rows at all.                                               *)
CheckCricket(l, r, leg) ==
    LET Expected(s) == CricketRows(leg.visits[Position(leg, s)[1]], Position(leg, s)[2])
        Stored(s)   == r.darts[s].cricket
    IN  IF IsX01
        THEN IF \A s \in DOMAIN l.darts : Stored(s).effects = {} /\ Stored(s).awards = {}
             THEN {} ELSE {<<"cricket rows on an x01 leg">>}
        ELSE {<<"effect", s>> : s \in {i \in DOMAIN l.darts :
                                          Stored(i).effects # Expected(i).effects}}
             \cup (IF \A s \in DOMAIN l.darts : Stored(s).awards = Expected(s).awards
                   THEN {} ELSE {<<"point events">>})

CheckCaches(r, leg) == IF r.caches = CacheRows(leg) THEN {} ELSE {<<"leg cache">>}

VerifyLeg(l, r) ==
    LET leg == LegAfter(l.starter, l.darts)
    IN  CheckWinner(l, leg) \cup CheckVisits(r, leg) \cup CheckDarts(l, r, leg)
        \cup CheckCricket(l, r, leg) \cup CheckCaches(r, leg)

(* Every leg, and then the match's own winner, recounted from the winners  *)
(* stored with the legs.                                                   *)
VerifyMatch(ls, rs, champion) ==
    (UNION {{<<k, subject>> : subject \in VerifyLeg(ls[k], rs[k])} : k \in DOMAIN ls})
    \cup (IF champion = Champion(ls) THEN {} ELSE {<<"match winner">>})
-----------------------------------------------------------------------------
(* After any mix of throws and undos, over legs won, reopened and played   *)
(* again, no stored conclusion is out of step with the darts: the visits   *)
(* and judgements written dart by dart, a bust taken back, the caches of a *)
(* leg that is won or emptied, the winners of legs and match.              *)
VerifyFindsNothing == VerifyMatch(legs, rows, winner) = {}

(* What can be wrong with one leg's rows: the stored conclusions of some   *)
(* earlier moment of the leg (an interrupted write, a restored backup), or *)
(* one column of one row changed by hand.                                  *)
StaleRows(l, r) ==
    {[r EXCEPT !.caches = CacheRows(LegAfter(l.starter, SubSeq(l.darts, 1, n)))] :
        n \in 0..Len(l.darts) - 1}
    \cup {[r EXCEPT !.visits = SubSeq(@, 1, n)] : n \in 0..Len(r.visits) - 1}

EditedRows(r) ==
    {[r EXCEPT !.visits[v].verdict.complete = ~@] : v \in DOMAIN r.visits}
    \cup {[r EXCEPT !.visits[v].verdict.after = @ + 1] : v \in DOMAIN r.visits}
    \cup {[r EXCEPT !.darts[s].flags.counted = ~@] : s \in DOMAIN r.darts}
    \cup {[r EXCEPT !.darts[s].flags.attempt = ~@] : s \in DOMAIN r.darts}
    \cup {[r EXCEPT !.darts[s].cricket.effects =
             IF @ = {} THEN {[target |-> 20, marks |-> 1, surplus |-> 0, wasted |-> FALSE]}
             ELSE {}] : s \in DOMAIN r.darts}

(* And it is not silent for want of looking: whatever single conclusion    *)
(* has gone stale, something is reported.                                  *)
VerifyMissesNothing ==
    /\ \A k \in DOMAIN legs :
         /\ \A r \in (StaleRows(legs[k], rows[k]) \cup EditedRows(rows[k])) \ {rows[k]} :
              VerifyLeg(legs[k], r) # {}
         /\ \A w \in (Team \cup {NoTeam}) \ {legs[k].winner} :
              VerifyMatch([legs EXCEPT ![k].winner = w], rows, winner) # {}
    /\ \A w \in (Team \cup {NoTeam}) \ {winner} : VerifyMatch(legs, rows, w) # {}

(* What darts-verify does not look at, although its docstring has it       *)
(* recompute everything derived: whose each visit is and which of the      *)
(* team's it is, and which visit each dart belongs to.  They too are what  *)
(* the replay of the darts says.                                           *)
RowsSitWithTheirThrowers ==
    \A k \in DOMAIN legs :
        LET leg == LegAfter(legs[k].starter, legs[k].darts)
        IN  /\ \A v \in DOMAIN leg.visits :
                 /\ rows[k].visits[v].team = leg.visits[v].team
                 /\ rows[k].visits[v].member = leg.visits[v].member
                 /\ rows[k].visits[v].team_visit =
                      Cardinality({w \in 1..v - 1 : leg.visits[w].team = leg.visits[v].team})
            /\ \A s \in DOMAIN legs[k].darts :
                 <<rows[k].darts[s].visit, rows[k].darts[s].index>> = Position(leg, s)
=============================================================================
