---------------------------- MODULE LegPlayProofs ----------------------------
(***************************************************************************)
(* A leg played on the engine, proved for every set of rules, every number *)
(* of teams and members, every set of legal throws and legs of any length. *)
(***************************************************************************)
EXTENDS LegPlay, ReplayProofs

(* The records of darts a leg may hold.                                    *)
LegTyped ==
    /\ rules \in RuleSet /\ starter \in Team
    /\ darts \in Seq(Throw[rules.game])

(* The darts of a leg are darts, one after another.                        *)
LEMMA LegIsTyped == Spec => []LegTyped
<1>1. Init => LegTyped
  BY EmptySeq DEF Init, LegTyped
<1>2. LegTyped /\ [Next]_vars => LegTyped'
  <2> SUFFICES ASSUME LegTyped, [Next]_vars
               PROVE  LegTyped'
    OBVIOUS
  <2>1. ASSUME NEW t \in Throw[rules.game], ThrowDart(t)
        PROVE  LegTyped'
    BY <2>1, AppendProperties DEF ThrowDart, LegTyped
  <2>2. CASE UndoDart
    <3>1. UndoneIs(darts', darts, Throw[rules.game])
      BY <2>2, UndoneIsShorter DEF UndoDart, LegTyped
    <3> QED BY <2>2, <3>1 DEF UndoneIs, UndoDart, LegTyped
  <2>3. CASE UNCHANGED vars
    BY <2>3 DEF vars, LegTyped
  <2> QED BY <2>1, <2>2, <2>3 DEF Next
<1> QED BY <1>1, <1>2, PTL DEF Spec

(* The teams are numbered from zero, one seat of the rota each.            *)
LEMMA TeamsAreSeated == Seats(Members, NTeams) /\ Team = 0..NTeams - 1
BY LegPlayAssumption DEF Seats, Team, NTeams

(* Whatever the game and however early its visits ended, the replay has    *)
(* them go round the teams from the starter, and each team's round its     *)
(* members.                                                                *)
THEOREM VisitsGoRound == Spec => []RotationIsRoundRobin
<1>1. LegTyped => RotationIsRoundRobin
  <2> SUFFICES ASSUME LegTyped
               PROVE  RotationIsRoundRobin
    OBVIOUS
  <2>1. darts \in Seq(Throw[rules.game]) /\ starter \in 0..NTeams - 1
    BY TeamsAreSeated DEF LegTyped
  <2>2. PICK n \in Nat : n = Len(darts)
    BY <2>1, LenProperties
  <2>3. PICK leg : Stages(leg, rules, Members, starter, darts)
    BY <2>2, LegHasStages
  <2>4. \A i \in 0..Len(darts) : RotaInv(leg[i], starter, Members, NTeams)
    BY <2>1, <2>3, StagesGoRound, TeamsAreSeated
  <2>5. Leg = leg[n]
    BY <2>2, <2>3 DEF Leg, Stages
  <2>6. RotaInv(Leg, starter, Members, NTeams)
    BY <2>2, <2>4, <2>5
  <2> QED BY <2>6 DEF RotaInv, InTurn, RotationIsRoundRobin
<1> QED BY <1>1, LegIsTyped, PTL

(* A dart thrown, or one taken back, leaves every visit that was complete  *)
(* before the last dart as it was: the visits that the service has already *)
(* written need no rewriting.                                              *)
THEOREM CompleteVisitsStay == Spec => []CompleteVisitsAreSettled
<1>1. LegTyped => CompleteVisitsAreSettled
  <2> SUFFICES ASSUME LegTyped
               PROVE  CompleteVisitsAreSettled
    OBVIOUS
  <2> DEFINE S == Throw[rules.game]
  <2>1. darts \in Seq(S)
    BY DEF LegTyped
  <2>2. PICK earlier : earlier = LegReplay(rules, Members, starter, Undone(darts))
    OBVIOUS
  <2>3. Kept(earlier.visits, Leg.visits)
    <3>1. CASE darts # <<>>
      <4>1. UndoneIs(Undone(darts), darts, S)
        BY <2>1, <3>1, UndoneIsShorter
      <4>2. Undone(darts) \in Seq(S) /\ Extends(darts, Undone(darts))
        BY <4>1 DEF UndoneIs, Extends
      <4> QED BY <2>1, <2>2, <4>2, CompletedVisitsStay DEF Leg
    <3>2. CASE darts = <<>>
      <4>1. earlier = Leg
        BY <2>2, <3>2 DEF Undone, Leg
      <4>2. PICK k \in Nat : k = Len(Leg.visits)
        BY <2>1, ReplayIsOK, LenProperties DEF Leg, LegOK, IsSeq
      <4>3. \A v \in 1..k : v <= k
        OBVIOUS
      <4> QED BY <4>1, <4>2, <4>3 DEF Kept
    <3> QED BY <3>1, <3>2
  <2> QED BY <2>2, <2>3 DEF Kept, CompleteVisitsAreSettled
<1> QED BY <1>1, LegIsTyped, PTL

(* What some darts of a leg are worth, as X01ByDefinition adds them up.     *)
ThrownWorth(leg, C) == MapThenSumSet(LAMBDA p : Score(Outcome(leg, p).throw), C)

(* What MapThenSumSet adds up over the darts of a team that counted.       *)
LEMMA CountedSum ==
    ASSUME NEW leg, NEW C, IsFiniteSet(C),
           \A p \in C : Score(Outcome(leg, p).throw) \in Int
    PROVE  \E w : /\ \A p \in C : w[p] = Score(Outcome(leg, p).throw)
                  /\ ThrownWorth(leg, C) = Total(w, C)
<1>1. PICK w : w = [p \in C |-> Score(Outcome(leg, p).throw)]
  OBVIOUS
<1> DEFINE Solves(sum) ==
              sum = [s \in SUBSET C |->
                        IF s = {} THEN 0
                        ELSE Score(Outcome(leg, CHOOSE x \in s : TRUE).throw)
                             + sum[s \ {CHOOSE x \in s : TRUE}]]
           sum == CHOOSE f : Solves(f)
<1>2. ThrownWorth(leg, C) = sum[C]
  BY DEF ThrownWorth, MapThenSumSet, MapThenFoldSet
<1>3. \A f : Solves(f) <=> IsSum(f, w, C)
  <2>1. \A s \in SUBSET C : s # {} =>
           w[CHOOSE x \in s : TRUE] = Score(Outcome(leg, CHOOSE x \in s : TRUE).throw)
    BY <1>1
  <2> QED BY <2>1 DEF IsSum, One
<1>4. IsSum(sum, w, C)
  <2>1. PICK f : IsSum(f, w, C)
    BY SumsExist
  <2>2. \E g : Solves(g)
    <3>1. Solves(f)
      BY <1>3, <2>1
    <3> HIDE DEF Solves
    <3> QED BY <3>1
  <2> HIDE DEF Solves
  <2>3. Solves(sum)
    BY <2>2
  <2> QED BY <1>3, <2>3
<1>5. sum[C] = Total(w, C)
  <2> HIDE DEF sum
  <2> QED BY <1>4, TotalIs
<1> QED BY <1>1, <1>2, <1>5

(* The darts of a team that counted, as the property names them.           *)
LEMMA CountedAre ==
    ASSUME NEW leg, IsSeq(leg.visits),
           \A v \in 1..Len(leg.visits) : VisitSound(leg.visits[v]), NEW team
    PROVE  {p \in DartsOf(leg, team) : Outcome(leg, p).counted} = CountedOf(leg.visits, team)
<1>1. PICK n \in Nat : n = Len(leg.visits)
  BY LenProperties DEF IsSeq
<1>2. \A v \in 1..n : DOMAIN leg.visits[v].darts = 1..Len(leg.visits[v].darts)
  BY <1>1, LenProperties DEF VisitSound, IsSeq
<1>3. \A p : p \in DartsOf(leg, team) <=>
               \E v \in 1..n : \E j \in 1..Len(leg.visits[v].darts) :
                  p = <<v, j>> /\ leg.visits[v].team = team
  BY <1>1, <1>2 DEF DartsOf, VisitsOf
<1>4. \A p : p \in Pairs(Lengths(leg.visits), Len(leg.visits)) <=>
               \E v \in 1..n : \E j \in 1..Len(leg.visits[v].darts) : p = <<v, j>>
  BY <1>1, PairsAre
<1>5. \A p : p \in DartsOf(leg, team) <=>
               p \in Pairs(Lengths(leg.visits), Len(leg.visits)) /\ leg.visits[p[1]].team = team
  BY <1>3, <1>4
<1> QED BY <1>5 DEF CountedOf, Outcome

(* The score of every team of an x01 leg, however far it has got, is the   *)
(* start less what its counted darts are worth, and it is open once one of *)
(* them has met the in-rule.                                               *)
THEOREM ScoresAddUp == Spec => []X01ByDefinition
<1>1. LegTyped => X01ByDefinition
  <2>1. SUFFICES ASSUME LegTyped, rules.game = "x01", NEW team \in Team,
                        NEW leg, leg = Leg, NEW C, C = {p \in DartsOf(leg, team) : Outcome(leg, p).counted}
                 PROVE  /\ rules.start - leg.teams[team].remaining
                                = MapThenSumSet(LAMBDA p : Score(Outcome(leg, p).throw), C)
                        /\ leg.teams[team].open <=> (rules.in_rule = "straight" \/ C # {})
                        /\ \A p \in C :
                             (\A q \in C : ~(q[1] < p[1] \/ (q[1] = p[1] /\ q[2] < p[2])))
                                => Satisfies(rules.in_rule, Outcome(leg, p).throw)
    BY DEF X01ByDefinition
  <2>2. /\ darts \in Seq(Throw[rules.game]) /\ starter \in 0..NTeams - 1 /\ Legal(Throw[rules.game])
        /\ X01Rules(rules) /\ Seats(Members, NTeams) /\ team \in 0..NTeams - 1
    BY <2>1, TeamsAreSeated, LegPlayAssumption DEF LegTyped, Legal, X01Rules
  <2>3. X01Inv(leg, rules, NTeams)
    BY <2>1, <2>2, ReplayKeepsScores DEF Leg
  <2>4. IsSeq(leg.visits)
    BY <2>1, <2>2, ReplayIsOK DEF Leg, LegOK
  <2>5. PICK n \in Nat : n = Len(leg.visits) /\ \A v \in 1..n : VisitSound(leg.visits[v])
    BY <2>3, <2>4, LenProperties DEF IsSeq, X01Inv
  <2>6. C = CountedOf(leg.visits, team)
    BY <2>1, <2>4, <2>5, CountedAre
  <2>7. Standing(leg, rules, team)
    BY <2>2, <2>3 DEF X01Inv
  <2>8. \A p : p \in C <=> \E v \in 1..n : \E j \in 1..Len(leg.visits[v].darts) :
              p = <<v, j>> /\ leg.visits[v].team = team /\ leg.visits[v].darts[j].counted
    <3>1. \A p : p \in Pairs(Lengths(leg.visits), Len(leg.visits)) <=>
               \E v \in 1..n : \E j \in 1..Len(leg.visits[v].darts) : p = <<v, j>>
      BY <2>4, <2>5, PairsAre
    <3> QED BY <2>6, <3>1 DEF CountedOf
  <2>9. rules.start - leg.teams[team].remaining
           = MapThenSumSet(LAMBDA p : Score(Outcome(leg, p).throw), C)
    <3>1. IsFiniteSet(C)
      <4>1. PICK w : w = [p \in C |-> Score(leg.visits[p[1]].darts[p[2]].throw)]
        OBVIOUS
      <4>2. \A p \in CountedOf(leg.visits, team) : w[p] = Score(leg.visits[p[1]].darts[p[2]].throw)
        BY <2>6, <4>1
      <4>3. IsFiniteSet(CountedOf(leg.visits, team))
        BY <2>4, <2>5, <4>2, CountedTotal
      <4> QED BY <2>6, <4>3
    <3>2. \A p \in C : Score(Outcome(leg, p).throw) \in Int
      BY <2>5, <2>8 DEF VisitSound, Judged, Outcome
    <3>3. PICK w : /\ \A p \in C : w[p] = Score(Outcome(leg, p).throw)
                   /\ ThrownWorth(leg, C) = Total(w, C)
      BY <3>1, <3>2, CountedSum
    <3>4. \A p \in C : w[p] = Score(leg.visits[p[1]].darts[p[2]].throw)
      BY <3>3 DEF Outcome
    <3>5. Total(w, C) = Total(TeamWorths(leg.visits, team), 1..n)
      BY <2>4, <2>5, <2>6, <3>4, CountedTotal
    <3>6. rules.start - leg.teams[team].remaining = ThrownWorth(leg, C)
      BY <2>5, <2>7, <3>3, <3>5 DEF Standing
    <3> QED BY <3>6 DEF ThrownWorth
  <2>10. leg.teams[team].open <=> (rules.in_rule = "straight" \/ C # {})
    <3>1. C # {} <=> \E v \in 1..n : ScoredIn(leg.visits, team, v)
      BY <2>5, <2>8 DEF ScoredIn, SomeCounted
    <3> QED BY <2>5, <2>7, <3>1 DEF Standing
  <2>11. ASSUME NEW p \in C,
                \A q \in C : ~(q[1] < p[1] \/ (q[1] = p[1] /\ q[2] < p[2]))
         PROVE  Satisfies(rules.in_rule, Outcome(leg, p).throw)
    <3>1. PICK v, j :
              /\ v \in 1..n /\ j \in 1..Len(leg.visits[v].darts) /\ p = <<v, j>>
              /\ leg.visits[v].team = team /\ leg.visits[v].darts[j].counted
      BY <2>8, <2>11
    <3>2. ScoredIn(leg.visits, team, v)
      BY <2>5, <3>1 DEF ScoredIn, SomeCounted
    <3>3. \A u \in 1..v - 1 : ~ScoredIn(leg.visits, team, u)
      <4> SUFFICES ASSUME NEW u \in 1..v - 1, ScoredIn(leg.visits, team, u)
                   PROVE  FALSE
        OBVIOUS
      <4>1. PICK h \in 1..Len(leg.visits[u].darts) : leg.visits[u].darts[h].counted
        BY DEF ScoredIn, SomeCounted
      <4>2. <<u, h>> \in C
        BY <2>5, <2>8, <4>1 DEF ScoredIn
      <4> QED BY <2>11, <3>1, <4>2
    <3>4. Opener(leg.visits[v].darts, j)
      <4>1. PICK m \in Nat : m = Len(leg.visits[v].darts)
        BY <2>5, <3>1, LenProperties DEF VisitSound, IsSeq
      <4>2. ASSUME NEW h \in 1..j - 1, leg.visits[v].darts[h].counted
            PROVE  FALSE
        <5>1. h \in 1..m /\ h < j
          BY <3>1, <4>1
        <5>2. <<v, h>> \in C
          BY <2>8, <3>1, <4>1, <4>2, <5>1
        <5> QED BY <2>11, <3>1, <5>1, <5>2
      <4> QED BY <3>1, <4>2 DEF Opener
    <3>5. Satisfies(rules.in_rule, leg.visits[v].darts[j].throw)
      BY <2>5, <2>7, <3>1, <3>2, <3>3, <3>4 DEF Standing, OpensRight
    <3> QED BY <3>1, <3>5 DEF Outcome
  <2> QED BY <2>9, <2>10, <2>11
<1> QED BY <1>1, LegIsTyped, PTL

(* A record that the engine refuses ends before its last dart.             *)
LEMMA RefusedIsUnfinished ==
    ASSUME NEW S, NEW record \in Seq(S), NEW cfg, NEW members, NEW first, NEW leg,
           leg = LegReplay(cfg, members, first, record), leg.refused
    PROVE  leg.offset # Len(record)
<1>1. PICK n \in Nat : n = Len(record)
  BY LenProperties
<1>2. PICK stage : Stages(stage, cfg, members, first, record)
  BY <1>1, LegHasStages
<1> DEFINE T == {i \in 0..n : stage[i].refused => stage[i].offset # n}
<1>3. 0 \in T
  <2>1. stage[0].refused = FALSE
    BY <1>2 DEF Stages, Opening
  <2> QED BY <2>1
<1>4. ASSUME NEW i \in 0..n - 1, i \in T
      PROVE  i + 1 \in T
  <2>1. PICK m : m = i + 1 /\ m \in 1..n /\ m \in 0..n /\ m - 1 = i
    OBVIOUS
  <2>2. stage[m] = LegStep(cfg, members, record, stage[i])
    BY <1>1, <1>2, <2>1 DEF Stages
  <2>3. stage[m].refused => stage[m].offset # n
    <3>1. CASE UsedUp(stage[i], n)
      <4>1. stage[m] = stage[i]
        BY <1>1, <2>2, <3>1 DEF LegStep, UsedUp
      <4> QED BY <1>4, <4>1
    <3>2. CASE ~UsedUp(stage[i], n)
      <4>1. PICK before, next : before = stage[i] /\ next = stage[m]
        OBVIOUS
      <4>2. LegOK(before, Len(record))
        BY <1>1, <1>2, <4>1, StagesAreOK
      <4>3. /\ ~before.refused /\ before.offset # n
            /\ next = PlayVisit(cfg, members, record, before)
        BY <1>1, <2>2, <3>2, <4>1, <4>2 DEF LegStep, UsedUp, LegOK
      <4>4. CASE Refusal(next, before)
        BY <4>1, <4>3, <4>4 DEF Refusal
      <4>5. ASSUME NEW throws, NEW outcome, NEW visit,
                   Played(next, cfg, members, record, before, throws, outcome, visit)
            PROVE  next.refused => next.offset # n
        BY <1>1, <4>5 DEF Played, Gained
      <4> QED BY <1>1, <4>1, <4>2, <4>3, <4>4, <4>5, PlayVisitIs
    <3> QED BY <3>1, <3>2
  <2> QED BY <2>1, <2>3
<1> HIDE DEF T
<1>5. 0..n \subseteq T
  BY <1>3, <1>4, UpTo
<1>6. n \in T
  BY <1>5
<1>7. leg = stage[n]
  BY <1>1, <1>2 DEF Stages
<1> QED BY <1>1, <1>6, <1>7 DEF T

(* Taking the last dart back leaves a record that the engine accepts.      *)
LEMMA AcceptedBefore ==
    ASSUME NEW S, NEW record \in Seq(S), NEW longer \in Seq(S), Extends(longer, record),
           NEW cfg, NEW members, NEW first,
           ~LegReplay(cfg, members, first, longer).refused
    PROVE  ~LegReplay(cfg, members, first, record).refused
<1>1. PICK leg, more : /\ leg = LegReplay(cfg, members, first, record)
                       /\ more = LegReplay(cfg, members, first, longer)
  OBVIOUS
<1>2. Ahead(leg, more, cfg, members, record, longer)
  BY <1>1, ReplayGrows
<1>3. CASE Opened(leg, more, cfg, members, record, longer)
  BY <1>1, <1>3, RefusedIsUnfinished DEF Opened
<1>4. CASE Continued(leg, more, cfg, members, record, longer)
  <2>1. \E outcome : ~outcome.won /\ leg.refused = (outcome.won /\ leg.offset # Len(record))
    BY <1>4 DEF Continued, Played, Gained
  <2> QED BY <1>1, <2>1
<1> QED BY <1>2, <1>3, <1>4 DEF Ahead

(* The engine takes the record as it is: replaying it does not raise.      *)
Accepted == ~Leg.refused

(* No undo leaves a record that the engine refuses to replay: the service  *)
(* can always say what an undo has left.                                   *)
THEOREM RecordsAreAccepted == Spec => []Accepted
<1>1. Init => Accepted
  <2> SUFFICES ASSUME Init
               PROVE  Accepted
    OBVIOUS
  <2>1. PICK n : n = Len(darts) /\ n = 0
    BY EmptyIsSeq DEF Init
  <2>2. PICK leg : Stages(leg, rules, Members, starter, darts)
    BY <2>1, LegHasStages
  <2>3. Leg = leg[0] /\ leg[0] = Opening(rules, Members, starter)
    BY <2>1, <2>2 DEF Stages, Leg
  <2> QED BY <2>3 DEF Opening, Accepted
<1>2. LegTyped /\ Accepted /\ [Next]_vars => Accepted'
  <2> SUFFICES ASSUME LegTyped, Accepted, [Next]_vars
               PROVE  Accepted'
    OBVIOUS
  <2>1. ASSUME NEW t \in Throw[rules.game], ThrowDart(t)
        PROVE  Accepted'
    BY <2>1 DEF ThrowDart, Accepted, Leg
  <2>2. CASE UndoDart
    <3>1. UndoneIs(darts', darts, Throw[rules.game])
      BY <2>2, UndoneIsShorter DEF UndoDart, LegTyped
    <3>2. darts' \in Seq(Throw[rules.game]) /\ Extends(darts, darts')
      BY <3>1 DEF UndoneIs, Extends
    <3>3. PICK less : less = darts'
      OBVIOUS
    <3>4. ~LegReplay(rules, Members, starter, less).refused
      BY <3>2, <3>3, AcceptedBefore DEF LegTyped, Accepted, Leg
    <3> QED BY <2>2, <3>3, <3>4 DEF UndoDart, Accepted, Leg
  <2>3. CASE UNCHANGED vars
    BY <2>3 DEF vars, Accepted, Leg
  <2> QED BY <2>1, <2>2, <2>3 DEF Next
<1> QED BY <1>1, <1>2, LegIsTyped, PTL DEF Spec

(* The sums that the cricket definitions take over the darts of a record.  *)
Multiplied(D) == MapThenSumSet(LAMBDA j : darts[j].multiplier, D)

Paying(D) == MapThenSumSet(LAMBDA j : darts[j].segment * SurplusOf(j), D)

(* Each is the total of any function that has the summands as its values.  *)
LEMMA MultipliedIs ==
    ASSUME NEW D, IsFiniteSet(D), NEW w, \A j \in D : w[j] = darts[j].multiplier
    PROVE  Multiplied(D) = Total(w, D)
<1> DEFINE Solves(sum) ==
              sum = [s \in SUBSET D |->
                        IF s = {} THEN 0
                        ELSE darts[CHOOSE x \in s : TRUE].multiplier
                             + sum[s \ {CHOOSE x \in s : TRUE}]]
           sum == CHOOSE f : Solves(f)
<1>1. Multiplied(D) = sum[D]
  BY DEF Multiplied, MapThenSumSet, MapThenFoldSet
<1>2. \A f : Solves(f) <=> IsSum(f, w, D)
  <2>1. \A s \in SUBSET D : s # {} =>
           w[CHOOSE x \in s : TRUE] = darts[CHOOSE x \in s : TRUE].multiplier
    OBVIOUS
  <2> QED BY <2>1 DEF IsSum, One
<1>3. IsSum(sum, w, D)
  <2>1. PICK f : IsSum(f, w, D)
    BY SumsExist
  <2>2. \E g : Solves(g)
    <3>1. Solves(f)
      BY <1>2, <2>1
    <3> HIDE DEF Solves
    <3> QED BY <3>1
  <2> HIDE DEF Solves
  <2>3. Solves(sum)
    BY <2>2
  <2> QED BY <1>2, <2>3
<1>4. sum[D] = Total(w, D)
  <2> HIDE DEF sum
  <2> QED BY <1>3, TotalIs
<1> QED BY <1>1, <1>4

(* And the points that surplus paid.                                       *)
LEMMA PayingIs ==
    ASSUME NEW D, IsFiniteSet(D), NEW w, \A j \in D : w[j] = darts[j].segment * SurplusOf(j)
    PROVE  Paying(D) = Total(w, D)
<1> DEFINE Solves(sum) ==
              sum = [s \in SUBSET D |->
                        IF s = {} THEN 0
                        ELSE darts[CHOOSE x \in s : TRUE].segment * SurplusOf(CHOOSE x \in s : TRUE)
                             + sum[s \ {CHOOSE x \in s : TRUE}]]
           sum == CHOOSE f : Solves(f)
<1>1. Paying(D) = sum[D]
  BY DEF Paying, MapThenSumSet, MapThenFoldSet
<1>2. \A f : Solves(f) <=> IsSum(f, w, D)
  <2>1. \A s \in SUBSET D : s # {} =>
           w[CHOOSE x \in s : TRUE]
             = darts[CHOOSE x \in s : TRUE].segment * SurplusOf(CHOOSE x \in s : TRUE)
    OBVIOUS
  <2> QED BY <2>1 DEF IsSum, One
<1>3. IsSum(sum, w, D)
  <2>1. PICK f : IsSum(f, w, D)
    BY SumsExist
  <2>2. \E g : Solves(g)
    <3>1. Solves(f)
      BY <1>2, <2>1
    <3> HIDE DEF Solves
    <3> QED BY <3>1
  <2> HIDE DEF Solves
  <2>3. Solves(sum)
    BY <2>2
  <2> QED BY <1>2, <2>3
<1>4. sum[D] = Total(w, D)
  <2> HIDE DEF sum
  <2> QED BY <1>3, TotalIs
<1> QED BY <1>1, <1>4

(* Those of the first k numbers that are in a set.                         *)
Among(P, k) == {j \in 1..k : j \in P}

(* A sum over them, as k goes up.                                          *)
LEMMA AmongNext ==
    ASSUME NEW n \in Nat, NEW w, \A j \in 1..n : w[j] \in Int, NEW P, NEW k \in 0..n - 1
    PROVE  /\ IsFiniteSet(Among(P, k)) /\ IsFiniteSet(Among(P, k + 1))
           /\ Total(w, Among(P, k)) \in Int
           /\ Total(w, Among(P, k + 1))
                = Total(w, Among(P, k)) + (IF k + 1 \in P THEN w[k + 1] ELSE 0)
<1>1. PICK m : m = k + 1 /\ m \in 1..n /\ \A j : j \in 1..m <=> j \in 1..k \/ j = m
  OBVIOUS
<1>2. m \notin 1..k /\ \A j \in 1..k : j \in 1..n
  BY <1>1
<1>3. PICK A, B : A = Among(P, k) /\ B = Among(P, m)
  OBVIOUS
<1>4. IsFiniteSet(1..m) /\ B \subseteq 1..m /\ A \subseteq 1..m
  <2>1. IsFiniteSet(1..m)
    BY <1>1, FS_Interval
  <2> QED BY <1>1, <1>3, <2>1 DEF Among
<1>5. IsFiniteSet(A) /\ IsFiniteSet(B)
  BY <1>4, FS_Subset
<1>6. (\A x \in A : w[x] \in Int) /\ \A x \in B : w[x] \in Int
  BY <1>1, <1>2, <1>3 DEF Among
<1>7. Total(w, A) \in Int
  BY <1>5, <1>6, TotalOf
<1>8. Total(w, B) = Total(w, A) + (IF m \in P THEN w[m] ELSE 0)
  <2>1. CASE m \in P
    <3>1. m \in B /\ B \ {m} = A
      BY <1>1, <1>2, <1>3, <2>1 DEF Among
    <3>2. Total(w, B) = w[m] + Total(w, B \ {m})
      BY <1>5, <1>6, <3>1, TotalOf
    <3> QED BY <1>1, <1>7, <2>1, <3>1, <3>2
  <2>2. CASE m \notin P
    <3>1. B = A
      BY <1>1, <1>3, <2>2 DEF Among
    <3> QED BY <1>7, <2>2, <3>1
  <2> QED BY <2>1, <2>2
<1> QED BY <1>1, <1>3, <1>5, <1>7, <1>8

(* What dart k put on a target for a team, before any cap.                 *)
Hit(team, g, k) ==
    IF DartThrower(k) = team /\ darts[k].segment = g THEN darts[k].multiplier ELSE 0

(* The multipliers that a team has thrown at a target, dart by dart.       *)
LEMMA MarksThrownGrow ==
    ASSUME LegTyped, NEW team, NEW g, NEW n \in Nat, n = Len(darts)
    PROVE  /\ MarksThrown(team, g, 0) = 0
           /\ \A k \in 0..n : MarksThrown(team, g, k) \in Nat
           /\ \A k \in 1..n : Hit(team, g, k) \in 0..3
           /\ \A k \in 0..n - 1 :
                 MarksThrown(team, g, k + 1) = MarksThrown(team, g, k) + Hit(team, g, k + 1)
<1>1. PICK w : w = [j \in 1..n |-> darts[j].multiplier]
  OBVIOUS
<1>2. \A j \in 1..n : w[j] = darts[j].multiplier /\ w[j] \in 0..3
  <2>1. \A j \in 1..n : IsLegalThrow(darts[j])
    BY ElementOfSeq, LegPlayAssumption DEF LegTyped
  <2> QED BY <1>1, <2>1 DEF IsLegalThrow
<1>3. PICK P : P = {j \in 1..n : DartThrower(j) = team /\ darts[j].segment = g}
  OBVIOUS
<1>4. \A j \in 1..n : w[j] \in Int
  BY <1>2
<1>5. \A k \in 0..n : /\ IsFiniteSet(Among(P, k))
                      /\ MarksThrown(team, g, k) = Total(w, Among(P, k))
  <2> SUFFICES ASSUME NEW k \in 0..n
               PROVE  /\ IsFiniteSet(Among(P, k))
                      /\ MarksThrown(team, g, k) = Total(w, Among(P, k))
    OBVIOUS
  <2>1. PICK D : D = {j \in 1..k : DartThrower(j) = team /\ darts[j].segment = g}
    OBVIOUS
  <2>2. D = Among(P, k) /\ D \subseteq 1..k /\ 1..k \subseteq 1..n
    BY <1>3, <2>1 DEF Among
  <2>3. IsFiniteSet(D)
    <3>1. IsFiniteSet(1..k)
      BY FS_Interval
    <3> QED BY <2>2, <3>1, FS_Subset
  <2>4. MarksThrown(team, g, k) = Multiplied(D)
    BY <2>1 DEF MarksThrown, Multiplied
  <2>5. \A j \in D : w[j] = darts[j].multiplier
    BY <1>2, <2>2
  <2> QED BY <2>2, <2>3, <2>4, <2>5, MultipliedIs
<1>6. MarksThrown(team, g, 0) = 0
  <2>1. 0 \in 0..n
    OBVIOUS
  <2>2. Among(P, 0) = {}
    BY DEF Among
  <2>3. IsFiniteSet({}) /\ \A x \in {} : w[x] \in Int
    BY FS_EmptySet
  <2>4. Total(w, {}) = 0
    BY <2>3, TotalOf
  <2> QED BY <1>5, <2>1, <2>2, <2>4
<1>7. ASSUME NEW k \in 0..n - 1
      PROVE  /\ Hit(team, g, k + 1) \in 0..3
             /\ MarksThrown(team, g, k + 1) = MarksThrown(team, g, k) + Hit(team, g, k + 1)
  <2>1. PICK m : m = k + 1 /\ m \in 1..n /\ m \in 0..n /\ k \in 0..n
    OBVIOUS
  <2>2. Total(w, Among(P, m)) = Total(w, Among(P, k)) + (IF m \in P THEN w[m] ELSE 0)
    <3>1. Total(w, Among(P, k + 1)) = Total(w, Among(P, k)) + (IF k + 1 \in P THEN w[k + 1] ELSE 0)
      BY <1>4, AmongNext
    <3> QED BY <2>1, <3>1
  <2>3. (IF m \in P THEN w[m] ELSE 0) = Hit(team, g, m) /\ Hit(team, g, m) \in 0..3
    BY <1>2, <1>3, <2>1 DEF Hit
  <2> QED BY <1>5, <2>1, <2>2, <2>3
<1>8. \A k \in 1..n : Hit(team, g, k) \in 0..3
  BY <1>2 DEF Hit
<1>9. \A k \in 0..n : MarksThrown(team, g, k) \in Nat
  <2> DEFINE T == {k \in 0..n : MarksThrown(team, g, k) \in Nat}
  <2>1. 0 \in T
    BY <1>6
  <2>2. ASSUME NEW k \in 0..n - 1, k \in T
        PROVE  k + 1 \in T
    <3>1. PICK m : m = k + 1 /\ m \in 0..n
      OBVIOUS
    <3>2. PICK x \in Nat, y \in Nat : x = MarksThrown(team, g, k) /\ y = Hit(team, g, m)
      BY <1>7, <2>2, <3>1
    <3>3. MarksThrown(team, g, m) = x + y
      BY <1>7, <3>1, <3>2
    <3> QED BY <3>1, <3>3
  <2> HIDE DEF T
  <2>3. 0..n \subseteq T
    BY <2>1, <2>2, UpTo
  <2> QED BY <2>3 DEF T
<1> QED BY <1>6, <1>7, <1>8, <1>9

(* Ordinary minima and maxima of two numbers.                              *)
LEMMA MinMaxAre ==
    ASSUME NEW x \in Int
    PROVE  /\ Min({MarksToClose, x}) = IF x < 3 THEN x ELSE 3
           /\ Max({0, x}) = IF x < 0 THEN 0 ELSE x
<1>1. PICK a : a = Min({MarksToClose, x})
  OBVIOUS
<1>2. a \in {3, x} /\ \A y \in {3, x} : a <= y
  <2>1. \E b \in {3, x} : \A y \in {3, x} : b <= y
    <3>1. CASE x < 3
      BY <3>1
    <3>2. CASE ~(x < 3)
      BY <3>2
    <3> QED BY <3>1, <3>2
  <2> QED BY <1>1, <2>1 DEF Min, MarksToClose
<1>3. PICK c : c = Max({0, x})
  OBVIOUS
<1>4. c \in {0, x} /\ \A y \in {0, x} : c >= y
  <2>1. \E b \in {0, x} : \A y \in {0, x} : b >= y
    <3>1. CASE x < 0
      BY <3>1
    <3>2. CASE ~(x < 0)
      BY <3>2
    <3> QED BY <3>1, <3>2
  <2> QED BY <1>3, <2>1 DEF Max
<1> QED BY <1>1, <1>2, <1>3, <1>4

(* What dart k paid a team, by the definition of the property.             *)
Earned(team, k) ==
    IF darts[k].segment \in Targets /\ team \in PaidBy(k) THEN darts[k].segment * SurplusOf(k) ELSE 0

PointsPaid(team, k) ==
    MapThenSumSet(LAMBDA j : darts[j].segment * SurplusOf(j),
                  {j \in 1..k : darts[j].segment \in Targets /\ team \in PaidBy(j)})

(* A dart's surplus is what of it goes beyond closing the target.          *)
LEMMA SurplusIs ==
    ASSUME LegTyped, NEW n \in Nat, n = Len(darts), NEW k \in 0..n - 1, NEW m, m = k + 1,
           NEW have, have = MarksThrown(DartThrower(m), darts[m].segment, k)
    PROVE  /\ have \in Nat /\ darts[m].multiplier \in 0..3 /\ darts[m].segment \in Nat
           /\ SurplusOf(m) = IF have >= 3 THEN darts[m].multiplier
                             ELSE IF have + darts[m].multiplier < 3 THEN 0
                             ELSE have + darts[m].multiplier - 3
<1>1. m \in 1..n /\ k \in 0..n /\ m - 1 = k
  OBVIOUS
<1>2. IsLegalThrow(darts[m])
  BY <1>1, ElementOfSeq, LegPlayAssumption DEF LegTyped
<1>3. PICK team, g : team = DartThrower(m) /\ g = darts[m].segment
  OBVIOUS
<1>4. PICK x \in 0..3 : x = darts[m].multiplier
  BY <1>2 DEF IsLegalThrow
<1>5. have \in Nat /\ MarksThrown(team, g, m) = have + x
  <2>1. Hit(team, g, m) = x
    BY <1>3, <1>4 DEF Hit
  <2> QED BY <1>1, <1>3, <2>1, MarksThrownGrow
<1>6. PICK a \in Int, b \in Int : a = have - 3 /\ b = have + x - 3
  BY <1>5
<1>7. SurplusOf(m) = Max({0, b}) - Max({0, a})
  <2>1. MarksThrown(team, g, m) - MarksToClose = b /\ MarksThrown(team, g, m - 1) - MarksToClose = a
    BY <1>1, <1>3, <1>5, <1>6 DEF MarksToClose
  <2>2. SurplusOf(m) = Max({0, MarksThrown(team, g, m) - MarksToClose})
                         - Max({0, MarksThrown(team, g, m - 1) - MarksToClose})
    BY <1>3 DEF SurplusOf
  <2> QED BY <2>1, <2>2
<1>8. SurplusOf(m) = (IF b < 0 THEN 0 ELSE b) - (IF a < 0 THEN 0 ELSE a)
  BY <1>7, MinMaxAre
<1>9. darts[m].segment \in Nat
  BY <1>2 DEF IsLegalThrow, Bull, Miss
<1>10. SurplusOf(m) = IF have >= 3 THEN x ELSE IF have + x < 3 THEN 0 ELSE have + x - 3
  <2>1. CASE have >= 3
    <3>1. ~(a < 0) /\ ~(b < 0) /\ b - a = x
      <4>1. a >= 0
        BY <1>5, <1>6, <2>1
      <4>2. b = a + x /\ x >= 0
        BY <1>5, <1>6
      <4>3. b >= 0 /\ b - a = x
        BY <4>1, <4>2
      <4> QED BY <4>1, <4>3
    <3> QED BY <1>8, <2>1, <3>1
  <2>2. CASE ~(have >= 3)
    <3>1. a < 0 /\ (b < 0 <=> have + x < 3) /\ b - 0 = have + x - 3 /\ 0 - 0 = 0
      BY <1>5, <1>6, <2>2
    <3> QED BY <1>8, <2>2, <3>1
  <2> QED BY <2>1, <2>2
<1> QED BY <1>4, <1>5, <1>9, <1>10

(* What a team is paid, dart by dart.                                      *)
LEMMA PointsPaidGrow ==
    ASSUME LegTyped, NEW team, NEW n \in Nat, n = Len(darts)
    PROVE  /\ PointsPaid(team, 0) = 0
           /\ \A k \in 0..n - 1 : /\ Earned(team, k + 1) \in Int
                                  /\ PointsPaid(team, k) \in Int
                                  /\ PointsPaid(team, k + 1) = PointsPaid(team, k) + Earned(team, k + 1)
<1>1. PICK w : w = [j \in 1..n |-> darts[j].segment * SurplusOf(j)]
  OBVIOUS
<1>2. \A j \in 1..n : w[j] = darts[j].segment * SurplusOf(j) /\ w[j] \in Int
  <2> SUFFICES ASSUME NEW j \in 1..n
               PROVE  w[j] = darts[j].segment * SurplusOf(j) /\ w[j] \in Int
    OBVIOUS
  <2>1. PICK k : k = j - 1 /\ k \in 0..n - 1 /\ j = k + 1
    OBVIOUS
  <2>2. PICK have : have = MarksThrown(DartThrower(j), darts[j].segment, k)
    OBVIOUS
  <2>3. PICK s \in Nat, x \in 0..3 : s = darts[j].segment /\ x = darts[j].multiplier
    BY <2>1, <2>2, SurplusIs
  <2>4. have \in Nat /\ SurplusOf(j) = IF have >= 3 THEN x ELSE IF have + x < 3 THEN 0 ELSE have + x - 3
    BY <2>1, <2>2, <2>3, SurplusIs
  <2>5. PICK y \in Nat : y = SurplusOf(j)
    BY <2>4
  <2>6. s * y \in Int
    OBVIOUS
  <2> QED BY <1>1, <2>3, <2>5, <2>6
<1>3. PICK P : P = {j \in 1..n : darts[j].segment \in Targets /\ team \in PaidBy(j)}
  OBVIOUS
<1>4. \A j \in 1..n : w[j] \in Int
  BY <1>2
<1>5. \A k \in 0..n : PointsPaid(team, k) = Total(w, Among(P, k))
  <2> SUFFICES ASSUME NEW k \in 0..n
               PROVE  PointsPaid(team, k) = Total(w, Among(P, k))
    OBVIOUS
  <2>1. PICK D : D = {j \in 1..k : darts[j].segment \in Targets /\ team \in PaidBy(j)}
    OBVIOUS
  <2>2. D = Among(P, k) /\ D \subseteq 1..k /\ 1..k \subseteq 1..n
    BY <1>3, <2>1 DEF Among
  <2>3. IsFiniteSet(D)
    <3>1. IsFiniteSet(1..k)
      BY FS_Interval
    <3> QED BY <2>2, <3>1, FS_Subset
  <2>4. PointsPaid(team, k) = Paying(D)
    BY <2>1 DEF PointsPaid, Paying
  <2>5. \A j \in D : w[j] = darts[j].segment * SurplusOf(j)
    BY <1>2, <2>2
  <2> QED BY <2>2, <2>3, <2>4, <2>5, PayingIs
<1>6. PointsPaid(team, 0) = 0
  <2>1. 0 \in 0..n
    OBVIOUS
  <2>2. Among(P, 0) = {}
    BY DEF Among
  <2>3. IsFiniteSet({}) /\ \A x \in {} : w[x] \in Int
    BY FS_EmptySet
  <2>4. Total(w, {}) = 0
    BY <2>3, TotalOf
  <2> QED BY <1>5, <2>1, <2>2, <2>4
<1>7. ASSUME NEW k \in 0..n - 1
      PROVE  /\ Earned(team, k + 1) \in Int /\ PointsPaid(team, k) \in Int
             /\ PointsPaid(team, k + 1) = PointsPaid(team, k) + Earned(team, k + 1)
  <2>1. PICK m : m = k + 1 /\ m \in 1..n /\ m \in 0..n /\ k \in 0..n
    OBVIOUS
  <2>2. /\ Total(w, Among(P, m)) = Total(w, Among(P, k)) + (IF m \in P THEN w[m] ELSE 0)
        /\ Total(w, Among(P, k)) \in Int
    BY <1>4, <2>1, AmongNext
  <2>3. (IF m \in P THEN w[m] ELSE 0) = Earned(team, m) /\ Earned(team, m) \in Int
    BY <1>2, <1>3, <2>1 DEF Earned
  <2> QED BY <1>5, <2>1, <2>2, <2>3
<1> QED BY <1>6, <1>7

(* The cricket position that the first k darts of the record define.       *)
Capped(x) == IF x < 3 THEN x ELSE 3

Defined(states, k) ==
    \A s \in Team : /\ \A g \in Targets : states[s].marks[g] = Capped(MarksThrown(s, g, k))
                    /\ states[s].points = PointsPaid(s, k)

(* What a dart at a target does, by the engine.                            *)
TargetHit(dart, states, team, t, variant, surplus, paid) ==
    /\ dart.target = t.segment /\ dart.marks = t.multiplier - surplus
    /\ dart.surplus = surplus
    /\ \A s : (\E a \in dart.awards : a.recipient = s) <=> s \in paid
    /\ paid = IF surplus = 0 THEN {} ELSE Recipients(states, team, t.segment, variant)
    /\ surplus = IF t.multiplier <= MarksToClose - states[team].marks[t.segment] THEN 0
                 ELSE t.multiplier - (MarksToClose - states[team].marks[t.segment])

(* Every dart at a target does that.                                       *)
LEMMA TargetIsHit ==
    ASSUME NEW states, NEW team, NEW t, t.segment \in Targets, NEW variant,
           NEW dart, dart = CricketApplyDart(states, team, t, variant)
    PROVE  \E surplus, paid : TargetHit(dart, states, team, t, variant, surplus, paid)
<1>1. PICK room : room = MarksToClose - states[team].marks[t.segment]
  OBVIOUS
<1>2. PICK surplus : surplus = IF t.multiplier <= room THEN 0 ELSE t.multiplier - room
  OBVIOUS
<1>3. PICK marks : marks = t.multiplier - surplus
  OBVIOUS
<1>4. PICK paid : paid = IF surplus = 0 THEN {} ELSE Recipients(states, team, t.segment, variant)
  OBVIOUS
<1>5. PICK after, g : after = Paid(states, team, t.segment, marks, surplus, paid) /\ g = t.segment
  OBVIOUS
<1>6. dart = TargetOutcome(after, team, g, marks, surplus, paid, variant)
  BY <1>1, <1>2, <1>3, <1>4, <1>5 DEF CricketApplyDart
<1>7. /\ dart.target = g /\ dart.marks = marks /\ dart.surplus = surplus
      /\ dart.awards = {[recipient |-> r, points |-> g * surplus] : r \in paid}
  BY <1>6 DEF TargetOutcome
<1>8. \A s : (\E a \in dart.awards : a.recipient = s) <=> s \in paid
  <2>1. \A r \in paid : [recipient |-> r, points |-> g * surplus] \in dart.awards
    BY <1>7
  <2>2. \A r \in paid : [recipient |-> r, points |-> g * surplus].recipient = r
    OBVIOUS
  <2>3. \A a \in dart.awards : \E r \in paid : a = [recipient |-> r, points |-> g * surplus]
    BY <1>7
  <2>4. \A a \in dart.awards : a.recipient \in paid
    BY <2>2, <2>3
  <2> QED BY <2>1, <2>2, <2>4
<1>9. TargetHit(dart, states, team, t, variant, surplus, paid)
  BY <1>1, <1>2, <1>3, <1>4, <1>5, <1>7, <1>8 DEF TargetHit
<1> QED BY <1>9

(* The engine pays the teams that the definition names: nobody has put     *)
(* marks on the target since but the thrower.                              *)
LEMMA TheSameArePaid ==
    ASSUME LegTyped, rules.game = "cricket", NEW n \in Nat, n = Len(darts), NEW k \in 0..n - 1,
           NEW m, m = k + 1, NEW states, CricketOK(states, NTeams), Defined(states, k),
           NEW team, team = DartThrower(m), NEW g \in Targets, g = darts[m].segment
    PROVE  PaidBy(m) = Recipients(states, team, g, rules.variant)
<1>1. m \in 1..n /\ m - 1 = k /\ k \in 0..n
  OBVIOUS
<1>2. rules.variant \in Variant
  BY LegPlayAssumption DEF LegTyped
<1>3. PICK open : open = {o \in Team \ {team} : MarksThrown(o, g, m) < MarksToClose}
  OBVIOUS
<1>4. Opponents(states, team) = Team \ {team}
  BY LegPlayAssumption DEF CricketOK, Opponents
<1>5. ASSUME NEW o \in Team \ {team}
      PROVE  HasClosed(states[o], g) <=> o \notin open
  <2>1. Hit(o, g, m) = 0
    BY DEF Hit
  <2>2. PICK x \in Nat : x = MarksThrown(o, g, k)
    BY <1>1, MarksThrownGrow
  <2>3. MarksThrown(o, g, m) = x + 0
    <3>1. MarksThrown(o, g, k + 1) = MarksThrown(o, g, k) + Hit(o, g, k + 1)
      BY MarksThrownGrow
    <3> QED BY <2>1, <2>2, <3>1
  <2>4. states[o].marks[g] = Capped(x)
    BY <2>2 DEF Defined
  <2> QED BY <1>3, <2>2, <2>3, <2>4 DEF Capped, HasClosed, MarksToClose
<1>6. open = {o \in Opponents(states, team) : ~HasClosed(states[o], g)}
  BY <1>3, <1>4, <1>5
<1>7. IsDead(states, team, g) <=> open = {}
  BY <1>4, <1>5, <1>3 DEF IsDead
<1>8. PaidBy(m) = CASE rules.variant = "quick"     -> {}
                    [] rules.variant = "cutthroat" -> open
                    [] rules.variant = "standard"  -> IF open = {} THEN {} ELSE {team}
  BY <1>3 DEF PaidBy
<1>9. CASE rules.variant = "quick"
  BY <1>8, <1>9 DEF Recipients
<1>10. CASE rules.variant = "cutthroat"
  BY <1>6, <1>8, <1>10 DEF Recipients
<1>11. CASE rules.variant = "standard"
  BY <1>7, <1>8, <1>11 DEF Recipients
<1> QED BY <1>2, <1>9, <1>10, <1>11 DEF Variant

(* One dart takes the position that the first k define to the one that the *)
(* first k + 1 do.                                                         *)
LEMMA DartMoves ==
    ASSUME LegTyped, rules.game = "cricket", NEW n \in Nat, n = Len(darts), NEW k \in 0..n - 1,
           NEW m, m = k + 1, NEW states, CricketOK(states, NTeams), Defined(states, k),
           NEW team \in Team, team = DartThrower(m),
           NEW dart, dart = CricketApplyDart(states, team, darts[m], rules.variant)
    PROVE  CricketOK(dart.states, NTeams) /\ Defined(dart.states, m)
<1>1. m \in 1..n /\ m - 1 = k /\ k \in 0..n /\ m \in 0..n
  OBVIOUS
<1>2. NTeams \in Nat \ {0} /\ Team = 0..NTeams - 1
  BY LegPlayAssumption
<1>3. PICK t : t = darts[m] /\ IsLegalThrow(t)
  BY <1>1, ElementOfSeq, LegPlayAssumption DEF LegTyped
<1>4. CricketDartTally(dart, states, team, NTeams)
  BY <1>2, <1>3, CricketDartTallies
<1>5. \A s \in Team : /\ dart.states[s].points = states[s].points + Gain(dart, s)
                      /\ \A h \in Targets : dart.states[s].marks[h]
                           = states[s].marks[h] + (IF s = team THEN Marked(dart, h) ELSE 0)
  BY <1>2, <1>4 DEF CricketDartTally
<1>6. \A s \in Team : \A h \in Targets : /\ MarksThrown(s, h, k) \in Nat
                                         /\ Hit(s, h, m) \in 0..3
                                         /\ MarksThrown(s, h, m) = MarksThrown(s, h, k) + Hit(s, h, m)
  BY <1>1, MarksThrownGrow
<1>7. \A s \in Team : PointsPaid(s, k) \in Int /\ PointsPaid(s, m) = PointsPaid(s, k) + Earned(s, m)
  BY <1>1, PointsPaidGrow
<1>8. CASE t.segment \notin Targets
  <2>1. dart = [states |-> states, target |-> NoTarget, marks |-> 0, surplus |-> 0,
                awards |-> {}, wasted |-> FALSE, win |-> FALSE]
    BY <1>3, <1>8 DEF CricketApplyDart
  <2>2. dart.states = states
    BY <2>1
  <2>3. \A s \in Team : Earned(s, m) = 0 /\ \A h \in Targets : Hit(s, h, m) = 0
    BY <1>3, <1>8 DEF Earned, Hit
  <2>4. \A s \in Team : /\ PointsPaid(s, m) = PointsPaid(s, k)
                        /\ \A h \in Targets : MarksThrown(s, h, m) = MarksThrown(s, h, k)
    BY <1>6, <1>7, <2>3
  <2>5. Defined(states, m)
    BY <2>4 DEF Defined
  <2> QED BY <2>2, <2>5
<1>9. CASE t.segment \in Targets
  <2>1. PICK surplus, paid : TargetHit(dart, states, team, t, rules.variant, surplus, paid)
    BY <1>3, <1>9, TargetIsHit
  <2>2. PICK g \in Targets, x \in 0..3 : g = t.segment /\ x = t.multiplier
    BY <1>3, <1>9 DEF IsLegalThrow
  <2>3. PICK have \in Nat : have = MarksThrown(team, g, k)
    BY <1>6, <2>2
  <2>4. states[team].marks[g] = Capped(have)
    BY <2>2, <2>3 DEF Defined
  <2>5. surplus = (IF x <= 3 - Capped(have) THEN 0 ELSE x - (3 - Capped(have)))
        /\ dart.marks = x - surplus /\ dart.target = g /\ dart.surplus = surplus
    BY <2>1, <2>2, <2>4 DEF TargetHit, MarksToClose
  <2>6. SurplusOf(m) = (IF have >= 3 THEN x ELSE IF have + x < 3 THEN 0 ELSE have + x - 3)
        /\ g \in Nat
    <3>1. have = MarksThrown(DartThrower(m), darts[m].segment, k)
      BY <1>3, <2>2, <2>3
    <3> QED BY <1>1, <1>3, <2>2, <3>1, SurplusIs
  <2>7. surplus \in Nat /\ SurplusOf(m) = surplus /\ Capped(have) + (x - surplus) = Capped(have + x)
    <3>1. CASE have >= 3
      <4>1. Capped(have) = 3 /\ Capped(have + x) = 3
        BY <3>1 DEF Capped
      <4>2. surplus = x
        BY <2>5, <4>1
      <4> QED BY <2>6, <3>1, <4>1, <4>2
    <3>2. CASE have < 3
      <4>1. Capped(have) = have
        BY <3>2 DEF Capped
      <4>2. CASE have + x < 3
        <5>1. surplus = 0 /\ Capped(have + x) = have + x
          BY <2>5, <4>1, <4>2 DEF Capped
        <5> QED BY <2>6, <3>2, <4>1, <4>2, <5>1
      <4>3. CASE ~(have + x < 3)
        <5>1. surplus = have + x - 3 /\ Capped(have + x) = 3
          BY <2>5, <3>2, <4>1, <4>3 DEF Capped
        <5> QED BY <2>6, <3>2, <4>1, <4>3, <5>1
      <4> QED BY <4>2, <4>3
    <3> QED BY <3>1, <3>2
  <2>8. ASSUME NEW s \in Team, NEW h \in Targets
        PROVE  dart.states[s].marks[h] = Capped(MarksThrown(s, h, m))
    <3>1. PICK y \in Nat : y = MarksThrown(s, h, k) /\ states[s].marks[h] = Capped(y)
      BY <1>6 DEF Defined
    <3>2. Capped(y) \in 0..3 /\ y + 0 = y /\ Capped(y) + 0 = Capped(y)
      BY DEF Capped
    <3>3. CASE s = team /\ h = g
      <4>1. Hit(s, h, m) = x
        BY <1>3, <2>2, <3>3 DEF Hit
      <4>2. Marked(dart, h) = x - surplus
        BY <2>5, <3>3 DEF Marked
      <4>3. y = have
        BY <2>3, <3>1, <3>3
      <4>4. dart.states[s].marks[h] = Capped(have) + (x - surplus)
        BY <1>5, <3>1, <3>3, <4>2, <4>3
      <4>5. MarksThrown(s, h, m) = have + x
        BY <1>6, <3>1, <4>1, <4>3
      <4> QED BY <2>7, <4>4, <4>5
    <3>4. CASE ~(s = team /\ h = g)
      <4>1. Hit(s, h, m) = 0
        BY <1>3, <2>2, <3>4 DEF Hit
      <4>2. (IF s = team THEN Marked(dart, h) ELSE 0) = 0
        BY <2>5, <3>4 DEF Marked
      <4>3. dart.states[s].marks[h] = Capped(y)
        BY <1>5, <3>1, <3>2, <4>2
      <4>4. MarksThrown(s, h, m) = y
        BY <1>6, <3>1, <3>2, <4>1
      <4> QED BY <4>3, <4>4
    <3> QED BY <3>3, <3>4
  <2>9. ASSUME NEW s \in Team
        PROVE  dart.states[s].points = PointsPaid(s, m)
    <3>1. Gain(dart, s) = IF s \in paid THEN g * surplus ELSE 0
      <4>1. (\E a \in dart.awards : a.recipient = s) <=> s \in paid
        BY <2>1 DEF TargetHit
      <4> QED BY <2>5, <4>1 DEF Gain
    <3>2. Earned(s, m) = IF s \in PaidBy(m) THEN g * surplus ELSE 0
      BY <1>3, <2>2, <2>7 DEF Earned
    <3>3. Gain(dart, s) = Earned(s, m)
      <4>1. CASE surplus = 0
        <5>1. paid = {} /\ g * surplus = 0
          BY <2>1, <2>6, <4>1 DEF TargetHit
        <5> QED BY <3>1, <3>2, <5>1
      <4>2. CASE surplus # 0
        <5>1. PaidBy(m) = Recipients(states, team, g, rules.variant)
          BY <1>3, <2>2, TheSameArePaid
        <5>2. paid = PaidBy(m)
          BY <2>1, <2>2, <4>2, <5>1 DEF TargetHit
        <5> QED BY <3>1, <3>2, <5>2
      <4> QED BY <4>1, <4>2
    <3>4. states[s].points = PointsPaid(s, k)
      BY DEF Defined
    <3> QED BY <1>5, <1>7, <3>3, <3>4
  <2> QED BY <2>8, <2>9, <1>4 DEF Defined, CricketDartTally
<1>10. CricketOK(dart.states, NTeams)
  BY <1>4 DEF CricketDartTally
<1> QED BY <1>8, <1>9, <1>10

(* A visit takes it as far as the darts that it took.                      *)
LEMMA VisitMoves ==
    ASSUME LegTyped, rules.game = "cricket", NEW n \in Nat, n = Len(darts), NEW offset \in 0..n,
           NEW states, CricketOK(states, NTeams), Defined(states, offset),
           NEW len \in Nat, offset + len <= n, NEW throws, Len(throws) = len,
           \A i \in 1..len : throws[i] = darts[offset + i],
           NEW team \in Team, \A i \in 1..len : DartThrower(offset + i) = team,
           NEW visit, visit = CricketApplyVisit(states, team, throws, rules.variant)
    PROVE  Defined(visit.states, offset + Len(visit.darts))
<1>1. PICK run : CricketRun(run, states, team, throws, rules.variant)
  BY CricketVisitRuns
<1>2. \A i \in 0..len : CricketTaken(run, i)
  BY <1>1, CricketTakes
<1> DEFINE T == {i \in 0..len : CricketOK(run[i].states, NTeams)
                                /\ Defined(run[i].states, offset + Len(run[i].darts))}
<1>3. 0 \in T
  <2>1. run[0].states = states /\ run[0].darts = <<>>
    BY <1>1 DEF CricketRun, CricketStart
  <2>2. Len(run[0].darts) = 0
    BY <2>1, EmptyIsSeq
  <2>3. offset + 0 = offset
    OBVIOUS
  <2> QED BY <2>1, <2>2, <2>3
<1>4. ASSUME NEW i \in 0..len - 1, i \in T
      PROVE  i + 1 \in T
  <2>1. PICK j : j = i + 1 /\ j \in 0..len /\ j \in 1..len /\ j - 1 = i /\ i \in 0..len
    OBVIOUS
  <2>2. run[j] = CricketStep(run[i], team, throws[j], rules.variant)
    BY <1>1, <2>1 DEF CricketRun
  <2>3. CASE run[i].won
    <3>1. run[j] = run[i]
      BY <2>2, <2>3 DEF CricketStep
    <3>2. CricketOK(run[j].states, NTeams) /\ Defined(run[j].states, offset + Len(run[j].darts))
      BY <1>4, <3>1
    <3> QED BY <2>1, <3>2
  <2>4. CASE ~run[i].won
    <3>1. PICK mid, dart, k, m : /\ mid = run[i].states
                                 /\ dart = CricketApplyDart(mid, team, throws[j], rules.variant)
                                 /\ k = offset + i /\ m = offset + j
      OBVIOUS
    <3>2. k \in 0..n - 1 /\ m = k + 1
      BY <2>1, <3>1
    <3>3. IsSeq(run[i].darts) /\ Len(run[i].darts) = i
      BY <1>2, <2>1, <2>4 DEF CricketTaken, HasLength
    <3>4. CricketOK(mid, NTeams) /\ Defined(mid, k)
      BY <1>4, <3>1, <3>3
    <3>5. throws[j] = darts[m] /\ team = DartThrower(m)
      BY <2>1, <3>1
    <3>6. dart = CricketApplyDart(mid, team, darts[m], rules.variant)
      BY <3>1, <3>5
    <3>7. CricketOK(dart.states, NTeams) /\ Defined(dart.states, m)
      BY <3>2, <3>4, <3>5, <3>6, DartMoves
    <3>8. run[j].darts = Append(run[i].darts, dart) /\ run[j].states = dart.states
      BY <2>2, <2>4, <3>1 DEF CricketStep, AddCricketDart
    <3>9. Grown(run[j].darts, run[i].darts, dart)
      BY <3>3, <3>8, SeqGrows
    <3>10. offset + Len(run[j].darts) = m
      BY <2>1, <3>1, <3>3, <3>9 DEF Grown
    <3> QED BY <2>1, <3>7, <3>8, <3>10
  <2> QED BY <2>3, <2>4
<1> HIDE DEF T
<1>5. 0..len \subseteq T
  BY <1>3, <1>4, UpTo
<1>6. len \in T
  BY <1>5
<1> QED BY <1>1, <1>6 DEF T, CricketRun

(* A stage of the replay has the position that the darts it used define,   *)
(* and has used three for each visit if it goes on.                        *)
DefinedLeg(leg) ==
    /\ Defined(leg.teams, leg.offset)
    /\ Going(leg) => leg.offset = 3 * Len(leg.visits)

(* A visit played leaves such a position again.                            *)
LEMMA VisitKeepsDefined ==
    ASSUME LegTyped, rules.game = "cricket",
           NEW leg, LegOK(leg, Len(darts)), ~leg.refused, leg.offset # Len(darts),
           RotaInv(leg, starter, Members, NTeams), CricketInv(leg, NTeams), DefinedLeg(leg),
           NEW next, NEW throws \in Seq(Throw[rules.game]), NEW outcome, NEW visit,
           Played(next, rules, Members, darts, leg, throws, outcome, visit)
    PROVE  DefinedLeg(next)
<1>1. PICK n \in Nat : n = Len(darts)
  BY LenProperties DEF LegTyped
<1>2. Going(leg)
  BY DEF LegOK
<1>3. PICK v \in Nat : v = Len(leg.visits) /\ Len(next.visits) = v + 1 /\ next.visits[v + 1] = visit
  BY DEF Played, Gained, Grown
<1>4. PICK offset \in 0..n : offset = leg.offset /\ offset = 3 * v
  BY <1>1, <1>2, <1>3 DEF LegOK, DefinedLeg
<1>5. PICK len \in 1..3 : /\ len = Len(throws) /\ offset + len <= n
                          /\ \A i \in 1..len : throws[i] = darts[offset + i]
  <2>1. NextOf(throws, darts, leg.offset)
    BY DEF Played
  <2>2. /\ Len(throws) \in 1..3 /\ Len(throws) <= n - offset
        /\ \A i \in 1..Len(throws) : throws[i] = darts[offset + i]
    BY <1>1, <1>4, <2>1 DEF NextOf, DartsPerVisit
  <2> QED BY <2>2
<1>6. PICK q, r : Rota(leg, starter, NTeams, q, r)
  BY <1>2 DEF RotaInv
<1>7. PICK a \in Team : a = leg.active /\ a = (starter + v) % NTeams
  <2>1. VisitMade(visit, Members, leg, outcome)
    BY DEF Played, Gained
  <2>2. InTurn(visit, v + 1, starter, Members, NTeams)
    BY <1>3, <1>6, <2>1, TeamsAreSeated, VisitInTurn DEF LegTyped
  <2>3. starter + (v + 1) - 1 = starter + v
    BY TeamsAreSeated DEF LegTyped
  <2>4. leg.active = (starter + v) % NTeams /\ leg.active \in Team
    BY <1>6, <2>1, <2>2, <2>3, TeamsAreSeated DEF VisitMade, InTurn, Rota
  <2> QED BY <2>4
<1>8. \A i \in 1..len : DartThrower(offset + i) = a
  <2> SUFFICES ASSUME NEW i \in 1..len
               PROVE  DartThrower(offset + i) = a
    OBVIOUS
  <2>1. PICK c : c = offset + i - 1
    OBVIOUS
  <2>2. c = v * 3 + (i - 1) /\ i - 1 \in 0..3 - 1
    BY <1>4, <2>1
  <2>3. c \div 3 = v
    BY <2>2, DivMod
  <2> QED BY <1>7, <2>1, <2>3 DEF DartThrower, DartsPerVisit
<1>9. PICK states, end : /\ states = leg.teams
                         /\ end = CricketApplyVisit(states, a, throws, rules.variant)
  OBVIOUS
<1>10. outcome = CricketOutcome(states, a, end)
  BY <1>7, <1>9 DEF Played, VisitOutcome
<1>11. outcome.teams = end.states /\ outcome.darts = end.darts /\ outcome.bust = FALSE
  BY <1>10 DEF CricketOutcome
<1>12. CricketOK(states, NTeams) /\ Defined(states, offset)
  BY <1>4, <1>9 DEF CricketInv, DefinedLeg
<1>13. Defined(end.states, offset + Len(end.darts))
  <2>1. len \in Nat
    OBVIOUS
  <2> QED BY <1>1, <1>5, <1>8, <1>9, <1>12, <2>1, VisitMoves
<1>14. next.teams = end.states /\ next.offset = offset + Len(end.darts)
  BY <1>4, <1>11 DEF Played, Gained
<1>15. ASSUME Going(next)
       PROVE  next.offset = 3 * Len(next.visits)
  <2>1. visit.complete /\ next.winner = NoTeam
    BY <1>3, <1>15 DEF Going, Complete
  <2>2. IsComplete(outcome) /\ next.winner = IF outcome.won THEN leg.active ELSE NoTeam
    BY <2>1 DEF Played, Gained, VisitMade
  <2>3. a # NoTeam
    BY <1>7, TeamsAreSeated DEF NoTeam
  <2>4. Len(outcome.darts) = 3
    BY <1>7, <1>11, <2>1, <2>2, <2>3 DEF IsComplete, DartsPerVisit
  <2>5. next.offset = 3 * v + 3
    BY <1>4, <1>11, <1>14, <2>4
  <2> QED BY <1>3, <2>5
<1> QED BY <1>13, <1>14, <1>15 DEF DefinedLeg

(* So every stage of the replay of the record.                             *)
LEMMA StagesAreDefined ==
    ASSUME LegTyped, rules.game = "cricket", NEW leg,
           Stages(leg, rules, Members, starter, darts)
    PROVE  \A i \in 0..Len(darts) : DefinedLeg(leg[i])
<1> DEFINE S == Throw[rules.game]
<1>1. PICK n \in Nat : n = Len(darts)
  BY LenProperties DEF LegTyped
<1>2. /\ darts \in Seq(S) /\ starter \in 0..NTeams - 1 /\ Legal(S) /\ rules.game # "x01"
      /\ Seats(Members, NTeams) /\ Team = 0..NTeams - 1
  BY TeamsAreSeated, LegPlayAssumption DEF LegTyped, Legal
<1> HIDE DEF S
<1>3. \A i \in 0..n : /\ LegOK(leg[i], Len(darts)) /\ RotaInv(leg[i], starter, Members, NTeams)
                      /\ CricketInv(leg[i], NTeams)
  <2>1. \A i \in 0..Len(darts) : LegOK(leg[i], Len(darts))
    BY <1>2, StagesAreOK
  <2>2. \A i \in 0..Len(darts) : RotaInv(leg[i], starter, Members, NTeams)
    BY <1>2, StagesGoRound
  <2>3. \A i \in 0..Len(darts) : CricketInv(leg[i], NTeams)
    BY <1>2, StagesKeepMarks
  <2> QED BY <1>1, <2>1, <2>2, <2>3
<1> DEFINE T == {i \in 0..n : DefinedLeg(leg[i])}
<1>4. 0 \in T
  <2>1. PICK open : open = leg[0] /\ open = Opening(rules, Members, starter)
    BY DEF Stages
  <2>2. /\ open.visits = <<>> /\ open.offset = 0
        /\ open.teams = [s \in 0..NTeams - 1 |-> CricketInitial]
    BY <1>2, <2>1 DEF Opening, InitialStates, Seats
  <2>3. \A s \in Team : open.teams[s].points = 0 /\ \A g \in Targets : open.teams[s].marks[g] = 0
    BY <1>2, <2>2 DEF CricketInitial
  <2>4. \A s \in Team : PointsPaid(s, 0) = 0 /\ \A g \in Targets : MarksThrown(s, g, 0) = 0
    BY <1>1, PointsPaidGrow, MarksThrownGrow
  <2>5. Defined(open.teams, 0)
    BY <2>3, <2>4 DEF Defined, Capped
  <2>6. Len(open.visits) = 0
    BY <2>2, EmptyIsSeq
  <2>7. DefinedLeg(open)
    BY <2>2, <2>5, <2>6 DEF DefinedLeg
  <2>8. 0 \in 0..n /\ DefinedLeg(leg[0])
    BY <2>1, <2>7
  <2> QED BY <2>8
<1>5. ASSUME NEW i \in 0..n - 1, i \in T
      PROVE  i + 1 \in T
  <2>1. PICK m : m = i + 1 /\ m \in 0..n /\ m \in 1..n /\ m - 1 = i /\ i \in 0..n
    OBVIOUS
  <2>2. leg[m] = LegStep(rules, Members, darts, leg[i])
    BY <1>1, <2>1 DEF Stages
  <2>3. CASE UsedUp(leg[i], n)
    <3>1. leg[m] = leg[i]
      BY <1>1, <2>2, <2>3 DEF LegStep, UsedUp
    <3> QED BY <1>5, <2>1, <3>1
  <2>4. CASE ~UsedUp(leg[i], n)
    <3>1. PICK before, next : before = leg[i] /\ next = leg[m]
      OBVIOUS
    <3>2. /\ LegOK(before, Len(darts)) /\ RotaInv(before, starter, Members, NTeams)
          /\ CricketInv(before, NTeams) /\ DefinedLeg(before)
      BY <1>3, <1>5, <2>1, <3>1
    <3>3. /\ ~before.refused /\ before.offset # Len(darts)
          /\ next = PlayVisit(rules, Members, darts, before)
      BY <1>1, <2>2, <2>4, <3>1, <3>2 DEF LegStep, UsedUp, LegOK
    <3>4. CASE Refusal(next, before)
      <4>1. next.offset = before.offset /\ next.teams = before.teams /\ ~Going(next)
        BY <3>4 DEF Refusal, Going
      <4>2. DefinedLeg(next)
        BY <3>2, <4>1 DEF DefinedLeg
      <4> QED BY <2>1, <3>1, <4>2
    <3>5. ASSUME NEW throws \in Seq(S), NEW outcome, NEW visit,
                 Played(next, rules, Members, darts, before, throws, outcome, visit)
          PROVE  i + 1 \in T
      <4>1. DefinedLeg(next)
        BY <3>2, <3>3, <3>5, VisitKeepsDefined DEF S
      <4> QED BY <2>1, <3>1, <4>1
    <3> QED BY <1>2, <3>2, <3>3, <3>4, <3>5, PlayVisitIs
  <2> QED BY <2>3, <2>4
<1> HIDE DEF T
<1>6. 0..n \subseteq T
  BY <1>1, <1>4, <1>5, UpTo
<1> QED BY <1>1, <1>6 DEF T

(* The marks of a team are what it has thrown at each target, up to three, *)
(* and its points what the surplus of anybody's darts paid it, for every    *)
(* variant and number of teams, after any throws and undos.                 *)
THEOREM MarksAddUp == Spec => []CricketByDefinition
<1>1. LegTyped /\ Accepted => CricketByDefinition
  <2> SUFFICES ASSUME LegTyped, Accepted, rules.game = "cricket", NEW team \in Team
               PROVE  /\ \A g \in Targets : Leg.teams[team].marks[g]
                             = Min({MarksToClose, MarksThrown(team, g, Len(darts))})
                      /\ Leg.teams[team].points = PointsPaid(team, Len(darts))
    BY DEF CricketByDefinition, PointsPaid
  <2>1. PICK n \in Nat : n = Len(darts)
    BY LenProperties DEF LegTyped
  <2>2. PICK leg : Stages(leg, rules, Members, starter, darts)
    BY <2>1, LegHasStages
  <2>3. Leg = leg[n] /\ UsedUp(leg[n], n) /\ DefinedLeg(leg[n])
    <3>1. Leg = leg[n]
      BY <2>1, <2>2 DEF Leg, Stages
    <3>2. UsedUp(leg[n], n)
      BY <2>1, <2>2, StagesAreOK DEF LegTyped
    <3>3. n \in 0..n
      OBVIOUS
    <3> QED BY <2>1, <2>2, <3>1, <3>2, <3>3, StagesAreDefined
  <2>4. Defined(Leg.teams, n)
    BY <2>3 DEF UsedUp, DefinedLeg, Accepted
  <2>5. ASSUME NEW g \in Targets
        PROVE  Leg.teams[team].marks[g] = Min({MarksToClose, MarksThrown(team, g, n)})
    <3>1. PICK x \in Nat : x = MarksThrown(team, g, n)
      <4>1. n \in 0..n
        OBVIOUS
      <4>2. MarksThrown(team, g, n) \in Nat
        BY <2>1, <4>1, MarksThrownGrow
      <4> QED BY <4>2
    <3>2. Min({MarksToClose, x}) = Capped(x)
      <4>1. x \in Int
        OBVIOUS
      <4>2. Min({MarksToClose, x}) = IF x < 3 THEN x ELSE 3
        BY <4>1, MinMaxAre, Zenon
      <4> QED BY <4>2, Zenon DEF Capped
    <3> QED BY <2>4, <3>1, <3>2 DEF Defined
  <2>6. Leg.teams[team].points = PointsPaid(team, n)
    BY <2>4 DEF Defined
  <2> QED BY <2>1, <2>5, <2>6
<1> QED BY <1>1, LegIsTyped, RecordsAreAccepted, PTL

(* No team's position has won.                                             *)
Unbeaten(states, variant) == \A s \in Team : ~HasWon(states, s, variant)

(* The legs in which no dart of another team can make it so: in cutthroat  *)
(* a third team can, by paying the one that is ahead.                      *)
OnlyOwnDartsWin == rules.variant # "cutthroat" \/ NTeams <= 2

(* What a dart at a target leaves of the position: only the thrower's      *)
(* marks move, and only the teams paid gain points.                        *)
TargetLeaves(after, states, team, amount, paid) ==
    \A s \in Team : /\ s # team => after[s].marks = states[s].marks
                    /\ after[s].points = states[s].points + (IF s \in paid THEN amount ELSE 0)

LEMMA TargetIsLeft ==
    ASSUME LegTyped, NEW states, CricketOK(states, NTeams), NEW team \in Team,
           NEW t, IsLegalThrow(t), t.segment \in Targets, NEW variant,
           NEW dart, dart = CricketApplyDart(states, team, t, variant)
    PROVE  \E amount, paid :
               /\ amount \in Nat
               /\ TargetLeaves(dart.states, states, team, amount, paid)
               /\ paid \subseteq Recipients(states, team, t.segment, variant)
               /\ dart.win = HasWon(dart.states, team, variant)
<1>1. PICK g \in Targets, x \in 0..3 : g = t.segment /\ x = t.multiplier
  BY DEF IsLegalThrow
<1>2. NTeams \in Nat \ {0} /\ Team = 0..NTeams - 1
  BY LegPlayAssumption
<1>3. PICK have \in 0..MarksToClose : have = states[team].marks[g]
  BY <1>2 DEF CricketOK
<1>4. PICK room, surplus, marks, paid :
          /\ room = MarksToClose - have /\ surplus = IF x <= room THEN 0 ELSE x - room
          /\ marks = x - surplus
          /\ paid = IF surplus = 0 THEN {} ELSE Recipients(states, team, g, variant)
  OBVIOUS
<1>5. marks \in 0..3 /\ surplus \in Nat
  BY <1>3, <1>4, MarksAndSurplus
<1>6. PICK after : after = Paid(states, team, g, marks, surplus, paid)
  OBVIOUS
<1>7. dart = TargetOutcome(after, team, g, marks, surplus, paid, variant)
  BY <1>1, <1>3, <1>4, <1>6 DEF CricketApplyDart
<1>8. dart.states = after /\ dart.win = HasWon(after, team, variant)
  BY <1>7 DEF TargetOutcome
<1>9. PICK amount \in Nat : amount = g * surplus
  BY <1>5, TargetsAreNumbers
<1>10. DOMAIN states = Team
  BY <1>2 DEF CricketOK
<1>11. TargetLeaves(after, states, team, amount, paid)
  <2> SUFFICES ASSUME NEW s \in Team
               PROVE  /\ s # team => after[s].marks = states[s].marks
                      /\ after[s].points = states[s].points + (IF s \in paid THEN amount ELSE 0)
    BY DEF TargetLeaves
  <2>1. PICK x1, y, z : /\ x1 = after[s]
                        /\ y = IF s = team THEN [states[s].marks EXCEPT ![g] = @ + marks]
                                           ELSE states[s].marks
                        /\ z = states[s].points + (IF s \in paid THEN amount ELSE 0)
    OBVIOUS
  <2>2. x1 = [marks |-> y, points |-> z]
    BY <1>6, <1>9, <1>10, <2>1 DEF Paid
  <2>3. x1.marks = y /\ x1.points = z
    BY <2>2
  <2> QED BY <2>1, <2>3
<1>12. paid \subseteq Recipients(states, team, g, variant)
  BY <1>4
<1> QED BY <1>1, <1>8, <1>9, <1>11, <1>12

(* Of a dart, only its thrower can come to have won.                       *)
LEMMA DartKeepsUnbeaten ==
    ASSUME LegTyped, rules.game = "cricket", OnlyOwnDartsWin,
           NEW states, CricketOK(states, NTeams), Unbeaten(states, rules.variant),
           NEW team \in Team, NEW t, IsLegalThrow(t),
           NEW dart, dart = CricketApplyDart(states, team, t, rules.variant), ~dart.win
    PROVE  CricketOK(dart.states, NTeams) /\ Unbeaten(dart.states, rules.variant)
<1>1. NTeams \in Nat \ {0} /\ Team = 0..NTeams - 1 /\ rules.variant \in Variant
  BY LegPlayAssumption DEF LegTyped
<1>2. PICK after, variant : after = dart.states /\ variant = rules.variant
  OBVIOUS
<1>3. CricketOK(after, NTeams)
  BY <1>1, <1>2, CricketDartTallies DEF CricketDartTally
<1>4. CASE t.segment \notin Targets
  <2>1. dart = [states |-> states, target |-> NoTarget, marks |-> 0, surplus |-> 0,
                awards |-> {}, wasted |-> FALSE, win |-> FALSE]
    BY <1>4 DEF CricketApplyDart
  <2>2. dart.states = states
    BY <2>1
  <2> QED BY <1>2, <1>3, <2>2
<1>5. CASE t.segment \in Targets
  <2>1. PICK amount, paid :
            /\ amount \in Nat
            /\ TargetLeaves(after, states, team, amount, paid)
            /\ paid \subseteq Recipients(states, team, t.segment, variant)
            /\ dart.win = HasWon(after, team, variant)
    BY <1>2, <1>5, TargetIsLeft
  <2>2. /\ DOMAIN states = Team /\ DOMAIN after = Team
        /\ \A s \in Team : states[s].points \in Nat /\ after[s].points \in Nat
    BY <1>1, <1>3 DEF CricketOK
  <2>3. ASSUME NEW s \in Team, HasWon(after, s, variant)
        PROVE  FALSE
    <3>1. s # team
      BY <2>1, <2>3
    <3>2. after[s].marks = states[s].marks
      BY <2>1, <3>1 DEF TargetLeaves
    <3>3. HasClosedAll(states[s])
      BY <2>3, <3>2 DEF HasWon, HasClosedAll, HasClosed
    <3>4. s \notin paid
      <4>1. CASE variant = "quick"
        BY <2>1, <4>1 DEF Recipients
      <4>2. CASE variant = "standard"
        BY <2>1, <3>1, <4>2 DEF Recipients
      <4>3. CASE variant = "cutthroat"
        BY <2>1, <3>3, <1>5, <4>3 DEF Recipients, HasClosedAll
      <4> QED BY <1>1, <1>2, <4>1, <4>2, <4>3 DEF Variant
    <3>5. after[s].points = states[s].points
      BY <2>1, <2>2, <3>4 DEF TargetLeaves
    <3>6. \A o \in Team : after[o].points >= states[o].points
      BY <2>1, <2>2 DEF TargetLeaves
    <3>7. CASE variant = "quick"
      BY <1>2, <3>3, <3>7 DEF HasWon, Unbeaten
    <3>8. CASE variant = "standard"
      <4>1. \A o \in Team \ {s} : after[s].points >= after[o].points
        BY <2>2, <2>3, <3>8 DEF HasWon, Opponents
      <4>2. \A o \in Team \ {s} : states[s].points >= states[o].points
        BY <2>2, <3>5, <3>6, <4>1
      <4>3. HasWon(states, s, variant)
        BY <2>2, <3>3, <3>8, <4>2 DEF HasWon, Opponents
      <4> QED BY <1>2, <4>3 DEF Unbeaten
    <3>9. CASE variant = "cutthroat"
      <4>1. ASSUME NEW o \in Team \ {s}
            PROVE  states[s].points <= states[o].points
        <5>1. o = team
          BY <1>1, <1>2, <3>1, <3>9 DEF OnlyOwnDartsWin
        <5>2. o \notin paid
          BY <2>1, <3>9, <5>1 DEF Recipients, Opponents
        <5>3. after[o].points = states[o].points
          BY <2>1, <2>2, <5>2 DEF TargetLeaves
        <5>4. after[s].points <= after[o].points
          BY <2>2, <2>3, <3>9 DEF HasWon, Opponents
        <5> QED BY <3>5, <5>3, <5>4
      <4>2. HasWon(states, s, variant)
        BY <2>2, <3>3, <3>9, <4>1 DEF HasWon, Opponents
      <4> QED BY <1>2, <4>2 DEF Unbeaten
    <3> QED BY <1>1, <1>2, <3>7, <3>8, <3>9 DEF Variant
  <2>4. Unbeaten(after, variant)
    BY <2>3 DEF Unbeaten
  <2> QED BY <1>2, <1>3, <2>4
<1> QED BY <1>4, <1>5

(* A visit ends with its thrower's win, or leaves every team unbeaten.     *)
LEMMA VisitKeepsUnbeaten ==
    ASSUME LegTyped, rules.game = "cricket", OnlyOwnDartsWin,
           NEW states, CricketOK(states, NTeams), Unbeaten(states, rules.variant),
           NEW team \in Team, NEW throws, NEW len \in Nat, len = Len(throws),
           \A i \in 1..len : IsLegalThrow(throws[i]),
           NEW visit, visit = CricketApplyVisit(states, team, throws, rules.variant), ~visit.won
    PROVE  Unbeaten(visit.states, rules.variant)
<1>1. PICK run : CricketRun(run, states, team, throws, rules.variant)
  BY CricketVisitRuns
<1> DEFINE T == {i \in 0..len : run[i].won \/ (/\ CricketOK(run[i].states, NTeams)
                                                /\ Unbeaten(run[i].states, rules.variant))}
<1>2. 0 \in T
  <2>1. run[0].states = states
    BY <1>1 DEF CricketRun, CricketStart
  <2> QED BY <2>1
<1>3. ASSUME NEW i \in 0..len - 1, i \in T
      PROVE  i + 1 \in T
  <2>1. PICK j : j = i + 1 /\ j \in 0..len /\ j \in 1..len /\ j - 1 = i
    OBVIOUS
  <2>2. run[j] = CricketStep(run[i], team, throws[j], rules.variant)
    BY <1>1, <2>1 DEF CricketRun
  <2>3. CASE run[i].won
    <3>1. run[j] = run[i]
      BY <2>2, <2>3 DEF CricketStep
    <3> QED BY <2>1, <2>3, <3>1
  <2>4. CASE ~run[i].won
    <3>1. PICK mid, t, dart : /\ mid = run[i].states /\ t = throws[j]
                              /\ dart = CricketApplyDart(mid, team, t, rules.variant)
      OBVIOUS
    <3>2. run[j].won = dart.win /\ run[j].states = dart.states
      BY <2>2, <2>4, <3>1 DEF CricketStep, AddCricketDart
    <3>3. CricketOK(mid, NTeams) /\ Unbeaten(mid, rules.variant) /\ IsLegalThrow(t)
      BY <1>3, <2>1, <2>4, <3>1
    <3>4. ~dart.win => CricketOK(dart.states, NTeams) /\ Unbeaten(dart.states, rules.variant)
      BY <3>1, <3>3, DartKeepsUnbeaten
    <3> QED BY <2>1, <3>2, <3>4
  <2> QED BY <2>3, <2>4
<1> HIDE DEF T
<1>4. 0..len \subseteq T
  BY <1>2, <1>3, UpTo
<1>5. len \in T /\ visit = run[len]
  BY <1>1, <1>4 DEF CricketRun
<1> QED BY <1>5 DEF T

(* A leg nobody has won leaves every team unbeaten.                        *)
UnbeatenLeg(leg) == leg.winner = NoTeam => Unbeaten(leg.teams, rules.variant)

(* So every stage of the replay of the record.                             *)
LEMMA StagesAreUnbeaten ==
    ASSUME LegTyped, rules.game = "cricket", OnlyOwnDartsWin, NEW leg,
           Stages(leg, rules, Members, starter, darts)
    PROVE  \A i \in 0..Len(darts) : UnbeatenLeg(leg[i])
<1> DEFINE S == Throw[rules.game]
<1>1. PICK n \in Nat : n = Len(darts)
  BY LenProperties DEF LegTyped
<1>2. /\ darts \in Seq(S) /\ starter \in 0..NTeams - 1 /\ Legal(S) /\ rules.game # "x01"
      /\ Seats(Members, NTeams) /\ Team = 0..NTeams - 1
  BY TeamsAreSeated, LegPlayAssumption DEF LegTyped, Legal
<1> HIDE DEF S
<1>3. \A i \in 0..n : /\ LegOK(leg[i], Len(darts)) /\ RotaInv(leg[i], starter, Members, NTeams)
                      /\ CricketInv(leg[i], NTeams)
  <2>1. \A i \in 0..Len(darts) : LegOK(leg[i], Len(darts))
    BY <1>2, StagesAreOK
  <2>2. \A i \in 0..Len(darts) : RotaInv(leg[i], starter, Members, NTeams)
    BY <1>2, StagesGoRound
  <2>3. \A i \in 0..Len(darts) : CricketInv(leg[i], NTeams)
    BY <1>2, StagesKeepMarks
  <2> QED BY <1>1, <2>1, <2>2, <2>3
<1> DEFINE T == {i \in 0..n : UnbeatenLeg(leg[i])}
<1>4. 0 \in T
  <2>1. PICK open : open = leg[0] /\ open = Opening(rules, Members, starter)
    BY DEF Stages
  <2>2. open.teams = [s \in Team |-> CricketInitial]
    BY <1>2, <2>1 DEF Opening, InitialStates, Seats
  <2>3. ASSUME NEW s \in Team
        PROVE  ~HasWon(open.teams, s, rules.variant)
    <3>1. PICK g \in Targets : TRUE
      BY LegPlayAssumption DEF LegTyped
    <3>2. CricketInitial.marks[g] = 0
      BY DEF CricketInitial
    <3>3. ~HasClosedAll(open.teams[s])
      BY <2>2, <3>2 DEF HasClosedAll, HasClosed, MarksToClose
    <3> QED BY <3>3 DEF HasWon
  <2>4. UnbeatenLeg(leg[0])
    BY <2>1, <2>3 DEF UnbeatenLeg, Unbeaten
  <2> QED BY <2>4
<1>5. ASSUME NEW i \in 0..n - 1, i \in T
      PROVE  i + 1 \in T
  <2>1. PICK m : m = i + 1 /\ m \in 0..n /\ m \in 1..n /\ m - 1 = i /\ i \in 0..n
    OBVIOUS
  <2>2. leg[m] = LegStep(rules, Members, darts, leg[i])
    BY <1>1, <2>1 DEF Stages
  <2>3. CASE UsedUp(leg[i], n)
    <3>1. leg[m] = leg[i]
      BY <1>1, <2>2, <2>3 DEF LegStep, UsedUp
    <3> QED BY <1>5, <2>1, <3>1
  <2>4. CASE ~UsedUp(leg[i], n)
    <3>1. PICK before, next : before = leg[i] /\ next = leg[m]
      OBVIOUS
    <3>2. /\ LegOK(before, Len(darts)) /\ RotaInv(before, starter, Members, NTeams)
          /\ CricketInv(before, NTeams) /\ UnbeatenLeg(before)
      BY <1>1, <1>3, <1>5, <2>1, <3>1
    <3>3. /\ ~before.refused /\ before.offset # Len(darts)
          /\ next = PlayVisit(rules, Members, darts, before)
      BY <1>1, <2>2, <2>4, <3>1, <3>2 DEF LegStep, UsedUp, LegOK
    <3>4. CASE Refusal(next, before)
      <4>1. UnbeatenLeg(next)
        BY <3>2, <3>4 DEF UnbeatenLeg, Refusal
      <4> QED BY <2>1, <3>1, <4>1
    <3>5. ASSUME NEW throws \in Seq(S), NEW outcome, NEW visit,
                 Played(next, rules, Members, darts, before, throws, outcome, visit),
                 next.winner = NoTeam
          PROVE  Unbeaten(next.teams, rules.variant)
      <4>1. Going(before)
        BY <3>2, <3>3 DEF LegOK
      <4>2. PICK a \in Team : a = before.active
        BY <1>2, <3>2, <4>1 DEF RotaInv, Rota
      <4>3. PICK states, end : /\ states = before.teams
                               /\ end = CricketApplyVisit(states, a, throws, rules.variant)
        OBVIOUS
      <4>4. outcome = CricketOutcome(states, a, end)
        BY <1>2, <3>5, <4>2, <4>3 DEF Played, VisitOutcome
      <4>5. outcome.teams = end.states /\ outcome.won = end.won
        BY <4>4 DEF CricketOutcome
      <4>6. ~end.won
        BY <1>2, <3>5, <4>2, <4>5 DEF Played, Gained, NoTeam
      <4>7. CricketOK(states, NTeams) /\ Unbeaten(states, rules.variant)
        BY <3>2, <4>1, <4>3 DEF CricketInv, UnbeatenLeg, Going
      <4>8. PICK len \in Nat : len = Len(throws)
        BY LenProperties
      <4>9. \A j \in 1..len : IsLegalThrow(throws[j])
        BY <1>2, <4>8, ElementOfSeq DEF Legal
      <4>10. Unbeaten(end.states, rules.variant)
        BY <4>3, <4>6, <4>7, <4>8, <4>9, VisitKeepsUnbeaten
      <4> QED BY <3>5, <4>5, <4>10 DEF Played, Gained
    <3>6. ASSUME NEW throws \in Seq(S), NEW outcome, NEW visit,
                 Played(next, rules, Members, darts, before, throws, outcome, visit)
          PROVE  i + 1 \in T
      <4>1. UnbeatenLeg(next)
        BY <3>5, <3>6 DEF UnbeatenLeg
      <4> QED BY <2>1, <3>1, <4>1
    <3> QED BY <1>2, <3>2, <3>3, <3>4, <3>6, PlayVisitIs
  <2> QED BY <2>3, <2>4
<1> HIDE DEF T
<1>6. 0..n \subseteq T
  BY <1>1, <1>4, <1>5, UpTo
<1> QED BY <1>1, <1>6 DEF T

(* The least and the greatest of the values of a function are values of it.*)
LEMMA ExtremesAre ==
    ASSUME NEW n \in Nat, NEW f, \A i \in 0..n : f[i] \in Int
    PROVE  /\ \E i \in 0..n : \A j \in 0..n : f[i] >= f[j]
           /\ \E i \in 0..n : \A j \in 0..n : f[i] <= f[j]
<1> DEFINE T == {k \in 0..n : /\ \E i \in 0..k : \A j \in 0..k : f[i] >= f[j]
                              /\ \E i \in 0..k : \A j \in 0..k : f[i] <= f[j]}
<1>1. 0 \in T
  OBVIOUS
<1>2. ASSUME NEW k \in 0..n - 1, k \in T
      PROVE  k + 1 \in T
  <2>1. PICK m \in 0..n : m = k + 1
    OBVIOUS
  <2>2. \A j \in 0..m : j \in 0..k \/ j = m
    BY <2>1
  <2>3. PICK hi \in 0..k : \A j \in 0..k : f[hi] >= f[j]
    BY <1>2
  <2>4. PICK lo \in 0..k : \A j \in 0..k : f[lo] <= f[j]
    BY <1>2
  <2>5. hi \in 0..m /\ lo \in 0..m /\ m \in 0..m /\ f[hi] \in Int /\ f[lo] \in Int /\ f[m] \in Int
    BY <2>1
  <2>6. \E i \in 0..m : \A j \in 0..m : f[i] >= f[j]
    <3>1. CASE f[hi] >= f[m]
      BY <2>2, <2>3, <2>5, <3>1
    <3>2. CASE ~(f[hi] >= f[m])
      <4>1. \A j \in 0..m : f[m] >= f[j]
        BY <2>1, <2>2, <2>3, <2>5, <3>2
      <4> QED BY <2>5, <4>1
    <3> QED BY <3>1, <3>2
  <2>7. \E i \in 0..m : \A j \in 0..m : f[i] <= f[j]
    <3>1. CASE f[lo] <= f[m]
      BY <2>2, <2>4, <2>5, <3>1
    <3>2. CASE ~(f[lo] <= f[m])
      <4>1. \A j \in 0..m : f[m] <= f[j]
        BY <2>1, <2>2, <2>4, <2>5, <3>2
      <4> QED BY <2>5, <4>1
    <3> QED BY <3>1, <3>2
  <2> QED BY <2>1, <2>6, <2>7
<1> HIDE DEF T
<1>3. 0..n \subseteq T
  BY <1>1, <1>2, UpTo
<1>4. n \in T
  BY <1>3
<1> QED BY <1>4 DEF T

(* A team that leads on points is ahead of each opponent, so that a team   *)
(* which has also closed every target has won by the engine's own test.    *)
LEMMA LeadersHaveWon ==
    ASSUME LegTyped, rules.game = "cricket", NEW leg, CricketOK(leg.teams, NTeams),
           NEW team \in Team, \A g \in Targets : leg.teams[team].marks[g] = MarksToClose,
           Leads(leg, team)
    PROVE  HasWon(leg.teams, team, rules.variant)
<1>1. rules.variant \in Variant
  BY LegPlayAssumption DEF LegTyped
<1>2. PICK last \in Nat : last = NTeams - 1 /\ Team = 0..last
  BY LegPlayAssumption
<1>3. PICK states : states = leg.teams
  OBVIOUS
<1>4. PICK points : points = [o \in Team |-> states[o].points]
  OBVIOUS
<1>5. \A o \in Team : points[o] = states[o].points /\ points[o] \in Nat
  BY <1>2, <1>3, <1>4 DEF CricketOK
<1>6. /\ \A x \in Range(points) : \E o \in Team : x = points[o]
      /\ \A o \in Team : points[o] \in Range(points)
  BY <1>4 DEF Range
<1>7. HasClosedAll(states[team])
  BY <1>3 DEF HasClosedAll, HasClosed, MarksToClose
<1>8. Opponents(states, team) \subseteq Team
  BY <1>2, <1>3 DEF Opponents, CricketOK
<1>9. \A o \in 0..last : points[o] \in Int
  BY <1>2, <1>5
<1>10. CASE rules.variant = "quick"
  BY <1>3, <1>7, <1>10 DEF HasWon
<1>11. CASE rules.variant = "standard"
  <2>1. points[team] = Max(Range(points))
    BY <1>3, <1>4, <1>11 DEF Leads
  <2>2. PICK i \in Team : \A j \in Team : points[i] >= points[j]
    BY <1>2, <1>9, ExtremesAre
  <2>5. \E x \in Range(points) : \A y \in Range(points) : x >= y
    BY <1>6, <2>2
  <2>3. \A y \in Range(points) : points[team] >= y
    BY <2>1, <2>5 DEF Max
  <2>4. \A o \in Team : states[team].points >= states[o].points
    BY <1>5, <1>6, <2>3
  <2> QED BY <1>3, <1>7, <1>8, <1>11, <2>4 DEF HasWon
<1>12. CASE rules.variant = "cutthroat"
  <2>1. points[team] = Min(Range(points))
    BY <1>3, <1>4, <1>12 DEF Leads
  <2>2. PICK i \in Team : \A j \in Team : points[i] <= points[j]
    BY <1>2, <1>9, ExtremesAre
  <2>5. \E x \in Range(points) : \A y \in Range(points) : x <= y
    BY <1>6, <2>2
  <2>3. \A y \in Range(points) : points[team] <= y
    BY <2>1, <2>5 DEF Min
  <2>4. \A o \in Team : states[team].points <= states[o].points
    BY <1>5, <1>6, <2>3
  <2> QED BY <1>3, <1>7, <1>8, <1>12, <2>4 DEF HasWon
<1> QED BY <1>1, <1>10, <1>11, <1>12 DEF Variant

(* In every leg but cutthroat of three teams or more, a team that has      *)
(* closed every target on the winning side of the points has won, with any *)
(* number of teams, after any throws and undos.                            *)
THEOREM WonPositionsAreWon == Spec => [](OnlyOwnDartsWin => WonPositionHasWinner)
<1>1. LegTyped => (OnlyOwnDartsWin => WonPositionHasWinner)
  <2> SUFFICES ASSUME LegTyped, OnlyOwnDartsWin, rules.game = "cricket", NEW team \in Team,
                      \A g \in Targets : Leg.teams[team].marks[g] = MarksToClose,
                      Leads(Leg, team)
               PROVE  Leg.winner # NoTeam
    BY DEF WonPositionHasWinner
  <2>1. PICK n \in Nat : n = Len(darts)
    BY LenProperties DEF LegTyped
  <2>2. PICK stage : Stages(stage, rules, Members, starter, darts)
    BY <2>1, LegHasStages
  <2>3. PICK leg : leg = Leg /\ leg = stage[n] /\ n \in 0..n
    BY <2>1, <2>2 DEF Leg, Stages
  <2>4. UnbeatenLeg(leg)
    BY <2>1, <2>2, <2>3, StagesAreUnbeaten
  <2>5. CricketInv(leg, NTeams)
    <3>1. /\ darts \in Seq(Throw[rules.game]) /\ starter \in 0..NTeams - 1
          /\ Legal(Throw[rules.game]) /\ rules.game # "x01" /\ Seats(Members, NTeams)
      BY TeamsAreSeated, LegPlayAssumption DEF LegTyped, Legal
    <3> QED BY <2>1, <2>2, <2>3, <3>1, StagesKeepMarks
  <2>6. HasWon(leg.teams, team, rules.variant)
    BY <2>3, <2>5, LeadersHaveWon DEF CricketInv
  <2> QED BY <2>3, <2>4, <2>6 DEF UnbeatenLeg, Unbeaten
<1> QED BY <1>1, LegIsTyped, PTL

-----------------------------------------------------------------------------
(***************************************************************************)
(* Winning from an open x01 position, dart by dart, and what the table     *)
(* says of it.                                                             *)
(***************************************************************************)
OpenAt(R) == [remaining : 0..R, open : {TRUE}, darts : Nat]

UsefulAt(R) == {t \in AllThrows : Score(t) <= R}

(* The dart wins, or it leaves a position that g says can be won.          *)
WinsBy(dart, g, n) ==
    \/ dart.checkout
    \/ n > 1 /\ dart.bust = NoBust /\ g[dart.state]

FinishStep(g, s, n, R, cfg) ==
    \E t \in UsefulAt(R) : WinsBy(X01ApplyDart(s, t, cfg), g, n)

FinishFn(f, R, cfg) ==
    f = [n \in 1..DartsPerVisit |-> [s \in OpenAt(R) |-> FinishStep(f[n - 1], s, n, R, cfg)]]

(* With the last dart of a visit only a dart that wins does.               *)
LEMMA LastDartStep ==
    ASSUME NEW g, NEW h, NEW s, NEW R, NEW cfg
    PROVE  FinishStep(g, s, 1, R, cfg) = FinishStep(h, s, 1, R, cfg)
<1>1. \A dart : WinsBy(dart, g, 1) <=> WinsBy(dart, h, 1)
  BY DEF WinsBy
<1>2. FinishStep(g, s, 1, R, cfg) <=> FinishStep(h, s, 1, R, cfg)
  BY <1>1, Zenon DEF FinishStep
<1>3. FinishStep(g, s, 1, R, cfg) \in BOOLEAN /\ FinishStep(h, s, 1, R, cfg) \in BOOLEAN
  BY DEF FinishStep
<1> QED BY <1>2, <1>3

(* Such a function exists.                                                 *)
LEMMA FinishUnrolls ==
    ASSUME NEW R, NEW cfg
    PROVE  \E f : FinishFn(f, R, cfg)
<1> DEFINE Level(g, n) == [s \in OpenAt(R) |-> FinishStep(g, s, n, R, cfg)]
<1>1. PICK one : one = Level(<<>>, 1)
  OBVIOUS
<1>2. PICK two : two = Level(one, 2)
  OBVIOUS
<1>3. PICK three : three = Level(two, 3)
  OBVIOUS
<1>4. PICK f : f = [n \in 1..DartsPerVisit |-> IF n = 1 THEN one ELSE IF n = 2 THEN two ELSE three]
  OBVIOUS
<1>5. f[1] = one /\ f[2] = two /\ f[3] = three
  BY <1>4 DEF DartsPerVisit
<1>6. PICK zero : zero = f[0]
  OBVIOUS
<1>7. one = Level(zero, 1)
  <2>1. \A s \in OpenAt(R) : FinishStep(<<>>, s, 1, R, cfg) = FinishStep(zero, s, 1, R, cfg)
    BY LastDartStep
  <2> QED BY <1>1, <2>1, Zenon
<1> HIDE DEF Level
<1>8. \A n \in 1..DartsPerVisit : f[n] = Level(f[n - 1], n)
  <2>1. \A n \in 1..DartsPerVisit : \/ n = 1 /\ n - 1 = 0
                                    \/ n = 2 /\ n - 1 = 1
                                    \/ n = 3 /\ n - 1 = 2
    BY DEF DartsPerVisit
  <2> QED BY <1>2, <1>3, <1>5, <1>6, <1>7, <2>1, Zenon
<1>9. f = [n \in 1..DartsPerVisit |-> f[n]]
  BY <1>4
<1>10. f = [n \in 1..DartsPerVisit |-> Level(f[n - 1], n)]
  BY <1>8, <1>9, Zenon
<1> QED BY <1>10, Zenon DEF FinishFn, Level

(* So whether a position can be won is as its definition says.             *)
LEMMA CanFinishIs ==
    ASSUME NEW state, NEW n
    PROVE  \E f : FinishFn(f, state.remaining, rules) /\ CanFinish(state, n) = f[n][state]
<1> DEFINE F == CHOOSE f : FinishFn(f, state.remaining, rules)
<1>1. FinishFn(F, state.remaining, rules)
  BY FinishUnrolls, Zenon
<1>2. CanFinish(state, n) = F[n][state]
  BY Zenon DEF CanFinish, FinishFn, FinishStep, WinsBy, OpenAt, UsefulAt
<1> QED BY <1>1, <1>2
(* An open position, with r to score and d darts thrown.                   *)
OpenState(r, d) == [remaining |-> r, open |-> TRUE, darts |-> d]

(* What a dart thrown from an open position does: it leaves what it does   *)
(* not score, wins by finishing, and busts by leaving what cannot be       *)
(* finished.                                                               *)
OpenDart(dart, left, d, rule, t) ==
    /\ dart.checkout <=> left = 0 /\ Finishes(rule, t)
    /\ dart.bust = NoBust <=> \/ left > 1
                              \/ left = 1 /\ rule = "straight"
                              \/ left = 0 /\ Finishes(rule, t)
    /\ dart.bust = NoBust => dart.state = OpenState(left, d + 1)

(* So the engine scores it.                                                *)
LEMMA DartFromOpen ==
    ASSUME NEW r \in Nat, NEW d \in Nat, NEW t, IsLegalThrow(t), NEW cfg, cfg.out_rule \in X01Rule,
           NEW dart, dart = X01ApplyDart(OpenState(r, d), t, cfg), NEW left, left = r - Score(t)
    PROVE  OpenDart(dart, left, d, cfg.out_rule, t)
<1>1. Score(t) \in Nat /\ left \in Int
  <2>1. Score(t) \in Nat
    BY ScoreIsNat
  <2> QED BY <2>1
<1>2. Satisfies(cfg.out_rule, t) <=> Finishes(cfg.out_rule, t)
  BY DEF Satisfies, Finishes, X01Rule, IsDouble, IsTriple
<1>3. PICK bust : bust = BustReason(left, t, cfg)
  OBVIOUS
<1>4. PICK o \in BOOLEAN : o = TRUE
  OBVIOUS
<1>5. PICK start, thrown : /\ start = [remaining |-> r, open |-> o, darts |-> d]
                           /\ thrown = [remaining |-> r, open |-> o, darts |-> d + 1]
  OBVIOUS
<1>16. PICK counted \in BOOLEAN : counted = (bust = NoBust)
  OBVIOUS
<1>11. dart = DartOutcome(thrown, t, left, counted, bust)
  <2>1. [start EXCEPT !.darts = @ + 1] = thrown
    BY <1>5
  <2>2. start.remaining = r /\ start.open
    BY <1>4, <1>5
  <2>3. OpenState(r, d) = start
    BY <1>4, <1>5 DEF OpenState
  <2> QED BY <1>3, <1>16, <2>1, <2>2, <2>3 DEF X01ApplyDart
<1>12. /\ dart.bust = bust /\ dart.checkout = (counted /\ left = 0)
       /\ dart.state = IF counted THEN [thrown EXCEPT !.remaining = left, !.open = TRUE] ELSE thrown
  BY <1>11 DEF DartOutcome
<1>8. dart.bust = bust /\ (dart.checkout <=> bust = NoBust /\ left = 0)
  BY <1>12, <1>16, Zenon
<1>9. bust = NoBust => dart.state = OpenState(left, d + 1)
  <2>1. counted => dart.state = [remaining |-> left, open |-> TRUE, darts |-> d + 1]
    BY <1>5, <1>12
  <2> QED BY <1>16, <2>1 DEF OpenState
<1>6. bust = NoBust <=> /\ ~(left < 0) /\ (left = 0 => Finishes(cfg.out_rule, t))
                        /\ (left = 1 => cfg.out_rule = "straight")
  BY <1>1, <1>2, <1>3 DEF BustReason, NoBust
<1>7. bust = NoBust <=> \/ left > 1
                        \/ left = 1 /\ cfg.out_rule = "straight"
                        \/ left = 0 /\ Finishes(cfg.out_rule, t)
  BY <1>1, <1>6
<1>10. dart.checkout <=> left = 0 /\ Finishes(cfg.out_rule, t)
  BY <1>1, <1>6, <1>8
<1> QED BY <1>7, <1>8, <1>9, <1>10 DEF OpenDart

(* One is left by no dart that another can finish, but with no rule of     *)
(* finishing.                                                              *)
LEMMA OneIsLeft ==
    ASSUME NEW m \in 1..MaxPathDarts, NEW rule \in X01Rule, 1 <= TopScore,
           NEW p \in PathsOf(m)[rule][1]
    PROVE  m = 1 /\ rule = "straight"
<1>1. 1 \in 0..TopScore
  BY TopScoreAssumption
<1>2. CASE m = 1
  <2>1. PICK t \in ScoringThrows : EndsPath(rule, 1, t)
    BY <1>1, <1>2, PathsOfAre
  <2>2. Score(t) = 1 /\ Finishes(rule, t) /\ IsLegalThrow(t)
    BY <2>1, ScoringScores DEF EndsPath, AllThrows
  <2>3. t.multiplier = 1
    <3>1. PICK s \in Nat, u \in 0..3 : s = t.segment /\ u = t.multiplier
      BY <2>2 DEF IsLegalThrow, Miss, Bull
    <3>2. s * u = 1
      BY <2>2, <3>1 DEF Score
    <3>3. u = 0 \/ u = 1 \/ u = 2 \/ u = 3
      OBVIOUS
    <3>4. u # 0 /\ u # 2 /\ u # 3
      <4>1. s * 0 = 0 /\ s * 2 # 1 /\ s * 3 # 1
        OBVIOUS
      <4> QED BY <3>2, <4>1
    <3> QED BY <3>1, <3>3, <3>4
  <2>4. rule # "double" /\ rule # "master"
    <3>1. PICK u : u = t.multiplier
      OBVIOUS
    <3>2. u = 1
      BY <2>3, <3>1
    <3>3. rule = "double" => (Finishes(rule, t) <=> u = 2)
      BY <3>1 DEF Finishes
    <3>4. rule = "master" => (Finishes(rule, t) <=> u \in {2, 3})
      BY <3>1 DEF Finishes
    <3> QED BY <2>2, <3>2, <3>3, <3>4
  <2> QED BY <1>2, <2>4 DEF X01Rule
<1>3. CASE m # 1
  <2>1. PICK k \in 1..2 : m = k + 1
    <3>1. m - 1 \in 1..2 /\ m = (m - 1) + 1
      BY <1>3 DEF MaxPathDarts
    <3> QED BY <3>1
  <2>2. PICK t \in ScoringThrows : StartsPath(k, rule, 1, t, p)
    BY <1>1, <2>1, PathsOfAre
  <2>3. Score(t) < 1 /\ Score(t) \in 1..TopScore
    BY <2>2, ScoringScores DEF StartsPath
  <2> QED BY <2>3
<1> QED BY <1>2, <1>3
(* The dart finishes, or it leaves what g says more darts can finish.      *)
Reaches(left, rule, t, n, g, d) ==
    \/ left = 0 /\ Finishes(rule, t)
    \/ /\ n > 1 /\ left >= 1 /\ (left > 1 \/ rule = "straight")
       /\ g[OpenState(left, d + 1)]

(* So a position can be won if one of the darts does either.               *)
LEMMA FinishReaches ==
    ASSUME NEW R \in Nat, NEW cfg, cfg.out_rule \in X01Rule, NEW f, FinishFn(f, R, cfg),
           NEW n \in 1..DartsPerVisit, NEW r \in 0..R, NEW d \in Nat
    PROVE  f[n][OpenState(r, d)] <=>
              \E t \in UsefulAt(R) : Reaches(r - Score(t), cfg.out_rule, t, n, f[n - 1], d)
<1>1. PICK s : s = OpenState(r, d)
  OBVIOUS
<1>2. s \in OpenAt(R)
  BY <1>1 DEF OpenState, OpenAt
<1>3. PICK g : g = f[n - 1]
  OBVIOUS
<1>4. f[n] = [q \in OpenAt(R) |-> FinishStep(f[n - 1], q, n, R, cfg)]
  BY Zenon DEF FinishFn
<1>5. f[n][s] <=> \E t \in UsefulAt(R) : WinsBy(X01ApplyDart(s, t, cfg), g, n)
  BY <1>2, <1>3, <1>4, Zenon DEF FinishStep
<1>6. ASSUME NEW t \in UsefulAt(R)
      PROVE  WinsBy(X01ApplyDart(s, t, cfg), g, n) <=>
                Reaches(r - Score(t), cfg.out_rule, t, n, g, d)
  <2>1. IsLegalThrow(t)
    BY DEF UsefulAt, AllThrows
  <2>2. PICK dart, left, rule : /\ dart = X01ApplyDart(s, t, cfg) /\ left = r - Score(t)
                                /\ rule = cfg.out_rule
    OBVIOUS
  <2>3. OpenDart(dart, left, d, rule, t)
    <3>1. r \in Nat
      OBVIOUS
    <3> QED BY <1>1, <2>1, <2>2, <3>1, DartFromOpen
  <2>4. left \in Int
    <3>1. Score(t) \in Nat
      BY <2>1, ScoreIsNat
    <3> QED BY <2>2, <3>1
  <2>5. WinsBy(dart, g, n) <=> Reaches(left, rule, t, n, g, d)
    <3>1. PICK fin \in BOOLEAN : fin = (left = 0 /\ Finishes(rule, t))
      OBVIOUS
    <3>2. PICK free \in BOOLEAN : free = (rule = "straight")
      OBVIOUS
    <3>3. PICK after : after = OpenState(left, d + 1)
      OBVIOUS
    <3>4. dart.checkout <=> fin
      BY <2>3, <3>1 DEF OpenDart
    <3>5. dart.bust = NoBust <=> left > 1 \/ (left = 1 /\ free) \/ fin
      BY <2>3, <3>1, <3>2 DEF OpenDart
    <3>6. dart.bust = NoBust => dart.state = after
      BY <2>3, <3>3 DEF OpenDart
    <3>7. Reaches(left, rule, t, n, g, d) <=> fin \/ (n > 1 /\ (left > 1 \/ (left = 1 /\ free)) /\ g[after])
      <4>1. left >= 1 /\ (left > 1 \/ rule = "straight") <=>
              left > 1 \/ (left = 1 /\ free)
        <5>1. left >= 1 /\ (left > 1 \/ free) <=> left > 1 \/ (left = 1 /\ free)
          BY <2>4
        <5> QED BY <3>2, <5>1
      <4> QED BY <3>1, <3>3, <4>1 DEF Reaches
    <3>8. WinsBy(dart, g, n) <=> dart.checkout \/ (n > 1 /\ dart.bust = NoBust /\ g[dart.state])
      BY DEF WinsBy
    <3> QED BY <3>4, <3>5, <3>6, <3>7, <3>8
  <2> QED BY <2>2, <2>5
<1> QED BY <1>1, <1>3, <1>5, <1>6
(* The table has a path of at most n darts.                                *)
InTable(rule, r, n) == \E m \in 1..n : PathsOf(m)[rule][r] # {}

Known(f, R, rule, n) ==
    \A r \in 1..R : r <= TopScore =>
        \A d \in Nat : f[n][OpenState(r, d)] <=> InTable(rule, r, n)

(* A throw that scores something the table may know.                       *)
LEMMA ThrowScores ==
    ASSUME NEW R, NEW t \in UsefulAt(R)
    PROVE  /\ Score(t) \in Nat
           /\ Score(t) \in 1..TopScore => t \in ScoringThrows
<1>1. t \in AllThrows /\ IsLegalThrow(t)
  BY DEF UsefulAt, AllThrows
<1>2. Score(t) \in Nat
  BY <1>1, ScoreIsNat
<1> QED BY <1>1, <1>2 DEF ScoringThrows

(* What wins is in the table.                                              *)
LEMMA WinIsInTable ==
    ASSUME NEW R \in Nat, NEW rule \in X01Rule, NEW f, NEW n \in 1..DartsPerVisit,
           n > 1 => Known(f, R, rule, n - 1),
           NEW r \in 1..R, r <= TopScore, NEW d \in Nat,
           NEW t \in UsefulAt(R), Reaches(r - Score(t), rule, t, n, f[n - 1], d)
    PROVE  InTable(rule, r, n)
<1>0. r \in 0..TopScore /\ n \in 1..3 /\ 1 \in 1..n /\ TopScore \in Nat
  BY TopScoreAssumption DEF DartsPerVisit
<1>1. PICK score \in Nat : score = Score(t)
  BY ThrowScores
<1>2. CASE r - score = 0 /\ Finishes(rule, t)
  <2>1. score = r /\ score \in 1..TopScore
    BY <1>0, <1>2
  <2>2. t \in ScoringThrows /\ EndsPath(rule, r, t)
    BY <1>1, <1>2, <2>1, ThrowScores DEF EndsPath
  <2>3. <<t>> \in PathsOf(1)[rule][r]
    BY <1>0, <2>2, PathsOfAre
  <2> QED BY <1>0, <2>3 DEF InTable
<1>3. CASE n > 1 /\ r - score >= 1 /\ f[n - 1][OpenState(r - score, d + 1)]
  <2>1. PICK left \in 1..R : left = r - score /\ left <= TopScore
    <3>1. r - score \in 1..R /\ r - score <= TopScore
      BY <1>0, <1>3
    <3> QED BY <3>1
  <2>2. d + 1 \in Nat
    OBVIOUS
  <2>3. InTable(rule, left, n - 1)
    BY <1>3, <2>1, <2>2 DEF Known
  <2>4. PICK m \in 1..n - 1 : \E q : q \in PathsOf(m)[rule][left]
    BY <2>3 DEF InTable
  <2>8. PICK q : q \in PathsOf(m)[rule][left]
    BY <2>4
  <2>5. m \in 1..2 /\ m \in 1..n /\ m + 1 \in 1..n
    BY <1>0
  <2>6. CASE score = 0
    <3>1. left = r
      BY <2>1, <2>6
    <3> QED BY <2>5, <2>8, <3>1 DEF InTable
  <2>7. CASE score # 0
    <3>1. score \in 1..TopScore /\ score < r
      BY <1>0, <2>1, <2>7
    <3>2. t \in ScoringThrows
      BY <1>1, <3>1, ThrowScores
    <3>3. StartsPath(m, rule, r, t, <<t>> \o q)
      BY <1>1, <2>1, <2>8, <3>1 DEF StartsPath
    <3>4. (<<t>> \o q) \in PathsOf(m + 1)[rule][r]
      BY <1>0, <2>5, <3>2, <3>3, PathsOfAre
    <3> QED BY <2>5, <3>4 DEF InTable
  <2> QED BY <2>6, <2>7
<1> QED BY <1>1, <1>2, <1>3 DEF Reaches

(* What is in the table wins.                                              *)
LEMMA InTableWins ==
    ASSUME NEW R \in Nat, NEW rule \in X01Rule, NEW f, NEW n \in 1..DartsPerVisit,
           n > 1 => Known(f, R, rule, n - 1),
           NEW r \in 1..R, r <= TopScore, NEW d \in Nat, InTable(rule, r, n)
    PROVE  \E t \in UsefulAt(R) : Reaches(r - Score(t), rule, t, n, f[n - 1], d)
<1>0. r \in 0..TopScore /\ n \in 1..3 /\ 1 <= TopScore /\ TopScore \in Nat
  BY TopScoreAssumption DEF DartsPerVisit
<1>5. PICK m \in 1..n : \E p : p \in PathsOf(m)[rule][r]
  BY DEF InTable
<1>1. PICK p : p \in PathsOf(m)[rule][r]
  BY <1>5
<1>2. ASSUME NEW t \in ScoringThrows, Score(t) <= r
      PROVE  t \in UsefulAt(R)
  <2>1. Score(t) \in 1..TopScore /\ t \in AllThrows
    BY ScoringScores
  <2>2. Score(t) <= R
    BY <1>2, <2>1
  <2> QED BY <2>1, <2>2 DEF UsefulAt
<1>3. CASE m = 1
  <2>1. PICK t \in ScoringThrows : EndsPath(rule, r, t)
    BY <1>0, <1>1, <1>3, PathsOfAre
  <2>2. Score(t) = r /\ Finishes(rule, t)
    BY <2>1 DEF EndsPath
  <2>3. r - Score(t) = 0 /\ Score(t) <= r
    BY <2>2
  <2> QED BY <1>2, <2>2, <2>3 DEF Reaches
<1>4. CASE m # 1
  <2>1. PICK k \in 1..2 : m = k + 1 /\ k \in 1..n - 1 /\ n > 1
    <3>1. m - 1 \in 1..2 /\ m = (m - 1) + 1 /\ m - 1 \in 1..n - 1 /\ n > 1
      BY <1>0, <1>4
    <3> QED BY <3>1
  <2>2. PICK t \in ScoringThrows : StartsPath(k, rule, r, t, p)
    BY <1>0, <1>1, <2>1, PathsOfAre
  <2>3. PICK q : Score(t) < r /\ q \in PathsOf(k)[rule][r - Score(t)]
    BY <2>2 DEF StartsPath
  <2>4. PICK score \in Nat : score = Score(t) /\ score >= 1
    <3>1. Score(t) \in 1..TopScore
      BY ScoringScores
    <3> QED BY <3>1
  <2>5. PICK left \in 1..R : left = r - score /\ left <= TopScore
    <3>1. r - score \in 1..R /\ r - score <= TopScore
      BY <1>0, <2>3, <2>4
    <3> QED BY <3>1
  <2>6. InTable(rule, left, n - 1)
    BY <2>1, <2>3, <2>4, <2>5 DEF InTable
  <2>7. d + 1 \in Nat
    OBVIOUS
  <2>8. f[n - 1][OpenState(left, d + 1)]
    BY <2>1, <2>5, <2>6, <2>7 DEF Known
  <2>9. left > 1 \/ rule = "straight"
    <3>1. left = 1 => rule = "straight"
      <4>1. k \in 1..MaxPathDarts
        BY DEF MaxPathDarts
      <4> QED BY <1>0, <2>3, <2>4, <2>5, <4>1, OneIsLeft
    <3> QED BY <3>1
  <2>10. Reaches(left, rule, t, n, f[n - 1], d)
    <3>1. n > 1 /\ left >= 1
      BY <2>1
    <3> QED BY <2>8, <2>9, <3>1 DEF Reaches
  <2>11. Score(t) <= r
    BY <2>3, <2>4
  <2> QED BY <1>2, <2>4, <2>5, <2>10, <2>11
<1> QED BY <1>3, <1>4

(* So of a score the table knows, it tells whether it can be finished.     *)
LEMMA TableKnows ==
    ASSUME NEW R \in Nat, NEW cfg, cfg.out_rule \in X01Rule, NEW f, FinishFn(f, R, cfg)
    PROVE  \A n \in 1..DartsPerVisit : Known(f, R, cfg.out_rule, n)
<1>1. PICK rule \in X01Rule : rule = cfg.out_rule
  OBVIOUS
<1>2. ASSUME NEW n \in 1..DartsPerVisit, n > 1 => Known(f, R, rule, n - 1)
      PROVE  Known(f, R, rule, n)
  <2>1. ASSUME NEW r \in 1..R, r <= TopScore, NEW d \in Nat
        PROVE  f[n][OpenState(r, d)] <=> InTable(rule, r, n)
    <3>1. f[n][OpenState(r, d)] <=>
            \E t \in UsefulAt(R) : Reaches(r - Score(t), rule, t, n, f[n - 1], d)
      <4>1. r \in 0..R
        OBVIOUS
      <4> QED BY <1>1, <4>1, FinishReaches
    <3>2. (\E t \in UsefulAt(R) : Reaches(r - Score(t), rule, t, n, f[n - 1], d))
            => InTable(rule, r, n)
      BY <1>2, <2>1, WinIsInTable
    <3>3. InTable(rule, r, n) =>
            \E t \in UsefulAt(R) : Reaches(r - Score(t), rule, t, n, f[n - 1], d)
      BY <1>2, <2>1, InTableWins
    <3> QED BY <3>1, <3>2, <3>3
  <2> QED BY <2>1 DEF Known
<1>3. Known(f, R, rule, 1)
  BY <1>2 DEF DartsPerVisit
<1>4. Known(f, R, rule, 2)
  <2>1. 2 \in 1..DartsPerVisit /\ 2 - 1 = 1
    BY DEF DartsPerVisit
  <2> QED BY <1>2, <1>3, <2>1
<1>5. Known(f, R, rule, 3)
  <2>1. 3 \in 1..DartsPerVisit /\ 3 - 1 = 2
    BY DEF DartsPerVisit
  <2> QED BY <1>2, <1>4, <2>1
<1>6. \A n \in 1..DartsPerVisit : n = 1 \/ n = 2 \/ n = 3
  BY DEF DartsPerVisit
<1> QED BY <1>1, <1>3, <1>4, <1>5, <1>6
(* No dart scores more than a treble twenty.                               *)
LEMMA DartAtMost ==
    ASSUME NEW t, IsLegalThrow(t)
    PROVE  Score(t) \in 0..60
<1>1. PICK s \in Nat, u \in 0..3 : /\ s = t.segment /\ u = t.multiplier
                                   /\ s <= 20 \/ (s = 25 /\ u # 3)
  <2>1. PICK s, u : s = t.segment /\ u = t.multiplier
    OBVIOUS
  <2>2. s \in 1..20 \cup {0, 25} /\ u \in 0..3 /\ ~(s = 25 /\ u = 3)
    BY <2>1 DEF IsLegalThrow, Miss, Bull
  <2>3. s \in Nat /\ (s <= 20 \/ (s = 25 /\ u # 3))
    BY <2>2
  <2> QED BY <2>1, <2>2, <2>3
<1>2. u = 0 \/ u = 1 \/ u = 2 \/ u = 3
  OBVIOUS
<1>3. s * 0 = 0 /\ s * 1 = s /\ s * 2 = s + s /\ s * 3 = s + s + s
  OBVIOUS
<1>4. s * u \in 0..60
  <2>1. CASE u = 0
    BY <1>3, <2>1
  <2>2. CASE u = 1
    BY <1>1, <1>3, <2>2
  <2>3. CASE u = 2
    BY <1>1, <1>3, <2>3
  <2>4. CASE u = 3
    BY <1>1, <1>3, <2>4
  <2> QED BY <1>2, <2>1, <2>2, <2>3, <2>4
<1> QED BY <1>1, <1>4 DEF Score

(* A position that n darts win from has no more than 60 n left.            *)
LEMMA WinBounds ==
    ASSUME NEW R \in Nat, NEW cfg, cfg.out_rule \in X01Rule, NEW f, FinishFn(f, R, cfg)
    PROVE  \A n \in 1..DartsPerVisit : \A r \in 0..R : \A d \in Nat :
               f[n][OpenState(r, d)] => r <= 60 * n
<1> DEFINE Within(n) == \A r \in 0..R : \A d \in Nat : f[n][OpenState(r, d)] => r <= 60 * n
<1>1. PICK rule \in X01Rule : rule = cfg.out_rule
  OBVIOUS
<1>2. ASSUME NEW n \in 1..DartsPerVisit, n > 1 => Within(n - 1)
      PROVE  Within(n)
  <2>0. n \in 1..3
    BY DEF DartsPerVisit
  <2>1. ASSUME NEW r \in 0..R, NEW d \in Nat, f[n][OpenState(r, d)]
        PROVE  r <= 60 * n
    <3>1. PICK t \in UsefulAt(R) : Reaches(r - Score(t), rule, t, n, f[n - 1], d)
      BY <1>1, <2>1, FinishReaches
    <3>2. PICK score \in 0..60 : score = Score(t)
      <4>1. IsLegalThrow(t)
        BY DEF UsefulAt, AllThrows
      <4> QED BY <4>1, DartAtMost
    <3>3. CASE r - score = 0
      BY <2>0, <3>2, <3>3
    <3>4. CASE n > 1 /\ r - score >= 1 /\ f[n - 1][OpenState(r - score, d + 1)]
      <4>1. PICK left \in 0..R : left = r - score
        <5>1. r - score \in 0..R
          BY <3>4
        <5> QED BY <5>1
      <4>2. d + 1 \in Nat
        OBVIOUS
      <4>3. left <= 60 * (n - 1)
        BY <1>2, <3>4, <4>1, <4>2
      <4> QED BY <2>0, <4>1, <4>3
    <3> QED BY <3>1, <3>2, <3>3, <3>4 DEF Reaches
  <2> QED BY <2>1
<1> HIDE DEF Within
<1>3. Within(1)
  BY <1>2 DEF DartsPerVisit
<1>4. Within(2)
  <2>1. 2 \in 1..DartsPerVisit /\ 2 - 1 = 1
    BY DEF DartsPerVisit
  <2> QED BY <1>2, <1>3, <2>1
<1>5. Within(3)
  <2>1. 3 \in 1..DartsPerVisit /\ 3 - 1 = 2
    BY DEF DartsPerVisit
  <2> QED BY <1>2, <1>4, <2>1
<1>6. \A n \in 1..DartsPerVisit : n = 1 \/ n = 2 \/ n = 3
  BY DEF DartsPerVisit
<1>7. \A n \in 1..DartsPerVisit : Within(n)
  BY <1>3, <1>4, <1>5, <1>6
<1> QED BY <1>7 DEF Within
-----------------------------------------------------------------------------
(***************************************************************************)
(* A path of the table, thrown.                                            *)
(***************************************************************************)
LegOf(record) == LegReplay(rules, Members, starter, record)

(* A leg of x01, whose darts are among S, that can be finished.            *)
FinishGame(S) ==
    /\ Legal(S) /\ ScoringThrows \subseteq S
    /\ X01Rules(rules) /\ rules.start # 0 /\ rules.out_rule \in X01Rule
    /\ starter \in 0..NTeams - 1

(* Who is up has r left and m darts or more to throw it with.              *)
UpFor(leg, r, m) ==
    /\ leg.winner = NoTeam /\ DartsLeft(leg) \in Nat /\ DartsLeft(leg) >= m
    /\ \E d \in Nat : leg.teams[leg.active] = OpenState(r, d)

(* What the next dart does to the leg.                                     *)
LEMMA NextDartDoes ==
    ASSUME NEW S, FinishGame(S), NEW record \in Seq(S), NEW t \in S,
           NEW leg, leg = LegOf(record), NEW r \in Nat, NEW m \in Nat, UpFor(leg, r, m),
           NEW more, more = LegOf(Append(record, t))
    PROVE  /\ r = Score(t) /\ Finishes(rules.out_rule, t) => more.winner = leg.active
           /\ r - Score(t) \in Nat /\ m > 1
              /\ (r - Score(t) > 1 \/ (r - Score(t) = 1 /\ rules.out_rule = "straight"))
                => UpFor(more, r - Score(t), m - 1) /\ more.active = leg.active
<1>1. PICK k \in Nat : leg.teams[leg.active] = OpenState(r, k)
  BY DEF UpFor
<1>2. PICK longer \in Seq(S) : longer = Append(record, t)
  BY AppendProperties
<1>3. Extends(longer, record) /\ longer[Len(record) + 1] = t
  BY <1>2, AppendProperties, LenProperties DEF Extends
<1>4. PICK dart : dart = X01ApplyDart(leg.teams[leg.active], t, rules)
  OBVIOUS
<1>5. IsLegalThrow(t) /\ Score(t) \in Nat
  <2>1. IsLegalThrow(t)
    BY DEF FinishGame, Legal
  <2> QED BY <2>1, ScoreIsNat
<1>6. PICK left \in Int : left = r - Score(t)
  BY <1>5
<1>7. OpenDart(dart, left, k, rules.out_rule, t)
  BY <1>1, <1>4, <1>5, <1>6, DartFromOpen DEF FinishGame
<1>8. Seats(Members, NTeams) /\ starter \in 0..NTeams - 1
  BY TeamsAreSeated DEF FinishGame
<1>9. leg.winner = NoTeam /\ DartsLeft(leg) \in Nat /\ DartsLeft(leg) >= m
  BY DEF UpFor
<1>10. X01Next(leg, more, rules, dart)
  BY <1>2, <1>3, <1>4, <1>8, <1>9, X01OneMore DEF FinishGame, LegOf
<1>11. r = Score(t) /\ Finishes(rules.out_rule, t) => more.winner = leg.active
  <2>1. r = Score(t) => left = 0
    BY <1>5, <1>6
  <2>2. left = 0 /\ Finishes(rules.out_rule, t) => dart.checkout
    BY <1>7 DEF OpenDart
  <2>3. dart.checkout => more.winner = leg.active
    BY <1>10 DEF X01Next
  <2> QED BY <2>1, <2>2, <2>3
<1>12. ASSUME left \in Nat, m > 1, left > 1 \/ (left = 1 /\ rules.out_rule = "straight")
       PROVE  UpFor(more, left, m - 1) /\ more.active = leg.active
  <2>1. dart.bust = NoBust /\ ~dart.checkout /\ dart.state = OpenState(left, k + 1)
    <3>1. left # 0
      BY <1>12
    <3> QED BY <1>7, <1>12, <3>1 DEF OpenDart
  <2>2. DartsLeft(leg) > 1
    BY <1>9, <1>12
  <2>3. TurnRight(leg, NTeams) /\ IsSeq(leg.visits)
    <3>1. EndsRight(leg, NTeams)
      BY <1>8, ReplayEndsRight DEF FinishGame, LegOf
    <3>2. IsSeq(leg.visits)
      BY ReplayIsOK DEF LegOK, LegOf
    <3> QED BY <3>1, <3>2 DEF EndsRight
  <2>4. /\ more.winner = NoTeam /\ more.active = leg.active
        /\ more.teams[leg.active] = dart.state
        /\ DartsLeft(more) = DartsLeft(leg) - 1
    BY <1>9, <1>10, <2>1, <2>2, <2>3, X01StaysUp
  <2>5. DartsLeft(leg) - 1 \in Nat /\ DartsLeft(leg) - 1 >= m - 1
    BY <1>9, <2>2
  <2>6. k + 1 \in Nat
    OBVIOUS
  <2> QED BY <2>1, <2>4, <2>5, <2>6 DEF UpFor
<1> QED BY <1>6, <1>11, <1>12

(* Every path of the table, thrown in the visit it is for, wins the leg    *)
(* for whoever throws it.                                                  *)
PathWins(S, m) ==
    \A record \in Seq(S) : \A r \in 1..TopScore : \A p \in PathsOf(m)[rules.out_rule][r] :
        UpFor(LegOf(record), r, m)
            => LegOf(record \o p).winner = LegOf(record).active

(* A path of one dart.                                                     *)
LEMMA OneDartWins ==
    ASSUME NEW S, FinishGame(S)
    PROVE  PathWins(S, 1)
<1>1. ASSUME NEW record \in Seq(S), NEW r \in 1..TopScore,
             NEW p \in PathsOf(1)[rules.out_rule][r], UpFor(LegOf(record), r, 1)
      PROVE  LegOf(record \o p).winner = LegOf(record).active
  <2>0. r \in 0..TopScore /\ r \in Nat /\ rules.out_rule \in X01Rule
    BY TopScoreAssumption DEF FinishGame
  <2>1. PICK t \in ScoringThrows : EndsPath(rules.out_rule, r, t) /\ p = <<t>>
    BY <2>0, PathsOfAre
  <2>2. t \in S
    BY DEF FinishGame
  <2>3. record \o p = Append(record, t)
    BY <2>1, <2>2, AppendIsConcat
  <2>4. r = Score(t) /\ Finishes(rules.out_rule, t)
    BY <2>1 DEF EndsPath
  <2> QED BY <1>1, <2>0, <2>2, <2>3, <2>4, NextDartDoes
<1> QED BY <1>1 DEF PathWins

(* A path one dart longer: its first dart leaves what the rest of it wins. *)
LEMMA LongerPathWins ==
    ASSUME NEW S, FinishGame(S), NEW m \in 1..2, PathWins(S, m)
    PROVE  PathWins(S, m + 1)
<1>1. ASSUME NEW record \in Seq(S), NEW r \in 1..TopScore,
             NEW p \in PathsOf(m + 1)[rules.out_rule][r], UpFor(LegOf(record), r, m + 1)
      PROVE  LegOf(record \o p).winner = LegOf(record).active
  <2>0. /\ r \in 0..TopScore /\ r \in Nat /\ rules.out_rule \in X01Rule /\ TopScore \in Nat
        /\ m + 1 \in Nat /\ m + 1 > 1 /\ m + 1 - 1 = m /\ m \in 1..MaxPathDarts
    BY TopScoreAssumption DEF FinishGame, MaxPathDarts
  <2>1. PICK t \in ScoringThrows : StartsPath(m, rules.out_rule, r, t, p)
    BY <2>0, PathsOfAre
  <2>2. PICK q : q \in PathsOf(m)[rules.out_rule][r - Score(t)] /\ p = <<t>> \o q
    BY <2>1 DEF StartsPath
  <2>3. t \in S /\ Score(t) \in 1..TopScore /\ Score(t) < r
    BY <2>1, ScoringScores DEF FinishGame, StartsPath
  <2>4. PICK left \in 1..TopScore : left = r - Score(t)
    <3>1. r - Score(t) \in 1..TopScore
      BY <2>0, <2>3
    <3> QED BY <3>1
  <2>5. left > 1 \/ (left = 1 /\ rules.out_rule = "straight")
    <3>1. left = 1 => rules.out_rule = "straight"
      BY <2>0, <2>2, <2>4, OneIsLeft
    <3> QED BY <3>1
  <2>6. PICK longer \in Seq(S) : longer = Append(record, t)
    BY <2>3, AppendProperties
  <2>7. UpFor(LegOf(longer), left, m) /\ LegOf(longer).active = LegOf(record).active
    <3>1. left \in Nat
      OBVIOUS
    <3> QED BY <1>1, <2>0, <2>3, <2>4, <2>5, <2>6, <3>1, NextDartDoes
  <2>8. LegOf(longer \o q).winner = LegOf(longer).active
    BY <2>2, <2>4, <2>7 DEF PathWins
  <2>9. longer \o q = record \o p
    <3>1. q \in Seq(S)
      <4>1. left \in 0..TopScore
        OBVIOUS
      <4>2. q \in Seq(ScoringThrows)
        BY <2>0, <2>2, <2>4, <4>1, PathsAreLong DEF PathsLong
      <4>3. Seq(ScoringThrows) \subseteq Seq(S)
        BY DEF FinishGame
      <4> QED BY <4>2, <4>3
    <3>2. <<t>> \in Seq(S) /\ longer = record \o <<t>>
      BY <2>3, <2>6, AppendIsConcat
    <3> QED BY <2>2, <3>1, <3>2, ConcatAssociative
  <2> QED BY <2>7, <2>8, <2>9
<1> QED BY <1>1 DEF PathWins

(* So every path wins.                                                     *)
LEMMA PathsWin ==
    ASSUME NEW S, FinishGame(S)
    PROVE  \A m \in 1..DartsPerVisit : PathWins(S, m)
<1>1. PathWins(S, 1)
  BY OneDartWins
<1>2. PathWins(S, 2)
  <2>1. 1 \in 1..2 /\ 1 + 1 = 2
    OBVIOUS
  <2> QED BY <1>1, <2>1, LongerPathWins
<1>3. PathWins(S, 3)
  <2>1. 2 \in 1..2 /\ 2 + 1 = 3
    OBVIOUS
  <2> QED BY <1>2, <2>1, LongerPathWins
<1>4. \A m \in 1..DartsPerVisit : m = 1 \/ m = 2 \/ m = 3
  BY DEF DartsPerVisit
<1> QED BY <1>1, <1>2, <1>3, <1>4
(* What is suggested for an open position: something when it can be won,   *)
(* and only paths of the table.                                            *)
LEMMA SuggestIsRight ==
    ASSUME NEW r \in Nat \ {0}, r <= TopScore \/ TopScore >= 180, NEW d \in Nat,
           NEW n \in 1..DartsPerVisit, rules.out_rule \in X01Rule,
           NEW hint, hint = Suggest(r, n, rules.out_rule)
    PROVE  /\ hint # <<>> <=> CanFinish(OpenState(r, d), n)
           /\ IsSeq(hint)
           /\ hint # <<>> => r \in 1..TopScore
           /\ \A j \in 1..Len(hint) : \E m \in 1..n : hint[j] \in PathsOf(m)[rules.out_rule][r]
<1>0. TopScore \in Nat /\ n \in 1..3 /\ n \in 1..MaxPathDarts /\ r \in 0..r /\ r \in 1..r
  BY TopScoreAssumption DEF DartsPerVisit, MaxPathDarts
<1>1. PICK f : FinishFn(f, r, rules) /\ CanFinish(OpenState(r, d), n) = f[n][OpenState(r, d)]
  <2>1. OpenState(r, d).remaining = r
    BY DEF OpenState
  <2> QED BY <2>1, CanFinishIs
<1>2. CASE r <= TopScore
  <2>1. r \in 1..TopScore
    BY <1>0, <1>2
  <2>2. /\ IsSeq(hint)
        /\ \A j \in 1..Len(hint) : \E m \in 1..n : hint[j] \in PathsOf(m)[rules.out_rule][r]
        /\ hint # <<>> <=> InTable(rules.out_rule, r, n)
    BY <1>0, <2>1, SuggestLists DEF InTable
  <2>3. f[n][OpenState(r, d)] <=> InTable(rules.out_rule, r, n)
    <3>1. Known(f, r, rules.out_rule, n)
      BY <1>1, TableKnows
    <3> QED BY <1>0, <1>2, <3>1 DEF Known
  <2> QED BY <1>1, <2>1, <2>2, <2>3
<1>3. CASE r > TopScore
  <2>1. hint = <<>>
    <3>1. r \notin 1..TopScore
      BY <1>0, <1>3
    <3> QED BY <3>1 DEF Suggest
  <2>2. ~f[n][OpenState(r, d)]
    <3>1. ~(r <= 60 * n)
      BY <1>0, <1>3
    <3> QED BY <1>0, <1>1, <3>1, WinBounds
  <2>3. IsSeq(hint) /\ Len(hint) = 0
    BY <2>1, EmptyIsSeq
  <2> QED BY <1>1, <2>1, <2>2, <2>3
<1> QED BY <1>0, <1>2, <1>3
(* What a hint that suggests nothing says, and one that suggests paths.    *)
Suggests(hint, paths) ==
    hint.paths = paths /\ hint.reason = IF paths = <<>> THEN "not_checkable" ELSE "none"

SuggestsNone(hint, why, named) ==
    hint.paths = <<>> /\ hint.reason = why /\ (~named => hint.thrower = Nobody)

(* What NoHints says.                                                      *)
LEMMA NothingSays ==
    ASSUME NEW members, NEW leg, NEW why, NEW named, NEW hint,
           hint = NoHints(members, leg, why, named)
    PROVE  SuggestsNone(hint, why, named)
<1>1. PICK left, none, who : /\ left = DartsLeft(leg) /\ none = <<>>
                             /\ who = IF named THEN NextThrower(members, leg) ELSE Nobody
  OBVIOUS
<1>2. hint = [thrower |-> who, remaining |-> none, darts_left |-> left, paths |-> none,
              reason |-> why]
  BY <1>1, Zenon DEF NoHints
<1>3. hint.paths = none /\ hint.reason = why /\ hint.thrower = who
  BY <1>2
<1> QED BY <1>1, <1>3, Zenon DEF SuggestsNone

(* What Suggested says.                                                    *)
LEMMA SomethingSays ==
    ASSUME NEW members, NEW leg, NEW paths, NEW hint, hint = Suggested(members, leg, paths)
    PROVE  Suggests(hint, paths)
<1>1. PICK up, score, left : /\ up = NextThrower(members, leg) /\ left = DartsLeft(leg)
                             /\ score = <<leg.teams[leg.active].remaining>>
  OBVIOUS
<1>2. PICK why : why = IF paths = <<>> THEN "not_checkable" ELSE "none"
  OBVIOUS
<1>3. hint = [thrower |-> up, remaining |-> score, darts_left |-> left, paths |-> paths,
              reason |-> why]
  BY <1>1, <1>2, Zenon DEF Suggested
<1>4. hint.paths = paths /\ hint.reason = why
  BY <1>3
<1> QED BY <1>2, <1>4 DEF Suggests

(* What is offered to whoever is up, in a leg of x01: what is suggested to *)
(* an open thrower, and to nobody else anything.                           *)
LEMMA HintsOffered ==
    ASSUME rules.game = "x01", NEW leg, NEW hint,
           hint = HintsFor(rules, Members, leg, leg.winner # NoTeam, FALSE)
    PROVE  /\ hint.reason = "none" <=> hint.paths # <<>>
           /\ ~(leg.winner = NoTeam /\ leg.teams[leg.active].open) => hint.paths = <<>>
           /\ leg.winner = NoTeam /\ leg.teams[leg.active].open =>
                 hint.paths = Suggest(leg.teams[leg.active].remaining, DartsLeft(leg),
                                      rules.out_rule)
<1>1. CASE leg.winner = NoTeam /\ leg.teams[leg.active].open
  <2>1. PICK paths : paths = Suggest(leg.teams[leg.active].remaining, DartsLeft(leg),
                                     rules.out_rule)
    OBVIOUS
  <2>2. hint = Suggested(Members, leg, paths)
    BY <1>1, <2>1 DEF HintsFor, PathsFor
  <2>3. hint.paths = paths /\ hint.reason = IF paths = <<>> THEN "not_checkable" ELSE "none"
    <3>1. Suggests(hint, paths)
      BY <2>2, SomethingSays
    <3> QED BY <3>1 DEF Suggests
  <2> QED BY <1>1, <2>1, <2>3
<1>2. CASE ~(leg.winner = NoTeam /\ leg.teams[leg.active].open)
  <2>1. PICK why : why # "none" /\ hint = NoHints(Members, leg, why, TRUE)
    <3>1. CASE leg.winner # NoTeam
      <4>1. PICK why : why = "leg_complete"
        OBVIOUS
      <4>2. hint = NoHints(Members, leg, why, TRUE)
        BY <3>1, <4>1 DEF HintsFor
      <4>3. why # "none"
        BY <4>1
      <4> QED BY <4>2, <4>3
    <3>2. CASE leg.winner = NoTeam /\ ~leg.teams[leg.active].open
      <4>1. PICK why : why = "not_open"
        OBVIOUS
      <4>2. hint = NoHints(Members, leg, why, TRUE)
        BY <3>2, <4>1 DEF HintsFor
      <4>3. why # "none"
        BY <4>1
      <4> QED BY <4>2, <4>3
    <3> QED BY <1>2, <3>1, <3>2
  <2>2. hint.paths = <<>> /\ hint.reason = why
    <3>1. SuggestsNone(hint, why, TRUE)
      BY <2>1, NothingSays
    <3> QED BY <3>1 DEF SuggestsNone
  <2> QED BY <1>2, <2>1, <2>2
<1> QED BY <1>1, <1>2

(* An x01 hint is offered exactly when the thrower is open and can win the *)
(* leg with the darts left, and every path offered wins it when thrown; an *)
(* abandoned leg names nobody to throw.                                    *)
THEOREM HintsAreTrue == Spec => []HintsFinish
<1>1. LegTyped => HintsFinish
  <2>1. SUFFICES ASSUME LegTyped, rules.game = "x01", NEW leg, leg = Leg, NEW hint,
                        hint = HintsFor(rules, Members, leg, leg.winner # NoTeam, FALSE),
                        NEW other, other = HintsFor(rules, Members, leg, FALSE, TRUE)
                 PROVE  /\ hint.reason = "none" <=> hint.paths # <<>>
                        /\ hint.paths # <<>> <=>
                              /\ leg.winner = NoTeam /\ leg.teams[leg.active].open
                              /\ CanFinish(leg.teams[leg.active], DartsLeft(leg))
                        /\ \A i \in DOMAIN hint.paths :
                              LegOf(darts \o hint.paths[i]).winner = leg.active
                        /\ other.thrower = Nobody
    BY DEF HintsFinish, LegOf
  <2>2. other.thrower = Nobody
    <3>4. PICK named \in BOOLEAN : named = FALSE
      OBVIOUS
    <3>1. PICK why : why = "match_abandoned" /\ named = FALSE
      BY <3>4
    <3>2. other = NoHints(Members, leg, why, named)
      BY <2>1, <3>1 DEF HintsFor
    <3>3. SuggestsNone(other, why, named)
      BY <3>2, NothingSays
    <3> QED BY <3>1, <3>3 DEF SuggestsNone
  <2>3. CASE ~(leg.winner = NoTeam /\ leg.teams[leg.active].open)
    <3>1. PICK paths : paths = hint.paths
      OBVIOUS
    <3>2. paths = <<>> /\ (hint.reason = "none" <=> paths # <<>>)
      BY <2>1, <2>3, <3>1, HintsOffered
    <3>3. DOMAIN paths = {}
      BY <3>2
    <3> QED BY <2>2, <2>3, <3>1, <3>2, <3>3
  <2>4. CASE leg.winner = NoTeam /\ leg.teams[leg.active].open
    <3>1. PICK S : S = Throw[rules.game] \cup ScoringThrows
      OBVIOUS
    <3>2. FinishGame(S) /\ darts \in Seq(S)
      <4>1. /\ darts \in Seq(Throw[rules.game]) /\ Legal(Throw[rules.game])
            /\ starter \in 0..NTeams - 1
        BY <2>1, LegPlayAssumption DEF LegTyped, Legal
      <4>2. rules.start \in Nat \ {0} /\ rules.out_rule \in X01Rule
        BY <2>1, LegPlayAssumption DEF LegTyped
      <4>3. Legal(ScoringThrows)
        BY DEF Legal, ScoringThrows, AllThrows
      <4>4. Seq(Throw[rules.game]) \subseteq Seq(S)
        BY <3>1
      <4> QED BY <2>1, <3>1, <4>1, <4>2, <4>3, <4>4 DEF FinishGame, Legal, X01Rules
    <3>3. OnTurn(leg, rules, NTeams)
      BY <2>1, <2>4, <3>2, TeamsAreSeated, X01OnTurn DEF FinishGame, Leg
    <3>4. PICK r \in Nat \ {0} : r = leg.teams[leg.active].remaining /\ r <= rules.start
      BY <3>2, <3>3 DEF OnTurn, FinishGame, X01Rules
    <3>5. PICK d \in Nat : leg.teams[leg.active] = OpenState(r, d)
      <4>1. PICK team : team = leg.teams[leg.active]
        OBVIOUS
      <4>2. /\ team = [remaining |-> team.remaining, open |-> team.open, darts |-> team.darts]
            /\ team.darts \in Nat /\ team.open = TRUE /\ team.remaining = r
        BY <2>4, <3>3, <3>4, <4>1 DEF OnTurn, X01StateOK
      <4> QED BY <4>1, <4>2 DEF OpenState
    <3>6. PICK n \in 1..DartsPerVisit : n = DartsLeft(leg)
      BY <3>3 DEF OnTurn
    <3>7. r <= TopScore \/ TopScore >= 180
      <4>1. /\ rules.start <= TopScore \/ TopScore >= 180
            /\ rules.start \in Nat
        BY <2>1, LegPlayAssumption DEF LegTyped
      <4>2. TopScore \in Nat
        BY TopScoreAssumption
      <4> QED BY <3>4, <4>1, <4>2
    <3>8. PICK paths : paths = Suggest(r, n, rules.out_rule) /\ hint.paths = paths
      BY <2>1, <2>4, <3>4, <3>6, HintsOffered
    <3>9. /\ paths # <<>> <=> CanFinish(OpenState(r, d), n)
          /\ IsSeq(paths) /\ (paths # <<>> => r \in 1..TopScore)
          /\ \A j \in 1..Len(paths) :
                \E m \in 1..n : paths[j] \in PathsOf(m)[rules.out_rule][r]
      BY <3>2, <3>7, <3>8, SuggestIsRight DEF FinishGame
    <3>10. ASSUME NEW i \in DOMAIN paths
           PROVE  LegOf(darts \o paths[i]).winner = leg.active
      <4>1. i \in 1..Len(paths) /\ paths # <<>>
        BY <3>9 DEF IsSeq
      <4>2. PICK m \in 1..n : paths[i] \in PathsOf(m)[rules.out_rule][r]
        BY <3>9, <4>1
      <4>3. m \in 1..DartsPerVisit /\ n \in Nat /\ n >= m
        BY DEF DartsPerVisit
      <4>4. UpFor(leg, r, m)
        BY <2>4, <3>5, <3>6, <4>3 DEF UpFor
      <4>5. PathWins(S, m)
        BY <3>2, <4>3, PathsWin
      <4>6. leg = LegOf(darts)
        BY <2>1 DEF Leg, LegOf
      <4> QED BY <3>2, <3>9, <4>1, <4>2, <4>4, <4>5, <4>6 DEF PathWins
    <3>11. hint.reason = "none" <=> hint.paths # <<>>
      BY <2>1, HintsOffered
    <3> QED BY <2>2, <2>4, <3>5, <3>6, <3>8, <3>9, <3>10, <3>11
  <2> QED BY <2>3, <2>4
<1> QED BY <1>1, LegIsTyped, PTL
=============================================================================
