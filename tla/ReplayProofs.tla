----------------------------- MODULE ReplayProofs -----------------------------
(***************************************************************************)
(* What holds of the replay of a leg, for every game, every number of      *)
(* teams and members and every record of darts: how its recursions unroll, *)
(* what a visit takes off the record, whose turn each visit is, and what   *)
(* one more dart changes; what the scores and marks add up to; what is in  *)
(* the checkout table; and which throw each dart of a replay was.          *)
(***************************************************************************)
EXTENDS Replay, Checkout, SequenceTheorems, Induction

(***************************************************************************)
(* The three recursions of the engine, each unrolled: the function that a  *)
(* LET defines exists, so it has the values its definition gives it.       *)
(***************************************************************************)
X01Start(state) == [state |-> state, darts |-> <<>>, bust |-> NoBust, won |-> FALSE]

X01Step(run, t, cfg) ==
    IF Ended(run) THEN run ELSE AddX01Dart(run, X01ApplyDart(run.state, t, cfg))

X01Unrolled(run, state, throws, cfg, n) ==
    run = [i \in 0..n |-> IF i = 0 THEN X01Start(state) ELSE X01Step(run[i - 1], throws[i], cfg)]

(* Such a function exists, for any number of darts.                        *)
LEMMA X01Unrolls ==
    ASSUME NEW state, NEW throws, NEW cfg, NEW n \in Nat
    PROVE  \E run : X01Unrolled(run, state, throws, cfg, n)
<1> DEFINE T == {k \in Nat : \E run : X01Unrolled(run, state, throws, cfg, k)}
<1>1. 0 \in T
  <2>1. X01Unrolled([i \in 0..0 |-> X01Start(state)], state, throws, cfg, 0)
    BY DEF X01Unrolled
  <2> QED BY <2>1
<1>2. ASSUME NEW k \in T
      PROVE  k + 1 \in T
  <2>1. PICK run : X01Unrolled(run, state, throws, cfg, k)
    OBVIOUS
  <2> DEFINE longer == [i \in 0..k + 1 |-> IF i = 0 THEN X01Start(state)
                                           ELSE X01Step(run[i - 1], throws[i], cfg)]
  <2>2. \A i \in 0..k : longer[i] = run[i]
    BY <2>1 DEF X01Unrolled
  <2>3. ASSUME NEW i \in 0..k + 1
        PROVE  longer[i] = IF i = 0 THEN X01Start(state)
                           ELSE X01Step(longer[i - 1], throws[i], cfg)
    <3>1. CASE i = 0
      BY <3>1
    <3>2. CASE i # 0
      <4>1. i - 1 \in 0..k
        BY <3>2
      <4>2. longer[i - 1] = run[i - 1]
        BY <2>2, <4>1
      <4> QED BY <3>2, <4>2
    <3> QED BY <3>1, <3>2
  <2>4. longer = [i \in 0..k + 1 |-> longer[i]]
    OBVIOUS
  <2> HIDE DEF longer
  <2>5. X01Unrolled(longer, state, throws, cfg, k + 1)
    BY <2>3, <2>4, Zenon DEF X01Unrolled
  <2> QED BY <2>5
<1>3. T = Nat
  <2> HIDE DEF T
  <2>1. T \in SUBSET Nat
    BY DEF T
  <2> QED BY <1>1, <1>2, <2>1, Induction
<1> QED BY <1>3

X01Run(run, state, throws, cfg) ==
    /\ run[0] = X01Start(state)
    /\ \A i \in 1..Len(throws) : run[i] = X01Step(run[i - 1], throws[i], cfg)
    /\ X01ApplyVisit(state, throws, cfg) = FinalX01(state, run[Len(throws)])

(* So a visit's darts have such a run.                                     *)
LEMMA X01VisitRuns ==
    ASSUME NEW state, NEW throws, Len(throws) \in Nat, NEW cfg
    PROVE  \E run : X01Run(run, state, throws, cfg)
<1> DEFINE run == CHOOSE f : X01Unrolled(f, state, throws, cfg, Len(throws))
<1>1. X01Unrolled(run, state, throws, cfg, Len(throws))
  BY X01Unrolls
<1>2. X01ApplyVisit(state, throws, cfg) = FinalX01(state, run[Len(throws)])
  BY DEF X01ApplyVisit, X01Unrolled, X01Start, X01Step
<1> HIDE DEF run
<1>3. /\ run[0] = X01Start(state)
      /\ \A i \in 1..Len(throws) : run[i] = X01Step(run[i - 1], throws[i], cfg)
  BY <1>1 DEF X01Unrolled
<1> QED BY <1>2, <1>3 DEF X01Run

CricketStart(states) == [states |-> states, darts |-> <<>>, won |-> FALSE]

CricketStep(run, team, t, variant) ==
    IF run.won THEN run ELSE AddCricketDart(run, CricketApplyDart(run.states, team, t, variant))

CricketUnrolled(run, states, team, throws, variant, n) ==
    run = [i \in 0..n |-> IF i = 0 THEN CricketStart(states)
                          ELSE CricketStep(run[i - 1], team, throws[i], variant)]

(* Such a function exists, for any number of darts.                        *)
LEMMA CricketUnrolls ==
    ASSUME NEW states, NEW team, NEW throws, NEW variant, NEW n \in Nat
    PROVE  \E run : CricketUnrolled(run, states, team, throws, variant, n)
<1> DEFINE T == {k \in Nat : \E run : CricketUnrolled(run, states, team, throws, variant, k)}
<1>1. 0 \in T
  <2>1. CricketUnrolled([i \in 0..0 |-> CricketStart(states)], states, team, throws, variant, 0)
    BY DEF CricketUnrolled
  <2> QED BY <2>1
<1>2. ASSUME NEW k \in T
      PROVE  k + 1 \in T
  <2>1. PICK run : CricketUnrolled(run, states, team, throws, variant, k)
    OBVIOUS
  <2> DEFINE longer == [i \in 0..k + 1 |-> IF i = 0 THEN CricketStart(states)
                                           ELSE CricketStep(run[i - 1], team, throws[i], variant)]
  <2>2. \A i \in 0..k : longer[i] = run[i]
    BY <2>1 DEF CricketUnrolled
  <2>3. ASSUME NEW i \in 0..k + 1
        PROVE  longer[i] = IF i = 0 THEN CricketStart(states)
                           ELSE CricketStep(longer[i - 1], team, throws[i], variant)
    <3>1. CASE i = 0
      BY <3>1
    <3>2. CASE i # 0
      <4>1. i - 1 \in 0..k
        BY <3>2
      <4>2. longer[i - 1] = run[i - 1]
        BY <2>2, <4>1
      <4> QED BY <3>2, <4>2
    <3> QED BY <3>1, <3>2
  <2>4. longer = [i \in 0..k + 1 |-> longer[i]]
    OBVIOUS
  <2> HIDE DEF longer
  <2>5. CricketUnrolled(longer, states, team, throws, variant, k + 1)
    BY <2>3, <2>4, Zenon DEF CricketUnrolled
  <2> QED BY <2>5
<1>3. T = Nat
  <2> HIDE DEF T
  <2>1. T \in SUBSET Nat
    BY DEF T
  <2> QED BY <1>1, <1>2, <2>1, Induction
<1> QED BY <1>3

CricketRun(run, states, team, throws, variant) ==
    /\ run[0] = CricketStart(states)
    /\ \A i \in 1..Len(throws) : run[i] = CricketStep(run[i - 1], team, throws[i], variant)
    /\ CricketApplyVisit(states, team, throws, variant) = run[Len(throws)]

(* So a visit's darts have such a run.                                     *)
LEMMA CricketVisitRuns ==
    ASSUME NEW states, NEW team, NEW throws, Len(throws) \in Nat, NEW variant
    PROVE  \E run : CricketRun(run, states, team, throws, variant)
<1> DEFINE run == CHOOSE f : CricketUnrolled(f, states, team, throws, variant, Len(throws))
<1>1. CricketUnrolled(run, states, team, throws, variant, Len(throws))
  BY CricketUnrolls
<1>2. CricketApplyVisit(states, team, throws, variant) = run[Len(throws)]
  BY DEF CricketApplyVisit, CricketUnrolled, CricketStart, CricketStep
<1> HIDE DEF run
<1>3. /\ run[0] = CricketStart(states)
      /\ \A i \in 1..Len(throws) : run[i] = CricketStep(run[i - 1], team, throws[i], variant)
  BY <1>1 DEF CricketUnrolled
<1> QED BY <1>2, <1>3 DEF CricketRun

LegStep(rules, members, darts, leg) ==
    IF leg.refused \/ leg.offset = Len(darts) THEN leg
    ELSE PlayVisit(rules, members, darts, leg)

LegUnrolled(leg, rules, members, starter, darts, n) ==
    leg = [i \in 0..n |-> IF i = 0 THEN Opening(rules, members, starter)
                          ELSE LegStep(rules, members, darts, leg[i - 1])]

(* Such a function exists, for any number of visits.                       *)
LEMMA LegUnrolls ==
    ASSUME NEW rules, NEW members, NEW starter, NEW darts, NEW n \in Nat
    PROVE  \E leg : LegUnrolled(leg, rules, members, starter, darts, n)
<1> DEFINE T == {k \in Nat : \E leg : LegUnrolled(leg, rules, members, starter, darts, k)}
<1>1. 0 \in T
  <2>1. LegUnrolled([i \in 0..0 |-> Opening(rules, members, starter)],
                    rules, members, starter, darts, 0)
    BY DEF LegUnrolled
  <2> QED BY <2>1
<1>2. ASSUME NEW k \in T
      PROVE  k + 1 \in T
  <2>1. PICK leg : LegUnrolled(leg, rules, members, starter, darts, k)
    OBVIOUS
  <2> DEFINE longer == [i \in 0..k + 1 |-> IF i = 0 THEN Opening(rules, members, starter)
                                           ELSE LegStep(rules, members, darts, leg[i - 1])]
  <2>2. \A i \in 0..k : longer[i] = leg[i]
    BY <2>1 DEF LegUnrolled
  <2>3. ASSUME NEW i \in 0..k + 1
        PROVE  longer[i] = IF i = 0 THEN Opening(rules, members, starter)
                           ELSE LegStep(rules, members, darts, longer[i - 1])
    <3>1. CASE i = 0
      BY <3>1
    <3>2. CASE i # 0
      <4>1. i - 1 \in 0..k
        BY <3>2
      <4>2. longer[i - 1] = leg[i - 1]
        BY <2>2, <4>1
      <4> QED BY <3>2, <4>2
    <3> QED BY <3>1, <3>2
  <2>4. longer = [i \in 0..k + 1 |-> longer[i]]
    OBVIOUS
  <2> HIDE DEF longer
  <2>5. LegUnrolled(longer, rules, members, starter, darts, k + 1)
    BY <2>3, <2>4, Zenon DEF LegUnrolled
  <2> QED BY <2>5
<1>3. T = Nat
  <2> HIDE DEF T
  <2>1. T \in SUBSET Nat
    BY DEF T
  <2> QED BY <1>1, <1>2, <2>1, Induction
<1> QED BY <1>3

(* The stages of a replay: the leg after so many visits, the last of which *)
(* is kept once the record is used up.                                     *)
Stages(leg, rules, members, starter, darts) ==
    /\ leg[0] = Opening(rules, members, starter)
    /\ \A i \in 1..Len(darts) : leg[i] = LegStep(rules, members, darts, leg[i - 1])
    /\ LegReplay(rules, members, starter, darts) = leg[Len(darts)]

(* So every leg has its stages, one for each visit replayed.               *)
LEMMA LegHasStages ==
    ASSUME NEW rules, NEW members, NEW starter, NEW darts, Len(darts) \in Nat
    PROVE  \E leg : Stages(leg, rules, members, starter, darts)
<1> DEFINE leg == CHOOSE f : LegUnrolled(f, rules, members, starter, darts, Len(darts))
<1>1. LegUnrolled(leg, rules, members, starter, darts, Len(darts))
  BY LegUnrolls
<1>2. LegReplay(rules, members, starter, darts) = leg[Len(darts)]
  BY DEF LegReplay, LegUnrolled, LegStep
<1> HIDE DEF leg
<1>3. /\ leg[0] = Opening(rules, members, starter)
      /\ \A i \in 1..Len(darts) : leg[i] = LegStep(rules, members, darts, leg[i - 1])
  BY <1>1 DEF LegUnrolled
<1> QED BY <1>2, <1>3 DEF Stages
-----------------------------------------------------------------------------
(* Sequences, of whatever elements.                                        *)
IsSeq(s) == \E S : s \in Seq(S)

Grown(more, s, e) ==
    /\ IsSeq(more) /\ Len(s) \in Nat /\ Len(more) = Len(s) + 1
    /\ more[Len(s) + 1] = e
    /\ \A i \in 1..Len(s) : more[i] = s[i]

(* Appending is growing by one element.                                    *)
LEMMA SeqGrows ==
    ASSUME NEW s, IsSeq(s), NEW e, NEW more, more = Append(s, e)
    PROVE  Grown(more, s, e)
<1>1. PICK S : s \in Seq(S)
  BY DEF IsSeq
<1>2. s \in Seq(S \cup {e}) /\ e \in S \cup {e}
  BY <1>1, SeqMonotonic
<1> QED BY <1>2, AppendProperties, LenProperties DEF IsSeq, Grown

HasLength(s, n) == Len(s) = n

(* The empty sequence has no elements.                                     *)
LEMMA EmptyIsSeq == IsSeq(<<>>) /\ Len(<<>>) = 0
BY EmptySeq DEF IsSeq

(* What a visit of x01 takes: its first dart, and on until it has ended.   *)
X01Taken(run, i) ==
    /\ run[i] = [state |-> run[i].state, darts |-> run[i].darts, bust |-> run[i].bust,
                 won |-> run[i].won]
    /\ IsSeq(run[i].darts) /\ Len(run[i].darts) <= i /\ run[i].won \in BOOLEAN
    /\ ~Ended(run[i]) => HasLength(run[i].darts, i)
    /\ i > 0 => Len(run[i].darts) > 0

(* After i darts of an x01 visit it has taken i, or ended before.          *)
LEMMA X01Takes ==
    ASSUME NEW run, NEW state, NEW throws, Len(throws) \in Nat, NEW cfg,
           X01Run(run, state, throws, cfg)
    PROVE  \A i \in 0..Len(throws) : X01Taken(run, i)
<1> DEFINE T == {i \in 0..Len(throws) : X01Taken(run, i)}
<1>1. 0 \in T
  <2>1. run[0] = [state |-> state, darts |-> <<>>, bust |-> NoBust, won |-> FALSE]
    BY DEF X01Run, X01Start
  <2>2. run[0].darts = <<>> /\ ~run[0].won /\ run[0].won \in BOOLEAN
    BY <2>1
  <2>3. IsSeq(run[0].darts) /\ Len(run[0].darts) = 0
    BY <2>2, EmptyIsSeq
  <2>4. Len(run[0].darts) <= 0 /\ HasLength(run[0].darts, 0)
    BY <2>3 DEF HasLength
  <2>5. run[0] = [state |-> run[0].state, darts |-> run[0].darts, bust |-> run[0].bust,
                  won |-> run[0].won]
    BY <2>1
  <2>6. X01Taken(run, 0)
    BY <2>2, <2>3, <2>4, <2>5 DEF X01Taken
  <2> QED BY <2>6
<1>2. ASSUME NEW i \in 0..Len(throws) - 1, i \in T
      PROVE  i + 1 \in T
  <2>1. run[i + 1] = X01Step(run[i], throws[i + 1], cfg)
    BY DEF X01Run
  <2>2. CASE Ended(run[i])
    <3>1. run[i + 1] = run[i] /\ i > 0
      BY <2>1, <2>2 DEF X01Step, Ended, X01Run, X01Start
    <3> QED BY <1>2, <2>2, <3>1 DEF X01Taken
  <2>3. CASE ~Ended(run[i])
    <3>1. PICK dart : dart = X01ApplyDart(run[i].state, throws[i + 1], cfg)
      OBVIOUS
    <3>2. dart.checkout \in BOOLEAN
      BY <3>1 DEF X01ApplyDart, DartOutcome
    <3>3. run[i + 1].darts = Append(run[i].darts, dart) /\ run[i + 1].won = dart.checkout
      BY <2>1, <2>3, <3>1 DEF X01Step, AddX01Dart
    <3>4. IsSeq(run[i].darts) /\ Len(run[i].darts) = i
      BY <1>2, <2>3 DEF X01Taken, HasLength
    <3>5. Grown(run[i + 1].darts, run[i].darts, dart)
      BY <3>3, <3>4, SeqGrows
    <3>6. IsSeq(run[i + 1].darts) /\ Len(run[i + 1].darts) = i + 1
      BY <3>4, <3>5 DEF Grown
    <3>7. run[i + 1] = [state |-> run[i + 1].state, darts |-> run[i + 1].darts,
                        bust |-> run[i + 1].bust, won |-> run[i + 1].won]
      BY <2>1, <2>3 DEF X01Step, AddX01Dart
    <3>8. /\ Len(run[i + 1].darts) <= i + 1 /\ Len(run[i + 1].darts) > 0
          /\ HasLength(run[i + 1].darts, i + 1)
      BY <3>6 DEF HasLength
    <3>9. run[i + 1].won \in BOOLEAN
      BY <3>2, <3>3
    <3>10. X01Taken(run, i + 1)
      BY <3>6, <3>7, <3>8, <3>9 DEF X01Taken
    <3> QED BY <3>10
  <2> QED BY <2>2, <2>3
<1> HIDE DEF T
<1>3. 0..Len(throws) \subseteq T
  BY <1>1, <1>2, UpTo
<1> QED BY <1>3 DEF T

(* Of a visit of cricket likewise.                                         *)
CricketTaken(run, i) ==
    /\ IsSeq(run[i].darts) /\ Len(run[i].darts) <= i /\ run[i].won \in BOOLEAN
    /\ ~run[i].won => HasLength(run[i].darts, i)
    /\ i > 0 => Len(run[i].darts) > 0

(* The same of cricket, which only a win ends early.                       *)
LEMMA CricketTakes ==
    ASSUME NEW run, NEW states, NEW team, NEW throws, Len(throws) \in Nat, NEW variant,
           CricketRun(run, states, team, throws, variant)
    PROVE  \A i \in 0..Len(throws) : CricketTaken(run, i)
<1> DEFINE T == {i \in 0..Len(throws) : CricketTaken(run, i)}
<1>1. 0 \in T
  <2>1. run[0].darts = <<>> /\ ~run[0].won /\ run[0].won \in BOOLEAN
    BY DEF CricketRun, CricketStart
  <2>2. IsSeq(run[0].darts) /\ Len(run[0].darts) = 0
    BY <2>1, EmptyIsSeq
  <2>3. Len(run[0].darts) <= 0 /\ HasLength(run[0].darts, 0)
    BY <2>2 DEF HasLength
  <2> QED BY <2>1, <2>2, <2>3 DEF CricketTaken
<1>2. ASSUME NEW i \in 0..Len(throws) - 1, i \in T
      PROVE  i + 1 \in T
  <2>1. run[i + 1] = CricketStep(run[i], team, throws[i + 1], variant)
    BY DEF CricketRun
  <2>2. CASE run[i].won
    <3>1. run[i + 1] = run[i] /\ i > 0
      BY <2>1, <2>2 DEF CricketStep, CricketRun, CricketStart
    <3> QED BY <1>2, <2>2, <3>1 DEF CricketTaken
  <2>3. CASE ~run[i].won
    <3>1. PICK dart : dart = CricketApplyDart(run[i].states, team, throws[i + 1], variant)
      OBVIOUS
    <3>2. dart.win \in BOOLEAN
      BY <3>1 DEF CricketApplyDart, TargetOutcome, HasWon, HasClosedAll, HasClosed
    <3>3. run[i + 1].darts = Append(run[i].darts, dart) /\ run[i + 1].won = dart.win
      BY <2>1, <2>3, <3>1 DEF CricketStep, AddCricketDart
    <3>4. IsSeq(run[i].darts) /\ Len(run[i].darts) = i
      BY <1>2, <2>3 DEF CricketTaken, HasLength
    <3>5. Grown(run[i + 1].darts, run[i].darts, dart)
      BY <3>3, <3>4, SeqGrows
    <3>6. IsSeq(run[i + 1].darts) /\ Len(run[i + 1].darts) = i + 1
      BY <3>4, <3>5 DEF Grown
    <3>7. /\ Len(run[i + 1].darts) <= i + 1 /\ Len(run[i + 1].darts) > 0
          /\ HasLength(run[i + 1].darts, i + 1)
      BY <3>6 DEF HasLength
    <3>8. run[i + 1].won \in BOOLEAN
      BY <3>2, <3>3
    <3>9. CricketTaken(run, i + 1)
      BY <3>6, <3>7, <3>8 DEF CricketTaken
    <3> QED BY <3>9
  <2> QED BY <2>2, <2>3
<1> HIDE DEF T
<1>3. 0..Len(throws) \subseteq T
  BY <1>1, <1>2, UpTo
<1> QED BY <1>3 DEF T

(* Voiding a visit that bust leaves what it took, and why it ended.        *)
FinalIs(visit, end) ==
    /\ visit.won = end.won /\ visit.bust = end.bust
    /\ IsSeq(visit.darts) /\ Len(visit.darts) = Len(end.darts)
    /\ end.bust = NoBust => visit = end
    /\ end.bust # NoBust => \A i \in 1..Len(end.darts) :
            visit.darts[i] = [end.darts[i] EXCEPT !.counted = FALSE]

(* Closing an x01 visit changes the teams' standing, and counts none of    *)
(* the darts of a bust; it adds and removes no dart.                       *)
LEMMA FinalX01Is ==
    ASSUME NEW state, NEW end, IsSeq(end.darts),
           end = [state |-> end.state, darts |-> end.darts, bust |-> end.bust, won |-> end.won],
           NEW visit, visit = FinalX01(state, end)
    PROVE  FinalIs(visit, end)
<1>1. CASE end.bust = NoBust
  BY <1>1 DEF FinalX01, FinalIs
<1>2. CASE end.bust # NoBust
  <2>1. PICK S : end.darts \in Seq(S)
    BY DEF IsSeq
  <2>2. PICK m \in Nat : m = Len(end.darts) /\ DOMAIN end.darts = 1..m
    BY <2>1, LenProperties
  <2>3. visit = Voided(state, end)
    BY <1>2 DEF FinalX01
  <2>4. visit.won = end.won /\ visit.bust = end.bust /\ visit.darts = Uncounted(end.darts)
    BY <2>3 DEF Voided
  <2>5. visit.darts = [i \in 1..m |-> [end.darts[i] EXCEPT !.counted = FALSE]]
    BY <2>2, <2>4 DEF Uncounted
  <2> DEFINE U == {[end.darts[i] EXCEPT !.counted = FALSE] : i \in 1..m}
  <2>6. visit.darts \in [1..m -> U]
    BY <2>5
  <2>7. visit.darts \in Seq(U) /\ Len(visit.darts) = m
    <3> HIDE DEF U
    <3> QED BY <2>6
  <2>8. \A i \in 1..m : visit.darts[i] = [end.darts[i] EXCEPT !.counted = FALSE]
    BY <2>5
  <2>9. IsSeq(visit.darts)
    <3> HIDE DEF U
    <3> QED BY <2>7 DEF IsSeq
  <2> QED BY <1>2, <2>2, <2>4, <2>7, <2>8, <2>9 DEF FinalIs
<1> QED BY <1>1, <1>2

(* A visit takes at least a dart and no more than it is given; a visit     *)
(* that neither busts nor wins takes them all.                             *)
Takes(outcome, n) ==
    /\ IsSeq(outcome.darts) /\ Len(outcome.darts) \in 1..n
    /\ outcome.won \in BOOLEAN /\ outcome.bust \in BOOLEAN
    /\ ~outcome.won /\ ~outcome.bust => Len(outcome.darts) = n

(* A visit of either game takes at least one of the darts it is given, and *)
(* all of them unless it ends.                                             *)
LEMMA VisitTakes ==
    ASSUME NEW rules, NEW states, NEW team, NEW throws, Len(throws) \in Nat \ {0}
    PROVE  Takes(VisitOutcome(rules, states, team, throws), Len(throws))
<1> DEFINE n == Len(throws)
<1>1. CASE rules.game = "x01"
  <2>1. PICK run : X01Run(run, states[team], throws, rules)
    BY X01VisitRuns
  <2>2. X01Taken(run, n)
    BY <2>1, X01Takes
  <2>3. PICK visit : visit = FinalX01(states[team], run[n])
    OBVIOUS
  <2>4. /\ visit.won = run[n].won /\ visit.bust = run[n].bust
        /\ Len(visit.darts) = Len(run[n].darts) /\ IsSeq(visit.darts)
    <3>1. PICK end : end = run[n]
      OBVIOUS
    <3>2. FinalIs(visit, end)
      BY <2>2, <2>3, <3>1, FinalX01Is DEF X01Taken
    <3> QED BY <3>1, <3>2 DEF FinalIs
  <2>5. VisitOutcome(rules, states, team, throws) = X01Outcome(states, team, visit)
    BY <1>1, <2>1, <2>3 DEF VisitOutcome, X01Run
  <2>6. PICK outcome : outcome = VisitOutcome(rules, states, team, throws)
    OBVIOUS
  <2>7. /\ outcome.darts = visit.darts /\ outcome.won = visit.won
        /\ outcome.bust \in BOOLEAN /\ (outcome.bust <=> visit.bust # NoBust)
    <3>1. /\ outcome.darts = visit.darts /\ outcome.won = visit.won
          /\ outcome.bust = (visit.bust # NoBust)
      BY <2>5, <2>6 DEF X01Outcome
    <3> QED BY <3>1
  <2>8. /\ Len(run[n].darts) \in 1..n /\ run[n].won \in BOOLEAN
        /\ ~run[n].won /\ run[n].bust = NoBust => Len(run[n].darts) = n
    <3>1. PICK S : run[n].darts \in Seq(S)
      BY <2>2 DEF X01Taken, IsSeq
    <3>2. Len(run[n].darts) \in Nat
      BY <3>1, LenProperties
    <3> QED BY <2>2, <3>2 DEF X01Taken, Ended, HasLength
  <2>9. /\ IsSeq(outcome.darts) /\ Len(outcome.darts) \in 1..n
        /\ outcome.won \in BOOLEAN
    BY <2>4, <2>7, <2>8
  <2>10. ~outcome.won /\ ~outcome.bust => Len(outcome.darts) = n
    BY <2>4, <2>7, <2>8
  <2> QED BY <2>6, <2>7, <2>9, <2>10 DEF Takes
<1>2. CASE rules.game # "x01"
  <2>1. PICK run : CricketRun(run, states, team, throws, rules.variant)
    BY CricketVisitRuns
  <2>2. CricketTaken(run, n)
    BY <2>1, CricketTakes
  <2>3. VisitOutcome(rules, states, team, throws) = CricketOutcome(states, team, run[n])
    BY <1>2, <2>1 DEF VisitOutcome, CricketRun
  <2>4. PICK outcome : outcome = VisitOutcome(rules, states, team, throws)
    OBVIOUS
  <2>5. /\ outcome.darts = run[n].darts /\ outcome.won = run[n].won
        /\ outcome.bust = FALSE
    BY <2>3, <2>4 DEF CricketOutcome
  <2>6. Len(run[n].darts) \in 1..n
    <3>1. PICK S : run[n].darts \in Seq(S)
      BY <2>2 DEF CricketTaken, IsSeq
    <3>2. Len(run[n].darts) \in Nat
      BY <3>1, LenProperties
    <3> QED BY <2>2, <3>2 DEF CricketTaken
  <2> QED BY <2>2, <2>4, <2>5, <2>6 DEF CricketTaken, Takes, HasLength
<1> QED BY <1>1, <1>2
-----------------------------------------------------------------------------
(* The darts of the next visit: at most three, and all that are left if    *)
(* fewer.                                                                  *)
NextOf(throws, darts, offset) ==
    /\ throws = NextThrows(darts, offset)
    /\ Len(throws) \in 1..DartsPerVisit /\ Len(throws) <= Len(darts) - offset
    /\ Len(throws) # DartsPerVisit => Len(throws) = Len(darts) - offset
    /\ \A i \in 1..Len(throws) : throws[i] = darts[offset + i]

(* The darts of the next visit are the following three, or as many as are  *)
(* left.                                                                   *)
LEMMA NextThrowsAre ==
    ASSUME NEW S, NEW darts \in Seq(S), NEW offset \in Nat, offset < Len(darts),
           NEW throws, throws = NextThrows(darts, offset)
    PROVE  throws \in Seq(S) /\ NextOf(throws, darts, offset)
<1>1. PICK thrown \in Nat : thrown = Len(darts)
  BY LenProperties
<1>2. PICK n : n = IF thrown - offset < DartsPerVisit THEN thrown - offset ELSE DartsPerVisit
  OBVIOUS
<1>3. n \in 1..DartsPerVisit /\ n <= thrown - offset /\ (n # DartsPerVisit => n = thrown - offset)
  BY <1>1, <1>2 DEF DartsPerVisit
<1>4. throws = SubSeq(darts, offset + 1, offset + n)
  BY <1>1, <1>2 DEF NextThrows
<1>5. offset + 1 \in 1..thrown + 1 /\ offset + n \in offset + 1 - 1..thrown
  BY <1>1, <1>3 DEF DartsPerVisit
<1>6. \A i \in offset + 1..offset + n : darts[i] \in S
  <2>1. \A i \in offset + 1..offset + n : i \in 1..thrown
    BY <1>5
  <2> QED BY <1>1, <2>1, ElementOfSeq
<1>7. throws \in Seq(S) /\ Len(throws) = n /\ \A i \in 1..n : throws[i] = darts[offset + i]
  <2>1. PICK a \in Int, b \in Int : a = offset + 1 /\ b = offset + n
    BY <1>3 DEF DartsPerVisit
  <2>2. a <= b /\ b - a + 1 = n /\ \A i \in 1..n : a + i - 1 = offset + i
    BY <1>3, <2>1 DEF DartsPerVisit
  <2>3. throws = SubSeq(darts, a, b) /\ \A i \in a..b : darts[i] \in S
    BY <1>4, <1>6, <2>1
  <2>4. /\ throws \in Seq(S) /\ Len(throws) = IF a <= b THEN b - a + 1 ELSE 0
        /\ \A i \in 1..b - a + 1 : throws[i] = darts[a + i - 1]
    BY <2>3, SubSeqProperties
  <2>5. Len(throws) = n
    BY <2>2, <2>4
  <2>6. \A i \in 1..n : throws[i] = darts[offset + i]
    BY <2>2, <2>4
  <2> QED BY <2>4, <2>5, <2>6
<1> QED BY <1>1, <1>3, <1>7 DEF NextOf

(* A leg as far as it has been replayed: every visit but the last is       *)
(* complete, and unless the replay is over the last is complete too.       *)
Complete(visits, n) == \A v \in 1..n : visits[v].complete

LegShape(leg) ==
    leg = [teams |-> leg.teams, visits |-> leg.visits, counts |-> leg.counts,
           active |-> leg.active, offset |-> leg.offset, winner |-> leg.winner,
           refused |-> leg.refused]

Going(leg) == ~leg.refused /\ leg.winner = NoTeam /\ Complete(leg.visits, Len(leg.visits))

LegOK(leg, thrown) ==
    /\ LegShape(leg)
    /\ IsSeq(leg.visits) /\ leg.offset \in 0..thrown /\ leg.refused \in BOOLEAN
    /\ leg.offset # thrown /\ ~leg.refused => Going(leg)
    /\ Complete(leg.visits, Len(leg.visits) - 1)

(* The visit a leg gains.                                                  *)
VisitMade(visit, members, leg, outcome) ==
    visit = [team     |-> leg.active,
             member   |-> ThrowerFor(members, leg.active, leg.counts[leg.active]),
             darts    |-> outcome.darts,
             before   |-> outcome.before,
             after    |-> outcome.after,
             bust     |-> outcome.bust,
             complete |-> IsComplete(outcome)]

Gained(next, members, thrown, leg, outcome, visit) ==
    /\ LegShape(next)
    /\ next.teams = outcome.teams
    /\ VisitMade(visit, members, leg, outcome)
    /\ Grown(next.visits, leg.visits, visit)
    /\ next.offset = leg.offset + Len(outcome.darts)
    /\ next.refused = (outcome.won /\ next.offset # thrown)
    /\ next.winner = IF outcome.won THEN leg.active ELSE NoTeam

Turned(next, members, leg, outcome) ==
    IF IsComplete(outcome) /\ ~outcome.won
    THEN /\ next.active = (leg.active + 1) % Cardinality(DOMAIN members)
         /\ next.counts = [leg.counts EXCEPT ![leg.active] = @ + 1]
    ELSE next.active = leg.active /\ next.counts = [leg.counts EXCEPT ![leg.active] = @]

(* Recording a visit adds one to the list and passes the turn, when there  *)
(* is no winner.                                                           *)
LEMMA AfterVisitIs ==
    ASSUME NEW members, NEW thrown, NEW leg, IsSeq(leg.visits), NEW outcome,
           NEW next, next = AfterVisit(members, thrown, leg, outcome)
    PROVE  /\ \E visit : Gained(next, members, thrown, leg, outcome, visit)
           /\ Turned(next, members, leg, outcome)
<1>1. PICK visit : VisitMade(visit, members, leg, outcome)
  BY DEF VisitMade
<1>2. PICK turned : turned = (IsComplete(outcome) /\ ~outcome.won)
  OBVIOUS
<1>3. PICK counts : counts = [leg.counts EXCEPT ![leg.active] = IF turned THEN @ + 1 ELSE @]
  OBVIOUS
<1>4. PICK active : active = IF turned THEN (leg.active + 1) % Cardinality(DOMAIN members)
                             ELSE leg.active
  OBVIOUS
<1>5. PICK offset : offset = leg.offset + Len(outcome.darts)
  OBVIOUS
<1>6. PICK visits : visits = Append(leg.visits, visit)
  OBVIOUS
<1>7. PICK winner : winner = IF outcome.won THEN leg.active ELSE NoTeam
  OBVIOUS
<1>8. PICK refused : refused = (outcome.won /\ offset # thrown)
  OBVIOUS
<1>9. next = [teams |-> outcome.teams, visits |-> visits, counts |-> counts, active |-> active,
              offset |-> offset, winner |-> winner, refused |-> refused]
  BY <1>1, <1>2, <1>3, <1>4, <1>5, <1>6, <1>7, <1>8 DEF AfterVisit, VisitMade
<1>10. LegShape(next)
  BY <1>9 DEF LegShape
<1>11. Grown(visits, leg.visits, visit)
  BY <1>6, SeqGrows
<1>12. Gained(next, members, thrown, leg, outcome, visit)
  BY <1>1, <1>5, <1>7, <1>8, <1>9, <1>10, <1>11 DEF Gained
<1>13. Turned(next, members, leg, outcome)
  <2>1. next.active = active /\ next.counts = counts
    BY <1>9
  <2>2. CASE turned
    <3>1. /\ active = (leg.active + 1) % Cardinality(DOMAIN members)
          /\ counts = [leg.counts EXCEPT ![leg.active] = @ + 1]
      BY <1>3, <1>4, <2>2
    <3> QED BY <1>2, <2>1, <2>2, <3>1 DEF Turned
  <2>3. CASE ~turned
    <3>1. active = leg.active /\ counts = [leg.counts EXCEPT ![leg.active] = @]
      BY <1>3, <1>4, <2>3
    <3> QED BY <1>2, <2>1, <2>3, <3>1 DEF Turned
  <2> QED BY <2>2, <2>3
<1> QED BY <1>12, <1>13

(* One more visit: the engine refuses a position already won, or the leg   *)
(* gains the visit that the next darts make.                               *)
Refusal(next, leg) ==
    /\ LegShape(next) /\ next.refused = TRUE
    /\ next.visits = leg.visits /\ next.offset = leg.offset /\ next.winner = leg.winner
    /\ next.teams = leg.teams /\ next.counts = leg.counts /\ next.active = leg.active

Played(next, rules, members, darts, leg, throws, outcome, visit) ==
    /\ NextOf(throws, darts, leg.offset)
    /\ outcome = VisitOutcome(rules, leg.teams, leg.active, throws)
    /\ Takes(outcome, Len(throws))
    /\ Gained(next, members, Len(darts), leg, outcome, visit)
    /\ Turned(next, members, leg, outcome)

(* A step of the replay refuses a visit of a team that has nothing left to *)
(* do, or plays it.                                                        *)
LEMMA PlayVisitIs ==
    ASSUME NEW S, NEW darts \in Seq(S), NEW rules, NEW members, NEW leg,
           LegOK(leg, Len(darts)), ~leg.refused, leg.offset # Len(darts),
           NEW next, next = PlayVisit(rules, members, darts, leg)
    PROVE  \/ AlreadyWon(rules, leg.teams, leg.active) /\ Refusal(next, leg)
           \/ /\ ~AlreadyWon(rules, leg.teams, leg.active)
              /\ \E throws \in Seq(S) : \E outcome, visit :
                    Played(next, rules, members, darts, leg, throws, outcome, visit)
<1>1. CASE AlreadyWon(rules, leg.teams, leg.active)
  <2>1. next = [leg EXCEPT !.refused = TRUE]
    BY <1>1 DEF PlayVisit
  <2>2. LegShape(leg)
    BY DEF LegOK
  <2>3. Refusal(next, leg)
    BY <2>1, <2>2 DEF LegShape, Refusal
  <2> QED BY <1>1, <2>3
<1>2. CASE ~AlreadyWon(rules, leg.teams, leg.active)
  <2>1. leg.offset \in Nat /\ leg.offset < Len(darts) /\ IsSeq(leg.visits)
    <3>1. PICK n \in Nat : n = Len(darts)
      BY LenProperties
    <3>2. leg.offset \in 0..n /\ leg.offset # n
      BY <3>1 DEF LegOK
    <3>3. leg.offset \in Nat /\ leg.offset < n
      BY <3>2
    <3> QED BY <3>1, <3>3 DEF LegOK
  <2>2. PICK throws : throws = NextThrows(darts, leg.offset)
    OBVIOUS
  <2>3. throws \in Seq(S) /\ NextOf(throws, darts, leg.offset)
    BY <2>1, <2>2, NextThrowsAre
  <2>4. Len(throws) \in Nat \ {0}
    <3>1. Len(throws) \in 1..DartsPerVisit
      BY <2>3 DEF NextOf
    <3> QED BY <3>1 DEF DartsPerVisit
  <2>5. PICK outcome : outcome = VisitOutcome(rules, leg.teams, leg.active, throws)
    OBVIOUS
  <2>6. Takes(outcome, Len(throws))
    BY <2>4, <2>5, VisitTakes
  <2>7. next = AfterVisit(members, Len(darts), leg, outcome)
    BY <1>2, <2>2, <2>5 DEF PlayVisit
  <2>8. /\ \E visit : Gained(next, members, Len(darts), leg, outcome, visit)
        /\ Turned(next, members, leg, outcome)
    BY <2>1, <2>7, AfterVisitIs
  <2> QED BY <1>2, <2>3, <2>5, <2>6, <2>8 DEF Played
<1> QED BY <1>1, <1>2

(* The visit gained is complete, or it is the last there is: the record is *)
(* used up.                                                                *)
LEMMA PlayedKeepsOK ==
    ASSUME NEW S, NEW darts \in Seq(S), NEW rules, NEW members, NEW leg,
           LegOK(leg, Len(darts)), ~leg.refused, leg.offset # Len(darts),
           NEW next, NEW throws \in Seq(S), NEW outcome, NEW visit,
           Played(next, rules, members, darts, leg, throws, outcome, visit)
    PROVE  /\ LegOK(next, Len(darts))
           /\ next.offset \in Nat /\ next.offset > leg.offset
<1>1. PICK n \in Nat : n = Len(darts)
  BY LenProperties
<1>2. /\ leg.offset \in Nat /\ leg.offset < n /\ Going(leg) /\ IsSeq(leg.visits)
  <2>1. leg.offset \in 0..n /\ leg.offset # n
    BY <1>1 DEF LegOK
  <2> QED BY <1>1, <2>1 DEF LegOK
<1>3. PICK m, d : m = Len(throws) /\ d = Len(outcome.darts)
  OBVIOUS
<1>4. /\ m \in 1..3 /\ m <= n - leg.offset /\ (m # 3 => m = n - leg.offset)
      /\ d \in 1..m /\ next.offset = leg.offset + d
      /\ ~outcome.won /\ ~outcome.bust => d = m
  BY <1>1, <1>3 DEF Played, NextOf, Takes, Gained, DartsPerVisit
<1>5. next.offset \in 0..n /\ next.offset \in Nat /\ next.offset > leg.offset
  BY <1>2, <1>4
<1>6. /\ LegShape(next) /\ Grown(next.visits, leg.visits, visit)
      /\ VisitMade(visit, members, leg, outcome)
      /\ next.refused = (outcome.won /\ next.offset # n)
      /\ next.winner = IF outcome.won THEN leg.active ELSE NoTeam
      /\ outcome.won \in BOOLEAN
  BY <1>1 DEF Played, Gained, Takes
<1>7. visit.complete = IsComplete(outcome)
  BY <1>6 DEF VisitMade
<1>8. ~IsComplete(outcome) => next.offset = n
  <2>1. SUFFICES ASSUME ~IsComplete(outcome)
                 PROVE  next.offset = n
    OBVIOUS
  <2>2. ~outcome.won /\ ~outcome.bust /\ d # 3
    BY <1>3, <2>1 DEF IsComplete, DartsPerVisit
  <2> QED BY <1>2, <1>4, <2>2
<1>9. PICK k \in Nat : k = Len(leg.visits) /\ Len(next.visits) = k + 1
  BY <1>6 DEF Grown
<1>10. Complete(next.visits, k)
  <2>1. Complete(leg.visits, k)
    BY <1>2, <1>9 DEF Going
  <2>2. \A v \in 1..k : next.visits[v] = leg.visits[v]
    BY <1>6, <1>9 DEF Grown
  <2> QED BY <2>1, <2>2 DEF Complete
<1>11. Complete(next.visits, Len(next.visits) - 1)
  <2>1. k + 1 - 1 = k
    OBVIOUS
  <2> QED BY <1>9, <1>10, <2>1
<1>12. ASSUME next.offset # n, ~next.refused
       PROVE  Going(next)
  <2>1. ~outcome.won /\ next.winner = NoTeam
    BY <1>6, <1>12
  <2>2. visit.complete
    BY <1>7, <1>8, <1>12
  <2>3. next.visits[k + 1] = visit
    BY <1>6, <1>9 DEF Grown
  <2>4. Complete(next.visits, k + 1)
    <3>1. \A v \in 1..k + 1 : v \in 1..k \/ v = k + 1
      OBVIOUS
    <3> QED BY <1>10, <2>2, <2>3, <3>1 DEF Complete
  <2> QED BY <1>9, <1>12, <2>1, <2>4 DEF Going
<1>13. IsSeq(next.visits) /\ next.refused \in BOOLEAN
  BY <1>6 DEF Grown
<1> QED BY <1>1, <1>5, <1>6, <1>11, <1>12, <1>13 DEF LegOK

(* A replay that refuses stops, as far as it had got.                      *)
LEMMA RefusalKeepsOK ==
    ASSUME NEW thrown, NEW leg, LegOK(leg, thrown), ~leg.refused, leg.offset # thrown,
           NEW next, Refusal(next, leg)
    PROVE  LegOK(next, thrown)
BY DEF LegOK, Refusal

(* A leg starts in order.                                                  *)
LEMMA OpeningIsOK ==
    ASSUME NEW rules, NEW members, NEW starter, NEW thrown \in Nat
    PROVE  LegOK(Opening(rules, members, starter), thrown)
<1>1. PICK leg : leg = Opening(rules, members, starter)
  OBVIOUS
<1>2. LegShape(leg) /\ leg.visits = <<>> /\ leg.offset = 0 /\ leg.refused = FALSE
      /\ leg.winner = NoTeam
  BY <1>1 DEF Opening, LegShape
<1>3. PICK n : n = Len(leg.visits) /\ n = 0 /\ IsSeq(leg.visits)
  BY <1>2, EmptyIsSeq
<1>4. Complete(leg.visits, n) /\ Complete(leg.visits, n - 1)
  BY <1>3 DEF Complete
<1>5. Going(leg) /\ Complete(leg.visits, Len(leg.visits) - 1)
  <2>1. Len(leg.visits) = n
    BY <1>3
  <2> QED BY <1>2, <1>4, <2>1 DEF Going
<1>6. IsSeq(leg.visits)
  BY <1>3
<1>7. leg.offset \in 0..thrown
  BY <1>2
<1>8. leg.refused \in BOOLEAN
  BY <1>2
<1> QED BY <1>1, <1>2, <1>5, <1>6, <1>7, <1>8 DEF LegOK

(* So the replay ends with the record used up, or refused.                 *)
UsedUp(leg, thrown) == leg.refused \/ leg.offset = thrown

(* All the stages of a leg are in order, and the last has used up the      *)
(* darts, refused them, or has a winner.                                   *)
LEMMA StagesAreOK ==
    ASSUME NEW S, NEW darts \in Seq(S), NEW rules, NEW members, NEW starter, NEW leg,
           Stages(leg, rules, members, starter, darts)
    PROVE  /\ \A i \in 0..Len(darts) : LegOK(leg[i], Len(darts))
           /\ UsedUp(leg[Len(darts)], Len(darts))
<1>1. PICK n \in Nat : n = Len(darts)
  BY LenProperties
<1> DEFINE T == {i \in 0..n : LegOK(leg[i], n) /\ (UsedUp(leg[i], n) \/ leg[i].offset >= i)}
<1>2. 0 \in T
  <2>1. leg[0] = Opening(rules, members, starter)
    BY DEF Stages
  <2>2. leg[0].offset = 0
    BY <2>1 DEF Opening
  <2> QED BY <2>1, <2>2, OpeningIsOK
<1>3. ASSUME NEW i \in 0..n - 1, i \in T
      PROVE  i + 1 \in T
  <2>1. leg[i + 1] = LegStep(rules, members, darts, leg[i])
    BY <1>1 DEF Stages
  <2>2. CASE UsedUp(leg[i], n)
    <3>1. leg[i + 1] = leg[i]
      BY <1>1, <2>1, <2>2 DEF LegStep, UsedUp
    <3> QED BY <1>3, <2>2, <3>1
  <2>3. CASE ~UsedUp(leg[i], n)
    <3>1. PICK before, next : before = leg[i] /\ next = leg[i + 1]
      OBVIOUS
    <3>2. /\ ~before.refused /\ before.offset # Len(darts) /\ LegOK(before, Len(darts))
          /\ next = PlayVisit(rules, members, darts, before)
          /\ before.offset \in Nat /\ before.offset >= i
      BY <1>1, <1>3, <2>1, <2>3, <3>1 DEF LegStep, UsedUp, LegOK
    <3>3. CASE Refusal(next, before)
      <4>1. LegOK(next, Len(darts)) /\ next.refused
        BY <3>2, <3>3, RefusalKeepsOK DEF Refusal
      <4> QED BY <1>1, <3>1, <4>1 DEF UsedUp
    <3>4. ASSUME NEW throws \in Seq(S), NEW outcome, NEW visit,
                 Played(next, rules, members, darts, before, throws, outcome, visit)
          PROVE  i + 1 \in T
      <4>1. LegOK(next, Len(darts)) /\ next.offset \in Nat /\ next.offset > before.offset
        BY <3>2, <3>4, PlayedKeepsOK
      <4>2. next.offset >= i + 1
        BY <3>2, <4>1
      <4> QED BY <1>1, <3>1, <4>1, <4>2
    <3> QED BY <3>2, <3>3, <3>4, PlayVisitIs
  <2> QED BY <2>2, <2>3
<1> HIDE DEF T
<1>4. 0..n \subseteq T
  BY <1>2, <1>3, UpTo
<1>5. \A i \in 0..n : LegOK(leg[i], n)
  BY <1>4 DEF T
<1>6. UsedUp(leg[n], n)
  <2>1. n \in T
    BY <1>4
  <2>2. leg[n].offset \in 0..n
    BY <2>1 DEF T, LegOK
  <2>3. leg[n].offset >= n => leg[n].offset = n
    BY <2>2
  <2> QED BY <2>1, <2>3 DEF T, UsedUp
<1> QED BY <1>1, <1>5, <1>6

(* So a replay ends in order, with no more to replay.                      *)
LEMMA ReplayIsOK ==
    ASSUME NEW S, NEW darts \in Seq(S), NEW rules, NEW members, NEW starter
    PROVE  /\ LegOK(LegReplay(rules, members, starter, darts), Len(darts))
           /\ UsedUp(LegReplay(rules, members, starter, darts), Len(darts))
<1>1. PICK n \in Nat : n = Len(darts)
  BY LenProperties
<1>2. PICK leg : Stages(leg, rules, members, starter, darts)
  BY <1>1, LegHasStages
<1>3. LegOK(leg[n], Len(darts)) /\ UsedUp(leg[n], Len(darts))
  <2>1. n \in 0..n
    OBVIOUS
  <2> QED BY <1>1, <1>2, <2>1, StagesAreOK
<1> QED BY <1>1, <1>2, <1>3 DEF Stages
-----------------------------------------------------------------------------
(* Whose turn it is.  Quotient and remainder are what they are by          *)
(* definition, and they are unique.                                        *)
LEMMA DivMod ==
    ASSUME NEW N \in Nat \ {0}, NEW q \in Nat, NEW r \in 0..N - 1, NEW a, a = q * N + r
    PROVE  a % N = r /\ a \div N = q
OBVIOUS

Seats(members, N) ==
    N \in Nat \ {0} /\ DOMAIN members = 0..N - 1 /\ Cardinality(DOMAIN members) = N

InTurn(visit, v, starter, members, N) ==
    /\ visit.team = (starter + v - 1) % N
    /\ visit.member = ((v - 1) \div N) % members[visit.team]

(* How far round from the starter a team sits.                             *)
Place(s, starter, N) == IF s >= starter THEN s - starter ELSE s - starter + N

(* The place of a seat counted from the starter's is its distance, around  *)
(* the table.                                                              *)
LEMMA PlaceIs ==
    ASSUME NEW N \in Nat \ {0}, NEW starter \in 0..N - 1, NEW s \in 0..N - 1
    PROVE  /\ Place(s, starter, N) \in 0..N - 1
           /\ s = starter + Place(s, starter, N) \/ s = starter + Place(s, starter, N) - N
BY DEF Place

(* No two seats have the same place.                                       *)
LEMMA PlaceUnique ==
    ASSUME NEW N \in Nat \ {0}, NEW starter \in 0..N - 1, NEW s \in 0..N - 1, NEW t \in 0..N - 1,
           Place(s, starter, N) = Place(t, starter, N)
    PROVE  s = t
BY DEF Place

(* The team after another's sits one place on, or at the starter again.     *)
Follows(t, s, starter, N) ==
    /\ t \in 0..N - 1
    /\ Place(s, starter, N) + 1 = N => Place(t, starter, N) = 0
    /\ Place(s, starter, N) + 1 # N => Place(t, starter, N) = Place(s, starter, N) + 1

(* The next seat has the next place, and the last is followed by the       *)
(* first.                                                                  *)
LEMMA NextPlace ==
    ASSUME NEW N \in Nat \ {0}, NEW starter \in 0..N - 1, NEW s \in 0..N - 1,
           NEW t, t = (s + 1) % N
    PROVE  Follows(t, s, starter, N)
<1>1. ASSUME s + 1 = N
      PROVE  t = 0
  <2>1. s + 1 = 1 * N + 0 /\ 0 \in 0..N - 1
    BY <1>1
  <2> QED BY <2>1, DivMod
<1>2. ASSUME s + 1 # N
      PROVE  t = s + 1
  <2>1. s + 1 = 0 * N + (s + 1) /\ s + 1 \in 0..N - 1
    BY <1>2
  <2> QED BY <2>1, DivMod
<1>3. CASE s + 1 = N
  <2>1. t = 0
    BY <1>1, <1>3
  <2> QED BY <1>3, <2>1 DEF Place, Follows
<1>4. CASE s + 1 # N
  <2>1. t = s + 1 /\ t \in 0..N - 1
    BY <1>2, <1>4
  <2> QED BY <1>4, <2>1 DEF Place, Follows
<1> QED BY <1>3, <1>4

(* After q rounds and r visits of the next: the teams that have had their  *)
(* visit of this round have had q + 1, the others q.                       *)
Rota(leg, starter, N, q, r) ==
    /\ q \in Nat /\ r \in 0..N - 1 /\ Len(leg.visits) = q * N + r
    /\ leg.active \in 0..N - 1 /\ Place(leg.active, starter, N) = r
    /\ leg.counts = [s \in 0..N - 1 |-> IF Place(s, starter, N) < r THEN q + 1 ELSE q]

RotaInv(leg, starter, members, N) ==
    /\ \A v \in 1..Len(leg.visits) : InTurn(leg.visits[v], v, starter, members, N)
    /\ Going(leg) => \E q, r : Rota(leg, starter, N, q, r)

(* The visit the rota calls for is the one round robin names.              *)
LEMMA VisitInTurn ==
    ASSUME NEW members, NEW N, Seats(members, N), NEW starter \in 0..N - 1,
           NEW leg, NEW q, NEW r, Rota(leg, starter, N, q, r),
           NEW outcome, NEW visit, VisitMade(visit, members, leg, outcome)
    PROVE  InTurn(visit, Len(leg.visits) + 1, starter, members, N)
<1>1. N \in Nat \ {0} /\ q \in Nat /\ r \in 0..N - 1 /\ leg.active \in 0..N - 1
  BY DEF Seats, Rota
<1>2. PICK k : k = q * N + r /\ k = Len(leg.visits)
  BY DEF Rota
<1>3. k \in Nat
  BY <1>1, <1>2
<1>4. k % N = r /\ k \div N = q
  BY <1>1, <1>2, DivMod
<1>5. (starter + k) % N = leg.active
  <2>0. PICK a \in 0..N - 1 : a = leg.active /\ Place(a, starter, N) = r
    BY <1>1 DEF Rota
  <2>1. a = starter + r \/ a = starter + r - N
    BY <1>1, <2>0, PlaceIs
  <2>2. CASE a = starter + r
    <3>1. PICK c : c = starter + k
      OBVIOUS
    <3>2. c = q * N + a
      BY <1>1, <1>2, <2>2, <3>1
    <3>3. c % N = a
      BY <1>1, <3>2, DivMod
    <3> QED BY <2>0, <3>1, <3>3
  <2>3. CASE a = starter + r - N
    <3>1. (q + 1) * N = q * N + N
      BY <1>1
    <3>2. q * N \in Nat
      BY <1>1
    <3>3. PICK c, p \in Nat : c = starter + k /\ p = q + 1
      BY <1>1, <1>3
    <3>4. c = p * N + a
      BY <1>1, <1>2, <2>3, <3>1, <3>2, <3>3
    <3>5. c % N = a
      BY <1>1, <3>3, <3>4, DivMod
    <3> QED BY <2>0, <3>3, <3>5
  <2> QED BY <2>1, <2>2, <2>3
<1>6. leg.counts[leg.active] = q
  BY <1>1 DEF Rota
<1>7. visit.team = leg.active /\ visit.member = q % members[leg.active]
  BY <1>6 DEF VisitMade, ThrowerFor
<1>8. starter + (k + 1) - 1 = starter + k /\ k + 1 - 1 = k
  BY <1>3
<1> QED BY <1>2, <1>4, <1>5, <1>7, <1>8 DEF InTurn

(* And the turn passes to the next team of the rota.                       *)
LEMMA RotaTurns ==
    ASSUME NEW members, NEW N, Seats(members, N), NEW starter \in 0..N - 1,
           NEW leg, NEW q, NEW r, Rota(leg, starter, N, q, r),
           NEW next, Len(next.visits) = Len(leg.visits) + 1,
           next.active = (leg.active + 1) % N,
           next.counts = [leg.counts EXCEPT ![leg.active] = @ + 1]
    PROVE  \E p, j : Rota(next, starter, N, p, j)
<1>1. N \in Nat \ {0} /\ q \in Nat /\ r \in 0..N - 1 /\ leg.active \in 0..N - 1
      /\ Place(leg.active, starter, N) = r
  BY DEF Seats, Rota
<1>2. PICK P \in Nat : P = q * N /\ (q + 1) * N = P + N /\ Len(next.visits) = P + r + 1
  <2>1. q * N \in Nat /\ (q + 1) * N = q * N + N
    BY <1>1
  <2>2. Len(leg.visits) = q * N + r
    BY DEF Rota
  <2> QED BY <2>1, <2>2
<1>3. PICK a, b : a \in 0..N - 1 /\ a = leg.active /\ b = next.active
  BY <1>1
<1>4. /\ b \in 0..N - 1
      /\ r + 1 = N => Place(b, starter, N) = 0
      /\ r + 1 # N => Place(b, starter, N) = r + 1
  <2>1. Place(a, starter, N) = r /\ b = (a + 1) % N
    BY <1>1, <1>3
  <2>2. Follows(b, a, starter, N)
    BY <1>1, <1>3, <2>1, NextPlace
  <2> QED BY <2>1, <2>2 DEF Follows
<1>5. \A s \in 0..N - 1 : Place(s, starter, N) \in 0..N - 1
  BY <1>1, PlaceIs
<1>6. \A s \in 0..N - 1 : Place(s, starter, N) = r => s = a
  BY <1>1, <1>3, PlaceUnique
<1>7. /\ DOMAIN next.counts = 0..N - 1 /\ next.counts = [s \in 0..N - 1 |-> next.counts[s]]
      /\ \A s \in 0..N - 1 :
            next.counts[s] = IF s = a THEN q + 1
                             ELSE IF Place(s, starter, N) < r THEN q + 1 ELSE q
  <2>1. PICK counts : counts = leg.counts
    OBVIOUS
  <2>2. counts = [s \in 0..N - 1 |-> IF Place(s, starter, N) < r THEN q + 1 ELSE q]
    BY <2>1 DEF Rota
  <2>3. counts[a] = q
    <3>1. ~(r < r)
      BY <1>1
    <3> QED BY <1>1, <1>3, <2>2, <3>1
  <2>4. next.counts = [counts EXCEPT ![a] = q + 1]
    BY <1>3, <2>1, <2>3
  <2> QED BY <2>2, <2>4
<1>8. CASE r + 1 # N
  <2>1. ASSUME NEW s \in 0..N - 1
        PROVE  next.counts[s] = IF Place(s, starter, N) < r + 1 THEN q + 1 ELSE q
    <3>1. PICK c \in 0..N - 1 : c = Place(s, starter, N) /\ (c = r => s = a)
      BY <1>5, <1>6
    <3>2. CASE s = a
      <4>1. c = r /\ next.counts[s] = q + 1
        BY <1>1, <1>3, <1>7, <3>1, <3>2
      <4> QED BY <1>1, <3>1, <4>1
    <3>3. CASE s # a
      <4>1. c < r <=> c < r + 1
        BY <1>1, <3>1, <3>3
      <4> QED BY <1>7, <3>1, <3>3, <4>1
    <3> QED BY <3>2, <3>3
  <2>2. next.counts = [s \in 0..N - 1 |-> IF Place(s, starter, N) < r + 1 THEN q + 1 ELSE q]
    BY <1>7, <2>1
  <2>3. Len(next.visits) = q * N + (r + 1) /\ r + 1 \in 0..N - 1
    BY <1>1, <1>2, <1>8
  <2>4. next.active \in 0..N - 1 /\ Place(next.active, starter, N) = r + 1
    BY <1>3, <1>4, <1>8
  <2>5. PICK j : j = r + 1
    OBVIOUS
  <2>6. Rota(next, starter, N, q, j)
    BY <1>1, <2>2, <2>3, <2>4, <2>5 DEF Rota
  <2> QED BY <2>6
<1>9. CASE r + 1 = N
  <2>1. ASSUME NEW s \in 0..N - 1
        PROVE  next.counts[s] = IF Place(s, starter, N) < 0 THEN q + 1 + 1 ELSE q + 1
    <3>1. PICK c \in 0..N - 1 : c = Place(s, starter, N) /\ (c = r => s = a)
      BY <1>5, <1>6
    <3>2. s # a => c < r
      BY <1>1, <1>9, <3>1
    <3>3. next.counts[s] = q + 1
      BY <1>7, <3>1, <3>2
    <3>4. ~(c < 0)
      BY <3>1
    <3> QED BY <3>1, <3>3, <3>4
  <2>2. next.counts = [s \in 0..N - 1 |-> IF Place(s, starter, N) < 0 THEN q + 1 + 1 ELSE q + 1]
    BY <1>7, <2>1
  <2>3. Len(next.visits) = (q + 1) * N + 0 /\ 0 \in 0..N - 1 /\ q + 1 \in Nat
    BY <1>1, <1>2, <1>9
  <2>4. next.active \in 0..N - 1 /\ Place(next.active, starter, N) = 0
    BY <1>3, <1>4, <1>9
  <2>5. PICK p : p = q + 1
    OBVIOUS
  <2>6. Rota(next, starter, N, p, 0)
    BY <2>2, <2>3, <2>4, <2>5 DEF Rota
  <2> QED BY <2>6
<1> QED BY <1>8, <1>9
-----------------------------------------------------------------------------
(* A visit played leaves the next team, and its next member, to throw.     *)
LEMMA PlayedKeepsRota ==
    ASSUME NEW S, NEW darts \in Seq(S), NEW rules, NEW members, NEW N, Seats(members, N),
           NEW starter \in 0..N - 1, NEW leg, LegOK(leg, Len(darts)), ~leg.refused,
           leg.offset # Len(darts), RotaInv(leg, starter, members, N),
           NEW next, NEW throws \in Seq(S), NEW outcome, NEW visit,
           Played(next, rules, members, darts, leg, throws, outcome, visit)
    PROVE  RotaInv(next, starter, members, N)
<1>1. Going(leg) /\ N \in Nat \ {0}
  BY DEF LegOK, Seats
<1>2. PICK q, r : Rota(leg, starter, N, q, r)
  BY <1>1 DEF RotaInv
<1>3. PICK k \in Nat : k = Len(leg.visits) /\ Len(next.visits) = k + 1 /\ next.visits[k + 1] = visit
                       /\ \A v \in 1..k : next.visits[v] = leg.visits[v]
  BY DEF Played, Gained, Grown
<1>4. VisitMade(visit, members, leg, outcome) /\ Turned(next, members, leg, outcome)
  BY DEF Played, Gained
<1>5. InTurn(visit, k + 1, starter, members, N)
  BY <1>2, <1>3, <1>4, VisitInTurn
<1>6. \A v \in 1..k : InTurn(next.visits[v], v, starter, members, N)
  BY <1>3 DEF RotaInv
<1>7. \A v \in 1..Len(next.visits) : InTurn(next.visits[v], v, starter, members, N)
  <2>1. \A v \in 1..k + 1 : v \in 1..k \/ v = k + 1
    OBVIOUS
  <2> QED BY <1>3, <1>5, <1>6, <2>1
<1>8. ASSUME Going(next)
      PROVE  \E q1, r1 : Rota(next, starter, N, q1, r1)
  <2>1. next.visits[k + 1].complete
    BY <1>3, <1>8 DEF Going, Complete
  <2>2. IsComplete(outcome)
    BY <1>3, <1>4, <2>1 DEF VisitMade
  <2>3. ~outcome.won
    <3>1. SUFFICES ASSUME outcome.won
                   PROVE  FALSE
      OBVIOUS
    <3>2. next.winner = leg.active /\ next.winner = NoTeam
      BY <1>8, <3>1 DEF Going, Played, Gained
    <3>3. PICK a \in 0..N - 1 : a = leg.active
      BY <1>2 DEF Rota
    <3>4. a # NoTeam
      BY <1>1, <3>3 DEF NoTeam
    <3> QED BY <3>2, <3>3, <3>4
  <2>4. /\ next.active = (leg.active + 1) % N
        /\ next.counts = [leg.counts EXCEPT ![leg.active] = @ + 1]
    BY <1>4, <2>2, <2>3 DEF Turned, Seats
  <2> QED BY <1>2, <1>3, <2>4, RotaTurns
<1> QED BY <1>7, <1>8 DEF RotaInv

(* The starter's first member throws first.                                *)
LEMMA OpeningIsInRota ==
    ASSUME NEW members, NEW N, Seats(members, N), NEW rules, NEW starter \in 0..N - 1
    PROVE  RotaInv(Opening(rules, members, starter), starter, members, N)
<1>1. PICK leg : leg = Opening(rules, members, starter)
  OBVIOUS
<1>2. /\ N \in Nat \ {0} /\ leg.visits = <<>> /\ leg.active = starter
      /\ leg.counts = [s \in 0..N - 1 |-> 0]
  BY <1>1 DEF Opening, Seats
<1>3. PICK n : n = Len(leg.visits) /\ n = 0
  BY <1>2, EmptyIsSeq
<1>4. Place(starter, starter, N) = 0
  BY <1>2 DEF Place
<1>5. \A s \in 0..N - 1 : ~(Place(s, starter, N) < 0)
  BY <1>2 DEF Place
<1>6. Rota(leg, starter, N, 0, 0)
  BY <1>2, <1>3, <1>4, <1>5 DEF Rota
<1>7. \A v \in 1..Len(leg.visits) : InTurn(leg.visits[v], v, starter, members, N)
  BY <1>3
<1> QED BY <1>1, <1>6, <1>7 DEF RotaInv

(* Every stage of the replay, its end included, has its visits go round the *)
(* teams from the starter and round each team's members.                    *)
LEMMA StagesGoRound ==
    ASSUME NEW S, NEW darts \in Seq(S), NEW rules, NEW members, NEW N, Seats(members, N),
           NEW starter \in 0..N - 1, NEW leg, Stages(leg, rules, members, starter, darts)
    PROVE  \A i \in 0..Len(darts) : RotaInv(leg[i], starter, members, N)
<1>1. PICK n \in Nat : n = Len(darts)
  BY LenProperties
<1> DEFINE T == {i \in 0..n : RotaInv(leg[i], starter, members, N)}
<1>2. 0 \in T
  BY OpeningIsInRota DEF Stages
<1>3. ASSUME NEW i \in 0..n - 1, i \in T
      PROVE  i + 1 \in T
  <2>1. leg[i + 1] = LegStep(rules, members, darts, leg[i])
    BY <1>1 DEF Stages
  <2>2. CASE UsedUp(leg[i], n)
    <3>1. leg[i + 1] = leg[i]
      BY <1>1, <2>1, <2>2 DEF LegStep, UsedUp
    <3> QED BY <1>3, <3>1
  <2>3. CASE ~UsedUp(leg[i], n)
    <3>1. PICK before, next : before = leg[i] /\ next = leg[i + 1]
      OBVIOUS
    <3>2. LegOK(before, Len(darts))
      BY <1>1, <3>1, StagesAreOK
    <3>3. /\ ~before.refused /\ before.offset # Len(darts)
          /\ next = PlayVisit(rules, members, darts, before)
          /\ RotaInv(before, starter, members, N)
      BY <1>1, <1>3, <2>1, <2>3, <3>1, <3>2 DEF LegStep, UsedUp, LegOK
    <3>4. CASE Refusal(next, before)
      <4>1. next.visits = before.visits /\ ~Going(next)
        BY <3>4 DEF Refusal, Going
      <4>2. RotaInv(next, starter, members, N)
        BY <3>3, <4>1 DEF RotaInv
      <4> QED BY <3>1, <4>2
    <3>5. ASSUME NEW throws \in Seq(S), NEW outcome, NEW visit,
                 Played(next, rules, members, darts, before, throws, outcome, visit)
          PROVE  i + 1 \in T
      <4>1. RotaInv(next, starter, members, N)
        BY <3>2, <3>3, <3>5, PlayedKeepsRota
      <4> QED BY <3>1, <4>1
    <3> QED BY <3>2, <3>3, <3>4, <3>5, PlayVisitIs
  <2> QED BY <2>2, <2>3
<1> HIDE DEF T
<1>4. 0..n \subseteq T
  BY <1>2, <1>3, UpTo
<1> QED BY <1>1, <1>4 DEF T
-----------------------------------------------------------------------------
(* The record but for its last dart.                                       *)
UndoneIs(less, darts, S) ==
    /\ less \in Seq(S) /\ Len(less) \in Nat /\ Len(darts) = Len(less) + 1
    /\ \A i \in 1..Len(less) : darts[i] = less[i]

(* Undo takes the last dart away and no other.                             *)
LEMMA UndoneIsShorter ==
    ASSUME NEW S, NEW darts \in Seq(S), darts # <<>>
    PROVE  UndoneIs(Undone(darts), darts, S)
<1>1. PICK n \in Nat : n = Len(darts)
  BY LenProperties
<1>2. n # 0
  BY <1>1, EmptySeq
<1>3. PICK m \in Nat : n = m + 1
  <2>1. n = (n - 1) + 1 /\ n - 1 \in Nat
    BY <1>2
  <2> QED BY <2>1
<1>4. Undone(darts) = SubSeq(darts, 1, m)
  BY <1>1, <1>3 DEF Undone
<1>5. \A i \in 1..m : darts[i] \in S
  <2>1. \A i \in 1..m : i \in 1..n
    BY <1>3
  <2> QED BY <1>1, <2>1, ElementOfSeq
<1>6. PICK less : less = SubSeq(darts, 1, m)
  OBVIOUS
<1>7. /\ less \in Seq(S) /\ Len(less) = (IF 1 <= m THEN m - 1 + 1 ELSE 0)
      /\ \A i \in 1..m - 1 + 1 : less[i] = darts[1 + i - 1]
  BY <1>5, <1>6, SubSeqProperties
<1>8. Len(less) = m /\ \A i \in 1..m : less[i] = darts[i]
  <2>1. (IF 1 <= m THEN m - 1 + 1 ELSE 0) = m /\ \A i \in 1..m : 1 + i - 1 = i /\ i \in 1..m - 1 + 1
    OBVIOUS
  <2> QED BY <1>7, <2>1
<1> QED BY <1>1, <1>3, <1>4, <1>6, <1>7, <1>8 DEF UndoneIs

(* A visit that has busted or won is not changed by another dart.          *)
Extends(more, throws) ==
    /\ Len(throws) \in Nat /\ Len(more) = Len(throws) + 1
    /\ \A i \in 1..Len(throws) : more[i] = throws[i]

(* Darts thrown later do not change what the earlier ones of a visit did.  *)
LEMMA X01RunsAgree ==
    ASSUME NEW state, NEW cfg, NEW throws, NEW more, Extends(more, throws),
           NEW run, X01Run(run, state, throws, cfg), NEW longer, X01Run(longer, state, more, cfg)
    PROVE  longer[Len(throws)] = run[Len(throws)]
<1>1. PICK n \in Nat : n = Len(throws) /\ Len(more) = n + 1 /\ n + 1 \in Nat
  BY DEF Extends
<1> DEFINE T == {i \in 0..n : longer[i] = run[i]}
<1>2. 0 \in T
  BY DEF X01Run
<1>3. ASSUME NEW i \in 0..n - 1, i \in T
      PROVE  i + 1 \in T
  <2>1. i + 1 \in 1..n /\ i + 1 \in 1..n + 1 /\ i + 1 - 1 = i
    OBVIOUS
  <2>2. run[i + 1] = X01Step(run[i], throws[i + 1], cfg)
    BY <1>1, <2>1 DEF X01Run
  <2>3. longer[i + 1] = X01Step(longer[i], more[i + 1], cfg)
    BY <1>1, <2>1 DEF X01Run
  <2>4. more[i + 1] = throws[i + 1]
    BY <1>1, <2>1 DEF Extends
  <2> QED BY <1>3, <2>1, <2>2, <2>3, <2>4
<1> HIDE DEF T
<1>4. 0..n \subseteq T
  BY <1>2, <1>3, UpTo
<1> QED BY <1>1, <1>4 DEF T

(* The same of cricket.                                                    *)
LEMMA CricketRunsAgree ==
    ASSUME NEW states, NEW team, NEW variant, NEW throws, NEW more, Extends(more, throws),
           NEW run, CricketRun(run, states, team, throws, variant), NEW longer, CricketRun(longer, states, team, more, variant)
    PROVE  longer[Len(throws)] = run[Len(throws)]
<1>1. PICK n \in Nat : n = Len(throws) /\ Len(more) = n + 1 /\ n + 1 \in Nat
  BY DEF Extends
<1> DEFINE T == {i \in 0..n : longer[i] = run[i]}
<1>2. 0 \in T
  BY DEF CricketRun
<1>3. ASSUME NEW i \in 0..n - 1, i \in T
      PROVE  i + 1 \in T
  <2>1. i + 1 \in 1..n /\ i + 1 \in 1..n + 1 /\ i + 1 - 1 = i
    OBVIOUS
  <2>2. run[i + 1] = CricketStep(run[i], team, throws[i + 1], variant)
    BY <1>1, <2>1 DEF CricketRun
  <2>3. longer[i + 1] = CricketStep(longer[i], team, more[i + 1], variant)
    BY <1>1, <2>1 DEF CricketRun
  <2>4. more[i + 1] = throws[i + 1]
    BY <1>1, <2>1 DEF Extends
  <2> QED BY <1>3, <2>1, <2>2, <2>3, <2>4
<1> HIDE DEF T
<1>4. 0..n \subseteq T
  BY <1>2, <1>3, UpTo
<1> QED BY <1>1, <1>4 DEF T

(* A visit that bust or won ignores the darts after it.                    *)
LEMMA X01VisitSettled ==
    ASSUME NEW state, NEW cfg, NEW throws, NEW more, Extends(more, throws),
           NEW visit, visit = X01ApplyVisit(state, throws, cfg),
           visit.bust # NoBust \/ visit.won
    PROVE  X01ApplyVisit(state, more, cfg) = visit
<1>1. PICK n \in Nat : n = Len(throws) /\ Len(more) = n + 1 /\ n + 1 \in Nat
  BY DEF Extends
<1>2. PICK run : X01Run(run, state, throws, cfg)
  BY <1>1, X01VisitRuns
<1>3. PICK longer : X01Run(longer, state, more, cfg)
  BY <1>1, X01VisitRuns
<1>7. longer[n] = run[n]
  BY <1>1, <1>2, <1>3, X01RunsAgree
<1>8. Ended(run[n])
  BY <1>1, <1>2 DEF X01Run, FinalX01, Ended
<1>9. longer[n + 1] = run[n]
  <2>1. n + 1 \in 1..n + 1 /\ n + 1 - 1 = n
    OBVIOUS
  <2>2. longer[n + 1] = X01Step(longer[n], more[n + 1], cfg)
    BY <1>1, <1>3, <2>1 DEF X01Run
  <2> QED BY <1>7, <1>8, <2>2 DEF X01Step
<1> QED BY <1>1, <1>2, <1>3, <1>9 DEF X01Run

(* A visit that won ignores the darts after it.                            *)
LEMMA CricketVisitSettled ==
    ASSUME NEW states, NEW team, NEW variant, NEW throws, NEW more, Extends(more, throws),
           NEW visit, visit = CricketApplyVisit(states, team, throws, variant), visit.won
    PROVE  CricketApplyVisit(states, team, more, variant) = visit
<1>1. PICK n \in Nat : n = Len(throws) /\ Len(more) = n + 1 /\ n + 1 \in Nat
  BY DEF Extends
<1>2. PICK run : CricketRun(run, states, team, throws, variant)
  BY <1>1, CricketVisitRuns
<1>3. PICK longer : CricketRun(longer, states, team, more, variant)
  BY <1>1, CricketVisitRuns
<1>7. longer[n] = run[n] /\ run[n].won
  BY <1>1, <1>2, <1>3, CricketRunsAgree DEF CricketRun
<1>8. longer[n + 1] = run[n]
  <2>1. n + 1 \in 1..n + 1 /\ n + 1 - 1 = n
    OBVIOUS
  <2>2. longer[n + 1] = CricketStep(longer[n], team, more[n + 1], variant)
    BY <1>1, <1>3, <2>1 DEF CricketRun
  <2> QED BY <1>7, <2>2 DEF CricketStep
<1> QED BY <1>1, <1>2, <1>3, <1>8 DEF CricketRun

(* So a visit of either game that ended is as it was, whatever is thrown   *)
(* next.                                                                   *)
LEMMA VisitSettled ==
    ASSUME NEW rules, NEW states, NEW team, NEW throws, NEW more, Extends(more, throws),
           NEW outcome, outcome = VisitOutcome(rules, states, team, throws),
           outcome.won \/ outcome.bust
    PROVE  VisitOutcome(rules, states, team, more) = outcome
<1>1. CASE rules.game = "x01"
  <2>1. PICK visit : visit = X01ApplyVisit(states[team], throws, rules)
    OBVIOUS
  <2>2. outcome = X01Outcome(states, team, visit)
    BY <1>1, <2>1 DEF VisitOutcome
  <2>3. visit.bust # NoBust \/ visit.won
    <3>1. outcome.bust = (visit.bust # NoBust) /\ outcome.won = visit.won
      BY <2>2 DEF X01Outcome
    <3> QED BY <3>1
  <2>4. X01ApplyVisit(states[team], more, rules) = visit
    BY <2>1, <2>3, X01VisitSettled
  <2> QED BY <1>1, <2>2, <2>4 DEF VisitOutcome
<1>2. CASE rules.game # "x01"
  <2>1. PICK visit : visit = CricketApplyVisit(states, team, throws, rules.variant)
    OBVIOUS
  <2>2. outcome = CricketOutcome(states, team, visit)
    BY <1>2, <2>1 DEF VisitOutcome
  <2>3. visit.won
    BY <2>2 DEF CricketOutcome
  <2>4. CricketApplyVisit(states, team, more, rules.variant) = visit
    BY <2>1, <2>3, CricketVisitSettled
  <2> QED BY <1>2, <2>2, <2>4 DEF VisitOutcome
<1> QED BY <1>1, <1>2
-----------------------------------------------------------------------------
(* A visit that has not ended takes another dart as it comes; only a bust  *)
(* changes what was said of the darts before it, and not that they did not *)
(* bust.                                                                   *)
X01DartShape(dart) ==
    dart = [throw |-> dart.throw, state |-> dart.state, counted |-> dart.counted,
            bust |-> dart.bust, checkout |-> dart.checkout]

(* Every dart of an x01 visit is a record of these fields.                 *)
LEMMA X01DartsAreShaped ==
    ASSUME NEW run, NEW state, NEW throws, Len(throws) \in Nat, NEW cfg,
           X01Run(run, state, throws, cfg)
    PROVE  \A i \in 0..Len(throws) : \A j \in 1..Len(run[i].darts) : X01DartShape(run[i].darts[j])
<1> DEFINE T == {i \in 0..Len(throws) :
                    \A j \in 1..Len(run[i].darts) : X01DartShape(run[i].darts[j])}
<1>1. 0 \in T
  <2>1. run[0].darts = <<>>
    BY DEF X01Run, X01Start
  <2>2. PICK k : k = Len(run[0].darts) /\ k = 0
    BY <2>1, EmptyIsSeq
  <2>3. \A j \in 1..Len(run[0].darts) : X01DartShape(run[0].darts[j])
    BY <2>2
  <2> QED BY <2>3
<1>2. ASSUME NEW i \in 0..Len(throws) - 1, i \in T
      PROVE  i + 1 \in T
  <2>1. run[i + 1] = X01Step(run[i], throws[i + 1], cfg)
    BY DEF X01Run
  <2>2. CASE Ended(run[i])
    BY <1>2, <2>1, <2>2 DEF X01Step
  <2>3. CASE ~Ended(run[i])
    <3>1. PICK dart : dart = X01ApplyDart(run[i].state, throws[i + 1], cfg)
      OBVIOUS
    <3>2. X01DartShape(dart)
      BY <3>1 DEF X01ApplyDart, DartOutcome, X01DartShape
    <3>3. run[i + 1].darts = Append(run[i].darts, dart)
      BY <2>1, <2>3, <3>1 DEF X01Step, AddX01Dart
    <3>4. IsSeq(run[i].darts)
      <4>1. X01Taken(run, i)
        BY X01Takes
      <4> QED BY <4>1 DEF X01Taken
    <3>5. Grown(run[i + 1].darts, run[i].darts, dart)
      BY <3>3, <3>4, SeqGrows
    <3>6. PICK k \in Nat : /\ k = Len(run[i].darts) /\ Len(run[i + 1].darts) = k + 1
                            /\ run[i + 1].darts[k + 1] = dart
                            /\ \A j \in 1..k : run[i + 1].darts[j] = run[i].darts[j]
      BY <3>5 DEF Grown
    <3>7. \A j \in 1..k + 1 : j = k + 1 \/ j \in 1..k
      OBVIOUS
    <3>8. \A j \in 1..k + 1 : X01DartShape(run[i + 1].darts[j])
      BY <1>2, <3>2, <3>6, <3>7
    <3> QED BY <3>6, <3>8
  <2> QED BY <2>2, <2>3
<1> HIDE DEF T
<1>3. 0..Len(throws) \subseteq T
  BY <1>1, <1>2, UpTo
<1> QED BY <1>3 DEF T

(* The darts of a visit, and those of the visit when it has one dart more. *)
GrownDarts(more, less, n, bust) ==
    /\ Len(less) = n /\ Len(more) = n + 1 /\ IsSeq(more) /\ IsSeq(less)
    /\ ~bust => \A i \in 1..n : more[i] = less[i]

SameBusts(more, less, n) == \A i \in 1..n : more[i].bust = less[i].bust

(* An open x01 visit with a dart more has the darts it had, not counted if *)
(* that dart busts.                                                        *)
LEMMA X01VisitGrows ==
    ASSUME NEW state, NEW cfg, NEW throws, NEW more, Extends(more, throws),
           NEW visit, visit = X01ApplyVisit(state, throws, cfg),
           visit.bust = NoBust, ~visit.won,
           NEW longer, longer = X01ApplyVisit(state, more, cfg)
    PROVE  /\ GrownDarts(longer.darts, visit.darts, Len(throws), longer.bust # NoBust)
           /\ SameBusts(longer.darts, visit.darts, Len(throws))
<1>1. PICK n \in Nat : n = Len(throws) /\ Len(more) = n + 1 /\ n + 1 \in Nat
  BY DEF Extends
<1>2. PICK run : X01Run(run, state, throws, cfg)
  BY <1>1, X01VisitRuns
<1>3. PICK on : X01Run(on, state, more, cfg)
  BY <1>1, X01VisitRuns
<1>4. X01Taken(run, n) /\ on[n] = run[n]
  BY <1>1, <1>2, <1>3, X01Takes, X01RunsAgree
<1>5. FinalIs(visit, run[n])
  <2>1. PICK end : end = run[n]
    OBVIOUS
  <2> QED BY <1>1, <1>2, <1>4, <2>1, FinalX01Is DEF X01Taken, X01Run
<1>6. visit = run[n] /\ ~Ended(run[n])
  BY <1>5 DEF FinalIs, Ended
<1>7. IsSeq(visit.darts) /\ Len(visit.darts) = n
  BY <1>4, <1>6 DEF X01Taken, HasLength
<1>8. n + 1 \in 1..n + 1 /\ n + 1 - 1 = n /\ n + 1 \in 0..n + 1
  OBVIOUS
<1>9. PICK end, dart : end = on[n + 1] /\ dart = X01ApplyDart(visit.state, more[n + 1], cfg)
  OBVIOUS
<1>10. end = AddX01Dart(visit, dart)
  BY <1>1, <1>3, <1>4, <1>6, <1>8, <1>9 DEF X01Run, X01Step
<1>11. Grown(end.darts, visit.darts, dart)
  BY <1>7, <1>10, SeqGrows DEF AddX01Dart
<1>12. FinalIs(longer, end)
  <2>1. end = [state |-> end.state, darts |-> end.darts, bust |-> end.bust, won |-> end.won]
    BY <1>10 DEF AddX01Dart
  <2>2. longer = FinalX01(state, end) /\ IsSeq(end.darts)
    BY <1>1, <1>3, <1>9, <1>11 DEF X01Run, Grown
  <2> QED BY <2>1, <2>2, FinalX01Is
<1>13. /\ Len(end.darts) = n + 1 /\ Len(longer.darts) = n + 1 /\ IsSeq(longer.darts)
       /\ \A i \in 1..n : i \in 1..n + 1 /\ end.darts[i] = visit.darts[i]
  BY <1>7, <1>11, <1>12 DEF Grown, FinalIs
<1>14. \A i \in 1..n + 1 : X01DartShape(end.darts[i])
  <2>1. \A j \in 1..Len(on[n + 1].darts) : X01DartShape(on[n + 1].darts[j])
    BY <1>1, <1>3, <1>8, X01DartsAreShaped
  <2>2. PICK k : k = Len(end.darts) /\ k = n + 1
    BY <1>13
  <2> QED BY <1>9, <2>1, <2>2
<1>15. CASE longer.bust = NoBust
  <2>1. longer = end
    BY <1>12, <1>15 DEF FinalIs
  <2> QED BY <1>1, <1>7, <1>13, <1>15, <2>1 DEF GrownDarts, SameBusts
<1>16. CASE longer.bust # NoBust
  <2>1. \A i \in 1..n + 1 : longer.darts[i] = [end.darts[i] EXCEPT !.counted = FALSE]
    BY <1>12, <1>13, <1>16 DEF FinalIs
  <2>2. \A i \in 1..n + 1 : longer.darts[i].bust = end.darts[i].bust
    BY <1>14, <2>1 DEF X01DartShape
  <2> QED BY <1>1, <1>7, <1>13, <1>16, <2>2 DEF GrownDarts, SameBusts
<1> QED BY <1>15, <1>16

(* An open cricket visit with a dart more has the darts it had, as they    *)
(* were.                                                                   *)
LEMMA CricketVisitGrows ==
    ASSUME NEW states, NEW team, NEW variant, NEW throws, NEW more, Extends(more, throws),
           NEW visit, visit = CricketApplyVisit(states, team, throws, variant), ~visit.won,
           NEW longer, longer = CricketApplyVisit(states, team, more, variant)
    PROVE  GrownDarts(longer.darts, visit.darts, Len(throws), FALSE)
<1>1. PICK n \in Nat : n = Len(throws) /\ Len(more) = n + 1 /\ n + 1 \in Nat
  BY DEF Extends
<1>2. PICK run : CricketRun(run, states, team, throws, variant)
  BY <1>1, CricketVisitRuns
<1>3. PICK on : CricketRun(on, states, team, more, variant)
  BY <1>1, CricketVisitRuns
<1>4. CricketTaken(run, n) /\ on[n] = run[n]
  BY <1>1, <1>2, <1>3, CricketTakes, CricketRunsAgree
<1>5. visit = run[n] /\ longer = on[n + 1]
  BY <1>1, <1>2, <1>3 DEF CricketRun
<1>6. IsSeq(visit.darts) /\ Len(visit.darts) = n
  BY <1>4, <1>5 DEF CricketTaken, HasLength
<1>7. n + 1 \in 1..n + 1 /\ n + 1 - 1 = n
  OBVIOUS
<1>8. PICK dart : dart = CricketApplyDart(visit.states, team, more[n + 1], variant)
  OBVIOUS
<1>9. longer = AddCricketDart(visit, dart)
  BY <1>1, <1>3, <1>4, <1>5, <1>7, <1>8 DEF CricketRun, CricketStep
<1>10. Grown(longer.darts, visit.darts, dart)
  <2>1. longer.darts = Append(visit.darts, dart)
    BY <1>9 DEF AddCricketDart
  <2> QED BY <1>6, <2>1, SeqGrows
<1> QED BY <1>1, <1>6, <1>10 DEF Grown, GrownDarts

(* The outcome of a visit, and of the same visit with one dart more.       *)
Growth(longer, outcome, n, x01) ==
    /\ GrownDarts(longer.darts, outcome.darts, n, longer.bust)
    /\ x01 => SameBusts(longer.darts, outcome.darts, n)
    /\ longer.before = outcome.before
    /\ ~x01 => ~longer.bust

(* So does a visit of either game.                                         *)
LEMMA VisitGrows ==
    ASSUME NEW rules, NEW states, NEW team, NEW throws, NEW more, Extends(more, throws),
           NEW outcome, outcome = VisitOutcome(rules, states, team, throws),
           ~outcome.won, ~outcome.bust,
           NEW longer, longer = VisitOutcome(rules, states, team, more)
    PROVE  Growth(longer, outcome, Len(throws), rules.game = "x01")
<1>1. CASE rules.game = "x01"
  <2>1. PICK visit, on : /\ visit = X01ApplyVisit(states[team], throws, rules)
                         /\ on = X01ApplyVisit(states[team], more, rules)
    OBVIOUS
  <2>2. outcome = X01Outcome(states, team, visit) /\ longer = X01Outcome(states, team, on)
    BY <1>1, <2>1 DEF VisitOutcome
  <2>3. /\ outcome.bust = (visit.bust # NoBust) /\ outcome.won = visit.won
        /\ longer.bust = (on.bust # NoBust)
        /\ outcome.darts = visit.darts /\ longer.darts = on.darts
        /\ longer.before = outcome.before
    BY <2>2 DEF X01Outcome
  <2>4. visit.bust = NoBust /\ ~visit.won
    BY <2>3
  <2>5. /\ GrownDarts(on.darts, visit.darts, Len(throws), on.bust # NoBust)
        /\ SameBusts(on.darts, visit.darts, Len(throws))
    BY <2>1, <2>4, X01VisitGrows
  <2>6. GrownDarts(longer.darts, outcome.darts, Len(throws), longer.bust)
    BY <2>3, <2>5, Zenon
  <2>7. SameBusts(longer.darts, outcome.darts, Len(throws))
    BY <2>3, <2>5
  <2> QED BY <1>1, <2>3, <2>6, <2>7 DEF Growth
<1>2. CASE rules.game # "x01"
  <2>1. PICK visit, on : /\ visit = CricketApplyVisit(states, team, throws, rules.variant)
                         /\ on = CricketApplyVisit(states, team, more, rules.variant)
    OBVIOUS
  <2>2. outcome = CricketOutcome(states, team, visit) /\ longer = CricketOutcome(states, team, on)
    BY <1>2, <2>1 DEF VisitOutcome
  <2>3. /\ outcome.won = visit.won /\ longer.bust = FALSE
        /\ outcome.darts = visit.darts /\ longer.darts = on.darts
        /\ longer.before = outcome.before
    BY <2>2 DEF CricketOutcome
  <2>4. GrownDarts(on.darts, visit.darts, Len(throws), FALSE)
    BY <2>1, <2>3, CricketVisitGrows
  <2>5. GrownDarts(longer.darts, outcome.darts, Len(throws), longer.bust)
    BY <2>3, <2>4
  <2> QED BY <1>2, <2>3, <2>5 DEF Growth
<1> QED BY <1>1, <1>2
-----------------------------------------------------------------------------
(* One more dart on the record.  The replays of the two records go abreast *)
(* until the shorter has used up its darts.  If its last visit is then     *)
(* complete, the dart opens another; if not, that visit is replayed with   *)
(* one dart more.                                                          *)
Kept(visits, longer) ==
    \A v \in 1..Len(visits) :
        visits[v].complete => v <= Len(longer) /\ longer[v] = visits[v]

Alike(leg, more) ==
    /\ more.teams = leg.teams /\ more.visits = leg.visits /\ more.counts = leg.counts
    /\ more.active = leg.active /\ more.offset = leg.offset /\ more.winner = leg.winner

Abreast(leg, more, n) ==
    /\ Alike(leg, more)
    /\ leg.refused => more.refused
    /\ more.refused => UsedUp(leg, n)

Unfinished(leg, thrown) == LegOK(leg, thrown) /\ ~UsedUp(leg, thrown)

Opened(leg, more, rules, members, darts, longer) ==
    /\ leg.offset = Len(darts)
    /\ \E before : /\ Alike(leg, before) /\ Unfinished(before, Len(longer))
                   /\ more = PlayVisit(rules, members, longer, before)

Continued(leg, more, rules, members, darts, longer) ==
    \E before, other, throws, outcome, visit, throws2, outcome2, visit2 :
        /\ Alike(before, other) /\ Unfinished(before, Len(darts))
        /\ Played(leg, rules, members, darts, before, throws, outcome, visit)
        /\ ~outcome.won /\ ~outcome.bust /\ Len(throws) # DartsPerVisit
        /\ Played(more, rules, members, longer, other, throws2, outcome2, visit2)
        /\ Extends(throws2, throws)

Ahead(leg, more, rules, members, darts, longer) ==
    /\ UsedUp(leg, Len(darts)) /\ UsedUp(more, Len(longer))
    /\ \/ Opened(leg, more, rules, members, darts, longer)
       \/ Continued(leg, more, rules, members, darts, longer)

OneMore(leg, more, rules, members, darts, longer) ==
    \/ Abreast(leg, more, Len(darts))
    \/ Ahead(leg, more, rules, members, darts, longer)

(* Two replays alike before a visit of the same outcome are alike after    *)
(* it.                                                                     *)
LEMMA SameOutcome ==
    ASSUME NEW members, NEW leg, NEW more, Alike(leg, more), NEW n, NEW m, NEW outcome
    PROVE  Alike(AfterVisit(members, n, leg, outcome), AfterVisit(members, m, more, outcome))
BY DEF Alike, AfterVisit

(* The next darts of the two records are the same three, or the longer     *)
(* record has one more.                                                    *)
LEMMA NextThrowsExtend ==
    ASSUME NEW S, NEW darts \in Seq(S), NEW longer \in Seq(S), Extends(longer, darts),
           NEW offset \in Nat, offset < Len(darts),
           NEW throws, throws = NextThrows(darts, offset),
           NEW more, more = NextThrows(longer, offset)
    PROVE  \/ more = throws
           \/ Extends(more, throws) /\ Len(throws) # DartsPerVisit
<1>1. PICK n \in Nat : n = Len(darts) /\ Len(longer) = n + 1
  BY DEF Extends
<1>2. throws \in Seq(S) /\ NextOf(throws, darts, offset)
  BY NextThrowsAre
<1>3. more \in Seq(S) /\ NextOf(more, longer, offset)
  BY <1>1, NextThrowsAre
<1>4. PICK a, b : a = Len(throws) /\ b = Len(more)
  OBVIOUS
<1>5. /\ a \in 1..3 /\ a <= n - offset /\ (a # 3 => a = n - offset)
      /\ \A i \in 1..a : throws[i] = darts[offset + i]
  BY <1>1, <1>2, <1>4 DEF NextOf, DartsPerVisit
<1>6. /\ b \in 1..3 /\ b <= n + 1 - offset /\ (b # 3 => b = n + 1 - offset)
      /\ \A i \in 1..b : more[i] = longer[offset + i]
  BY <1>1, <1>3, <1>4 DEF NextOf, DartsPerVisit
<1>7. \A i \in 1..a : i \in 1..b /\ offset + i \in 1..n
  BY <1>5, <1>6
<1>8. \A i \in 1..a : more[i] = throws[i]
  BY <1>1, <1>5, <1>6, <1>7 DEF Extends
<1>9. CASE a = 3
  <2>1. b = a
    BY <1>5, <1>6, <1>9
  <2>2. more = throws
    BY <1>2, <1>3, <1>4, <1>8, <2>1, SeqEqual
  <2> QED BY <2>2
<1>10. CASE a # 3
  <2>1. b = a + 1 /\ a \in Nat
    BY <1>5, <1>6, <1>10
  <2>2. Extends(more, throws)
    BY <1>4, <1>8, <2>1 DEF Extends
  <2> QED BY <1>4, <1>10, <2>2 DEF DartsPerVisit
<1> QED BY <1>9, <1>10

(* From the same visit on, one dart more shows only in the last visit      *)
(* there is.                                                               *)
LEMMA VisitAbreast ==
    ASSUME NEW S, NEW darts \in Seq(S), NEW longer \in Seq(S), Extends(longer, darts),
           NEW rules, NEW members, NEW leg, LegOK(leg, Len(darts)),
           NEW more, LegOK(more, Len(longer)), Abreast(leg, more, Len(darts)),
           ~UsedUp(leg, Len(darts)),
           NEW next, next = PlayVisit(rules, members, darts, leg),
           NEW then, then = PlayVisit(rules, members, longer, more)
    PROVE  OneMore(next, then, rules, members, darts, longer)
<1>1. PICK n \in Nat : n = Len(darts) /\ Len(longer) = n + 1
  BY DEF Extends
<1>2. ~leg.refused /\ ~more.refused /\ leg.offset # n /\ Alike(leg, more)
  BY <1>1 DEF Abreast, UsedUp
<1>3. leg.offset \in Nat /\ leg.offset < n /\ more.offset = leg.offset
  <2>1. leg.offset \in 0..n
    BY <1>1 DEF LegOK
  <2> QED BY <1>1, <1>2, <2>1 DEF Alike
<1>4. more.offset # Len(longer)
  BY <1>1, <1>3
<1>5. AlreadyWon(rules, leg.teams, leg.active) <=> AlreadyWon(rules, more.teams, more.active)
  BY <1>2 DEF Alike
<1>6. CASE AlreadyWon(rules, leg.teams, leg.active)
  <2>1. Refusal(next, leg) /\ Refusal(then, more)
    BY <1>1, <1>2, <1>4, <1>5, <1>6, PlayVisitIs
  <2> QED BY <1>2, <2>1 DEF Refusal, Alike, OneMore, Abreast, UsedUp
<1>7. ASSUME ~AlreadyWon(rules, leg.teams, leg.active),
             NEW throws \in Seq(S), NEW outcome, NEW visit,
             Played(next, rules, members, darts, leg, throws, outcome, visit),
             NEW throws2 \in Seq(S), NEW outcome2, NEW visit2,
             Played(then, rules, members, longer, more, throws2, outcome2, visit2)
      PROVE  OneMore(next, then, rules, members, darts, longer)
  <2>1. throws = NextThrows(darts, leg.offset) /\ throws2 = NextThrows(longer, leg.offset)
        /\ outcome = VisitOutcome(rules, leg.teams, leg.active, throws)
        /\ outcome2 = VisitOutcome(rules, leg.teams, leg.active, throws2)
    BY <1>2, <1>3, <1>7 DEF Played, NextOf, Alike
  <2>2. throws2 = throws \/ (Extends(throws2, throws) /\ Len(throws) # DartsPerVisit)
    BY <1>1, <1>3, <2>1, NextThrowsExtend
  <2>3. LegOK(next, n) /\ next.offset \in 0..n
    BY <1>1, <1>2, <1>7, PlayedKeepsOK DEF LegOK
  <2>4. ASSUME outcome2 = outcome
        PROVE  OneMore(next, then, rules, members, darts, longer)
    <3>1. /\ next = AfterVisit(members, Len(darts), leg, outcome)
          /\ then = AfterVisit(members, Len(longer), more, outcome)
      BY <1>2, <1>3, <1>5, <1>7, <2>1, <2>4 DEF PlayVisit, Alike
    <3>2. Alike(next, then)
      BY <1>2, <3>1, SameOutcome
    <3>3. /\ next.refused = (outcome.won /\ next.offset # n)
          /\ then.refused = (outcome.won /\ then.offset # n + 1)
          /\ then.offset = next.offset /\ outcome.won \in BOOLEAN
      BY <1>1, <1>7, <2>4, <3>2 DEF Played, Gained, Alike, Takes
    <3>4. next.offset # n + 1
      BY <2>3
    <3>5. (next.refused => then.refused) /\ (then.refused => next.refused \/ next.offset = n)
      BY <3>3, <3>4
    <3> QED BY <1>1, <3>2, <3>5 DEF OneMore, Abreast, UsedUp
  <2>5. CASE throws2 = throws
    BY <2>1, <2>4, <2>5
  <2>6. CASE outcome.won \/ outcome.bust
    BY <2>1, <2>2, <2>4, <2>6, VisitSettled
  <2>7. ASSUME Len(throws) # DartsPerVisit, ~outcome.won, ~outcome.bust
        PROVE  OneMore(next, then, rules, members, darts, longer)
    <3>1. Len(outcome.darts) = Len(throws)
      BY <1>7, <2>7 DEF Played, Takes
    <3>2. PICK m : m = Len(throws) /\ m = n - leg.offset
      BY <1>1, <1>7, <2>7 DEF Played, NextOf
    <3>3. next.offset = n
      <4>1. next.offset = leg.offset + m
        BY <1>7, <3>1, <3>2 DEF Played, Gained
      <4> QED BY <1>3, <3>2, <4>1
    <3>4. UsedUp(next, n)
      BY <3>3 DEF UsedUp
    <3>5. Extends(throws2, throws)
      <4>1. throws2 # throws
        <5>1. PICK a : a = Len(throws2)
          OBVIOUS
        <5>2. a # 3 => a = n + 1 - leg.offset
          BY <1>1, <1>3, <1>7, <5>1 DEF Played, NextOf, DartsPerVisit
        <5>3. m # 3 /\ a # m
          BY <1>3, <2>7, <3>2, <5>2 DEF DartsPerVisit
        <5> QED BY <3>2, <5>1, <5>3
      <4> QED BY <2>2, <4>1
    <3>6. GrownDarts(outcome2.darts, outcome.darts, Len(throws), outcome2.bust)
      BY <2>1, <2>7, <3>5, VisitGrows DEF Growth
    <3>7. UsedUp(then, n + 1)
      <4>1. Len(outcome2.darts) = m + 1
        BY <3>2, <3>6 DEF GrownDarts
      <4>2. then.offset = leg.offset + (m + 1)
        BY <1>3, <1>7, <4>1 DEF Played, Gained
      <4>3. then.offset = n + 1
        BY <1>3, <3>2, <4>2
      <4> QED BY <4>3 DEF UsedUp
    <3>8. Unfinished(leg, Len(darts))
      BY DEF Unfinished
    <3>9. Continued(next, then, rules, members, darts, longer)
      BY <1>2, <1>7, <2>7, <3>5, <3>8 DEF Continued
    <3> QED BY <1>1, <3>4, <3>7, <3>9 DEF OneMore, Ahead
  <2> QED BY <2>2, <2>5, <2>6, <2>7
<1>8. CASE ~AlreadyWon(rules, leg.teams, leg.active)
  <2>1. \E throws \in Seq(S) : \E outcome, visit :
           Played(next, rules, members, darts, leg, throws, outcome, visit)
    BY <1>1, <1>2, <1>8, PlayVisitIs
  <2>2. \E throws \in Seq(S) : \E outcome, visit :
           Played(then, rules, members, longer, more, throws, outcome, visit)
    BY <1>2, <1>4, <1>5, <1>8, PlayVisitIs
  <2> QED BY <1>7, <1>8, <2>1, <2>2
<1> QED BY <1>6, <1>8

(* A step of two replays, of the darts and of one dart more, keeps them    *)
(* so.                                                                     *)
LEMMA StepOneMore ==
    ASSUME NEW S, NEW darts \in Seq(S), NEW longer \in Seq(S), Extends(longer, darts),
           NEW rules, NEW members, NEW leg, LegOK(leg, Len(darts)),
           NEW more, LegOK(more, Len(longer)),
           OneMore(leg, more, rules, members, darts, longer),
           NEW next, next = LegStep(rules, members, darts, leg),
           NEW then, then = LegStep(rules, members, longer, more)
    PROVE  OneMore(next, then, rules, members, darts, longer)
<1>1. PICK n \in Nat : n = Len(darts) /\ Len(longer) = n + 1
  BY DEF Extends
<1>2. CASE ~UsedUp(leg, n)
  <2>1. Abreast(leg, more, n)
    BY <1>1, <1>2 DEF OneMore, Ahead
  <2>2. next = PlayVisit(rules, members, darts, leg)
    BY <1>1, <1>2 DEF LegStep, UsedUp
  <2>3. ~UsedUp(more, n + 1)
    <3>1. leg.offset \in 0..n /\ more.offset = leg.offset /\ ~more.refused
      BY <1>1, <1>2, <2>1 DEF LegOK, Abreast, Alike
    <3>2. more.offset # n + 1
      BY <3>1
    <3> QED BY <3>1, <3>2 DEF UsedUp
  <2>4. then = PlayVisit(rules, members, longer, more)
    BY <1>1, <2>3 DEF LegStep, UsedUp
  <2> QED BY <1>1, <1>2, <2>1, <2>2, <2>4, VisitAbreast
<1>3. CASE UsedUp(leg, n) /\ UsedUp(more, n + 1)
  <2>1. next = leg /\ then = more
    BY <1>1, <1>3 DEF LegStep, UsedUp
  <2> QED BY <2>1
<1>4. CASE UsedUp(leg, n) /\ ~UsedUp(more, n + 1)
  <2>1. next = leg /\ then = PlayVisit(rules, members, longer, more)
    BY <1>1, <1>4 DEF LegStep, UsedUp
  <2>2. Alike(leg, more) /\ Unfinished(more, Len(longer))
    BY <1>1, <1>4 DEF OneMore, Ahead, Abreast, Unfinished
  <2>3. Opened(next, then, rules, members, darts, longer)
    <3>1. ~more.refused /\ ~leg.refused
      BY <1>1, <1>4 DEF UsedUp, OneMore, Ahead, Abreast
    <3>2. leg.offset = n
      BY <1>4, <3>1 DEF UsedUp
    <3> QED BY <1>1, <2>1, <2>2, <3>2 DEF Opened
  <2>4. UsedUp(then, n + 1)
    <3>1. ~more.refused /\ more.offset # Len(longer)
      BY <1>1, <1>4 DEF UsedUp
    <3>2. more.offset = n
      BY <1>1, <1>4, <2>2, <3>1 DEF OneMore, Ahead, Abreast, Alike, UsedUp
    <3>3. CASE Refusal(then, more)
      BY <3>3 DEF Refusal, UsedUp
    <3>4. ASSUME NEW throws \in Seq(S), NEW outcome, NEW visit,
                 Played(then, rules, members, longer, more, throws, outcome, visit)
          PROVE  UsedUp(then, n + 1)
      <4>1. LegOK(then, n + 1) /\ then.offset \in Nat /\ then.offset > n
        BY <1>1, <3>1, <3>2, <3>4, PlayedKeepsOK
      <4>2. then.offset \in 0..n + 1
        BY <4>1 DEF LegOK
      <4>3. then.offset = n + 1
        BY <4>1, <4>2
      <4> QED BY <4>3 DEF UsedUp
    <3> QED BY <2>1, <3>1, <3>3, <3>4, PlayVisitIs
  <2> QED BY <1>1, <1>4, <2>1, <2>3, <2>4 DEF OneMore, Ahead
<1> QED BY <1>2, <1>3, <1>4

(* What the replay of a record has become when one dart more is replayed.   *)
LEMMA ReplayGrows ==
    ASSUME NEW S, NEW darts \in Seq(S), NEW longer \in Seq(S), Extends(longer, darts),
           NEW rules, NEW members, NEW starter,
           NEW leg, leg = LegReplay(rules, members, starter, darts),
           NEW more, more = LegReplay(rules, members, starter, longer)
    PROVE  \/ Abreast(leg, more, Len(darts)) /\ more.refused
           \/ Ahead(leg, more, rules, members, darts, longer)
<1>1. PICK n \in Nat : n = Len(darts) /\ Len(longer) = n + 1 /\ n + 1 \in Nat
  BY DEF Extends
<1>2. PICK short : Stages(short, rules, members, starter, darts)
  BY <1>1, LegHasStages
<1>3. PICK long : Stages(long, rules, members, starter, longer)
  BY <1>1, LegHasStages
<1>4. /\ \A i \in 0..n : LegOK(short[i], Len(darts))
      /\ \A i \in 0..n + 1 : LegOK(long[i], Len(longer))
      /\ UsedUp(short[n], n) /\ UsedUp(long[n + 1], n + 1)
  BY <1>1, <1>2, <1>3, StagesAreOK
<1> DEFINE T == {i \in 0..n : OneMore(short[i], long[i], rules, members, darts, longer)}
<1>5. 0 \in T
  <2>1. short[0] = Opening(rules, members, starter) /\ long[0] = short[0]
    BY <1>2, <1>3 DEF Stages
  <2>2. short[0].refused = FALSE
    BY <2>1 DEF Opening
  <2>3. Abreast(short[0], long[0], Len(darts))
    BY <2>1, <2>2 DEF Abreast, Alike
  <2>4. OneMore(short[0], long[0], rules, members, darts, longer)
    BY <2>3 DEF OneMore
  <2> QED BY <2>4
<1>6. ASSUME NEW i \in 0..n - 1, i \in T
      PROVE  i + 1 \in T
  <2>1. i + 1 \in 1..n /\ i + 1 \in 1..n + 1 /\ i + 1 - 1 = i /\ i \in 0..n /\ i \in 0..n + 1
    OBVIOUS
  <2>2. short[i + 1] = LegStep(rules, members, darts, short[i])
    BY <1>1, <1>2, <2>1 DEF Stages
  <2>3. long[i + 1] = LegStep(rules, members, longer, long[i])
    BY <1>1, <1>3, <2>1 DEF Stages
  <2>4. OneMore(short[i + 1], long[i + 1], rules, members, darts, longer)
    BY <1>4, <1>6, <2>1, <2>2, <2>3, StepOneMore
  <2> QED BY <2>1, <2>4
<1> HIDE DEF T
<1>7. OneMore(short[n], long[n], rules, members, darts, longer)
  <2>1. 0..n \subseteq T
    BY <1>5, <1>6, UpTo
  <2> QED BY <2>1 DEF T
<1>8. n \in 0..n /\ n \in 0..n + 1 /\ n + 1 \in 1..n + 1 /\ n + 1 - 1 = n
  OBVIOUS
<1>9. long[n + 1] = LegStep(rules, members, longer, long[n])
  BY <1>1, <1>3, <1>8 DEF Stages
<1>10. short[n] = LegStep(rules, members, darts, short[n])
  BY <1>1, <1>4 DEF LegStep, UsedUp
<1>11. OneMore(short[n], long[n + 1], rules, members, darts, longer)
  BY <1>4, <1>7, <1>8, <1>9, <1>10, StepOneMore
<1>12. leg = short[n] /\ more = long[n + 1]
  BY <1>1, <1>2, <1>3 DEF Stages
<1>13. Abreast(leg, more, n) => more.refused
  <2>1. LegOK(leg, n) /\ UsedUp(more, n + 1)
    BY <1>1, <1>4, <1>8, <1>12
  <2>2. leg.offset # n + 1
    BY <2>1 DEF LegOK
  <2> QED BY <2>1, <2>2 DEF Abreast, Alike, UsedUp
<1> QED BY <1>1, <1>11, <1>12, <1>13 DEF OneMore

(* The visit that a dart opens: the dart is all there is of it.            *)
NewVisit(leg, more) ==
    \E visit :
        /\ Grown(more.visits, leg.visits, visit)
        /\ IsSeq(visit.darts) /\ Len(visit.darts) = 1 /\ visit.bust \in BOOLEAN

(* The visit that a dart goes on with: it is whose it was, from where it   *)
(* began, and unless the dart busts, its darts are what they were.         *)
WentOn(visit, open, d, x01) ==
    /\ visit.team = open.team /\ visit.member = open.member /\ visit.before = open.before
    /\ ~open.complete /\ ~open.bust /\ visit.bust \in BOOLEAN
    /\ GrownDarts(visit.darts, open.darts, d, visit.bust)
    /\ x01 => SameBusts(visit.darts, open.darts, d)
    /\ ~x01 => ~visit.bust

SameVisit(leg, more, x01) ==
    \E n \in Nat : \E open, visit :
        /\ Len(leg.visits) = n + 1 /\ Len(more.visits) = n + 1 /\ IsSeq(more.visits)
        /\ \A v \in 1..n : more.visits[v] = leg.visits[v]
        /\ leg.visits[n + 1] = open /\ more.visits[n + 1] = visit
        /\ \E d \in 1..DartsPerVisit - 1 : WentOn(visit, open, d, x01)

(* The first dart of a visit.                                              *)
LEMMA OpenedIsNew ==
    ASSUME NEW S, NEW darts \in Seq(S), NEW longer \in Seq(S), Extends(longer, darts),
           NEW rules, NEW members, NEW leg, NEW more,
           Opened(leg, more, rules, members, darts, longer)
    PROVE  \/ NewVisit(leg, more)
           \/ more.refused /\ more.visits = leg.visits
<1>1. PICK n \in Nat : n = Len(darts) /\ Len(longer) = n + 1
  BY DEF Extends
<1>2. PICK before : /\ Alike(leg, before) /\ Unfinished(before, Len(longer))
                    /\ more = PlayVisit(rules, members, longer, before)
  BY DEF Opened
<1>3. LegOK(before, Len(longer)) /\ ~before.refused /\ before.offset = n
  BY <1>1, <1>2 DEF Unfinished, UsedUp, Opened, Alike
<1>4. CASE Refusal(more, before)
  BY <1>2, <1>4 DEF Refusal, Alike
<1>5. ASSUME NEW throws \in Seq(S), NEW outcome, NEW visit,
             Played(more, rules, members, longer, before, throws, outcome, visit)
      PROVE  NewVisit(leg, more)
  <2>1. Grown(more.visits, leg.visits, visit) /\ VisitMade(visit, members, before, outcome)
    BY <1>2, <1>5 DEF Played, Gained, Alike
  <2>2. Takes(outcome, Len(throws)) /\ NextOf(throws, longer, n)
    BY <1>3, <1>5 DEF Played
  <2>3. PICK a, b : a = Len(throws) /\ b = Len(outcome.darts)
    OBVIOUS
  <2>4. a \in 1..3 /\ a <= n + 1 - n /\ b \in 1..a
    BY <1>1, <2>2, <2>3 DEF NextOf, Takes, DartsPerVisit
  <2>5. b = 1
    BY <2>4
  <2>6. visit.darts = outcome.darts /\ visit.bust = outcome.bust
    BY <2>1 DEF VisitMade
  <2> QED BY <2>1, <2>2, <2>3, <2>5, <2>6 DEF NewVisit, Takes
<1>6. n + 1 \in Nat /\ n # n + 1
  OBVIOUS
<1> QED BY <1>1, <1>2, <1>3, <1>4, <1>5, <1>6, PlayVisitIs

(* A later dart of a visit.                                                *)
LEMMA ContinuedIsSame ==
    ASSUME NEW rules, NEW members, NEW darts, NEW longer, NEW leg, NEW more,
           Continued(leg, more, rules, members, darts, longer)
    PROVE  SameVisit(leg, more, rules.game = "x01")
<1>1. PICK before, other, throws, outcome, visit, throws2, outcome2, visit2 :
        /\ Alike(before, other) /\ Unfinished(before, Len(darts))
        /\ Played(leg, rules, members, darts, before, throws, outcome, visit)
        /\ ~outcome.won /\ ~outcome.bust /\ Len(throws) # DartsPerVisit
        /\ Played(more, rules, members, longer, other, throws2, outcome2, visit2)
        /\ Extends(throws2, throws)
  BY DEF Continued
<1>2. /\ VisitMade(visit, members, before, outcome) /\ VisitMade(visit2, members, before, outcome2)
      /\ Grown(leg.visits, before.visits, visit) /\ Grown(more.visits, before.visits, visit2)
  BY <1>1 DEF Played, Gained, Alike, VisitMade
<1>3. PICK n \in Nat : n = Len(before.visits)
  BY <1>2 DEF Grown
<1>4. /\ outcome = VisitOutcome(rules, before.teams, before.active, throws)
      /\ outcome2 = VisitOutcome(rules, before.teams, before.active, throws2)
      /\ Takes(outcome, Len(throws)) /\ NextOf(throws, darts, before.offset)
      /\ Takes(outcome2, Len(throws2))
  BY <1>1 DEF Played, Alike
<1>5. PICK d : d = Len(throws) /\ d = Len(outcome.darts)
  BY <1>1, <1>4 DEF Takes
<1>6. d \in 1..DartsPerVisit - 1
  <2>1. d \in 1..DartsPerVisit /\ d # DartsPerVisit
    BY <1>1, <1>4, <1>5 DEF NextOf
  <2> QED BY <2>1 DEF DartsPerVisit
<1>7. Growth(outcome2, outcome, d, rules.game = "x01")
  <2>1. Extends(throws2, throws) /\ ~outcome.won /\ ~outcome.bust
    BY <1>1
  <2>2. PICK states, team : /\ outcome = VisitOutcome(rules, states, team, throws)
                            /\ outcome2 = VisitOutcome(rules, states, team, throws2)
    BY <1>4
  <2>3. Growth(outcome2, outcome, Len(throws), rules.game = "x01")
    BY <2>1, <2>2, VisitGrows
  <2> QED BY <1>5, <2>3
<1>8. ~IsComplete(outcome)
  BY <1>1, <1>5 DEF IsComplete
<1>9. /\ visit.complete = IsComplete(outcome) /\ visit.bust = outcome.bust
      /\ visit.darts = outcome.darts /\ visit2.darts = outcome2.darts
      /\ visit2.bust = outcome2.bust /\ outcome2.bust \in BOOLEAN
      /\ visit2.team = visit.team /\ visit2.member = visit.member
      /\ visit2.before = outcome2.before /\ visit.before = outcome.before
  BY <1>2, <1>4 DEF VisitMade, Takes
<1>10. WentOn(visit2, visit, d, rules.game = "x01")
  BY <1>1, <1>7, <1>8, <1>9 DEF WentOn, Growth
<1>11. /\ Len(leg.visits) = n + 1 /\ Len(more.visits) = n + 1 /\ IsSeq(more.visits)
       /\ leg.visits[n + 1] = visit /\ more.visits[n + 1] = visit2
       /\ \A v \in 1..n : leg.visits[v] = before.visits[v] /\ more.visits[v] = before.visits[v]
  BY <1>2, <1>3 DEF Grown
<1> QED BY <1>3, <1>6, <1>10, <1>11 DEF SameVisit

(* One dart more opens a visit or goes on with the last one, and the rest  *)
(* of the leg is as it was; or it is a dart the engine refuses.            *)
LEMMA OneDartMore ==
    ASSUME NEW S, NEW darts \in Seq(S), NEW longer \in Seq(S), Extends(longer, darts),
           NEW rules, NEW members, NEW starter,
           NEW leg, leg = LegReplay(rules, members, starter, darts),
           NEW more, more = LegReplay(rules, members, starter, longer)
    PROVE  \/ NewVisit(leg, more)
           \/ SameVisit(leg, more, rules.game = "x01")
           \/ more.refused /\ more.visits = leg.visits
<1>1. CASE Abreast(leg, more, Len(darts)) /\ more.refused
  BY <1>1 DEF Abreast, Alike
<1>2. CASE Opened(leg, more, rules, members, darts, longer)
  BY <1>2, OpenedIsNew
<1>3. CASE Continued(leg, more, rules, members, darts, longer)
  BY <1>3, ContinuedIsSame
<1>4. \/ Abreast(leg, more, Len(darts)) /\ more.refused
      \/ Ahead(leg, more, rules, members, darts, longer)
  BY ReplayGrows
<1> QED BY <1>1, <1>2, <1>3, <1>4 DEF Ahead

(* Completed visits are what they were, whatever is thrown next.           *)
LEMMA CompletedVisitsStay ==
    ASSUME NEW S, NEW darts \in Seq(S), NEW longer \in Seq(S), Extends(longer, darts),
           NEW rules, NEW members, NEW starter
    PROVE  Kept(LegReplay(rules, members, starter, darts).visits,
                LegReplay(rules, members, starter, longer).visits)
<1>1. PICK leg, more : /\ leg = LegReplay(rules, members, starter, darts)
                       /\ more = LegReplay(rules, members, starter, longer)
  OBVIOUS
<1>2. LegOK(leg, Len(darts))
  <2>1. Len(darts) \in Nat
    OBVIOUS
  <2> QED BY <1>1, <2>1, ReplayIsOK
<1>3. CASE NewVisit(leg, more)
  <2>1. PICK n \in Nat : n = Len(leg.visits) /\ Len(more.visits) = n + 1
    BY <1>3 DEF NewVisit, Grown
  <2>2. \A v \in 1..n : v <= n + 1 /\ more.visits[v] = leg.visits[v]
    BY <1>3, <2>1 DEF NewVisit, Grown
  <2> QED BY <1>1, <2>1, <2>2 DEF Kept
<1>4. CASE SameVisit(leg, more, rules.game = "x01")
  <2>1. PICK n \in Nat : \E open, visit :
          /\ Len(leg.visits) = n + 1 /\ Len(more.visits) = n + 1
          /\ \A v \in 1..n : more.visits[v] = leg.visits[v]
          /\ leg.visits[n + 1] = open /\ ~open.complete
    BY <1>4 DEF SameVisit, WentOn
  <2>5. PICK open : leg.visits[n + 1] = open /\ ~open.complete
    BY <2>1
  <2>2. \A v \in 1..n + 1 : v <= n + 1 /\ (v # n + 1 => v \in 1..n)
    OBVIOUS
  <2> QED BY <1>1, <2>1, <2>2 DEF Kept
<1>5. CASE more.visits = leg.visits
  <2>1. PICK n : n = Len(leg.visits)
    OBVIOUS
  <2>2. \A v \in 1..n : v <= n
    BY <1>2, <2>1 DEF LegOK, IsSeq
  <2> QED BY <1>1, <1>5, <2>1, <2>2 DEF Kept
<1> QED BY <1>1, <1>3, <1>4, <1>5, OneDartMore

(***************************************************************************)
(* The scores of x01.  What comes off a team's score is what its counted   *)
(* darts are worth, dart by dart, visit by visit, stage by stage of a      *)
(* replay; and what opens a team is a dart that met the in-rule.           *)
(***************************************************************************)
(* What an x01 state is, what the judgements on a dart are, and what it is *)
(* worth.                                                                  *)
X01StateOK(s) ==
    /\ s = [remaining |-> s.remaining, open |-> s.open, darts |-> s.darts]
    /\ s.remaining \in Nat /\ s.open \in BOOLEAN /\ s.darts \in Nat

Judged(dart) ==
    /\ dart.counted \in BOOLEAN /\ Score(dart.throw) \in Nat
    /\ dart.bust # NoBust => ~dart.counted

Worth(dart) == IF dart.counted THEN Score(dart.throw) ELSE 0

Worths(darts) == [j \in 1..Len(darts) |-> Worth(darts[j])]

Opener(darts, j) == darts[j].counted /\ \A h \in 1..j - 1 : ~darts[h].counted

(* What a visit, or some of its darts, did to the team's score.            *)
X01Tally(before, after, darts, in_rule) ==
    /\ IsSeq(darts) /\ X01StateOK(after)
    /\ \A j \in 1..Len(darts) : Judged(darts[j])
    /\ before.remaining - after.remaining = Total(Worths(darts), 1..Len(darts))
    /\ after.open <=> before.open \/ \E j \in 1..Len(darts) : darts[j].counted
    /\ ~before.open =>
          \A j \in 1..Len(darts) : Opener(darts, j) => Satisfies(in_rule, darts[j].throw)

(* One dart.                                                               *)
DartTally(dart, before, in_rule) ==
    /\ X01StateOK(dart.state) /\ Judged(dart)
    /\ before.remaining - dart.state.remaining = Worth(dart)
    /\ dart.state.open <=> before.open \/ dart.counted
    /\ dart.counted /\ ~before.open => Satisfies(in_rule, dart.throw)

(* A legal throw scores a number.                                          *)
LEMMA ScoreIsNat ==
    ASSUME NEW t, IsLegalThrow(t)
    PROVE  Score(t) \in Nat
<1>1. PICK a \in Nat, b \in Nat : a = t.segment /\ b = t.multiplier
  BY DEF IsLegalThrow, Miss, Bull
<1>2. a * b \in Nat
  OBVIOUS
<1> QED BY <1>1, <1>2 DEF Score

(* What one dart takes off the score is what it is worth.                  *)
LEMMA X01DartTallies ==
    ASSUME NEW state, X01StateOK(state), NEW t, IsLegalThrow(t), NEW cfg,
           NEW dart, dart = X01ApplyDart(state, t, cfg)
    PROVE  DartTally(dart, state, cfg.in_rule)
<1>1. PICK score \in Nat : score = Score(t)
  BY ScoreIsNat
<1>2. PICK r \in Nat, o \in BOOLEAN, n \in {state.darts} :
            /\ r = state.remaining /\ o = state.open /\ n = state.darts
            /\ state = [remaining |-> r, open |-> o, darts |-> n]
  BY DEF X01StateOK
<1>3. PICK left : left = r - score
  OBVIOUS
<1>4. PICK unopened \in BOOLEAN : unopened = (~o /\ ~Satisfies(cfg.in_rule, t))
  OBVIOUS
<1>5. PICK bust : bust = IF unopened THEN NoBust ELSE BustReason(left, t, cfg)
  OBVIOUS
<1>6. PICK counted \in BOOLEAN : counted = (~unopened /\ bust = NoBust)
  OBVIOUS
<1>7. PICK thrown : thrown = [remaining |-> r, open |-> o, darts |-> n + 1]
  OBVIOUS
<1>8. [state EXCEPT !.darts = @ + 1] = thrown
  BY <1>2, <1>7
<1>9. dart = DartOutcome(thrown, t, left, counted, bust)
  <2>1. state.remaining - Score(t) = left /\ (~state.open /\ ~Satisfies(cfg.in_rule, t)) = unopened
    BY <1>1, <1>2, <1>3, <1>4
  <2> QED BY <1>5, <1>6, <1>8, <2>1 DEF X01ApplyDart
<1>10. /\ dart.throw = t /\ dart.counted = counted /\ dart.bust = bust
       /\ dart.state = IF counted THEN [thrown EXCEPT !.remaining = left, !.open = TRUE] ELSE thrown
  BY <1>9 DEF DartOutcome
<1>11. counted => left \in Nat
  <2>1. counted => BustReason(left, t, cfg) = NoBust
    BY <1>5, <1>6
  <2>2. left < 0 => BustReason(left, t, cfg) # NoBust
    BY DEF BustReason, NoBust
  <2> QED BY <1>1, <1>2, <1>3, <2>1, <2>2
<1>12. Judged(dart)
  BY <1>1, <1>6, <1>10 DEF Judged
<1>13. CASE counted
  <2>1. dart.state = [remaining |-> left, open |-> TRUE, darts |-> n + 1]
    BY <1>7, <1>10, <1>13
  <2>2. X01StateOK(dart.state) /\ dart.state.remaining = left /\ dart.state.open = TRUE
    BY <1>11, <1>13, <2>1 DEF X01StateOK
  <2>3. Worth(dart) = score
    BY <1>1, <1>10, <1>13 DEF Worth
  <2>4. ~o => Satisfies(cfg.in_rule, t)
    BY <1>4, <1>6, <1>13
  <2>5. state.remaining - dart.state.remaining = Worth(dart)
    <3>1. r - left = score
      BY <1>1, <1>2, <1>3
    <3> QED BY <1>2, <2>2, <2>3, <3>1
  <2>6. dart.state.open <=> state.open \/ dart.counted
    BY <1>10, <1>13, <2>2
  <2>7. dart.counted /\ ~state.open => Satisfies(cfg.in_rule, dart.throw)
    BY <1>2, <1>10, <2>4
  <2> QED BY <1>12, <2>2, <2>5, <2>6, <2>7 DEF DartTally
<1>14. CASE ~counted
  <2>1. dart.state = [remaining |-> r, open |-> o, darts |-> n + 1]
    BY <1>7, <1>10, <1>14
  <2>2. X01StateOK(dart.state) /\ dart.state.remaining = r /\ dart.state.open = o
    BY <2>1 DEF X01StateOK
  <2>3. Worth(dart) = 0
    BY <1>10, <1>14 DEF Worth
  <2> QED BY <1>2, <1>10, <1>12, <1>14, <2>2, <2>3 DEF DartTally
<1> QED BY <1>13, <1>14

(* One more dart, and what the darts are worth.                            *)
LEMMA WorthsGrow ==
    ASSUME NEW s, IsSeq(s), NEW e, NEW more, Grown(more, s, e),
           \A j \in 1..Len(more) : Judged(more[j])
    PROVE  /\ Total(Worths(s), 1..Len(s)) \in Int
           /\ Total(Worths(more), 1..Len(more)) = Total(Worths(s), 1..Len(s)) + Worth(e)
<1>1. PICK n \in Nat : n = Len(s) /\ Len(more) = n + 1 /\ more[n + 1] = e
                       /\ \A j \in 1..n : more[j] = s[j]
  BY DEF Grown
<1>2. PICK w, v : w = Worths(more) /\ v = Worths(s)
  OBVIOUS
<1>3. \A j \in 1..n + 1 : w[j] = Worth(more[j]) /\ w[j] \in Int
  BY <1>1, <1>2 DEF Worths, Worth, Judged
<1>4. \A j \in 1..n : w[j] = v[j]
  <2> SUFFICES ASSUME NEW j \in 1..n
               PROVE  w[j] = v[j]
    OBVIOUS
  <2>1. j \in 1..n + 1 /\ more[j] = s[j]
    BY <1>1
  <2>2. v[j] = Worth(s[j])
    BY <1>1, <1>2 DEF Worths
  <2> QED BY <1>3, <2>1, <2>2
<1>5. Total(w, 1..n) \in Int /\ Total(w, 1..n + 1) = Total(w, 1..n) + w[n + 1]
  BY <1>3, TotalNext
<1>6. Total(w, 1..n) = Total(v, 1..n)
  <2>1. IsFiniteSet(1..n)
    BY FS_Interval
  <2> QED BY <1>4, <2>1, SameTotal
<1>7. w[n + 1] = Worth(e)
  BY <1>1, <1>3
<1> QED BY <1>1, <1>2, <1>5, <1>6, <1>7

(* A tally of some darts and one of the next make a tally of them all.     *)
LEMMA TallyGrows ==
    ASSUME NEW before, X01StateOK(before), NEW mid, NEW darts, NEW rule,
           X01Tally(before, mid, darts, rule), NEW dart, DartTally(dart, mid, rule),
           NEW more, Grown(more, darts, dart)
    PROVE  X01Tally(before, dart.state, more, rule)
<1>1. PICK n \in Nat : n = Len(darts) /\ Len(more) = n + 1 /\ more[n + 1] = dart
                       /\ \A j \in 1..n : more[j] = darts[j]
  BY DEF Grown
<1>2. \A j \in 1..n + 1 : j = n + 1 \/ j \in 1..n
  OBVIOUS
<1>3. \A j \in 1..n : Judged(darts[j])
  BY <1>1 DEF X01Tally
<1>4. Judged(dart) /\ X01StateOK(dart.state)
  BY DEF DartTally
<1>5. \A j \in 1..n + 1 : Judged(more[j])
  BY <1>1, <1>2, <1>3, <1>4
<1>6. before.remaining - dart.state.remaining = Total(Worths(more), 1..n + 1)
  <2>1. PICK a \in Nat, b \in Nat, c \in Nat :
            a = before.remaining /\ b = mid.remaining /\ c = dart.state.remaining
    BY <1>4 DEF X01Tally, X01StateOK
  <2>2. PICK x, y : x \in Int /\ x = Total(Worths(darts), 1..n) /\ y = Worth(dart)
                            /\ Total(Worths(more), 1..n + 1) = x + y
    BY <1>1, <1>5, WorthsGrow DEF X01Tally
  <2>3. a - b = x /\ b - c = y
    BY <1>1, <2>1, <2>2 DEF X01Tally, DartTally
  <2> QED BY <2>1, <2>2, <2>3
<1>7. (\E j \in 1..n + 1 : more[j].counted) <=> (\E j \in 1..n : darts[j].counted) \/ dart.counted
  BY <1>1, <1>2
<1>8. dart.state.open <=> before.open \/ \E j \in 1..n + 1 : more[j].counted
  BY <1>1, <1>7 DEF X01Tally, DartTally
<1>9. ASSUME ~before.open, NEW j \in 1..n + 1, Opener(more, j)
      PROVE  Satisfies(rule, more[j].throw)
  <2>1. CASE j \in 1..n
    <3>1. \A h \in 1..j - 1 : more[h] = darts[h]
      BY <1>1, <2>1
    <3>2. Opener(darts, j)
      BY <1>1, <1>9, <2>1, <3>1 DEF Opener
    <3> QED BY <1>1, <1>9, <2>1, <3>2 DEF X01Tally
  <2>2. CASE j = n + 1
    <3>1. \A h \in 1..n : ~darts[h].counted
      <4>1. j - 1 = n
        BY <2>2
      <4> QED BY <1>1, <1>9, <4>1 DEF Opener
    <3>2. ~mid.open
      BY <1>1, <1>9, <3>1 DEF X01Tally
    <3> QED BY <1>1, <1>9, <2>2, <3>2 DEF DartTally, Opener
  <2> QED BY <1>2, <2>1, <2>2
<1>10. IsSeq(more)
  BY DEF Grown
<1> QED BY <1>1, <1>4, <1>5, <1>6, <1>8, <1>9, <1>10 DEF X01Tally

(* So for the darts of a visit up to any of them.                          *)
LEMMA X01RunTallies ==
    ASSUME NEW state, X01StateOK(state), NEW throws, Len(throws) \in Nat,
           \A i \in 1..Len(throws) : IsLegalThrow(throws[i]),
           NEW cfg, NEW run, X01Run(run, state, throws, cfg)
    PROVE  \A i \in 0..Len(throws) : X01Tally(state, run[i].state, run[i].darts, cfg.in_rule)
<1> DEFINE T == {i \in 0..Len(throws) :
                    X01Tally(state, run[i].state, run[i].darts, cfg.in_rule)}
<1>1. 0 \in T
  <2>1. run[0].darts = <<>> /\ run[0].state = state
    BY DEF X01Run, X01Start
  <2>2. PICK n : n = Len(run[0].darts) /\ n = 0 /\ IsSeq(run[0].darts)
    BY <2>1, EmptyIsSeq
  <2>3. Total(Worths(run[0].darts), 1..n) = 0
    <3>1. 1..n = {} /\ IsFiniteSet({})
      BY <2>2, FS_EmptySet
    <3>2. Total(Worths(run[0].darts), {}) = 0
      BY <3>1, TotalZero
    <3> QED BY <3>1, <3>2
  <2>4. state.remaining - state.remaining = 0
    BY DEF X01StateOK
  <2> QED BY <2>1, <2>2, <2>3, <2>4 DEF X01Tally
<1>2. ASSUME NEW i \in 0..Len(throws) - 1, i \in T
      PROVE  i + 1 \in T
  <2>1. run[i + 1] = X01Step(run[i], throws[i + 1], cfg)
    BY DEF X01Run
  <2>2. CASE Ended(run[i])
    <3>1. run[i + 1] = run[i]
      BY <2>1, <2>2 DEF X01Step
    <3>2. PICK m : m = i + 1 /\ m \in 0..Len(throws)
      OBVIOUS
    <3>3. run[m] = run[i]
      BY <3>1, <3>2
    <3>4. X01Tally(state, run[m].state, run[m].darts, cfg.in_rule)
      BY <1>2, <3>3
    <3>5. m \in T
      BY <3>2, <3>4
    <3> QED BY <3>2, <3>5
  <2>3. CASE ~Ended(run[i])
    <3>1. PICK mid, dart : mid = run[i].state /\ dart = X01ApplyDart(mid, throws[i + 1], cfg)
      OBVIOUS
    <3>2. DartTally(dart, mid, cfg.in_rule)
      <4>1. X01StateOK(mid) /\ IsLegalThrow(throws[i + 1])
        BY <1>2, <3>1 DEF X01Tally
      <4>2. PICK t : t = throws[i + 1]
        OBVIOUS
      <4> QED BY <3>1, <4>1, <4>2, X01DartTallies
    <3>3. run[i + 1].darts = Append(run[i].darts, dart) /\ run[i + 1].state = dart.state
      BY <2>1, <2>3, <3>1 DEF X01Step, AddX01Dart
    <3>4. PICK darts, more : darts = run[i].darts /\ more = run[i + 1].darts
      OBVIOUS
    <3>5. X01Tally(state, mid, darts, cfg.in_rule)
      BY <1>2, <3>1, <3>4
    <3>6. Grown(more, darts, dart)
      BY <3>3, <3>4, <3>5, SeqGrows DEF X01Tally
    <3>7. X01Tally(state, dart.state, more, cfg.in_rule)
      BY <3>2, <3>5, <3>6, TallyGrows
    <3>8. PICK m : m = i + 1 /\ m \in 0..Len(throws)
      OBVIOUS
    <3>9. run[m].state = dart.state /\ run[m].darts = more
      BY <3>3, <3>4, <3>8
    <3>10. m \in T
      BY <3>7, <3>8, <3>9
    <3> QED BY <3>8, <3>10
  <2> QED BY <2>2, <2>3
<1> HIDE DEF T
<1>3. 0..Len(throws) \subseteq T
  BY <1>1, <1>2, UpTo
<1> QED BY <1>3 DEF T

(* So for a whole visit; one that busts puts the score back, having        *)
(* uncounted its darts.                                                    *)
LEMMA X01VisitTallies ==
    ASSUME NEW state, X01StateOK(state), NEW throws, Len(throws) \in Nat,
           \A i \in 1..Len(throws) : IsLegalThrow(throws[i]),
           NEW cfg, NEW visit, visit = X01ApplyVisit(state, throws, cfg)
    PROVE  /\ X01Tally(state, visit.state, visit.darts, cfg.in_rule)
           /\ visit.bust # NoBust => visit.state.remaining = state.remaining
<1>1. PICK run : X01Run(run, state, throws, cfg)
  BY X01VisitRuns
<1>2. PICK end : end = run[Len(throws)] /\ visit = FinalX01(state, end)
  BY <1>1 DEF X01Run
<1>3. X01Tally(state, end.state, end.darts, cfg.in_rule)
  BY <1>1, <1>2, X01RunTallies
<1>4. X01Taken(run, Len(throws))
  BY <1>1, X01Takes
<1>5. FinalIs(visit, end)
  BY <1>2, <1>4, FinalX01Is DEF X01Taken
<1>6. CASE end.bust = NoBust
  BY <1>3, <1>5, <1>6 DEF FinalIs
<1>7. CASE end.bust # NoBust
  <2>1. PICK m \in Nat : m = Len(end.darts) /\ Len(visit.darts) = m
    BY <1>4, <1>5, <1>2, LenProperties DEF X01Taken, IsSeq, FinalIs
  <2>2. visit.state = [state EXCEPT !.darts = end.state.darts]
    <3>1. visit = Voided(state, end)
      BY <1>2, <1>7 DEF FinalX01
    <3>2. end = [state |-> end.state, darts |-> end.darts, bust |-> end.bust, won |-> end.won]
      BY <1>2, <1>4 DEF X01Taken
    <3> QED BY <3>1, <3>2 DEF Voided
  <2>3. X01StateOK(visit.state) /\ visit.state.remaining = state.remaining
        /\ visit.state.open = state.open
    <3>1. PICK d \in Nat : d = end.state.darts
      BY <1>3 DEF X01Tally, X01StateOK
    <3>2. visit.state = [remaining |-> state.remaining, open |-> state.open, darts |-> d]
      BY <2>2, <3>1 DEF X01StateOK
    <3> QED BY <3>2 DEF X01StateOK
  <2>4. ASSUME NEW j \in 1..m
        PROVE  /\ visit.darts[j].throw = end.darts[j].throw
               /\ visit.darts[j].counted = FALSE /\ Judged(visit.darts[j])
               /\ Worth(visit.darts[j]) = 0
    <3>1. PICK dart : dart = end.darts[j] /\ visit.darts[j] = [dart EXCEPT !.counted = FALSE]
      BY <1>5, <1>7, <2>1 DEF FinalIs
    <3>5. \A h \in 0..Len(throws) : \A g \in 1..Len(run[h].darts) : X01DartShape(run[h].darts[g])
      BY <1>1, X01DartsAreShaped
    <3>6. Len(throws) \in 0..Len(throws)
      OBVIOUS
    <3>7. \A g \in 1..Len(run[Len(throws)].darts) : X01DartShape(run[Len(throws)].darts[g])
      BY <3>5, <3>6
    <3>2. X01DartShape(dart)
      BY <1>2, <2>1, <3>1, <3>7
    <3>4. Judged(dart)
      BY <1>3, <2>1, <3>1 DEF X01Tally
    <3>3. visit.darts[j].throw = dart.throw /\ visit.darts[j].counted = FALSE
      BY <3>1, <3>2 DEF X01DartShape
    <3> QED BY <3>1, <3>3, <3>4 DEF Judged, Worth
  <2>5. PICK w : w = Worths(visit.darts)
    OBVIOUS
  <2>6. Total(w, 1..m) = 0
    <3>1. \A j \in 1..m : w[j] = 0
      BY <2>1, <2>4, <2>5 DEF Worths
    <3>2. IsFiniteSet(1..m)
      BY FS_Interval
    <3> QED BY <3>1, <3>2, TotalZero
  <2>7. state.remaining - visit.state.remaining = 0
    BY <2>3 DEF X01StateOK
  <2>8. \A j \in 1..m : ~visit.darts[j].counted
    BY <2>4
  <2>9. IsSeq(visit.darts)
    BY <1>5 DEF FinalIs
  <2>10. X01Tally(state, visit.state, visit.darts, cfg.in_rule)
    BY <2>1, <2>3, <2>4, <2>5, <2>6, <2>7, <2>8, <2>9 DEF X01Tally, Opener
  <2> QED BY <2>3, <2>10
<1> QED BY <1>6, <1>7

(* What the darts of a visit are worth, and those of each of a team's      *)
(* visits.                                                                 *)
VisitWorth(visit) == Total(Worths(visit.darts), 1..Len(visit.darts))

TeamWorths(visits, team) ==
    [v \in 1..Len(visits) |-> IF visits[v].team = team THEN VisitWorth(visits[v]) ELSE 0]

VisitSound(visit) ==
    /\ IsSeq(visit.darts) /\ \A j \in 1..Len(visit.darts) : Judged(visit.darts[j])
    /\ visit.before \in Nat /\ visit.after \in Nat
    /\ visit.bust => visit.after = visit.before /\ visit.complete
    /\ visit.before - visit.after = VisitWorth(visit)

SomeCounted(visit) == \E j \in 1..Len(visit.darts) : visit.darts[j].counted

ScoredIn(visits, team, v) ==
    v \in 1..Len(visits) /\ visits[v].team = team /\ SomeCounted(visits[v])

(* The first of a team's visits that scored opened it, with its first dart *)
(* that counted.                                                           *)
OpensRight(visits, team, rule) ==
    \A v \in 1..Len(visits) :
        ScoredIn(visits, team, v) /\ (\A u \in 1..v - 1 : ~ScoredIn(visits, team, u)) =>
            \A j \in 1..Len(visits[v].darts) :
                Opener(visits[v].darts, j) => Satisfies(rule, visits[v].darts[j].throw)

Standing(leg, rules, team) ==
    /\ X01StateOK(leg.teams[team])
    /\ rules.start - leg.teams[team].remaining
            = Total(TeamWorths(leg.visits, team), 1..Len(leg.visits))
    /\ leg.teams[team].open <=>
          rules.in_rule = "straight" \/ \E v \in 1..Len(leg.visits) : ScoredIn(leg.visits, team, v)
    /\ OpensRight(leg.visits, team, rules.in_rule)

X01Inv(leg, rules, N) ==
    /\ leg.teams = [s \in 0..N - 1 |-> leg.teams[s]]
    /\ \A team \in 0..N - 1 : Standing(leg, rules, team)
    /\ \A v \in 1..Len(leg.visits) : VisitSound(leg.visits[v])

(* A running sum, over a sequence and over one that has an element more.   *)
LEMMA TotalGrows ==
    ASSUME NEW n \in Nat, NEW v, NEW w, \A i \in 1..n + 1 : w[i] \in Int,
           \A i \in 1..n : w[i] = v[i]
    PROVE  /\ Total(v, 1..n) \in Int
           /\ Total(w, 1..n + 1) = Total(v, 1..n) + w[n + 1]
<1>1. Total(w, 1..n) \in Int /\ Total(w, 1..n + 1) = Total(w, 1..n) + w[n + 1]
  BY TotalNext
<1>2. Total(w, 1..n) = Total(v, 1..n)
  <2>1. IsFiniteSet(1..n)
    BY FS_Interval
  <2> QED BY <2>1, SameTotal
<1> QED BY <1>1, <1>2

(* What a visit is worth is a number.                                      *)
LEMMA VisitWorthIs ==
    ASSUME NEW visit, VisitSound(visit)
    PROVE  VisitWorth(visit) \in Int
<1>1. PICK n \in Nat : n = Len(visit.darts)
  BY LenProperties DEF VisitSound, IsSeq
<1>2. PICK w : w = Worths(visit.darts)
  OBVIOUS
<1>3. \A j \in 1..n : w[j] \in Int
  BY <1>1, <1>2 DEF Worths, Worth, Judged, VisitSound
<1>4. IsFiniteSet(1..n)
  BY FS_Interval
<1>5. Total(w, 1..n) \in Int
  BY <1>3, <1>4, TotalOf
<1> QED BY <1>1, <1>2, <1>5 DEF VisitWorth

(* One more visit, and what each team's visits are worth.                  *)
LEMMA TeamWorthsGrow ==
    ASSUME NEW visits, NEW visit, NEW more, Grown(more, visits, visit), VisitSound(visit),
           \A v \in 1..Len(visits) : VisitSound(visits[v]), NEW team
    PROVE  /\ Total(TeamWorths(visits, team), 1..Len(visits)) \in Int
           /\ Total(TeamWorths(more, team), 1..Len(more))
                = Total(TeamWorths(visits, team), 1..Len(visits))
                    + (IF visit.team = team THEN VisitWorth(visit) ELSE 0)
<1>1. PICK n \in Nat : n = Len(visits) /\ Len(more) = n + 1 /\ more[n + 1] = visit
                       /\ \A v \in 1..n : more[v] = visits[v]
  BY DEF Grown
<1>2. PICK w, x : w = TeamWorths(more, team) /\ x = TeamWorths(visits, team)
  OBVIOUS
<1>3. \A v \in 1..n + 1 : v \in 1..n \/ v = n + 1
  OBVIOUS
<1>4. \A v \in 1..n + 1 : VisitSound(more[v])
  BY <1>1, <1>3
<1>5. \A v \in 1..n + 1 : w[v] = IF more[v].team = team THEN VisitWorth(more[v]) ELSE 0
  BY <1>1, <1>2 DEF TeamWorths
<1>6. \A v \in 1..n + 1 : w[v] \in Int
  BY <1>4, <1>5, VisitWorthIs
<1>7. \A v \in 1..n : x[v] = IF visits[v].team = team THEN VisitWorth(visits[v]) ELSE 0
  BY <1>1, <1>2 DEF TeamWorths
<1>8. \A v \in 1..n : w[v] = x[v]
  BY <1>1, <1>3, <1>5, <1>7
<1>9. Total(x, 1..n) \in Int /\ Total(w, 1..n + 1) = Total(x, 1..n) + w[n + 1]
  BY <1>6, <1>8, TotalGrows
<1>10. w[n + 1] = IF visit.team = team THEN VisitWorth(visit) ELSE 0
  BY <1>1, <1>5
<1> QED BY <1>1, <1>2, <1>9, <1>10

(* One more visit, and which visits scored.                                *)
LEMMA ScoredGrows ==
    ASSUME NEW visits, NEW visit, NEW more, Grown(more, visits, visit), NEW team
    PROVE  /\ \A v \in 1..Len(visits) : ScoredIn(more, team, v) <=> ScoredIn(visits, team, v)
           /\ ScoredIn(more, team, Len(visits) + 1) <=> visit.team = team /\ SomeCounted(visit)
           /\ (\E v \in 1..Len(more) : ScoredIn(more, team, v)) <=>
                 \/ \E v \in 1..Len(visits) : ScoredIn(visits, team, v)
                 \/ visit.team = team /\ SomeCounted(visit)
<1>1. PICK n \in Nat : n = Len(visits) /\ Len(more) = n + 1 /\ more[n + 1] = visit
                       /\ \A v \in 1..n : more[v] = visits[v]
  BY DEF Grown
<1>2. \A v \in 1..n + 1 : v \in 1..n \/ v = n + 1
  OBVIOUS
<1>3. \A v \in 1..n : ScoredIn(more, team, v) <=> ScoredIn(visits, team, v)
  BY <1>1 DEF ScoredIn
<1>4. ScoredIn(more, team, n + 1) <=> visit.team = team /\ SomeCounted(visit)
  BY <1>1 DEF ScoredIn
<1> QED BY <1>1, <1>2, <1>3, <1>4

(* A visit added keeps the opening dart of a team right: it is an earlier  *)
(* visit that opened it, or this one.                                      *)
LEMMA OpensStillRight ==
    ASSUME NEW visits, NEW visit, NEW more, Grown(more, visits, visit), NEW team, NEW rule,
           OpensRight(visits, team, rule),
           visit.team = team /\ (\A v \in 1..Len(visits) : ~ScoredIn(visits, team, v)) =>
              \A j \in 1..Len(visit.darts) :
                  Opener(visit.darts, j) => Satisfies(rule, visit.darts[j].throw)
    PROVE  OpensRight(more, team, rule)
<1>1. PICK n \in Nat : n = Len(visits) /\ Len(more) = n + 1 /\ more[n + 1] = visit
                       /\ \A v \in 1..n : more[v] = visits[v]
  BY DEF Grown
<1>2. SUFFICES ASSUME NEW v \in 1..n + 1, ScoredIn(more, team, v),
                      \A u \in 1..v - 1 : ~ScoredIn(more, team, u),
                      NEW j \in 1..Len(more[v].darts), Opener(more[v].darts, j)
               PROVE  Satisfies(rule, more[v].darts[j].throw)
  BY <1>1 DEF OpensRight
<1>3. CASE v \in 1..n
  <2>1. ScoredIn(visits, team, v)
    BY <1>1, <1>2, <1>3, ScoredGrows
  <2>2. \A u \in 1..v - 1 : ~ScoredIn(visits, team, u)
    <3>1. \A u \in 1..v - 1 : u \in 1..n
      BY <1>3
    <3> QED BY <1>1, <1>2, <3>1, ScoredGrows
  <2>3. more[v] = visits[v]
    BY <1>1, <1>3
  <2> QED BY <1>1, <1>2, <1>3, <2>1, <2>2, <2>3 DEF OpensRight
<1>4. CASE v = n + 1
  <2>1. visit.team = team
    BY <1>1, <1>2, <1>4 DEF ScoredIn
  <2>2. \A u \in 1..n : ~ScoredIn(visits, team, u)
    <3>1. \A u \in 1..n : u \in 1..v - 1
      BY <1>4
    <3> QED BY <1>1, <1>2, <3>1, ScoredGrows
  <2>3. more[v] = visit
    BY <1>1, <1>4
  <2> QED BY <1>1, <1>2, <2>1, <2>2, <2>3
<1>5. v \in 1..n \/ v = n + 1
  OBVIOUS
<1> QED BY <1>3, <1>4, <1>5

(* The rules, and the throws, that the engine accepts.                     *)
X01Rules(rules) == rules.game = "x01" /\ rules.start \in Nat

Legal(S) == \A t \in S : IsLegalThrow(t)

(* A visit played, of x01: what the leg gains.                             *)
X01Made(next, rules, leg, visit, a) ==
    /\ a = leg.active /\ visit.team = a
    /\ X01Tally(leg.teams[a], next.teams[a], visit.darts, rules.in_rule)
    /\ next.teams = [leg.teams EXCEPT ![a] = next.teams[a]]
    /\ visit.before = leg.teams[a].remaining /\ visit.after = next.teams[a].remaining
    /\ visit.bust => visit.after = visit.before /\ visit.complete
    /\ Grown(next.visits, leg.visits, visit)

(* A visit played is a tally of its darts, for the team up.                *)
LEMMA X01PlayedMakes ==
    ASSUME NEW S, Legal(S), NEW darts \in Seq(S), NEW rules, X01Rules(rules), NEW members,
           NEW leg, NEW a, a = leg.active, a \in DOMAIN leg.teams, X01StateOK(leg.teams[a]),
           NEW next, NEW throws \in Seq(S), NEW outcome, NEW visit,
           Played(next, rules, members, darts, leg, throws, outcome, visit)
    PROVE  X01Made(next, rules, leg, visit, a)
<1>1. PICK state, end : state = leg.teams[a] /\ end = X01ApplyVisit(state, throws, rules)
  OBVIOUS
<1>2. outcome = X01Outcome(leg.teams, a, end)
  BY <1>1 DEF Played, VisitOutcome, X01Rules
<1>3. /\ outcome.teams = [leg.teams EXCEPT ![a] = end.state] /\ outcome.darts = end.darts
      /\ outcome.before = state.remaining /\ outcome.after = end.state.remaining
  BY <1>1, <1>2 DEF X01Outcome
<1>4. outcome.bust => end.bust # NoBust
  BY <1>2 DEF X01Outcome
<1>5. PICK n \in Nat : n = Len(throws) /\ \A i \in 1..n : IsLegalThrow(throws[i])
  BY LenProperties, ElementOfSeq DEF Legal
<1>6. /\ X01Tally(state, end.state, end.darts, rules.in_rule)
      /\ end.bust # NoBust => end.state.remaining = state.remaining
  BY <1>1, <1>5, X01VisitTallies
<1>7. /\ visit.team = a /\ visit.darts = outcome.darts /\ visit.before = outcome.before
      /\ visit.after = outcome.after /\ next.teams = outcome.teams
      /\ Grown(next.visits, leg.visits, visit)
  BY DEF Played, Gained, VisitMade
<1>8. visit.bust = outcome.bust /\ visit.complete = IsComplete(outcome)
  BY DEF Played, Gained, VisitMade
<1>9. next.teams[a] = end.state
  BY <1>3, <1>7
<1>10. visit.bust => visit.after = visit.before /\ visit.complete
  BY <1>3, <1>4, <1>6, <1>7, <1>8 DEF IsComplete
<1> QED BY <1>1, <1>3, <1>6, <1>7, <1>9, <1>10 DEF X01Made

(* Such a visit keeps the scores of every team right.                      *)
LEMMA X01MadeKeepsInv ==
    ASSUME NEW rules, X01Rules(rules), NEW N, NEW leg, X01Inv(leg, rules, N), NEW next,
           NEW visit, NEW a \in 0..N - 1, X01Made(next, rules, leg, visit, a),
           IsSeq(leg.visits)
    PROVE  X01Inv(next, rules, N)
<1>1. PICK n \in Nat : n = Len(leg.visits) /\ Len(next.visits) = n + 1
                       /\ next.visits[n + 1] = visit
                       /\ \A v \in 1..n : next.visits[v] = leg.visits[v]
  BY DEF X01Made, Grown
<1>2. PICK before, after : before = leg.teams[a] /\ after = next.teams[a]
  OBVIOUS
<1>3. next.teams = [s \in 0..N - 1 |-> IF s = a THEN after ELSE leg.teams[s]]
  BY <1>2 DEF X01Made, X01Inv
<1>4. X01Tally(before, after, visit.darts, rules.in_rule) /\ X01StateOK(before) /\ X01StateOK(after)
  BY <1>2 DEF X01Made, X01Inv, Standing, X01Tally
<1>5. VisitSound(visit)
  <2>1. visit.before \in Nat /\ visit.after \in Nat
    BY <1>2, <1>4 DEF X01Made, X01StateOK
  <2>2. visit.bust => visit.after = visit.before /\ visit.complete
    BY DEF X01Made
  <2>3. visit.before - visit.after = VisitWorth(visit)
    BY <1>2, <1>4 DEF X01Made, X01Tally, VisitWorth
  <2> QED BY <1>4, <2>1, <2>2, <2>3 DEF X01Tally, VisitSound
<1>6. \A v \in 1..n + 1 : VisitSound(next.visits[v])
  <2>1. \A v \in 1..n + 1 : v \in 1..n \/ v = n + 1
    OBVIOUS
  <2> QED BY <1>1, <1>5, <2>1 DEF X01Inv
<1>7. Grown(next.visits, leg.visits, visit) /\ visit.team = a
  BY DEF X01Made
<1>8. \A v \in 1..n : VisitSound(leg.visits[v])
  BY <1>1 DEF X01Inv
<1>9. ASSUME NEW team \in 0..N - 1
      PROVE  Standing(next, rules, team)
  <2>1. PICK x, y : /\ x \in Int /\ x = Total(TeamWorths(leg.visits, team), 1..Len(leg.visits))
                   /\ y = Total(TeamWorths(next.visits, team), 1..Len(next.visits))
                   /\ y = x + (IF visit.team = team THEN VisitWorth(visit) ELSE 0)
    BY <1>1, <1>5, <1>7, <1>8, TeamWorthsGrow
  <2>2. Standing(leg, rules, team)
    BY DEF X01Inv
  <2>3. PICK had, has, got \in BOOLEAN :
            /\ had <=> \E v \in 1..Len(leg.visits) : ScoredIn(leg.visits, team, v)
            /\ has <=> \E v \in 1..Len(next.visits) : ScoredIn(next.visits, team, v)
            /\ got <=> visit.team = team /\ SomeCounted(visit)
    OBVIOUS
  <2>4. has <=> had \/ got
    <3>1. (\E v \in 1..Len(next.visits) : ScoredIn(next.visits, team, v)) <=>
             \/ \E v \in 1..Len(leg.visits) : ScoredIn(leg.visits, team, v)
             \/ visit.team = team /\ SomeCounted(visit)
      BY <1>7, ScoredGrows
    <3> QED BY <2>3, <3>1
  <2>5. CASE team # a
    <3>1. next.teams[team] = leg.teams[team]
      BY <1>3, <2>5
    <3>2. PICK r \in Nat, q \in Nat : r = leg.teams[team].remaining /\ q = rules.start
      BY <2>2 DEF Standing, X01StateOK, X01Rules
    <3>3. y = x
      BY <1>7, <2>1, <2>5
    <3>4. rules.start - next.teams[team].remaining = y
      BY <2>1, <2>2, <3>1, <3>3 DEF Standing
    <3>5. OpensRight(next.visits, team, rules.in_rule)
      BY <1>7, <2>2, <2>5, OpensStillRight DEF Standing
    <3>6. next.teams[team].open <=> rules.in_rule = "straight" \/ has
      BY <1>7, <2>2, <2>3, <2>4, <2>5, <3>1 DEF Standing
    <3> QED BY <2>1, <2>2, <2>3, <3>1, <3>4, <3>5, <3>6 DEF Standing
  <2>6. CASE team = a
    <3>1. next.teams[team] = after /\ leg.teams[team] = before
      BY <1>2, <2>6
    <3>2. PICK r \in Nat, p \in Nat, q \in Nat :
              r = before.remaining /\ p = after.remaining /\ q = rules.start
      BY <1>4 DEF X01StateOK, X01Rules
    <3>3. PICK z : z = VisitWorth(visit)
      OBVIOUS
    <3>4. r - p = z
      BY <1>4, <3>2, <3>3 DEF X01Tally, VisitWorth
    <3>5. q - r = x /\ y = x + z
      BY <1>7, <2>1, <2>2, <2>6, <3>1, <3>2, <3>3 DEF Standing
    <3>6. q - p = y
      BY <3>4, <3>5
    <3>7. after.open <=> before.open \/ SomeCounted(visit)
      BY <1>4 DEF X01Tally, SomeCounted
    <3>8. before.open <=> rules.in_rule = "straight" \/ had
      BY <2>2, <2>3, <3>1 DEF Standing
    <3>9. after.open <=> rules.in_rule = "straight" \/ has
      BY <1>7, <2>3, <2>4, <2>6, <3>7, <3>8
    <3>10. OpensRight(next.visits, team, rules.in_rule)
      <4>1. ASSUME \A v \in 1..Len(leg.visits) : ~ScoredIn(leg.visits, team, v),
                   NEW j \in 1..Len(visit.darts), Opener(visit.darts, j)
            PROVE  Satisfies(rules.in_rule, visit.darts[j].throw)
        <5>1. CASE rules.in_rule = "straight"
          BY <5>1 DEF Satisfies
        <5>2. CASE rules.in_rule # "straight"
          <6>1. ~before.open
            BY <2>3, <3>8, <4>1, <5>2
          <6> QED BY <1>4, <4>1, <6>1 DEF X01Tally
        <5> QED BY <5>1, <5>2
      <4> QED BY <1>7, <2>2, <4>1, OpensStillRight DEF Standing
    <3> QED BY <1>4, <2>1, <2>3, <3>1, <3>2, <3>6, <3>9, <3>10 DEF Standing
  <2> QED BY <2>5, <2>6
<1>10. next.teams = [s \in 0..N - 1 |-> next.teams[s]]
  BY <1>3
<1> QED BY <1>1, <1>6, <1>9, <1>10 DEF X01Inv

(* A leg starts with every team on the start of the game.                  *)
LEMMA X01OpensSound ==
    ASSUME NEW rules, X01Rules(rules), NEW members, NEW N, Seats(members, N), NEW starter
    PROVE  X01Inv(Opening(rules, members, starter), rules, N)
<1>1. PICK leg : leg = Opening(rules, members, starter)
  OBVIOUS
<1>2. leg.visits = <<>> /\ leg.teams = [s \in 0..N - 1 |-> X01Initial(rules)]
  BY <1>1 DEF Opening, InitialStates, Seats, X01Rules
<1>3. PICK n : n = Len(leg.visits) /\ n = 0
  BY <1>2, EmptyIsSeq
<1>4. ASSUME NEW team \in 0..N - 1
      PROVE  Standing(leg, rules, team)
  <2>1. leg.teams[team] = [remaining |-> rules.start, open |-> rules.in_rule = "straight", darts |-> 0]
    BY <1>2 DEF X01Initial
  <2>2. X01StateOK(leg.teams[team]) /\ leg.teams[team].remaining = rules.start
        /\ (leg.teams[team].open <=> rules.in_rule = "straight")
    <3>1. PICK st : st = leg.teams[team]
      OBVIOUS
    <3>4. PICK o \in BOOLEAN : o = (rules.in_rule = "straight")
      OBVIOUS
    <3>2. st = [remaining |-> rules.start, open |-> o, darts |-> 0]
      BY <2>1, <3>1, <3>4
    <3>3. X01StateOK(st) /\ st.remaining = rules.start /\ st.open = o
      BY <3>2 DEF X01StateOK, X01Rules
    <3> QED BY <3>1, <3>3, <3>4
  <2>3. 1..n = {} /\ IsFiniteSet({})
    BY <1>3, FS_EmptySet
  <2>4. Total(TeamWorths(leg.visits, team), 1..n) = 0
    BY <2>3, TotalZero
  <2>5. rules.start - leg.teams[team].remaining = 0
    BY <2>2 DEF X01Rules
  <2>6. OpensRight(leg.visits, team, rules.in_rule)
    BY <1>3, <2>3 DEF OpensRight
  <2> QED BY <1>3, <2>2, <2>3, <2>4, <2>5, <2>6 DEF Standing
<1>5. leg.teams = [s \in 0..N - 1 |-> leg.teams[s]]
  BY <1>2
<1> QED BY <1>1, <1>3, <1>4, <1>5 DEF X01Inv

(* Every stage of the replay of an x01 leg keeps the scores.               *)
LEMMA StagesKeepScores ==
    ASSUME NEW S, Legal(S), NEW darts \in Seq(S), NEW rules, X01Rules(rules), NEW members, NEW N,
           Seats(members, N), NEW starter \in 0..N - 1, NEW leg,
           Stages(leg, rules, members, starter, darts)
    PROVE  \A i \in 0..Len(darts) : X01Inv(leg[i], rules, N)
<1>1. PICK n \in Nat : n = Len(darts)
  BY LenProperties
<1> DEFINE T == {i \in 0..n : X01Inv(leg[i], rules, N)}
<1>2. 0 \in T
  BY X01OpensSound DEF Stages
<1>3. ASSUME NEW i \in 0..n - 1, i \in T
      PROVE  i + 1 \in T
  <2>0. i + 1 \in 0..n
    OBVIOUS
  <2>1. leg[i + 1] = LegStep(rules, members, darts, leg[i])
    BY <1>1 DEF Stages
  <2>2. CASE UsedUp(leg[i], n)
    <3>1. leg[i + 1] = leg[i]
      BY <1>1, <2>1, <2>2 DEF LegStep, UsedUp
    <3> QED BY <1>3, <2>0, <3>1
  <2>3. CASE ~UsedUp(leg[i], n)
    <3>1. PICK before, next : before = leg[i] /\ next = leg[i + 1]
      OBVIOUS
    <3>2. LegOK(before, Len(darts)) /\ RotaInv(before, starter, members, N)
      BY <1>1, <3>1, StagesAreOK, StagesGoRound
    <3>3. /\ ~before.refused /\ before.offset # Len(darts)
          /\ next = PlayVisit(rules, members, darts, before)
          /\ X01Inv(before, rules, N)
      BY <1>1, <1>3, <2>1, <2>3, <3>1, <3>2 DEF LegStep, UsedUp, LegOK
    <3>4. CASE Refusal(next, before)
      <4>1. next.visits = before.visits /\ next.teams = before.teams
        BY <3>4 DEF Refusal
      <4>2. X01Inv(next, rules, N)
        BY <3>3, <4>1 DEF X01Inv, Standing
      <4> QED BY <2>0, <3>1, <4>2
    <3>5. ASSUME NEW throws \in Seq(S), NEW outcome, NEW visit,
                 Played(next, rules, members, darts, before, throws, outcome, visit)
          PROVE  i + 1 \in T
      <4>1. PICK a \in 0..N - 1 : a = before.active
        <5>1. \E q, r : Rota(before, starter, N, q, r)
          BY <3>2, <3>3 DEF LegOK, RotaInv
        <5> QED BY <5>1 DEF Rota
      <4>2. a \in DOMAIN before.teams /\ X01StateOK(before.teams[a])
        BY <3>3, <4>1 DEF X01Inv, Standing
      <4>3. X01Made(next, rules, before, visit, a)
        BY <3>5, <4>1, <4>2, X01PlayedMakes
      <4>4. X01Inv(next, rules, N)
        BY <3>2, <3>3, <4>1, <4>3, X01MadeKeepsInv DEF LegOK
      <4> QED BY <2>0, <3>1, <4>4
    <3> QED BY <3>2, <3>3, <3>4, <3>5, PlayVisitIs
  <2> QED BY <2>2, <2>3
<1> HIDE DEF T
<1>4. 0..n \subseteq T
  BY <1>2, <1>3, UpTo
<1> QED BY <1>1, <1>4 DEF T

(* So at the end of the replay.                                            *)
LEMMA ReplayKeepsScores ==
    ASSUME NEW S, Legal(S), NEW darts \in Seq(S), NEW rules, X01Rules(rules), NEW members, NEW N,
           Seats(members, N), NEW starter \in 0..N - 1
    PROVE  X01Inv(LegReplay(rules, members, starter, darts), rules, N)
<1>1. PICK n \in Nat : n = Len(darts)
  BY LenProperties
<1>2. PICK leg : Stages(leg, rules, members, starter, darts)
  BY <1>1, LegHasStages
<1>3. X01Inv(leg[n], rules, N)
  <2>1. n \in 0..n
    OBVIOUS
  <2> QED BY <1>1, <1>2, <2>1, StagesKeepScores
<1> QED BY <1>1, <1>2, <1>3 DEF Stages

(* The number of darts of each visit.                                      *)
Lengths(visits) == [w \in 1..Len(visits) |-> Len(visits[w].darts)]

(* The darts of a team that counted, by visit and place in the visit.      *)
CountedOf(visits, team) ==
    {p \in Pairs(Lengths(visits), Len(visits)) :
        visits[p[1]].team = team /\ visits[p[1]].darts[p[2]].counted}

(* The darts of the visits, as pairs of a visit and a place in it.         *)
LEMMA PairsAre ==
    ASSUME NEW visits, IsSeq(visits), NEW p
    PROVE  p \in Pairs(Lengths(visits), Len(visits)) <=>
              \E v \in 1..Len(visits) : \E j \in 1..Len(visits[v].darts) : p = <<v, j>>
<1>1. PICK n \in Nat : n = Len(visits)
  BY LenProperties DEF IsSeq
<1>2. PICK len : len = Lengths(visits)
  OBVIOUS
<1>3. \A v \in 1..n : len[v] = Len(visits[v].darts)
  BY <1>1, <1>2 DEF Lengths
<1>4. p \in Pairs(len, n) <=> \E v \in 1..n : \E j \in 1..len[v] : p = <<v, j>>
  BY DEF Pairs, Row
<1> QED BY <1>1, <1>2, <1>3, <1>4

(* What a team's counted darts are worth, added dart by dart, is what its  *)
(* visits are worth.                                                       *)
LEMMA CountedTotal ==
    ASSUME NEW visits, IsSeq(visits), \A v \in 1..Len(visits) : VisitSound(visits[v]), NEW team,
           NEW w, \A p \in CountedOf(visits, team) : w[p] = Score(visits[p[1]].darts[p[2]].throw)
    PROVE  /\ IsFiniteSet(CountedOf(visits, team))
           /\ Total(w, CountedOf(visits, team)) = Total(TeamWorths(visits, team), 1..Len(visits))
<1>0. PICK n \in Nat : n = Len(visits)
  BY LenProperties DEF IsSeq
<1>1. PICK len, P, C : /\ len = Lengths(visits)
                       /\ P = Pairs(len, n) /\ C = CountedOf(visits, team)
  OBVIOUS
<1>2. \A v \in 1..n : len[v] = Len(visits[v].darts) /\ len[v] \in Nat
  <2>1. \A v \in 1..n : len[v] = Len(visits[v].darts)
    BY <1>0, <1>1 DEF Lengths
  <2>2. \A v \in 1..n : Len(visits[v].darts) \in Nat
    BY <1>0, <1>1, LenProperties DEF VisitSound, IsSeq
  <2> QED BY <2>1, <2>2
<1>3. PICK u : u = [p \in P |-> IF visits[p[1]].team = team THEN Worth(visits[p[1]].darts[p[2]])
                                                          ELSE 0]
  OBVIOUS
<1>4. PICK x : x = [v \in 1..n |-> [j \in 1..len[v] |-> u[<<v, j>>]]]
  OBVIOUS
<1>5. PICK sums : sums = [v \in 1..n |-> Total(x[v], 1..len[v])]
  OBVIOUS
<1>6. \A v \in 1..n : \A j \in 1..len[v] :
         /\ <<v, j>> \in P /\ x[v][j] = u[<<v, j>>]
         /\ u[<<v, j>>] = IF visits[v].team = team THEN Worth(visits[v].darts[j]) ELSE 0
         /\ u[<<v, j>>] \in Int
  <2> SUFFICES ASSUME NEW v \in 1..n, NEW j \in 1..len[v]
               PROVE  /\ <<v, j>> \in P /\ x[v][j] = u[<<v, j>>]
                      /\ u[<<v, j>>] = IF visits[v].team = team THEN Worth(visits[v].darts[j]) ELSE 0
                      /\ u[<<v, j>>] \in Int
    OBVIOUS
  <2>1. <<v, j>> \in P
    BY <1>0, <1>1, <1>2, PairsAre
  <2>2. x[v][j] = u[<<v, j>>]
    BY <1>4
  <2>3. u[<<v, j>>] = IF visits[v].team = team THEN Worth(visits[v].darts[j]) ELSE 0
    BY <1>3, <2>1
  <2>4. Worth(visits[v].darts[j]) \in Int
    BY <1>0, <1>1, <1>2 DEF VisitSound, Judged, Worth
  <2> QED BY <2>1, <2>2, <2>3, <2>4
<1>7. IsFiniteSet(P) /\ Total(u, P) = Total(sums, 1..n)
  <2>1. \A v \in 1..n : len[v] \in Nat
    BY <1>2
  <2>2. \A v \in 1..n : \A j \in 1..len[v] : u[<<v, j>>] = x[v][j] /\ x[v][j] \in Int
    BY <1>6
  <2>3. \A v \in 1..n : sums[v] = Total(x[v], 1..len[v])
    BY <1>5
  <2>4. InRows(u, x, sums, len, n)
    BY <2>1, <2>2, <2>3 DEF InRows
  <2> QED BY <1>0, <1>1, <2>4, TotalRows
<1>8. \A v \in 1..n : sums[v] = TeamWorths(visits, team)[v]
  <2> SUFFICES ASSUME NEW v \in 1..n
               PROVE  sums[v] = TeamWorths(visits, team)[v]
    OBVIOUS
  <2>0. PICK m \in Nat, row \in {x[v]} : m = len[v] /\ row = x[v]
    BY <1>2
  <2>1. PICK M : m = len[v] /\ row = x[v] /\ M = 1..m
    BY <2>0
  <2>2. sums[v] = Total(row, M) /\ IsFiniteSet(M)
    <3>1. IsFiniteSet(M)
      BY <2>1, FS_Interval
    <3>2. sums[v] = Total(row, M)
      BY <1>5, <2>1
    <3> QED BY <3>1, <3>2
  <2>3. TeamWorths(visits, team)[v] = IF visits[v].team = team THEN VisitWorth(visits[v]) ELSE 0
    BY <1>0, <1>1 DEF TeamWorths
  <2>4. CASE visits[v].team = team
    <3>1. \A j \in M : row[j] = Worths(visits[v].darts)[j]
      BY <1>2, <1>6, <2>1, <2>4 DEF Worths
    <3>2. Total(row, M) = Total(Worths(visits[v].darts), M)
      BY <2>2, <3>1, SameTotal
    <3> QED BY <1>2, <2>1, <2>2, <2>3, <2>4, <3>2 DEF VisitWorth
  <2>5. CASE visits[v].team # team
    <3>1. \A j \in M : row[j] = 0
      BY <1>6, <2>1, <2>5
    <3>2. Total(row, M) = 0
      BY <2>2, <3>1, TotalZero
    <3> QED BY <2>2, <2>3, <2>5, <3>2
  <2> QED BY <2>4, <2>5
<1>9. Total(sums, 1..n) = Total(TeamWorths(visits, team), 1..n)
  <2>1. IsFiniteSet(1..n)
    BY <1>0, FS_Interval
  <2> QED BY <1>8, <2>1, SameTotal
<1>10. C \in SUBSET P /\ (\A p \in P \ C : u[p] = 0) /\ \A p \in C : u[p] = w[p]
  <2>1. C = {p \in P : visits[p[1]].team = team /\ visits[p[1]].darts[p[2]].counted}
    BY <1>0, <1>1 DEF CountedOf
  <2>2. \A p \in P : u[p] = IF visits[p[1]].team = team THEN Worth(visits[p[1]].darts[p[2]]) ELSE 0
    BY <1>3
  <2>3. \A p \in C : u[p] = w[p]
    BY <1>0, <1>1, <2>1, <2>2 DEF Worth
  <2>4. \A p \in P \ C : u[p] = 0
    BY <2>1, <2>2 DEF Worth
  <2> QED BY <2>1, <2>3, <2>4
<1>11. \A p \in P : u[p] \in Int
  <2>1. \A p \in P : \E v \in 1..n : \E j \in 1..len[v] : p = <<v, j>>
    BY <1>0, <1>1, <1>2, PairsAre
  <2> QED BY <1>6, <2>1
<1>12. IsFiniteSet(C) /\ Total(u, P) = Total(u, C)
  BY <1>7, <1>10, <1>11, TotalWithout
<1>13. Total(u, C) = Total(w, C)
  BY <1>10, <1>12, SameTotal
<1> QED BY <1>0, <1>1, <1>7, <1>9, <1>12, <1>13

(***************************************************************************)
(* The marks and the points of cricket.  Each team has the marks that its  *)
(* own darts put on a target, and the points that anybody's surplus paid it.*)
(***************************************************************************)
(* What the teams' cricket states are, and what a dart's outcome says.     *)
CricketOK(states, N) ==
    /\ states = [s \in 0..N - 1 |-> [marks |-> states[s].marks, points |-> states[s].points]]
    /\ \A s \in 0..N - 1 : /\ states[s].marks \in [Targets -> 0..MarksToClose]
                           /\ states[s].points \in Nat

Gain(dart, s) == IF \E a \in dart.awards : a.recipient = s THEN dart.target * dart.surplus ELSE 0

Marked(dart, g) == IF dart.target = g THEN dart.marks ELSE 0

(* A dart marks three times at most, the bull twice, nothing on no target; *)
(* only what is surplus is wasted or paid.                                 *)
CricketAllowed(dart) ==
    /\ dart.marks + dart.surplus <= (IF dart.target = Bull THEN 2 ELSE 3)
    /\ dart.target = NoTarget => dart.marks = 0 /\ dart.surplus = 0 /\ ~dart.wasted
    /\ dart.wasted => dart.surplus > 0
    /\ \A a \in dart.awards : a.points > 0

CricketJudged(dart) ==
    /\ CricketAllowed(dart)
    /\ dart.target \in Targets \cup {NoTarget}
    /\ dart.marks \in 0..MarksToClose /\ dart.surplus \in Nat
    /\ \A a \in dart.awards : a = [recipient |-> a.recipient, points |-> dart.target * dart.surplus]
    /\ dart.awards # {} => dart.target * dart.surplus \in Nat

CricketDartTally(dart, before, team, N) ==
    /\ CricketOK(dart.states, N) /\ CricketJudged(dart)
    /\ \A s \in 0..N - 1 : dart.states[s].points = before[s].points + Gain(dart, s)
    /\ \A s \in 0..N - 1 : \A g \in Targets :
          dart.states[s].marks[g] = before[s].marks[g] + (IF s = team THEN Marked(dart, g) ELSE 0)

(* The targets are segments of the board.                                  *)
LEMMA TargetsAreNumbers == \A g \in Targets : g \in Nat /\ g # NoTarget
BY TargetsAssumption DEF Bull, NoTarget

(* The marks and the surplus of a dart, and the teams paid for it.         *)
LEMMA MarksAndSurplus ==
    ASSUME NEW have \in 0..MarksToClose, NEW m \in 0..3, NEW room, room = MarksToClose - have,
           NEW surplus, surplus = IF m <= room THEN 0 ELSE m - room,
           NEW marks, marks = m - surplus
    PROVE  marks \in 0..3 /\ surplus \in Nat /\ have + marks \in 0..MarksToClose
BY DEF MarksToClose

(* What one dart adds to the marks and the points is what its outcome says.*)
LEMMA CricketDartTallies ==
    ASSUME NEW N \in Nat \ {0}, NEW states, CricketOK(states, N), NEW team \in 0..N - 1,
           NEW t, IsLegalThrow(t), NEW variant,
           NEW dart, dart = CricketApplyDart(states, team, t, variant)
    PROVE  CricketDartTally(dart, states, team, N)
<1>1. CASE t.segment \notin Targets
  <2>1. dart = [states |-> states, target |-> NoTarget, marks |-> 0, surplus |-> 0,
                awards |-> {}, wasted |-> FALSE, win |-> FALSE]
    BY <1>1 DEF CricketApplyDart
  <2>2. /\ dart.states = states /\ dart.target = NoTarget /\ dart.marks = 0 /\ dart.surplus = 0
        /\ dart.awards = {} /\ dart.wasted = FALSE
    BY <2>1
  <2>3. CricketJudged(dart)
    <3>1. CricketAllowed(dart)
      BY <2>2 DEF CricketAllowed, Bull, NoTarget
    <3> QED BY <2>2, <3>1 DEF CricketJudged, MarksToClose
  <2>4. \A s \in 0..N - 1 : dart.states[s].points = states[s].points + Gain(dart, s)
    <3> SUFFICES ASSUME NEW s \in 0..N - 1
                 PROVE  dart.states[s].points = states[s].points + Gain(dart, s)
      OBVIOUS
    <3>1. PICK p \in Nat : p = states[s].points
      BY DEF CricketOK
    <3>2. Gain(dart, s) = 0
      BY <2>2 DEF Gain
    <3> QED BY <2>2, <3>1, <3>2
  <2>5. \A s \in 0..N - 1 : \A g \in Targets :
           dart.states[s].marks[g] = states[s].marks[g] + (IF s = team THEN Marked(dart, g) ELSE 0)
    <3> SUFFICES ASSUME NEW s \in 0..N - 1, NEW g \in Targets
                 PROVE  dart.states[s].marks[g]
                            = states[s].marks[g] + (IF s = team THEN Marked(dart, g) ELSE 0)
      OBVIOUS
    <3>1. PICK p \in Nat : p = states[s].marks[g]
      BY DEF CricketOK, MarksToClose
    <3>2. Marked(dart, g) = 0
      BY <2>2, TargetsAreNumbers DEF Marked
    <3> QED BY <2>2, <3>1, <3>2
  <2> QED BY <2>2, <2>3, <2>4, <2>5 DEF CricketDartTally
<1>2. CASE t.segment \in Targets
  <2>1. PICK g \in Targets, m \in 0..3 : g = t.segment /\ m = t.multiplier
    BY <1>2 DEF IsLegalThrow
  <2>2. PICK have \in 0..MarksToClose : have = states[team].marks[g]
    BY DEF CricketOK
  <2>3. PICK room, surplus, marks, paid :
            /\ room = MarksToClose - have /\ surplus = IF m <= room THEN 0 ELSE m - room
            /\ marks = m - surplus
            /\ paid = IF surplus = 0 THEN {} ELSE Recipients(states, team, g, variant)
    OBVIOUS
  <2>4. marks \in 0..3 /\ surplus \in Nat /\ have + marks \in 0..MarksToClose
    BY <2>2, <2>3, MarksAndSurplus
  <2>5. PICK after : after = Paid(states, team, g, marks, surplus, paid)
    OBVIOUS
  <2>6. dart = TargetOutcome(after, team, g, marks, surplus, paid, variant)
    BY <1>2, <2>1, <2>2, <2>3, <2>5 DEF CricketApplyDart
  <2>7. /\ dart.states = after /\ dart.target = g /\ dart.marks = marks /\ dart.surplus = surplus
        /\ dart.awards = {[recipient |-> r, points |-> g * surplus] : r \in paid}
    BY <2>6 DEF TargetOutcome
  <2>8. PICK pay \in Nat : pay = g * surplus
    BY <2>4, TargetsAreNumbers
  <2>9. DOMAIN states = 0..N - 1
    BY DEF CricketOK
  <2>10. \A s \in 0..N - 1 :
            after[s] = [marks  |-> IF s = team THEN [states[s].marks EXCEPT ![g] = @ + marks]
                                               ELSE states[s].marks,
                        points |-> states[s].points + (IF s \in paid THEN pay ELSE 0)]
    BY <2>5, <2>8, <2>9 DEF Paid
  <2>21. \A s \in 0..N - 1 :
             /\ after[s].marks = IF s = team THEN [states[s].marks EXCEPT ![g] = @ + marks]
                                             ELSE states[s].marks
             /\ after[s].points = states[s].points + (IF s \in paid THEN pay ELSE 0)
    <3> SUFFICES ASSUME NEW s \in 0..N - 1
                 PROVE  /\ after[s].marks = IF s = team THEN [states[s].marks EXCEPT ![g] = @ + marks]
                                                        ELSE states[s].marks
                        /\ after[s].points = states[s].points + (IF s \in paid THEN pay ELSE 0)
      OBVIOUS
    <3>1. PICK x, y, z : /\ x = after[s]
                         /\ y = IF s = team THEN [states[s].marks EXCEPT ![g] = @ + marks]
                                            ELSE states[s].marks
                         /\ z = states[s].points + (IF s \in paid THEN pay ELSE 0)
      OBVIOUS
    <3>2. x = [marks |-> y, points |-> z]
      BY <2>10, <3>1
    <3>3. x.marks = y /\ x.points = z
      BY <3>2
    <3> QED BY <3>1, <3>3
  <2>11. \A s : Gain(dart, s) = IF s \in paid THEN pay ELSE 0
    <3> SUFFICES ASSUME NEW s
                 PROVE  Gain(dart, s) = IF s \in paid THEN pay ELSE 0
      OBVIOUS
    <3>1. \A r \in paid : [recipient |-> r, points |-> g * surplus] \in dart.awards
      BY <2>7
    <3>2. \A r \in paid : [recipient |-> r, points |-> g * surplus].recipient = r
      OBVIOUS
    <3>3. \A a \in dart.awards : \E r \in paid : a = [recipient |-> r, points |-> g * surplus]
      BY <2>7
    <3>4. \A a \in dart.awards : a.recipient \in paid
      BY <3>2, <3>3
    <3>5. (\E a \in dart.awards : a.recipient = s) <=> s \in paid
      BY <3>1, <3>2, <3>4
    <3>6. dart.target * dart.surplus = pay
      BY <2>7, <2>8
    <3> QED BY <3>5, <3>6 DEF Gain
  <2>12. \A s \in 0..N - 1 : after[s].points = states[s].points + Gain(dart, s)
                             /\ after[s].points \in Nat
    <3>1. \A s \in 0..N - 1 : after[s].points = states[s].points + (IF s \in paid THEN pay ELSE 0)
      BY <2>21
    <3>2. \A s \in 0..N - 1 : states[s].points \in Nat
      BY DEF CricketOK
    <3> QED BY <2>11, <3>1, <3>2
  <2>13. \A s \in 0..N - 1 : s # team => after[s].marks = states[s].marks
    BY <2>21
  <2>14. after[team].marks = [states[team].marks EXCEPT ![g] = @ + marks]
    BY <2>21
  <2>15. after[team].marks \in [Targets -> 0..MarksToClose]
    BY <2>1, <2>2, <2>4, <2>14 DEF CricketOK
  <2>16. \A s \in 0..N - 1 : after[s].marks \in [Targets -> 0..MarksToClose]
    BY <2>13, <2>15 DEF CricketOK
  <2>17. after = [s \in 0..N - 1 |-> [marks |-> after[s].marks, points |-> after[s].points]]
    BY <2>5, <2>9 DEF Paid
  <2>18. CricketOK(after, N)
    BY <2>12, <2>16, <2>17 DEF CricketOK
  <2>19. CricketJudged(dart)
    <3>1. \A a \in dart.awards : a = [recipient |-> a.recipient, points |-> g * surplus]
      BY <2>7
    <3>2. CricketAllowed(dart)
      <4>1. g \in Nat /\ g > 0 /\ g # NoTarget
        BY TargetsAssumption DEF Bull, NoTarget
      <4>2. marks + surplus = m /\ m <= (IF g = Bull THEN 2 ELSE 3)
        BY <2>1, <2>3, <2>4 DEF IsLegalThrow, Bull
      <4>3. dart.wasted => surplus > 0
        <5>1. PICK wasted, win : wasted = (surplus > 0 /\ paid = {})
                                 /\ win = HasWon(after, team, variant)
          OBVIOUS
        <5>2. PICK awards : awards = {[recipient |-> r, points |-> g * surplus] : r \in paid}
          OBVIOUS
        <5>3. dart = [states |-> after, target |-> g, marks |-> marks, surplus |-> surplus,
                      awards |-> awards, wasted |-> wasted, win |-> win]
          BY <2>6, <5>1, <5>2, Zenon DEF TargetOutcome
        <5>4. dart.wasted = wasted
          BY <5>3
        <5> QED BY <5>1, <5>4
      <4>4. ASSUME NEW a \in dart.awards
            PROVE  a.points > 0
        <5>1. PICK r \in paid : a = [recipient |-> r, points |-> g * surplus]
          BY <2>7
        <5>2. surplus > 0
          BY <2>3, <2>4, <5>1
        <5>3. g * surplus > 0
          BY <2>4, <4>1, <5>2
        <5> QED BY <5>1, <5>3
      <4> QED BY <2>7, <4>1, <4>2, <4>3, <4>4 DEF CricketAllowed
    <3> QED BY <2>4, <2>7, <2>8, <3>1, <3>2 DEF CricketJudged, MarksToClose
  <2>20. ASSUME NEW s \in 0..N - 1, NEW h \in Targets
         PROVE  after[s].marks[h] = states[s].marks[h] + (IF s = team THEN Marked(dart, h) ELSE 0)
    <3>1. states[s].marks[h] \in 0..MarksToClose /\ h \in DOMAIN states[s].marks
      BY DEF CricketOK
    <3>2. Marked(dart, h) = IF h = g THEN marks ELSE 0
      BY <2>7 DEF Marked
    <3>3. CASE s # team
      BY <2>13, <3>1, <3>3 DEF MarksToClose
    <3>4. CASE s = team
      <4>1. after[s].marks[h] = IF h = g THEN states[s].marks[h] + marks ELSE states[s].marks[h]
        BY <2>14, <3>1, <3>4
      <4> QED BY <2>4, <3>1, <3>2, <3>4, <4>1 DEF MarksToClose
    <3> QED BY <3>3, <3>4
  <2> QED BY <2>7, <2>12, <2>18, <2>19, <2>20 DEF CricketDartTally
<1> QED BY <1>1, <1>2

(* What a visit, or some of its darts, added to every team.                *)
Gains(darts, s) == [j \in 1..Len(darts) |-> Gain(darts[j], s)]

Marks(darts, g) == [j \in 1..Len(darts) |-> Marked(darts[j], g)]

Added(darts, s) == Total(Gains(darts, s), 1..Len(darts))

Put(darts, g) == Total(Marks(darts, g), 1..Len(darts))

CricketTally(before, after, darts, team, N) ==
    /\ IsSeq(darts) /\ CricketOK(after, N)
    /\ \A j \in 1..Len(darts) : CricketJudged(darts[j])
    /\ \A s \in 0..N - 1 : after[s].points = before[s].points + Added(darts, s)
    /\ \A s \in 0..N - 1 : \A g \in Targets :
          after[s].marks[g] = before[s].marks[g] + (IF s = team THEN Put(darts, g) ELSE 0)

(* What one dart adds is a number.                                         *)
LEMMA JudgedAmounts ==
    ASSUME NEW dart, CricketJudged(dart)
    PROVE  (\A s : Gain(dart, s) \in Nat) /\ (\A g : Marked(dart, g) \in Nat)
BY DEF CricketJudged, Gain, Marked, MarksToClose

(* One more dart, and what the darts add.                                  *)
LEMMA AmountsGrow ==
    ASSUME NEW darts, NEW dart, NEW more, Grown(more, darts, dart),
           \A j \in 1..Len(more) : CricketJudged(more[j])
    PROVE  /\ \A s : /\ Added(darts, s) \in Int /\ Added(more, s) = Added(darts, s) + Gain(dart, s)
           /\ \A g : /\ Put(darts, g) \in Int /\ Put(more, g) = Put(darts, g) + Marked(dart, g)
<1>1. PICK n \in Nat : n = Len(darts) /\ Len(more) = n + 1 /\ more[n + 1] = dart
                       /\ \A j \in 1..n : more[j] = darts[j]
  BY DEF Grown
<1>2. \A j \in 1..n : j \in 1..n + 1
  OBVIOUS
<1>3. ASSUME NEW s
      PROVE  Added(darts, s) \in Int /\ Added(more, s) = Added(darts, s) + Gain(dart, s)
  <2>1. PICK v, w : v = Gains(darts, s) /\ w = Gains(more, s)
    OBVIOUS
  <2>2. \A j \in 1..n + 1 : w[j] = Gain(more[j], s) /\ w[j] \in Int
    BY <1>1, <2>1, JudgedAmounts DEF Gains
  <2>3. \A j \in 1..n : v[j] = Gain(darts[j], s)
    BY <1>1, <2>1 DEF Gains
  <2>4. \A j \in 1..n : w[j] = v[j]
    BY <1>1, <1>2, <2>2, <2>3
  <2>5. Total(v, 1..n) \in Int /\ Total(w, 1..n + 1) = Total(v, 1..n) + w[n + 1]
    BY <2>2, <2>4, TotalGrows
  <2>6. w[n + 1] = Gain(dart, s)
    BY <1>1, <2>2
  <2> QED BY <1>1, <2>1, <2>5, <2>6 DEF Added
<1>4. ASSUME NEW g
      PROVE  Put(darts, g) \in Int /\ Put(more, g) = Put(darts, g) + Marked(dart, g)
  <2>1. PICK v, w : v = Marks(darts, g) /\ w = Marks(more, g)
    OBVIOUS
  <2>2. \A j \in 1..n + 1 : w[j] = Marked(more[j], g) /\ w[j] \in Int
    BY <1>1, <2>1, JudgedAmounts DEF Marks
  <2>3. \A j \in 1..n : v[j] = Marked(darts[j], g)
    BY <1>1, <2>1 DEF Marks
  <2>4. \A j \in 1..n : w[j] = v[j]
    BY <1>1, <1>2, <2>2, <2>3
  <2>5. Total(v, 1..n) \in Int /\ Total(w, 1..n + 1) = Total(v, 1..n) + w[n + 1]
    BY <2>2, <2>4, TotalGrows
  <2>6. w[n + 1] = Marked(dart, g)
    BY <1>1, <2>2
  <2> QED BY <1>1, <2>1, <2>5, <2>6 DEF Put
<1> QED BY <1>3, <1>4

(* What no dart adds.                                                      *)
LEMMA NothingAdded ==
    ASSUME NEW darts, darts = <<>>
    PROVE  (\A s : Added(darts, s) = 0) /\ (\A g : Put(darts, g) = 0)
<1>1. PICK n : n = Len(darts) /\ n = 0
  BY EmptyIsSeq
<1>2. 1..n = {} /\ IsFiniteSet({})
  BY <1>1, FS_EmptySet
<1>3. \A s : Total(Gains(darts, s), {}) = 0
  BY <1>2, TotalZero
<1>4. \A g : Total(Marks(darts, g), {}) = 0
  BY <1>2, TotalZero
<1> QED BY <1>1, <1>2, <1>3, <1>4 DEF Added, Put

(* A tally of some darts and one of the next make a tally of them all.     *)
LEMMA CricketTallyGrows ==
    ASSUME NEW N \in Nat \ {0}, NEW before, CricketOK(before, N), NEW mid, NEW darts, NEW team,
           CricketTally(before, mid, darts, team, N),
           NEW dart, CricketDartTally(dart, mid, team, N), NEW more, Grown(more, darts, dart)
    PROVE  CricketTally(before, dart.states, more, team, N)
<1>1. PICK n \in Nat : n = Len(darts) /\ Len(more) = n + 1 /\ more[n + 1] = dart
                       /\ \A j \in 1..n : more[j] = darts[j]
  BY DEF Grown
<1>2. \A j \in 1..n + 1 : j = n + 1 \/ j \in 1..n
  OBVIOUS
<1>3. \A j \in 1..n + 1 : CricketJudged(more[j])
  BY <1>1, <1>2 DEF CricketTally, CricketDartTally
<1>4. /\ \A s : /\ Added(darts, s) \in Int /\ Added(more, s) = Added(darts, s) + Gain(dart, s)
      /\ \A g : /\ Put(darts, g) \in Int /\ Put(more, g) = Put(darts, g) + Marked(dart, g)
  BY <1>1, <1>3, AmountsGrow
<1>5. (\A s : Gain(dart, s) \in Nat) /\ (\A g : Marked(dart, g) \in Nat)
  BY JudgedAmounts DEF CricketDartTally
<1>6. ASSUME NEW s \in 0..N - 1
      PROVE  dart.states[s].points = before[s].points + Added(more, s)
  <2>1. PICK a \in Nat, b \in Int, c \in Nat :
            a = before[s].points /\ b = Added(darts, s) /\ c = Gain(dart, s)
    BY <1>4, <1>5 DEF CricketOK
  <2>2. mid[s].points = a + b
    BY <2>1 DEF CricketTally
  <2>3. dart.states[s].points = mid[s].points + c
    BY <2>1 DEF CricketDartTally
  <2>4. Added(more, s) = b + c
    BY <1>4, <2>1
  <2> QED BY <2>1, <2>2, <2>3, <2>4
<1>7. ASSUME NEW s \in 0..N - 1, NEW g \in Targets
      PROVE  dart.states[s].marks[g] = before[s].marks[g] + (IF s = team THEN Put(more, g) ELSE 0)
  <2>1. PICK a \in Nat, b \in Int, c \in Nat :
            a = before[s].marks[g] /\ b = Put(darts, g) /\ c = Marked(dart, g)
    BY <1>4, <1>5 DEF CricketOK, MarksToClose
  <2>2. mid[s].marks[g] = a + (IF s = team THEN b ELSE 0)
    BY <2>1 DEF CricketTally
  <2>3. dart.states[s].marks[g] = mid[s].marks[g] + (IF s = team THEN c ELSE 0)
    BY <2>1 DEF CricketDartTally
  <2>4. Put(more, g) = b + c
    BY <1>4, <2>1
  <2> QED BY <2>1, <2>2, <2>3, <2>4
<1>8. IsSeq(more)
  BY DEF Grown
<1> QED BY <1>1, <1>3, <1>6, <1>7, <1>8 DEF CricketTally, CricketDartTally

(* So for a whole visit.                                                   *)
LEMMA CricketVisitTallies ==
    ASSUME NEW N \in Nat \ {0}, NEW states, CricketOK(states, N), NEW team \in 0..N - 1,
           NEW throws, Len(throws) \in Nat, \A i \in 1..Len(throws) : IsLegalThrow(throws[i]),
           NEW variant, NEW visit, visit = CricketApplyVisit(states, team, throws, variant)
    PROVE  CricketTally(states, visit.states, visit.darts, team, N)
<1>1. PICK run : CricketRun(run, states, team, throws, variant)
  BY CricketVisitRuns
<1> DEFINE T == {i \in 0..Len(throws) :
                    CricketTally(states, run[i].states, run[i].darts, team, N)}
<1>2. 0 \in T
  <2>1. PICK s0, d0 : s0 = run[0].states /\ d0 = run[0].darts /\ s0 = states /\ d0 = <<>>
    BY <1>1 DEF CricketRun, CricketStart
  <2>2. PICK n : n = Len(d0) /\ n = 0 /\ IsSeq(d0)
    BY <2>1, EmptyIsSeq
  <2>3. (\A s : Added(d0, s) = 0) /\ (\A g : Put(d0, g) = 0)
    BY <2>1, NothingAdded
  <2>4. \A s \in 0..N - 1 : s0[s].points = states[s].points + Added(d0, s)
    <3> SUFFICES ASSUME NEW s \in 0..N - 1
                 PROVE  s0[s].points = states[s].points + Added(d0, s)
      OBVIOUS
    <3>1. PICK p \in Nat : p = states[s].points
      BY DEF CricketOK
    <3> QED BY <2>1, <2>3, <3>1
  <2>5. \A s \in 0..N - 1 : \A g \in Targets :
           s0[s].marks[g] = states[s].marks[g] + (IF s = team THEN Put(d0, g) ELSE 0)
    <3> SUFFICES ASSUME NEW s \in 0..N - 1, NEW g \in Targets
                 PROVE  s0[s].marks[g] = states[s].marks[g] + (IF s = team THEN Put(d0, g) ELSE 0)
      OBVIOUS
    <3>1. PICK p \in Nat : p = states[s].marks[g]
      BY DEF CricketOK, MarksToClose
    <3> QED BY <2>1, <2>3, <3>1
  <2>6. CricketTally(states, s0, d0, team, N)
    BY <2>1, <2>2, <2>4, <2>5 DEF CricketTally
  <2>7. CricketTally(states, run[0].states, run[0].darts, team, N)
    BY <2>1, <2>6
  <2> QED BY <2>7
<1>3. ASSUME NEW i \in 0..Len(throws) - 1, i \in T
      PROVE  i + 1 \in T
  <2>1. PICK m : m = i + 1 /\ m \in 0..Len(throws)
    OBVIOUS
  <2>2. run[m] = CricketStep(run[i], team, throws[m], variant)
    <3>1. m \in 1..Len(throws) /\ m - 1 = i
      BY <2>1
    <3> QED BY <1>1, <3>1 DEF CricketRun
  <2>3. CASE run[i].won
    <3>1. run[m] = run[i]
      BY <2>2, <2>3 DEF CricketStep
    <3>2. CricketTally(states, run[m].states, run[m].darts, team, N)
      BY <1>3, <3>1
    <3>3. m \in T
      BY <2>1, <3>2
    <3> QED BY <2>1, <3>3
  <2>4. CASE ~run[i].won
    <3>1. PICK mid, darts, t, dart : /\ mid = run[i].states /\ darts = run[i].darts
                                     /\ t = throws[m] /\ dart = CricketApplyDart(mid, team, t, variant)
      OBVIOUS
    <3>2. CricketTally(states, mid, darts, team, N)
      BY <1>3, <3>1
    <3>3. IsLegalThrow(t)
      BY <2>1, <3>1
    <3>4. CricketDartTally(dart, mid, team, N)
      BY <3>1, <3>2, <3>3, CricketDartTallies DEF CricketTally
    <3>5. run[m].darts = Append(darts, dart) /\ run[m].states = dart.states
      BY <2>2, <2>4, <3>1 DEF CricketStep, AddCricketDart
    <3>6. Grown(run[m].darts, darts, dart)
      BY <3>2, <3>5, SeqGrows DEF CricketTally
    <3>7. CricketTally(states, dart.states, run[m].darts, team, N)
      BY <3>2, <3>4, <3>6, CricketTallyGrows
    <3>8. CricketTally(states, run[m].states, run[m].darts, team, N)
      BY <3>5, <3>7
    <3>9. m \in T
      BY <2>1, <3>8
    <3> QED BY <2>1, <3>9
  <2> QED BY <2>3, <2>4
<1>4. CricketTally(states, run[Len(throws)].states, run[Len(throws)].darts, team, N)
  <2> HIDE DEF T
  <2>1. 0..Len(throws) \subseteq T
    BY <1>2, <1>3, UpTo
  <2>2. Len(throws) \in T
    BY <2>1
  <2> QED BY <2>2 DEF T
<1> QED BY <1>1, <1>4 DEF CricketRun

(* What the visits of a leg added to every team.                           *)
TeamGains(visits, s) == [v \in 1..Len(visits) |-> Added(visits[v].darts, s)]

TeamMarks(visits, s, g) ==
    [v \in 1..Len(visits) |-> IF visits[v].team = s THEN Put(visits[v].darts, g) ELSE 0]

CricketSound(visit) ==
    /\ IsSeq(visit.darts) /\ \A j \in 1..Len(visit.darts) : CricketJudged(visit.darts[j])
    /\ visit.before \in Nat /\ visit.after \in Nat /\ ~visit.bust

CricketInv(leg, N) ==
    /\ CricketOK(leg.teams, N)
    /\ \A v \in 1..Len(leg.visits) : CricketSound(leg.visits[v])
    /\ \A s \in 0..N - 1 :
          /\ leg.teams[s].points = Total(TeamGains(leg.visits, s), 1..Len(leg.visits))
          /\ \A g \in Targets :
                leg.teams[s].marks[g] = Total(TeamMarks(leg.visits, s, g), 1..Len(leg.visits))

(* What the darts of a visit add is a number.                              *)
LEMMA AmountsAre ==
    ASSUME NEW darts, IsSeq(darts), \A j \in 1..Len(darts) : CricketJudged(darts[j])
    PROVE  (\A s : Added(darts, s) \in Int) /\ (\A g : Put(darts, g) \in Int)
<1>1. PICK n \in Nat : n = Len(darts)
  BY LenProperties DEF IsSeq
<1>2. IsFiniteSet(1..n)
  BY FS_Interval
<1>3. ASSUME NEW s
      PROVE  Added(darts, s) \in Int
  <2>1. PICK w : w = Gains(darts, s)
    OBVIOUS
  <2>2. \A j \in 1..n : w[j] \in Int
    BY <1>1, <2>1, JudgedAmounts DEF Gains
  <2>3. Total(w, 1..n) \in Int
    BY <1>2, <2>2, TotalOf
  <2> QED BY <1>1, <2>1, <2>3 DEF Added
<1>4. ASSUME NEW g
      PROVE  Put(darts, g) \in Int
  <2>1. PICK w : w = Marks(darts, g)
    OBVIOUS
  <2>2. \A j \in 1..n : w[j] \in Int
    BY <1>1, <2>1, JudgedAmounts DEF Marks
  <2>3. Total(w, 1..n) \in Int
    BY <1>2, <2>2, TotalOf
  <2> QED BY <1>1, <2>1, <2>3 DEF Put
<1> QED BY <1>3, <1>4

(* One more visit, and the points each team has gained.                    *)
LEMMA TeamGainsGrow ==
    ASSUME NEW visits, NEW visit, NEW more, Grown(more, visits, visit), CricketSound(visit),
           \A v \in 1..Len(visits) : CricketSound(visits[v]), NEW s
    PROVE  /\ Total(TeamGains(visits, s), 1..Len(visits)) \in Int
           /\ Total(TeamGains(more, s), 1..Len(more))
                = Total(TeamGains(visits, s), 1..Len(visits)) + Added(visit.darts, s)
<1>1. PICK n \in Nat : n = Len(visits) /\ Len(more) = n + 1 /\ more[n + 1] = visit
                       /\ \A v \in 1..n : more[v] = visits[v]
  BY DEF Grown
<1>2. \A v \in 1..n + 1 : v \in 1..n \/ v = n + 1
  OBVIOUS
<1>3. \A v \in 1..n + 1 : CricketSound(more[v])
  BY <1>1, <1>2
<1>4. \A v \in 1..n + 1 : /\ \A g : Put(more[v].darts, g) \in Int
                          /\ Added(more[v].darts, s) \in Int
  BY <1>3, AmountsAre DEF CricketSound
<1>5. PICK x, w : x = TeamGains(visits, s) /\ w = TeamGains(more, s)
  OBVIOUS
<1>6. \A v \in 1..n + 1 : w[v] = Added(more[v].darts, s)
  BY <1>1, <1>5 DEF TeamGains
<1>7. \A v \in 1..n : x[v] = Added(visits[v].darts, s)
  BY <1>1, <1>5 DEF TeamGains
<1>8. \A v \in 1..n : w[v] = x[v]
  BY <1>1, <1>2, <1>6, <1>7
<1>9. \A v \in 1..n + 1 : w[v] \in Int
  BY <1>4, <1>6
<1>10. Total(x, 1..n) \in Int /\ Total(w, 1..n + 1) = Total(x, 1..n) + w[n + 1]
  BY <1>8, <1>9, TotalGrows
<1>11. w[n + 1] = Added(visit.darts, s)
  BY <1>1, <1>6
<1> QED BY <1>1, <1>5, <1>10, <1>11

(* One more visit, and the marks each team has put on a target.            *)
LEMMA TeamMarksGrow ==
    ASSUME NEW visits, NEW visit, NEW more, Grown(more, visits, visit), CricketSound(visit),
           \A v \in 1..Len(visits) : CricketSound(visits[v]), NEW s, NEW g
    PROVE  /\ Total(TeamMarks(visits, s, g), 1..Len(visits)) \in Int
           /\ Total(TeamMarks(more, s, g), 1..Len(more))
                = Total(TeamMarks(visits, s, g), 1..Len(visits))
                     + (IF visit.team = s THEN Put(visit.darts, g) ELSE 0)
<1>1. PICK n \in Nat : n = Len(visits) /\ Len(more) = n + 1 /\ more[n + 1] = visit
                       /\ \A v \in 1..n : more[v] = visits[v]
  BY DEF Grown
<1>2. \A v \in 1..n + 1 : v \in 1..n \/ v = n + 1
  OBVIOUS
<1>3. \A v \in 1..n + 1 : CricketSound(more[v])
  BY <1>1, <1>2
<1>4. \A v \in 1..n + 1 : /\ \A h : Put(more[v].darts, h) \in Int
                          /\ Added(more[v].darts, s) \in Int
  BY <1>3, AmountsAre DEF CricketSound
<1>5. PICK x, w : x = TeamMarks(visits, s, g) /\ w = TeamMarks(more, s, g)
  OBVIOUS
<1>6. \A v \in 1..n + 1 : w[v] = IF more[v].team = s THEN Put(more[v].darts, g) ELSE 0
  BY <1>1, <1>5 DEF TeamMarks
<1>7. \A v \in 1..n : x[v] = IF visits[v].team = s THEN Put(visits[v].darts, g) ELSE 0
  BY <1>1, <1>5 DEF TeamMarks
<1>8. \A v \in 1..n : w[v] = x[v]
  BY <1>1, <1>2, <1>6, <1>7
<1>9. \A v \in 1..n + 1 : w[v] \in Int
  BY <1>4, <1>6
<1>10. Total(x, 1..n) \in Int /\ Total(w, 1..n + 1) = Total(x, 1..n) + w[n + 1]
  BY <1>8, <1>9, TotalGrows
<1>11. w[n + 1] = IF visit.team = s THEN Put(visit.darts, g) ELSE 0
  BY <1>1, <1>6
<1> QED BY <1>1, <1>5, <1>10, <1>11

(* A visit played, of cricket: what the leg gains.                         *)
CricketMade(next, leg, visit, a, N) ==
    /\ a = leg.active /\ visit.team = a
    /\ CricketTally(leg.teams, next.teams, visit.darts, a, N)
    /\ visit.before = leg.teams[a].points /\ visit.after = next.teams[a].points
    /\ ~visit.bust
    /\ Grown(next.visits, leg.visits, visit)

(* A visit played is a tally of its darts, for every team.                 *)
LEMMA CricketPlayedMakes ==
    ASSUME NEW S, Legal(S), NEW darts \in Seq(S), NEW rules, rules.game # "x01", NEW members,
           NEW N \in Nat \ {0}, NEW leg, NEW a \in 0..N - 1, a = leg.active, CricketOK(leg.teams, N),
           NEW next, NEW throws \in Seq(S), NEW outcome, NEW visit,
           Played(next, rules, members, darts, leg, throws, outcome, visit)
    PROVE  CricketMade(next, leg, visit, a, N)
<1>1. PICK states, end : states = leg.teams
                         /\ end = CricketApplyVisit(states, a, throws, rules.variant)
  OBVIOUS
<1>2. outcome = CricketOutcome(states, a, end)
  BY <1>1 DEF Played, VisitOutcome
<1>3. /\ outcome.teams = end.states /\ outcome.darts = end.darts
      /\ outcome.before = states[a].points /\ outcome.after = end.states[a].points
      /\ outcome.bust = FALSE
  BY <1>2 DEF CricketOutcome
<1>4. PICK n \in Nat : n = Len(throws) /\ \A i \in 1..n : IsLegalThrow(throws[i])
  BY LenProperties, ElementOfSeq DEF Legal
<1>5. CricketTally(states, end.states, end.darts, a, N)
  BY <1>1, <1>4, CricketVisitTallies
<1>6. /\ visit.team = a /\ visit.darts = outcome.darts /\ visit.before = outcome.before
      /\ visit.after = outcome.after /\ next.teams = outcome.teams
      /\ visit.bust = outcome.bust /\ Grown(next.visits, leg.visits, visit)
  BY DEF Played, Gained, VisitMade
<1> QED BY <1>1, <1>3, <1>5, <1>6 DEF CricketMade

(* Such a visit keeps the marks and the points of every team right.        *)
LEMMA CricketMadeKeepsInv ==
    ASSUME NEW N \in Nat \ {0}, NEW leg, CricketInv(leg, N), NEW next, NEW visit,
           NEW a \in 0..N - 1, CricketMade(next, leg, visit, a, N)
    PROVE  CricketInv(next, N)
<1>1. PICK n \in Nat : n = Len(leg.visits) /\ Len(next.visits) = n + 1
                       /\ next.visits[n + 1] = visit
                       /\ \A v \in 1..n : next.visits[v] = leg.visits[v]
  BY DEF CricketMade, Grown
<1>2. PICK before, after : before = leg.teams /\ after = next.teams
  OBVIOUS
<1>3. CricketTally(before, after, visit.darts, a, N) /\ CricketOK(before, N) /\ CricketOK(after, N)
  BY <1>2 DEF CricketMade, CricketInv, CricketTally
<1>4. CricketSound(visit)
  <2>1. visit.before \in Nat /\ visit.after \in Nat
    BY <1>2, <1>3 DEF CricketMade, CricketOK
  <2> QED BY <1>3, <2>1 DEF CricketMade, CricketTally, CricketSound
<1>5. \A v \in 1..n : CricketSound(leg.visits[v])
  BY <1>1 DEF CricketInv
<1>6. \A v \in 1..n + 1 : CricketSound(next.visits[v])
  <2>1. \A v \in 1..n + 1 : v \in 1..n \/ v = n + 1
    OBVIOUS
  <2> QED BY <1>1, <1>4, <1>5, <2>1
<1>7. Grown(next.visits, leg.visits, visit) /\ visit.team = a
  BY DEF CricketMade
<1>8. (\A s : Added(visit.darts, s) \in Int) /\ (\A g : Put(visit.darts, g) \in Int)
  BY <1>4, AmountsAre DEF CricketSound
<1>9. ASSUME NEW s \in 0..N - 1
      PROVE  after[s].points = Total(TeamGains(next.visits, s), 1..n + 1)
  <2>1. PICK x \in Int, y \in Int : x = Total(TeamGains(leg.visits, s), 1..n)
                                    /\ y = Added(visit.darts, s)
    BY <1>1, <1>4, <1>5, <1>7, <1>8, TeamGainsGrow
  <2>2. Total(TeamGains(next.visits, s), 1..n + 1) = x + y
    BY <1>1, <1>4, <1>5, <1>7, <2>1, TeamGainsGrow
  <2>3. before[s].points = x
    BY <1>1, <1>2, <2>1 DEF CricketInv
  <2>4. after[s].points = before[s].points + y
    BY <1>3, <2>1 DEF CricketTally
  <2> QED BY <2>2, <2>3, <2>4
<1>10. ASSUME NEW s \in 0..N - 1, NEW g \in Targets
       PROVE  after[s].marks[g] = Total(TeamMarks(next.visits, s, g), 1..n + 1)
  <2>1. PICK x \in Int, y \in Int : x = Total(TeamMarks(leg.visits, s, g), 1..n)
                                    /\ y = Put(visit.darts, g)
    BY <1>1, <1>4, <1>5, <1>7, <1>8, TeamMarksGrow
  <2>2. Total(TeamMarks(next.visits, s, g), 1..n + 1) = x + (IF a = s THEN y ELSE 0)
    <3>1. Total(TeamMarks(next.visits, s, g), 1..Len(next.visits))
             = Total(TeamMarks(leg.visits, s, g), 1..Len(leg.visits))
                  + (IF visit.team = s THEN Put(visit.darts, g) ELSE 0)
      <4>1. PICK visits, more : visits = leg.visits /\ more = next.visits
        OBVIOUS
      <4>2. Grown(more, visits, visit) /\ \A v \in 1..Len(visits) : CricketSound(visits[v])
        BY <1>1, <1>5, <1>7, <4>1
      <4>3. Total(TeamMarks(more, s, g), 1..Len(more))
               = Total(TeamMarks(visits, s, g), 1..Len(visits))
                    + (IF visit.team = s THEN Put(visit.darts, g) ELSE 0)
        BY <1>4, <4>2, TeamMarksGrow
      <4> QED BY <4>1, <4>3
    <3> QED BY <1>1, <1>7, <2>1, <3>1
  <2>3. before[s].marks[g] = x
    BY <1>1, <1>2, <2>1 DEF CricketInv
  <2>4. after[s].marks[g] = before[s].marks[g] + (IF s = a THEN y ELSE 0)
    BY <1>3, <2>1 DEF CricketTally
  <2> QED BY <2>2, <2>3, <2>4
<1> QED BY <1>1, <1>2, <1>3, <1>6, <1>9, <1>10 DEF CricketInv

(* A leg starts with no marks and no points.                               *)
LEMMA CricketOpensSound ==
    ASSUME NEW rules, rules.game # "x01", NEW members, NEW N, Seats(members, N), NEW starter
    PROVE  CricketInv(Opening(rules, members, starter), N)
<1>1. PICK leg : leg = Opening(rules, members, starter)
  OBVIOUS
<1>2. leg.visits = <<>> /\ leg.teams = [s \in 0..N - 1 |-> CricketInitial]
  BY <1>1 DEF Opening, InitialStates, Seats
<1>3. PICK n : n = Len(leg.visits) /\ n = 0
  BY <1>2, EmptyIsSeq
<1>4. 1..n = {} /\ IsFiniteSet({})
  BY <1>3, FS_EmptySet
<1>5. PICK zero : zero = [g \in Targets |-> 0]
  OBVIOUS
<1>6. \A s \in 0..N - 1 : leg.teams[s] = [marks |-> zero, points |-> 0]
  BY <1>2, <1>5 DEF CricketInitial
<1>7. \A s \in 0..N - 1 : leg.teams[s].marks = zero /\ leg.teams[s].points = 0
  BY <1>6
<1>8. CricketOK(leg.teams, N)
  <2>1. leg.teams = [s \in 0..N - 1 |-> [marks |-> leg.teams[s].marks,
                                         points |-> leg.teams[s].points]]
    BY <1>2, <1>6, <1>7
  <2>2. zero \in [Targets -> 0..MarksToClose]
    BY <1>5 DEF MarksToClose
  <2> QED BY <1>7, <2>1, <2>2 DEF CricketOK
<1>9. \A s \in 0..N - 1 : leg.teams[s].points = Total(TeamGains(leg.visits, s), 1..n)
  <2>1. \A s : Total(TeamGains(leg.visits, s), {}) = 0
    BY <1>4, TotalZero
  <2> QED BY <1>4, <1>7, <2>1
<1>10. \A s \in 0..N - 1 : \A g \in Targets :
          leg.teams[s].marks[g] = Total(TeamMarks(leg.visits, s, g), 1..n)
  <2>1. \A s, g : Total(TeamMarks(leg.visits, s, g), {}) = 0
    BY <1>4, TotalZero
  <2>2. \A g \in Targets : zero[g] = 0
    BY <1>5
  <2> QED BY <1>4, <1>7, <2>1, <2>2
<1> QED BY <1>1, <1>3, <1>4, <1>8, <1>9, <1>10 DEF CricketInv

(* Every stage of the replay of a cricket leg keeps the marks and points.  *)
LEMMA StagesKeepMarks ==
    ASSUME NEW S, Legal(S), NEW darts \in Seq(S), NEW rules, rules.game # "x01", NEW members,
           NEW N, Seats(members, N), NEW starter \in 0..N - 1, NEW leg,
           Stages(leg, rules, members, starter, darts)
    PROVE  \A i \in 0..Len(darts) : CricketInv(leg[i], N)
<1>1. PICK n \in Nat : n = Len(darts) /\ N \in Nat \ {0}
  BY LenProperties DEF Seats
<1> DEFINE T == {i \in 0..n : CricketInv(leg[i], N)}
<1>2. 0 \in T
  BY CricketOpensSound DEF Stages
<1>3. ASSUME NEW i \in 0..n - 1, i \in T
      PROVE  i + 1 \in T
  <2>1. i + 1 \in 0..n
    OBVIOUS
  <2>2. leg[i + 1] = LegStep(rules, members, darts, leg[i])
    BY <1>1 DEF Stages
  <2>3. CASE UsedUp(leg[i], n)
    <3>1. leg[i + 1] = leg[i]
      BY <1>1, <2>2, <2>3 DEF LegStep, UsedUp
    <3> QED BY <1>3, <2>1, <3>1
  <2>4. CASE ~UsedUp(leg[i], n)
    <3>1. PICK before, next : before = leg[i] /\ next = leg[i + 1]
      OBVIOUS
    <3>2. LegOK(before, Len(darts)) /\ RotaInv(before, starter, members, N)
      <4>1. \A h \in 0..Len(darts) : LegOK(leg[h], Len(darts))
        BY StagesAreOK
      <4>2. \A h \in 0..Len(darts) : RotaInv(leg[h], starter, members, N)
        BY StagesGoRound
      <4>3. i \in 0..Len(darts)
        BY <1>1
      <4> QED BY <3>1, <4>1, <4>2, <4>3
    <3>3. /\ ~before.refused /\ before.offset # Len(darts)
          /\ next = PlayVisit(rules, members, darts, before)
          /\ CricketInv(before, N)
      BY <1>1, <1>3, <2>2, <2>4, <3>1, <3>2 DEF LegStep, UsedUp, LegOK
    <3>4. CASE Refusal(next, before)
      <4>1. next.visits = before.visits /\ next.teams = before.teams
        BY <3>4 DEF Refusal
      <4>2. CricketInv(next, N)
        BY <3>3, <4>1 DEF CricketInv
      <4> QED BY <2>1, <3>1, <4>2
    <3>5. ASSUME NEW throws \in Seq(S), NEW outcome, NEW visit,
                 Played(next, rules, members, darts, before, throws, outcome, visit)
          PROVE  i + 1 \in T
      <4>1. PICK a \in 0..N - 1 : a = before.active
        <5>1. \E q, r : Rota(before, starter, N, q, r)
          BY <3>2, <3>3 DEF LegOK, RotaInv
        <5> QED BY <5>1 DEF Rota
      <4>2. CricketOK(before.teams, N)
        BY <3>3 DEF CricketInv
      <4>3. CricketMade(next, before, visit, a, N)
        BY <1>1, <3>5, <4>1, <4>2, CricketPlayedMakes
      <4>4. CricketInv(next, N)
        BY <1>1, <3>3, <4>1, <4>3, CricketMadeKeepsInv
      <4> QED BY <2>1, <3>1, <4>4
    <3> QED BY <3>2, <3>3, <3>4, <3>5, PlayVisitIs
  <2> QED BY <2>3, <2>4
<1> HIDE DEF T
<1>4. 0..n \subseteq T
  BY <1>2, <1>3, UpTo
<1> QED BY <1>1, <1>4 DEF T

(* So at the end of the replay.                                            *)
LEMMA ReplayKeepsMarks ==
    ASSUME NEW S, Legal(S), NEW darts \in Seq(S), NEW rules, rules.game # "x01", NEW members,
           NEW N, Seats(members, N), NEW starter \in 0..N - 1
    PROVE  CricketInv(LegReplay(rules, members, starter, darts), N)
<1>1. PICK n \in Nat : n = Len(darts)
  BY LenProperties
<1>2. PICK leg : Stages(leg, rules, members, starter, darts)
  BY <1>1, LegHasStages
<1>3. CricketInv(leg[n], N)
  <2>1. n \in 0..n
    OBVIOUS
  <2> QED BY <1>1, <1>2, <2>1, StagesKeepMarks
<1> QED BY <1>1, <1>2, <1>3 DEF Stages

-----------------------------------------------------------------------------
(***************************************************************************)
(* How an x01 leg ends, and what the darts of a replay say was thrown.     *)
(***************************************************************************)
(* What one dart does to the position.                                     *)
X01DartSays(dart, state, t, cfg) ==
    /\ dart.throw = t /\ dart.counted \in BOOLEAN
    /\ dart.counted => /\ dart.state.remaining = state.remaining - Score(t)
                       /\ state.open \/ Satisfies(cfg.in_rule, t)
    /\ ~dart.counted => dart.state.remaining = state.remaining
    /\ dart.bust # NoBust => ~dart.counted
    /\ dart.checkout <=> dart.counted /\ dart.state.remaining = 0
    /\ dart.checkout => Satisfies(cfg.out_rule, t)

(* A dart counts unless it busts or misses the in-rule, and checks out     *)
(* when it counts and leaves nothing.                                      *)
LEMMA X01DartIs ==
    ASSUME NEW state, X01StateOK(state), NEW t, NEW cfg,
           NEW dart, dart = X01ApplyDart(state, t, cfg)
    PROVE  X01DartSays(dart, state, t, cfg)
<1>1. PICK r, o, n : /\ r = state.remaining /\ o = state.open /\ n = state.darts
                     /\ state = [remaining |-> r, open |-> o, darts |-> n]
  BY DEF X01StateOK
<1>2. PICK left : left = r - Score(t)
  OBVIOUS
<1>3. PICK unopened \in BOOLEAN : unopened = (~o /\ ~Satisfies(cfg.in_rule, t))
  OBVIOUS
<1>4. PICK bust : bust = IF unopened THEN NoBust ELSE BustReason(left, t, cfg)
  OBVIOUS
<1>5. PICK counted \in BOOLEAN : counted = (~unopened /\ bust = NoBust)
  OBVIOUS
<1>6. PICK thrown : thrown = [remaining |-> r, open |-> o, darts |-> n + 1]
  OBVIOUS
<1>7. dart = DartOutcome(thrown, t, left, counted, bust)
  <2>1. [state EXCEPT !.darts = @ + 1] = thrown
    BY <1>1, <1>6
  <2>2. state.remaining - Score(t) = left /\ (~state.open /\ ~Satisfies(cfg.in_rule, t)) = unopened
    BY <1>1, <1>2, <1>3
  <2> QED BY <1>4, <1>5, <2>1, <2>2 DEF X01ApplyDart
<1>8. /\ dart.throw = t /\ dart.counted = counted /\ dart.bust = bust
      /\ dart.state = IF counted THEN [thrown EXCEPT !.remaining = left, !.open = TRUE] ELSE thrown
      /\ dart.checkout = (counted /\ left = 0)
  BY <1>7 DEF DartOutcome
<1>9. /\ counted => dart.state.remaining = left
      /\ ~counted => dart.state.remaining = r
  BY <1>6, <1>8
<1>10. counted /\ left = 0 => Satisfies(cfg.out_rule, t)
  <2>1. left = 0 /\ ~Satisfies(cfg.out_rule, t) => BustReason(left, t, cfg) # NoBust
    BY DEF BustReason, NoBust
  <2> QED BY <1>4, <1>5, <2>1
<1> QED BY <1>1, <1>2, <1>3, <1>5, <1>8, <1>9, <1>10 DEF X01DartSays

(* A visit wins exactly when it leaves nothing.                            *)
LEMMA X01VisitEnds ==
    ASSUME NEW state, X01StateOK(state), state.remaining # 0,
           NEW throws, Len(throws) \in Nat, \A i \in 1..Len(throws) : IsLegalThrow(throws[i]),
           NEW cfg, NEW visit, visit = X01ApplyVisit(state, throws, cfg)
    PROVE  visit.won <=> visit.state.remaining = 0
<1>1. PICK run : X01Run(run, state, throws, cfg)
  BY X01VisitRuns
<1>2. PICK n \in Nat : n = Len(throws)
  OBVIOUS
<1> DEFINE Ends(i) == /\ run[i].won <=> run[i].state.remaining = 0
                      /\ run[i].bust # NoBust => ~run[i].won
           T == {i \in 0..n : Ends(i)}
<1>3. 0 \in T
  <2>1. run[0].state = state /\ run[0].won = FALSE /\ run[0].bust = NoBust
    BY <1>1 DEF X01Run, X01Start
  <2> QED BY <2>1
<1>4. ASSUME NEW i \in 0..n - 1, i \in T
      PROVE  i + 1 \in T
  <2>1. PICK m : m = i + 1 /\ m \in 1..n /\ m - 1 = i /\ m \in 0..n
    OBVIOUS
  <2>2. run[m] = X01Step(run[i], throws[m], cfg)
    BY <1>1, <1>2, <2>1 DEF X01Run
  <2>3. CASE Ended(run[i])
    <3>1. run[m] = run[i]
      BY <2>2, <2>3 DEF X01Step
    <3>2. Ends(m)
      BY <1>4, <3>1
    <3> QED BY <2>1, <3>2
  <2>4. CASE ~Ended(run[i])
    <3>1. PICK mid, dart : mid = run[i].state /\ dart = X01ApplyDart(mid, throws[m], cfg)
      OBVIOUS
    <3>2. X01StateOK(mid)
      <4>1. \A h \in 0..n : X01Tally(state, run[h].state, run[h].darts, cfg.in_rule)
        BY <1>1, <1>2, X01RunTallies
      <4> QED BY <1>4, <3>1, <4>1 DEF X01Tally
    <3>3. X01DartSays(dart, mid, throws[m], cfg)
      <4>1. PICK t : t = throws[m]
        OBVIOUS
      <4> QED BY <3>1, <3>2, <4>1, X01DartIs
    <3>4. mid.remaining # 0
      BY <1>4, <2>4, <3>1 DEF Ended
    <3>5. run[m].state = dart.state /\ run[m].won = dart.checkout /\ run[m].bust = dart.bust
      BY <2>2, <2>4, <3>1 DEF X01Step, AddX01Dart
    <3>6. Ends(m)
      BY <3>3, <3>4, <3>5 DEF X01DartSays
    <3> QED BY <2>1, <3>6
  <2> QED BY <2>3, <2>4
<1>5. Ends(n)
  <2> HIDE DEF T
  <2>1. 0..n \subseteq T
    BY <1>3, <1>4, UpTo
  <2> QED BY <2>1 DEF T
<1>6. PICK end : end = run[n] /\ visit = FinalX01(state, end)
  BY <1>1, <1>2 DEF X01Run
<1>7. X01Taken(run, n)
  BY <1>1, <1>2, X01Takes
<1>8. FinalIs(visit, end)
  BY <1>6, <1>7, FinalX01Is DEF X01Taken
<1>9. CASE end.bust = NoBust
  BY <1>5, <1>6, <1>8, <1>9 DEF FinalIs
<1>10. CASE end.bust # NoBust
  <2>1. visit.state.remaining = state.remaining
    BY <1>8, <1>10, X01VisitTallies DEF FinalIs
  <2>2. ~end.won
    BY <1>5, <1>6, <1>10
  <2> QED BY <1>8, <2>1, <2>2 DEF FinalIs
<1> QED BY <1>9, <1>10
(* A leg is over when a visit leaves nothing, and that visit is the last.  *)
OverRight(leg, N) ==
    /\ leg.winner = NoTeam =>
          /\ ~leg.refused
          /\ \A s \in 0..N - 1 : leg.teams[s].remaining # 0
          /\ \A v \in 1..Len(leg.visits) : leg.visits[v].after # 0
    /\ leg.winner # NoTeam =>
          \E n \in Nat : /\ Len(leg.visits) = n + 1
                         /\ leg.visits[n + 1].after = 0 /\ leg.visits[n + 1].team = leg.winner
                         /\ \A v \in 1..n : leg.visits[v].after # 0

(* One more visit of x01, by the team whose turn it is.                    *)
LEMMA X01PlayedEnds ==
    ASSUME NEW S, Legal(S), NEW darts \in Seq(S), NEW rules, X01Rules(rules), NEW members, NEW N,
           NEW leg, leg.winner = NoTeam, OverRight(leg, N), NEW a \in 0..N - 1, a = leg.active,
           X01Inv(leg, rules, N), NEW next, NEW throws \in Seq(S), NEW outcome, NEW visit,
           Played(next, rules, members, darts, leg, throws, outcome, visit)
    PROVE  OverRight(next, N)
<1>1. a \in DOMAIN leg.teams /\ X01StateOK(leg.teams[a])
  BY DEF X01Inv, Standing
<1>2. X01Made(next, rules, leg, visit, a)
  BY <1>1, X01PlayedMakes
<1>3. PICK state, end : state = leg.teams[a] /\ end = X01ApplyVisit(state, throws, rules)
  OBVIOUS
<1>4. outcome = X01Outcome(leg.teams, a, end)
  BY <1>3 DEF Played, VisitOutcome, X01Rules
<1>5. outcome.won = end.won /\ next.teams[a] = end.state /\ visit.after = end.state.remaining
  <2>1. outcome.won = end.won /\ outcome.teams = [leg.teams EXCEPT ![a] = end.state]
    BY <1>4 DEF X01Outcome
  <2>2. next.teams = outcome.teams
    BY DEF Played, Gained
  <2> QED BY <1>1, <1>2, <2>1, <2>2 DEF X01Made
<1>6. end.won <=> end.state.remaining = 0
  <2>1. PICK n \in Nat : n = Len(throws) /\ \A i \in 1..n : IsLegalThrow(throws[i])
    BY LenProperties, ElementOfSeq DEF Legal
  <2>2. state.remaining # 0
    BY <1>3 DEF OverRight
  <2> QED BY <1>1, <1>3, <2>1, <2>2, X01VisitEnds
<1>7. PICK n \in Nat : /\ n = Len(leg.visits) /\ Len(next.visits) = n + 1
                       /\ next.visits[n + 1] = visit
                       /\ \A v \in 1..n : next.visits[v] = leg.visits[v]
  BY <1>2 DEF X01Made, Grown
<1>8. /\ next.winner = (IF outcome.won THEN a ELSE NoTeam)
      /\ next.refused = (outcome.won /\ next.offset # Len(darts))
  BY DEF Played, Gained
<1>9. \A v \in 1..n : next.visits[v].after # 0
  BY <1>7 DEF OverRight
<1>10. a # NoTeam
  BY DEF NoTeam
<1>11. CASE end.won
  BY <1>2, <1>5, <1>6, <1>7, <1>8, <1>9, <1>10, <1>11 DEF OverRight, X01Made
<1>12. CASE ~end.won
  <2>1. next.winner = NoTeam /\ ~next.refused
    BY <1>5, <1>8, <1>12
  <2>2. ASSUME NEW s \in 0..N - 1
        PROVE  next.teams[s].remaining # 0
    <3>1. CASE s = a
      BY <1>5, <1>6, <1>12, <3>1
    <3>2. CASE s # a
      <4>1. next.teams[s] = leg.teams[s]
        BY <1>1, <1>2, <3>2 DEF X01Made, X01Inv
      <4> QED BY <4>1 DEF OverRight
    <3> QED BY <3>1, <3>2
  <2>3. \A v \in 1..n + 1 : next.visits[v].after # 0
    <3>1. \A v \in 1..n + 1 : v \in 1..n \/ v = n + 1
      OBVIOUS
    <3> QED BY <1>5, <1>6, <1>7, <1>9, <1>12, <3>1
  <2> QED BY <1>7, <2>1, <2>2, <2>3 DEF OverRight
<1> QED BY <1>11, <1>12

(* A visit has one to three darts, and is complete with three; who is up    *)
(* throws on in a visit that is not.                                        *)
VisitLong(visit) ==
    /\ IsSeq(visit.darts) /\ Len(visit.darts) \in 1..DartsPerVisit
    /\ Len(visit.darts) = DartsPerVisit => visit.complete

TurnRight(leg, N) ==
    /\ leg.active \in 0..N - 1
    /\ \A v \in 1..Len(leg.visits) : VisitLong(leg.visits[v])
    /\ \A v \in 1..Len(leg.visits) :
          v = Len(leg.visits) /\ ~leg.visits[v].complete => leg.active = leg.visits[v].team

EndsRight(leg, N) == OverRight(leg, N) /\ TurnRight(leg, N)

(* A visit played leaves it so, in either game.                            *)
LEMMA PlayedTurns ==
    ASSUME NEW darts, NEW rules, NEW members, NEW N, Seats(members, N),
           NEW leg, TurnRight(leg, N), NEW next, NEW throws, NEW outcome, NEW visit,
           Played(next, rules, members, darts, leg, throws, outcome, visit)
    PROVE  TurnRight(next, N)
<1>1. PICK a \in 0..N - 1 : a = leg.active
  BY DEF TurnRight
<1>2. /\ visit.team = a /\ visit.darts = outcome.darts /\ visit.complete = IsComplete(outcome)
      /\ Grown(next.visits, leg.visits, visit) /\ Turned(next, members, leg, outcome)
  BY <1>1 DEF Played, Gained, VisitMade
<1>3. PICK n \in Nat : /\ n = Len(leg.visits) /\ Len(next.visits) = n + 1
                       /\ next.visits[n + 1] = visit
                       /\ \A v \in 1..n : next.visits[v] = leg.visits[v]
  BY <1>2 DEF Grown
<1>4. next.active \in 0..N - 1
  <2>1. (a + 1) % N \in 0..N - 1
    BY DEF Seats
  <2> QED BY <1>1, <1>2, <2>1 DEF Turned, Seats
<1>5. VisitLong(visit)
  <2>1. PICK m : m = Len(throws) /\ m \in 1..3
    BY DEF Played, NextOf, DartsPerVisit
  <2>2. IsSeq(outcome.darts) /\ Len(outcome.darts) \in 1..m
    BY <2>1 DEF Played, Takes
  <2>3. Len(outcome.darts) \in 1..DartsPerVisit
    <3>1. PICK k : k = Len(outcome.darts)
      OBVIOUS
    <3>2. k \in 1..m /\ m \in 1..3
      BY <2>1, <2>2, <3>1
    <3>3. k \in 1..3
      BY <3>2
    <3> QED BY <3>1, <3>3 DEF DartsPerVisit
  <2> QED BY <1>2, <2>2, <2>3 DEF VisitLong, IsComplete
<1>6. \A v \in 1..n + 1 : v \in 1..n \/ v = n + 1
  OBVIOUS
<1>7. \A v \in 1..n + 1 : VisitLong(next.visits[v])
  BY <1>3, <1>5, <1>6 DEF TurnRight
<1>8. ~visit.complete => next.active = visit.team
  BY <1>1, <1>2 DEF Turned
<1> QED BY <1>3, <1>4, <1>7, <1>8 DEF TurnRight

(* Every stage of the replay of an x01 leg, from a score that is not zero. *)
LEMMA StagesEndRight ==
    ASSUME NEW S, Legal(S), NEW darts \in Seq(S), NEW rules, X01Rules(rules), rules.start # 0,
           NEW members, NEW N, Seats(members, N), NEW starter \in 0..N - 1, NEW leg,
           Stages(leg, rules, members, starter, darts)
    PROVE  \A i \in 0..Len(darts) : EndsRight(leg[i], N)
<1>1. PICK n \in Nat : n = Len(darts)
  BY LenProperties
<1> DEFINE T == {i \in 0..n : EndsRight(leg[i], N)}
<1>2. 0 \in T
  <2>1. PICK open : open = leg[0] /\ open = Opening(rules, members, starter)
    BY DEF Stages
  <2>2. /\ open.winner = NoTeam /\ open.refused = FALSE /\ open.visits = <<>>
        /\ open.teams = [s \in 0..N - 1 |-> X01Initial(rules)]
    BY <2>1 DEF Opening, InitialStates, Seats, X01Rules
  <2>3. \A s \in 0..N - 1 : open.teams[s].remaining # 0
    BY <2>2 DEF X01Initial
  <2>4. PICK m : m = Len(open.visits) /\ m = 0
    BY <2>2, EmptyIsSeq
  <2>5. OverRight(open, N)
    BY <2>2, <2>3, <2>4 DEF OverRight
  <2>7. open.active = starter
    BY <2>1 DEF Opening
  <2>8. TurnRight(open, N)
    BY <2>4, <2>7 DEF TurnRight
  <2>6. EndsRight(leg[0], N) /\ 0 \in 0..n
    BY <1>1, <2>1, <2>5, <2>8 DEF EndsRight
  <2> QED BY <2>6
<1>3. ASSUME NEW i \in 0..n - 1, i \in T
      PROVE  i + 1 \in T
  <2>0. i + 1 \in 0..n
    OBVIOUS
  <2>1. leg[i + 1] = LegStep(rules, members, darts, leg[i])
    BY <1>1 DEF Stages
  <2>2. CASE UsedUp(leg[i], n)
    <3>1. leg[i + 1] = leg[i]
      BY <1>1, <2>1, <2>2 DEF LegStep, UsedUp
    <3> QED BY <1>3, <2>0, <3>1
  <2>3. CASE ~UsedUp(leg[i], n)
    <3>1. PICK before, next : before = leg[i] /\ next = leg[i + 1]
      OBVIOUS
    <3>2. /\ LegOK(before, Len(darts)) /\ RotaInv(before, starter, members, N)
          /\ X01Inv(before, rules, N)
      BY <1>1, <3>1, StagesAreOK, StagesGoRound, StagesKeepScores
    <3>3. /\ ~before.refused /\ before.offset # Len(darts)
          /\ next = PlayVisit(rules, members, darts, before)
          /\ EndsRight(before, N)
      BY <1>1, <1>3, <2>1, <2>3, <3>1, <3>2 DEF LegStep, UsedUp, LegOK
    <3>4. ~AlreadyWon(rules, before.teams, before.active)
      BY DEF AlreadyWon, X01Rules
    <3>5. ASSUME NEW throws \in Seq(S), NEW outcome, NEW visit,
                 Played(next, rules, members, darts, before, throws, outcome, visit)
          PROVE  i + 1 \in T
      <4>1. PICK a \in 0..N - 1 : a = before.active
        <5>1. \E q, r : Rota(before, starter, N, q, r)
          BY <3>2, <3>3 DEF LegOK, RotaInv
        <5> QED BY <5>1 DEF Rota
      <4>2. before.winner = NoTeam
        BY <3>2, <3>3 DEF LegOK, Going
      <4>3. OverRight(next, N)
        BY <3>2, <3>3, <3>5, <4>1, <4>2, X01PlayedEnds DEF EndsRight
      <4>4. TurnRight(next, N)
        BY <3>3, <3>5, PlayedTurns DEF EndsRight
      <4> QED BY <2>0, <3>1, <4>3, <4>4 DEF EndsRight
    <3> QED BY <3>2, <3>3, <3>4, <3>5, PlayVisitIs
  <2> QED BY <2>2, <2>3
<1> HIDE DEF T
<1>4. 0..n \subseteq T
  BY <1>2, <1>3, UpTo
<1> QED BY <1>1, <1>4 DEF T

(* So at the end of the replay.                                            *)
LEMMA ReplayEndsRight ==
    ASSUME NEW S, Legal(S), NEW darts \in Seq(S), NEW rules, X01Rules(rules), rules.start # 0,
           NEW members, NEW N, Seats(members, N), NEW starter \in 0..N - 1
    PROVE  EndsRight(LegReplay(rules, members, starter, darts), N)
<1>1. PICK n \in Nat : n = Len(darts)
  BY LenProperties
<1>2. PICK leg : Stages(leg, rules, members, starter, darts)
  BY <1>1, LegHasStages
<1>3. EndsRight(leg[n], N)
  <2>1. n \in 0..n
    OBVIOUS
  <2> QED BY <1>1, <1>2, <2>1, StagesEndRight
<1> QED BY <1>1, <1>2, <1>3 DEF Stages
(* What a visit becomes with one dart more than its first n.               *)
DartAdded(longer, dart, n) ==
    /\ Len(longer.darts) = n + 1 /\ IsSeq(longer.darts)
    /\ longer.won = dart.checkout /\ longer.bust = dart.bust
    /\ dart.bust = NoBust => longer.state = dart.state /\ longer.darts[n + 1] = dart

(* The next dart of an x01 visit that has not ended.                       *)
LEMMA X01NextDart ==
    ASSUME NEW state, NEW cfg, NEW throws, NEW more, Extends(more, throws),
           NEW visit, visit = X01ApplyVisit(state, throws, cfg),
           visit.bust = NoBust, ~visit.won,
           NEW longer, longer = X01ApplyVisit(state, more, cfg),
           NEW dart, dart = X01ApplyDart(visit.state, more[Len(throws) + 1], cfg)
    PROVE  DartAdded(longer, dart, Len(throws))
<1>1. PICK n \in Nat : n = Len(throws) /\ Len(more) = n + 1 /\ n + 1 \in Nat
  BY DEF Extends
<1>2. PICK run : X01Run(run, state, throws, cfg)
  BY <1>1, X01VisitRuns
<1>3. PICK on : X01Run(on, state, more, cfg)
  BY <1>1, X01VisitRuns
<1>4. X01Taken(run, n) /\ on[n] = run[n]
  BY <1>1, <1>2, <1>3, X01Takes, X01RunsAgree
<1>5. FinalIs(visit, run[n])
  <2>1. PICK end : end = run[n]
    OBVIOUS
  <2> QED BY <1>1, <1>2, <1>4, <2>1, FinalX01Is DEF X01Taken, X01Run
<1>6. visit = run[n] /\ ~Ended(run[n])
  BY <1>5 DEF FinalIs, Ended
<1>7. IsSeq(visit.darts) /\ Len(visit.darts) = n
  BY <1>4, <1>6 DEF X01Taken, HasLength
<1>8. n + 1 \in 1..n + 1 /\ n + 1 - 1 = n
  OBVIOUS
<1>9. PICK end : end = on[n + 1]
  OBVIOUS
<1>10. end = AddX01Dart(visit, dart)
  BY <1>1, <1>3, <1>4, <1>6, <1>8, <1>9 DEF X01Run, X01Step
<1>11. Grown(end.darts, visit.darts, dart)
  BY <1>7, <1>10, SeqGrows DEF AddX01Dart
<1>12. FinalIs(longer, end)
  <2>1. end = [state |-> end.state, darts |-> end.darts, bust |-> end.bust, won |-> end.won]
    BY <1>10 DEF AddX01Dart
  <2>2. longer = FinalX01(state, end) /\ IsSeq(end.darts)
    BY <1>1, <1>3, <1>9, <1>11 DEF X01Run, Grown
  <2> QED BY <2>1, <2>2, FinalX01Is
<1>13. end.bust = dart.bust /\ end.won = dart.checkout /\ end.state = dart.state
  BY <1>10 DEF AddX01Dart
<1>14. Len(end.darts) = n + 1 /\ end.darts[n + 1] = dart
  BY <1>7, <1>11 DEF Grown
<1> QED BY <1>1, <1>12, <1>13, <1>14 DEF FinalIs, DartAdded

(* Whose turn it is after one dart more, and what that dart did.           *)
X01Next(leg, more, rules, dart) ==
    /\ dart.bust = NoBust => more.teams[leg.active] = dart.state
    /\ ~more.refused /\ more.winner = IF dart.checkout THEN leg.active ELSE NoTeam
    /\ \E n \in Nat : \E visit :
          /\ Len(more.visits) = n + 1 /\ more.visits[n + 1] = visit
          /\ visit.team = leg.active
          /\ \A v \in 1..n : /\ v \in 1..Len(leg.visits) /\ more.visits[v] = leg.visits[v]
                             /\ leg.visits[v].complete
          /\ visit.complete <=> \/ dart.bust # NoBust \/ dart.checkout
                                \/ Len(visit.darts) = DartsPerVisit
          /\ ~visit.complete => more.active = leg.active
          /\ IsSeq(visit.darts) /\ Len(visit.darts) \in 1..DartsPerVisit
          /\ \/ Len(leg.visits) = n /\ Len(visit.darts) = 1
             \/ /\ Len(leg.visits) = n + 1 /\ ~leg.visits[n + 1].complete
                /\ Len(visit.darts) = Len(leg.visits[n + 1].darts) + 1
          /\ dart.bust = NoBust => visit.darts[Len(visit.darts)] = dart

(* The visit played, the n + 1st of the leg, that ends with this dart.     *)
DartPlayed(next, leg, n, visit, k, dart) ==
    /\ dart.bust = NoBust => next.teams[leg.active] = dart.state
    /\ ~next.refused /\ next.winner = IF dart.checkout THEN leg.active ELSE NoTeam
    /\ Len(next.visits) = n + 1 /\ next.visits[n + 1] = visit
    /\ visit.team = leg.active
    /\ \A v \in 1..n : next.visits[v] = leg.visits[v]
    /\ visit.complete <=> \/ dart.bust # NoBust \/ dart.checkout
                          \/ Len(visit.darts) = DartsPerVisit
    /\ ~visit.complete => next.active = leg.active
    /\ IsSeq(visit.darts) /\ Len(visit.darts) = k
    /\ k \in 1..DartsPerVisit
    /\ dart.bust = NoBust => visit.darts[k] = dart

(* A dart played goes so into the record of the leg as it was before it,   *)
(* whether it opens a visit or goes on with one of k darts.                *)
LEMMA X01NextIs ==
    ASSUME NEW leg, NEW more, NEW rules, NEW dart, NEW from, from.active = leg.active,
           NEW n \in Nat, NEW visit, NEW k, DartPlayed(more, from, n, visit, k, dart),
           \A v \in 1..n : v \in 1..Len(leg.visits) /\ from.visits[v] = leg.visits[v],
           Complete(from.visits, n),
           \/ Len(leg.visits) = n /\ k = 1
           \/ /\ Len(leg.visits) = n + 1 /\ ~leg.visits[n + 1].complete
              /\ k = Len(leg.visits[n + 1].darts) + 1
    PROVE  X01Next(leg, more, rules, dart)
<1>1. /\ Len(more.visits) = n + 1 /\ more.visits[n + 1] = visit
      /\ visit.team = leg.active
      /\ \A v \in 1..n : /\ v \in 1..Len(leg.visits) /\ more.visits[v] = leg.visits[v]
                         /\ leg.visits[v].complete
  BY DEF DartPlayed, Complete
<1>2. /\ visit.complete <=> \/ dart.bust # NoBust \/ dart.checkout
                            \/ Len(visit.darts) = DartsPerVisit
      /\ ~visit.complete => more.active = leg.active
      /\ IsSeq(visit.darts) /\ Len(visit.darts) \in 1..DartsPerVisit
      /\ dart.bust = NoBust => visit.darts[Len(visit.darts)] = dart
      /\ Len(visit.darts) = k
  BY DEF DartPlayed
<1>3. /\ dart.bust = NoBust => more.teams[leg.active] = dart.state
      /\ ~more.refused /\ more.winner = IF dart.checkout THEN leg.active ELSE NoTeam
  BY DEF DartPlayed
<1> QED BY <1>1, <1>2, <1>3 DEF X01Next

(* A visit played that ends with this dart.                                *)
LEMMA X01PlayedNext ==
    ASSUME NEW S, NEW darts \in Seq(S), NEW rules, X01Rules(rules), NEW members,
           NEW leg, leg.active \in DOMAIN leg.teams, NEW n \in Nat, Len(leg.visits) = n,
           NEW next, NEW throws \in Seq(S), NEW outcome, NEW visit,
           Played(next, rules, members, darts, leg, throws, outcome, visit),
           leg.offset + Len(throws) = Len(darts),
           NEW dart, NEW end, end = X01ApplyVisit(leg.teams[leg.active], throws, rules),
           DartAdded(end, dart, Len(throws) - 1)
    PROVE  DartPlayed(next, leg, n, visit, Len(throws), dart)
<1>1. PICK m : m \in Nat /\ m = Len(throws) /\ m \in 1..DartsPerVisit /\ m - 1 + 1 = m
  <2>1. PICK m : m = Len(throws)
    OBVIOUS
  <2>2. m \in 1..DartsPerVisit
    BY <2>1 DEF Played, NextOf
  <2>3. m \in Nat /\ m - 1 + 1 = m
    BY <2>2 DEF DartsPerVisit
  <2> QED BY <2>1, <2>2, <2>3
<1>2. outcome = X01Outcome(leg.teams, leg.active, end)
  BY DEF Played, VisitOutcome, X01Rules
<1>3. /\ outcome.teams = [leg.teams EXCEPT ![leg.active] = end.state]
      /\ outcome.darts = end.darts /\ outcome.won = end.won
      /\ outcome.bust = (end.bust # NoBust)
  BY <1>2 DEF X01Outcome
<1>4. /\ Len(end.darts) = m /\ IsSeq(end.darts)
      /\ end.won = dart.checkout /\ end.bust = dart.bust
      /\ dart.bust = NoBust => end.state = dart.state /\ end.darts[m] = dart
  BY <1>1 DEF DartAdded
<1>5. /\ next.teams = outcome.teams /\ Grown(next.visits, leg.visits, visit)
      /\ VisitMade(visit, members, leg, outcome)
      /\ next.offset = leg.offset + Len(outcome.darts)
      /\ next.refused = (outcome.won /\ next.offset # Len(darts))
      /\ next.winner = IF outcome.won THEN leg.active ELSE NoTeam
      /\ Turned(next, members, leg, outcome)
  BY DEF Played, Gained
<1>6. /\ visit.team = leg.active /\ visit.darts = outcome.darts
      /\ visit.complete = IsComplete(outcome)
  BY <1>5 DEF VisitMade
<1>7. IsComplete(outcome) <=> \/ dart.bust # NoBust \/ dart.checkout
                              \/ Len(visit.darts) = DartsPerVisit
  BY <1>3, <1>4, <1>6 DEF IsComplete
<1>8. ~next.refused
  <2>1. Len(outcome.darts) = Len(throws)
    BY <1>1, <1>3, <1>4
  <2>2. next.offset = Len(darts)
    BY <1>5, <2>1
  <2> QED BY <1>5, <2>2
<1>9. Len(next.visits) = n + 1 /\ next.visits[n + 1] = visit
      /\ \A v \in 1..n : next.visits[v] = leg.visits[v]
  BY <1>5 DEF Grown
<1>10. ~visit.complete => next.active = leg.active
  BY <1>5, <1>6 DEF Turned
<1>11. dart.bust = NoBust => next.teams[leg.active] = dart.state
  BY <1>3, <1>4, <1>5
<1>12. Len(visit.darts) = m /\ IsSeq(visit.darts)
       /\ (dart.bust = NoBust => visit.darts[m] = dart)
  BY <1>3, <1>4, <1>6
<1>13. next.winner = IF dart.checkout THEN leg.active ELSE NoTeam
  BY <1>3, <1>4, <1>5
<1> QED BY <1>1, <1>6, <1>7, <1>8, <1>9, <1>10, <1>11, <1>12, <1>13 DEF DartPlayed
(* A visit of no darts is where it starts.                                 *)
LEMMA X01NoDarts ==
    ASSUME NEW state, NEW cfg
    PROVE  X01ApplyVisit(state, <<>>, cfg) = X01Start(state)
<1>1. Len(<<>>) = 0 /\ 0 \in Nat
  BY EmptyIsSeq
<1>2. PICK run : X01Run(run, state, <<>>, cfg)
  BY <1>1, X01VisitRuns
<1>3. X01Start(state).bust = NoBust
  BY DEF X01Start
<1> QED BY <1>1, <1>2, <1>3 DEF X01Run, FinalX01

(* A dart that opens a visit.                                              *)
LEMMA X01OpensVisit ==
    ASSUME NEW S, NEW darts \in Seq(S), NEW longer \in Seq(S), Extends(longer, darts),
           NEW rules, X01Rules(rules), NEW members,
           NEW leg, leg.active \in DOMAIN leg.teams, NEW more,
           Opened(leg, more, rules, members, darts, longer),
           NEW dart,
           dart = X01ApplyDart(leg.teams[leg.active], longer[Len(darts) + 1], rules)
    PROVE  X01Next(leg, more, rules, dart)
<1>1. PICK before : /\ Alike(leg, before) /\ Unfinished(before, Len(longer))
                    /\ more = PlayVisit(rules, members, longer, before)
  BY DEF Opened
<1>2. PICK k \in Nat : k = Len(darts) /\ Len(longer) = k + 1 /\ leg.offset = k
  BY DEF Extends, Opened
<1>3. LegOK(before, Len(longer)) /\ ~before.refused /\ before.offset # Len(longer)
  BY <1>1 DEF Unfinished, UsedUp
<1>4. ~AlreadyWon(rules, before.teams, before.active)
  BY DEF AlreadyWon, X01Rules
<1>5. PICK throws, outcome, visit :
          /\ throws \in Seq(S)
          /\ Played(more, rules, members, longer, before, throws, outcome, visit)
  <2>1. \E throws \in Seq(S) : \E outcome, visit :
            Played(more, rules, members, longer, before, throws, outcome, visit)
    BY <1>1, <1>3, <1>4, PlayVisitIs
  <2> QED BY <2>1
<1>6. before.offset = k /\ before.teams = leg.teams /\ before.active = leg.active
      /\ before.visits = leg.visits
  BY <1>1, <1>2 DEF Alike
<1>7. Len(throws) = 1 /\ throws[1] = longer[k + 1]
  <2>1. PICK m : m = Len(throws)
    OBVIOUS
  <2>2. NextOf(throws, longer, k)
    BY <1>5, <1>6 DEF Played
  <2>3. m \in 1..3 /\ m <= k + 1 - k
    BY <1>2, <2>1, <2>2 DEF NextOf, DartsPerVisit
  <2>4. m = 1
    BY <2>3
  <2> QED BY <2>1, <2>2, <2>4 DEF NextOf
<1>8. PICK n \in Nat : Len(before.visits) = n
  BY <1>3, LenProperties DEF LegOK, IsSeq
<1>9. PICK state : state = leg.teams[leg.active]
  OBVIOUS
<1>10. PICK end : end = X01ApplyVisit(state, throws, rules)
  OBVIOUS
<1>11. DartAdded(end, dart, 0)
  <2>1. PICK none : none = X01ApplyVisit(state, <<>>, rules)
    OBVIOUS
  <2>2. none.bust = NoBust /\ ~none.won /\ none.state = state
    BY <2>1, X01NoDarts DEF X01Start
  <2>3. Len(<<>>) = 0 /\ Extends(throws, <<>>)
    BY <1>7, EmptyIsSeq DEF Extends
  <2>4. dart = X01ApplyDart(none.state, throws[Len(<<>>) + 1], rules)
    BY <1>2, <1>7, <1>9, <2>2, <2>3
  <2>5. DartAdded(end, dart, Len(<<>>))
    BY <1>10, <2>1, <2>2, <2>3, <2>4, X01NextDart
  <2> QED BY <2>3, <2>5
<1>12. /\ before.active \in DOMAIN before.teams /\ before.offset + Len(throws) = Len(longer)
       /\ end = X01ApplyVisit(before.teams[before.active], throws, rules)
       /\ DartAdded(end, dart, Len(throws) - 1)
  BY <1>2, <1>6, <1>7, <1>9, <1>10, <1>11
<1>13. DartPlayed(more, before, n, visit, Len(throws), dart)
  BY <1>5, <1>8, <1>12, X01PlayedNext
<1>14. DartPlayed(more, before, n, visit, 1, dart)
  BY <1>7, <1>13
<1>15. \A v \in 1..n : v \in 1..Len(leg.visits) /\ before.visits[v] = leg.visits[v]
  BY <1>6, <1>8
<1>16. before.active = leg.active /\ Len(leg.visits) = n
  BY <1>6, <1>8
<1>17. Complete(before.visits, n)
  BY <1>3, <1>8 DEF LegOK, Going
<1> QED BY <1>14, <1>15, <1>16, <1>17, X01NextIs

(* A dart that goes on with a visit.                                       *)
LEMMA X01GoesOn ==
    ASSUME NEW S, NEW darts \in Seq(S), NEW longer \in Seq(S), Extends(longer, darts),
           NEW rules, X01Rules(rules), NEW members,
           NEW leg, leg.active \in DOMAIN leg.teams, NEW more,
           Continued(leg, more, rules, members, darts, longer),
           NEW dart,
           dart = X01ApplyDart(leg.teams[leg.active], longer[Len(darts) + 1], rules)
    PROVE  X01Next(leg, more, rules, dart)
<1>1. PICK before, other, throws, outcome, old, throws2, outcome2, visit :
          /\ Alike(before, other) /\ Unfinished(before, Len(darts))
          /\ Played(leg, rules, members, darts, before, throws, outcome, old)
          /\ ~outcome.won /\ ~outcome.bust /\ Len(throws) # DartsPerVisit
          /\ Played(more, rules, members, longer, other, throws2, outcome2, visit)
          /\ Extends(throws2, throws)
  BY DEF Continued
<1>2. PICK k \in Nat : k = Len(darts) /\ Len(longer) = k + 1
  BY DEF Extends
<1>3. LegOK(before, Len(darts)) /\ IsSeq(before.visits) /\ before.offset \in 0..k
  BY <1>1, <1>2 DEF Unfinished, LegOK
<1>4. PICK n \in Nat : Len(before.visits) = n
  BY <1>3, LenProperties DEF IsSeq
<1>5. /\ other.offset = before.offset /\ other.teams = before.teams
      /\ other.active = before.active /\ other.visits = before.visits
  BY <1>1 DEF Alike
<1>6. PICK m \in Nat : m = Len(throws) /\ Len(throws2) = m + 1
  BY <1>1 DEF Extends
<1>7. before.offset + m = k /\ m \in 1..DartsPerVisit
  <2>1. NextOf(throws, darts, before.offset)
    BY <1>1 DEF Played
  <2>2. m = k - before.offset /\ m \in 1..DartsPerVisit
    BY <1>1, <1>2, <1>6, <2>1 DEF NextOf
  <2> QED BY <1>3, <2>2
<1>8. throws2[m + 1] = longer[k + 1]
  <2>1. NextOf(throws2, longer, before.offset)
    BY <1>1, <1>5 DEF Played
  <2>2. m + 1 \in 1..m + 1 /\ before.offset + (m + 1) = k + 1
    <3>1. PICK o \in Nat : o = before.offset
      BY <1>3
    <3>2. o + m = k
      BY <1>7, <3>1
    <3>3. o + (m + 1) = k + 1 /\ m + 1 \in 1..m + 1
      BY <3>2
    <3> QED BY <3>1, <3>3
  <2> QED BY <1>6, <2>1, <2>2 DEF NextOf
<1>9. /\ leg.teams = outcome.teams /\ Grown(leg.visits, before.visits, old)
      /\ VisitMade(old, members, before, outcome) /\ Turned(leg, members, before, outcome)
      /\ Takes(outcome, Len(throws)) /\ outcome = VisitOutcome(rules, before.teams, before.active, throws)
  BY <1>1 DEF Played, Gained
<1>10. Len(outcome.darts) = m /\ ~IsComplete(outcome)
  BY <1>1, <1>6, <1>9 DEF Takes, IsComplete
<1>11. leg.active = before.active /\ ~old.complete /\ old.darts = outcome.darts
  BY <1>9, <1>10 DEF Turned, VisitMade
<1>12. PICK state : state = before.teams[before.active]
  OBVIOUS
<1>13. PICK was : was = X01ApplyVisit(state, throws, rules)
  OBVIOUS
<1>14. outcome = X01Outcome(before.teams, before.active, was)
  BY <1>9, <1>12, <1>13 DEF VisitOutcome, X01Rules
<1>15. /\ outcome.teams = [before.teams EXCEPT ![before.active] = was.state]
       /\ was.bust = NoBust /\ ~was.won
  BY <1>1, <1>14 DEF X01Outcome
<1>16. before.active \in DOMAIN before.teams /\ leg.teams[leg.active] = was.state
  BY <1>9, <1>11, <1>15
<1>17. PICK end : end = X01ApplyVisit(state, throws2, rules)
  OBVIOUS
<1>18. DartAdded(end, dart, m)
  <2>1. dart = X01ApplyDart(was.state, throws2[Len(throws) + 1], rules)
    BY <1>2, <1>6, <1>8, <1>16
  <2> QED BY <1>1, <1>6, <1>13, <1>15, <1>17, <2>1, X01NextDart
<1>19. /\ other.active \in DOMAIN other.teams /\ other.offset + Len(throws2) = Len(longer)
       /\ end = X01ApplyVisit(other.teams[other.active], throws2, rules)
       /\ DartAdded(end, dart, Len(throws2) - 1) /\ Len(other.visits) = n
  <2>1. before.offset + (m + 1) = k + 1 /\ m + 1 - 1 = m
    <3>1. PICK o \in Nat : o = before.offset
      BY <1>3
    <3>2. o + m = k
      BY <1>7, <3>1
    <3>3. o + (m + 1) = k + 1 /\ m + 1 - 1 = m
      BY <3>2
    <3> QED BY <3>1, <3>3
  <2> QED BY <1>2, <1>4, <1>5, <1>6, <1>12, <1>16, <1>17, <1>18, <2>1
<1>20. throws2 \in Seq(S)
  <2>1. throws2 = NextThrows(longer, other.offset)
    BY <1>1 DEF Played, NextOf
  <2>2. other.offset \in Nat /\ other.offset < Len(longer)
    BY <1>2, <1>3, <1>5
  <2> QED BY <2>1, <2>2, NextThrowsAre
<1>21. DartPlayed(more, other, n, visit, m + 1, dart)
  <2>1. Played(more, rules, members, longer, other, throws2, outcome2, visit)
    BY <1>1
  <2>2. DartPlayed(more, other, n, visit, Len(throws2), dart)
    BY <1>19, <1>20, <2>1, X01PlayedNext
  <2> QED BY <1>6, <2>2
<1>22. /\ Len(leg.visits) = n + 1 /\ leg.visits[n + 1] = old
       /\ \A v \in 1..n : leg.visits[v] = before.visits[v]
  BY <1>4, <1>9 DEF Grown
<1>23. Len(old.darts) = m
  BY <1>10, <1>11
<1>24. \A v \in 1..n : v \in 1..Len(leg.visits) /\ other.visits[v] = leg.visits[v]
  <2>1. \A v \in 1..n : v \in 1..n + 1
    OBVIOUS
  <2> QED BY <1>5, <1>22, <2>1
<1>25. /\ Len(leg.visits) = n + 1 /\ ~leg.visits[n + 1].complete
       /\ m + 1 = Len(leg.visits[n + 1].darts) + 1
  BY <1>11, <1>22, <1>23
<1>26. other.active = leg.active
  BY <1>5, <1>11
<1>27. Complete(other.visits, n)
  <2>1. ~before.refused /\ before.offset # Len(darts)
    BY <1>1 DEF Unfinished, UsedUp
  <2> QED BY <1>3, <1>4, <1>5, <2>1 DEF LegOK, Going
<1> QED BY <1>21, <1>24, <1>25, <1>26, <1>27, X01NextIs
(* No team has more left than it began with.                               *)
LEMMA X01Left ==
    ASSUME NEW leg, NEW rules, X01Rules(rules), NEW N, X01Inv(leg, rules, N), IsSeq(leg.visits),
           NEW team \in 0..N - 1
    PROVE  leg.teams[team].remaining \in 0..rules.start
<1>1. PICK n \in Nat : n = Len(leg.visits)
  BY LenProperties DEF IsSeq
<1>2. PICK left : left = leg.teams[team].remaining
  OBVIOUS
<1>3. left \in Nat /\ rules.start - left = Total(TeamWorths(leg.visits, team), 1..n)
  BY <1>1, <1>2 DEF X01Inv, Standing, X01StateOK
<1>4. PICK w : w = TeamWorths(leg.visits, team)
  OBVIOUS
<1>5. ASSUME NEW v \in 1..n
      PROVE  w[v] \in Nat
  <2>1. PICK visit : visit = leg.visits[v]
    OBVIOUS
  <2>2. w[v] = IF visit.team = team THEN VisitWorth(visit) ELSE 0
    BY <1>1, <1>4, <2>1 DEF TeamWorths
  <2>3. IsSeq(visit.darts) /\ \A j \in 1..Len(visit.darts) : Judged(visit.darts[j])
    BY <1>1, <2>1 DEF X01Inv, VisitSound
  <2>4. PICK d \in Nat : d = Len(visit.darts)
    BY <2>3, LenProperties DEF IsSeq
  <2>5. PICK x : x = Worths(visit.darts)
    OBVIOUS
  <2>6. \A j \in 1..d : x[j] \in Nat
    BY <2>3, <2>4, <2>5 DEF Worths, Worth, Judged
  <2>7. Total(x, 1..d) \in Nat
    <3>1. IsFiniteSet(1..d)
      BY FS_Interval
    <3> QED BY <2>6, <3>1, TotalNat
  <2> QED BY <2>2, <2>4, <2>5, <2>7 DEF VisitWorth
<1>6. Total(w, 1..n) \in Nat
  <2>1. IsFiniteSet(1..n)
    BY FS_Interval
  <2> QED BY <1>5, <2>1, TotalNat
<1>7. rules.start - left \in Nat
  BY <1>3, <1>4, <1>6
<1>8. left <= rules.start
  <2>1. PICK start \in Nat : start = rules.start
    BY DEF X01Rules
  <2> QED BY <1>3, <1>7, <2>1
<1> QED BY <1>2, <1>3, <1>8 DEF X01Rules

(* Who is up in a leg that goes on, and what they have left.               *)
OnTurn(leg, rules, N) ==
    /\ leg.active \in 0..N - 1 /\ leg.active \in DOMAIN leg.teams
    /\ X01StateOK(leg.teams[leg.active])
    /\ leg.teams[leg.active].remaining \in 1..rules.start
    /\ DartsLeft(leg) \in 1..DartsPerVisit

(* A leg nobody has won has somebody up, with darts and points left.       *)
LEMMA X01OnTurn ==
    ASSUME NEW S, Legal(S), NEW darts \in Seq(S), NEW rules, X01Rules(rules), rules.start # 0,
           NEW members, NEW N, Seats(members, N), NEW starter \in 0..N - 1,
           NEW leg, leg = LegReplay(rules, members, starter, darts), leg.winner = NoTeam
    PROVE  OnTurn(leg, rules, N)
<1>1. EndsRight(leg, N) /\ X01Inv(leg, rules, N)
  BY ReplayEndsRight, ReplayKeepsScores
<1>2. IsSeq(leg.visits)
  BY ReplayIsOK DEF LegOK
<1>3. PICK a \in 0..N - 1 : a = leg.active
  BY <1>1 DEF EndsRight, TurnRight
<1>4. a \in DOMAIN leg.teams /\ X01StateOK(leg.teams[a]) /\ leg.teams[a].remaining # 0
  BY <1>1 DEF EndsRight, OverRight, X01Inv, Standing
<1>5. leg.teams[a].remaining \in 1..rules.start
  <2>1. PICK left : left = leg.teams[a].remaining
    OBVIOUS
  <2>2. left \in 0..rules.start /\ left # 0
    BY <1>1, <1>2, <1>4, <2>1, X01Left
  <2>3. left \in 1..rules.start
    BY <2>2 DEF X01Rules
  <2> QED BY <2>1, <2>3
<1>6. DartsLeft(leg) \in 1..DartsPerVisit
  <2>1. PICK n \in Nat : n = Len(leg.visits)
    BY <1>2, LenProperties DEF IsSeq
  <2>2. CASE leg.visits = <<>> \/ leg.visits[n].complete
    BY <2>1, <2>2 DEF DartsLeft, DartsPerVisit
  <2>3. CASE leg.visits # <<>> /\ ~leg.visits[n].complete
    <3>1. n \in 1..n
      BY <1>2, <2>1, <2>3, EmptySeq DEF IsSeq
    <3>2. PICK d : d = Len(leg.visits[n].darts)
      OBVIOUS
    <3>3. d \in 1..DartsPerVisit /\ d # DartsPerVisit
      BY <1>1, <2>1, <2>3, <3>1, <3>2 DEF EndsRight, TurnRight, VisitLong
    <3>4. DartsLeft(leg) = DartsPerVisit - d
      BY <2>1, <2>3, <3>2 DEF DartsLeft
    <3> QED BY <3>3, <3>4 DEF DartsPerVisit
  <2> QED BY <2>2, <2>3
<1> QED BY <1>3, <1>4, <1>5, <1>6 DEF OnTurn

(* One dart more in a leg that goes on: it is thrown from where the leg    *)
(* stands, by whoever is up.                                               *)
LEMMA X01OneMore ==
    ASSUME NEW S, Legal(S), NEW darts \in Seq(S), NEW longer \in Seq(S), Extends(longer, darts),
           NEW rules, X01Rules(rules), rules.start # 0,
           NEW members, NEW N, Seats(members, N), NEW starter \in 0..N - 1,
           NEW leg, leg = LegReplay(rules, members, starter, darts), leg.winner = NoTeam,
           NEW more, more = LegReplay(rules, members, starter, longer),
           NEW dart, dart = X01ApplyDart(leg.teams[leg.active], longer[Len(darts) + 1], rules)
    PROVE  X01Next(leg, more, rules, dart)
<1>1. leg.active \in DOMAIN leg.teams
  BY X01OnTurn DEF OnTurn
<1>2. ~(Abreast(leg, more, Len(darts)) /\ more.refused)
  <2>1. SUFFICES ASSUME Abreast(leg, more, Len(darts)), more.refused
                 PROVE  FALSE
    OBVIOUS
  <2>2. more.winner = NoTeam
    BY <2>1 DEF Abreast, Alike
  <2>3. EndsRight(more, N)
    BY ReplayEndsRight
  <2> QED BY <2>1, <2>2, <2>3 DEF EndsRight, OverRight
<1>3. Ahead(leg, more, rules, members, darts, longer)
  BY <1>2, ReplayGrows
<1>4. CASE Opened(leg, more, rules, members, darts, longer)
  BY <1>1, <1>4, X01OpensVisit
<1>5. CASE Continued(leg, more, rules, members, darts, longer)
  BY <1>1, <1>5, X01GoesOn
<1> QED BY <1>3, <1>4, <1>5 DEF Ahead

(* The thrower throws on, unless the dart wins the leg, busts or is the    *)
(* last of the visit.                                                      *)
LEMMA X01StaysUp ==
    ASSUME NEW leg, leg.winner = NoTeam, NEW more, NEW rules, NEW dart, X01Next(leg, more, rules, dart),
           dart.bust = NoBust, ~dart.checkout, DartsLeft(leg) > 1,
           NEW N, TurnRight(leg, N), IsSeq(leg.visits)
    PROVE  /\ more.winner = NoTeam /\ more.active = leg.active
           /\ more.teams[leg.active] = dart.state
           /\ DartsLeft(more) = DartsLeft(leg) - 1
<1>1. PICK n \in Nat : \E visit :
          /\ Len(more.visits) = n + 1 /\ more.visits[n + 1] = visit
          /\ \A v \in 1..n : leg.visits[v].complete
          /\ visit.complete <=> Len(visit.darts) = DartsPerVisit
          /\ ~visit.complete => more.active = leg.active
          /\ IsSeq(visit.darts) /\ Len(visit.darts) \in 1..DartsPerVisit
          /\ \/ Len(leg.visits) = n /\ Len(visit.darts) = 1
             \/ /\ Len(leg.visits) = n + 1 /\ ~leg.visits[n + 1].complete
                /\ Len(visit.darts) = Len(leg.visits[n + 1].darts) + 1
  BY DEF X01Next
<1>2. PICK visit :
          /\ Len(more.visits) = n + 1 /\ more.visits[n + 1] = visit
          /\ \A v \in 1..n : leg.visits[v].complete
          /\ visit.complete <=> Len(visit.darts) = DartsPerVisit
          /\ ~visit.complete => more.active = leg.active
          /\ IsSeq(visit.darts) /\ Len(visit.darts) \in 1..DartsPerVisit
          /\ \/ Len(leg.visits) = n /\ Len(visit.darts) = 1
             \/ /\ Len(leg.visits) = n + 1 /\ ~leg.visits[n + 1].complete
                /\ Len(visit.darts) = Len(leg.visits[n + 1].darts) + 1
  BY <1>1
<1>3. more.winner = NoTeam /\ more.teams[leg.active] = dart.state
  BY DEF X01Next
<1>4. PICK d : d = Len(visit.darts) /\ d \in 1..3
  BY <1>2 DEF DartsPerVisit
<1>5. d < 3 /\ DartsLeft(leg) = 3 - (d - 1)
  <2>1. CASE Len(leg.visits) = n /\ d = 1
    <3>1. leg.visits = <<>> \/ leg.visits[Len(leg.visits)].complete
      <4>1. CASE n = 0
        BY <2>1, <4>1, <1>2, EmptySeq
      <4>2. CASE n # 0
        <5>1. n \in 1..n
          BY <4>2
        <5> QED BY <1>2, <2>1, <5>1
      <4> QED BY <4>1, <4>2
    <3>2. DartsLeft(leg) = 3
      BY <3>1 DEF DartsLeft, DartsPerVisit
    <3> QED BY <2>1, <3>2
  <2>2. CASE /\ Len(leg.visits) = n + 1 /\ ~leg.visits[n + 1].complete
             /\ d = Len(leg.visits[n + 1].darts) + 1
    <3>1. PICK e : e = Len(leg.visits[n + 1].darts)
      OBVIOUS
    <3>2. n + 1 \in 1..n + 1 /\ Len(leg.visits) = n + 1
      BY <2>2
    <3>3. e \in 1..3
      BY <3>1, <3>2 DEF TurnRight, VisitLong, DartsPerVisit
    <3>4. leg.visits # <<>>
      BY <3>2, EmptyIsSeq
    <3>5. DartsLeft(leg) = 3 - e
      BY <2>2, <3>1, <3>4 DEF DartsLeft, DartsPerVisit
    <3> QED BY <2>2, <3>1, <3>3, <3>5
  <2> QED BY <1>2, <1>4, <2>1, <2>2
<1>6. ~visit.complete /\ more.visits # <<>>
  <2>1. Len(more.visits) # 0
    BY <1>2
  <2>2. d # 3
    <3>1. d < 3
      BY <1>5
    <3> QED BY <3>1
  <2> QED BY <1>2, <1>4, <2>1, <2>2, EmptyIsSeq DEF DartsPerVisit
<1>7. DartsLeft(more) = 3 - d
  BY <1>2, <1>3, <1>4, <1>6 DEF DartsLeft, DartsPerVisit
<1> QED BY <1>2, <1>3, <1>4, <1>5, <1>6, <1>7
-----------------------------------------------------------------------------
(***************************************************************************)
(* The checkout table: what is in it wins, and what wins is in it.         *)
(***************************************************************************)
(* An order on the elements of a set, as the pairs of it.                  *)
StrictOn(R, S) ==
    /\ \A x \in S : <<x, x>> \notin R
    /\ \A x, y, z \in S : <<x, y>> \in R /\ <<y, z>> \in R => <<x, z>> \in R

(* Some element of a finite set comes before no other.                     *)
LEMMA SomeFirst ==
    ASSUME NEW S, IsFiniteSet(S), NEW R, StrictOn(R, S)
    PROVE  \A s \in SUBSET S : s # {} => \E x \in s : \A y \in s : <<y, x>> \notin R
<1> DEFINE T == {s \in SUBSET S : s # {} => \E x \in s : \A y \in s : <<y, x>> \notin R}
<1>1. ASSUME NEW s \in SUBSET S, \A x \in s : s \ {x} \in T
      PROVE  s \in T
  <2>1. SUFFICES ASSUME NEW x \in s
                 PROVE  \E m \in s : \A y \in s : <<y, m>> \notin R
    OBVIOUS
  <2>2. CASE s \ {x} = {}
    <3>1. \A y \in s : y = x
      BY <2>2
    <3> QED BY <3>1 DEF StrictOn
  <2>3. CASE s \ {x} # {}
    <3>1. PICK m \in s \ {x} : \A y \in s \ {x} : <<y, m>> \notin R
      BY <1>1, <2>3
    <3>2. CASE <<x, m>> \in R
      <4>1. ASSUME NEW y \in s, <<y, x>> \in R
            PROVE  FALSE
        <5>1. <<y, m>> \in R
          BY <3>2, <4>1 DEF StrictOn
        <5>2. y # x
          BY <4>1 DEF StrictOn
        <5> QED BY <3>1, <5>1, <5>2
      <4> QED BY <4>1
    <3>3. CASE <<x, m>> \notin R
      BY <3>1, <3>3
    <3> QED BY <3>2, <3>3
  <2> QED BY <2>2, <2>3
<1> HIDE DEF T
<1>2. T \in SUBSET SUBSET S
  BY DEF T
<1>3. T = SUBSET S
  BY <1>1, <1>2, SubsetInduction
<1> QED BY <1>3 DEF T

(* A row of k numbers, and the order of such rows by their first           *)
(* difference.                                                             *)
KeyOf(a, k) == DOMAIN a = 1..k /\ \A i \in 1..k : a[i] \in Int

(* It is strict.                                                           *)
LEMMA PrecedesIsStrict ==
    ASSUME NEW k \in Nat, NEW a, KeyOf(a, k), NEW b, KeyOf(b, k), NEW c, KeyOf(c, k)
    PROVE  /\ ~Precedes(a, a)
           /\ Precedes(a, b) /\ Precedes(b, c) => Precedes(a, c)
<1>1. ~Precedes(a, a)
  BY DEF Precedes, KeyOf
<1>2. ASSUME Precedes(a, b), Precedes(b, c)
      PROVE  Precedes(a, c)
  <2>1. PICK i \in 1..k : a[i] < b[i] /\ \A j \in 1..i - 1 : a[j] = b[j]
    BY <1>2 DEF Precedes, KeyOf
  <2>2. PICK h \in 1..k : b[h] < c[h] /\ \A j \in 1..h - 1 : b[j] = c[j]
    BY <1>2 DEF Precedes, KeyOf
  <2>3. CASE i < h
    <3>1. i \in 1..h - 1 /\ \A j \in 1..i - 1 : j \in 1..h - 1
      BY <2>3
    <3>2. a[i] < c[i] /\ \A j \in 1..i - 1 : a[j] = c[j]
      BY <2>1, <2>2, <3>1
    <3> QED BY <3>2 DEF Precedes, KeyOf
  <2>4. CASE i = h
    <3>1. a[i] < c[i]
      BY <2>1, <2>2, <2>4 DEF KeyOf
    <3>2. \A j \in 1..i - 1 : a[j] = c[j]
      BY <2>1, <2>2, <2>4
    <3> QED BY <3>1, <3>2 DEF Precedes, KeyOf
  <2>5. CASE h < i
    <3>1. h \in 1..i - 1 /\ \A j \in 1..h - 1 : j \in 1..i - 1
      BY <2>5
    <3>2. a[h] < c[h] /\ \A j \in 1..h - 1 : a[j] = c[j]
      BY <2>1, <2>2, <3>1
    <3> QED BY <3>2 DEF Precedes, KeyOf
  <2> QED BY <2>3, <2>4, <2>5
<1> QED BY <1>1, <1>2

(* Every scoring throw weighs something.                                   *)
LEMMA WeightsAre ==
    ASSUME NEW t \in ScoringThrows
    PROVE  /\ FinishCost(t) \in Int /\ SetupWeight(t) \in Int
           /\ FirstDartRank(t) \in Int /\ Ordinal(t) \in Int
<1>1. t.segment \in Nat /\ t.multiplier \in Nat
  BY DEF ScoringThrows, AllThrows
<1>2. Halvings(t.segment) \in Nat
  <2>1. IsFiniteSet(1..4)
    <3>1. \A n \in Int : IsFiniteSet(1..n)
      BY FS_Interval
    <3>2. 4 \in Int
      OBVIOUS
    <3> QED BY <3>1, <3>2, Zenon
  <2>2. \A s \in SUBSET (1..4) : Cardinality(s) \in Nat
    BY <2>1, FS_Subset, FS_CardinalityType
  <2> QED BY <2>2 DEF Halvings
<1>3. FinishCost(t) \in Int
  BY <1>1, <1>2 DEF FinishCost
<1>4. SetupWeight(t) \in Int
  BY <1>1 DEF SetupWeight, SetupCost, AwkwardUnit
<1>5. FirstDartRank(t) \in Int /\ Ordinal(t) \in Int
  BY <1>1 DEF FirstDartRank, Ordinal
<1> QED BY <1>3, <1>4, <1>5
(* What is found at the end of a finite set of values is finite.           *)
LEMMA ImageIsFinite ==
    ASSUME NEW S, IsFiniteSet(S), NEW f, NEW R, \A y \in R : \E x \in S : y = f[x]
    PROVE  IsFiniteSet(R)
<1> DEFINE I == {f[x] : x \in S}
           g == [x \in S |-> f[x]]
<1>1. g \in Surjection(S, I)
  BY DEF Surjection
<1>2. IsFiniteSet(I)
  BY <1>1, FS_Surjection
<1>3. R \subseteq I
  OBVIOUS
<1> QED BY <1>2, <1>3, FS_Subset

(* There are finitely many throws.                                         *)
LEMMA ThrowsAreFinite == IsFiniteSet(ScoringThrows)
<1>1. IsFiniteSet(0..25) /\ IsFiniteSet(0..3)
  <2>1. \A n \in Int : IsFiniteSet(0..n)
    BY FS_Interval
  <2>2. 25 \in Int /\ 3 \in Int
    OBVIOUS
  <2> QED BY <2>1, <2>2, Zenon
<1> DEFINE P == (0..25) \X (0..3)
           f == [p \in P |-> [segment |-> p[1], multiplier |-> p[2]]]
<1>2. IsFiniteSet(P)
  BY <1>1, FS_Product
<1>3. \A t \in ScoringThrows : \E p \in P : t = f[p]
  <2>1. SUFFICES ASSUME NEW t \in ScoringThrows
                 PROVE  \E p \in P : t = f[p]
    OBVIOUS
  <2>2. t \in [segment : 0..25, multiplier : 0..3]
    BY DEF ScoringThrows, AllThrows
  <2>3. <<t.segment, t.multiplier>> \in P
    BY <2>2
  <2>4. t = f[<<t.segment, t.multiplier>>]
    BY <2>2, <2>3
  <2> QED BY <2>3, <2>4
<1> HIDE DEF f, P
<1> QED BY <1>2, <1>3, ImageIsFinite

(* The sequences of m scoring throws.                                      *)
PathsLong(m) == {p \in Seq(ScoringThrows) : Len(p) = m}

(* Of each length there are finitely many.                                 *)
LEMMA PathsAreFinite == \A m \in 0..MaxPathDarts : IsFiniteSet(PathsLong(m))
<1> DEFINE T == {m \in 0..3 : IsFiniteSet(PathsLong(m))}
<1>1. 0 \in T
  <2>1. PathsLong(0) \subseteq {<<>>}
    BY EmptySeq DEF PathsLong
  <2>2. IsFiniteSet({<<>>})
    BY FS_Singleton
  <2> QED BY <2>1, <2>2, FS_Subset
<1>2. ASSUME NEW m \in 0..2, m \in T
      PROVE  m + 1 \in T
  <2> DEFINE P == PathsLong(m) \X ScoringThrows
             f == [x \in P |-> Append(x[1], x[2])]
  <2>1. IsFiniteSet(P)
    BY <1>2, ThrowsAreFinite, FS_Product
  <2>2. ASSUME NEW p \in PathsLong(m + 1)
        PROVE  \E x \in P : p = f[x]
    <3>1. p \in Seq(ScoringThrows) /\ Len(p) = m + 1 /\ p # <<>>
      BY EmptyIsSeq DEF PathsLong
    <3>2. PICK q, t : q = Undone(p) /\ t = p[m + 1]
      OBVIOUS
    <3>3. /\ q \in Seq(ScoringThrows) /\ t \in ScoringThrows /\ Len(q) = m
          /\ p = Append(q, t)
      <4>1. UndoneIs(q, p, ScoringThrows)
        BY <3>1, <3>2, UndoneIsShorter
      <4>2. q \in Seq(ScoringThrows) /\ Len(q) = m
        BY <3>1, <4>1 DEF UndoneIs
      <4>3. t \in ScoringThrows
        BY <3>1, <3>2, ElementOfSeq
      <4>4. PICK r : r = Append(q, t)
        OBVIOUS
      <4>5. /\ r \in Seq(ScoringThrows) /\ Len(r) = m + 1
            /\ \A i \in 1..m : r[i] = q[i]
            /\ r[m + 1] = t
        BY <4>2, <4>3, <4>4, AppendProperties
      <4>6. \A i \in 1..m + 1 : p[i] = r[i]
        <5>1. \A i \in 1..m + 1 : i \in 1..m \/ i = m + 1
          OBVIOUS
        <5> QED BY <3>2, <4>1, <4>2, <4>5, <5>1 DEF UndoneIs
      <4>7. p = r
        BY <3>1, <4>5, <4>6, SeqEqual
      <4> QED BY <4>2, <4>3, <4>4, <4>7
    <3>4. <<q, t>> \in P
      BY <3>3 DEF PathsLong
    <3>5. f[<<q, t>>] = p
      BY <3>3, <3>4
    <3> QED BY <3>4, <3>5
  <2> HIDE DEF P, f
  <2>3. IsFiniteSet(PathsLong(m + 1))
    BY <2>1, <2>2, ImageIsFinite
  <2> QED BY <2>3
<1> HIDE DEF T
<1>3. 0..3 \subseteq T
  BY <1>1, <1>2, UpTo
<1> QED BY <1>3 DEF T, MaxPathDarts

(* The weight of a path's ith dart, and its darts' up to each.             *)
WeightAt(path, i) == IF i = Len(path) THEN FinishCost(path[i]) ELSE SetupWeight(path[i])

WeightsTo(total, path) ==
    total = [i \in 0..Len(path) |-> IF i = 0 THEN 0 ELSE total[i - 1] + WeightAt(path, i)]

(* A path is ranked by three numbers and one for each dart.                *)
LEMMA RankKeyIs ==
    ASSUME NEW m \in Nat \ {0}, NEW path \in PathsLong(m)
    PROVE  KeyOf(RankKey(path), m + 3)
<1>1. path \in Seq(ScoringThrows) /\ Len(path) = m
  BY DEF PathsLong
<1>2. \A i \in 1..m : path[i] \in ScoringThrows
  BY <1>1, ElementOfSeq
<1>3. \A i \in 1..m : WeightAt(path, i) \in Int
  BY <1>2, WeightsAre DEF WeightAt
<1>4. \E total : WeightsTo(total, path)
  <2>1. PICK w : w = [i \in 1..m |-> WeightAt(path, i)]
    OBVIOUS
  <2>2. PICK f : f = [i \in 0..m |-> Total(w, 1..i)]
    OBVIOUS
  <2>3. f[0] = 0
    <3>1. Total(w, {}) = 0
      BY FS_EmptySet, TotalOf
    <3>2. 1..0 = {} /\ 0 \in 0..m
      OBVIOUS
    <3> QED BY <2>2, <3>1, <3>2
  <2>4. ASSUME NEW i \in 1..m
        PROVE  f[i] = f[i - 1] + WeightAt(path, i)
    <3>1. PICK k \in Nat : k + 1 = i /\ k = i - 1 /\ k \in 0..m
      BY Zenon, SMT
    <3>2. \A j \in 1..k + 1 : w[j] \in Int
      BY <1>3, <2>1, <3>1
    <3>3. Total(w, 1..k + 1) = Total(w, 1..k) + w[k + 1]
      BY <3>2, TotalNext
    <3>4. w[k + 1] = WeightAt(path, i)
      BY <2>1, <3>1
    <3> QED BY <2>2, <3>1, <3>3, <3>4
  <2>5. f = [i \in 0..Len(path) |-> IF i = 0 THEN 0 ELSE f[i - 1] + WeightAt(path, i)]
    <3>1. \A i \in 0..m : f[i] = IF i = 0 THEN 0 ELSE f[i - 1] + WeightAt(path, i)
      BY <2>3, <2>4
    <3>2. f = [i \in 0..m |-> f[i]]
      BY <2>2
    <3> QED BY <1>1, <3>1, <3>2, Zenon
  <2> QED BY <2>5 DEF WeightsTo
<1> DEFINE total == CHOOSE f : WeightsTo(f, path)
<1>5. WeightsTo(total, path)
  BY <1>4
<1>6. RankKey(path) = <<m, total[m], FirstDartRank(path[1])>> \o [i \in 1..m |-> Ordinal(path[i])]
  BY <1>1 DEF RankKey, WeightsTo, WeightAt
<1> HIDE DEF total
<1>7. total[m] \in Int
  <2> DEFINE T == {i \in 0..m : total[i] \in Int}
  <2>1. 0 \in T
    BY <1>1, <1>5 DEF WeightsTo
  <2>2. ASSUME NEW i \in 0..m - 1, i \in T
        PROVE  i + 1 \in T
    <3>1. i + 1 \in 1..m /\ i + 1 - 1 = i
      OBVIOUS
    <3>2. total[i + 1] = total[i] + WeightAt(path, i + 1)
      BY <1>1, <1>5, <3>1 DEF WeightsTo
    <3> QED BY <1>3, <2>2, <3>1, <3>2
  <2> HIDE DEF T
  <2>3. 0..m \subseteq T
    BY <2>1, <2>2, UpTo
  <2> QED BY <2>3 DEF T
<1>8. PICK head, tail : /\ head = <<m, total[m], FirstDartRank(path[1])>>
                        /\ tail = [i \in 1..m |-> Ordinal(path[i])]
  OBVIOUS
<1>9. head \in Seq(Int) /\ Len(head) = 3
  <2>1. 1 \in 1..m
    OBVIOUS
  <2>2. FirstDartRank(path[1]) \in Int
    BY <1>2, <2>1, WeightsAre
  <2> QED BY <1>7, <1>8, <2>2
<1>10. tail \in Seq(Int) /\ Len(tail) = m
  BY <1>2, <1>8, WeightsAre
<1>11. PICK key : key = RankKey(path)
  OBVIOUS
<1>12. key \in Seq(Int) /\ Len(key) = m + 3
  <2>1. key = head \o tail
    BY <1>6, <1>8, <1>11
  <2>2. key \in Seq(Int) /\ Len(key) = Len(head) + Len(tail)
    BY <1>9, <1>10, <2>1, ConcatProperties
  <2> QED BY <1>9, <1>10, <2>2
<1>13. DOMAIN key = 1..m + 3 /\ \A i \in 1..m + 3 : key[i] \in Int
  BY <1>12, LenProperties, ElementOfSeq
<1> QED BY <1>11, <1>13 DEF KeyOf
(* Finding the next best: of a set of paths of one length, some are left   *)
(* until all are listed, and one of those left no other outranks.          *)
RankStep(paths, before) ==
    LET rest == {p \in paths : \A j \in DOMAIN before : before[j] # p}
    IN  IF rest = {} THEN before
        ELSE Append(before, CHOOSE p \in rest : \A q \in rest : ~Outranks(q, p))

(* What is listed next is one of the paths.                                *)
LEMMA RankStepIs ==
    ASSUME NEW m \in 1..MaxPathDarts, NEW paths \in SUBSET PathsLong(m), NEW before \in Seq(paths)
    PROVE  /\ RankStep(paths, before) \in Seq(paths)
           /\ before # <<>> \/ paths # {} => RankStep(paths, before) # <<>>
<1>0. m \in Nat \ {0} /\ m \in 0..MaxPathDarts
  BY DEF MaxPathDarts
<1> DEFINE rest == {p \in paths : \A j \in DOMAIN before : before[j] # p}
           first == CHOOSE p \in rest : \A q \in rest : ~Outranks(q, p)
<1>1. ASSUME rest # {}
      PROVE  first \in paths
  <2> DEFINE R == {x \in PathsLong(m) \X PathsLong(m) : Outranks(x[1], x[2])}
  <2>1. ASSUME NEW x \in PathsLong(m), NEW y \in PathsLong(m)
        PROVE  <<x, y>> \in R <=> Precedes(RankKey(x), RankKey(y))
    BY DEF Outranks
  <2> HIDE DEF R
  <2>2. \A x \in PathsLong(m) : KeyOf(RankKey(x), m + 3)
    BY <1>0, RankKeyIs
  <2>3. m + 3 \in Nat
    BY <1>0
  <2>4. StrictOn(R, PathsLong(m))
    <3>1. \A x \in PathsLong(m) : <<x, x>> \notin R
      BY <2>1, <2>2, <2>3, PrecedesIsStrict
    <3>2. ASSUME NEW x \in PathsLong(m), NEW y \in PathsLong(m), NEW z \in PathsLong(m),
                 <<x, y>> \in R, <<y, z>> \in R
          PROVE  <<x, z>> \in R
      <4>1. PICK a, b, c : a = RankKey(x) /\ b = RankKey(y) /\ c = RankKey(z)
        OBVIOUS
      <4>2. KeyOf(a, m + 3) /\ KeyOf(b, m + 3) /\ KeyOf(c, m + 3)
        BY <2>2, <4>1
      <4>3. Precedes(a, b) /\ Precedes(b, c)
        BY <2>1, <3>2, <4>1
      <4>4. Precedes(a, c)
        BY <2>3, <4>2, <4>3, PrecedesIsStrict
      <4> QED BY <2>1, <4>1, <4>4
    <3> QED BY <3>1, <3>2 DEF StrictOn
  <2>5. IsFiniteSet(PathsLong(m)) /\ rest \in SUBSET PathsLong(m)
    BY <1>0, PathsAreFinite
  <2>6. \E p \in rest : \A q \in rest : <<q, p>> \notin R
    <3> HIDE DEF rest
    <3> QED BY <1>1, <2>4, <2>5, SomeFirst
  <2>7. \E p \in rest : \A q \in rest : ~Outranks(q, p)
    BY <2>1, <2>5, <2>6 DEF Outranks
  <2>8. first \in rest
    BY <2>7
  <2> QED BY <2>8
<1>2. CASE rest = {}
  <2>1. RankStep(paths, before) = before
    BY <1>2 DEF RankStep
  <2>2. before = <<>> => paths = {}
    BY <1>2, EmptyIsSeq
  <2> QED BY <2>1, <2>2
<1>3. CASE rest # {}
  <2>1. RankStep(paths, before) = Append(before, first)
    BY <1>3 DEF RankStep
  <2>2. first \in paths
    BY <1>1, <1>3
  <2> HIDE DEF first, rest
  <2>3. PICK more : more = Append(before, first)
    OBVIOUS
  <2>4. more \in Seq(paths) /\ Len(more) = Len(before) + 1 /\ Len(before) \in Nat
    BY <2>2, <2>3, AppendProperties, LenProperties
  <2>5. more # <<>>
    BY <2>4, EmptyIsSeq
  <2> QED BY <2>1, <2>3, <2>4, <2>5
<1> QED BY <1>2, <1>3

Ranked(f, paths) ==
    f = [i \in 0..PathsPerEntry |-> IF i = 0 THEN <<>> ELSE RankStep(paths, f[i - 1])]

(* The best few of some paths of one length are among them, and there are  *)
(* some if there are any.                                                  *)
LEMMA BestAre ==
    ASSUME NEW m \in 1..MaxPathDarts, NEW paths \in SUBSET PathsLong(m)
    PROVE  /\ BestOfPaths(paths) \in Seq(paths)
           /\ BestOfPaths(paths) # <<>> <=> paths # {}
<1>1. PICK r1, r2, r3 : /\ r1 = RankStep(paths, <<>>) /\ r2 = RankStep(paths, r1)
                        /\ r3 = RankStep(paths, r2)
  OBVIOUS
<1>2. \E f : Ranked(f, paths)
  <2> DEFINE f == [i \in 0..3 |-> IF i = 0 THEN <<>> ELSE IF i = 1 THEN r1
                                  ELSE IF i = 2 THEN r2 ELSE r3]
  <2>1. f[0] = <<>> /\ f[1] = r1 /\ f[2] = r2 /\ f[3] = r3
    OBVIOUS
  <2>2. f = [i \in 0..3 |-> f[i]]
    OBVIOUS
  <2> HIDE DEF f
  <2>3. ASSUME NEW i \in 0..3
        PROVE  f[i] = IF i = 0 THEN <<>> ELSE RankStep(paths, f[i - 1])
    <3>1. i = 0 \/ (i = 1 /\ i - 1 = 0) \/ (i = 2 /\ i - 1 = 1) \/ (i = 3 /\ i - 1 = 2)
      OBVIOUS
    <3> QED BY <1>1, <2>1, <3>1
  <2>4. f = [i \in 0..3 |-> IF i = 0 THEN <<>> ELSE RankStep(paths, f[i - 1])]
    BY <2>2, <2>3, Zenon
  <2> QED BY <2>4 DEF Ranked, PathsPerEntry
<1> DEFINE ranked == CHOOSE f : Ranked(f, paths)
<1>3. Ranked(ranked, paths)
  BY <1>2
<1>4. BestOfPaths(paths) = ranked[3]
  BY DEF BestOfPaths, Ranked, RankStep, PathsPerEntry
<1> HIDE DEF ranked
<1>5. /\ ranked[0] = <<>> /\ ranked[1] = RankStep(paths, ranked[0])
      /\ ranked[2] = RankStep(paths, ranked[1]) /\ ranked[3] = RankStep(paths, ranked[2])
  <2>1. \A i \in 0..3 : ranked[i] = IF i = 0 THEN <<>> ELSE RankStep(paths, ranked[i - 1])
    BY <1>3, Zenon DEF Ranked, PathsPerEntry
  <2>2. 1 - 1 = 0 /\ 2 - 1 = 1 /\ 3 - 1 = 2
    OBVIOUS
  <2>3. 0 \in 0..3 /\ 1 \in 0..3 /\ 2 \in 0..3 /\ 3 \in 0..3 /\ 1 # 0 /\ 2 # 0 /\ 3 # 0
    OBVIOUS
  <2> QED BY <2>1, <2>2, <2>3
<1>6. ranked[0] \in Seq(paths)
  BY <1>5, EmptySeq
<1>7. ranked[1] \in Seq(paths) /\ (paths # {} => ranked[1] # <<>>)
  BY <1>5, <1>6, RankStepIs
<1>8. ranked[2] \in Seq(paths) /\ (paths # {} => ranked[2] # <<>>)
  BY <1>5, <1>7, RankStepIs
<1>9. ranked[3] \in Seq(paths) /\ (paths # {} => ranked[3] # <<>>)
  BY <1>5, <1>8, RankStepIs
<1>10. ASSUME ranked[3] # <<>>
       PROVE  paths # {}
  <2>1. Len(ranked[3]) \in Nat \ {0}
    BY <1>9, <1>10, EmptySeq
  <2>2. 1 \in 1..Len(ranked[3])
    BY <2>1
  <2> QED BY <1>9, <2>2, ElementOfSeq
<1> QED BY <1>4, <1>9, <1>10

(* The paths of m darts by rule and score.                                 *)
PathsOf(m) == IF m = 1 THEN OneDart ELSE IF m = 2 THEN TwoDarts ELSE ThreeDarts

(* A path of one dart finishes; a longer one leaves a score that the rest  *)
(* of it, a path one dart shorter, checks out.                             *)
EndsPath(rule, r, t) == Score(t) = r /\ Finishes(rule, t)

StartsPath(m, rule, r, t, p) ==
    Score(t) < r /\ \E q \in PathsOf(m)[rule][r - Score(t)] : p = <<t>> \o q

(* So the sets of paths are built.                                         *)
LEMMA PathsOfAre ==
    ASSUME NEW rule \in X01Rule, NEW r \in 0..TopScore
    PROVE  /\ \A p : p \in PathsOf(1)[rule][r] <=>
                        \E t \in ScoringThrows : EndsPath(rule, r, t) /\ p = <<t>>
           /\ \A m \in 1..2 : \A p : p \in PathsOf(m + 1)[rule][r] <=>
                        \E t \in ScoringThrows : StartsPath(m, rule, r, t, p)
<1>1. ASSUME NEW p
      PROVE  p \in PathsOf(1)[rule][r] <=>
                \E t \in ScoringThrows : EndsPath(rule, r, t) /\ p = <<t>>
  <2>1. PathsOf(1)[rule][r] =
          {<<t>> : t \in {u \in ScoringThrows : Score(u) = r /\ Finishes(rule, u)}}
    BY DEF PathsOf, OneDart
  <2> QED BY <2>1 DEF EndsPath
<1>2. ASSUME NEW m \in 1..2
      PROVE  PathsOf(m + 1) = Preceded(PathsOf(m))
  <2>1. (m = 1 /\ m + 1 = 2) \/ (m = 2 /\ m + 1 = 3)
    OBVIOUS
  <2> QED BY <2>1 DEF PathsOf, TwoDarts, ThreeDarts
<1>3. ASSUME NEW m \in 1..2, NEW p
      PROVE  p \in Preceded(PathsOf(m))[rule][r] <=>
                 \E t \in ScoringThrows : StartsPath(m, rule, r, t, p)
  <2>1. PICK paths : paths = PathsOf(m)
    OBVIOUS
  <2>2. Preceded(paths)[rule][r] =
          UNION {{<<t>> \o q : q \in paths[rule][r - Score(t)]} :
                     t \in {u \in ScoringThrows : Score(u) < r}}
    BY DEF Preceded
  <2>3. p \in Preceded(paths)[rule][r] <=>
          \E t \in ScoringThrows : /\ Score(t) < r
                                   /\ \E q \in paths[rule][r - Score(t)] : p = <<t>> \o q
    <3> DEFINE After(t) == {<<t>> \o q : q \in paths[rule][r - Score(t)]}
               Before   == {u \in ScoringThrows : Score(u) < r}
    <3>1. Preceded(paths)[rule][r] = UNION {After(t) : t \in Before}
      BY <2>2
    <3>2. p \in UNION {After(t) : t \in Before} <=> \E t \in Before : p \in After(t)
      <4> HIDE DEF After, Before
      <4> QED OBVIOUS
    <3>3. \A t : p \in After(t) <=> \E q \in paths[rule][r - Score(t)] : p = <<t>> \o q
      OBVIOUS
    <3>4. \A t : t \in Before <=> t \in ScoringThrows /\ Score(t) < r
      OBVIOUS
    <3> HIDE DEF After, Before
    <3> QED BY <3>1, <3>2, <3>3, <3>4
  <2> QED BY <2>1, <2>3 DEF StartsPath
<1> QED BY <1>1, <1>2, <1>3
(* A scoring throw scores something.                                       *)
LEMMA ScoringScores ==
    ASSUME NEW t \in ScoringThrows
    PROVE  Score(t) \in 1..TopScore /\ t \in AllThrows
BY DEF ScoringThrows

(* The paths of m darts are sequences of m throws that score.              *)
LEMMA PathsAreLong ==
    \A m \in 1..MaxPathDarts : \A rule \in X01Rule, r \in 0..TopScore :
        PathsOf(m)[rule][r] \in SUBSET PathsLong(m)
<1>1. ASSUME NEW rule \in X01Rule, NEW r \in 0..TopScore, NEW p \in PathsOf(1)[rule][r]
      PROVE  p \in PathsLong(1)
  <2>1. PICK t \in ScoringThrows : p = <<t>>
    BY PathsOfAre
  <2> QED BY <2>1 DEF PathsLong
<1>2. ASSUME NEW m \in 1..2, NEW rule \in X01Rule,
             \A r \in 0..TopScore : PathsOf(m)[rule][r] \in SUBSET PathsLong(m),
             NEW r \in 0..TopScore, NEW p \in PathsOf(m + 1)[rule][r]
      PROVE  p \in PathsLong(m + 1)
  <2>1. PICK t \in ScoringThrows : StartsPath(m, rule, r, t, p)
    BY PathsOfAre
  <2>2. PICK q \in PathsOf(m)[rule][r - Score(t)] : p = <<t>> \o q /\ Score(t) < r
    BY <2>1 DEF StartsPath
  <2>3. r - Score(t) \in 0..TopScore
    BY <2>2, ScoringScores, TopScoreAssumption
  <2>4. q \in Seq(ScoringThrows) /\ Len(q) = m
    BY <1>2, <2>2, <2>3 DEF PathsLong
  <2>5. <<t>> \in Seq(ScoringThrows) /\ Len(<<t>>) = 1
    OBVIOUS
  <2>6. p \in Seq(ScoringThrows) /\ Len(p) = 1 + m
    BY <2>2, <2>4, <2>5, ConcatProperties
  <2> QED BY <2>6 DEF PathsLong
<1>3. \A m \in 1..3 : m = 1 \/ (m = 2 /\ 1 + 1 = m) \/ (m = 3 /\ 2 + 1 = m)
  OBVIOUS
<1>4. ASSUME NEW rule \in X01Rule
      PROVE  \A r \in 0..TopScore : /\ PathsOf(1)[rule][r] \in SUBSET PathsLong(1)
                                    /\ PathsOf(2)[rule][r] \in SUBSET PathsLong(2)
                                    /\ PathsOf(3)[rule][r] \in SUBSET PathsLong(3)
  <2>1. \A r \in 0..TopScore : PathsOf(1)[rule][r] \in SUBSET PathsLong(1)
    BY <1>1
  <2>2. 1 \in 1..2 /\ 2 \in 1..2 /\ 1 + 1 = 2 /\ 2 + 1 = 3
    OBVIOUS
  <2>3. \A r \in 0..TopScore : PathsOf(2)[rule][r] \in SUBSET PathsLong(2)
    BY <1>2, <2>1, <2>2
  <2>4. \A r \in 0..TopScore : PathsOf(3)[rule][r] \in SUBSET PathsLong(3)
    BY <1>2, <2>2, <2>3
  <2> QED BY <2>1, <2>3, <2>4
<1> QED BY <1>3, <1>4 DEF MaxPathDarts

(* A list of paths out of the first n of some sets of them, with some in   *)
(* it if there are any.                                                    *)
Lists(best, sets, n) ==
    /\ IsSeq(best)
    /\ \A j \in 1..Len(best) : \E m \in 1..n : best[j] \in sets[m]
    /\ best # <<>> <=> \E m \in 1..n : sets[m] # {}

JoinStep(best, paths) ==
    LET both == best \o BestOfPaths(paths)
    IN  SubSeq(both, 1, IF Len(both) < PathsPerEntry THEN Len(both) ELSE PathsPerEntry)

(* The best of one set more go behind what is listed.                      *)
LEMMA JoinStepLists ==
    ASSUME NEW n \in 0..MaxPathDarts - 1, NEW sets, NEW best, Lists(best, sets, n),
           sets[n + 1] \in SUBSET PathsLong(n + 1)
    PROVE  Lists(JoinStep(best, sets[n + 1]), sets, n + 1)
<1>0. n + 1 \in 1..MaxPathDarts /\ n \in Nat
  BY DEF MaxPathDarts
<1>1. PICK more : more = BestOfPaths(sets[n + 1])
  OBVIOUS
<1>2. more \in Seq(sets[n + 1]) /\ (more # <<>> <=> sets[n + 1] # {})
  BY <1>0, <1>1, BestAre
<1> DEFINE U == {p \in UNION {sets[m] : m \in 1..n + 1} : TRUE}
<1>3. \A m \in 1..n + 1 : sets[m] \subseteq U
  OBVIOUS
<1>4. \A p \in U : \E m \in 1..n + 1 : p \in sets[m]
  OBVIOUS
<1> HIDE DEF U
<1>5. more \in Seq(U)
  <2>1. n + 1 \in 1..n + 1
    BY <1>0
  <2> QED BY <1>2, <1>3, <2>1, SeqMonotonic
<1>6. best \in Seq(U) /\ Len(best) \in Nat
  <2>1. \A j \in 1..Len(best) : best[j] \in U
    <3>1. \A m \in 1..n : m \in 1..n + 1
      BY <1>0
    <3> QED BY <1>3, <3>1 DEF Lists
  <2>2. PICK S : best \in Seq(S)
    BY DEF Lists, IsSeq
  <2>3. Len(best) \in Nat /\ best = [j \in 1..Len(best) |-> best[j]]
    BY <2>2, LenProperties
  <2>4. PICK k \in Nat : k = Len(best)
    BY <2>3
  <2>5. best \in [1..k -> U]
    BY <2>1, <2>3, <2>4
  <2> QED BY <2>3, <2>5, SeqDef
<1>7. PICK both : both = best \o more
  OBVIOUS
<1>8. both \in Seq(U) /\ Len(both) = Len(best) + Len(more) /\ Len(more) \in Nat
  BY <1>5, <1>6, <1>7, ConcatProperties, LenProperties
<1>9. PICK len \in Nat : len = Len(both)
  BY <1>6, <1>8
<1>10. PICK k : k = IF len < 3 THEN len ELSE 3
  OBVIOUS
<1>11. k \in 0..len /\ (k = 0 <=> len = 0)
  BY <1>9, <1>10
<1>12. PICK list : list = SubSeq(both, 1, k)
  OBVIOUS
<1>13. list \in Seq(U) /\ Len(list) = k
  <2>1. \A i \in 1..k : both[i] \in U
    <3>1. \A i \in 1..k : i \in 1..len
      BY <1>9, <1>11
    <3> QED BY <1>8, <1>9, <3>1, ElementOfSeq
  <2>2. k \in Int /\ 1 \in Int
    BY <1>11
  <2>3. list \in Seq(U) /\ Len(list) = IF 1 <= k THEN k - 1 + 1 ELSE 0
    BY <1>12, <2>1, <2>2, SubSeqProperties
  <2>4. (IF 1 <= k THEN k - 1 + 1 ELSE 0) = k
    BY <1>9, <1>11
  <2> QED BY <2>3, <2>4
<1>14. JoinStep(best, sets[n + 1]) = list
  BY <1>1, <1>7, <1>9, <1>10, <1>12 DEF JoinStep, PathsPerEntry
<1>15. \A j \in 1..Len(list) : \E m \in 1..n + 1 : list[j] \in sets[m]
  BY <1>4, <1>13, ElementOfSeq
<1>16. list # <<>> <=> len # 0
  BY <1>11, <1>13, EmptySeq
<1>17. len # 0 <=> best # <<>> \/ more # <<>>
  <2>1. Len(best) = 0 <=> best = <<>>
    BY <1>6, EmptySeq
  <2>2. Len(more) = 0 <=> more = <<>>
    BY <1>5, EmptySeq
  <2>3. len = 0 <=> Len(best) = 0 /\ Len(more) = 0
    BY <1>6, <1>8, <1>9
  <2> QED BY <2>1, <2>2, <2>3
<1>18. best # <<>> \/ more # <<>> <=> \E m \in 1..n + 1 : sets[m] # {}
  <2>1. \A m \in 1..n + 1 : m \in 1..n \/ m = n + 1
    BY <1>0
  <2>2. \A m \in 1..n : m \in 1..n + 1
    BY <1>0
  <2>3. n + 1 \in 1..n + 1
    BY <1>0
  <2> QED BY <1>2, <2>1, <2>2, <2>3 DEF Lists
<1> QED BY <1>13, <1>14, <1>15, <1>16, <1>17, <1>18 DEF Lists, IsSeq
Joined(f, sets) ==
    f = [i \in 0..Len(sets) |-> IF i = 0 THEN <<>> ELSE JoinStep(f[i - 1], sets[i])]

(* The best of the paths of one dart up to n are among them.               *)
LEMMA BestFirstLists ==
    ASSUME NEW n \in 1..MaxPathDarts, NEW sets, Len(sets) = n,
           \A m \in 1..n : sets[m] \in SUBSET PathsLong(m)
    PROVE  Lists(BestFirst(sets), sets, n)
<1>0. n \in 1..3
  BY DEF MaxPathDarts
<1>1. PICK b1, b2, b3 : /\ b1 = JoinStep(<<>>, sets[1]) /\ b2 = JoinStep(b1, sets[2])
                        /\ b3 = JoinStep(b2, sets[3])
  OBVIOUS
<1>2. \E f : Joined(f, sets)
  <2> DEFINE f == [i \in 0..n |-> IF i = 0 THEN <<>> ELSE IF i = 1 THEN b1
                                  ELSE IF i = 2 THEN b2 ELSE b3]
  <2>1. \A i \in 0..n : f[i] = IF i = 0 THEN <<>> ELSE IF i = 1 THEN b1
                               ELSE IF i = 2 THEN b2 ELSE b3
    OBVIOUS
  <2>2. f = [i \in 0..n |-> f[i]]
    OBVIOUS
  <2> HIDE DEF f
  <2>3. ASSUME NEW i \in 0..n
        PROVE  f[i] = IF i = 0 THEN <<>> ELSE JoinStep(f[i - 1], sets[i])
    <3>1. CASE i = 0
      BY <2>1, <3>1
    <3>2. CASE i = 1
      <4>1. i - 1 = 0 /\ 0 \in 0..n
        BY <1>0, <3>2
      <4> QED BY <1>1, <2>1, <3>2, <4>1
    <3>3. CASE i = 2
      <4>1. i - 1 = 1 /\ 1 \in 0..n
        BY <1>0, <3>3
      <4> QED BY <1>1, <2>1, <3>3, <4>1
    <3>4. CASE i = 3
      <4>1. i - 1 = 2 /\ 2 \in 0..n
        BY <1>0, <3>4
      <4> QED BY <1>1, <2>1, <3>4, <4>1
    <3>5. i \in {0, 1, 2, 3}
      BY <1>0
    <3> QED BY <3>1, <3>2, <3>3, <3>4, <3>5
  <2>4. f = [i \in 0..n |-> IF i = 0 THEN <<>> ELSE JoinStep(f[i - 1], sets[i])]
    BY <2>2, <2>3, Zenon
  <2> QED BY <2>4 DEF Joined
<1> DEFINE best == CHOOSE f : Joined(f, sets)
<1>3. Joined(best, sets)
  BY <1>2
<1>4. BestFirst(sets) = best[n]
  BY DEF BestFirst, Joined, JoinStep
<1> HIDE DEF best
<1>5. /\ best[0] = <<>>
      /\ \A i \in 0..n - 1 : best[i + 1] = JoinStep(best[i], sets[i + 1])
  <2>1. \A i \in 0..n : best[i] = IF i = 0 THEN <<>> ELSE JoinStep(best[i - 1], sets[i])
    BY <1>3, Zenon DEF Joined
  <2>2. \A i \in 0..n - 1 : i + 1 \in 0..n /\ i + 1 # 0 /\ i + 1 - 1 = i
    BY <1>0
  <2>3. 0 \in 0..n
    BY <1>0
  <2> QED BY <2>1, <2>2, <2>3
<1> DEFINE T == {i \in 0..n : Lists(best[i], sets, i)}
<1>6. 0 \in T
  <2>1. Lists(<<>>, sets, 0)
    BY EmptyIsSeq DEF Lists
  <2> QED BY <1>0, <1>5, <2>1
<1>7. ASSUME NEW i \in 0..n - 1, i \in T
      PROVE  i + 1 \in T
  <2>1. i \in 0..MaxPathDarts - 1 /\ i + 1 \in 1..n
    BY <1>0 DEF MaxPathDarts
  <2>2. PICK b : b = best[i]
    OBVIOUS
  <2>3. Lists(b, sets, i)
    BY <1>7, <2>2
  <2>4. Lists(JoinStep(b, sets[i + 1]), sets, i + 1)
    BY <2>1, <2>3, JoinStepLists
  <2> QED BY <1>5, <2>1, <2>2, <2>4
<1> HIDE DEF T
<1>8. 0..n \subseteq T
  BY <1>0, <1>6, <1>7, UpTo
<1>9. n \in T
  BY <1>0, <1>8
<1> QED BY <1>4, <1>9 DEF T

(* What is suggested is some of the paths there are, and some if there are *)
(* any; nothing above the table's top.                                     *)
LEMMA SuggestLists ==
    ASSUME NEW rule \in X01Rule, NEW n \in 1..MaxPathDarts, NEW r \in 1..TopScore,
           NEW hint, hint = Suggest(r, n, rule)
    PROVE  /\ IsSeq(hint)
           /\ \A j \in 1..Len(hint) : \E m \in 1..n : hint[j] \in PathsOf(m)[rule][r]
           /\ hint # <<>> <=> \E m \in 1..n : PathsOf(m)[rule][r] # {}
<1>0. n \in 1..3
  BY DEF MaxPathDarts
<1>1. PICK one, two, three : /\ one = OneDart[rule][r] /\ two = TwoDarts[rule][r]
                             /\ three = ThreeDarts[rule][r]
  OBVIOUS
<1>2. PICK sets : sets = SubSeq(<<one, two, three>>, 1, n)
  OBVIOUS
<1>3. hint = BestFirst(sets)
  <2>1. hint = CheckoutTable[rule][n][r]
    BY DEF Suggest
  <2>2. CheckoutTable[rule][n][r] =
          BestFirst(SubSeq(<<OneDart[rule][r], TwoDarts[rule][r], ThreeDarts[rule][r]>>, 1, n))
    BY DEF CheckoutTable
  <2> QED BY <1>1, <1>2, <2>1, <2>2
<1>4. Len(sets) = n /\ \A m \in 1..n : sets[m] = PathsOf(m)[rule][r]
  <2>1. PICK all : all = <<one, two, three>>
    OBVIOUS
  <2>2. all[1] = one /\ all[2] = two /\ all[3] = three
    BY <2>1
  <2>3. \A m \in 1..3 : all[m] = PathsOf(m)[rule][r]
    <3>1. \A m \in 1..3 : m = 1 \/ m = 2 \/ m = 3
      OBVIOUS
    <3> QED BY <1>1, <2>2, <3>1 DEF PathsOf
  <2>4. PICK S : S = {one, two, three}
    OBVIOUS
  <2>5. n \in Int /\ 1 \in Int /\ \A i \in 1..n : all[i] \in S
    <3>1. \A i \in 1..n : i = 1 \/ i = 2 \/ i = 3
      BY <1>0
    <3> QED BY <1>0, <2>2, <2>4, <3>1
  <2>6. /\ Len(sets) = (IF 1 <= n THEN n - 1 + 1 ELSE 0)
        /\ \A i \in 1..n - 1 + 1 : sets[i] = all[1 + i - 1]
    BY <1>2, <2>1, <2>5, SubSeqProperties
  <2>7. /\ (IF 1 <= n THEN n - 1 + 1 ELSE 0) = n
        /\ \A i \in 1..n : i \in 1..n - 1 + 1 /\ 1 + i - 1 = i /\ i \in 1..3
    BY <1>0
  <2> QED BY <2>3, <2>6, <2>7
<1>5. \A m \in 1..n : sets[m] \in SUBSET PathsLong(m)
  <2>1. \A m \in 1..n : m \in 1..MaxPathDarts
    BY <1>0 DEF MaxPathDarts
  <2>2. r \in 0..TopScore
    BY TopScoreAssumption
  <2> QED BY <1>4, <2>1, <2>2, PathsAreLong
<1>6. Lists(hint, sets, n)
  BY <1>3, <1>4, <1>5, BestFirstLists
<1> QED BY <1>4, <1>6 DEF Lists
-----------------------------------------------------------------------------
(* The length of a sequence and its domain.                                *)
LEMMA IsSeqLen ==
    ASSUME NEW s, IsSeq(s)
    PROVE  Len(s) \in Nat /\ DOMAIN s = 1..Len(s)
BY LenProperties DEF IsSeq

(* The darts of the visits before v.                                       *)
Earlier(visits, v) == Total(Lengths(visits), 1..v - 1)

Shaped(visits) ==
    /\ IsSeq(visits)
    /\ \A v \in 1..Len(visits) : /\ IsSeq(visits[v].darts)
                                 /\ Len(visits[v].darts) \in 1..DartsPerVisit

(* The darts before each visit are those before the one before it, and its *)
(* own.                                                                    *)
LEMMA EarlierIs ==
    ASSUME NEW visits, Shaped(visits)
    PROVE  /\ Earlier(visits, 1) = 0
           /\ \A v \in 1..Len(visits) + 1 : Earlier(visits, v) \in Nat
           /\ \A v \in 1..Len(visits) :
                Earlier(visits, v + 1) = Earlier(visits, v) + Len(visits[v].darts)
<1>1. PICK n \in Nat : n = Len(visits)
  BY IsSeqLen DEF Shaped
<1>w. PICK w : w = Lengths(visits)
  OBVIOUS
<1>2. \A v \in 1..n : w[v] = Len(visits[v].darts) /\ w[v] \in Nat
  BY <1>1, <1>w DEF Shaped, Lengths, DartsPerVisit
<1>3. \A v \in 1..n + 1 : IsFiniteSet(1..v - 1) /\ \A x \in 1..v - 1 : w[x] \in Int
  BY <1>2, FS_Interval
<1>4. Earlier(visits, 1) = 0
  <2>1. 1..1 - 1 = {}
    OBVIOUS
  <2>2. Total(w, {}) = 0
    BY <1>3, <2>1, TotalOf
  <2> QED BY <1>w, <2>1, <2>2 DEF Earlier
<1>5. ASSUME NEW v \in 1..n
      PROVE  Earlier(visits, v + 1) = Earlier(visits, v) + w[v]
  <2>1. PICK upto : upto = 1..v
    OBVIOUS
  <2>2. v + 1 \in 1..n + 1 /\ v + 1 - 1 = v /\ v \in upto /\ upto \ {v} = 1..v - 1
    BY <2>1
  <2>3. IsFiniteSet(upto) /\ \A x \in upto : w[x] \in Int
    <3>1. PICK u \in 1..n + 1 : u = v + 1
      BY <2>2
    <3>2. IsFiniteSet(1..u - 1) /\ \A x \in 1..u - 1 : w[x] \in Int
      BY <1>3, <3>1
    <3>3. 1..u - 1 = upto
      BY <2>1, <3>1
    <3> QED BY <3>2, <3>3
  <2>4. Total(w, upto) = w[v] + Total(w, upto \ {v})
    BY <2>2, <2>3, TotalOf
  <2>5. v \in 1..n + 1 /\ Total(w, 1..v - 1) \in Int
    BY <1>3, TotalOf
  <2>6. PICK a \in Int, b \in Int : a = Total(w, 1..v - 1) /\ b = w[v]
    BY <1>2, <2>5
  <2>7. 1..v + 1 - 1 = upto
    BY <2>1, <2>2
  <2>8. Earlier(visits, v + 1) = Total(w, upto) /\ Earlier(visits, v) = a
    BY <1>w, <2>6, <2>7 DEF Earlier
  <2>9. Total(w, upto) = b + a
    BY <2>2, <2>4, <2>6
  <2> QED BY <2>6, <2>8, <2>9
<1> DEFINE T == {v \in 0..n : Earlier(visits, v + 1) \in Nat}
<1>6. 0 \in T
  BY <1>4
<1>7. ASSUME NEW v \in 0..n - 1, v \in T
      PROVE  v + 1 \in T
  <2>1. v + 1 \in 1..n /\ v + 1 \in 0..n
    OBVIOUS
  <2>2. PICK a \in Nat, b \in Nat : a = Earlier(visits, v + 1) /\ b = w[v + 1]
    BY <1>2, <1>7, <2>1
  <2>3. Earlier(visits, v + 1 + 1) = a + b
    BY <1>5, <2>1, <2>2
  <2> QED BY <2>1, <2>2, <2>3
<1>8. \A v \in 0..n : v \in T
  <2> HIDE DEF T
  <2> QED BY <1>6, <1>7, UpTo
<1>9. ASSUME NEW v \in 1..n + 1
      PROVE  Earlier(visits, v) \in Nat
  <2>1. v - 1 \in 0..n /\ v - 1 + 1 = v
    OBVIOUS
  <2>2. Earlier(visits, v - 1 + 1) \in Nat
    BY <1>8, <2>1
  <2> QED BY <2>1, <2>2
<1> QED BY <1>1, <1>2, <1>4, <1>5, <1>9

(* The visits up to any one of them begin before it does.                  *)
LEMMA EarlierGrows ==
    ASSUME NEW visits, Shaped(visits), NEW v \in 1..Len(visits) + 1, NEW w \in 1..v - 1
    PROVE  Earlier(visits, w) + Len(visits[w].darts) <= Earlier(visits, v)
<1>1. PICK n \in Nat : n = Len(visits)
  BY IsSeqLen DEF Shaped
<1>2. \A u \in 1..n : Len(visits[u].darts) \in Nat
  BY <1>1 DEF Shaped, DartsPerVisit
<1>3. /\ \A u \in 1..n + 1 : Earlier(visits, u) \in Nat
      /\ \A u \in 1..n : Earlier(visits, u + 1) = Earlier(visits, u) + Len(visits[u].darts)
  BY <1>1, EarlierIs
<1> DEFINE T == {m \in 0..n : \A u \in 1..m :
                    Earlier(visits, u) + Len(visits[u].darts) <= Earlier(visits, m + 1)}
<1>4. 0 \in T
  OBVIOUS
<1>5. ASSUME NEW m \in 0..n - 1, m \in T
      PROVE  m + 1 \in T
  <2>1. m + 1 \in 1..n /\ m + 1 \in 1..n + 1 /\ m + 1 + 1 \in 1..n + 1 /\ m + 1 \in 0..n
    OBVIOUS
  <2>2. PICK a \in Nat, b \in Nat, c \in Nat :
            a = Earlier(visits, m + 1) /\ b = Len(visits[m + 1].darts)
            /\ c = Earlier(visits, m + 1 + 1)
    BY <1>2, <1>3, <2>1
  <2>3. c = a + b
    BY <1>3, <2>1, <2>2
  <2>4. ASSUME NEW u \in 1..m + 1
          PROVE  Earlier(visits, u) + Len(visits[u].darts) <= c
    <3>1. CASE u = m + 1
      BY <2>2, <2>3, <3>1
    <3>2. CASE u # m + 1
      <4>1. u \in 1..m /\ u \in 1..n /\ u \in 1..n + 1
        BY <3>2
      <4>2. PICK e \in Nat, f \in Nat : e = Earlier(visits, u) /\ f = Len(visits[u].darts)
        BY <1>2, <1>3, <4>1
      <4>3. e + f <= a
        BY <1>5, <2>2, <4>1, <4>2
      <4>4. e + f <= c
        <5> HIDE DEF T
        <5>1. a <= c
          BY <2>2, <2>3
        <5> QED BY <2>2, <4>2, <4>3, <5>1
      <4> QED BY <4>2, <4>4
    <3> QED BY <3>1, <3>2
  <2> QED BY <2>1, <2>2, <2>4
<1>6. \A m \in 0..n : m \in T
  <2> HIDE DEF T
  <2> QED BY <1>4, <1>5, UpTo
<1>7. v - 1 \in 0..n /\ v - 1 + 1 = v
  BY <1>1
<1>8. v - 1 \in T
  BY <1>6, <1>7
<1>9. Earlier(visits, w) + Len(visits[w].darts) <= Earlier(visits, v - 1 + 1)
  BY <1>8
<1> QED BY <1>7, <1>9

(* They are told by the lengths of the earlier visits.                     *)
LEMMA SameEarlier ==
    ASSUME NEW a, NEW b, NEW v \in Nat \ {0}, Len(a) \in Nat, Len(b) \in Nat,
           v - 1 <= Len(a), v - 1 <= Len(b),
           \A w \in 1..v - 1 : Len(a[w].darts) = Len(b[w].darts)
    PROVE  Earlier(a, v) = Earlier(b, v)
<1>1. \A w \in 1..v - 1 : w \in 1..Len(a) /\ w \in 1..Len(b)
  OBVIOUS
<1>2. PICK x, y : x = Lengths(a) /\ y = Lengths(b)
  OBVIOUS
<1>3. \A w \in 1..v - 1 : x[w] = y[w]
  BY <1>1, <1>2 DEF Lengths
<1>4. Total(x, 1..v - 1) = Total(y, 1..v - 1)
  <2>1. PICK s : s = 1..v - 1
    OBVIOUS
  <2>2. IsFiniteSet(s)
    BY <2>1, FS_Interval
  <2>3. Total(x, s) = Total(y, s)
    BY <1>3, <2>1, <2>2, SameTotal
  <2> QED BY <2>1, <2>3
<1> QED BY <1>2, <1>4 DEF Earlier
-----------------------------------------------------------------------------
(***************************************************************************)
(* Which throw each dart of a visit is, and what it did on the board: the  *)
(* replay judges the throws of the record in their order, one by one.      *)
(***************************************************************************)
(* What the darts of an x01 visit say was thrown.                          *)
LEMMA X01SaysThrown ==
    ASSUME NEW state, NEW throws, Len(throws) \in Nat, NEW cfg,
           NEW visit, visit = X01ApplyVisit(state, throws, cfg)
    PROVE  \A j \in 1..Len(visit.darts) : visit.darts[j].throw = throws[j]
<1>1. PICK run : X01Run(run, state, throws, cfg)
  BY X01VisitRuns
<1> DEFINE T == {i \in 0..Len(throws) :
                    \A j \in 1..Len(run[i].darts) : run[i].darts[j].throw = throws[j]}
<1>2. 0 \in T
  <2>1. run[0].darts = <<>>
    BY <1>1 DEF X01Run, X01Start
  <2>2. PICK k : k = Len(run[0].darts) /\ k = 0
    BY <2>1, EmptyIsSeq
  <2>3. \A j \in 1..Len(run[0].darts) : run[0].darts[j].throw = throws[j]
    BY <2>2
  <2> QED BY <2>3
<1>3. ASSUME NEW i \in 0..Len(throws) - 1, i \in T
      PROVE  i + 1 \in T
  <2>1. run[i + 1] = X01Step(run[i], throws[i + 1], cfg)
    BY <1>1 DEF X01Run
  <2>2. CASE Ended(run[i])
    BY <1>3, <2>1, <2>2 DEF X01Step
  <2>3. CASE ~Ended(run[i])
    <3>1. PICK dart : dart = X01ApplyDart(run[i].state, throws[i + 1], cfg)
      OBVIOUS
    <3>2. dart.throw = throws[i + 1]
      BY <3>1 DEF X01ApplyDart, DartOutcome
    <3>3. run[i + 1].darts = Append(run[i].darts, dart)
      BY <2>1, <2>3, <3>1 DEF X01Step, AddX01Dart
    <3>4. IsSeq(run[i].darts) /\ Len(run[i].darts) = i
      <4>1. X01Taken(run, i)
        BY <1>1, X01Takes
      <4> QED BY <2>3, <4>1 DEF X01Taken, HasLength
    <3>5. Grown(run[i + 1].darts, run[i].darts, dart)
      BY <3>3, <3>4, SeqGrows
    <3>6. /\ Len(run[i + 1].darts) = i + 1 /\ run[i + 1].darts[i + 1] = dart
          /\ \A j \in 1..i : run[i + 1].darts[j] = run[i].darts[j]
      BY <3>4, <3>5 DEF Grown
    <3>7. \A j \in 1..i + 1 : j = i + 1 \/ j \in 1..i
      OBVIOUS
    <3>8. \A j \in 1..i + 1 : run[i + 1].darts[j].throw = throws[j]
      BY <1>3, <3>2, <3>4, <3>6, <3>7
    <3> QED BY <3>6, <3>8
  <2> QED BY <2>2, <2>3
<1> HIDE DEF T
<1>4. 0..Len(throws) \subseteq T
  BY <1>2, <1>3, UpTo
<1>5. PICK end : end = run[Len(throws)] /\ visit = FinalX01(state, end)
  BY <1>1 DEF X01Run
<1>6. \A j \in 1..Len(end.darts) : end.darts[j].throw = throws[j]
  <2>1. Len(throws) \in T
    BY <1>4
  <2> QED BY <1>5, <2>1 DEF T
<1>7. X01Taken(run, Len(throws))
  BY <1>1, X01Takes
<1>8. FinalIs(visit, end)
  BY <1>5, <1>7, FinalX01Is DEF X01Taken
<1>9. ASSUME NEW j \in 1..Len(visit.darts), end.bust # NoBust
      PROVE  visit.darts[j].throw = throws[j]
  <2>1. PICK dart : dart = end.darts[j] /\ visit.darts[j] = [dart EXCEPT !.counted = FALSE]
    BY <1>8, <1>9 DEF FinalIs
  <2>2. j \in 1..Len(end.darts)
    BY <1>8 DEF FinalIs
  <2>3. \A h \in 0..Len(throws) : \A g \in 1..Len(run[h].darts) : X01DartShape(run[h].darts[g])
    BY <1>1, X01DartsAreShaped
  <2>4. Len(throws) \in 0..Len(throws)
    OBVIOUS
  <2>5. X01DartShape(dart)
    BY <1>5, <2>1, <2>2, <2>3, <2>4
  <2>6. visit.darts[j].throw = dart.throw
    BY <2>1, <2>5 DEF X01DartShape
  <2> QED BY <1>6, <2>1, <2>2, <2>6
<1> QED BY <1>6, <1>8, <1>9 DEF FinalIs

(* What a dart of cricket says: the target it landed on, if any, and that  *)
(* its marks and its surplus are what was thrown at it.                    *)
CricketSays(dart, t) ==
    IF t.segment \in Targets
    THEN /\ dart.target = t.segment
         /\ dart.marks \in Nat /\ dart.surplus \in Nat /\ dart.marks + dart.surplus = t.multiplier
    ELSE dart.target = NoTarget /\ dart.marks = 0 /\ dart.surplus = 0

(* One dart of cricket says so.                                            *)
LEMMA CricketDartSays ==
    ASSUME NEW N \in Nat \ {0}, NEW states, CricketOK(states, N), NEW team \in 0..N - 1,
           NEW t, IsLegalThrow(t), NEW variant,
           NEW dart, dart = CricketApplyDart(states, team, t, variant)
    PROVE  CricketSays(dart, t)
<1>1. CASE t.segment \notin Targets
  <2>1. dart = [states |-> states, target |-> NoTarget, marks |-> 0, surplus |-> 0,
                awards |-> {}, wasted |-> FALSE, win |-> FALSE]
    BY <1>1 DEF CricketApplyDart
  <2>2. dart.target = NoTarget /\ dart.marks = 0 /\ dart.surplus = 0
    BY <2>1
  <2> QED BY <1>1, <2>2 DEF CricketSays
<1>2. CASE t.segment \in Targets
  <2>1. PICK g \in Targets, m \in 0..3 : g = t.segment /\ m = t.multiplier
    BY <1>2 DEF IsLegalThrow
  <2>2. PICK have \in 0..MarksToClose : have = states[team].marks[g]
    BY DEF CricketOK
  <2>3. PICK room, surplus, marks, paid :
            /\ room = MarksToClose - have /\ surplus = IF m <= room THEN 0 ELSE m - room
            /\ marks = m - surplus
            /\ paid = IF surplus = 0 THEN {} ELSE Recipients(states, team, g, variant)
    OBVIOUS
  <2>4. marks \in 0..3 /\ surplus \in Nat
    BY <2>2, <2>3, MarksAndSurplus
  <2>5. PICK after : after = Paid(states, team, g, marks, surplus, paid)
    OBVIOUS
  <2>6. dart = TargetOutcome(after, team, g, marks, surplus, paid, variant)
    BY <1>2, <2>1, <2>2, <2>3, <2>5 DEF CricketApplyDart
  <2>7. dart.target = g /\ dart.marks = marks /\ dart.surplus = surplus
    BY <2>6 DEF TargetOutcome
  <2>8. marks + surplus = m
    BY <2>3, <2>4
  <2> QED BY <1>2, <2>1, <2>4, <2>7, <2>8 DEF CricketSays
<1> QED BY <1>1, <1>2

(* And the darts of a visit of it, each of the throw in its place.         *)
LEMMA CricketSaysThrown ==
    ASSUME NEW N \in Nat \ {0}, NEW states, CricketOK(states, N), NEW team \in 0..N - 1,
           NEW throws, Len(throws) \in Nat, \A i \in 1..Len(throws) : IsLegalThrow(throws[i]),
           NEW variant, NEW visit, visit = CricketApplyVisit(states, team, throws, variant)
    PROVE  \A j \in 1..Len(visit.darts) : CricketSays(visit.darts[j], throws[j])
<1>1. PICK run : CricketRun(run, states, team, throws, variant)
  BY CricketVisitRuns
<1> DEFINE T == {i \in 0..Len(throws) :
                    /\ CricketOK(run[i].states, N)
                    /\ \A j \in 1..Len(run[i].darts) : CricketSays(run[i].darts[j], throws[j])}
<1>2. 0 \in T
  <2>1. run[0].darts = <<>> /\ run[0].states = states
    BY <1>1 DEF CricketRun, CricketStart
  <2>2. PICK k : k = Len(run[0].darts) /\ k = 0
    BY <2>1, EmptyIsSeq
  <2>3. \A j \in 1..Len(run[0].darts) : CricketSays(run[0].darts[j], throws[j])
    BY <2>2
  <2> QED BY <2>1, <2>3
<1>3. ASSUME NEW i \in 0..Len(throws) - 1, i \in T
      PROVE  i + 1 \in T
  <2>1. PICK m : m = i + 1 /\ m \in 0..Len(throws)
    OBVIOUS
  <2>2. run[m] = CricketStep(run[i], team, throws[m], variant)
    <3>1. m \in 1..Len(throws) /\ m - 1 = i
      BY <2>1
    <3> QED BY <1>1, <3>1 DEF CricketRun
  <2>3. CASE run[i].won
    <3>1. run[m] = run[i]
      BY <2>2, <2>3 DEF CricketStep
    <3>2. m \in T
      BY <1>3, <2>1, <3>1
    <3> QED BY <2>1, <3>2
  <2>4. CASE ~run[i].won
    <3>1. PICK mid, t, dart : /\ mid = run[i].states
                              /\ t = throws[m] /\ dart = CricketApplyDart(mid, team, t, variant)
      OBVIOUS
    <3>2. CricketOK(mid, N)
      BY <1>3, <3>1
    <3>3. IsLegalThrow(t)
      BY <2>1, <3>1
    <3>4. CricketSays(dart, t)
      BY <3>1, <3>2, <3>3, CricketDartSays
    <3>10. CricketDartTally(dart, mid, team, N)
      BY <3>1, <3>2, <3>3, CricketDartTallies
    <3>5. run[m].darts = Append(run[i].darts, dart) /\ run[m].states = dart.states
      BY <2>2, <2>4, <3>1 DEF CricketStep, AddCricketDart
    <3>6. IsSeq(run[i].darts) /\ Len(run[i].darts) = i
      <4>1. CricketTaken(run, i)
        BY <1>1, CricketTakes
      <4> QED BY <2>4, <4>1 DEF CricketTaken, HasLength
    <3>7. Grown(run[m].darts, run[i].darts, dart)
      BY <3>5, <3>6, SeqGrows
    <3>8. /\ Len(run[m].darts) = m /\ run[m].darts[m] = dart
          /\ \A j \in 1..i : run[m].darts[j] = run[i].darts[j]
      BY <2>1, <3>6, <3>7 DEF Grown
    <3>9. \A j \in 1..m : j = m \/ j \in 1..i
      BY <2>1
    <3>11. \A j \in 1..m : CricketSays(run[m].darts[j], throws[j])
      BY <1>3, <3>1, <3>4, <3>6, <3>8, <3>9
    <3>12. CricketOK(run[m].states, N)
      BY <3>5, <3>10 DEF CricketDartTally
    <3>13. m \in T
      BY <2>1, <3>8, <3>11, <3>12
    <3> QED BY <2>1, <3>13
  <2> QED BY <2>3, <2>4
<1> HIDE DEF T
<1>4. 0..Len(throws) \subseteq T
  BY <1>2, <1>3, UpTo
<1>5. Len(throws) \in T
  BY <1>4
<1> QED BY <1>1, <1>5 DEF T, CricketRun
-----------------------------------------------------------------------------
(* What a dart of either game says of the throw it was.                    *)
Says(rules, dart, t) == IF rules.game = "x01" THEN dart.throw = t ELSE CricketSays(dart, t)

(* The darts of the visits are those of the record, in order.              *)
Sourced(leg, rules, darts) ==
    /\ Shaped(leg.visits) /\ Earlier(leg.visits, Len(leg.visits) + 1) = leg.offset
    /\ \A v \in 1..Len(leg.visits) : \A j \in 1..Len(leg.visits[v].darts) :
          Says(rules, leg.visits[v].darts[j], darts[Earlier(leg.visits, v) + j])

(* The darts of a visit played are the next of the record.                 *)
LEMMA PlayedSays ==
    ASSUME NEW S, Legal(S), NEW darts \in Seq(S), NEW rules, NEW members, NEW N \in Nat \ {0},
           NEW leg, leg.active \in 0..N - 1, rules.game # "x01" => CricketOK(leg.teams, N),
           NEW next, NEW throws \in Seq(S), NEW outcome, NEW visit,
           Played(next, rules, members, darts, leg, throws, outcome, visit)
    PROVE  /\ IsSeq(visit.darts) /\ Len(visit.darts) \in 1..DartsPerVisit
           /\ \A j \in 1..Len(visit.darts) : Says(rules, visit.darts[j], darts[leg.offset + j])
<1>1. PICK n \in Nat : n = Len(throws) /\ \A i \in 1..n : IsLegalThrow(throws[i])
  BY LenProperties, ElementOfSeq DEF Legal
<1>2. /\ visit.darts = outcome.darts /\ IsSeq(outcome.darts) /\ Len(outcome.darts) \in 1..n
      /\ outcome = VisitOutcome(rules, leg.teams, leg.active, throws)
  BY <1>1 DEF Played, Takes, Gained, VisitMade
<1>3. n \in 1..DartsPerVisit /\ \A i \in 1..n : throws[i] = darts[leg.offset + i]
  BY <1>1 DEF Played, NextOf
<1>4. \A j \in 1..Len(outcome.darts) : Says(rules, outcome.darts[j], throws[j])
  <2>1. CASE rules.game = "x01"
    <3>1. PICK state, end : state = leg.teams[leg.active] /\ end = X01ApplyVisit(state, throws, rules)
      OBVIOUS
    <3>2. outcome.darts = end.darts
      BY <1>2, <2>1, <3>1 DEF VisitOutcome, X01Outcome
    <3>3. \A j \in 1..Len(end.darts) : end.darts[j].throw = throws[j]
      BY <1>1, <3>1, X01SaysThrown
    <3> QED BY <2>1, <3>2, <3>3 DEF Says
  <2>2. CASE rules.game # "x01"
    <3>0. PICK team \in 0..N - 1 : team = leg.active
      OBVIOUS
    <3>1. PICK states, variant, end :
              /\ states = leg.teams /\ variant = rules.variant
              /\ end = CricketApplyVisit(states, team, throws, variant)
      OBVIOUS
    <3>2. outcome.darts = end.darts
      BY <1>2, <2>2, <3>0, <3>1 DEF VisitOutcome, CricketOutcome
    <3>3. \A j \in 1..Len(end.darts) : CricketSays(end.darts[j], throws[j])
      BY <1>1, <2>2, <3>1, CricketSaysThrown
    <3> QED BY <2>2, <3>2, <3>3 DEF Says
  <2> QED BY <2>1, <2>2
<1>5. PICK m, d : d = outcome.darts /\ m = Len(d) /\ m \in 1..n
  BY <1>2
<1>6. m \in 1..DartsPerVisit
  <2>1. n \in 1..3 /\ m \in 1..n
    BY <1>3, <1>5 DEF DartsPerVisit
  <2>2. m \in 1..3
    BY <2>1
  <2> QED BY <2>2 DEF DartsPerVisit
<1>7. ASSUME NEW j \in 1..m
      PROVE  Says(rules, d[j], darts[leg.offset + j])
  <2>1. j \in 1..n
    BY <1>5
  <2>2. throws[j] = darts[leg.offset + j]
    BY <1>3, <2>1
  <2> QED BY <1>4, <1>5, <2>2
<1> QED BY <1>2, <1>5, <1>6, <1>7

(* So they are once a visit has been added.                                *)
LEMMA GainedIsSourced ==
    ASSUME NEW leg, NEW rules, NEW darts, Sourced(leg, rules, darts), NEW next, NEW visit,
           Grown(next.visits, leg.visits, visit), next.offset = leg.offset + Len(visit.darts),
           IsSeq(visit.darts), Len(visit.darts) \in 1..DartsPerVisit,
           \A j \in 1..Len(visit.darts) : Says(rules, visit.darts[j], darts[leg.offset + j])
    PROVE  Sourced(next, rules, darts)
<1>0. PICK n \in Nat : n = Len(leg.visits)
  BY DEF Grown
<1>1. PICK a, b, k :
          /\ a = leg.visits /\ b = next.visits /\ n = Len(a) /\ k = n + 1
          /\ IsSeq(b) /\ Len(b) = k /\ b[k] = visit /\ \A v \in 1..n : b[v] = a[v]
  BY <1>0 DEF Grown
<1>2. \A v \in 1..k : v = k \/ v \in 1..n
  BY <1>1
<1>3. Shaped(b)
  BY <1>1, <1>2 DEF Sourced, Shaped
<1>4. ASSUME NEW v \in 1..k
      PROVE  Earlier(b, v) = Earlier(a, v)
  <2>1. v \in Nat \ {0} /\ v - 1 <= n /\ v - 1 <= k /\ \A w \in 1..v - 1 : w \in 1..n
    BY <1>1
  <2>2. \A w \in 1..v - 1 : Len(b[w].darts) = Len(a[w].darts)
    BY <1>1, <2>1
  <2>3. Len(a) \in Nat /\ Len(b) \in Nat /\ v - 1 <= Len(a) /\ v - 1 <= Len(b)
    BY <1>1, <2>1
  <2> QED BY <2>1, <2>2, <2>3, SameEarlier
<1>5. Earlier(b, k) = leg.offset /\ leg.offset \in Nat
  <2>1. k \in 1..k
    BY <1>1
  <2>2. Earlier(b, k) = Earlier(a, k) /\ Earlier(b, k) \in Nat
    BY <1>1, <1>3, <1>4, <2>1, EarlierIs
  <2> QED BY <1>1, <2>2 DEF Sourced
<1>6. Earlier(b, k + 1) = next.offset
  <2>1. k \in 1..Len(b)
    BY <1>1
  <2>2. Earlier(b, k + 1) = Earlier(b, k) + Len(b[k].darts)
    BY <1>3, <2>1, EarlierIs
  <2> QED BY <1>1, <1>5, <2>2
<1>7. ASSUME NEW v \in 1..k, NEW j \in 1..Len(b[v].darts)
      PROVE  Says(rules, b[v].darts[j], darts[Earlier(b, v) + j])
  <2>1. CASE v = k
    BY <1>1, <1>5, <2>1
  <2>2. CASE v \in 1..n
    BY <1>1, <1>4, <2>2 DEF Sourced
  <2> QED BY <1>2, <2>1, <2>2
<1> QED BY <1>1, <1>3, <1>6, <1>7 DEF Sourced

(* Every stage of the replay of a leg judges the darts of the record.      *)
LEMMA StagesAreSourced ==
    ASSUME NEW S, Legal(S), NEW darts \in Seq(S), NEW rules, NEW members,
           NEW N, Seats(members, N), NEW starter \in 0..N - 1, NEW leg,
           Stages(leg, rules, members, starter, darts)
    PROVE  \A i \in 0..Len(darts) : Sourced(leg[i], rules, darts)
<1>1. PICK n \in Nat : n = Len(darts) /\ N \in Nat \ {0}
  BY LenProperties DEF Seats
<1> DEFINE T == {i \in 0..n : Sourced(leg[i], rules, darts)}
<1>2. 0 \in T
  <2>1. leg[0].visits = <<>> /\ leg[0].offset = 0
    BY DEF Stages, Opening
  <2>2. PICK v, k : v = leg[0].visits /\ k = Len(v) /\ k = 0 /\ IsSeq(v)
    BY <2>1, EmptyIsSeq
  <2>3. Shaped(v)
    BY <2>2 DEF Shaped
  <2>4. Earlier(v, k + 1) = 0
    BY <2>2, <2>3, EarlierIs
  <2> QED BY <2>1, <2>2, <2>3, <2>4 DEF Sourced
<1>3. ASSUME NEW i \in 0..n - 1, i \in T
      PROVE  i + 1 \in T
  <2>1. i + 1 \in 0..n
    OBVIOUS
  <2>2. leg[i + 1] = LegStep(rules, members, darts, leg[i])
    BY <1>1 DEF Stages
  <2>3. CASE UsedUp(leg[i], n)
    <3>1. leg[i + 1] = leg[i]
      BY <1>1, <2>2, <2>3 DEF LegStep, UsedUp
    <3> QED BY <1>3, <2>1, <3>1
  <2>4. CASE ~UsedUp(leg[i], n)
    <3>1. PICK before, next : before = leg[i] /\ next = leg[i + 1]
      OBVIOUS
    <3>2. LegOK(before, Len(darts)) /\ RotaInv(before, starter, members, N)
      <4>1. \A h \in 0..Len(darts) : LegOK(leg[h], Len(darts))
        BY StagesAreOK
      <4>2. \A h \in 0..Len(darts) : RotaInv(leg[h], starter, members, N)
        BY StagesGoRound
      <4>3. i \in 0..Len(darts)
        BY <1>1
      <4> QED BY <3>1, <4>1, <4>2, <4>3
    <3>3. /\ ~before.refused /\ before.offset # Len(darts)
          /\ next = PlayVisit(rules, members, darts, before)
          /\ Sourced(before, rules, darts)
      BY <1>1, <1>3, <2>2, <2>4, <3>1, <3>2 DEF LegStep, UsedUp, LegOK
    <3>4. CASE Refusal(next, before)
      <4>1. next.visits = before.visits /\ next.offset = before.offset
        BY <3>4 DEF Refusal
      <4>2. Sourced(next, rules, darts)
        BY <3>3, <4>1 DEF Sourced
      <4> QED BY <2>1, <3>1, <4>2
    <3>5. ASSUME NEW throws \in Seq(S), NEW outcome, NEW visit,
                 Played(next, rules, members, darts, before, throws, outcome, visit)
          PROVE  i + 1 \in T
      <4>1. before.active \in 0..N - 1
        <5>1. \E q, r : Rota(before, starter, N, q, r)
          BY <3>2, <3>3 DEF LegOK, RotaInv
        <5> QED BY <5>1 DEF Rota
      <4>2. rules.game # "x01" => CricketOK(before.teams, N)
        <5> SUFFICES ASSUME rules.game # "x01"
                     PROVE  CricketOK(before.teams, N)
          OBVIOUS
        <5>1. \A h \in 0..Len(darts) : CricketInv(leg[h], N)
          BY StagesKeepMarks
        <5>2. i \in 0..Len(darts)
          BY <1>1
        <5> QED BY <3>1, <5>1, <5>2 DEF CricketInv
      <4>3. /\ IsSeq(visit.darts) /\ Len(visit.darts) \in 1..DartsPerVisit
            /\ \A j \in 1..Len(visit.darts) : Says(rules, visit.darts[j], darts[before.offset + j])
        BY <1>1, <3>5, <4>1, <4>2, PlayedSays
      <4>4. Grown(next.visits, before.visits, visit) /\ next.offset = before.offset + Len(visit.darts)
        BY <3>5 DEF Played, Gained, VisitMade
      <4>5. Sourced(next, rules, darts)
        BY <3>3, <4>3, <4>4, GainedIsSourced
      <4> QED BY <2>1, <3>1, <4>5
    <3> QED BY <3>2, <3>3, <3>4, <3>5, PlayVisitIs
  <2> QED BY <2>3, <2>4
<1> HIDE DEF T
<1>4. 0..n \subseteq T
  BY <1>2, <1>3, UpTo
<1> QED BY <1>1, <1>4 DEF T

(* So the replay of a leg judges its darts, in order.                      *)
LEMMA ReplayIsSourced ==
    ASSUME NEW S, Legal(S), NEW darts \in Seq(S), NEW rules, NEW members,
           NEW N, Seats(members, N), NEW starter \in 0..N - 1
    PROVE  Sourced(LegReplay(rules, members, starter, darts), rules, darts)
<1>1. PICK n \in Nat : n = Len(darts)
  BY LenProperties
<1>2. PICK leg : Stages(leg, rules, members, starter, darts)
  BY <1>1, LegHasStages
<1>3. Sourced(leg[n], rules, darts)
  <2>1. n \in 0..n
    OBVIOUS
  <2> QED BY <1>1, <1>2, <2>1, StagesAreSourced
<1> QED BY <1>1, <1>2, <1>3 DEF Stages

(* Whose a visit is: a member of a team that plays.                        *)
Manned(visits, members, N) ==
    \A v \in 1..Len(visits) : /\ visits[v].team \in 0..N - 1
                              /\ visits[v].member \in 0..members[visits[v].team] - 1

(* So each visit is that of somebody there.                                *)
LEMMA ReplayIsManned ==
    ASSUME NEW S, NEW darts \in Seq(S), NEW rules, NEW members, NEW N, Seats(members, N),
           \A s \in 0..N - 1 : members[s] \in Nat \ {0}, NEW starter \in 0..N - 1
    PROVE  Manned(LegReplay(rules, members, starter, darts).visits, members, N)
<1>1. PICK n \in Nat : n = Len(darts)
  BY LenProperties
<1>2. PICK leg : Stages(leg, rules, members, starter, darts)
  BY <1>1, LegHasStages
<1>3. RotaInv(leg[n], starter, members, N) /\ LegOK(leg[n], n)
  <2>1. n \in 0..n
    OBVIOUS
  <2> QED BY <1>1, <1>2, <2>1, StagesGoRound, StagesAreOK
<1>4. PICK visits : visits = leg[n].visits /\ Len(visits) \in Nat
  BY <1>3, LenProperties DEF LegOK, IsSeq
<1>5. ASSUME NEW v \in 1..Len(visits)
      PROVE  visits[v].team \in 0..N - 1 /\ visits[v].member \in 0..members[visits[v].team] - 1
  <2>1. PICK team, member : team = visits[v].team /\ member = visits[v].member
    OBVIOUS
  <2>2. team = (starter + v - 1) % N /\ member = ((v - 1) \div N) % members[team]
    BY <1>3, <1>4, <2>1 DEF RotaInv, InTurn
  <2>3. \A a \in Int, b \in Nat \ {0} : a % b \in 0..b - 1 /\ a \div b \in Int
    OBVIOUS
  <2>4. starter + v - 1 \in Int /\ v - 1 \in Int /\ N \in Nat \ {0}
    BY <1>4 DEF Seats
  <2>5. team \in 0..N - 1
    BY <2>2, <2>3, <2>4
  <2>6. (v - 1) \div N \in Int /\ members[team] \in Nat \ {0}
    BY <2>3, <2>4, <2>5
  <2>7. member \in 0..members[team] - 1
    BY <2>2, <2>3, <2>6
  <2> QED BY <2>1, <2>5, <2>7
<1> QED BY <1>1, <1>2, <1>4, <1>5 DEF Stages, Manned

(* A team that has yet to open has scored nothing.                         *)
LEMMA UnopenedIsAtStart ==
    ASSUME NEW leg, NEW rules, X01Rules(rules), NEW N, X01Inv(leg, rules, N), IsSeq(leg.visits),
           NEW team \in 0..N - 1, ~leg.teams[team].open
    PROVE  rules.in_rule # "straight" /\ leg.teams[team].remaining = rules.start
<1>1. Standing(leg, rules, team)
  BY DEF X01Inv
<1>2. PICK n \in Nat : n = Len(leg.visits)
  BY IsSeqLen
<1>3. /\ rules.in_rule # "straight"
      /\ \A v \in 1..n : ~ScoredIn(leg.visits, team, v)
  BY <1>1, <1>2 DEF Standing
<1>4. ASSUME NEW v \in 1..n, leg.visits[v].team = team
      PROVE  VisitWorth(leg.visits[v]) = 0
  <2>0. VisitSound(leg.visits[v])
    BY <1>2 DEF X01Inv
  <2>1. PICK visit, m : visit = leg.visits[v] /\ m = Len(visit.darts) /\ m \in Nat
    BY <2>0, IsSeqLen DEF VisitSound
  <2>2. \A j \in 1..m : visit.darts[j].counted = FALSE
    BY <1>2, <1>3, <1>4, <2>0, <2>1 DEF ScoredIn, SomeCounted, VisitSound, Judged
  <2>3. PICK w : w = Worths(visit.darts)
    OBVIOUS
  <2>4. \A j \in 1..m : w[j] = 0
    BY <2>1, <2>2, <2>3 DEF Worths, Worth
  <2>5. IsFiniteSet(1..m)
    BY <2>1, FS_Interval
  <2> QED BY <2>1, <2>3, <2>4, <2>5, TotalZero DEF VisitWorth
<1>5. PICK w : w = TeamWorths(leg.visits, team)
  OBVIOUS
<1>6. \A v \in 1..n : w[v] = 0
  BY <1>2, <1>4, <1>5 DEF TeamWorths
<1>7. Total(w, 1..n) = 0
  <2>1. IsFiniteSet(1..n)
    BY <1>2, FS_Interval
  <2> QED BY <1>6, <2>1, TotalZero
<1>8. rules.start - leg.teams[team].remaining = 0 /\ leg.teams[team].remaining \in Nat
  BY <1>1, <1>2, <1>5, <1>7 DEF Standing, X01StateOK
<1> QED BY <1>3, <1>8 DEF X01Rules

(* A leg with a dart more was not won without it, if the engine takes it.  *)
LEMMA NotWonBefore ==
    ASSUME NEW S, NEW darts \in Seq(S), NEW longer \in Seq(S), Extends(longer, darts),
           NEW rules, NEW members, NEW starter,
           ~LegReplay(rules, members, starter, longer).refused
    PROVE  LegReplay(rules, members, starter, darts).winner = NoTeam
<1>1. PICK leg, more : /\ leg = LegReplay(rules, members, starter, darts)
                       /\ more = LegReplay(rules, members, starter, longer)
  OBVIOUS
<1>2. Opened(leg, more, rules, members, darts, longer)
      \/ Continued(leg, more, rules, members, darts, longer)
  BY <1>1, ReplayGrows DEF Ahead
<1>3. CASE Opened(leg, more, rules, members, darts, longer)
  <2>1. PICK before : Alike(leg, before) /\ Unfinished(before, Len(longer))
    BY <1>3 DEF Opened
  <2>2. before.winner = NoTeam
    BY <2>1 DEF Unfinished, UsedUp, LegOK, Going
  <2> QED BY <1>1, <2>1, <2>2 DEF Alike
<1>4. CASE Continued(leg, more, rules, members, darts, longer)
  BY <1>1, <1>4 DEF Continued, Played, Gained
<1> QED BY <1>2, <1>3, <1>4

(* The dart that wins a leg: what was left was what it scores, it finishes *)
(* under the out-rule, and it opens the leg if nothing had.                *)
WinningDart(state, t, rules) ==
    /\ state.remaining \in 1..rules.start /\ state.remaining = Score(t)
    /\ Satisfies(rules.out_rule, t)
    /\ state.open \in BOOLEAN
    /\ ~state.open => rules.in_rule # "straight" /\ state.remaining = rules.start

(* So is the last dart of every leg of x01 that is won.                    *)
LEMMA X01WonByDart ==
    ASSUME NEW S, Legal(S), NEW darts \in Seq(S), NEW longer \in Seq(S), Extends(longer, darts),
           NEW rules, X01Rules(rules), rules.start # 0,
           NEW members, NEW N, Seats(members, N), NEW starter \in 0..N - 1,
           NEW leg, leg = LegReplay(rules, members, starter, darts),
           NEW more, more = LegReplay(rules, members, starter, longer),
           ~more.refused, more.winner # NoTeam
    PROVE  WinningDart(leg.teams[more.winner], longer[Len(darts) + 1], rules)
<1>1. leg.winner = NoTeam
  BY NotWonBefore
<1>2. OnTurn(leg, rules, N)
  BY <1>1, X01OnTurn
<1>a. PICK a \in 0..N - 1 : a = leg.active
  BY <1>2 DEF OnTurn
<1>3. PICK state, t : state = leg.teams[a] /\ t = longer[Len(darts) + 1]
  OBVIOUS
<1>4. PICK dart : dart = X01ApplyDart(state, t, rules)
  OBVIOUS
<1>5. X01Next(leg, more, rules, dart)
  BY <1>1, <1>a, <1>3, <1>4, X01OneMore
<1>6. dart.checkout /\ more.winner = a
  BY <1>a, <1>3, <1>5 DEF X01Next
<1>7. X01StateOK(state) /\ state.remaining \in 1..rules.start
  BY <1>2, <1>a, <1>3 DEF OnTurn
<1>8. X01DartSays(dart, state, t, rules)
  BY <1>4, <1>7, X01DartIs
<1>9. Satisfies(rules.out_rule, t) /\ state.remaining - Score(t) = 0
  BY <1>6, <1>8 DEF X01DartSays
<1>10. Score(t) \in Nat
  <2>1. IsLegalThrow(t)
    BY <1>a, <1>3, ElementOfSeq DEF Legal, Extends
  <2> QED BY <2>1, ScoreIsNat
<1>11. X01Inv(leg, rules, N) /\ IsSeq(leg.visits)
  BY ReplayKeepsScores, ReplayIsOK DEF LegOK
<1>12. ~state.open => rules.in_rule # "straight" /\ state.remaining = rules.start
  BY <1>a, <1>3, <1>11, UnopenedIsAtStart
<1> QED BY <1>a, <1>3, <1>6, <1>7, <1>9, <1>10, <1>12 DEF WinningDart, X01StateOK

(* No throw scores more than a treble twenty.                              *)
LEMMA ScoreIsBounded ==
    ASSUME NEW t, IsLegalThrow(t)
    PROVE  Score(t) \in 0..60
<1>1. PICK g \in 0..25, m \in 0..3 :
          g = t.segment /\ m = t.multiplier /\ (m = 3 => g <= 20)
  BY DEF IsLegalThrow, Miss, Bull
<1>2. g * 0 = 0 /\ g * 1 = g /\ g * 2 = g + g /\ g * 3 = g + g + g
  BY <1>1
<1>3. m = 0 \/ m = 1 \/ m = 2 \/ m = 3
  BY <1>1
<1>4. g * m \in 0..60
  BY <1>1, <1>2, <1>3
<1> QED BY <1>1, <1>4 DEF Score

(* A dart that finishes could have been meant to.                          *)
LEMMA FinishIsAttempt ==
    ASSUME NEW t, IsLegalThrow(t), NEW rule \in X01Rule, Satisfies(rule, t),
           Score(t) \in 1..TopScore
    PROVE  WasCheckoutAttempt(Score(t), rule)
<1>1. PICK g, m, u : g = t.segment /\ m = t.multiplier /\ u = [segment |-> g, multiplier |-> m]
  OBVIOUS
<1>2. u.segment = g /\ u.multiplier = m
  BY <1>1
<1>3. u \in AllThrows
  <2>1. IsLegalThrow(u)
    BY <1>1, <1>2 DEF IsLegalThrow
  <2>2. g \in 0..25 /\ m \in 0..3
    BY <1>1 DEF IsLegalThrow, Miss, Bull
  <2> QED BY <1>1, <2>1, <2>2 DEF AllThrows
<1>4. PICK r : r = Score(t) /\ r = Score(u) /\ r \in 1..TopScore /\ r \in 0..TopScore
  BY <1>1, <1>2, TopScoreAssumption DEF Score
<1>5. u \in ScoringThrows
  BY <1>3, <1>4 DEF ScoringThrows
<1>6. Finishes(rule, u)
  BY <1>1, <1>2 DEF Finishes, Satisfies, IsDouble, IsTriple, X01Rule
<1>7. <<u>> \in PathsOf(1)[rule][r]
  BY <1>4, <1>5, <1>6, PathsOfAre DEF EndsPath
<1>8. 1 \in 1..MaxPathDarts /\ 1 \in 1..1
  BY DEF MaxPathDarts
<1>9. Suggest(r, 1, rule) # <<>>
  <2>1. PICK n, hint : n = 1 /\ hint = Suggest(r, n, rule)
    OBVIOUS
  <2>2. n \in 1..MaxPathDarts /\ n \in 1..n
    BY <1>8, <2>1
  <2>3. PathsOf(n)[rule][r] # {}
    BY <1>7, <2>1
  <2>4. hint # <<>>
    BY <1>4, <2>1, <2>2, <2>3, SuggestLists
  <2> QED BY <2>1, <2>4
<1> QED BY <1>4, <1>9 DEF WasCheckoutAttempt, IsCheckable
=============================================================================
