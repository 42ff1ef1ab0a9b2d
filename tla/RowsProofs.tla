------------------------------ MODULE RowsProofs ------------------------------
(***************************************************************************)
(* What holds of the rows kept beside the darts, of the verifier that reads *)
(* them, and of the requests that answer from them, for every game, match  *)
(* and number of overtaking writes.  In order: the rows of one leg, and    *)
(* what a dart or an undo does to them; the caches of a match; the rows of *)
(* a match, which the verifier finds nothing in and misses nothing of; the *)
(* requests and the rebuild sweep; the tables' constraints and the cricket *)
(* rows; what the requests are answered with; and the reports.             *)
(***************************************************************************)
EXTENDS CacheSweep, Statistics, PlayServiceProofs, ReplayProofs

(* The rows of visit v, and of dart i of it, that the replay would leave:  *)
(* `prior' are the teams just before the dart.                             *)
VisitRow(visits, v) ==
    [team       |-> visits[v].team,
     member     |-> visits[v].member,
     team_visit |-> Cardinality({w \in 1..v - 1 : visits[w].team = visits[v].team}),
     verdict    |-> VisitVerdict(visits[v])]

DartRow(visit, v, i, prior) ==
    [visit   |-> v,
     index   |-> i,
     flags   |-> DartFlags(visit, i, prior[visit.team]),
     cricket |-> CricketRows(visit, i)]

Prior(starter, darts, s) == LegAfter(starter, SubSeq(darts, 1, s - 1)).teams

(* Dart s of the leg is dart i of visit v.                                 *)
Lies(visits, s, v, i) ==
    v \in 1..Len(visits) /\ i \in 1..Len(visits[v].darts) /\ s = i + Earlier(visits, v)

Covers(visits, n) == Shaped(visits) /\ Earlier(visits, Len(visits) + 1) = n

VisitsRight(stored, visits) ==
    /\ IsSeq(stored) /\ Len(stored) = Len(visits)
    /\ \A v \in 1..Len(visits) : stored[v] = VisitRow(visits, v)

DartRight(row, visits, starter, darts, s) ==
    \E v, i : /\ Lies(visits, s, v, i)
              /\ row = DartRow(visits[v], v, i, Prior(starter, darts, s))

DartsRight(stored, visits, starter, darts) ==
    /\ IsSeq(stored) /\ Len(stored) = Len(darts)
    /\ \A s \in 1..Len(darts) : DartRight(stored[s], visits, starter, darts, s)

RowRight(row, starter, darts) ==
    /\ Covers(LegAfter(starter, darts).visits, Len(darts))
    /\ VisitsRight(row.visits, LegAfter(starter, darts).visits)
    /\ DartsRight(row.darts, LegAfter(starter, darts).visits, starter, darts)
-----------------------------------------------------------------------------
(* A function of 1..n is a sequence.                                       *)
LEMMA FunIsSeq ==
    ASSUME NEW n \in Nat, NEW f, f = [i \in 1..n |-> f[i]]
    PROVE  IsSeq(f) /\ Len(f) = n
<1>1. PICK S : S = {f[i] : i \in 1..n}
    OBVIOUS
<1>2. f \in [1..n -> S]
    BY <1>1
<1>3. f \in Seq(S)
    BY <1>2, SeqDef
<1>4. Len(f) \in Nat /\ DOMAIN f = 1..Len(f) /\ DOMAIN f = 1..n
    BY <1>2, <1>3, LenProperties
<1>5. Len(f) = n
    BY <1>4
<1> QED
    BY <1>3, <1>5 DEF IsSeq

(* A sequence without its last element.                                    *)
LEMMA FrontIs ==
    ASSUME NEW s, IsSeq(s), NEW n \in Nat, Len(s) = n + 1
    PROVE  /\ IsSeq(FrontOf(s)) /\ Len(FrontOf(s)) = n
           /\ \A i \in 1..n : FrontOf(s)[i] = s[i]
<1>1. PICK S : s \in Seq(S)
    BY DEF IsSeq
<1>2. \A i \in 1..n + 1 : s[i] \in S
    BY <1>1, ElementOfSeq
<1>3. FrontOf(s) = SubSeq(s, 1, n)
    BY DEF FrontOf
<1>4. \A i \in 1..n : s[i] \in S
    BY <1>2
<1> QED
    BY <1>1, <1>3, <1>4, SubSeqProperties DEF IsSeq

(* A dart of the leg is one dart of one visit.                             *)
LEMMA LiesOnce ==
    ASSUME NEW visits, Shaped(visits), NEW s, NEW v, NEW i, NEW w, NEW j,
           Lies(visits, s, v, i), Lies(visits, s, w, j)
    PROVE  v = w /\ i = j
<1>1. PICK n \in Nat : n = Len(visits)
    BY IsSeqLen DEF Shaped
<1>2. ASSUME NEW x \in 1..n, NEW y \in 1..n, NEW a \in 1..Len(visits[x].darts),
             NEW b \in 1..Len(visits[y].darts), a + Earlier(visits, x) = b + Earlier(visits, y)
      PROVE  ~(x < y)
    <2>1. SUFFICES ASSUME x < y PROVE FALSE
        OBVIOUS
    <2>2. x \in 1..y - 1 /\ y \in 1..n + 1 /\ x \in 1..n + 1
        BY <2>1
    <2>3. Earlier(visits, x) + Len(visits[x].darts) <= Earlier(visits, y)
        BY <1>1, <2>2, EarlierGrows
    <2>4. PICK e \in Nat, f \in Nat, l \in Nat :
            e = Earlier(visits, x) /\ f = Earlier(visits, y) /\ l = Len(visits[x].darts)
        BY <1>1, <2>2, EarlierIs DEF Shaped, DartsPerVisit
    <2>5. a \in 1..l /\ b \in Nat /\ b > 0
        BY <1>1, <2>4 DEF Shaped, DartsPerVisit
    <2>6. e + l <= f /\ a + e = b + f
        BY <1>2, <2>3, <2>4
    <2> QED
        BY <2>4, <2>5, <2>6
<1>3. v \in 1..n /\ w \in 1..n /\ i \in 1..Len(visits[v].darts) /\ j \in 1..Len(visits[w].darts)
      /\ i + Earlier(visits, v) = j + Earlier(visits, w)
    BY <1>1 DEF Lies
<1>4. ~(v < w) /\ ~(w < v)
    BY <1>2, <1>3
<1>5. v = w
    BY <1>3, <1>4
<1>6. v \in 1..n + 1
    BY <1>3
<1>7. PICK e \in Nat, l \in Nat : e = Earlier(visits, v) /\ l = Len(visits[v].darts)
    BY <1>1, <1>3, <1>6, EarlierIs DEF Shaped, DartsPerVisit
<1>8. i \in 1..l /\ j \in 1..l /\ i + e = j + e
    BY <1>3, <1>5, <1>7
<1> QED
    BY <1>5, <1>8

-----------------------------------------------------------------------------
(* The teams before a dart do not depend on the darts after it.            *)
LEMMA PriorIs ==
    ASSUME NEW S, NEW darts \in Seq(S), NEW longer \in Seq(S), Extends(longer, darts),
           NEW starter
    PROVE  /\ \A s \in 1..Len(darts) : Prior(starter, longer, s) = Prior(starter, darts, s)
           /\ Prior(starter, longer, Len(darts) + 1) = LegAfter(starter, darts).teams
<1>1. PICK n \in Nat : n = Len(darts) /\ Len(longer) = n + 1
    BY DEF Extends
<1>2. \A i \in 1..n : longer[i] = darts[i]
    BY <1>1 DEF Extends
<1>3. ASSUME NEW m \in 0..n
      PROVE  SubSeq(longer, 1, m) = SubSeq(darts, 1, m)
    <2>1. m \in Nat /\ m <= n /\ m <= n + 1 /\ \A i \in 1..m : longer[i] = darts[i]
        BY <1>2
    <2> QED
        BY <1>1, <2>1, CommonPrefix
<1>4. SubSeq(darts, 1, n) = darts
    <2>1. \A i \in 1..n : darts[i] \in S
        BY <1>1, ElementOfSeq
    <2>2. PICK all : all = SubSeq(darts, 1, n)
        OBVIOUS
    <2>3. all \in Seq(S) /\ HasLength(all, n) /\ \A i \in 1..n : all[i] = darts[i]
        BY <1>1, <2>1, <2>2, SubSeqProperties DEF HasLength
    <2>4. all = darts
        BY <1>1, <2>3, SeqEqual DEF HasLength
    <2> QED
        BY <2>2, <2>4
<1>5. \A s \in 1..n : s - 1 \in 0..n
    OBVIOUS
<1>6. n + 1 - 1 = n /\ n \in 0..n
    OBVIOUS
<1> QED
    <2>1. \A s \in 1..n : Prior(starter, longer, s) = Prior(starter, darts, s)
        BY <1>3, <1>5 DEF Prior
    <2>2. Prior(starter, longer, n + 1) = LegAfter(starter, SubSeq(longer, 1, n)).teams
        BY <1>6 DEF Prior
    <2>3. SubSeq(longer, 1, n) = darts
        BY <1>3, <1>4, <1>6
    <2> QED
        BY <1>1, <2>1, <2>2, <2>3

(* A dart's teams just before it do not depend on the darts after it.      *)
LEMMA SamePrior ==
    ASSUME NEW S, NEW darts \in Seq(S), NEW longer \in Seq(S), Extends(longer, darts),
           NEW starter, NEW s \in 1..Len(darts)
    PROVE  Prior(starter, longer, s) = Prior(starter, darts, s)
<1>1. PICK n \in Nat : n = Len(darts) /\ Len(longer) = n + 1
    BY DEF Extends
<1>2. PICK x : x = s /\ x \in 1..n
    BY <1>1
<1>3. \A y \in 1..n : Prior(starter, longer, y) = Prior(starter, darts, y)
    BY <1>1, PriorIs
<1> QED
    BY <1>2, <1>3

(* A dart that opens a visit: the visits cover one dart more, and each     *)
(* earlier dart lies where it did.                                         *)
NewPlaces(a, b, n) ==
    /\ Covers(a, n) /\ Covers(b, n + 1)
    /\ \A s, v, i : Lies(a, s, v, i) => Lies(b, s, v, i) /\ v \in 1..Len(a)
    /\ \A s \in 1..n : \A v, i : Lies(b, s, v, i) => Lies(a, s, v, i)
    /\ Lies(b, n + 1, Len(b), 1)

(* A dart that opens a visit lies in that visit, the others where they     *)
(* lay.                                                                    *)
LEMMA NewLies ==
    ASSUME NEW a, IsSeq(a), NEW b, NEW visit, Grown(b, a, visit),
           IsSeq(visit.darts), Len(visit.darts) = 1,
           NEW n \in Nat, Covers(a, n) \/ Covers(b, n + 1)
    PROVE  NewPlaces(a, b, n)
<1>1. PICK k \in Nat : k = Len(a)
    BY IsSeqLen
<1>2. Len(b) = k + 1 /\ b[k + 1] = visit /\ IsSeq(b) /\ \A v \in 1..k : b[v] = a[v]
    BY <1>1 DEF Grown
<1>3. Len(b[k + 1].darts) = 1
    BY <1>2
<1>4. \A v \in 1..k + 1 : v = k + 1 \/ v \in 1..k
    OBVIOUS
<1>5. Shaped(a) /\ Shaped(b)
    <2>1. CASE Shaped(a)
        <3>1. \A v \in 1..k + 1 : IsSeq(b[v].darts) /\ Len(b[v].darts) \in 1..DartsPerVisit
            <4>1. 1 \in 1..DartsPerVisit
                BY DEF DartsPerVisit
            <4> QED
                BY <1>1, <1>2, <1>3, <1>4, <2>1, <4>1 DEF Shaped
        <3> QED
            BY <1>2, <2>1, <3>1 DEF Shaped
    <2>2. CASE Shaped(b)
        <3>1. \A v \in 1..k : v \in 1..k + 1
            OBVIOUS
        <3> QED
            BY <1>1, <1>2, <2>2, <3>1 DEF Shaped
    <2> QED
        BY <2>1, <2>2 DEF Covers
<1>6. ASSUME NEW v \in 1..k + 1
      PROVE  Earlier(a, v) = Earlier(b, v)
    <2>1. v \in Nat \ {0} /\ v - 1 <= k /\ v - 1 <= k + 1 /\ \A w \in 1..v - 1 : w \in 1..k
        OBVIOUS
    <2>2. \A w \in 1..v - 1 : Len(a[w].darts) = Len(b[w].darts)
        BY <1>2, <2>1
    <2>3. Len(a) \in Nat /\ Len(b) \in Nat /\ v - 1 <= Len(a) /\ v - 1 <= Len(b)
        BY <1>1, <1>2, <2>1
    <2> QED
        BY <2>1, <2>2, <2>3, SameEarlier
<1>7. k + 1 \in 1..k + 1 /\ k + 1 \in 1..k + 1 + 1
    OBVIOUS
<1>8. PICK e : e = Earlier(b, k + 1) /\ e = Earlier(a, k + 1)
    BY <1>6, <1>7
<1>9. e \in Nat /\ Earlier(b, k + 1 + 1) = e + 1
    <2>1. PICK one : one = Len(b[k + 1].darts) /\ one = 1
        BY <1>3
    <2>2. e \in Nat /\ Earlier(b, k + 1 + 1) = e + one
        <3>1. PICK p : p = k + 1 /\ p \in 1..Len(b) /\ p \in 1..Len(b) + 1
            BY <1>2, <1>7
        <3>2. Earlier(b, p) \in Nat /\ Earlier(b, p + 1) = Earlier(b, p) + Len(b[p].darts)
            BY <1>5, <3>1, EarlierIs
        <3> QED
            BY <1>8, <2>1, <3>1, <3>2
    <2> QED
        BY <2>1, <2>2
<1>10. e = n
    BY <1>1, <1>2, <1>8, <1>9 DEF Covers
<1>11. Covers(a, n) /\ Covers(b, n + 1)
    BY <1>1, <1>2, <1>5, <1>8, <1>9, <1>10 DEF Covers
<1>12. ASSUME NEW s, NEW v, NEW i, Lies(a, s, v, i)
       PROVE  Lies(b, s, v, i) /\ v \in 1..Len(a)
    <2>1. v \in 1..k /\ v \in 1..k + 1
        BY <1>1, <1>12 DEF Lies
    <2> QED
        BY <1>1, <1>2, <1>6, <1>12, <2>1 DEF Lies
<1>13. ASSUME NEW s \in 1..n, NEW v, NEW i, Lies(b, s, v, i)
       PROVE  Lies(a, s, v, i)
    <2>1. v \in 1..k + 1
        BY <1>2, <1>13 DEF Lies
    <2>2. v # k + 1
        <3>1. SUFFICES ASSUME v = k + 1 PROVE FALSE
            OBVIOUS
        <3>2. i \in 1..1 /\ s = i + n
            BY <1>3, <1>8, <1>10, <1>13, <3>1 DEF Lies
        <3> QED
            BY <3>2
    <2>3. v \in 1..k
        BY <2>1, <2>2
    <2> QED
        BY <1>1, <1>2, <1>6, <1>13, <2>1, <2>3 DEF Lies
<1>14. Lies(b, n + 1, Len(b), 1)
    <2>1. 1 \in 1..1 /\ n + 1 = 1 + n
        OBVIOUS
    <2> QED
        BY <1>2, <1>3, <1>7, <1>8, <1>10, <2>1 DEF Lies
<1> QED
    BY <1>11, <1>12, <1>13, <1>14 DEF NewPlaces

(* And a dart that goes on with one: d of its darts were thrown before.    *)
SamePlaces(a, b, n, d) ==
    /\ Covers(a, n) /\ Covers(b, n + 1)
    /\ \A s, v, i : Lies(a, s, v, i) => Lies(b, s, v, i) /\ (v = Len(a) => i \in 1..d)
    /\ \A s \in 1..n : \A v, i : Lies(b, s, v, i) => Lies(a, s, v, i)
    /\ Lies(b, n + 1, Len(b), d + 1)
    /\ n \in 1..n /\ Lies(a, n, Len(a), d)

(* A dart that goes on with a visit lies at its end, the others where they *)
(* lay.                                                                    *)
LEMMA SameLies ==
    ASSUME NEW k \in Nat, NEW a, IsSeq(a), Len(a) = k + 1, NEW b, IsSeq(b), Len(b) = k + 1,
           \A v \in 1..k : b[v] = a[v],
           NEW d \in 1..DartsPerVisit - 1, NEW bust,
           GrownDarts(b[k + 1].darts, a[k + 1].darts, d, bust),
           NEW n \in Nat, Covers(a, n) \/ Covers(b, n + 1)
    PROVE  SamePlaces(a, b, n, d)
<1>1. /\ Len(a[k + 1].darts) = d /\ Len(b[k + 1].darts) = d + 1
      /\ IsSeq(a[k + 1].darts) /\ IsSeq(b[k + 1].darts)
    BY DEF GrownDarts
<1>2. d \in 1..3 /\ d + 1 \in 1..3 /\ d \in Nat
    BY DEF DartsPerVisit
<1>3. \A v \in 1..k + 1 : v = k + 1 \/ v \in 1..k
    OBVIOUS
<1>4. Shaped(a) /\ Shaped(b)
    <2>1. \A v \in 1..k : v \in 1..k + 1
        OBVIOUS
    <2>2. CASE Shaped(a)
        <3>1. \A v \in 1..k + 1 : IsSeq(b[v].darts) /\ Len(b[v].darts) \in 1..DartsPerVisit
            BY <1>1, <1>2, <1>3, <2>1, <2>2 DEF Shaped, DartsPerVisit
        <3> QED
            BY <2>2, <3>1 DEF Shaped
    <2>3. CASE Shaped(b)
        <3>1. \A v \in 1..k + 1 : IsSeq(a[v].darts) /\ Len(a[v].darts) \in 1..DartsPerVisit
            BY <1>1, <1>2, <1>3, <2>1, <2>3 DEF Shaped, DartsPerVisit
        <3> QED
            BY <2>3, <3>1 DEF Shaped
    <2> QED
        BY <2>2, <2>3 DEF Covers
<1>5. ASSUME NEW v \in 1..k + 1
      PROVE  Earlier(a, v) = Earlier(b, v)
    <2>1. v \in Nat \ {0} /\ v - 1 <= k + 1 /\ \A w \in 1..v - 1 : w \in 1..k
        OBVIOUS
    <2>2. \A w \in 1..v - 1 : Len(a[w].darts) = Len(b[w].darts)
        BY <2>1
    <2>3. Len(a) \in Nat /\ Len(b) \in Nat /\ v - 1 <= Len(a) /\ v - 1 <= Len(b)
        BY <2>1
    <2> QED
        BY <2>1, <2>2, <2>3, SameEarlier
<1>6. k + 1 \in 1..k + 1 /\ k + 1 \in 1..k + 1 + 1
    OBVIOUS
<1>7. PICK e : e = Earlier(b, k + 1) /\ e = Earlier(a, k + 1)
    BY <1>5, <1>6
<1>8. e \in Nat /\ Earlier(a, k + 1 + 1) = e + d /\ Earlier(b, k + 1 + 1) = e + (d + 1)
    BY <1>1, <1>4, <1>6, <1>7, EarlierIs
<1>9. n = e + d /\ n + 1 = e + (d + 1)
    <2>1. n = e + d \/ n + 1 = e + (d + 1)
        BY <1>8 DEF Covers
    <2> QED
        BY <1>2, <1>8, <2>1
<1>10. Covers(a, n) /\ Covers(b, n + 1)
    BY <1>4, <1>8, <1>9 DEF Covers
<1>11. ASSUME NEW s, NEW v, NEW i, Lies(a, s, v, i)
       PROVE  Lies(b, s, v, i) /\ (v = Len(a) => i \in 1..d)
    <2>1. v \in 1..k + 1 /\ i \in 1..Len(a[v].darts) /\ s = i + Earlier(b, v)
        BY <1>5, <1>11 DEF Lies
    <2>2. CASE v = k + 1
        <3>1. i \in 1..d /\ i \in 1..d + 1
            BY <1>1, <1>2, <2>1, <2>2
        <3> QED
            BY <1>1, <2>1, <2>2, <3>1 DEF Lies
    <2>3. CASE v \in 1..k
        <3>1. v # k + 1 /\ b[v] = a[v]
            BY <2>3
        <3> QED
            BY <2>1, <3>1 DEF Lies
    <2> QED
        BY <1>3, <2>1, <2>2, <2>3
<1>12. ASSUME NEW s \in 1..n, NEW v, NEW i, Lies(b, s, v, i)
       PROVE  Lies(a, s, v, i)
    <2>1. v \in 1..k + 1 /\ i \in 1..Len(b[v].darts) /\ s = i + Earlier(b, v)
        BY <1>12 DEF Lies
    <2>2. CASE v = k + 1
        <3>1. i \in 1..d + 1 /\ s = i + e
            BY <1>1, <1>7, <2>1, <2>2
        <3>2. i \in 1..d
            BY <1>2, <1>8, <1>9, <3>1
        <3> QED
            BY <1>1, <1>7, <2>2, <2>1, <3>1, <3>2 DEF Lies
    <2>3. CASE v \in 1..k
        BY <1>5, <2>1, <2>3 DEF Lies
    <2> QED
        BY <1>3, <2>1, <2>2, <2>3
<1>13. Lies(b, n + 1, Len(b), d + 1) /\ Lies(a, n, Len(a), d)
    <2>1. d \in 1..d /\ d + 1 \in 1..d + 1 /\ n = d + e /\ n + 1 = d + 1 + e
        BY <1>2, <1>8, <1>9
    <2> QED
        BY <1>1, <1>6, <1>7, <2>1 DEF Lies
<1>14. n \in 1..n
    BY <1>2, <1>8, <1>9
<1> QED
    BY <1>10, <1>11, <1>12, <1>13, <1>14 DEF SamePlaces
-----------------------------------------------------------------------------
(* The row of the last visit is brought up to date, whatever verdict it    *)
(* held, if that began from the same score.                                *)
LEMMA LastWritten ==
    ASSUME NEW k \in Nat, NEW visits, Len(visits) = k + 1,
           NEW stored, IsSeq(stored), Len(stored) = k + 1,
           \A v \in 1..k : stored[v] = VisitRow(visits, v),
           NEW verdict, verdict.before = visits[k + 1].before,
           stored[k + 1] = [VisitRow(visits, k + 1) EXCEPT !.verdict = verdict]
    PROVE  VisitsRight(RestoreVisit(stored, visits[k + 1]), visits)
<1>1. PICK row, visit : row = VisitRow(visits, k + 1) /\ visit = visits[k + 1]
    OBVIOUS
<1>2. row = [team |-> row.team, member |-> row.member, team_visit |-> row.team_visit,
             verdict |-> VisitVerdict(visit)]
    BY <1>1 DEF VisitRow
<1>3. stored[k + 1] = [team |-> row.team, member |-> row.member, team_visit |-> row.team_visit,
                       verdict |-> verdict]
    BY <1>1, <1>2
<1>4. [VisitVerdict(visit) EXCEPT !.before = verdict.before] = VisitVerdict(visit)
    BY <1>1 DEF VisitVerdict
<1>5. PICK new : new = RestoreVisit(stored, visit)
    OBVIOUS
<1>6. stored[k + 1].verdict.before = verdict.before
    BY <1>3
<1>7. new = [stored EXCEPT ![k + 1].verdict = VisitVerdict(visit)]
    BY <1>4, <1>5, <1>6 DEF RestoreVisit
<1>8. DOMAIN stored = 1..k + 1 /\ k + 1 \in 1..k + 1 /\ k + 1 \in Nat
    BY IsSeqLen
<1>9. /\ new = [i \in 1..k + 1 |-> new[i]]
      /\ new[k + 1] = [stored[k + 1] EXCEPT !.verdict = VisitVerdict(visit)]
      /\ \A v \in 1..k : new[v] = stored[v]
    <2>1. PICK p, now : /\ p = k + 1 /\ now = [stored[p] EXCEPT !.verdict = VisitVerdict(visit)]
                        /\ p \in 1..p
        BY <1>8
    <2>2. DOMAIN stored = 1..p /\ stored = [i \in 1..p |-> stored[i]] /\ \A v \in 1..k : v # p
        BY <1>8, <2>1 DEF IsSeq
    <2>3. new = [i \in 1..p |-> IF i = p THEN now ELSE stored[i]]
        BY <1>7, <2>1, <2>2
    <2>4. \A v \in 1..k : v \in 1..p
        BY <2>1
    <2> QED
        BY <2>1, <2>2, <2>3, <2>4
<1>10. new[k + 1] = row
    <2>1. PICK x, y, n, z : /\ row = [team |-> x, member |-> y, team_visit |-> n, verdict |-> z]
                            /\ stored[k + 1] = [team |-> x, member |-> y, team_visit |-> n,
                                                verdict |-> verdict]
                            /\ z = VisitVerdict(visit)
        BY <1>2, <1>3
    <2>2. PICK old : /\ old = stored[k + 1]
                     /\ new[k + 1] = [old EXCEPT !.verdict = z]
        BY <1>9, <2>1
    <2>3. old = [team |-> x, member |-> y, team_visit |-> n, verdict |-> verdict]
        BY <2>1, <2>2
    <2>4. [old EXCEPT !.verdict = z] = row
        BY <2>1, <2>3
    <2> QED
        BY <2>2, <2>4
<1>11. IsSeq(new) /\ Len(new) = k + 1
    BY <1>8, <1>9, FunIsSeq
<1>12. \A v \in 1..k + 1 : v = k + 1 \/ v \in 1..k
    OBVIOUS
<1> QED
    BY <1>1, <1>5, <1>9, <1>10, <1>11, <1>12 DEF VisitsRight

(* The row of a visit tells of earlier visits only whose they were.        *)
LEMMA SameVisitRow ==
    ASSUME NEW a, NEW b, NEW v \in Nat, b[v] = a[v],
           \A w \in 1..v - 1 : b[w].team = a[w].team
    PROVE  VisitRow(b, v) = VisitRow(a, v)
<1>1. {w \in 1..v - 1 : b[w].team = b[v].team} = {w \in 1..v - 1 : a[w].team = a[v].team}
    OBVIOUS
<1> QED
    BY <1>1 DEF VisitRow

(* The visits' rows once a dart has opened a visit.                        *)
LEMMA NewVisitWritten ==
    ASSUME NEW leg, NEW more, NEW visit, Grown(more.visits, leg.visits, visit),
           Len(visit.darts) = 1, IsSeq(leg.visits),
           NEW stored, VisitsRight(stored, leg.visits)
    PROVE  VisitsRight(WriteVisit(stored, more), more.visits)
<1>1. PICK a, b : a = leg.visits /\ b = more.visits
    OBVIOUS
<1>2. PICK k \in Nat : k = Len(a)
    BY <1>1, IsSeqLen
<1>3. /\ IsSeq(b) /\ Len(b) = k + 1 /\ b[k + 1] = visit /\ \A v \in 1..k : b[v] = a[v]
    BY <1>1, <1>2 DEF Grown
<1>4. PICK row : row = [team       |-> visit.team,
                        member     |-> visit.member,
                        team_visit |-> TeamVisits(FrontOf(b), visit.team),
                        verdict    |-> VisitVerdict(visit)]
    OBVIOUS
<1>5. WriteVisit(stored, more) = Append(stored, row)
    BY <1>1, <1>3, <1>4 DEF WriteVisit, LastOf
<1>6. TeamVisits(FrontOf(b), visit.team)
        = Cardinality({w \in 1..k + 1 - 1 : b[w].team = b[k + 1].team})
    <2>1. PICK front : front = FrontOf(b)
        OBVIOUS
    <2>2. IsSeq(front) /\ Len(front) = k /\ \A i \in 1..k : front[i] = b[i]
        BY <1>3, <2>1, FrontIs
    <2>3. DOMAIN front = 1..k
        BY <2>2, IsSeqLen
    <2>4. {i \in DOMAIN front : front[i].team = visit.team}
            = {w \in 1..k + 1 - 1 : b[w].team = b[k + 1].team}
        BY <1>3, <2>2, <2>3
    <2> QED
        BY <2>1, <2>4 DEF TeamVisits
<1>7. row = VisitRow(b, k + 1)
    BY <1>3, <1>4, <1>6 DEF VisitRow
<1>8. IsSeq(stored) /\ Len(stored) = k /\ \A v \in 1..k : stored[v] = VisitRow(a, v)
    BY <1>1, <1>2 DEF VisitsRight
<1>9. ASSUME NEW v \in 1..k
      PROVE  stored[v] = VisitRow(b, v)
    <2>1. \A w \in 1..v - 1 : w \in 1..k
        OBVIOUS
    <2> QED
        BY <1>3, <1>8, <2>1, SameVisitRow
<1>10. PICK new : new = Append(stored, row) /\ Grown(new, stored, row)
    BY <1>8, SeqGrows
<1>11. /\ IsSeq(new) /\ Len(new) = k + 1 /\ new[k + 1] = row
       /\ \A v \in 1..k : new[v] = stored[v]
    BY <1>8, <1>10 DEF Grown
<1>12. \A v \in 1..k + 1 : v = k + 1 \/ v \in 1..k
    OBVIOUS
<1>13. \A v \in 1..k + 1 : new[v] = VisitRow(b, v)
    BY <1>7, <1>9, <1>11, <1>12
<1> QED
    BY <1>1, <1>3, <1>5, <1>10, <1>11, <1>13 DEF VisitsRight

(* The visits' rows when the last visit, `one', is now `other': it began   *)
(* from the same score and belongs to the same thrower.                    *)
LEMMA LastRewritten ==
    ASSUME NEW k \in Nat, NEW a, Len(a) = k + 1, NEW b, Len(b) = k + 1,
           \A v \in 1..k : b[v] = a[v],
           b[k + 1].team = a[k + 1].team, b[k + 1].member = a[k + 1].member,
           b[k + 1].before = a[k + 1].before,
           NEW stored, VisitsRight(stored, a)
    PROVE  VisitsRight(RestoreVisit(stored, b[k + 1]), b)
<1>1. IsSeq(stored) /\ Len(stored) = k + 1 /\ \A v \in 1..k + 1 : stored[v] = VisitRow(a, v)
    BY DEF VisitsRight
<1>2. ASSUME NEW v \in 1..k
      PROVE  stored[v] = VisitRow(b, v)
    <2>1. \A w \in 1..v - 1 : w \in 1..k
        OBVIOUS
    <2>2. VisitRow(b, v) = VisitRow(a, v)
        BY <2>1, SameVisitRow
    <2>3. v \in 1..k + 1
        OBVIOUS
    <2> QED
        BY <1>1, <2>2, <2>3
<1>3. PICK verdict : verdict = VisitVerdict(a[k + 1])
    OBVIOUS
<1>4. verdict.before = b[k + 1].before
    BY <1>3 DEF VisitVerdict
<1>5. VisitRow(a, k + 1) = [VisitRow(b, k + 1) EXCEPT !.verdict = verdict]
    <2>1. {w \in 1..k + 1 - 1 : b[w].team = b[k + 1].team}
            = {w \in 1..k + 1 - 1 : a[w].team = a[k + 1].team}
        OBVIOUS
    <2>2. PICK x, y, n : /\ x = a[k + 1] /\ y = b[k + 1]
                         /\ n = Cardinality({w \in 1..k + 1 - 1 : a[w].team = a[k + 1].team})
        OBVIOUS
    <2>3. VisitRow(a, k + 1) = [team |-> x.team, member |-> x.member, team_visit |-> n,
                                verdict |-> verdict]
        BY <1>3, <2>2 DEF VisitRow
    <2>4. VisitRow(b, k + 1) = [team |-> x.team, member |-> x.member, team_visit |-> n,
                                verdict |-> VisitVerdict(y)]
        <3>1. y.team = x.team /\ y.member = x.member
            BY <2>2
        <3>2. Cardinality({w \in 1..k + 1 - 1 : b[w].team = b[k + 1].team}) = n
            BY <2>1, <2>2
        <3>3. VisitRow(b, k + 1) = [team |-> y.team, member |-> y.member, team_visit |-> n,
                                    verdict |-> VisitVerdict(y)]
            BY <2>2, <3>2 DEF VisitRow
        <3> QED
            BY <3>1, <3>3
    <2> QED
        BY <2>3, <2>4
<1>6. k + 1 \in 1..k + 1
    OBVIOUS
<1>7. stored[k + 1] = [VisitRow(b, k + 1) EXCEPT !.verdict = verdict]
    BY <1>1, <1>5, <1>6
<1> QED
    BY <1>1, <1>2, <1>4, <1>7, LastWritten
-----------------------------------------------------------------------------
(* A dart's row, right but for whether it counts, and that only in the     *)
(* visit now last.                                                         *)
Recounted(row, c) == [row EXCEPT !.flags.counted = c]

DartAlmost(row, visits, starter, darts, s) ==
    \E v, i, c : /\ Lies(visits, s, v, i)
                 /\ row = Recounted(DartRow(visits[v], v, i, Prior(starter, darts, s)), c)
                 /\ v # Len(visits) => c = CountedFlags(visits[v])[i]

DartsAlmost(stored, visits, starter, darts) ==
    /\ IsSeq(stored) /\ Len(stored) = Len(darts)
    /\ \A s \in 1..Len(darts) : DartAlmost(stored[s], visits, starter, darts, s)

(* What a row says but `counted', and how to set that right.               *)
LEMMA Recounts ==
    ASSUME NEW visit, NEW v, NEW i, NEW prior, NEW c, NEW e,
           NEW right, right = DartRow(visit, v, i, prior),
           NEW row, row = Recounted(right, c)
    PROVE  /\ row.visit = v /\ row.index = i
           /\ Recounted(row, e) = Recounted(right, e)
           /\ Recounted(right, CountedFlags(visit)[i]) = right
<1>1. PICK flags, cricket : flags = DartFlags(visit, i, prior[visit.team])
                            /\ cricket = CricketRows(visit, i)
    OBVIOUS
<1>2. right = [visit |-> v, index |-> i, flags |-> flags, cricket |-> cricket]
    BY <1>1 DEF DartRow
<1>3. PICK f, x, y : /\ flags = [counted |-> f, caused_bust |-> x, attempt |-> y]
                     /\ f = CountedFlags(visit)[i]
    BY <1>1 DEF DartFlags
<1>4. \A z : Recounted(right, z) = [visit |-> v, index |-> i, cricket |-> cricket,
                                    flags |-> [counted |-> z, caused_bust |-> x, attempt |-> y]]
    BY <1>2, <1>3 DEF Recounted
<1>5. Recounted(row, e) = [visit |-> v, index |-> i, cricket |-> cricket,
                           flags |-> [counted |-> e, caused_bust |-> x, attempt |-> y]]
    <2>1. row = [visit |-> v, index |-> i, cricket |-> cricket,
                 flags |-> [counted |-> c, caused_bust |-> x, attempt |-> y]]
        BY <1>4
    <2>2. PICK g : g = [counted |-> c, caused_bust |-> x, attempt |-> y]
        OBVIOUS
    <2>3. row = [visit |-> v, index |-> i, cricket |-> cricket, flags |-> g]
        BY <2>1, <2>2
    <2>4. [g EXCEPT !.counted = e] = [counted |-> e, caused_bust |-> x, attempt |-> y]
        BY <2>2
    <2>5. Recounted(row, e) = [visit |-> v, index |-> i, cricket |-> cricket,
                               flags |-> [g EXCEPT !.counted = e]]
        <3>1. PICK h : h = [g EXCEPT !.counted = e]
            OBVIOUS
        <3>2. row.flags = g
            BY <2>3
        <3>3. Recounted(row, e) = [row EXCEPT !.flags = h]
            BY <3>1, <3>2 DEF Recounted
        <3>4. [row EXCEPT !.flags = h] = [visit |-> v, index |-> i, cricket |-> cricket,
                                          flags |-> h]
            BY <2>3
        <3> QED
            BY <3>1, <3>3, <3>4
    <2> QED
        BY <2>4, <2>5
<1>6. row.visit = v /\ row.index = i
    BY <1>4
<1>7. Recounted(right, f) = right
    BY <1>2, <1>3, <1>4
<1> QED
    BY <1>3, <1>4, <1>5, <1>6, <1>7

(* Counting a right row anew changes nothing.                              *)
LEMMA RightCounts ==
    ASSUME NEW visit, NEW v, NEW i, NEW prior, NEW right, right = DartRow(visit, v, i, prior)
    PROVE  Recounted(right, CountedFlags(visit)[i]) = right
<1>1. PICK row : row = Recounted(right, 0)
    OBVIOUS
<1> QED
    BY <1>1, Recounts

(* Rows that are right are right but for what counts.                      *)
LEMMA RightIsAlmost ==
    ASSUME NEW stored, NEW visits, NEW starter, NEW darts,
           DartsRight(stored, visits, starter, darts)
    PROVE  DartsAlmost(stored, visits, starter, darts)
<1>1. ASSUME NEW s \in 1..Len(darts)
      PROVE  DartAlmost(stored[s], visits, starter, darts, s)
    <2>1. PICK v, i : /\ Lies(visits, s, v, i)
                      /\ stored[s] = DartRow(visits[v], v, i, Prior(starter, darts, s))
        BY <1>1 DEF DartsRight, DartRight
    <2>2. PICK c, right, visit, prior :
            /\ c = CountedFlags(visit)[i] /\ visit = visits[v]
            /\ prior = Prior(starter, darts, s) /\ right = DartRow(visit, v, i, prior)
        OBVIOUS
    <2>3. Recounted(right, c) = right
        BY <2>2, RightCounts
    <2> QED
        BY <2>1, <2>2, <2>3 DEF DartAlmost
<1> QED
    BY <1>1 DEF DartsRight, DartsAlmost

(* _sync_counted puts right whatever may be wrong in the last visit.       *)
LEMMA Synced ==
    ASSUME NEW stored, NEW visits, NEW starter, NEW darts,
           DartsAlmost(stored, visits, starter, darts),
           NEW last, last = Len(visits)
    PROVE  DartsRight(SyncCounted(stored, last, CountedFlags(visits[last])),
                      visits, starter, darts)
<1>1. IsSeq(stored) /\ Len(stored) = Len(darts) /\ Len(stored) \in Nat
      /\ DOMAIN stored = 1..Len(stored)
    BY IsSeqLen, SMTT(40) DEF DartsAlmost
<1>2. PICK n \in Nat : n = Len(darts)
    BY <1>1
<1>3. PICK flags, new : flags = CountedFlags(visits[last]) /\ new = SyncCounted(stored, last, flags)
    OBVIOUS
<1>4. new = [s \in 1..n |-> IF stored[s].visit # last THEN stored[s]
                            ELSE Recounted(stored[s], flags[stored[s].index])]
    BY <1>1, <1>2, <1>3 DEF SyncCounted, Recounted
<1>5. IsSeq(new) /\ Len(new) = n
    BY <1>4, FunIsSeq
<1>6. ASSUME NEW s \in 1..n
      PROVE  DartRight(new[s], visits, starter, darts, s)
    <2>1. PICK v, i, c : /\ Lies(visits, s, v, i)
                         /\ stored[s] = Recounted(DartRow(visits[v], v, i, Prior(starter, darts, s)), c)
                         /\ v # last => c = CountedFlags(visits[v])[i]
        BY <1>2, <1>6 DEF DartsAlmost, DartAlmost
    <2>2. PICK right, visit, prior :
            /\ visit = visits[v] /\ prior = Prior(starter, darts, s)
            /\ right = DartRow(visit, v, i, prior)
        OBVIOUS
    <2>3. PICK row, e : row = stored[s] /\ e = flags[i]
        OBVIOUS
    <2>4. row = Recounted(right, c)
        BY <2>1, <2>2, <2>3
    <2>5. /\ row.visit = v /\ row.index = i
          /\ Recounted(row, e) = Recounted(right, e)
          /\ Recounted(right, CountedFlags(visit)[i]) = right
        BY <2>2, <2>4, Recounts
    <2>6. CASE v = last
        <3>1. new[s] = Recounted(row, e)
            BY <1>4, <2>3, <2>5, <2>6
        <3>2. e = CountedFlags(visit)[i]
            BY <1>3, <2>2, <2>3, <2>6
        <3>3. new[s] = right
            BY <2>5, <3>1, <3>2
        <3> QED
            BY <2>1, <2>2, <3>3 DEF DartRight
    <2>7. CASE v # last
        <3>1. new[s] = row
            BY <1>4, <2>3, <2>5, <2>7
        <3>2. row = right
            BY <2>1, <2>2, <2>4, <2>5, <2>7
        <3> QED
            BY <2>1, <2>2, <3>1, <3>2 DEF DartRight
    <2> QED
        BY <2>6, <2>7
<1> QED
    BY <1>2, <1>3, <1>5, <1>6 DEF DartsRight

(* A dart thrown before keeps its judgements as its visit goes on, but     *)
(* that a bust makes it count for nothing.                                 *)
LEMMA JudgedAsBefore ==
    ASSUME NEW visit, NEW open, NEW d \in Nat, WentOn(visit, open, d, IsX01),
           NEW i \in 1..d, NEW v, NEW prior,
           NEW one, one = DartRow(open, v, i, prior), NEW two, two = DartRow(visit, v, i, prior)
    PROVE  /\ one = Recounted(two, CountedFlags(open)[i])
           /\ two = Recounted(one, CountedFlags(visit)[i])
           /\ ~visit.bust => one = two
<1>1. visit.team = open.team /\ GrownDarts(visit.darts, open.darts, d, visit.bust)
    BY DEF WentOn
<1>2. CricketRows(visit, i) = CricketRows(open, i)
    <2>1. CASE IsX01
        BY <2>1 DEF CricketRows
    <2>2. CASE ~IsX01
        <3>1. ~visit.bust
            BY <2>2 DEF WentOn
        <3>2. visit.darts[i] = open.darts[i]
            BY <1>1, <3>1 DEF GrownDarts
        <3> QED
            BY <3>2 DEF CricketRows
    <2> QED
        BY <2>1, <2>2
<1>3. PICK x, y, f, g : /\ DartFlags(open, i, prior[open.team]) =
                             [counted |-> f, caused_bust |-> x, attempt |-> y]
                        /\ DartFlags(visit, i, prior[visit.team]) =
                             [counted |-> g, caused_bust |-> x, attempt |-> y]
                        /\ f = CountedFlags(open)[i] /\ g = CountedFlags(visit)[i]
    <2>1. (IsX01 /\ visit.darts[i].bust # NoBust) = (IsX01 /\ open.darts[i].bust # NoBust)
        <3>1. IsX01 => visit.darts[i].bust = open.darts[i].bust
            BY DEF WentOn, SameBusts
        <3> QED
            BY <3>1
    <2> QED
        BY <1>1, <2>1 DEF DartFlags
<1>4. PICK cricket : cricket = CricketRows(visit, i) /\ cricket = CricketRows(open, i)
    BY <1>2
<1>5. /\ one = [visit |-> v, index |-> i, cricket |-> cricket,
                flags |-> [counted |-> f, caused_bust |-> x, attempt |-> y]]
      /\ two = [visit |-> v, index |-> i, cricket |-> cricket,
                flags |-> [counted |-> g, caused_bust |-> x, attempt |-> y]]
    BY <1>3, <1>4 DEF DartRow
<1>6. one = Recounted(two, f) /\ two = Recounted(one, g)
    BY <1>5 DEF Recounted
<1>7. ~visit.bust => f = g
    <2>1. SUFFICES ASSUME ~visit.bust PROVE f = g
        OBVIOUS
    <2>2. visit.darts[i] = open.darts[i]
        BY <1>1, <2>1 DEF GrownDarts
    <2>3. i \in DOMAIN visit.darts /\ i \in DOMAIN open.darts
        <3>1. /\ IsSeq(visit.darts) /\ IsSeq(open.darts)
              /\ Len(open.darts) = d /\ Len(visit.darts) = d + 1
            BY <1>1 DEF GrownDarts
        <3>2. i \in 1..d + 1
            OBVIOUS
        <3> QED
            BY <3>1, <3>2, IsSeqLen
    <2>4. CountedFlags(visit)[i] = CountedFlags(open)[i]
        BY <2>2, <2>3 DEF CountedFlags
    <2> QED
        BY <1>3, <2>4
<1> QED
    BY <1>3, <1>5, <1>6, <1>7

(* The darts' rows, with that of the dart just thrown.                     *)
LEMMA DartWritten ==
    ASSUME NEW S, NEW darts \in Seq(S), NEW longer \in Seq(S), Extends(longer, darts),
           NEW starter, NEW visits, NEW v, NEW i, Lies(visits, Len(darts) + 1, v, i),
           NEW row, row = DartRow(visits[v], v, i, LegAfter(starter, darts).teams),
           NEW stored, IsSeq(stored), Len(stored) = Len(darts)
    PROVE  /\ (\A s \in 1..Len(darts) : DartRight(stored[s], visits, starter, longer, s))
                => DartsRight(Append(stored, row), visits, starter, longer)
           /\ (\A s \in 1..Len(darts) : DartAlmost(stored[s], visits, starter, longer, s))
                => DartsAlmost(Append(stored, row), visits, starter, longer)
<1>1. PICK n \in Nat : n = Len(darts) /\ Len(longer) = n + 1
    BY DEF Extends
<1>2. PICK new : new = Append(stored, row) /\ Grown(new, stored, row)
    BY SeqGrows
<1>3. /\ IsSeq(new) /\ Len(new) = n + 1 /\ new[n + 1] = row
      /\ \A s \in 1..n : new[s] = stored[s]
    BY <1>1, <1>2 DEF Grown
<1>4. row = DartRow(visits[v], v, i, Prior(starter, longer, n + 1))
    BY <1>1, PriorIs
<1>5. DartRight(new[n + 1], visits, starter, longer, n + 1)
    BY <1>1, <1>3, <1>4 DEF DartRight
<1>6. DartAlmost(new[n + 1], visits, starter, longer, n + 1)
    <2>1. PICK c, visit, prior : /\ c = CountedFlags(visit)[i] /\ visit = visits[v]
                                 /\ prior = Prior(starter, longer, n + 1)
        OBVIOUS
    <2>2. row = DartRow(visit, v, i, prior)
        BY <1>4, <2>1
    <2>3. Recounted(row, c) = row
        BY <2>1, <2>2, RightCounts
    <2>4. row = Recounted(DartRow(visits[v], v, i, Prior(starter, longer, n + 1)), c)
        BY <2>1, <2>2, <2>3
    <2> QED
        BY <1>1, <1>3, <2>1, <2>4 DEF DartAlmost
<1>7. \A s \in 1..n + 1 : s = n + 1 \/ s \in 1..n
    OBVIOUS
<1>8. ASSUME \A s \in 1..n : DartRight(stored[s], visits, starter, longer, s)
      PROVE  DartsRight(new, visits, starter, longer)
    BY <1>1, <1>3, <1>5, <1>7, <1>8 DEF DartsRight
<1>9. ASSUME \A s \in 1..n : DartAlmost(stored[s], visits, starter, longer, s)
      PROVE  DartsAlmost(new, visits, starter, longer)
    BY <1>1, <1>3, <1>6, <1>7, <1>9 DEF DartsAlmost
<1> QED
    BY <1>1, <1>2, <1>8, <1>9

(* Dart by dart, the rows of a leg and of the same leg with a dart more.   *)
LEMMA NewKeepsDart ==
    ASSUME NEW S, NEW darts \in Seq(S), NEW longer \in Seq(S), Extends(longer, darts),
           NEW starter, NEW a, NEW b, NewPlaces(a, b, Len(darts)),
           \A v \in 1..Len(a) : b[v] = a[v],
           NEW s \in 1..Len(darts), NEW row
    PROVE  DartRight(row, a, starter, darts, s) <=> DartRight(row, b, starter, longer, s)
<1>0. Prior(starter, longer, s) = Prior(starter, darts, s)
    BY SamePrior
<1>1. PICK prior : prior = Prior(starter, darts, s) /\ prior = Prior(starter, longer, s)
    BY <1>0
<1>2. \A v, i : Lies(a, s, v, i) <=> Lies(b, s, v, i)
    BY DEF NewPlaces
<1>3. \A v, i : Lies(a, s, v, i) => b[v] = a[v]
    BY DEF NewPlaces
<1> QED
    BY <1>1, <1>2, <1>3 DEF DartRight

Carried(row, a, b, starter, darts, longer, s, bust) ==
    /\ DartRight(row, a, starter, darts, s) =>
          /\ DartAlmost(row, b, starter, longer, s)
          /\ ~bust => DartRight(row, b, starter, longer, s)
    /\ DartRight(row, b, starter, longer, s) => DartAlmost(row, a, starter, darts, s)

(* The darts of a visit that goes on keep their rows but for what counts,  *)
(* and keep that too unless the visit is now bust.                         *)
LEMMA SameKeepsDart ==
    ASSUME NEW S, NEW darts \in Seq(S), NEW longer \in Seq(S), Extends(longer, darts),
           NEW starter, NEW k \in Nat, NEW a, Len(a) = k + 1, NEW b, Len(b) = k + 1,
           \A v \in 1..k : b[v] = a[v],
           NEW d \in Nat, SamePlaces(a, b, Len(darts), d),
           WentOn(b[k + 1], a[k + 1], d, IsX01),
           NEW s \in 1..Len(darts), NEW row
    PROVE  Carried(row, a, b, starter, darts, longer, s, b[k + 1].bust)
<1>0. Prior(starter, longer, s) = Prior(starter, darts, s)
    BY SamePrior
<1>1. PICK prior : prior = Prior(starter, darts, s) /\ prior = Prior(starter, longer, s)
    BY <1>0
<1>2. \A v, i : (Lies(a, s, v, i) <=> Lies(b, s, v, i))
                /\ (Lies(a, s, v, i) => v \in 1..k + 1 /\ (v = k + 1 => i \in 1..d))
    BY DEF SamePlaces, Lies
<1>3. ASSUME NEW v, NEW i, Lies(a, s, v, i),
             NEW one, one = DartRow(a[v], v, i, prior), NEW two, two = DartRow(b[v], v, i, prior)
      PROVE  /\ \E c : one = Recounted(two, c) /\ (v # Len(b) => c = CountedFlags(b[v])[i])
             /\ \E c : two = Recounted(one, c) /\ (v # Len(a) => c = CountedFlags(a[v])[i])
             /\ (v = k + 1 => ~b[k + 1].bust) => one = two
    <2>1. PICK x, y : x = a[v] /\ y = b[v]
        OBVIOUS
    <2>2. CASE v = k + 1
        <3>1. i \in 1..d
            BY <1>2, <1>3, <2>2
        <3>2. WentOn(y, x, d, IsX01)
            BY <2>1, <2>2
        <3>3. /\ one = Recounted(two, CountedFlags(x)[i]) /\ two = Recounted(one, CountedFlags(y)[i])
              /\ ~y.bust => one = two
            BY <1>3, <2>1, <3>1, <3>2, JudgedAsBefore
        <3> QED
            BY <2>1, <2>2, <3>3
    <2>3. CASE v # k + 1
        <3>1. v \in 1..k
            BY <1>2, <1>3, <2>3
        <3>2. x = y
            BY <2>1, <3>1
        <3>3. PICK c : c = CountedFlags(x)[i]
            OBVIOUS
        <3>4. one = two /\ one = DartRow(x, v, i, prior)
            BY <1>3, <2>1, <3>2
        <3>5. Recounted(one, c) = one
            BY <3>3, <3>4, RightCounts
        <3> QED
            BY <2>1, <2>3, <3>2, <3>3, <3>4, <3>5
    <2> QED
        BY <2>2, <2>3
<1>4. ASSUME DartRight(row, a, starter, darts, s)
      PROVE  /\ DartAlmost(row, b, starter, longer, s)
             /\ ~b[k + 1].bust => DartRight(row, b, starter, longer, s)
    <2>1. PICK v, i : Lies(a, s, v, i) /\ row = DartRow(a[v], v, i, prior)
        BY <1>1, <1>4 DEF DartRight
    <2>2. PICK two : two = DartRow(b[v], v, i, prior)
        OBVIOUS
    <2>3. /\ \E c : row = Recounted(two, c) /\ (v # Len(b) => c = CountedFlags(b[v])[i])
          /\ (v = k + 1 => ~b[k + 1].bust) => row = two
        BY <1>3, <2>1, <2>2
    <2>4. Lies(b, s, v, i)
        BY <1>2, <2>1
    <2>5. DartAlmost(row, b, starter, longer, s)
        BY <1>1, <2>2, <2>3, <2>4 DEF DartAlmost
    <2>6. ASSUME ~b[k + 1].bust
          PROVE  DartRight(row, b, starter, longer, s)
        BY <1>1, <2>2, <2>3, <2>4, <2>6 DEF DartRight
    <2> QED
        BY <2>5, <2>6
<1>5. ASSUME DartRight(row, b, starter, longer, s)
      PROVE  DartAlmost(row, a, starter, darts, s)
    <2>1. PICK v, i : Lies(b, s, v, i) /\ row = DartRow(b[v], v, i, prior)
        BY <1>1, <1>5 DEF DartRight
    <2>2. PICK one : one = DartRow(a[v], v, i, prior)
        OBVIOUS
    <2>3. Lies(a, s, v, i)
        BY <1>2, <2>1
    <2>4. \E c : row = Recounted(one, c) /\ (v # Len(a) => c = CountedFlags(a[v])[i])
        BY <1>3, <2>1, <2>2, <2>3
    <2> QED
        BY <1>1, <2>2, <2>3, <2>4 DEF DartAlmost
<1> QED
    BY <1>4, <1>5 DEF Carried
-----------------------------------------------------------------------------
(* One dart more, in terms of the two replays.                             *)
LEMMA VisitsOfMore ==
    ASSUME NEW S, NEW darts \in Seq(S), NEW longer \in Seq(S), Extends(longer, darts),
           NEW starter, ~LegAfter(starter, longer).refused
    PROVE  /\ IsSeq(LegAfter(starter, darts).visits)
           /\ \/ NewVisit(LegAfter(starter, darts), LegAfter(starter, longer))
              \/ SameVisit(LegAfter(starter, darts), LegAfter(starter, longer), IsX01)
<1>1. PICK leg, more : /\ leg = LegAfter(starter, darts) /\ more = LegAfter(starter, longer)
                       /\ leg = LegReplay(Rules, Members, starter, darts)
                       /\ more = LegReplay(Rules, Members, starter, longer)
    BY DEF LegAfter
<1>2. LegOK(leg, Len(darts))
    BY <1>1, ReplayIsOK
<1>3. \/ NewVisit(leg, more)
      \/ SameVisit(leg, more, Rules.game = "x01")
      \/ more.refused /\ more.visits = leg.visits
    BY <1>1, OneDartMore
<1> QED
    BY <1>1, <1>2, <1>3 DEF LegOK, IsX01

(* The rows written with a dart (_record) are those of a replay, if the    *)
(* rows were so before it.                                                 *)
LEMMA ThrowKeepsRight ==
    ASSUME NEW S, NEW darts \in Seq(S), NEW longer \in Seq(S), Extends(longer, darts),
           NEW starter, ~LegAfter(starter, longer).refused,
           NEW row, RowRight(row, starter, darts)
    PROVE  RowRight(RecordedRows(row, LegAfter(starter, darts), LegAfter(starter, longer)),
                    starter, longer)
<1>1. PICK n \in Nat : n = Len(darts) /\ Len(longer) = n + 1
    BY DEF Extends
<1>2. PICK leg, more : leg = LegAfter(starter, darts) /\ more = LegAfter(starter, longer)
    OBVIOUS
<1>3. PICK a, b : a = leg.visits /\ b = more.visits
    OBVIOUS
<1>4. Covers(a, n) /\ VisitsRight(row.visits, a) /\ DartsRight(row.darts, a, starter, darts)
    BY <1>1, <1>2, <1>3 DEF RowRight
<1>5. IsSeq(a) /\ (NewVisit(leg, more) \/ SameVisit(leg, more, IsX01))
    BY <1>2, <1>3, VisitsOfMore
<1>6. PICK v, visit, i : v = Len(b) /\ visit = b[v] /\ i = Len(visit.darts)
    OBVIOUS
<1>7. PICK dart, darts2 : /\ dart = DartRow(visit, v, i, leg.teams)
                          /\ darts2 = Append(row.darts, dart)
    OBVIOUS
<1>8. PICK new : new = RecordedRows(row, leg, more)
    OBVIOUS
<1>9. /\ new.visits = WriteVisit(row.visits, more)
      /\ new.darts = IF visit.bust THEN SyncCounted(darts2, v, CountedFlags(visit)) ELSE darts2
    BY <1>3, <1>6, <1>7, <1>8 DEF RecordedRows, DartRow
<1>10. IsSeq(row.darts) /\ Len(row.darts) = n
       /\ \A s \in 1..n : DartRight(row.darts[s], a, starter, darts, s)
    BY <1>1, <1>4 DEF DartsRight
<1>11. ASSUME NewVisit(leg, more)
       PROVE  /\ Covers(b, n + 1) /\ VisitsRight(new.visits, b)
              /\ DartsRight(new.darts, b, starter, longer)
    <2>1. PICK last : Grown(b, a, last) /\ IsSeq(last.darts) /\ Len(last.darts) = 1
        BY <1>3, <1>11 DEF NewVisit
    <2>2. NewPlaces(a, b, n)
        BY <1>4, <1>5, <2>1, NewLies
    <2>3. visit = last /\ HasLength(last.darts, i) /\ i = 1
        BY <1>6, <2>1 DEF Grown, HasLength
    <2>4. Lies(b, n + 1, v, i) /\ Covers(b, n + 1)
        BY <1>6, <2>2, <2>3 DEF NewPlaces
    <2>5. \A w \in 1..Len(a) : b[w] = a[w]
        BY <2>1 DEF Grown
    <2>6. VisitsRight(new.visits, b)
        BY <1>3, <1>4, <1>5, <1>9, <2>1, NewVisitWritten
    <2>7. \A s \in 1..n : DartRight(row.darts[s], b, starter, longer, s)
        BY <1>1, <1>10, <2>2, <2>5, NewKeepsDart
    <2>8. DartsRight(darts2, b, starter, longer)
        BY <1>1, <1>2, <1>6, <1>7, <1>10, <2>4, <2>7, DartWritten
    <2>9. DartsRight(new.darts, b, starter, longer)
        <3>1. DartsAlmost(darts2, b, starter, longer)
            BY <2>8, RightIsAlmost
        <3>2. DartsRight(SyncCounted(darts2, v, CountedFlags(visit)), b, starter, longer)
            BY <1>6, <3>1, Synced
        <3> QED
            BY <1>9, <2>8, <3>2
    <2> QED
        BY <2>4, <2>6, <2>9
<1>12. ASSUME SameVisit(leg, more, IsX01)
       PROVE  /\ Covers(b, n + 1) /\ VisitsRight(new.visits, b)
              /\ DartsRight(new.darts, b, starter, longer)
    <2>1. PICK k \in Nat : \E open, last :
            /\ Len(a) = k + 1 /\ Len(b) = k + 1 /\ IsSeq(b)
            /\ \A w \in 1..k : b[w] = a[w]
            /\ a[k + 1] = open /\ b[k + 1] = last
            /\ \E d \in 1..DartsPerVisit - 1 : WentOn(last, open, d, IsX01)
        BY <1>3, <1>12 DEF SameVisit
    <2>2. PICK d \in 1..DartsPerVisit - 1 : WentOn(b[k + 1], a[k + 1], d, IsX01)
        BY <2>1
    <2>3. v = k + 1 /\ visit = b[k + 1]
        BY <1>6, <2>1
    <2>4. GrownDarts(b[k + 1].darts, a[k + 1].darts, d, visit.bust)
        BY <2>2, <2>3 DEF WentOn
    <2>5. SamePlaces(a, b, n, d)
        BY <1>4, <1>5, <2>1, <2>4, SameLies
    <2>6. d \in Nat /\ d + 1 # 1 /\ i = d + 1
        BY <1>6, <2>3, <2>4 DEF DartsPerVisit, GrownDarts
    <2>7. Lies(b, n + 1, v, i) /\ Covers(b, n + 1)
        BY <1>6, <2>5, <2>6 DEF SamePlaces
    <2>8. VisitsRight(new.visits, b)
        <3>1. WriteVisit(row.visits, more) = RestoreVisit(row.visits, visit)
            <4>1. i # 1
                BY <2>6
            <4>2. Len(row.visits) = v
                BY <1>4, <2>1, <2>3 DEF VisitsRight
            <4> QED
                BY <1>3, <1>6, <4>1, <4>2 DEF WriteVisit, RestoreVisit, LastOf
        <3>2. /\ b[k + 1].team = a[k + 1].team /\ b[k + 1].member = a[k + 1].member
              /\ b[k + 1].before = a[k + 1].before
            BY <2>2 DEF WentOn
        <3>3. VisitsRight(RestoreVisit(row.visits, b[k + 1]), b)
            BY <1>4, <2>1, <3>2, LastRewritten
        <3> QED
            BY <1>9, <2>3, <3>1, <3>3
    <2>9. ASSUME NEW s \in 1..n
          PROVE  /\ DartAlmost(row.darts[s], b, starter, longer, s)
                 /\ ~b[k + 1].bust => DartRight(row.darts[s], b, starter, longer, s)
        <3>1. PICK old : old = row.darts[s] /\ DartRight(old, a, starter, darts, s)
            BY <1>10
        <3>2. s \in 1..Len(darts) /\ SamePlaces(a, b, Len(darts), d)
            BY <1>1, <2>5
        <3>3. Carried(old, a, b, starter, darts, longer, s, b[k + 1].bust)
            BY <2>1, <2>2, <2>6, <3>1, <3>2, SameKeepsDart
        <3> QED
            BY <3>1, <3>3 DEF Carried
    <2>10. DartsAlmost(darts2, b, starter, longer)
        BY <1>1, <1>2, <1>6, <1>7, <1>10, <2>7, <2>9, DartWritten
    <2>11. CASE visit.bust
        <3>1. DartsRight(SyncCounted(darts2, v, CountedFlags(visit)), b, starter, longer)
            BY <1>6, <2>10, Synced
        <3> QED
            BY <1>9, <2>7, <2>8, <2>11, <3>1
    <2>12. CASE ~visit.bust
        <3>1. DartsRight(darts2, b, starter, longer)
            BY <1>1, <1>2, <1>6, <1>7, <1>10, <2>3, <2>7, <2>9, <2>12, DartWritten
        <3> QED
            BY <1>9, <2>7, <2>8, <2>12, <3>1
    <2> QED
        BY <2>11, <2>12
<1>13. /\ Covers(b, n + 1) /\ VisitsRight(new.visits, b)
       /\ DartsRight(new.darts, b, starter, longer)
    BY <1>5, <1>11, <1>12
<1> QED
    BY <1>1, <1>2, <1>3, <1>8, <1>13 DEF RowRight

(* Which visit the row of a dart names.                                    *)
LEMMA VisitOfDart ==
    ASSUME NEW visits, Shaped(visits), NEW s, NEW v, NEW i, Lies(visits, s, v, i),
           NEW starter, NEW darts, NEW row, DartRight(row, visits, starter, darts, s)
    PROVE  row.visit = v /\ row.index = i
<1>1. PICK w, j : /\ Lies(visits, s, w, j)
                  /\ row = DartRow(visits[w], w, j, Prior(starter, darts, s))
    BY DEF DartRight
<1>2. w = v /\ j = i
    BY <1>1, LiesOnce
<1>3. row.visit = w /\ row.index = j
    BY <1>1 DEF DartRow
<1> QED
    BY <1>2, <1>3

(* The visits' rows without the last.                                      *)
LEMMA FrontIsRight ==
    ASSUME NEW k \in Nat, NEW a, Len(a) = k, NEW b, Len(b) = k + 1, \A v \in 1..k : b[v] = a[v],
           NEW stored, VisitsRight(stored, b)
    PROVE  VisitsRight(FrontOf(stored), a)
<1>1. IsSeq(stored) /\ Len(stored) = k + 1 /\ \A v \in 1..k + 1 : stored[v] = VisitRow(b, v)
    BY DEF VisitsRight
<1>2. PICK front : front = FrontOf(stored)
    OBVIOUS
<1>3. IsSeq(front) /\ Len(front) = k /\ \A v \in 1..k : front[v] = stored[v]
    BY <1>1, <1>2, FrontIs
<1>4. ASSUME NEW v \in 1..k
      PROVE  front[v] = VisitRow(a, v)
    <2>1. \A w \in 1..v - 1 : w \in 1..k
        OBVIOUS
    <2>2. VisitRow(b, v) = VisitRow(a, v)
        BY <2>1, SameVisitRow
    <2>3. v \in 1..k + 1
        OBVIOUS
    <2> QED
        BY <1>1, <1>3, <2>2, <2>3
<1> QED
    BY <1>2, <1>3, <1>4 DEF VisitsRight

(* The last visit's rows are put right (_restore_visit), if they belong to *)
(* its thrower and it began from the score they say.                       *)
LEMMA Restored ==
    ASSUME NEW k \in Nat, NEW a, Len(a) = k + 1, NEW starter, NEW darts,
           NEW visits, VisitsRight(RestoreVisit(visits, a[k + 1]), a), Len(visits) = k + 1,
           NEW stored, DartsAlmost(stored, a, starter, darts)
    PROVE  /\ VisitsRight(RestoreVisit(visits, LastOf(a)), a)
           /\ DartsRight(SyncCounted(stored, Len(visits), CountedFlags(LastOf(a))),
                         a, starter, darts)
<1>1. PICK last : last = Len(a) /\ last = Len(visits) /\ LastOf(a) = a[last] /\ last = k + 1
    BY DEF LastOf
<1>2. DartsRight(SyncCounted(stored, last, CountedFlags(a[last])), a, starter, darts)
    BY <1>1, Synced
<1> QED
    BY <1>1, <1>2

(* The rows left by an undo are those of a replay without the last dart.   *)
LEMMA UndoKeepsRight ==
    ASSUME NEW S, NEW darts \in Seq(S), NEW longer \in Seq(S), Extends(longer, darts),
           NEW starter, ~LegAfter(starter, longer).refused,
           NEW row, RowRight(row, starter, longer)
    PROVE  RowRight(UndoneRows(row, LegAfter(starter, darts)), starter, darts)
<1>1. PICK n \in Nat : n = Len(darts) /\ Len(longer) = n + 1
    BY DEF Extends
<1>2. PICK leg, more : leg = LegAfter(starter, darts) /\ more = LegAfter(starter, longer)
    OBVIOUS
<1>3. PICK a, b : a = leg.visits /\ b = more.visits
    OBVIOUS
<1>4. /\ Covers(b, n + 1) /\ VisitsRight(row.visits, b) /\ Shaped(b)
      /\ DartsRight(row.darts, b, starter, longer)
    BY <1>1, <1>2, <1>3 DEF RowRight, Covers
<1>5. IsSeq(a) /\ (NewVisit(leg, more) \/ SameVisit(leg, more, IsX01))
    BY <1>2, <1>3, VisitsOfMore
<1>6. PICK less, v, visits : /\ less = FrontOf(row.darts) /\ v = LastOf(row.darts).visit
                             /\ visits = IF \A i \in DOMAIN less : less[i].visit # v
                                         THEN FrontOf(row.visits) ELSE row.visits
    OBVIOUS
<1>7. PICK new : new = UndoneRows(row, leg)
    OBVIOUS
<1>8. /\ a = <<>> => new.visits = visits /\ new.darts = less
      /\ a # <<>> => /\ new.visits = RestoreVisit(visits, LastOf(a))
                     /\ new.darts = SyncCounted(less, Len(visits), CountedFlags(LastOf(a)))
    BY <1>3, <1>6, <1>7 DEF UndoneRows
<1>9. IsSeq(row.darts) /\ Len(row.darts) = n + 1
      /\ \A s \in 1..n + 1 : DartRight(row.darts[s], b, starter, longer, s)
    BY <1>1, <1>4 DEF DartsRight
<1>10. /\ IsSeq(less) /\ Len(less) = n /\ DOMAIN less = 1..n
       /\ \A s \in 1..n : less[s] = row.darts[s]
    BY <1>6, <1>9, FrontIs, IsSeqLen
<1>11. \A s \in 1..n : s \in 1..n + 1 /\ s \in 1..Len(darts)
    BY <1>1
<1>12. n + 1 \in 1..n + 1 /\ LastOf(row.darts) = row.darts[n + 1]
    BY <1>9 DEF LastOf
<1>13. ASSUME NewVisit(leg, more)
       PROVE  Covers(a, n) /\ VisitsRight(new.visits, a) /\ DartsRight(new.darts, a, starter, darts)
    <2>1. PICK last : Grown(b, a, last) /\ IsSeq(last.darts) /\ Len(last.darts) = 1
        BY <1>3, <1>13 DEF NewVisit
    <2>2. NewPlaces(a, b, n)
        BY <1>4, <1>5, <2>1, NewLies
    <2>3. Covers(a, n) /\ Lies(b, n + 1, Len(b), 1)
        BY <2>2 DEF NewPlaces
    <2>4. PICK k \in Nat : k = Len(a) /\ Len(b) = k + 1 /\ \A w \in 1..k : b[w] = a[w]
        BY <2>1 DEF Grown
    <2>5. ASSUME NEW s \in 1..n
          PROVE  DartRight(less[s], a, starter, darts, s)
        <3>1. PICK old : old = less[s] /\ DartRight(old, b, starter, longer, s)
            BY <1>9, <1>10, <1>11
        <3>2. NewPlaces(a, b, Len(darts)) /\ \A w \in 1..Len(a) : b[w] = a[w]
            BY <1>1, <2>2, <2>4
        <3>3. DartRight(old, a, starter, darts, s)
            BY <1>11, <3>1, <3>2, NewKeepsDart
        <3> QED
            BY <3>1, <3>3
    <2>6. DartsRight(less, a, starter, darts)
        BY <1>1, <1>10, <2>5 DEF DartsRight
    <2>7. v = k + 1
        <3>1. PICK x : x = row.darts[n + 1] /\ DartRight(x, b, starter, longer, n + 1)
            BY <1>9, <1>12
        <3>2. x.visit = Len(b)
            BY <1>4, <2>3, <3>1, VisitOfDart
        <3> QED
            BY <1>6, <1>12, <2>4, <3>1, <3>2
    <2>8. \A s \in 1..n : less[s].visit # v
        <3>1. SUFFICES ASSUME NEW s \in 1..n PROVE less[s].visit \in 1..k
            BY <2>7
        <3>2. PICK w, i : Lies(a, s, w, i) /\ less[s] = DartRow(a[w], w, i, Prior(starter, darts, s))
            BY <2>5 DEF DartRight
        <3> QED
            BY <2>4, <3>2 DEF Lies, DartRow
    <2>9. visits = FrontOf(row.visits)
        BY <1>6, <1>10, <2>8
    <2>10. VisitsRight(visits, a)
        BY <1>4, <2>4, <2>9, FrontIsRight
    <2>11. CASE a = <<>>
        BY <1>8, <2>3, <2>6, <2>10, <2>11
    <2>12. CASE a # <<>>
        <3>1. k # 0
            BY <1>5, <2>4, <2>12, EmptySeq DEF IsSeq
        <3>2. PICK j \in Nat : j + 1 = k
            BY <3>1
        <3>3. Len(a) = j + 1 /\ Len(visits) = j + 1
            BY <2>4, <2>10, <3>2 DEF VisitsRight
        <3>4. VisitsRight(RestoreVisit(visits, a[j + 1]), a)
            BY <2>10, <3>3, LastRewritten
        <3>5. DartsAlmost(less, a, starter, darts)
            BY <2>6, RightIsAlmost
        <3> QED
            BY <1>8, <2>3, <2>12, <3>3, <3>4, <3>5, Restored
    <2> QED
        BY <2>11, <2>12
<1>14. ASSUME SameVisit(leg, more, IsX01)
       PROVE  Covers(a, n) /\ VisitsRight(new.visits, a) /\ DartsRight(new.darts, a, starter, darts)
    <2>1. PICK k \in Nat : \E open, last :
            /\ Len(a) = k + 1 /\ Len(b) = k + 1 /\ IsSeq(b)
            /\ \A w \in 1..k : b[w] = a[w]
            /\ a[k + 1] = open /\ b[k + 1] = last
            /\ \E d \in 1..DartsPerVisit - 1 : WentOn(last, open, d, IsX01)
        BY <1>3, <1>14 DEF SameVisit
    <2>2. PICK d \in 1..DartsPerVisit - 1 : WentOn(b[k + 1], a[k + 1], d, IsX01)
        BY <2>1
    <2>3. PICK bust : /\ bust = b[k + 1].bust
                      /\ GrownDarts(b[k + 1].darts, a[k + 1].darts, d, bust)
        BY <2>2 DEF WentOn
    <2>4. SamePlaces(a, b, n, d)
        BY <1>4, <1>5, <2>1, <2>3, SameLies
    <2>5. d \in Nat
        BY DEF DartsPerVisit
    <2>6. ASSUME NEW s \in 1..n
          PROVE  DartAlmost(less[s], a, starter, darts, s)
        <3>1. PICK old : old = less[s] /\ DartRight(old, b, starter, longer, s)
            BY <1>9, <1>10, <1>11
        <3>2. s \in 1..Len(darts) /\ SamePlaces(a, b, Len(darts), d)
            BY <1>1, <2>4
        <3>3. Carried(old, a, b, starter, darts, longer, s, b[k + 1].bust)
            BY <2>1, <2>2, <2>5, <3>2, SameKeepsDart
        <3> QED
            BY <3>1, <3>3 DEF Carried
    <2>7. DartsAlmost(less, a, starter, darts)
        BY <1>1, <1>10, <2>6 DEF DartsAlmost
    <2>8. v = k + 1
        <3>1. PICK x : x = row.darts[n + 1] /\ DartRight(x, b, starter, longer, n + 1)
            BY <1>9, <1>12
        <3>2. Lies(b, n + 1, Len(b), d + 1)
            BY <2>4 DEF SamePlaces
        <3>3. x.visit = Len(b)
            BY <1>4, <3>1, <3>2, VisitOfDart
        <3> QED
            BY <1>6, <1>12, <2>1, <3>1, <3>3
    <2>9. n \in DOMAIN less /\ less[n].visit = v
        <3>1. PICK x : x = row.darts[n] /\ DartRight(x, b, starter, longer, n)
            BY <1>9, <1>11, <2>4 DEF SamePlaces
        <3>2. Lies(b, n, Len(b), d)
            BY <2>1, <2>4 DEF SamePlaces
        <3>3. x.visit = Len(b)
            BY <1>4, <3>1, <3>2, VisitOfDart
        <3>4. n \in 1..n
            BY <2>4 DEF SamePlaces
        <3> QED
            BY <1>10, <2>1, <2>8, <3>1, <3>3, <3>4
    <2>10. visits = row.visits
        BY <1>6, <2>9
    <2>11. Len(visits) = k + 1
        BY <1>4, <2>1, <2>10 DEF VisitsRight
    <2>12. VisitsRight(RestoreVisit(visits, a[k + 1]), a)
        <3>1. /\ a[k + 1].team = b[k + 1].team /\ a[k + 1].member = b[k + 1].member
              /\ a[k + 1].before = b[k + 1].before
            BY <2>2 DEF WentOn
        <3>2. \A w \in 1..k : a[w] = b[w]
            BY <2>1
        <3> QED
            BY <1>4, <2>1, <2>10, <3>1, <3>2, LastRewritten
    <2>13. a # <<>>
        BY <2>1, EmptyIsSeq
    <2>14. Covers(a, n)
        BY <2>4 DEF SamePlaces
    <2> QED
        BY <1>8, <2>1, <2>7, <2>11, <2>12, <2>13, <2>14, Restored
<1>15. Covers(a, n) /\ VisitsRight(new.visits, a) /\ DartsRight(new.darts, a, starter, darts)
    BY <1>5, <1>13, <1>14
<1> QED
    BY <1>1, <1>2, <1>3, <1>7, <1>15 DEF RowRight
-----------------------------------------------------------------------------
LegOf(l) == LegAfter(l.starter, l.darts)

(* The rows of a leg are one record per leg, and its caches are those that *)
(* a replay of its darts would leave.                                      *)
CachesAgree ==
    /\ rows = [k \in 1..Len(legs) |-> [visits |-> rows[k].visits, darts |-> rows[k].darts,
                                       caches |-> rows[k].caches]]
    /\ \A k \in 1..Len(legs) : rows[k].caches = CacheRows(LegOf(legs[k]))
-----------------------------------------------------------------------------
(* The replay of no darts is the position before the first.                *)
LEMMA NothingThrown ==
    ASSUME NEW starter
    PROVE  LegAfter(starter, <<>>) = Opening(Rules, Members, starter)
<1> DEFINE Solves(leg) ==
              leg = [i \in 0..Len(<<>>) |->
                        IF i = 0 THEN Opening(Rules, Members, starter)
                        ELSE LET before == leg[i - 1]
                             IN  IF before.refused \/ before.offset = Len(<<>>) THEN before
                                 ELSE PlayVisit(Rules, Members, <<>>, before)]
           leg == CHOOSE l : Solves(l)
<1>1. Solves([i \in 0..0 |-> Opening(Rules, Members, starter)])
    OBVIOUS
<1>2. Solves(leg)
    BY <1>1
<1>3. LegAfter(starter, <<>>) = leg[0]
    BY DEF LegAfter, LegReplay
<1>4. leg[0] = Opening(Rules, Members, starter)
    <2> HIDE DEF leg
    <2> QED
        BY <1>2
<1> QED
    BY <1>3, <1>4

(* So a leg with no darts has no caches.                                   *)
LEMMA NothingCached ==
    ASSUME NEW starter
    PROVE  CacheRows(LegAfter(starter, <<>>)) = {}
BY NothingThrown DEF Opening, CacheRows

(* The first leg starts with no rows, as it should.                        *)
LEMMA NothingKept ==
    ASSUME Init, rows = <<NoRows>>
    PROVE  CachesAgree
<1>1. Len(legs) = 1 /\ legs[1].darts = <<>>
    BY DEF Init, NewLeg
<1>2. rows[1] = NoRows /\ DOMAIN rows = 1..1 /\ rows = [k \in 1..1 |-> rows[k]]
    OBVIOUS
<1>3. /\ rows[1] = [visits |-> rows[1].visits, darts |-> rows[1].darts,
                    caches |-> rows[1].caches]
      /\ rows[1].caches = {}
    BY <1>2 DEF NoRows
<1>4. CacheRows(LegOf(legs[1])) = {}
    BY <1>1, NothingCached DEF LegOf
<1>5. rows = [k \in 1..1 |-> [visits |-> rows[k].visits, darts |-> rows[k].darts,
                              caches |-> rows[k].caches]]
    BY <1>2, <1>3
<1>6. \A k \in 1..1 : rows[k].caches = CacheRows(LegOf(legs[k]))
    BY <1>3, <1>4
<1> QED
    BY <1>1, <1>5, <1>6 DEF CachesAgree

(* Each write leaves a record for each leg, with the caches of its darts.  *)
LEMMA WritesKeepCaches ==
    ASSUME Inductive, CachesAgree, RowsNext
    PROVE  Inductive' /\ CachesAgree'
<1>0. legs \in Seq(LegRow) /\ Len(legs) \in Nat \ {0}
    BY LenProperties DEF Inductive, LegsOK
<1>1. ASSUME NEW k \in 1..Len(legs), NEW d \in Dart, ThrowRows(k, d)
      PROVE  Inductive' /\ CachesAgree'
    <2>1. Throw(k, d)
        BY <1>1 DEF ThrowRows
    <2>2. /\ k = Len(legs) /\ Len(legs') \in {k, k + 1}
          /\ legs'[k].starter = legs[k].starter
          /\ legs'[k].darts = Append(legs[k].darts, d)
          /\ \A j \in 1..k - 1 : legs'[j] = legs[j]
          /\ Len(legs') = k + 1 => legs'[k + 1].darts = <<>>
        BY <2>1, ThrowShape, SMTT(40)
    <2>3. PICK row : row = RecordedRows(rows[k], LegAfter(legs[k].starter, legs[k].darts),
                              LegAfter(legs[k].starter, Append(legs[k].darts, d)))
        OBVIOUS
    <2>4. /\ row = [visits |-> row.visits, darts |-> row.darts, caches |-> row.caches]
          /\ row.caches = CacheRows(LegAfter(legs[k].starter, Append(legs[k].darts, d)))
        BY <2>3, Zenon DEF RecordedRows
    <2>5. rows' = [j \in 1..Len(legs') |-> IF j = k THEN row
                                           ELSE IF j \in DOMAIN rows THEN rows[j] ELSE NoRows]
        BY <1>1, <2>3 DEF ThrowRows, AdvancedRows
    <2>6. DOMAIN rows = 1..Len(legs)
        BY DEF CachesAgree
    <2>7. ASSUME NEW j \in 1..Len(legs')
          PROVE  /\ rows'[j] = [visits |-> rows'[j].visits, darts |-> rows'[j].darts,
                                caches |-> rows'[j].caches]
                 /\ rows'[j].caches = CacheRows(LegOf(legs'[j]))
        <3>1. CASE j = k
            BY <2>2, <2>4, <2>5, <3>1 DEF LegOf
        <3>2. CASE j < k
            <4>1. j \in 1..Len(legs) /\ rows'[j] = rows[j] /\ legs'[j] = legs[j]
                BY <1>0, <2>2, <2>5, <2>6, <3>2
            <4> QED
                BY <4>1 DEF CachesAgree
        <3>3. CASE j > k
            <4>1. j = k + 1 /\ Len(legs') = k + 1 /\ rows'[j] = NoRows
                BY <1>0, <2>2, <2>5, <2>6, <3>3
            <4> QED
                BY <2>2, <4>1, NothingCached DEF NoRows, LegOf
        <3> QED
            BY <1>0, <2>2, <3>1, <3>2, <3>3
    <2> QED
        BY <2>1, <2>5, <2>7, ThrowStep DEF CachesAgree
<1>2. ASSUME NEW k \in 1..Len(legs), UndoRows(k)
      PROVE  Inductive' /\ CachesAgree'
    <2>1. Undo(k)
        BY <1>2 DEF UndoRows
    <2>2. /\ Inductive' /\ Len(legs') = k
          /\ legs'[k].starter = legs[k].starter
          /\ legs'[k].darts = FrontOf(legs[k].darts)
          /\ \A j \in 1..k - 1 : legs'[j] = legs[j]
        BY <2>1, UndoStep DEF FrontOf
    <2>3. PICK row : row = UndoneRows(rows[k], LegAfter(legs[k].starter, FrontOf(legs[k].darts)))
        OBVIOUS
    <2>4. /\ row = [visits |-> row.visits, darts |-> row.darts, caches |-> row.caches]
          /\ row.caches = CacheRows(LegAfter(legs[k].starter, FrontOf(legs[k].darts)))
        BY <2>3 DEF UndoneRows
    <2>5. rows' = [j \in 1..Len(legs') |-> IF j = k THEN row
                                           ELSE IF j \in DOMAIN rows THEN rows[j] ELSE NoRows]
        BY <1>2, <2>3 DEF UndoRows, AdvancedRows
    <2>6. DOMAIN rows = 1..Len(legs)
        BY DEF CachesAgree
    <2>7. ASSUME NEW j \in 1..Len(legs')
          PROVE  /\ rows'[j] = [visits |-> rows'[j].visits, darts |-> rows'[j].darts,
                                caches |-> rows'[j].caches]
                 /\ rows'[j].caches = CacheRows(LegOf(legs'[j]))
        <3>1. CASE j = k
            BY <2>2, <2>4, <2>5, <3>1 DEF LegOf
        <3>2. CASE j # k
            <4>1. j \in 1..Len(legs) /\ rows'[j] = rows[j] /\ legs'[j] = legs[j]
                BY <1>0, <2>2, <2>5, <2>6, <3>2
            <4> QED
                BY <4>1 DEF CachesAgree
        <3> QED
            BY <3>1, <3>2
    <2> QED
        BY <2>2, <2>5, <2>7 DEF CachesAgree
<1>3. CASE AbandonRows
    BY <1>3 DEF AbandonRows, Abandon, Inductive, CachesAgree
<1> QED
    BY <1>1, <1>2, <1>3 DEF RowsNext
-----------------------------------------------------------------------------
(* The service's winner of a leg is that of the replay, unless the replay  *)
(* refuses.                                                                *)
LEMMA EngineAnswers ==
    ASSUME NEW l \in LegRow, RowOK(l)
    PROVE  /\ ~LegOf(l).refused => l.winner = LegOf(l).winner
           /\ l.winner # Refused => ~LegOf(l).refused
<1>1. l.starter \in Team /\ l.darts \in DartSeq
    BY DEF LegRow
<1>2. LegVerdict(l.starter, l.darts) = EngineVerdict(l.starter, l.darts)
    BY <1>1, EngineAssumption
<1> QED
    BY <1>2 DEF RowOK, EngineVerdict, LegOf, LegAfter

(* No leg of a match has darts the replay refuses.                         *)
LEMMA NotRefused ==
    ASSUME NEW l \in LegRow, RowOK(l)
    PROVE  ~LegOf(l).refused /\ l.winner = LegOf(l).winner
<1>1. l.winner # Refused
    <2>1. \A t \in Team : t # Refused
        BY MatchAssumption DEF Team, Refused
    <2>2. NoTeam # Refused
        BY DEF NoTeam, Refused
    <2> QED
        BY <2>1, <2>2 DEF LegRow
<1> QED
    BY <1>1, EngineAnswers

(* The rows of a leg with no darts.                                        *)
LEMMA NothingRight ==
    ASSUME NEW starter
    PROVE  RowRight(NoRows, starter, <<>>)
<1>1. LegAfter(starter, <<>>).visits = <<>>
    <2>1. LegAfter(starter, <<>>) = Opening(Rules, Members, starter)
        BY NothingThrown
    <2> QED
        BY <2>1 DEF Opening
<1>2. IsSeq(<<>>) /\ Len(<<>>) = 0
    BY EmptyIsSeq
<1>3. Covers(<<>>, 0)
    <2>1. Shaped(<<>>)
        BY <1>2 DEF Shaped
    <2>2. Earlier(<<>>, 1) = 0
        BY <2>1, EarlierIs
    <2> QED
        BY <1>2, <2>1, <2>2 DEF Covers
<1>4. \A i \in 1..0 : FALSE
    OBVIOUS
<1>5. VisitsRight(<<>>, <<>>) /\ DartsRight(<<>>, <<>>, starter, <<>>)
    BY <1>2, <1>4 DEF VisitsRight, DartsRight
<1> QED
    BY <1>1, <1>2, <1>3, <1>5 DEF RowRight, NoRows

AllRight == \A k \in 1..Len(legs) : RowRight(rows[k], legs[k].starter, legs[k].darts)

(* The writes keep the rows those of a replay, leg by leg.                 *)
LEMMA WritesKeepRows ==
    ASSUME Inductive, CachesAgree, AllRight, RowsNext
    PROVE  AllRight'
<1>0. legs \in Seq(LegRow) /\ Len(legs) \in Nat \ {0} /\ DOMAIN rows = 1..Len(legs)
    BY LenProperties DEF Inductive, LegsOK, CachesAgree
<1>1. ASSUME NEW k \in 1..Len(legs), NEW d \in Dart, ThrowRows(k, d)
      PROVE  AllRight'
    <2>1. Throw(k, d) /\ Inductive'
        BY <1>1, ThrowStep DEF ThrowRows
    <2>2. /\ k = Len(legs) /\ Len(legs') \in {k, k + 1}
          /\ legs'[k].starter = legs[k].starter
          /\ legs'[k].darts = Append(legs[k].darts, d)
          /\ \A j \in 1..k - 1 : legs'[j] = legs[j]
          /\ Len(legs') = k + 1 => legs'[k + 1].darts = <<>>
          /\ legs'[k] \in LegRow
        BY <2>1, ThrowShape
    <2>3. PICK starter, darts, longer : /\ starter = legs[k].starter /\ darts = legs[k].darts
                                        /\ longer = Append(darts, d)
        OBVIOUS
    <2>4. PICK row : row = RecordedRows(rows[k], LegAfter(starter, darts),
                                        LegAfter(starter, longer))
        OBVIOUS
    <2>5. rows' = [j \in 1..Len(legs') |-> IF j = k THEN row
                                           ELSE IF j \in DOMAIN rows THEN rows[j] ELSE NoRows]
        BY <1>1, <2>3, <2>4 DEF ThrowRows, AdvancedRows
    <2>6. darts \in Seq(Dart) /\ longer \in Seq(Dart) /\ Extends(longer, darts)
        <3>1. legs[k] \in LegRow
            BY <1>0, ElementOfSeq
        <3>2. darts \in Seq(Dart)
            BY <2>3, <3>1, DartSeqLemma DEF LegRow
        <3> QED
            BY <2>3, <3>2, AppendProperties, LenProperties DEF Extends
    <2>7. ~LegAfter(starter, longer).refused
        <3>1. RowOK(legs'[k])
            <4>1. k \in 1..Len(legs')
                BY <1>0, <2>2
            <4>2. LegsOK(legs)'
                BY <2>1 DEF Inductive
            <4> QED
                BY <4>1, <4>2 DEF LegsOK
        <3> QED
            BY <2>2, <2>3, <3>1, NotRefused DEF LegOf
    <2>8. RowRight(row, starter, longer)
        <3>1. RowRight(rows[k], starter, darts)
            BY <2>3 DEF AllRight
        <3> QED
            BY <2>4, <2>6, <2>7, <3>1, ThrowKeepsRight
    <2>9. ASSUME NEW j \in 1..Len(legs')
          PROVE  RowRight(rows'[j], legs'[j].starter, legs'[j].darts)
        <3>1. CASE j = k
            BY <2>2, <2>3, <2>5, <2>8, <3>1
        <3>2. CASE j < k
            <4>1. j \in 1..Len(legs) /\ rows'[j] = rows[j] /\ legs'[j] = legs[j]
                BY <1>0, <2>2, <2>5, <3>2
            <4> QED
                BY <4>1 DEF AllRight
        <3>3. CASE j > k
            <4>1. j = k + 1 /\ Len(legs') = k + 1 /\ rows'[j] = NoRows
                BY <1>0, <2>2, <2>5, <3>3
            <4> QED
                BY <2>2, <4>1, NothingRight
        <3> QED
            BY <1>0, <2>2, <3>1, <3>2, <3>3
    <2> QED
        BY <2>9 DEF AllRight
<1>2. ASSUME NEW k \in 1..Len(legs), UndoRows(k)
      PROVE  AllRight'
    <2>1. Undo(k)
        BY <1>2 DEF UndoRows
    <2>2. /\ Len(legs') = k
          /\ legs'[k].starter = legs[k].starter
          /\ legs'[k].darts = FrontOf(legs[k].darts)
          /\ \A j \in 1..k - 1 : legs'[j] = legs[j]
        BY <2>1, UndoStep DEF FrontOf
    <2>3. PICK starter, darts, longer : /\ starter = legs[k].starter /\ longer = legs[k].darts
                                        /\ darts = FrontOf(longer)
        OBVIOUS
    <2>4. PICK row : row = UndoneRows(rows[k], LegAfter(starter, darts))
        OBVIOUS
    <2>5. rows' = [j \in 1..Len(legs') |-> IF j = k THEN row
                                           ELSE IF j \in DOMAIN rows THEN rows[j] ELSE NoRows]
        BY <1>2, <2>3, <2>4 DEF UndoRows, AdvancedRows
    <2>6. darts \in Seq(Dart) /\ longer \in Seq(Dart) /\ Extends(longer, darts)
        <3>1. legs[k] \in LegRow /\ longer # <<>>
            BY <1>0, <2>1, <2>3, ElementOfSeq DEF Undo, CanUndo
        <3>2. longer \in Seq(Dart)
            BY <2>3, <3>1, DartSeqLemma DEF LegRow
        <3>3. PICK n \in Nat : Len(longer) = n + 1
            <4>1. Len(longer) \in Nat \ {0}
                BY <3>1, <3>2, LenProperties, EmptySeq
            <4> QED
                BY <4>1
        <3>4. IsSeq(longer)
            BY <3>2 DEF IsSeq
        <3>5. Len(darts) = n /\ \A i \in 1..n : darts[i] = longer[i]
            BY <2>3, <3>3, <3>4, FrontIs
        <3>6. darts \in Seq(Dart)
            <4>1. darts = SubSeq(longer, 1, n) /\ \A i \in 1..n : longer[i] \in Dart
                BY <2>3, <3>2, <3>3, ElementOfSeq DEF FrontOf
            <4> QED
                BY <4>1, <3>2, <3>3, SubSeqProperties
        <3> QED
            BY <3>2, <3>3, <3>5, <3>6 DEF Extends
    <2>7. ~LegAfter(starter, longer).refused
        <3>1. legs[k] \in LegRow /\ RowOK(legs[k])
            BY <1>0, ElementOfSeq DEF Inductive, LegsOK
        <3> QED
            BY <2>3, <3>1, NotRefused DEF LegOf
    <2>8. RowRight(row, starter, darts)
        <3>1. RowRight(rows[k], starter, longer)
            BY <2>3 DEF AllRight
        <3> QED
            BY <2>4, <2>6, <2>7, <3>1, UndoKeepsRight
    <2>9. ASSUME NEW j \in 1..Len(legs')
          PROVE  RowRight(rows'[j], legs'[j].starter, legs'[j].darts)
        <3>1. CASE j = k
            BY <2>2, <2>3, <2>5, <2>8, <3>1
        <3>2. CASE j # k
            <4>1. j \in 1..Len(legs) /\ rows'[j] = rows[j] /\ legs'[j] = legs[j]
                BY <1>0, <2>2, <2>5, <3>2
            <4> QED
                BY <4>1 DEF AllRight
        <3> QED
            BY <3>1, <3>2
    <2> QED
        BY <2>9 DEF AllRight
<1>3. CASE AbandonRows
    BY <1>3 DEF AbandonRows, Abandon, AllRight
<1> QED
    BY <1>1, <1>2, <1>3 DEF RowsNext
-----------------------------------------------------------------------------
(* The two ways of counting the darts before a visit agree.                *)
LEMMA DartsBefore ==
    ASSUME NEW leg, Shaped(leg.visits), NEW m \in 1..Len(leg.visits)
    PROVE  MapThenSumSet(LAMBDA i : Len(leg.visits[i].darts), 1..m - 1)
               = Earlier(leg.visits, m)
<1>1. PICK S, w : S = 1..m - 1 /\ w = Lengths(leg.visits)
    OBVIOUS
<1>2. PICK n \in Nat : n = Len(leg.visits)
    BY IsSeqLen DEF Shaped
<1>3. IsFiniteSet(S) /\ \A i \in S : i \in 1..n /\ w[i] = Len(leg.visits[i].darts)
    <2>1. m - 1 \in Int /\ m \in 1..n
        BY <1>2
    <2>2. IsFiniteSet(S)
        BY <1>1, <2>1, FS_Interval
    <2>3. \A i \in S : i \in 1..n
        BY <1>1, <2>1
    <2>4. w = [i \in 1..n |-> Len(leg.visits[i].darts)]
        BY <1>1, <1>2 DEF Lengths
    <2> QED
        BY <2>2, <2>3, <2>4
<1> DEFINE Solves(sum) ==
              sum = [s \in SUBSET S |->
                        IF s = {} THEN 0
                        ELSE Len(leg.visits[CHOOSE x \in s : TRUE].darts)
                             + sum[s \ {CHOOSE x \in s : TRUE}]]
           sum == CHOOSE f : Solves(f)
<1>4. MapThenSumSet(LAMBDA i : Len(leg.visits[i].darts), S) = sum[S]
    BY DEF MapThenSumSet, MapThenFoldSet
<1>5. \A f : Solves(f) <=> IsSum(f, w, S)
    <2>1. \A s \in SUBSET S : s # {} =>
             w[CHOOSE x \in s : TRUE] = Len(leg.visits[CHOOSE x \in s : TRUE].darts)
        BY <1>3
    <2> QED
        BY <2>1 DEF IsSum, One
<1>6. IsSum(sum, w, S)
    <2>1. PICK f : IsSum(f, w, S)
        BY <1>3, SumsExist
    <2>2. \E g : Solves(g)
        <3>1. Solves(f)
            BY <1>5, <2>1
        <3> HIDE DEF Solves
        <3> QED
            BY <3>1
    <2> HIDE DEF Solves
    <2>3. Solves(sum)
        BY <2>2
    <2> QED
        BY <1>5, <2>3
<1>7. sum[S] = Total(w, S)
    <2> HIDE DEF sum
    <2> QED
        BY <1>3, <1>6, TotalIs
<1> QED
    BY <1>1, <1>4, <1>7 DEF Earlier

(* Where a dart of the leg lies is what the verifier makes of it.          *)
LEMMA PositionIs ==
    ASSUME NEW leg, Shaped(leg.visits), NEW s, NEW v, NEW i, Lies(leg.visits, s, v, i)
    PROVE  Position(leg, s) = <<v, i>>
<1>1. PICK n \in Nat : n = Len(leg.visits) /\ DOMAIN leg.visits = 1..n
    BY IsSeqLen DEF Shaped
<1> DEFINE At(p) == /\ p[2] \in DOMAIN leg.visits[p[1]].darts
                    /\ s = p[2] + MapThenSumSet(LAMBDA x : Len(leg.visits[x].darts), 1..p[1] - 1)
<1>2. \A w \in 1..n, j \in 1..DartsPerVisit : At(<<w, j>>) <=> Lies(leg.visits, s, w, j)
    <2>1. SUFFICES ASSUME NEW w \in 1..n, NEW j \in 1..DartsPerVisit
                   PROVE  At(<<w, j>>) <=> Lies(leg.visits, s, w, j)
        OBVIOUS
    <2>2. DOMAIN leg.visits[w].darts = 1..Len(leg.visits[w].darts)
        BY <1>1, IsSeqLen DEF Shaped
    <2>3. MapThenSumSet(LAMBDA x : Len(leg.visits[x].darts), 1..w - 1) = Earlier(leg.visits, w)
        BY <1>1, DartsBefore
    <2> QED
        BY <1>1, <2>2, <2>3 DEF Lies
<1>3. v \in 1..n /\ i \in 1..DartsPerVisit
    <2>1. v \in 1..n /\ i \in 1..Len(leg.visits[v].darts)
        BY <1>1 DEF Lies
    <2>2. PICK l : l = Len(leg.visits[v].darts)
        OBVIOUS
    <2>3. l \in 1..DartsPerVisit
        BY <1>1, <2>1, <2>2 DEF Shaped
    <2>4. i \in 1..l
        BY <2>1, <2>2
    <2>5. i \in 1..DartsPerVisit
        BY <2>3, <2>4 DEF DartsPerVisit
    <2> QED
        BY <2>1, <2>5
<1>4. Position(leg, s) = CHOOSE p \in (1..n) \X (1..DartsPerVisit) : At(p)
    BY <1>1 DEF Position
<1>5. At(<<v, i>>)
    BY <1>2, <1>3
<1>6. \A p \in (1..n) \X (1..DartsPerVisit) : At(p) => p = <<v, i>>
    <2>1. SUFFICES ASSUME NEW p \in (1..n) \X (1..DartsPerVisit), At(p)
                   PROVE  p = <<v, i>>
        OBVIOUS
    <2> HIDE DEF At
    <2>2. PICK w \in 1..n, j \in 1..DartsPerVisit : p = <<w, j>>
        OBVIOUS
    <2>3. Lies(leg.visits, s, w, j)
        BY <1>2, <2>1, <2>2
    <2>4. v = w /\ i = j
        BY <2>3, LiesOnce
    <2> QED
        BY <2>2, <2>4
<1> HIDE DEF At
<1> QED
    BY <1>3, <1>4, <1>5, <1>6

(* The columns of a visit row.                                             *)
LEMMA VisitRowSays ==
    ASSUME NEW visits, NEW v, NEW row, row = VisitRow(visits, v)
    PROVE  /\ row.team = visits[v].team /\ row.member = visits[v].member
           /\ row.verdict = VisitVerdict(visits[v])
           /\ row.team_visit = Cardinality({w \in 1..v - 1 : visits[w].team = visits[v].team})
BY DEF VisitRow

(* The rows of one leg, as the verifier looks at them.                     *)
LEMMA RightIsClean ==
    ASSUME NEW l \in LegRow, RowOK(l), NEW r, RowRight(r, l.starter, l.darts),
           r.caches = CacheRows(LegOf(l))
    PROVE  /\ VerifyLeg(l, r) = {}
           /\ \A v \in DOMAIN LegOf(l).visits : r.visits[v] = VisitRow(LegOf(l).visits, v)
           /\ \A s \in DOMAIN l.darts :
                <<r.darts[s].visit, r.darts[s].index>> = Position(LegOf(l), s)
<1>1. PICK leg : leg = LegOf(l) /\ leg = LegAfter(l.starter, l.darts)
    BY DEF LegOf
<1>2. PICK visits : visits = leg.visits
    OBVIOUS
<1>3. /\ Shaped(visits) /\ VisitsRight(r.visits, visits)
      /\ DartsRight(r.darts, visits, l.starter, l.darts)
    BY <1>1, <1>2 DEF RowRight, Covers
<1>4. DOMAIN visits = 1..Len(visits) /\ DOMAIN l.darts = 1..Len(l.darts)
    <2>1. l.darts \in Seq(Dart)
        BY DartSeqLemma DEF LegRow
    <2> QED
        BY <1>3, <2>1, IsSeqLen, LenProperties DEF Shaped
<1>5. /\ Len(r.visits) = Len(visits)
      /\ \A v \in DOMAIN visits : r.visits[v] = VisitRow(visits, v)
    BY <1>3, <1>4 DEF VisitsRight
<1>6. ASSUME NEW s \in DOMAIN l.darts
      PROVE  \E p : /\ p = Position(leg, s)
                    /\ <<r.darts[s].visit, r.darts[s].index>> = p
                    /\ r.darts[s] = DartRow(visits[p[1]], p[1], p[2],
                                            Prior(l.starter, l.darts, s))
    <2>1. DartRight(r.darts[s], visits, l.starter, l.darts, s)
        BY <1>3, <1>4 DEF DartsRight
    <2>2. PICK v, i : /\ Lies(visits, s, v, i)
                      /\ r.darts[s] = DartRow(visits[v], v, i, Prior(l.starter, l.darts, s))
        BY <2>1 DEF DartRight
    <2>3. Position(leg, s) = <<v, i>>
        BY <1>2, <1>3, <2>2, PositionIs
    <2>4. r.darts[s].visit = v /\ r.darts[s].index = i
        BY <2>2 DEF DartRow
    <2>5. <<v, i>>[1] = v /\ <<v, i>>[2] = i
        OBVIOUS
    <2>6. PICK p : p = <<v, i>>
        OBVIOUS
    <2> QED
        BY <2>2, <2>3, <2>4, <2>5, <2>6
<1>7. CheckWinner(l, leg) = {}
    BY <1>1, NotRefused DEF CheckWinner
<1>8. CheckVisits(r, leg) = {}
    <2>1. \A v \in DOMAIN visits : r.visits[v].verdict = VisitVerdict(visits[v])
        <3>1. SUFFICES ASSUME NEW v \in DOMAIN visits
                       PROVE  r.visits[v].verdict = VisitVerdict(visits[v])
            OBVIOUS
        <3>2. PICK row : row = r.visits[v] /\ row = VisitRow(visits, v)
            BY <1>5
        <3>3. row.verdict = VisitVerdict(visits[v])
            BY <3>2 DEF VisitRow
        <3> QED
            BY <3>2, <3>3
    <2> QED
        BY <1>2, <1>5, <2>1 DEF CheckVisits
<1>9. CheckDarts(l, r, leg) = {}
    <2>1. ASSUME NEW s \in DOMAIN l.darts
          PROVE  r.darts[s].flags = ExpectedFlags(l, leg, s)
        <3>1. PICK p : /\ p = Position(leg, s)
                       /\ r.darts[s] = DartRow(visits[p[1]], p[1], p[2],
                                               Prior(l.starter, l.darts, s))
            BY <1>6
        <3>2. r.darts[s].flags = DartFlags(visits[p[1]], p[2],
                    LegAfter(l.starter, SubSeq(l.darts, 1, s - 1)).teams[visits[p[1]].team])
            BY <3>1 DEF DartRow, Prior
        <3> QED
            BY <1>2, <3>1, <3>2 DEF ExpectedFlags
    <2> QED
        BY <2>1 DEF CheckDarts
<1>10. CheckCricket(l, r, leg) = {}
    <2>1. ASSUME NEW s \in DOMAIN l.darts
          PROVE  r.darts[s].cricket = CricketRows(leg.visits[Position(leg, s)[1]],
                                                  Position(leg, s)[2])
        <3>1. PICK p : /\ p = Position(leg, s)
                       /\ r.darts[s] = DartRow(visits[p[1]], p[1], p[2],
                                               Prior(l.starter, l.darts, s))
            BY <1>6
        <3>2. r.darts[s].cricket = CricketRows(visits[p[1]], p[2])
            BY <3>1 DEF DartRow
        <3> QED
            BY <1>2, <3>1, <3>2
    <2>2. ASSUME NEW s \in DOMAIN l.darts, IsX01
          PROVE  r.darts[s].cricket.effects = {} /\ r.darts[s].cricket.awards = {}
        BY <2>1, <2>2 DEF CricketRows
    <2> QED
        BY <2>1, <2>2 DEF CheckCricket
<1>11. CheckCaches(r, leg) = {}
    BY <1>1 DEF CheckCaches
<1> QED
    BY <1>1, <1>2, <1>5, <1>6, <1>7, <1>8, <1>9, <1>10, <1>11 DEF VerifyLeg

RowsInv == Inductive /\ CachesAgree /\ AllRight

(* A new match has right rows: none.                                       *)
LEMMA RowsStart == ASSUME RowsInit PROVE RowsInv
<1>1. Init /\ rows = <<NoRows>>
    BY DEF RowsInit
<1>2. Inductive
    BY <1>1, FirstLegIsRight
<1>3. CachesAgree
    BY <1>1, NothingKept
<1>4. Len(legs) = 1 /\ legs[1].darts = <<>> /\ rows[1] = NoRows
    BY <1>1 DEF Init, NewLeg
<1>5. AllRight
    BY <1>4, NothingRight DEF AllRight
<1> QED
    BY <1>2, <1>3, <1>5 DEF RowsInv

(* A dart, an undo, an abandoned match: all keep the rows right.           *)
LEMMA RowsStep ==
    ASSUME RowsInv, [RowsNext]_rowVars
    PROVE  RowsInv'
<1>1. CASE RowsNext
    BY <1>1, WritesKeepCaches, WritesKeepRows DEF RowsInv
<1>2. CASE UNCHANGED rowVars
    BY <1>2 DEF RowsInv, rowVars, vars, Inductive, CachesAgree, AllRight
<1> QED
    BY <1>1, <1>2

(* So the rows are always right.                                           *)
LEMMA RowsHold == RowsSpec => []RowsInv
<1>1. RowsInit => RowsInv
    BY RowsStart
<1>2. RowsInv /\ [RowsNext]_rowVars => RowsInv'
    BY RowsStep
<1> QED
    BY <1>1, <1>2, PTL DEF RowsSpec

(* What that says of one leg.                                              *)
LEMMA LegsAreClean ==
    ASSUME RowsInv, NEW k \in 1..Len(legs)
    PROVE  /\ legs[k] \in LegRow /\ RowOK(legs[k])
           /\ RowRight(rows[k], legs[k].starter, legs[k].darts)
           /\ rows[k].caches = CacheRows(LegOf(legs[k]))
BY ElementOfSeq DEF RowsInv, Inductive, LegsOK, CachesAgree, AllRight

(* After any mix of throws and undos, whatever the rules and however many  *)
(* the teams and legs, darts-verify (services/verify.py) finds nothing.    *)
THEOREM NothingToFind == RowsSpec => []VerifyFindsNothing
<1>1. ASSUME RowsInv
      PROVE  VerifyFindsNothing
    <2>1. DOMAIN legs = 1..Len(legs) /\ winner = Champion(legs)
        BY <1>1, LenProperties DEF RowsInv, Inductive, LegsOK
    <2>2. \A k \in DOMAIN legs : VerifyLeg(legs[k], rows[k]) = {}
        BY <1>1, <2>1, LegsAreClean, RightIsClean
    <2> QED
        BY <2>1, <2>2 DEF VerifyFindsNothing, VerifyMatch
<1> QED
    BY <1>1, RowsHold, PTL

(* What darts-verify does not look at is right as well: whose visit each   *)
(* is and which of the team's, and which visit each dart belongs to.       *)
THEOREM RowsSitRight == RowsSpec => []RowsSitWithTheirThrowers
<1>1. ASSUME RowsInv
      PROVE  RowsSitWithTheirThrowers
    <2>1. DOMAIN legs = 1..Len(legs)
        BY <1>1, LenProperties DEF RowsInv, Inductive, LegsOK
    <2>2. ASSUME NEW k \in DOMAIN legs
          PROVE  /\ \A v \in DOMAIN LegOf(legs[k]).visits :
                      rows[k].visits[v] = VisitRow(LegOf(legs[k]).visits, v)
                 /\ \A s \in DOMAIN legs[k].darts :
                      <<rows[k].darts[s].visit, rows[k].darts[s].index>>
                          = Position(LegOf(legs[k]), s)
        <3>1. /\ legs[k] \in LegRow /\ RowOK(legs[k])
              /\ RowRight(rows[k], legs[k].starter, legs[k].darts)
              /\ rows[k].caches = CacheRows(LegOf(legs[k]))
            BY <1>1, <2>1, LegsAreClean
        <3> QED
            BY <3>1, RightIsClean
    <2>3. \A k \in DOMAIN legs : \A v \in DOMAIN LegOf(legs[k]).visits :
              /\ rows[k].visits[v].team = LegOf(legs[k]).visits[v].team
              /\ rows[k].visits[v].member = LegOf(legs[k]).visits[v].member
              /\ rows[k].visits[v].team_visit
                    = Cardinality({w \in 1..v - 1 :
                          LegOf(legs[k]).visits[w].team = LegOf(legs[k]).visits[v].team})
        <3>1. SUFFICES ASSUME NEW k \in DOMAIN legs, NEW v \in DOMAIN LegOf(legs[k]).visits,
                              NEW row, row = rows[k].visits[v],
                              NEW visits, visits = LegOf(legs[k]).visits
                       PROVE  /\ row.team = visits[v].team /\ row.member = visits[v].member
                              /\ row.team_visit
                                    = Cardinality({w \in 1..v - 1 :
                                          visits[w].team = visits[v].team})
            OBVIOUS
        <3>2. row = VisitRow(visits, v)
            BY <2>2, <3>1
        <3> QED
            BY <3>2, VisitRowSays
    <2> QED
        BY <2>2, <2>3 DEF RowsSitWithTheirThrowers, LegOf
<1> QED
    BY <1>1, RowsHold, PTL
-----------------------------------------------------------------------------
(* The rows of a leg with its caches: right in every column.               *)
LegRight(l, r) ==
    /\ l \in LegRow /\ RowOK(l)
    /\ RowRight(r, l.starter, l.darts) /\ r.caches = CacheRows(LegOf(l))
    /\ r = [visits |-> r.visits, darts |-> r.darts, caches |-> r.caches]

(* The legs of a match are right, rows and caches.                         *)
LEMMA LegsAreRight ==
    ASSUME RowsInv, NEW k \in 1..Len(legs)
    PROVE  LegRight(legs[k], rows[k])
<1>1. /\ legs[k] \in LegRow /\ RowOK(legs[k])
      /\ RowRight(rows[k], legs[k].starter, legs[k].darts)
      /\ rows[k].caches = CacheRows(LegOf(legs[k]))
    BY LegsAreClean
<1>2. CachesAgree
    BY DEF RowsInv
<1>3. rows[k] = [visits |-> rows[k].visits, darts |-> rows[k].darts, caches |-> rows[k].caches]
    BY <1>2 DEF CachesAgree
<1> QED
    BY <1>1, <1>3 DEF LegRight

(* The columns the verifier recomputes, and that any change of them shows. *)
Differs(q, r, l) ==
    \/ q.caches # r.caches
    \/ Len(q.visits) # Len(r.visits)
    \/ \E v \in DOMAIN r.visits : q.visits[v].verdict # r.visits[v].verdict
    \/ \E s \in DOMAIN r.darts : q.darts[s].flags # r.darts[s].flags
    \/ \E s \in DOMAIN r.darts : q.darts[s].cricket.effects # r.darts[s].cricket.effects

(* Such a leg has a row for each visit, and for each dart.                 *)
LEMMA Domains ==
    ASSUME NEW l, NEW r, LegRight(l, r)
    PROVE  /\ IsSeq(r.visits) /\ IsSeq(r.darts)
           /\ DOMAIN r.visits = DOMAIN LegOf(l).visits
           /\ Len(r.visits) = Len(LegOf(l).visits)
           /\ DOMAIN r.darts = DOMAIN l.darts
<1>1. PICK visits : visits = LegOf(l).visits /\ visits = LegAfter(l.starter, l.darts).visits
    BY DEF LegOf
<1>2. /\ Shaped(visits) /\ VisitsRight(r.visits, visits)
      /\ DartsRight(r.darts, visits, l.starter, l.darts)
    BY <1>1 DEF LegRight, RowRight, Covers
<1>3. l.darts \in Seq(Dart)
    BY DartSeqLemma DEF LegRight, LegRow
<1>4. /\ IsSeq(visits) /\ IsSeq(r.visits) /\ IsSeq(r.darts) /\ IsSeq(l.darts)
      /\ Len(r.visits) = Len(visits) /\ Len(r.darts) = Len(l.darts)
    BY <1>2, <1>3 DEF Shaped, VisitsRight, DartsRight, IsSeq
<1> QED
    BY <1>1, <1>4, IsSeqLen

(* The verifier reports rows that differ in any of them.                   *)
LEMMA DifferenceShows ==
    ASSUME NEW l, NEW r, LegRight(l, r), NEW q, Differs(q, r, l)
    PROVE  VerifyLeg(l, q) # {}
<1>1. PICK leg : leg = LegOf(l) /\ leg = LegAfter(l.starter, l.darts)
    BY DEF LegOf
<1>2. /\ CheckVisits(r, leg) = {} /\ CheckDarts(l, r, leg) = {} /\ CheckCricket(l, r, leg) = {}
      /\ r.caches = CacheRows(leg)
    <2>1. VerifyLeg(l, r) = {} /\ r.caches = CacheRows(leg)
        BY <1>1, RightIsClean DEF LegRight
    <2> QED
        BY <1>1, <2>1 DEF VerifyLeg
<1>3. /\ DOMAIN r.visits = DOMAIN leg.visits /\ Len(r.visits) = Len(leg.visits)
      /\ DOMAIN r.darts = DOMAIN l.darts
    BY <1>1, Domains
<1>4. SUFFICES \/ CheckCaches(q, leg) # {} \/ CheckVisits(q, leg) # {}
               \/ CheckDarts(l, q, leg) # {} \/ CheckCricket(l, q, leg) # {}
    BY <1>1 DEF VerifyLeg
<1>5. CASE q.caches # r.caches
    BY <1>2, <1>5 DEF CheckCaches
<1>6. CASE Len(q.visits) # Len(r.visits)
    BY <1>3, <1>6 DEF CheckVisits
<1>7. ASSUME NEW v \in DOMAIN r.visits, q.visits[v].verdict # r.visits[v].verdict
      PROVE  CheckVisits(q, leg) # {}
    <2>1. r.visits[v].verdict = VisitVerdict(leg.visits[v])
        BY <1>2, <1>3 DEF CheckVisits
    <2>2. v \in {w \in DOMAIN leg.visits : q.visits[w].verdict # VisitVerdict(leg.visits[w])}
        BY <1>3, <1>7, <2>1
    <2> QED
        BY <2>2 DEF CheckVisits
<1>8. ASSUME NEW s \in DOMAIN r.darts, q.darts[s].flags # r.darts[s].flags
      PROVE  CheckDarts(l, q, leg) # {}
    <2>1. r.darts[s].flags = ExpectedFlags(l, leg, s)
        BY <1>2, <1>3 DEF CheckDarts
    <2>2. s \in {i \in DOMAIN l.darts : q.darts[i].flags # ExpectedFlags(l, leg, i)}
        BY <1>3, <1>8, <2>1
    <2> QED
        BY <2>2 DEF CheckDarts
<1>9. ASSUME NEW s \in DOMAIN r.darts,
             q.darts[s].cricket.effects # r.darts[s].cricket.effects
      PROVE  CheckCricket(l, q, leg) # {}
    <2>1. CASE IsX01
        <3>1. r.darts[s].cricket.effects = {}
            BY <1>2, <1>3, <2>1 DEF CheckCricket
        <3>2. ~(\A i \in DOMAIN l.darts :
                    q.darts[i].cricket.effects = {} /\ q.darts[i].cricket.awards = {})
            BY <1>3, <1>9, <3>1
        <3> QED
            BY <2>1, <3>2 DEF CheckCricket
    <2>2. CASE ~IsX01
        <3> DEFINE Expected(i) == CricketRows(leg.visits[Position(leg, i)[1]],
                                              Position(leg, i)[2])
        <3>1. {<<"effect", i>> : i \in {j \in DOMAIN l.darts :
                  r.darts[j].cricket.effects # Expected(j).effects}} = {}
            BY <1>2, <2>2 DEF CheckCricket
        <3>2. r.darts[s].cricket.effects = Expected(s).effects
            BY <1>3, <3>1
        <3>3. s \in {j \in DOMAIN l.darts : q.darts[j].cricket.effects # Expected(j).effects}
            BY <1>3, <1>9, <3>2
        <3> QED
            BY <2>2, <3>3 DEF CheckCricket
    <2> QED
        BY <2>1, <2>2
<1> QED
    BY <1>5, <1>6, <1>7, <1>8, <1>9 DEF Differs

(* A change of one row that is a change shows in the column changed.       *)
LEMMA VisitEdited ==
    ASSUME NEW l, NEW r, LegRight(l, r), NEW v \in DOMAIN r.visits, NEW verdict,
           NEW q, q # r, q = [r EXCEPT !.visits[v].verdict = verdict]
    PROVE  Differs(q, r, l)
<1>1. PICK row, visits : row = r.visits[v] /\ visits = r.visits
    OBVIOUS
<1>2. row = [team |-> row.team, member |-> row.member, team_visit |-> row.team_visit,
             verdict |-> row.verdict]
    <2>1. row = VisitRow(LegOf(l).visits, v)
        <3>1. \A w \in DOMAIN LegOf(l).visits : r.visits[w] = VisitRow(LegOf(l).visits, w)
            BY RightIsClean DEF LegRight
        <3> QED
            BY <1>1, <3>1, Domains
    <2> QED
        BY <2>1 DEF VisitRow
<1>3. PICK new : new = [row EXCEPT !.verdict = verdict]
    OBVIOUS
<1>4. q = [r EXCEPT !.visits = [visits EXCEPT ![v] = new]]
    BY <1>1, <1>3
<1>5. q.visits = [visits EXCEPT ![v] = new]
    BY <1>4 DEF LegRight
<1>6. q.visits[v] = new /\ new.verdict = verdict
    BY <1>1, <1>2, <1>3, <1>5
<1>7. CASE verdict = row.verdict
    <2>1. new = row
        BY <1>2, <1>3, <1>7
    <2>2. [visits EXCEPT ![v] = new] = visits
        <3>1. visits = [w \in DOMAIN visits |-> visits[w]]
            BY <1>1, Domains DEF IsSeq
        <3> QED
            BY <1>1, <2>1, <3>1
    <2>3. q = r
        BY <1>1, <1>4, <2>2 DEF LegRight
    <2> QED
        BY <2>3
<1>8. CASE verdict # row.verdict
    BY <1>1, <1>6, <1>8 DEF Differs
<1> QED
    BY <1>7, <1>8

(* Writing other flags or effects to a dart is such a difference.          *)
LEMMA DartEdited ==
    ASSUME NEW l, NEW r, LegRight(l, r), NEW s \in DOMAIN r.darts, NEW new,
           NEW q, q = [r EXCEPT !.darts[s] = new],
           \/ new.flags # r.darts[s].flags
           \/ new.cricket.effects # r.darts[s].cricket.effects
    PROVE  Differs(q, r, l)
<1>1. q.darts = [r.darts EXCEPT ![s] = new]
    BY DEF LegRight
<1>2. q.darts[s] = new
    BY <1>1
<1> QED
    BY <1>2 DEF Differs

(* The columns of a dart's row, as records.                                *)
DartColumns(row) ==
    /\ row = [visit |-> row.visit, index |-> row.index, flags |-> row.flags,
              cricket |-> row.cricket]
    /\ row.flags = [counted |-> row.flags.counted, caused_bust |-> row.flags.caused_bust,
                    attempt |-> row.flags.attempt]
    /\ row.flags.counted \in BOOLEAN /\ row.flags.attempt \in BOOLEAN
    /\ row.cricket = [effects |-> row.cricket.effects, awards |-> row.cricket.awards]

(* The rows that the code writes have these columns.                       *)
LEMMA ColumnsAre ==
    ASSUME NEW l, NEW r, LegRight(l, r), NEW s \in DOMAIN r.darts
    PROVE  DartColumns(r.darts[s])
<1>1. PICK row, visits : row = r.darts[s] /\ visits = LegAfter(l.starter, l.darts).visits
    OBVIOUS
<1>2. PICK v, i : /\ Lies(visits, s, v, i)
                  /\ row = DartRow(visits[v], v, i, Prior(l.starter, l.darts, s))
    <2>1. l.darts \in Seq(Dart)
        BY DartSeqLemma DEF LegRight, LegRow
    <2>2. s \in 1..Len(l.darts)
        BY <2>1, Domains, LenProperties
    <2>3. DartRight(row, visits, l.starter, l.darts, s)
        BY <1>1, <2>2 DEF LegRight, RowRight, DartsRight
    <2> QED
        BY <2>3 DEF DartRight
<1>3. PICK visit, team : visit = visits[v] /\
          row = [visit |-> v, index |-> i, flags |-> DartFlags(visit, i, team),
                 cricket |-> CricketRows(visit, i)]
    BY <1>2 DEF DartRow
<1>4. i \in DOMAIN visit.darts
    <2>1. Shaped(visits) /\ v \in 1..Len(visits) /\ i \in 1..Len(visit.darts)
        BY <1>1, <1>2, <1>3 DEF LegRight, RowRight, Covers, Lies
    <2> QED
        BY <1>3, <2>1, IsSeqLen DEF Shaped
<1>5. PICK flags, cricket : flags = DartFlags(visit, i, team) /\ cricket = CricketRows(visit, i)
    OBVIOUS
<1>6. CountedFlags(visit)[i] \in BOOLEAN
    BY <1>4 DEF CountedFlags
<1>7. /\ flags = [counted |-> flags.counted, caused_bust |-> flags.caused_bust,
                  attempt |-> flags.attempt]
      /\ flags.counted \in BOOLEAN
    BY <1>5, <1>6 DEF DartFlags
<1>8. flags.attempt \in BOOLEAN
    BY <1>5 DEF DartFlags
<1>9. cricket = [effects |-> cricket.effects, awards |-> cricket.awards]
    BY <1>5 DEF CricketRows
<1>10. /\ row.visit = v /\ row.index = i /\ row.flags = flags /\ row.cricket = cricket
       /\ row = [visit |-> v, index |-> i, flags |-> flags, cricket |-> cricket]
    BY <1>3, <1>5
<1> QED
    BY <1>1, <1>7, <1>8, <1>9, <1>10 DEF DartColumns

(* Rows that a write forgot to refresh differ, unless they need no         *)
(* refreshing.                                                             *)
LEMMA StaleShows ==
    ASSUME NEW l, NEW r, LegRight(l, r), NEW q \in StaleRows(l, r), q # r
    PROVE  Differs(q, r, l)
<1>1. ASSUME NEW caches, q = [r EXCEPT !.caches = caches]
      PROVE  Differs(q, r, l)
    <2>1. q.caches # r.caches
        BY <1>1 DEF LegRight
    <2> QED
        BY <2>1 DEF Differs
<1>2. ASSUME NEW n \in 0..Len(r.visits) - 1, q = [r EXCEPT !.visits = SubSeq(@, 1, n)]
      PROVE  Differs(q, r, l)
    <2>1. IsSeq(r.visits) /\ q.visits = SubSeq(r.visits, 1, n)
        BY <1>2, Domains DEF LegRight
    <2>2. PICK S : r.visits \in Seq(S)
        BY <2>1 DEF IsSeq
    <2>3. Len(r.visits) \in Nat /\ \A i \in 1..n : r.visits[i] \in S
        BY <2>2, LenProperties, ElementOfSeq
    <2>4. Len(q.visits) = n
        BY <2>1, <2>2, <2>3, SubSeqProperties, SMTT(40)
    <2> QED
        BY <2>3, <2>4 DEF Differs
<1> QED
    BY <1>1, <1>2 DEF StaleRows

(* Rows that were edited by hand differ, unless the edit changed nothing.  *)
LEMMA EditShows ==
    ASSUME NEW l, NEW r, LegRight(l, r), NEW q \in EditedRows(r), q # r
    PROVE  Differs(q, r, l)
<1>1. ASSUME NEW v \in DOMAIN r.visits, q = [r EXCEPT !.visits[v].verdict.complete = ~@]
      PROVE  Differs(q, r, l)
    <2>1. PICK verdict : verdict = [r.visits[v].verdict EXCEPT !.complete = ~@]
        OBVIOUS
    <2>2. q = [r EXCEPT !.visits[v].verdict = verdict]
        BY <1>1, <2>1
    <2> QED
        BY <2>2, VisitEdited
<1>2. ASSUME NEW v \in DOMAIN r.visits, q = [r EXCEPT !.visits[v].verdict.after = @ + 1]
      PROVE  Differs(q, r, l)
    <2>1. PICK verdict : verdict = [r.visits[v].verdict EXCEPT !.after = @ + 1]
        OBVIOUS
    <2>2. q = [r EXCEPT !.visits[v].verdict = verdict]
        BY <1>2, <2>1
    <2> QED
        BY <2>2, VisitEdited
<1>3. ASSUME NEW s \in DOMAIN r.darts, q = [r EXCEPT !.darts[s].flags.counted = ~@]
      PROVE  Differs(q, r, l)
    <2>1. PICK row, flags, f : row = r.darts[s] /\ flags = row.flags
                               /\ f = [flags EXCEPT !.counted = ~@]
        OBVIOUS
    <2>2. /\ row = [visit |-> row.visit, index |-> row.index, flags |-> flags,
                    cricket |-> row.cricket]
          /\ flags = [counted |-> flags.counted, caused_bust |-> flags.caused_bust,
                      attempt |-> flags.attempt]
          /\ flags.counted \in BOOLEAN
        <3>1. DartColumns(row)
            BY <2>1, ColumnsAre
        <3> QED
            BY <2>1, <3>1 DEF DartColumns
    <2>3. f.counted # flags.counted
        BY <2>1, <2>2
    <2>4. PICK new : new = [row EXCEPT !.flags = f]
        OBVIOUS
    <2>5. new.flags = f
        BY <2>2, <2>4
    <2>6. q = [r EXCEPT !.darts[s] = new]
        BY <1>3, <2>1, <2>4
    <2> QED
        BY <2>1, <2>3, <2>5, <2>6, DartEdited
<1>4. ASSUME NEW s \in DOMAIN r.darts, q = [r EXCEPT !.darts[s].flags.attempt = ~@]
      PROVE  Differs(q, r, l)
    <2>1. PICK row, flags, f : row = r.darts[s] /\ flags = row.flags
                               /\ f = [flags EXCEPT !.attempt = ~@]
        OBVIOUS
    <2>2. /\ row = [visit |-> row.visit, index |-> row.index, flags |-> flags,
                    cricket |-> row.cricket]
          /\ flags = [counted |-> flags.counted, caused_bust |-> flags.caused_bust,
                      attempt |-> flags.attempt]
          /\ flags.attempt \in BOOLEAN
        <3>1. DartColumns(row)
            BY <2>1, ColumnsAre
        <3> QED
            BY <2>1, <3>1 DEF DartColumns
    <2>3. f.attempt # flags.attempt
        BY <2>1, <2>2
    <2>4. PICK new : new = [row EXCEPT !.flags = f]
        OBVIOUS
    <2>5. new.flags = f
        BY <2>2, <2>4
    <2>6. q = [r EXCEPT !.darts[s] = new]
        BY <1>4, <2>1, <2>4
    <2> QED
        BY <2>1, <2>3, <2>5, <2>6, DartEdited
<1>5. ASSUME NEW s \in DOMAIN r.darts, NEW effects, effects # r.darts[s].cricket.effects,
             q = [r EXCEPT !.darts[s].cricket.effects = effects]
      PROVE  Differs(q, r, l)
    <2>1. PICK row, cricket, c : row = r.darts[s] /\ cricket = row.cricket
                                 /\ c = [cricket EXCEPT !.effects = effects]
        OBVIOUS
    <2>2. /\ row = [visit |-> row.visit, index |-> row.index, flags |-> row.flags,
                    cricket |-> cricket]
          /\ cricket = [effects |-> cricket.effects, awards |-> cricket.awards]
        <3>1. DartColumns(row)
            BY <2>1, ColumnsAre
        <3> QED
            BY <2>1, <3>1 DEF DartColumns
    <2>3. c.effects = effects
        BY <2>1, <2>2
    <2>4. PICK new : new = [row EXCEPT !.cricket = c]
        OBVIOUS
    <2>5. new.cricket = c
        BY <2>2, <2>4
    <2>6. q = [r EXCEPT !.darts[s] = new]
        BY <1>5, <2>1, <2>4
    <2>7. new.cricket.effects # r.darts[s].cricket.effects
        BY <1>5, <2>3, <2>5
    <2> QED
        BY <2>6, <2>7, DartEdited
<1>6. ASSUME NEW s \in DOMAIN r.darts,
             q = [r EXCEPT !.darts[s].cricket.effects =
                     IF @ = {} THEN {[target |-> 20, marks |-> 1, surplus |-> 0, wasted |-> FALSE]}
                     ELSE {}]
      PROVE  Differs(q, r, l)
    <2>1. PICK effects :
              effects = IF r.darts[s].cricket.effects = {}
                        THEN {[target |-> 20, marks |-> 1, surplus |-> 0, wasted |-> FALSE]}
                        ELSE {}
        OBVIOUS
    <2>2. effects # r.darts[s].cricket.effects
        BY <2>1
    <2>3. q = [r EXCEPT !.darts[s].cricket.effects = effects]
        BY <1>6, <2>1
    <2> QED
        BY <1>5, <2>2, <2>3
<1> QED
    BY <1>1, <1>2, <1>3, <1>4, <1>6, Zenon DEF EditedRows

(* A conclusion stored with a leg or with the match is missed no more.     *)
LEMMA WrongWinnerShows ==
    ASSUME RowsInv, NEW k \in 1..Len(legs), NEW w, w # legs[k].winner
    PROVE  VerifyMatch([legs EXCEPT ![k].winner = w], rows, winner) # {}
<1>1. LegRight(legs[k], rows[k]) /\ DOMAIN legs = 1..Len(legs)
    BY LegsAreRight, LenProperties DEF RowsInv, Inductive, LegsOK
<1>2. PICK l, q, ls : /\ l = legs[k] /\ q = [l EXCEPT !.winner = w]
                      /\ ls = [legs EXCEPT ![k].winner = w]
    OBVIOUS
<1>3. DOMAIN ls = DOMAIN legs /\ ls[k] = q /\ k \in DOMAIN ls
    BY <1>1, <1>2
<1>4. q.winner = w /\ q.starter = l.starter /\ q.darts = l.darts
    BY <1>1, <1>2 DEF LegRight, LegRow
<1>5. l.winner = LegAfter(l.starter, l.darts).winner
    BY <1>1, <1>2, NotRefused DEF LegRight, LegOf
<1>6. CheckWinner(q, LegAfter(q.starter, q.darts)) # {}
    BY <1>2, <1>4, <1>5 DEF CheckWinner
<1>7. PICK subject : subject \in VerifyLeg(ls[k], rows[k])
    BY <1>3, <1>6 DEF VerifyLeg
<1>8. <<k, subject>> \in VerifyMatch(ls, rows, winner)
    <2>1. <<k, subject>> \in {<<k, other>> : other \in VerifyLeg(ls[k], rows[k])}
        BY <1>7
    <2>2. <<k, subject>> \in
              UNION {{<<j, other>> : other \in VerifyLeg(ls[j], rows[j])} : j \in DOMAIN ls}
        BY <1>3, <2>1
    <2> QED
        BY <2>2 DEF VerifyMatch
<1> QED
    BY <1>2, <1>8

(* A match whose stored winner is not its champion.                        *)
LEMMA WrongChampionShows ==
    ASSUME NEW ls, NEW rs, NEW w, w # Champion(ls)
    PROVE  VerifyMatch(ls, rs, w) # {}
<1>1. \A others : others \cup {<<"match winner">>} # {}
    OBVIOUS
<1> QED
    BY <1>1 DEF VerifyMatch

(* And darts-verify is not silent for want of looking: a conclusion gone   *)
(* stale or edited by hand, in whatever leg of whatever match, is found.   *)
THEOREM NothingMissed == RowsSpec => []VerifyMissesNothing
<1>1. ASSUME RowsInv
      PROVE  VerifyMissesNothing
    <2>1. DOMAIN legs = 1..Len(legs) /\ winner = Champion(legs)
        BY <1>1, LenProperties DEF RowsInv, Inductive, LegsOK
    <2>2. ASSUME NEW k \in DOMAIN legs,
                 NEW q \in (StaleRows(legs[k], rows[k]) \cup EditedRows(rows[k])) \ {rows[k]}
          PROVE  VerifyLeg(legs[k], q) # {}
        <3>1. LegRight(legs[k], rows[k])
            BY <1>1, <2>1, LegsAreRight
        <3>2. Differs(q, rows[k], legs[k])
            BY <2>2, <3>1, StaleShows, EditShows
        <3> QED
            BY <3>1, <3>2, DifferenceShows
    <2>3. ASSUME NEW k \in DOMAIN legs, NEW w \in (Team \cup {NoTeam}) \ {legs[k].winner}
          PROVE  VerifyMatch([legs EXCEPT ![k].winner = w], rows, winner) # {}
        BY <1>1, <2>1, WrongWinnerShows
    <2>4. ASSUME NEW w \in (Team \cup {NoTeam}) \ {winner}
          PROVE  VerifyMatch(legs, rows, w) # {}
        <3>1. w # Champion(legs)
            BY <2>1
        <3> QED
            BY <3>1, WrongChampionShows
    <2> QED
        BY <2>2, <2>3, <2>4 DEF VerifyMissesNothing
<1> QED
    BY <1>1, RowsHold, PTL
-----------------------------------------------------------------------------
(* The boards a request has seen: the last is the one there is now.  A leg *)
(* one of them had and the last has not was deleted in between.            *)
BoardType == [legs : Seq(LegRow), winner : Team \cup {NoTeam}, abandoned : BOOLEAN]

Had(seen, k) == k \in Nat \ {0} /\ \E i \in 1..Len(seen) : k <= Len(seen[i].legs)

Shrunk(seen) == \E i \in 2..Len(seen) : Len(seen[i].legs) < Len(seen[i - 1].legs)

(* A leg that was seen and is not there was deleted in between.            *)
LEMMA HadAndGone ==
    ASSUME NEW seen \in Seq(BoardType), NEW k, Had(seen, k),
           k \notin DOMAIN seen[Len(seen)].legs
    PROVE  Shrunk(seen)
<1>1. /\ Len(seen) \in Nat
      /\ \A j \in 1..Len(seen) : Len(seen[j].legs) \in Nat
                                  /\ DOMAIN seen[j].legs = 1..Len(seen[j].legs)
    BY LenProperties, ElementOfSeq DEF BoardType
<1>2. PICK i \in 1..Len(seen) : k <= Len(seen[i].legs)
    BY DEF Had
<1> DEFINE T == {j \in i..Len(seen) : Len(seen[j].legs) < k}
<1>3. k \in Nat \ {0} /\ T \in SUBSET Nat /\ Len(seen) \in T
    <2>1. Len(seen) \in 1..Len(seen) /\ Len(seen) \in i..Len(seen)
        BY <1>1, <1>2
    <2> QED
        BY <1>1, <2>1 DEF Had
<1>4. PICK j \in T : \A m \in T : j <= m
    <2> HIDE DEF T
    <2> QED
        BY <1>3, LeastNumber
<1>5. j # i /\ j \in 2..Len(seen) /\ j - 1 \in i..Len(seen) /\ j - 1 \in 1..Len(seen)
    BY <1>1, <1>2, <1>3
<1>6. j - 1 \notin T
    BY <1>4, <1>5
<1>7. Len(seen[j - 1].legs) >= k /\ Len(seen[j].legs) < k
    BY <1>1, <1>3, <1>5, <1>6
<1> QED
    BY <1>1, <1>3, <1>5, <1>7 DEF Shrunk

(* Another board seen changes nothing of that.                             *)
LEMMA SeenMore ==
    ASSUME NEW seen \in Seq(BoardType), seen # <<>>, NEW board \in BoardType,
           NEW more, more = Append(seen, board)
    PROVE  /\ more \in Seq(BoardType) /\ more # <<>> /\ more # seen
           /\ Len(more) > 1 /\ more[Len(more)] = board
           /\ \A k : Had(seen, k) => Had(more, k)
           /\ \A i \in 1..Len(seen) : i \in 1..Len(more) /\ more[i] = seen[i]
<1>1. Len(seen) \in Nat \ {0}
    BY LenProperties, EmptySeq
<1>2. /\ more \in Seq(BoardType) /\ more # <<>> /\ Len(more) = Len(seen) + 1
      /\ \A i \in 1..Len(seen) : more[i] = seen[i]
      /\ more[Len(seen) + 1] = board
    BY AppendProperties
<1>3. \A i \in 1..Len(seen) : i \in 1..Len(more)
    BY <1>1, <1>2
<1> QED
    BY <1>1, <1>2, <1>3 DEF Had

(* A request, of each of its three forms.                                  *)
ReadForm(r) ==
    /\ r = [by |-> r.by, asked |-> r.asked, leg |-> r.leg, got |-> r.got, first |-> r.first,
            answer |-> r.answer, seen |-> r.seen]
    /\ r.by \in {"throw", "undo", "repeat", "get", "checkout"}

HistoryForm(r) ==
    /\ r = [by |-> r.by, seen |-> r.seen, answer |-> r.answer, darts |-> r.darts,
            told |-> r.told, listed |-> r.listed]
    /\ r.by = "history"

SweepForm(r) ==
    /\ r = [by |-> r.by, seen |-> r.seen, answer |-> r.answer, ids |-> r.ids, was |-> r.was,
            rebuilt |-> r.rebuilt, now |-> r.now, changed |-> r.changed]
    /\ r.by = "sweep"

(* A read looks for a leg that there was, and lists the legs of a board    *)
(* that there was.                                                         *)
ReadKnows(r) ==
    /\ Had(r.seen, r.leg)
    /\ \E S : r.got \in Seq(S)
    /\ Len(r.got) <= 5
    /\ Len(r.got) >= 4 => \E i \in 1..Len(r.seen) : DOMAIN r.got[4] = DOMAIN r.seen[i].legs

(* The sweep goes through the legs there were, and what it has read of the *)
(* caches is there as long as nobody else has written.                     *)
Found(r, n) == [i \in 1..n |-> StoredIn(CacheTables[i], Head(r.ids))]

Alone(seen) == Len(seen) = 1

BothRead(was) == Len(was) = 2

SweepKnows(r) ==
    /\ r.ids \in Seq(Nat) /\ r.ids # <<>>
    /\ \A j \in 1..Len(r.ids) : Had(r.seen, r.ids[j])
    /\ \E S : r.was \in Seq(S) /\ r.now \in Seq(S)
    /\ Len(r.was) <= 2 /\ Len(r.now) <= 1
    /\ r.rebuilt \in BOOLEAN
    /\ ~r.rebuilt => r.now = <<>>
    /\ r.rebuilt => BothRead(r.was)
    /\ r.changed \in Nat
    /\ Alone(r.seen) =>
          r.changed = 0 /\ r.was = Found(r, Len(r.was)) /\ r.now = Found(r, Len(r.now))

Told(r) ==
    /\ r.answer[1] \in {"not_found", "sweep_failed"} => Shrunk(r.seen)
    /\ r.answer[1] = "report" => (r.answer[2] > 0 => Len(r.seen) > 1)

ReqInv ==
    \/ req = NoRequest
    \/ /\ req.seen \in Seq(BoardType) /\ req.seen # <<>>
       /\ req.seen[Len(req.seen)] = Board
       /\ \/ ReadForm(req) /\ (req.answer = <<>> => ReadKnows(req))
          \/ HistoryForm(req)
          \/ SweepForm(req) /\ (req.answer = <<>> => SweepKnows(req))
       /\ req.answer # <<>> => Told(req)
-----------------------------------------------------------------------------
(* The leg that is active is one of the legs listed.                       *)
LEMMA ActiveIsListed ==
    ASSUME NEW k, NEW got, DOMAIN got[4] \subseteq Nat \ {0},
           ActiveId(GameState(k, got)) # 0
    PROVE  ActiveId(GameState(k, got)) \in DOMAIN got[4]
<1> DEFINE open == {i \in DOMAIN got[4] : got[4][i] = NoTeam}
<1>1. ActiveId(GameState(k, got)) \in {0, IF open = {} THEN 0 ELSE Min(open)}
    BY DEF ActiveId, GameState
<1>2. open # {} /\ ActiveId(GameState(k, got)) = Min(open)
    BY <1>1
<1>3. open \in SUBSET Nat
    OBVIOUS
<1>4. Min(open) \in open
    <2> HIDE DEF open
    <2>1. \E n \in open : \A m \in open : n <= m
        BY <1>2, <1>3, LeastNumber
    <2> QED
        BY <2>1 DEF Min
<1> QED
    BY <1>2, <1>4

(* An answer is given, or a second leg that there was is read.             *)
LEMMA RespondGoesOn ==
    ASSUME NEW r, ReadForm(r), r.answer = <<>>, NEW state,
           ActiveId(state) # 0 => Had(r.seen, ActiveId(state)),
           NEW q, q = Respond(r, state)
    PROVE  /\ ReadForm(q) /\ q.seen = r.seen
           /\ q.answer = <<>> => ReadKnows(q)
           /\ q.answer # <<>> => Told(q)
<1>1. CASE r.by = "checkout"
    <2>1. PICK hints : q = [r EXCEPT !.answer = <<"checkout", hints>>]
        BY <1>1 DEF Respond
    <2> QED
        BY <2>1 DEF ReadForm, Told
<1>2. CASE r.by # "checkout" /\ r.first = <<>> /\ ActiveId(state) \notin {0, state.current.leg}
    <2>1. q = [r EXCEPT !.first = <<state>>, !.leg = ActiveId(state), !.got = <<>>]
        BY <1>2 DEF Respond
    <2>2. <<>> \in Seq({}) /\ Len(<<>>) = 0
        BY EmptySeq
    <2>3. ReadForm(q) /\ q.seen = r.seen /\ q.answer = <<>>
          /\ q.leg = ActiveId(state) /\ q.got = <<>>
        BY <2>1 DEF ReadForm
    <2>4. Had(q.seen, q.leg)
        BY <1>2, <2>3
    <2> QED
        BY <2>2, <2>3, <2>4 DEF ReadKnows
<1>3. CASE r.by # "checkout" /\ ~(r.first = <<>> /\ ActiveId(state) \notin {0, state.current.leg})
    <2>1. PICK response : q = [r EXCEPT !.answer = <<"state", response>>]
        BY <1>3 DEF Respond
    <2> QED
        BY <2>1 DEF ReadForm, Told
<1> QED
    BY <1>1, <1>2, <1>3

(* The board there is now: the legs of the match, at least one.            *)
LEMMA BoardIsTyped ==
    Inductive => /\ Board \in BoardType
                 /\ Board.legs = legs /\ DOMAIN legs = 1..Len(legs) /\ Len(legs) \in Nat \ {0}
BY InductiveIsTyped, LenProperties DEF TypeOK, Board, BoardType, Inductive, LegsOK

(* And after a step that keeps the match in order.                         *)
LEMMA BoardStaysTyped == Inductive' => (Board \in BoardType)'
<1>1. Inductive => Board \in BoardType
    BY BoardIsTyped
<1> QED
    BY <1>1, PTL

Fresh(r, board) ==
    /\ ReadForm(r) /\ r.answer = <<>> /\ r.seen \in Seq(BoardType)
    /\ r.seen # <<>> /\ r.seen[Len(r.seen)] = board
    /\ ReadKnows(r)
    /\ \A i \in DOMAIN board.legs : Had(r.seen, i)

(* A request that has just been made knows the board of the moment.        *)
LEMMA NewRequest ==
    ASSUME NEW board \in BoardType, NEW by \in {"throw", "undo", "repeat", "get", "checkout"},
           NEW k \in 1..Len(board.legs), NEW r, r = Request(by, k, board)
    PROVE  Fresh(r, board)
<1>1. /\ r.seen = <<board>> /\ r.got = <<>> /\ r.leg = k /\ r.answer = <<>>
      /\ ReadForm(r)
    BY DEF Request, ReadForm
<1>2. Len(board.legs) \in Nat /\ DOMAIN board.legs = 1..Len(board.legs)
    BY LenProperties DEF BoardType
<1>3. <<board>> \in Seq(BoardType) /\ Len(<<board>>) = 1 /\ <<board>>[1] = board
    OBVIOUS
<1>4. \A i \in 1..Len(board.legs) : Had(<<board>>, i)
    BY <1>2, <1>3 DEF Had
<1>5. <<>> \in Seq({}) /\ Len(<<>>) = 0
    BY EmptySeq
<1> QED
    BY <1>1, <1>2, <1>3, <1>4, <1>5 DEF ReadKnows, Fresh

(* A write, or a dart posted again, answers at once or reads a second leg. *)
LEMMA AnsweredGoesOn ==
    ASSUME NEW by \in {"throw", "undo", "repeat"}, NEW db, db.board \in BoardType,
           NEW k \in 1..Len(db.board.legs), NEW q, q = Answered(by, k, db)
    PROVE  /\ q.seen \in Seq(BoardType) /\ q.seen # <<>> /\ q.seen[Len(q.seen)] = db.board
           /\ ReadForm(q)
           /\ q.answer = <<>> => ReadKnows(q)
           /\ q.answer # <<>> => Told(q)
<1> DEFINE r     == Request(by, k, db.board)
           got   == [i \in DOMAIN Statements |-> Look(db, Statements[i], k)]
           state == GameState(k, got)
<1>1. /\ ReadForm(r) /\ r.answer = <<>> /\ r.seen \in Seq(BoardType)
      /\ r.seen # <<>> /\ r.seen[Len(r.seen)] = db.board
      /\ \A i \in DOMAIN db.board.legs : Had(r.seen, i)
    <2>1. Fresh(r, db.board)
        BY NewRequest
    <2> HIDE DEF r
    <2> QED
        BY <2>1 DEF Fresh
<1>2. DOMAIN got[4] = DOMAIN db.board.legs
    <2>1. DOMAIN Statements = 1..6 /\ Statements[4] = "legs"
        BY DEF Statements
    <2>2. got[4] = Look(db, "legs", k)
        BY <2>1
    <2> QED
        BY <2>2 DEF Look
<1>3. DOMAIN got[4] \subseteq Nat \ {0}
    BY <1>2, LenProperties DEF BoardType
<1>4. q = Respond(r, state)
    BY DEF Answered, Project
<1> HIDE DEF got
<1>5. ActiveId(state) # 0 => Had(r.seen, ActiveId(state))
    BY <1>1, <1>2, <1>3, ActiveIsListed
<1> HIDE DEF r, state
<1>6. /\ ReadForm(q) /\ q.seen = r.seen
      /\ q.answer = <<>> => ReadKnows(q)
      /\ q.answer # <<>> => Told(q)
    BY <1>1, <1>4, <1>5, RespondGoesOn
<1> QED
    BY <1>1, <1>6

(* The next statement of a read: of a leg that is gone, not found; or the  *)
(* result is kept; or it was the last.                                     *)
LEMMA ReadGoesOn ==
    ASSUME Inductive, ReqInv, ReadOn
    PROVE  ReqInv'
<1> DEFINE k      == req.leg
           result == Look(Db, Statements[Len(req.got) + 1], k)
           got    == Append(req.got, result)
           read   == [req EXCEPT !.got = got]
<1>1. UNCHANGED <<legs, winner, abandoned>> /\ Board' = Board
    BY DEF ReadOn, rowVars, vars, Board
<1>2. /\ req.seen \in Seq(BoardType) /\ req.seen # <<>>
      /\ req.seen[Len(req.seen)] = Board
      /\ ReadForm(req) /\ req.answer = <<>> /\ ReadKnows(req)
    BY DEF ReqInv, ReadOn, Reading, Idle, NoRequest, HistoryForm, SweepForm
<1>3. /\ Len(got) = Len(req.got) + 1 /\ Len(req.got) \in Nat
      /\ \A i \in 1..Len(req.got) : got[i] = req.got[i]
      /\ got[Len(req.got) + 1] = result
      /\ \E S : got \in Seq(S)
    <2>1. PICK S : req.got \in Seq(S)
        BY <1>2 DEF ReadKnows
    <2> HIDE DEF result
    <2>2. req.got \in Seq(S \cup {result}) /\ result \in S \cup {result}
        BY <2>1, SeqMonotonic
    <2> QED
        BY <2>2, AppendProperties, LenProperties
<1>4. Len(got) >= 4 =>
          \E i \in 1..Len(req.seen) : DOMAIN got[4] = DOMAIN req.seen[i].legs
    <2>0. SUFFICES ASSUME Len(got) >= 4
                   PROVE  \E i \in 1..Len(req.seen) : DOMAIN got[4] = DOMAIN req.seen[i].legs
        OBVIOUS
    <2>1. CASE Len(req.got) >= 4
        BY <1>2, <1>3, <2>1 DEF ReadKnows
    <2>2. CASE Len(req.got) = 3
        <3>1. Statements[4] = "legs" /\ got[4] = result
            BY <1>3, <2>2 DEF Statements
        <3>2. DOMAIN got[4] = DOMAIN Board.legs
            BY <2>2, <3>1, SMTT(40) DEF Look, Db
        <3>3. Len(req.seen) \in 1..Len(req.seen)
            BY <1>2, LenProperties, EmptySeq
        <3> QED
            BY <1>2, <3>2, <3>3
    <2>3. PICK n \in Nat : n = Len(req.got) /\ Len(got) = n + 1
        BY <1>3
    <2> HIDE DEF got
    <2>4. n = 3 \/ n >= 4
        <3>1. n + 1 >= 4
            BY <2>0, <2>3
        <3> QED
            BY <3>1
    <2> QED
        BY <2>1, <2>2, <2>3, <2>4
<1>5. CASE req.got = <<>> /\ result = <<>> /\ req' = [req EXCEPT !.answer = <<"not_found">>]
    <2>1. k \notin DOMAIN Board.legs
        <3>1. Statements[1] = "leg" /\ Len(req.got) = 0
            BY <1>5, EmptySeq DEF Statements
        <3>2. result = Look(Db, "leg", k)
            BY <3>1
        <3> QED
            BY <1>5, <3>2 DEF Look, Db
    <2>2. Shrunk(req.seen)
        BY <1>2, <2>1, HadAndGone DEF ReadKnows
    <2>3. ReadForm(req') /\ req'.seen = req.seen /\ req'.answer = <<"not_found">>
        BY <1>2, <1>5 DEF ReadForm
    <2> QED
        BY <1>1, <1>2, <2>2, <2>3 DEF ReqInv, Told
<1>6. CASE ~AllRead(got) /\ req' = read
    <2>1. /\ ReadForm(req') /\ req'.seen = req.seen /\ req'.answer = <<>>
          /\ req'.got = got /\ req'.leg = k
        <3> HIDE DEF got
        <3> QED
            BY <1>2, <1>6 DEF ReadForm
    <2>2. Len(got) <= 5
        BY <1>2, <1>3, <1>6 DEF AllRead, ReadKnows
    <2> HIDE DEF got
    <2>3. ReadKnows(req')
        BY <1>2, <1>3, <1>4, <2>1, <2>2 DEF ReadKnows
    <2> QED
        BY <1>1, <1>2, <2>1, <2>3 DEF ReqInv
<1>7. CASE AllRead(got) /\ req' = Respond(read, GameState(k, got))
    <2>1. ReadForm(read) /\ read.answer = <<>> /\ read.seen = req.seen
        <3> HIDE DEF got
        <3> QED
            BY <1>2 DEF ReadForm
    <2>2. PICK i \in 1..Len(req.seen) : DOMAIN got[4] = DOMAIN req.seen[i].legs
        BY <1>4, <1>7 DEF AllRead
    <2>3. /\ DOMAIN got[4] = 1..Len(req.seen[i].legs)
          /\ Len(req.seen[i].legs) \in Nat
        BY <1>2, <2>2, ElementOfSeq, LenProperties DEF BoardType
    <2> HIDE DEF got, read
    <2>4. DOMAIN got[4] \subseteq Nat \ {0}
        BY <2>3
    <2>5. \A m \in DOMAIN got[4] : Had(req.seen, m)
        BY <2>2, <2>3 DEF Had
    <2>6. ActiveId(GameState(k, got)) # 0 => Had(read.seen, ActiveId(GameState(k, got)))
        BY <2>1, <2>4, <2>5, ActiveIsListed
    <2>7. /\ ReadForm(req') /\ req'.seen = req.seen
          /\ req'.answer = <<>> => ReadKnows(req')
          /\ req'.answer # <<>> => Told(req')
        BY <1>7, <2>1, <2>6, RespondGoesOn
    <2> QED
        BY <1>1, <1>2, <2>7 DEF ReqInv
<1> QED
    BY <1>5, <1>6, <1>7 DEF ReadOn

(* A write between two statements is one more board seen.                  *)
LEMMA OvertakenGoesOn ==
    ASSUME Inductive, Inductive', ReqInv, Overtaken
    PROVE  ReqInv'
<1>b. (Board \in BoardType)'
    BY BoardStaysTyped
<1>1. /\ req.seen \in Seq(BoardType) /\ req.seen # <<>> /\ req.answer = <<>>
      /\ req' = [req EXCEPT !.seen = Append(@, Board')]
    BY DEF ReqInv, Overtaken, Reading, Idle, NoRequest
<1> DEFINE more == Append(req.seen, Board')
<1>2. /\ more \in Seq(BoardType) /\ more # <<>>
      /\ Len(more) > 1 /\ more[Len(more)] = Board'
      /\ \A k : Had(req.seen, k) => Had(more, k)
      /\ \A i \in 1..Len(req.seen) : i \in 1..Len(more) /\ more[i] = req.seen[i]
    <2>1. PICK board \in BoardType : board = Board'
        BY <1>b
    <2>2. PICK seen \in Seq(BoardType) : seen = req.seen /\ seen # <<>>
        BY <1>1
    <2>3. more = Append(seen, board)
        BY <2>1, <2>2
    <2> HIDE DEF more
    <2>4. /\ more \in Seq(BoardType) /\ more # <<>>
          /\ Len(more) > 1 /\ more[Len(more)] = board
          /\ \A k : Had(seen, k) => Had(more, k)
          /\ \A i \in 1..Len(seen) : i \in 1..Len(more) /\ more[i] = seen[i]
        <3>1. seen \in Seq(BoardType) /\ seen # <<>> /\ board \in BoardType
            BY <2>2
        <3>2. /\ more \in Seq(BoardType) /\ more # <<>>
              /\ Len(more) > 1 /\ more[Len(more)] = board
            BY <2>3, <3>1, SeenMore
        <3>3. \A k : Had(seen, k) => Had(more, k)
            BY <2>3, <3>1, SeenMore
        <3>4. \A i \in 1..Len(seen) : i \in 1..Len(more) /\ more[i] = seen[i]
            BY <2>3, <3>1, SeenMore
        <3> QED
            BY <3>2, <3>3, <3>4
    <2> QED
        BY <2>1, <2>2, <2>4
<1> HIDE DEF more
<1>3. req' = [req EXCEPT !.seen = more]
    BY <1>1 DEF more
<1>4. CASE ReadForm(req) /\ ReadKnows(req)
    <2>1. /\ ReadForm(req') /\ req'.seen = more /\ req'.answer = <<>>
          /\ req'.leg = req.leg /\ req'.got = req.got
        BY <1>1, <1>3, <1>4 DEF ReadForm
    <2>2. ReadKnows(req')
        BY <1>2, <1>4, <2>1 DEF ReadKnows
    <2> QED
        BY <1>2, <2>1, <2>2 DEF ReqInv
<1>5. CASE HistoryForm(req)
    <2>1. HistoryForm(req') /\ req'.seen = more /\ req'.answer = <<>>
        BY <1>1, <1>3, <1>5 DEF HistoryForm
    <2> QED
        BY <1>2, <2>1 DEF ReqInv
<1>6. CASE SweepForm(req) /\ SweepKnows(req)
    <2>1. /\ SweepForm(req') /\ req'.seen = more /\ req'.answer = <<>>
          /\ req'.ids = req.ids /\ req'.was = req.was /\ req'.now = req.now
          /\ req'.rebuilt = req.rebuilt /\ req'.changed = req.changed
        BY <1>1, <1>3, <1>6 DEF SweepForm
    <2>2. ~Alone(more)
        BY <1>2 DEF Alone
    <2>3. SweepKnows(req)'
        BY <1>2, <1>6, <2>1, <2>2 DEF SweepKnows
    <2>4. /\ req'.seen \in Seq(BoardType) /\ req'.seen # <<>>
          /\ req'.seen[Len(req'.seen)] = Board'
        BY <1>2, <2>1
    <2> QED
        BY <2>1, <2>3, <2>4 DEF ReqInv
<1>7. \/ ReadForm(req) /\ ReadKnows(req)
      \/ HistoryForm(req)
      \/ SweepForm(req) /\ SweepKnows(req)
    BY <1>1 DEF ReqInv, Overtaken, Reading, Idle, NoRequest
<1> QED
    BY <1>4, <1>5, <1>6, <1>7

(* A rebuild writes the caches that are there.                             *)
LEMMA RebuildIsIdle ==
    ASSUME CachesAgree, NEW k \in 1..Len(legs)
    PROVE  [rows EXCEPT ![k].caches = RebuiltCaches(k)] = rows
BY DEF CachesAgree, RebuiltCaches, LegOf

(* One more result is what was looked for.                                 *)
LEMMA FoundOneMore ==
    ASSUME NEW r, NEW s, NEW S, s \in Seq(S), s = Found(r, Len(s)),
           NEW result, result = StoredIn(CacheTables[Len(s) + 1], Head(r.ids)),
           NEW more, more = Append(s, result)
    PROVE  more = Found(r, Len(more))
<1>1. s \in Seq(S \cup {result}) /\ result \in S \cup {result} /\ Len(s) \in Nat
    BY SeqMonotonic, LenProperties
<1>2. /\ more \in Seq(S \cup {result}) /\ Len(more) = Len(s) + 1
      /\ \A i \in 1..Len(s) : more[i] = s[i]
      /\ more[Len(s) + 1] = result
    BY <1>1, AppendProperties
<1>3. more = [i \in 1..Len(more) |-> more[i]]
    BY <1>2, LenProperties
<1>4. ASSUME NEW i \in 1..Len(more)
      PROVE  more[i] = StoredIn(CacheTables[i], Head(r.ids))
    <2>1. CASE i = Len(s) + 1
        BY <1>2, <2>1
    <2>2. CASE i # Len(s) + 1
        <3>1. i \in 1..Len(s)
            BY <1>1, <1>2, <2>2
        <3> QED
            BY <1>2, <3>1 DEF Found
    <2> QED
        BY <2>1, <2>2
<1> QED
    BY <1>3, <1>4 DEF Found

(* The leg looked at is dropped from the list.                             *)
Onward(r, changed) ==
    [r EXCEPT !.ids = Tail(@), !.was = <<>>, !.rebuilt = FALSE, !.now = <<>>,
              !.changed = changed]

WithNextLeg(q, r, changed) ==
    /\ SweepForm(q) /\ q.seen = r.seen /\ q.answer = <<>> /\ q.ids = Tail(r.ids)
    /\ q.was = <<>> /\ q.now = <<>> /\ q.rebuilt = FALSE /\ q.changed = changed

(* A sweep that is done with a leg goes to the next, or answers.           *)
LEMMA NextLeg ==
    ASSUME NEW r, SweepForm(r), r.answer = <<>>, NEW changed, NEW q, q = Onward(r, changed)
    PROVE  WithNextLeg(q, r, changed)
<1>1. PICK seen, ids, was, rebuilt, now, old :
          r = [by |-> "sweep", seen |-> seen, answer |-> <<>>, ids |-> ids, was |-> was,
               rebuilt |-> rebuilt, now |-> now, changed |-> old]
    BY DEF SweepForm
<1>2. PICK rest : rest = Tail(ids)
    OBVIOUS
<1>3. q = [by |-> "sweep", seen |-> seen, answer |-> <<>>, ids |-> rest, was |-> <<>>,
           rebuilt |-> FALSE, now |-> <<>>, changed |-> changed]
    BY <1>1, <1>2 DEF Onward
<1> QED
    BY <1>1, <1>2, <1>3 DEF SweepForm, WithNextLeg

(* What is not one board is more than one.                                 *)
LEMMA NotAlone ==
    ASSUME NEW S, NEW seen \in Seq(S), seen # <<>>, ~Alone(seen)
    PROVE  Len(seen) > 1
<1>1. PICK n \in Nat : Len(seen) = n
    BY LenProperties
<1>2. n # 0
    BY <1>1, EmptySeq
<1>3. n # 1
    BY <1>1, Zenon DEF Alone
<1>4. n > 1
    BY <1>2, <1>3
<1> QED
    BY <1>1, <1>4

(* There is more after the first of several.                               *)
LEMMA TailOfMore ==
    ASSUME NEW S, NEW s \in Seq(S), s # <<>>, Len(s) # 1
    PROVE  Tail(s) # <<>>
<1>1. PICK n \in Nat : Len(s) = n
    BY LenProperties
<1>2. n # 0
    BY <1>1, EmptySeq
<1>3. n # 1
    BY <1>1, Zenon
<1>4. n - 1 # 0
    BY <1>2, <1>3
<1>5. Len(Tail(s)) = n - 1
    BY <1>1, HeadTailProperties
<1> QED
    BY <1>4, <1>5, EmptySeq, Zenon

(* The sweep's own steps write nothing, and come to the end of its legs.   *)
SweepStep == BeginSweep \/ ReadBefore \/ Rebuild \/ ReadAfter

(* A step of the sweep keeps what requests know, and changes no row.       *)
LEMMA SweepGoesOn ==
    ASSUME Inductive, CachesAgree, ReqInv, SweepStep
    PROVE  ReqInv' /\ UNCHANGED rowVars
<1>0. /\ Board \in BoardType /\ Board.legs = legs /\ Len(legs) \in Nat \ {0}
      /\ DOMAIN legs = 1..Len(legs)
    BY BoardIsTyped
<1>1. CASE BeginSweep
    <2>1. /\ UNCHANGED rowVars /\ Board' = Board
          /\ req' = [by |-> "sweep", seen |-> <<Board>>, answer |-> <<>>,
                     ids |-> [k \in DOMAIN legs |-> k], was |-> <<>>, rebuilt |-> FALSE,
                     now |-> <<>>, changed |-> 0]
        BY <1>1 DEF BeginSweep, SweepRequest, rowVars, vars, Board
    <2> DEFINE ids == [k \in DOMAIN legs |-> k]
    <2>2. ids \in Seq(Nat) /\ Len(ids) = Len(legs) /\ \A j \in 1..Len(ids) : ids[j] = j
        BY <1>0
    <2>3. ids # <<>>
        BY <1>0, <2>2, EmptySeq
    <2>4. <<Board>> \in Seq(BoardType) /\ Len(<<Board>>) = 1 /\ <<Board>>[1] = Board
        BY <1>0
    <2>5. \A j \in 1..Len(ids) : Had(<<Board>>, ids[j])
        BY <1>0, <2>2, <2>4 DEF Had
    <2> HIDE DEF ids
    <2>6. /\ SweepForm(req)' /\ (req.answer = <<>>)'
          /\ req'.seen = <<Board>> /\ req'.ids = ids /\ req'.was = <<>> /\ req'.now = <<>>
          /\ req'.rebuilt = FALSE /\ req'.changed = 0
        BY <2>1 DEF SweepForm, ids
    <2>7. <<>> \in Seq({}) /\ Len(<<>>) = 0
        BY EmptySeq
    <2>8. (req.was = Found(req, Len(req.was)) /\ req.now = Found(req, Len(req.now)))'
        BY <2>6, <2>7 DEF Found
    <2>9. SweepKnows(req)'
        <3>1. /\ req'.ids \in Seq(Nat) /\ req'.ids # <<>>
              /\ \A j \in 1..Len(req'.ids) : Had(req'.seen, req'.ids[j])
            BY <2>2, <2>3, <2>5, <2>6
        <3>2. /\ \E S : req'.was \in Seq(S) /\ req'.now \in Seq(S)
              /\ Len(req'.was) <= 2 /\ Len(req'.now) <= 1
            BY <2>6, <2>7
        <3>3. req'.rebuilt = FALSE /\ req'.now = <<>> /\ req'.changed = 0
            BY <2>6
        <3> QED
            <4>a. ~req'.rebuilt /\ req'.rebuilt \in BOOLEAN
                BY <3>3
            <4>1. /\ ~req'.rebuilt => req'.now = <<>>
                  /\ req'.rebuilt => BothRead(req'.was)
                BY <3>3, <4>a, Zenon
            <4>2. Alone(req'.seen) =>
                     (req.changed = 0 /\ req.was = Found(req, Len(req.was))
                        /\ req.now = Found(req, Len(req.now)))'
                BY <3>3, <2>8
            <4> QED
                BY <3>1, <3>2, <3>3, <4>a, <4>1, <4>2 DEF SweepKnows
    <2> QED
        BY <2>1, <2>4, <2>6, <2>9 DEF ReqInv
<1>2. ASSUME ReadBefore \/ Rebuild \/ ReadAfter
      PROVE  /\ req.seen \in Seq(BoardType) /\ req.seen # <<>>
             /\ req.seen[Len(req.seen)] = Board /\ req.answer = <<>>
             /\ SweepForm(req) /\ SweepKnows(req)
    <2>1. req.by = "sweep" /\ req.answer = <<>> /\ req # NoRequest
        BY <1>2 DEF ReadBefore, Rebuild, ReadAfter, Sweeping, Reading, NoRequest
    <2> QED
        BY <2>1 DEF ReqInv, ReadForm, HistoryForm
<1>3. CASE ReadBefore
    <2> DEFINE result == StoredIn(CacheTables[Len(req.was) + 1], Head(req.ids))
               was    == Append(req.was, result)
    <2>1. UNCHANGED rowVars /\ Board' = Board
        BY <1>3 DEF ReadBefore, rowVars, vars, Board
    <2>2. /\ req' = [req EXCEPT !.was = was]
          /\ ~req.rebuilt /\ Len(req.was) < 2
        BY <1>3 DEF ReadBefore, CacheTables
    <2>3. PICK S : req.was \in Seq(S) /\ req.now \in Seq(S)
        BY <1>2, <1>3 DEF SweepKnows
    <2>4. /\ was \in Seq(S \cup {result}) /\ Len(was) = Len(req.was) + 1
          /\ req.now \in Seq(S \cup {result}) /\ Len(req.was) \in Nat
        <3> HIDE DEF result
        <3>1. /\ req.was \in Seq(S \cup {result}) /\ req.now \in Seq(S \cup {result})
              /\ result \in S \cup {result}
            BY <2>3, SeqMonotonic
        <3> QED
            BY <3>1, AppendProperties, LenProperties
    <2>5. Alone(req.seen) => was = Found(req, Len(was))
        <3>1. Alone(req.seen) => req.was = Found(req, Len(req.was))
            BY <1>2, <1>3 DEF SweepKnows
        <3>2. PICK more : more = was
            OBVIOUS
        <3>3. PICK found : found = result
            OBVIOUS
        <3>4. /\ more = Append(req.was, found)
              /\ found = StoredIn(CacheTables[Len(req.was) + 1], Head(req.ids))
            BY <3>2, <3>3
        <3> HIDE DEF was, result
        <3>5. SUFFICES ASSUME Alone(req.seen)
                       PROVE  was = Found(req, Len(was))
            OBVIOUS
        <3>6. req.was \in Seq(S) /\ req.was = Found(req, Len(req.was))
            BY <2>3, <3>1, <3>5
        <3>7. more = Found(req, Len(more))
            BY <3>4, <3>6, FoundOneMore
        <3> QED
            BY <3>2, <3>7
    <2> HIDE DEF was
    <2>6. /\ SweepForm(req') /\ req'.seen = req.seen /\ req'.answer = <<>>
          /\ req'.ids = req.ids /\ req'.was = was /\ req'.now = req.now
          /\ req'.rebuilt = req.rebuilt /\ req'.changed = req.changed
        BY <1>2, <1>3, <2>2 DEF SweepForm
    <2>7. rows' = rows
        BY <2>1 DEF rowVars
    <2>8. \A n : Found(req, n)' = Found(req, n)
        BY <2>6, <2>7 DEF Found, StoredIn
    <2>9. SweepKnows(req)'
        <3>1. Len(was) <= 2
            BY <2>2, <2>4
        <3> QED
            BY <1>2, <1>3, <2>2, <2>4, <2>5, <2>6, <2>8, <3>1 DEF SweepKnows
    <2> QED
        BY <1>2, <1>3, <2>1, <2>6, <2>9 DEF ReqInv
<1>4. CASE Rebuild
    <2> DEFINE k == Head(req.ids)
    <2>1. Had(req.seen, k)
        <3>1. Head(req.ids) = req.ids[1] /\ 1 \in 1..Len(req.ids)
            BY <1>2, <1>4, LenProperties, EmptySeq DEF SweepKnows
        <3> QED
            BY <1>2, <1>4, <3>1 DEF SweepKnows
    <2>2. CASE k \in DOMAIN legs
        <3>1. rows' = rows /\ UNCHANGED vars
            <4>1. rows' = [rows EXCEPT ![k].caches = RebuiltCaches(k)] /\ UNCHANGED vars
                BY <1>4, <2>2 DEF Rebuild
            <4> QED
                BY <1>0, <2>2, <4>1, RebuildIsIdle
        <3>2. UNCHANGED rowVars /\ Board' = Board
            BY <3>1 DEF rowVars, vars, Board
        <3>3. req' = [req EXCEPT !.rebuilt = TRUE] /\ Len(req.was) = 2 /\ ~req.rebuilt
            BY <1>4, <2>2 DEF Rebuild, CacheTables
        <3>4. /\ SweepForm(req') /\ req'.seen = req.seen /\ req'.answer = <<>>
              /\ req'.ids = req.ids /\ req'.was = req.was /\ req'.now = req.now
              /\ req'.rebuilt = TRUE /\ req'.changed = req.changed
              /\ BothRead(req.was)
            BY <1>2, <1>4, <3>3 DEF SweepForm, BothRead
        <3>5. \A n : Found(req, n)' = Found(req, n)
            BY <3>1, <3>4 DEF Found, StoredIn
        <3>6. SweepKnows(req)'
            BY <1>2, <1>4, <3>3, <3>4, <3>5 DEF SweepKnows
        <3> QED
            BY <1>2, <1>4, <3>2, <3>4, <3>6 DEF ReqInv
    <2>3. CASE k \notin DOMAIN legs
        <3>1. /\ UNCHANGED rowVars /\ Board' = Board
              /\ req' = [req EXCEPT !.answer = <<"sweep_failed">>]
            BY <1>4, <2>3 DEF Rebuild, rowVars, vars, Board
        <3>2. Shrunk(req.seen)
            BY <1>0, <1>2, <1>4, <2>1, <2>3, HadAndGone
        <3>3. /\ SweepForm(req') /\ req'.seen = req.seen /\ req'.answer = <<"sweep_failed">>
            BY <1>2, <1>4, <3>1 DEF SweepForm
        <3> QED
            BY <1>2, <1>4, <3>1, <3>2, <3>3 DEF ReqInv, Told
    <2> QED
        BY <2>2, <2>3
<1>5. CASE ReadAfter
    <2> DEFINE result  == StoredIn(CacheTables[Len(req.now) + 1], Head(req.ids))
               now     == Append(req.now, result)
               changed == req.changed + (IF now = req.was THEN 0 ELSE 1)
               onward  == [req EXCEPT !.ids = Tail(@), !.was = <<>>, !.rebuilt = FALSE,
                                      !.now = <<>>, !.changed = changed]
    <2>1. UNCHANGED rowVars /\ Board' = Board /\ rows' = rows /\ Reading /\ req.rebuilt
        BY <1>5 DEF ReadAfter, rowVars, vars, Board, Sweeping
    <2>2. req' = IF Len(now) < 2 THEN [req EXCEPT !.now = now]
                 ELSE IF Len(req.ids) = 1 THEN [onward EXCEPT !.answer = <<"report", changed>>]
                 ELSE onward
        BY <1>5 DEF ReadAfter, CacheTables
    <2>3. PICK S : req.was \in Seq(S) /\ req.now \in Seq(S)
        BY <1>2, <1>5 DEF SweepKnows
    <2>4. /\ now \in Seq(S \cup {result}) /\ Len(now) = Len(req.now) + 1
          /\ req.was \in Seq(S \cup {result}) /\ Len(req.now) \in Nat
        <3> HIDE DEF result
        <3>1. /\ req.was \in Seq(S \cup {result}) /\ req.now \in Seq(S \cup {result})
              /\ result \in S \cup {result}
            BY <2>3, SeqMonotonic
        <3> QED
            BY <3>1, AppendProperties, LenProperties
    <2>5. Alone(req.seen) => now = Found(req, Len(now))
        <3>1. Alone(req.seen) => req.now = Found(req, Len(req.now))
            BY <1>2, <1>5 DEF SweepKnows
        <3>2. PICK more : more = now
            OBVIOUS
        <3>3. PICK found : found = result
            OBVIOUS
        <3>4. /\ more = Append(req.now, found)
              /\ found = StoredIn(CacheTables[Len(req.now) + 1], Head(req.ids))
            BY <3>2, <3>3
        <3> HIDE DEF now, result
        <3>5. SUFFICES ASSUME Alone(req.seen)
                       PROVE  now = Found(req, Len(now))
            OBVIOUS
        <3>6. req.now \in Seq(S) /\ req.now = Found(req, Len(req.now))
            BY <2>3, <3>1, <3>5
        <3>7. more = Found(req, Len(more))
            BY <3>4, <3>6, FoundOneMore
        <3> QED
            BY <3>2, <3>7
    <2> HIDE DEF now
    <2>6. CASE Len(now) < 2
        <3>1. /\ SweepForm(req') /\ req'.seen = req.seen /\ req'.answer = <<>>
              /\ req'.ids = req.ids /\ req'.was = req.was /\ req'.now = now
              /\ req'.rebuilt = req.rebuilt /\ req'.changed = req.changed
            BY <1>2, <1>5, <2>2, <2>6 DEF SweepForm
        <3>2. \A n : Found(req, n)' = Found(req, n)
            BY <2>1, <3>1 DEF Found, StoredIn
        <3>3. Len(now) <= 1
            BY <2>4, <2>6
        <3>4. SweepKnows(req)'
            BY <1>2, <1>5, <2>1, <2>4, <2>5, <3>1, <3>2, <3>3 DEF SweepKnows
        <3> QED
            BY <1>2, <1>5, <2>1, <3>1, <3>4 DEF ReqInv
    <2>7. CASE ~(Len(now) < 2)
        <3>1. changed \in Nat /\ (Alone(req.seen) => changed = 0)
            <4>1. Len(now) = 2
                BY <1>2, <1>5, <2>4, <2>7 DEF SweepKnows
            <4>2. Len(req.was) = 2
                BY <1>2, <1>5, <2>1 DEF SweepKnows, BothRead
            <4>3. Alone(req.seen) => now = req.was /\ req.changed = 0
                <5>1. Alone(req.seen) => req.was = Found(req, Len(req.was)) /\ req.changed = 0
                    BY <1>2, <1>5 DEF SweepKnows
                <5> QED
                    BY <2>5, <4>1, <4>2, <5>1
            <4>4. req.changed \in Nat
                BY <1>2, <1>5 DEF SweepKnows
            <4> QED
                BY <4>3, <4>4
        <3> HIDE DEF changed
        <3>2. SweepForm(onward) /\ onward.seen = req.seen /\ onward.answer = <<>>
              /\ onward.ids = Tail(req.ids) /\ onward.was = <<>> /\ onward.now = <<>>
              /\ onward.rebuilt = FALSE /\ onward.changed = changed
            <4>1. PICK q : q = onward
                OBVIOUS
            <4>2. /\ SweepForm(q) /\ q.seen = req.seen /\ q.answer = <<>>
                  /\ q.ids = Tail(req.ids) /\ q.was = <<>> /\ q.now = <<>>
                  /\ q.rebuilt = FALSE /\ q.changed = changed
                <5>1. q = Onward(req, changed)
                    BY <4>1 DEF Onward
                <5>2. SweepForm(req) /\ req.answer = <<>>
                    BY <1>2, <1>5
                <5> HIDE DEF onward
                <5>3. WithNextLeg(q, req, changed)
                    BY <5>1, <5>2, NextLeg
                <5> QED
                    BY <5>3 DEF WithNextLeg
            <4> HIDE DEF onward
            <4> QED
                BY <4>1, <4>2
        <3> HIDE DEF onward
        <3>3. CASE Len(req.ids) = 1
            <4>1. req' = [onward EXCEPT !.answer = <<"report", changed>>]
                BY <2>2, <2>7, <3>3
            <4>2. SweepForm(req') /\ req'.seen = req.seen /\ req'.answer = <<"report", changed>>
                BY <3>2, <4>1 DEF SweepForm
            <4>3. Len(req.seen) \in Nat \ {0}
                BY <1>2, <1>5, LenProperties, EmptySeq
            <4>4. ASSUME changed > 0
                  PROVE  Len(req.seen) > 1
                <5>1. ~Alone(req.seen)
                    BY <3>1, <4>4
                <5> QED
                    BY <1>2, <1>5, <5>1, NotAlone
            <4>5. /\ req'.seen = req.seen /\ req'.answer[1] = "report"
                  /\ req'.answer[2] = changed
                BY <4>2
            <4>6. Told(req')
                BY <4>4, <4>5 DEF Told
            <4> QED
                BY <1>2, <1>5, <2>1, <4>2, <4>6 DEF ReqInv
        <3>4. CASE Len(req.ids) # 1
            <4>1. req' = onward
                BY <2>2, <2>7, <3>4
            <4>2. /\ Tail(req.ids) \in Seq(Nat) /\ Tail(req.ids) # <<>>
                  /\ \A j \in 1..Len(Tail(req.ids)) : Had(req.seen, Tail(req.ids)[j])
                <5>1. req.ids \in Seq(Nat) /\ req.ids # <<>> /\ Len(req.ids) \in Nat \ {0}
                    BY <1>2, <1>5, LenProperties, EmptySeq DEF SweepKnows
                <5>2. /\ Tail(req.ids) \in Seq(Nat) /\ Len(Tail(req.ids)) = Len(req.ids) - 1
                      /\ \A j \in 1..Len(Tail(req.ids)) : Tail(req.ids)[j] = req.ids[j + 1]
                    BY <5>1, HeadTailProperties
                <5>3. Tail(req.ids) # <<>>
                    BY <3>4, <5>1, TailOfMore
                <5>4. \A j \in 1..Len(Tail(req.ids)) : j + 1 \in 1..Len(req.ids)
                    BY <5>1, <5>2
                <5> QED
                    BY <1>2, <1>5, <5>2, <5>3, <5>4 DEF SweepKnows
            <4>3. <<>> \in Seq({}) /\ Len(<<>>) = 0
                BY EmptySeq
            <4>4. (req.was = Found(req, Len(req.was)) /\ req.now = Found(req, Len(req.now)))'
                BY <3>2, <4>1, <4>3 DEF Found
            <4>5. SweepKnows(req)'
                <5>1. /\ req'.ids \in Seq(Nat) /\ req'.ids # <<>>
                      /\ \A j \in 1..Len(req'.ids) : Had(req'.seen, req'.ids[j])
                    BY <3>2, <4>1, <4>2
                <5>a. req'.was = <<>> /\ req'.now = <<>>
                    BY <3>2, <4>1
                <5>2. /\ \E S_1 : req'.was \in Seq(S_1) /\ req'.now \in Seq(S_1)
                      /\ Len(req'.was) <= 2 /\ Len(req'.now) <= 1
                    BY <4>3, <5>a
                <5>3. req'.rebuilt = FALSE /\ req'.now = <<>> /\ req'.changed = changed
                    BY <3>2, <4>1
                <5>4. Alone(req'.seen) => changed = 0
                    BY <3>1, <3>2, <4>1
                <5> QED
                    BY <3>1, <4>4, <5>1, <5>2, <5>3, <5>4 DEF SweepKnows
            <4> QED
                BY <1>2, <1>5, <2>1, <3>2, <4>1, <4>5 DEF ReqInv
        <3> QED
            BY <3>3, <3>4
    <2> QED
        BY <2>1, <2>6, <2>7
<1> QED
    BY <1>1, <1>3, <1>4, <1>5 DEF SweepStep

(* What the requests know, beside what the rows hold.                      *)
ReadInv == Inductive /\ CachesAgree /\ ReqInv

(* A write answered from inside its transaction.                           *)
LEMMA WriteAnswered ==
    ASSUME NEW by \in {"throw", "undo", "repeat"}, NEW k,
           NEW db, db.board \in BoardType, k \in 1..Len(db.board.legs),
           db.board = Board', req' = Answered(by, k, db)
    PROVE  ReqInv'
<1>1. PICK q : q = req'
    OBVIOUS
<1>2. q = Answered(by, k, db)
    BY <1>1
<1>3. /\ q.seen \in Seq(BoardType) /\ q.seen # <<>> /\ q.seen[Len(q.seen)] = db.board
      /\ ReadForm(q)
      /\ q.answer = <<>> => ReadKnows(q)
      /\ q.answer # <<>> => Told(q)
    BY <1>2, AnsweredGoesOn
<1> QED
    BY <1>1, <1>3 DEF ReqInv

(* A request that starts with nothing read.                                *)
LEMMA RequestMade ==
    ASSUME Inductive, NEW by \in {"get", "checkout"}, NEW k \in 1..Len(legs),
           req' = Request(by, k, Board), UNCHANGED rowVars
    PROVE  ReqInv'
<1>1. Board \in BoardType /\ Board.legs = legs /\ Board' = Board
    BY BoardIsTyped DEF rowVars, vars, Board
<1>2. PICK q, board : q = req' /\ board = Board /\ board \in BoardType
    BY <1>1
<1>3. q = Request(by, k, board) /\ k \in 1..Len(board.legs)
    BY <1>1, <1>2
<1>4. /\ ReadForm(q) /\ q.answer = <<>> /\ q.seen \in Seq(BoardType)
      /\ q.seen # <<>> /\ q.seen[Len(q.seen)] = board
      /\ ReadKnows(q)
    <2>1. Fresh(q, board)
        BY <1>2, <1>3, NewRequest
    <2> QED
        BY <2>1 DEF Fresh
<1> QED
    BY <1>1, <1>2, <1>4 DEF ReqInv

(* Reading the darts of the match, leg by leg.                             *)
LEMMA HistoryGoesOn ==
    ASSUME Inductive, ReqInv, GetDarts \/ ReadDarts \/ ReadVisits
    PROVE  ReqInv'
<1>1. Board \in BoardType /\ Board' = Board
    BY BoardIsTyped DEF GetDarts, ReadDarts, ReadVisits, rowVars, vars, Board
<1>2. CASE GetDarts
    <2>1. PICK listed : req' = [by |-> "history", seen |-> <<Board>>, answer |-> <<>>,
                                darts |-> <<>>, told |-> <<>>, listed |-> listed]
        BY <1>2 DEF GetDarts
    <2>2. <<Board>> \in Seq(BoardType) /\ Len(<<Board>>) = 1 /\ <<Board>>[1] = Board
        BY <1>1
    <2>3. HistoryForm(req') /\ req'.seen = <<Board>> /\ req'.answer = <<>>
        BY <2>1 DEF HistoryForm
    <2> QED
        BY <1>1, <2>2, <2>3 DEF ReqInv
<1>3. ASSUME ReadDarts \/ ReadVisits
      PROVE  /\ req.seen \in Seq(BoardType) /\ req.seen # <<>>
             /\ req.seen[Len(req.seen)] = Board /\ req.answer = <<>> /\ HistoryForm(req)
    BY <1>3 DEF ReqInv, ReadDarts, ReadVisits, Reading, Idle, NoRequest, ReadForm, SweepForm
<1>4. CASE ReadDarts
    <2>1. PICK darts : req' = [req EXCEPT !.darts = darts]
        BY <1>4 DEF ReadDarts
    <2>2. HistoryForm(req') /\ req'.seen = req.seen /\ req'.answer = <<>>
        BY <1>3, <1>4, <2>1 DEF HistoryForm
    <2> QED
        BY <1>1, <1>3, <1>4, <2>2 DEF ReqInv
<1>5. CASE ReadVisits
    <2>1. PICK told, answer :
              /\ req' = [req EXCEPT !.darts = <<>>, !.told = told, !.answer = answer]
              /\ answer = <<>> \/ answer = <<"history", told>>
        <3> DEFINE k      == Len(req.told) + 1
                   visits == Look(Db, "visits", k)
                   told   == Append(req.told,
                                    [row |-> req.listed[k],
                                     visits |-> [v \in DOMAIN visits |->
                                                    VisitState(visits, req.darts[1], v)]])
                   answer == IF k = Len(req.listed) THEN <<"history", told>> ELSE <<>>
        <3>1. req' = [req EXCEPT !.darts = <<>>, !.told = told, !.answer = answer]
            BY <1>5 DEF ReadVisits
        <3> HIDE DEF told, k
        <3>2. answer = <<>> \/ answer = <<"history", told>>
            OBVIOUS
        <3> HIDE DEF answer
        <3> QED
            BY <3>1, <3>2
    <2>2. HistoryForm(req') /\ req'.seen = req.seen
        BY <1>3, <1>5, <2>1 DEF HistoryForm
    <2>3. req'.answer = <<>> \/ req'.answer = <<"history", told>>
        BY <1>3, <1>5, <2>1 DEF HistoryForm
    <2>4. req'.answer # <<>> => Told(req')
        BY <2>3 DEF Told
    <2> QED
        BY <1>1, <1>3, <1>5, <2>2, <2>4 DEF ReqInv
<1> QED
    BY <1>2, <1>4, <1>5

(* Each step of play, of a request and of the sweep.                       *)
LEMMA ReadStep ==
    ASSUME ReadInv, [SweepNext]_readVars
    PROVE  ReadInv'
<1> USE DEF ReadInv
<1>1. ASSUME UNCHANGED rowVars
      PROVE  Inductive' /\ CachesAgree'
    BY <1>1 DEF rowVars, vars, Inductive, CachesAgree
<1>2. ASSUME NEW k \in 1..Len(legs), NEW d \in Dart, ServeThrow(k, d)
      PROVE  ReadInv'
    <2>1. ThrowRows(k, d) /\ Throw(k, d) /\ req' = Answered("throw", k, Db')
        BY <1>2 DEF ServeThrow, ThrowRows
    <2>2. Inductive' /\ CachesAgree'
        BY <2>1, WritesKeepCaches DEF RowsNext
    <2>3. Db'.board = Board' /\ (Board \in BoardType)' /\ Board'.legs = legs'
        BY <2>2, BoardStaysTyped DEF Db, Board
    <2>4. k \in 1..Len(legs')
        <3>1. k \in Nat \ {0} /\ (Len(legs') = k \/ Len(legs') = k + 1)
            BY <2>1, ThrowShape
        <3> QED
            BY <3>1
    <2> QED
        BY <2>1, <2>2, <2>3, <2>4, WriteAnswered
<1>3. ASSUME NEW k \in 1..Len(legs), ServeUndo(k)
      PROVE  ReadInv'
    <2>1. UndoRows(k) /\ Undo(k) /\ req' = Answered("undo", k, Db')
        BY <1>3 DEF ServeUndo, UndoRows
    <2>2. Inductive' /\ CachesAgree'
        BY <2>1, WritesKeepCaches DEF RowsNext
    <2>3. Db'.board = Board' /\ (Board \in BoardType)' /\ Board'.legs = legs'
        BY <2>2, BoardStaysTyped DEF Db, Board
    <2>4. k \in 1..Len(legs')
        <3>1. Len(legs') = k
            BY <2>1, UndoStep
        <3> QED
            BY <3>1
    <2> QED
        BY <2>1, <2>2, <2>3, <2>4, WriteAnswered
<1>4. ASSUME NEW k \in 1..Len(legs), ServeRepeat(k)
      PROVE  ReadInv'
    <2>1. UNCHANGED rowVars /\ req' = Answered("repeat", k, Db)
        BY <1>4 DEF ServeRepeat
    <2>2. Db.board = Board' /\ Db.board \in BoardType /\ Db.board.legs = legs
        BY <2>1, BoardIsTyped DEF Db, Board, rowVars, vars
    <2> QED
        BY <1>1, <2>1, <2>2, WriteAnswered
<1>5. ASSUME NEW k \in 1..Len(legs), GetCheckout(k)
      PROVE  ReadInv'
    BY <1>1, <1>5, RequestMade DEF GetCheckout
<1>6. CASE GetState
    <2>1. Len(legs) \in 1..Len(legs)
        BY BoardIsTyped
    <2> QED
        BY <1>1, <1>6, <2>1, RequestMade DEF GetState
<1>7. CASE GetDarts \/ ReadDarts \/ ReadVisits
    <2>1. UNCHANGED rowVars
        BY <1>7 DEF GetDarts, ReadDarts, ReadVisits
    <2> QED
        BY <1>1, <1>7, <2>1, HistoryGoesOn
<1>8. CASE ReadOn
    BY <1>1, <1>8, ReadGoesOn DEF ReadOn
<1>9. CASE Delivered
    BY <1>1, <1>9 DEF Delivered, ReqInv
<1>10. CASE Overtaken
    <2>1. RowsNext
        BY <1>10 DEF Overtaken
    <2>2. Inductive' /\ CachesAgree'
        BY <2>1, WritesKeepCaches
    <2> QED
        BY <1>10, <2>2, OvertakenGoesOn
<1>11. CASE AbandonIdle
    <2>1. Inductive' /\ CachesAgree'
        BY <1>11, WritesKeepCaches DEF AbandonIdle, RowsNext
    <2>2. req = NoRequest /\ req' = req
        BY <1>11 DEF AbandonIdle, Idle, ReqInv, ReadForm, HistoryForm, SweepForm
    <2> QED
        BY <2>1, <2>2 DEF ReqInv
<1>12. CASE SweepStep
    BY <1>1, <1>12, SweepGoesOn
<1>13. CASE UNCHANGED readVars
    <2>1. UNCHANGED rowVars /\ req' = req /\ Board' = Board
        BY <1>13 DEF readVars, rowVars, vars, Board
    <2>2. SweepKnows(req)' <=> SweepKnows(req)
        BY <2>1 DEF SweepKnows, Found, StoredIn, rowVars
    <2> QED
        BY <1>1, <2>1, <2>2 DEF ReqInv
<1> QED
    BY <1>2, <1>3, <1>4, <1>5, <1>6, <1>7, <1>8, <1>9, <1>10, <1>11, <1>12, <1>13
    DEF SweepNext, ReadNext, SweepStep

(* There are no requests at first.                                         *)
LEMMA ReadStart == ASSUME ReadInit PROVE ReadInv
<1>1. Init /\ rows = <<NoRows>> /\ req = NoRequest
    BY DEF ReadInit, RowsInit
<1>2. Inductive
    BY <1>1, FirstLegIsRight
<1>3. CachesAgree
    BY <1>1, NothingKept
<1> QED
    BY <1>1, <1>2, <1>3 DEF ReadInv, ReqInv

(* So the match, its caches and the requests are always in order.          *)
LEMMA ReadsHold == SweepSpec => []ReadInv
<1>1. ReadInit => ReadInv
    BY ReadStart
<1>2. ReadInv /\ [SweepNext]_readVars => ReadInv'
    BY ReadStep
<1> QED
    BY <1>1, <1>2, PTL DEF SweepSpec

(* A read answers `not found' only when an undo took the leg back while it *)
(* was made (state and _require_leg of services/play.py), whatever rules   *)
(* and whichever writes fall between its statements.                       *)
THEOREM FoundUnlessUndone == SweepSpec => []NotFoundOnlyAfterAnUndo
<1>1. ReadInv => NotFoundOnlyAfterAnUndo
    <2>1. SUFFICES ASSUME ReadInv, AnsweredWith("not_found")
                   PROVE  Shrunk(req.seen)
        BY DEF NotFoundOnlyAfterAnUndo, Shrunk
    <2> QED
        BY <2>1 DEF ReadInv, ReqInv, AnsweredWith, Idle, NoRequest, Told
<1> QED
    BY <1>1, ReadsHold, PTL

(* The sweep's report (rebuild_caches of services/admin.py) counts a leg   *)
(* as changed only if somebody wrote while it ran, and the sweep fails     *)
(* only if an undo deleted a leg it had listed.                            *)
THEOREM SweepIsExplained == SweepSpec => []SweepReportIsExplained
<1>1. ReadInv => SweepReportIsExplained
    <2>1. SUFFICES ASSUME ReadInv
                   PROVE  /\ AnsweredWith("report") => (req.answer[2] > 0 => Len(req.seen) > 1)
                          /\ AnsweredWith("sweep_failed") => Shrunk(req.seen)
        BY DEF SweepReportIsExplained, Shrunk
    <2> QED
        BY <2>1 DEF ReadInv, ReqInv, AnsweredWith, Idle, NoRequest, Told
<1> QED
    BY <1>1, ReadsHold, PTL

(* The sweep's own steps write back the very rows that are there, however  *)
(* many legs and whatever was played since it listed them.                 *)
THEOREM SweepIsIdle == SweepSpec => SweepChangesNothing
<1>1. ASSUME ReadInv, [SweepNext]_readVars
      PROVE  [req.by = "sweep" /\ req'.by = "sweep" /\ req'.seen = req.seen
                  => UNCHANGED rows]_readVars
    <2>1. SUFFICES ASSUME SweepNext, req.by = "sweep", req'.by = "sweep", req'.seen = req.seen
                   PROVE  UNCHANGED rows
        BY <1>1
    <2>2. CASE SweepStep
        BY <1>1, <2>2, SweepGoesOn DEF ReadInv, rowVars
    <2>3. CASE Overtaken
        <3>1. req.seen \in Seq(BoardType) /\ req' = [req EXCEPT !.seen = Append(@, Board')]
              /\ SweepForm(req)
            BY <1>1, <2>1, <2>3 DEF ReadInv, ReqInv, Overtaken, Reading, Idle, NoRequest,
               ReadForm, HistoryForm
        <3>2. req'.seen = Append(req.seen, Board')
            BY <3>1 DEF SweepForm
        <3>3. Append(req.seen, Board') # req.seen
            <4>1. PICK seen, board : seen = req.seen /\ board = Board' /\ seen \in Seq(BoardType)
                BY <3>1
            <4>2. seen \in Seq(BoardType \cup {board}) /\ board \in BoardType \cup {board}
                BY <4>1, SeqMonotonic
            <4>3. Len(Append(seen, board)) = Len(seen) + 1 /\ Len(seen) \in Nat
                BY <4>2, AppendProperties, LenProperties
            <4> QED
                BY <4>1, <4>3
        <3> QED
            BY <2>1, <3>2, <3>3
    <2>4. ~Idle
        BY <2>1 DEF Idle
    <2> QED
        BY <2>1, <2>2, <2>3, <2>4
        DEF SweepNext, ReadNext, SweepStep, ServeThrow, ServeUndo, ServeRepeat, GetCheckout,
            GetState, GetDarts, ReadOn, ReadDarts, ReadVisits, Delivered, AbandonIdle, rowVars
<1> QED
    BY <1>1, ReadsHold, PTL DEF SweepSpec, SweepChangesNothing

(* The darts of a leg of a match are throws, of teams of the match.        *)
LEMMA LegIsPlayed ==
    ASSUME NEW l \in LegRow
    PROVE  /\ Legal(Dart) /\ l.darts \in Seq(Dart) /\ l.starter \in 0..NTeams - 1
           /\ Seats(Members, NTeams) /\ LegOf(l) = LegReplay(Rules, Members, l.starter, l.darts)
<1>1. l.starter \in Team /\ l.darts \in DartSeq
    BY DEF LegRow
<1>2. l.darts \in Seq(Dart)
    <2>1. PICK n \in 0..MaxDarts : l.darts \in [1..n -> Dart]
        BY <1>1 DEF DartSeq
    <2>2. n \in Nat
        BY <2>1, MatchAssumption
    <2> QED
        BY <2>1, <2>2
<1>3. Seats(Members, NTeams)
    <2>1. NTeams \in Nat \ {0} /\ DOMAIN Members = 0..NTeams - 1
        BY MatchAssumption, RowsAssumption DEF Team
    <2>2. Cardinality(0..NTeams - 1) = NTeams
        BY <2>1, FS_Interval
    <2> QED
        BY <2>1, <2>2 DEF Seats
<1> QED
    BY <1>1, <1>2, <1>3, RowsAssumption DEF Legal, Team, LegOf, LegAfter

(* A verdict the constraints of the tables allow.                          *)
VerdictAllowed(visit) ==
    /\ visit.before \in Nat /\ visit.after \in Nat
    /\ visit.bust => visit.after = visit.before /\ visit.complete

FlagsAllowed(visit) ==
    \A i \in 1..Len(visit.darts) : visit.darts[i].bust # NoBust => ~visit.darts[i].counted

(* What the replay says of a visit is allowed, whichever game is played.   *)
LEMMA VisitsAllowed ==
    ASSUME NEW l \in LegRow, NEW v \in 1..Len(LegOf(l).visits)
    PROVE  /\ VerdictAllowed(LegOf(l).visits[v])
           /\ IsX01 => FlagsAllowed(LegOf(l).visits[v])
<1>1. CASE IsX01
    <2>1. X01Rules(Rules)
        BY <1>1, RowsAssumption DEF X01Rules, IsX01
    <2>2. X01Inv(LegOf(l), Rules, NTeams)
        BY <2>1, LegIsPlayed, ReplayKeepsScores
    <2> QED
        BY <2>2 DEF X01Inv, VisitSound, Judged, VerdictAllowed, FlagsAllowed
<1>2. CASE ~IsX01
    <2>1. CricketInv(LegOf(l), NTeams)
        BY <1>2, LegIsPlayed, ReplayKeepsMarks DEF IsX01
    <2> QED
        BY <1>2, <2>1 DEF CricketInv, CricketSound, VerdictAllowed
<1> QED
    BY <1>1, <1>2

(* No two visits of a team have as many of its visits before them.         *)
LEMMA TeamVisitOnce ==
    ASSUME NEW visits, NEW n \in Nat, NEW v \in 1..n, NEW w \in 1..n, v < w,
           visits[v].team = visits[w].team
    PROVE  Cardinality({u \in 1..v - 1 : visits[u].team = visits[v].team})
               # Cardinality({u \in 1..w - 1 : visits[u].team = visits[w].team})
<1>1. PICK A, B : /\ A = {u \in 1..v - 1 : visits[u].team = visits[v].team}
                  /\ B = {u \in 1..w - 1 : visits[u].team = visits[w].team}
    OBVIOUS
<1>2. IsFiniteSet(B)
    <2>1. IsFiniteSet(1..w - 1) /\ B \subseteq 1..w - 1
        BY <1>1, FS_Interval
    <2> QED
        BY <2>1, FS_Subset
<1>3. A \subseteq B /\ v \in B /\ v \notin A
    BY <1>1
<1> QED
    BY <1>1, <1>2, <1>3, FS_Subset

(* Rows that are right keep the constraints of the tables.                 *)
LEMMA RowsAllowed ==
    ASSUME NEW l \in LegRow, NEW row, RowRight(row, l.starter, l.darts)
    PROVE  /\ \A v \in DOMAIN row.visits : VisitKept(row.visits, v)
           /\ \A s \in DOMAIN row.darts : DartKept(row.darts, s)
<1>1. PICK visits, darts : visits = LegOf(l).visits /\ darts = l.darts
    OBVIOUS
<1>2. /\ Covers(visits, Len(darts)) /\ VisitsRight(row.visits, visits)
      /\ DartsRight(row.darts, visits, l.starter, darts)
    BY <1>1 DEF RowRight, LegOf
<1>3. PICK n \in Nat : n = Len(visits) /\ n = Len(row.visits) /\ DOMAIN visits = 1..n
    BY <1>2, IsSeqLen DEF VisitsRight, Covers, Shaped
<1>4. \A v \in 1..n : /\ row.visits[v].team = visits[v].team
                      /\ row.visits[v].verdict = VisitVerdict(visits[v])
                      /\ row.visits[v].team_visit
                            = Cardinality({u \in 1..v - 1 : visits[u].team = visits[v].team})
    <2> SUFFICES ASSUME NEW v \in 1..n
                 PROVE  /\ row.visits[v].team = visits[v].team
                        /\ row.visits[v].verdict = VisitVerdict(visits[v])
                        /\ row.visits[v].team_visit
                              = Cardinality({u \in 1..v - 1 : visits[u].team = visits[v].team})
        OBVIOUS
    <2>1. PICK r : r = row.visits[v] /\ r = VisitRow(visits, v)
        BY <1>2, <1>3 DEF VisitsRight
    <2> QED
        BY <2>1, VisitRowSays
<1>5. \A v \in 1..n : VerdictAllowed(visits[v]) /\ (IsX01 => FlagsAllowed(visits[v]))
    BY <1>1, <1>3, VisitsAllowed
<1>6. ASSUME NEW v \in 1..n
      PROVE  /\ row.visits[v].verdict.before >= 0 /\ row.visits[v].verdict.after >= 0
             /\ row.visits[v].verdict.bust =>
                   /\ row.visits[v].verdict.after = row.visits[v].verdict.before
                   /\ row.visits[v].verdict.complete
    <2>1. PICK visit, verdict : visit = visits[v] /\ verdict = row.visits[v].verdict
                                /\ verdict = VisitVerdict(visit)
        BY <1>4
    <2>2. /\ verdict.before = visit.before /\ verdict.after = visit.after
          /\ verdict.bust = visit.bust /\ verdict.complete = visit.complete
        BY <2>1 DEF VisitVerdict
    <2> QED
        BY <1>5, <2>1, <2>2 DEF VerdictAllowed
<1>7. ASSUME NEW v \in 1..n, NEW w \in 1..n, row.visits[w].team = row.visits[v].team,
             row.visits[w].team_visit = row.visits[v].team_visit
      PROVE  w = v
    <2>1. visits[v].team = visits[w].team
        BY <1>4, <1>7
    <2>2. Cardinality({u \in 1..v - 1 : visits[u].team = visits[v].team})
              = Cardinality({u \in 1..w - 1 : visits[u].team = visits[w].team})
        BY <1>4, <1>7
    <2>3. ~(v < w)
        BY <2>1, <2>2, TeamVisitOnce
    <2>4. ~(w < v)
        BY <2>1, <2>2, TeamVisitOnce
    <2> QED
        BY <2>3, <2>4
<1>8. PICK m \in Nat : m = Len(darts) /\ m = Len(row.darts)
                       /\ \A s \in 1..m : DartRight(row.darts[s], visits, l.starter, darts, s)
    BY <1>2, IsSeqLen DEF DartsRight
<1>9. \A s \in 1..m : \E v, i :
          /\ Lies(visits, s, v, i) /\ row.darts[s].visit = v /\ row.darts[s].index = i
          /\ \E prior : row.darts[s].flags = DartFlags(visits[v], i, prior)
    <2> SUFFICES ASSUME NEW s \in 1..m
                 PROVE  \E v, i :
                            /\ Lies(visits, s, v, i) /\ row.darts[s].visit = v
                            /\ row.darts[s].index = i
                            /\ \E prior : row.darts[s].flags = DartFlags(visits[v], i, prior)
        OBVIOUS
    <2>1. PICK v, i, prior : /\ Lies(visits, s, v, i)
                             /\ row.darts[s] = DartRow(visits[v], v, i, prior)
        BY <1>8, ZenonT(60) DEF DartRight
    <2>2. PICK p : p = prior[visits[v].team]
        OBVIOUS
    <2>3. /\ row.darts[s].visit = v /\ row.darts[s].index = i
          /\ row.darts[s].flags = DartFlags(visits[v], i, p)
        BY <2>1, <2>2 DEF DartRow
    <2> QED
        BY <2>1, <2>3
<1>10. ASSUME NEW s \in 1..m
       PROVE  /\ row.darts[s].flags.caused_bust => ~row.darts[s].flags.counted
              /\ row.darts[s].index \in 1..DartsPerVisit
    <2>1. PICK v, i, prior : /\ Lies(visits, s, v, i) /\ row.darts[s].index = i
                             /\ row.darts[s].flags = DartFlags(visits[v], i, prior)
        BY <1>9
    <2>2. v \in 1..n /\ i \in 1..Len(visits[v].darts)
        BY <1>3, <2>1 DEF Lies
    <2>3. i \in 1..DartsPerVisit
        <3>0. PICK len : len = Len(visits[v].darts)
            OBVIOUS
        <3>1. len \in 1..DartsPerVisit /\ len = Len(visits[v].darts)
            BY <1>2, <1>3, <2>2, <3>0 DEF Covers, Shaped
        <3> QED
            <4>1. i \in 1..len
                BY <2>2, <3>0
            <4>2. \A a \in 1..3 : \A b \in 1..a : b \in 1..3
                OBVIOUS
            <4> QED
                BY <3>1, <4>1, <4>2 DEF DartsPerVisit
    <2>4. DOMAIN visits[v].darts = 1..Len(visits[v].darts)
        BY <1>2, <1>3, <2>2, IsSeqLen DEF Covers, Shaped
    <2>5. PICK flags, dart : flags = row.darts[s].flags /\ dart = visits[v].darts[i]
        OBVIOUS
    <2>6. flags.caused_bust = (IsX01 /\ dart.bust # NoBust)
        BY <2>1, <2>5 DEF DartFlags
    <2>7. flags.counted = (IsX01 => dart.counted)
        <3>1. flags.counted = CountedFlags(visits[v])[i]
            BY <2>1, <2>5 DEF DartFlags
        <3>2. CountedFlags(visits[v])[i] = (IsX01 => dart.counted)
            BY <2>2, <2>4, <2>5 DEF CountedFlags
        <3> QED
            BY <3>1, <3>2
    <2>8. IsX01 => (dart.bust # NoBust => ~dart.counted)
        BY <1>5, <2>2, <2>5 DEF FlagsAllowed
    <2>9. flags.caused_bust => ~flags.counted
        BY <2>6, <2>7, <2>8
    <2> QED
        BY <2>1, <2>3, <2>5, <2>9
<1>11. ASSUME NEW s \in 1..m, NEW r \in 1..m, row.darts[r].visit = row.darts[s].visit,
              row.darts[r].index = row.darts[s].index
       PROVE  r = s
    <2>1. PICK v, i : Lies(visits, s, v, i) /\ row.darts[s].visit = v /\ row.darts[s].index = i
        BY <1>9
    <2>2. Lies(visits, r, v, i)
        BY <1>9, <1>11, <2>1
    <2> QED
        BY <2>1, <2>2 DEF Lies
<1>12. DOMAIN row.visits = 1..n /\ DOMAIN row.darts = 1..m
    BY <1>2, <1>3, <1>8, IsSeqLen DEF VisitsRight, DartsRight
<1>13. \A v \in 1..n : VisitKept(row.visits, v)
    BY <1>6, <1>7, <1>12 DEF VisitKept
<1>14. \A s \in 1..m : DartKept(row.darts, s)
    BY <1>10, <1>11, <1>12 DEF DartKept
<1> QED
    BY <1>12, <1>13, <1>14

(* What the cricket judgement of a dart leaves in the tables is allowed.   *)
LEMMA CricketAllowedRows ==
    ASSUME ~IsX01, NEW visit, NEW i, CricketJudged(visit.darts[i])
    PROVE  CricketKept(CricketRows(visit, i))
<1>1. PICK dart, e, cricket :
          /\ dart = visit.darts[i] /\ cricket = CricketRows(visit, i)
          /\ e = [target |-> dart.target, marks |-> dart.marks,
                  surplus |-> dart.surplus, wasted |-> dart.wasted]
    OBVIOUS
<1>2. CricketJudged(dart)
    BY <1>1
<1>3. cricket = [effects |-> {e}, awards |-> dart.awards]
    BY <1>1 DEF CricketRows
<1>4. cricket.effects = {e} /\ cricket.awards = dart.awards
    BY <1>3
<1>5. EffectKept(e)
    <2>1. /\ e.target = dart.target /\ e.marks = dart.marks /\ e.surplus = dart.surplus
          /\ e.wasted = dart.wasted
        BY <1>1
    <2>2. /\ dart.target \in Targets \cup {NoTarget} /\ dart.marks \in 0..3 /\ dart.surplus \in Nat
          /\ CricketAllowed(dart)
        BY <1>2 DEF CricketJudged, MarksToClose
    <2>3. dart.marks + dart.surplus <= (IF dart.target = Bull THEN 2 ELSE 3)
        BY <2>2 DEF CricketAllowed
    <2>4. dart.surplus \in 0..3
        BY <2>2, <2>3
    <2> QED
        BY <2>1, <2>2, <2>3, <2>4 DEF EffectKept, CricketAllowed
<1>6. AwardsKept(dart.awards)
    <2>1. \A a \in dart.awards : a.points > 0
        BY <1>2 DEF CricketJudged, CricketAllowed
    <2>2. PICK pay : pay = dart.target * dart.surplus
        OBVIOUS
    <2>3. \A a \in dart.awards : a = [recipient |-> a.recipient, points |-> pay]
        BY <1>2, <2>2 DEF CricketJudged
    <2>4. \A a, b \in dart.awards : a.recipient = b.recipient => a = b
        BY <2>3
    <2> QED
        BY <2>1, <2>4 DEF AwardsKept
<1>7. CricketKept(cricket)
    BY <1>4, <1>5, <1>6 DEF CricketKept
<1> QED
    BY <1>1, <1>7

(* So the cricket rows of right rows are, in either game.                  *)
LEMMA RightCricketAllowed ==
    ASSUME NEW l \in LegRow, NEW row, RowRight(row, l.starter, l.darts),
           NEW s \in DOMAIN row.darts
    PROVE  CricketKept(row.darts[s].cricket)
<1>1. PICK visits : visits = LegOf(l).visits
    OBVIOUS
<1>2. DartsRight(row.darts, visits, l.starter, l.darts) /\ Shaped(visits)
    BY <1>1 DEF RowRight, LegOf, Covers
<1>3. s \in 1..Len(l.darts)
    BY <1>2, IsSeqLen DEF DartsRight
<1>4. DartRight(row.darts[s], visits, l.starter, l.darts, s)
    BY <1>2, <1>3 DEF DartsRight
<1>5. PICK v, i, prior : Lies(visits, s, v, i) /\ row.darts[s] = DartRow(visits[v], v, i, prior)
    BY <1>4, ZenonT(60) DEF DartRight
<1>6. row.darts[s].cricket = CricketRows(visits[v], i)
    BY <1>5 DEF DartRow
<1>7. CASE IsX01
    <2>1. PICK cricket : cricket = row.darts[s].cricket
        OBVIOUS
    <2>2. cricket = [effects |-> {}, awards |-> {}]
        BY <1>6, <1>7, <2>1 DEF CricketRows
    <2>3. cricket.effects = {} /\ cricket.awards = {}
        BY <2>2
    <2>4. CricketKept(cricket)
        BY <2>3 DEF CricketKept, AwardsKept
    <2> QED
        BY <2>1, <2>4
<1>8. CASE ~IsX01
    <2>1. CricketInv(LegOf(l), NTeams)
        BY <1>8, LegIsPlayed, ReplayKeepsMarks DEF IsX01
    <2>2. v \in 1..Len(visits) /\ i \in 1..Len(visits[v].darts)
        BY <1>5 DEF Lies
    <2>3. CricketJudged(visits[v].darts[i])
        BY <1>1, <2>1, <2>2 DEF CricketInv, CricketSound
    <2> QED
        BY <1>6, <1>8, <2>3, CricketAllowedRows
<1> QED
    BY <1>7, <1>8

(* The darts of a team are counted.                                        *)
LEMMA ThrownIsNat ==
    ASSUME NEW leg, Shaped(leg.visits), NEW team
    PROVE  DartsThrown(leg, team) \in Nat
<1>0. PICK visits : visits = leg.visits
    OBVIOUS
<1>1. PICK n \in Nat : n = Len(visits) /\ DOMAIN visits = 1..n
    <2>1. IsSeq(visits)
        BY <1>0 DEF Shaped
    <2> QED
        BY <2>1, IsSeqLen
<1>2. PICK D : D = {i \in DOMAIN visits : visits[i].team = team}
    OBVIOUS
<1>3. IsFiniteSet(D) /\ D \subseteq 1..n
    <2>1. IsFiniteSet(1..n)
        BY FS_Interval
    <2>2. D \subseteq 1..n
        BY <1>1, <1>2
    <2> QED
        BY <2>1, <2>2, FS_Subset
<1>4. PICK w : w = [i \in D |-> Len(leg.visits[i].darts)]
    OBVIOUS
<1>5. \A i \in D : w[i] = Len(leg.visits[i].darts) /\ w[i] \in Nat
    BY <1>0, <1>1, <1>3, <1>4 DEF Shaped, DartsPerVisit
<1> DEFINE Solves(sum) ==
              sum = [s \in SUBSET D |->
                        IF s = {} THEN 0
                        ELSE Len(leg.visits[CHOOSE x \in s : TRUE].darts)
                             + sum[s \ {CHOOSE x \in s : TRUE}]]
           sum == CHOOSE f : Solves(f)
<1>6. DartsThrown(leg, team) = sum[D]
    BY <1>0, <1>2 DEF DartsThrown, MapThenSumSet, MapThenFoldSet
<1>7. \A f : Solves(f) <=> IsSum(f, w, D)
    <2>1. \A s \in SUBSET D : s # {} =>
             w[CHOOSE x \in s : TRUE] = Len(leg.visits[CHOOSE x \in s : TRUE].darts)
        BY <1>5
    <2> QED
        BY <2>1 DEF IsSum, One
<1>8. IsSum(sum, w, D)
    <2>1. PICK f : IsSum(f, w, D)
        BY <1>3, SumsExist
    <2>2. \E g : Solves(g)
        <3>1. Solves(f)
            BY <1>7, <2>1
        <3> HIDE DEF Solves
        <3> QED
            BY <3>1
    <2> HIDE DEF Solves
    <2>3. Solves(sum)
        BY <2>2
    <2> QED
        BY <1>7, <2>3
<1>9. sum[D] = Total(w, D)
    <2> HIDE DEF sum
    <2> QED
        BY <1>3, <1>8, TotalIs
<1> QED
    BY <1>3, <1>5, <1>6, <1>9, TotalNat

(* And the caches of a leg, for every team one, not below zero.            *)
LEMMA CachesAllowed ==
    ASSUME NEW l \in LegRow, Shaped(LegOf(l).visits)
    PROVE  CachesKept(CacheRows(LegOf(l)))
<1>1. PICK leg : leg = LegOf(l)
    OBVIOUS
<1>2. ASSUME NEW c \in CacheRows(leg)
      PROVE  \E team \in Team : c = TeamCache(leg, team)
    BY <1>2 DEF CacheRows
<1>3. ASSUME NEW team \in Team
      PROVE  LET c == TeamCache(leg, team)
             IN  c.team = team /\ c.thrown \in Nat /\ PositionKept(c.position)
    <2>1. PICK c, state, thrown, position :
              /\ c = TeamCache(leg, team) /\ state = leg.teams[team]
              /\ thrown = DartsThrown(leg, team)
              /\ position = IF IsX01 THEN [remaining |-> state.remaining, open |-> state.open]
                            ELSE state
        OBVIOUS
    <2>2. c = [team |-> team, thrown |-> thrown, position |-> position]
        BY <2>1, Zenon DEF TeamCache
    <2>3. c.team = team /\ c.thrown = thrown /\ c.position = position
        BY <2>2
    <2>4. thrown \in Nat
        BY <1>1, <2>1, ThrownIsNat
    <2>5. CASE IsX01
        <3>1. X01Inv(LegOf(l), Rules, NTeams)
            BY <2>5, RowsAssumption, LegIsPlayed, ReplayKeepsScores DEF X01Rules, IsX01
        <3>2. state.remaining \in Nat
            BY <1>1, <2>1, <3>1 DEF X01Inv, Standing, X01StateOK, Team
        <3>3. position.remaining = state.remaining
            BY <2>1, <2>5
        <3>4. PositionKept(position)
            BY <2>5, <3>2, <3>3 DEF PositionKept
        <3> QED
            BY <2>1, <2>3, <2>4, <3>4
    <2>6. CASE ~IsX01
        <3>1. CricketInv(LegOf(l), NTeams)
            BY <2>6, LegIsPlayed, ReplayKeepsMarks DEF IsX01
        <3>2. state.marks \in [Targets -> 0..3] /\ state.points \in Nat
            BY <1>1, <2>1, <3>1 DEF CricketInv, CricketOK, Team, MarksToClose
        <3>3. PositionKept(position)
            BY <2>1, <2>6, <3>2 DEF PositionKept
        <3> QED
            BY <2>1, <2>3, <2>4, <3>3
    <2> QED
        BY <2>5, <2>6
<1>4. CachesKept(CacheRows(leg))
    <2>1. \A c \in CacheRows(leg) : c.thrown >= 0 /\ PositionKept(c.position)
        BY <1>2, <1>3
    <2>2. \A c, d \in CacheRows(leg) : c.team = d.team => c = d
        BY <1>2, <1>3
    <2> QED
        BY <2>1, <2>2 DEF CachesKept
<1> QED
    BY <1>1, <1>4

(* The writes of the service never break a constraint of the tables.       *)
THEOREM ConstraintsAlwaysHold == RowsSpec => []ConstraintsHold
<1>1. ASSUME RowsInv
      PROVE  ConstraintsHold
    <2>1. DOMAIN legs = 1..Len(legs)
        BY <1>1, LenProperties DEF RowsInv, Inductive, LegsOK
    <2>2. ASSUME NEW k \in DOMAIN legs
          PROVE  /\ \A v \in DOMAIN rows[k].visits : VisitKept(rows[k].visits, v)
                 /\ \A s \in DOMAIN rows[k].darts :
                      DartKept(rows[k].darts, s) /\ CricketKept(rows[k].darts[s].cricket)
                 /\ CachesKept(rows[k].caches)
        <3>1. /\ legs[k] \in LegRow /\ RowRight(rows[k], legs[k].starter, legs[k].darts)
              /\ rows[k].caches = CacheRows(LegOf(legs[k]))
            BY <1>1, <2>1, LegsAreClean
        <3>2. Shaped(LegOf(legs[k]).visits)
            BY <3>1 DEF RowRight, LegOf, Covers
        <3>3. PICK row : row = rows[k]
            OBVIOUS
        <3>4. \A s \in DOMAIN row.darts : CricketKept(row.darts[s].cricket)
            BY <3>1, <3>3, RightCricketAllowed
        <3> QED
            BY <3>1, <3>2, <3>3, <3>4, RowsAllowed, CachesAllowed
    <2> QED
        BY <2>2 DEF ConstraintsHold
<1> QED
    BY <1>1, RowsHold, PTL

(* Amounts x of each dart of each visit, and w of the darts of the leg.    *)
SameAmounts(visits, x, w, m) ==
    /\ \A v \in 1..Len(visits) : \A i \in 1..Len(visits[v].darts) : x[v][i] \in Int
    /\ \A s \in 1..m : \E v, i : Lies(visits, s, v, i) /\ w[s] = x[v][i]

(* Every dart of every visit is a dart of the leg.                         *)
LEMMA LiesSomewhere ==
    ASSUME NEW visits, NEW m \in Nat, Covers(visits, m), NEW v \in 1..Len(visits),
           NEW i \in 1..Len(visits[v].darts)
    PROVE  \E s \in 1..m : Lies(visits, s, v, i)
<1>1. PICK n \in Nat : n = Len(visits)
    BY IsSeqLen DEF Covers, Shaped
<1>2. v \in 1..n /\ v \in 1..n + 1 /\ n + 1 \in 1..n + 1 /\ v \in 1..n + 1 - 1
    BY <1>1
<1>3. PICK e \in Nat, len \in Nat : e = Earlier(visits, v) /\ len = Len(visits[v].darts)
    BY <1>1, <1>2, EarlierIs DEF Covers, Shaped, DartsPerVisit
<1>4. Earlier(visits, v) + Len(visits[v].darts) <= Earlier(visits, n + 1)
    BY <1>1, <1>2, EarlierGrows DEF Covers
<1>5. e + len <= m
    BY <1>1, <1>3, <1>4 DEF Covers
<1>6. PICK s \in 1..m : s = i + e
    BY <1>3, <1>5
<1>7. Lies(visits, s, v, i)
    BY <1>3, <1>6 DEF Lies
<1> QED
    BY <1>7

(* What the visits add up to is what the darts of the leg add up to.       *)
LEMMA DartByDart ==
    ASSUME NEW visits, NEW m \in Nat, Covers(visits, m), NEW x, NEW w, SameAmounts(visits, x, w, m),
           NEW sums, \A v \in 1..Len(visits) : sums[v] = Total(x[v], 1..Len(visits[v].darts))
    PROVE  /\ \A s \in 1..m : w[s] \in Int
           /\ Total(w, 1..m) = Total(sums, 1..Len(visits))
<1>1. PICK n \in Nat : n = Len(visits)
    BY IsSeqLen DEF Covers, Shaped
<1>2. PICK len, P : len = Lengths(visits) /\ P = Pairs(Lengths(visits), Len(visits))
    OBVIOUS
<1>3. P = Pairs(len, n)
    BY <1>1, <1>2
<1>4. \A v \in 1..n : len[v] = Len(visits[v].darts) /\ len[v] \in Nat
    BY <1>1, <1>2 DEF Lengths, Covers, Shaped, DartsPerVisit
<1>5. \A p : p \in P <=> \E v \in 1..n : \E i \in 1..Len(visits[v].darts) : p = <<v, i>>
    BY <1>1, <1>2, PairsAre DEF Covers, Shaped
<1>6. PICK u : u = [p \in P |-> x[p[1]][p[2]]]
    OBVIOUS
<1>7. \A v \in 1..n : \A i \in 1..len[v] : u[<<v, i>>] = x[v][i] /\ x[v][i] \in Int
    BY <1>1, <1>4, <1>5, <1>6 DEF SameAmounts
<1>8. Total(u, P) = Total(sums, 1..n)
    <2>1. \A v \in 1..n : sums[v] = Total(x[v], 1..len[v])
        BY <1>1, <1>4
    <2>2. InRows(u, x, sums, len, n)
        BY <1>4, <1>7, <2>1 DEF InRows
    <2> QED
        BY <1>3, <2>2, TotalRows
<1> DEFINE Of(s, p) == \E v, i : p = <<v, i>> /\ Lies(visits, s, v, i)
<1>9. PICK f : f = [s \in 1..m |-> CHOOSE p : Of(s, p)]
    OBVIOUS
<1>10. ASSUME NEW s \in 1..m
       PROVE  \E v, i : /\ f[s] = <<v, i>> /\ Lies(visits, s, v, i) /\ v \in 1..n
                        /\ i \in 1..Len(visits[v].darts) /\ w[s] = x[v][i]
    <2>1. PICK v, i : Lies(visits, s, v, i) /\ w[s] = x[v][i]
        BY DEF SameAmounts
    <2>2. Of(s, <<v, i>>)
        BY <2>1
    <2>3. Of(s, f[s])
        <3> HIDE DEF Of
        <3> QED
            BY <1>9, <2>2
    <2>4. PICK a, b : f[s] = <<a, b>> /\ Lies(visits, s, a, b)
        BY <2>3
    <2>5. a = v /\ b = i
        BY <2>1, <2>4, LiesOnce DEF Covers
    <2>6. v \in 1..n /\ i \in 1..Len(visits[v].darts)
        BY <1>1, <2>1 DEF Lies
    <2> QED
        BY <2>1, <2>4, <2>5, <2>6
<1>11. \A y : y \in P <=> \E s \in 1..m : y = f[s]
    <2>1. ASSUME NEW y \in P
          PROVE  \E s \in 1..m : y = f[s]
        <3>1. PICK v, i : v \in 1..n /\ i \in 1..Len(visits[v].darts) /\ y = <<v, i>>
            BY <1>5
        <3>2. PICK s \in 1..m : Lies(visits, s, v, i)
            BY <1>1, <3>1, LiesSomewhere
        <3>3. PICK a, b : f[s] = <<a, b>> /\ Lies(visits, s, a, b)
            BY <1>10
        <3>4. a = v /\ b = i
            BY <3>2, <3>3, LiesOnce DEF Covers
        <3> QED
            BY <3>1, <3>3, <3>4
    <2>2. ASSUME NEW s \in 1..m
          PROVE  f[s] \in P
        BY <1>5, <1>10
    <2> QED
        BY <2>1, <2>2
<1>12. \A s, r \in 1..m : f[s] = f[r] => s = r
    <2> SUFFICES ASSUME NEW s \in 1..m, NEW r \in 1..m, f[s] = f[r]
                 PROVE  s = r
        OBVIOUS
    <2>1. PICK v, i : f[s] = <<v, i>> /\ Lies(visits, s, v, i)
        BY <1>10
    <2>2. PICK a, b : f[r] = <<a, b>> /\ Lies(visits, r, a, b)
        BY <1>10
    <2>3. <<v, i>> = <<a, b>>
        BY <2>1, <2>2
    <2>4. a = v /\ b = i
        BY <2>3
    <2> QED
        BY <2>1, <2>2, <2>4 DEF Lies
<1>13. ASSUME NEW s \in 1..m
       PROVE  w[s] = u[f[s]] /\ w[s] \in Int
    <2>1. PICK v, i : /\ f[s] = <<v, i>> /\ v \in 1..n /\ i \in 1..Len(visits[v].darts)
                      /\ w[s] = x[v][i]
        BY <1>10
    <2>2. i \in 1..len[v]
        BY <1>4, <2>1
    <2> QED
        BY <1>7, <2>1, <2>2
<1>14. PICK D : D = 1..m
    OBVIOUS
<1>15. IsFiniteSet(D)
    BY <1>14, FS_Interval
<1>16. OneToOne(f, D, P)
    BY <1>11, <1>12, <1>14 DEF OneToOne
<1>17. Total(u, P) = Total(w, D)
    BY <1>13, <1>14, <1>15, <1>16, TotalImage
<1> QED
    BY <1>1, <1>8, <1>13, <1>14, <1>17

(* What a dart's rows say it paid a team.                                  *)
Awarded(dart, team) == {a \in dart.cricket.awards : a.recipient = team}

PaidTo(dart, team) == MapThenSumSet(LAMBDA a : a.points, Awarded(dart, team))

(* That is what the replay says it paid it.                                *)
LEMMA PaidIs ==
    ASSUME NEW outcome, CricketJudged(outcome), NEW dart, dart.cricket.awards = outcome.awards,
           NEW team
    PROVE  PaidTo(dart, team) = Gain(outcome, team)
<1>1. PICK A : A = Awarded(dart, team)
    OBVIOUS
<1>2. PICK p : p = outcome.target * outcome.surplus
    OBVIOUS
<1>3. PICK paid : paid = [recipient |-> team, points |-> p]
    OBVIOUS
<1>4. \A a \in A : a = paid
    BY <1>1, <1>2, <1>3 DEF Awarded, CricketJudged
<1>5. IsFiniteSet(A) /\ (A = {} \/ A = {paid})
    <2>1. IsFiniteSet({paid}) /\ A \subseteq {paid}
        BY <1>4, FS_Singleton
    <2>2. IsFiniteSet(A)
        BY <2>1, FS_Subset
    <2> QED
        BY <2>1, <2>2
<1>6. A # {} => p \in Int
    BY <1>1, <1>2 DEF Awarded, CricketJudged
<1>7. PICK w : w = [a \in A |-> a.points]
    OBVIOUS
<1> DEFINE Solves(sum) ==
              sum = [s \in SUBSET A |->
                        IF s = {} THEN 0
                        ELSE (CHOOSE x \in s : TRUE).points + sum[s \ {CHOOSE x \in s : TRUE}]]
           sum == CHOOSE f : Solves(f)
<1>8. PaidTo(dart, team) = sum[A]
    BY <1>1 DEF PaidTo, MapThenSumSet, MapThenFoldSet
<1>9. \A f : Solves(f) <=> IsSum(f, w, A)
    <2>1. \A s \in SUBSET A : s # {} =>
             w[CHOOSE x \in s : TRUE] = (CHOOSE x \in s : TRUE).points
        BY <1>7
    <2> QED
        BY <2>1 DEF IsSum, One
<1>10. IsSum(sum, w, A)
    <2>1. PICK f : IsSum(f, w, A)
        BY <1>5, SumsExist
    <2>2. \E g : Solves(g)
        <3>1. Solves(f)
            BY <1>9, <2>1
        <3> HIDE DEF Solves
        <3> QED
            BY <3>1
    <2> HIDE DEF Solves
    <2>3. Solves(sum)
        BY <2>2
    <2> QED
        BY <1>9, <2>3
<1>11. sum[A] = Total(w, A)
    <2> HIDE DEF sum
    <2> QED
        BY <1>5, <1>10, TotalIs
<1> HIDE DEF sum
<1>12. CASE A = {}
    <2>1. Total(w, A) = 0
        BY <1>5, <1>12, TotalZero
    <2>2. ~\E a \in outcome.awards : a.recipient = team
        BY <1>1, <1>12 DEF Awarded
    <2> QED
        BY <1>8, <1>11, <2>1, <2>2 DEF Gain
<1>13. CASE A = {paid}
    <2>1. w[paid] = p /\ p \in Int
        BY <1>3, <1>6, <1>7, <1>13
    <2>2. \A a \in A : w[a] \in Int
        BY <1>13, <2>1
    <2>3. PICK rest : rest = A \ {paid} /\ rest = {}
        BY <1>13
    <2>4. Total(w, rest) = 0 /\ Total(w, A) = w[paid] + Total(w, rest)
        <3>1. Total(w, rest) = 0
            BY <2>3, FS_EmptySet, TotalZero
        <3>2. Total(w, A) = w[paid] + Total(w, A \ {paid})
            BY <1>5, <1>13, <2>2, TotalOf
        <3> QED
            BY <2>3, <3>1, <3>2
    <2>5. Total(w, A) = p
        BY <2>1, <2>4
    <2>6. \E a \in outcome.awards : a.recipient = team
        BY <1>1, <1>13 DEF Awarded
    <2> QED
        BY <1>2, <1>8, <1>11, <2>5, <2>6 DEF Gain
<1> QED
    BY <1>5, <1>12, <1>13

(* What the rows of some darts say they paid a team.                       *)
StoredPoints(darts, team, D) == MapThenSumSet(LAMBDA s : PaidTo(darts[s], team), D)

(* The rows' points, summed over a set of darts, are the total of any        *)
(* function that gives each of those darts what its row pays.              *)
LEMMA StoredPointsAre ==
    ASSUME NEW darts, NEW team, NEW D, IsFiniteSet(D), NEW w,
           \A s \in D : w[s] = PaidTo(darts[s], team)
    PROVE  StoredPoints(darts, team, D) = Total(w, D)
<1> DEFINE Solves(sum) ==
              sum = [s \in SUBSET D |->
                        IF s = {} THEN 0
                        ELSE PaidTo(darts[CHOOSE x \in s : TRUE], team)
                             + sum[s \ {CHOOSE x \in s : TRUE}]]
           sum == CHOOSE f : Solves(f)
<1>1. StoredPoints(darts, team, D) = sum[D]
    BY DEF StoredPoints, MapThenSumSet, MapThenFoldSet
<1>2. \A f : Solves(f) <=> IsSum(f, w, D)
    <2>1. \A s \in SUBSET D : s # {} =>
             w[CHOOSE x \in s : TRUE] = PaidTo(darts[CHOOSE x \in s : TRUE], team)
        OBVIOUS
    <2> QED
        BY <2>1 DEF IsSum, One
<1>3. IsSum(sum, w, D)
    <2>1. PICK f : IsSum(f, w, D)
        BY SumsExist
    <2>2. \E g : Solves(g)
        <3>1. Solves(f)
            BY <1>2, <2>1
        <3> HIDE DEF Solves
        <3> QED
            BY <3>1
    <2> HIDE DEF Solves
    <2>3. Solves(sum)
        BY <2>2
    <2> QED
        BY <1>2, <2>3
<1>4. sum[D] = Total(w, D)
    <2> HIDE DEF sum
    <2> QED
        BY <1>3, TotalIs
<1> QED
    BY <1>1, <1>4

(* The effect row of a dart, and what those of some darts add up to.       *)
Effect(dart) == CHOOSE e \in dart.cricket.effects : TRUE

StoredMarks(darts, D) == MapThenSumSet(LAMBDA s : Effect(darts[s]).marks, D)

(* The rows' marks, summed over a set of darts, are the total of any         *)
(* function that gives each of those darts what its row marked.            *)
LEMMA StoredMarksAre ==
    ASSUME NEW darts, NEW D, IsFiniteSet(D), NEW w, \A s \in D : w[s] = Effect(darts[s]).marks
    PROVE  StoredMarks(darts, D) = Total(w, D)
<1> DEFINE Solves(sum) ==
              sum = [s \in SUBSET D |->
                        IF s = {} THEN 0
                        ELSE Effect(darts[CHOOSE x \in s : TRUE]).marks
                             + sum[s \ {CHOOSE x \in s : TRUE}]]
           sum == CHOOSE f : Solves(f)
<1>1. StoredMarks(darts, D) = sum[D]
    BY DEF StoredMarks, MapThenSumSet, MapThenFoldSet
<1>2. \A f : Solves(f) <=> IsSum(f, w, D)
    <2>1. \A s \in SUBSET D : s # {} =>
             w[CHOOSE x \in s : TRUE] = Effect(darts[CHOOSE x \in s : TRUE]).marks
        OBVIOUS
    <2> QED
        BY <2>1 DEF IsSum, One
<1>3. IsSum(sum, w, D)
    <2>1. PICK f : IsSum(f, w, D)
        BY SumsExist
    <2>2. \E g : Solves(g)
        <3>1. Solves(f)
            BY <1>2, <2>1
        <3> HIDE DEF Solves
        <3> QED
            BY <3>1
    <2> HIDE DEF Solves
    <2>3. Solves(sum)
        BY <2>2
    <2> QED
        BY <1>2, <2>3
<1>4. sum[D] = Total(w, D)
    <2> HIDE DEF sum
    <2> QED
        BY <1>3, TotalIs
<1> QED
    BY <1>1, <1>4

(* The rows of a dart, of a cricket leg.                                   *)
CricketRow(row, visits, s, v, i) ==
    /\ Lies(visits, s, v, i) /\ row.darts[s].visit = v
    /\ row.visits[v].team = visits[v].team
    /\ Effect(row.darts[s]).marks = visits[v].darts[i].marks
    /\ Effect(row.darts[s]).target = visits[v].darts[i].target
    /\ row.darts[s].cricket.awards = visits[v].darts[i].awards

(* Every row of a cricket leg repeats a dart of a visit of its replay.      *)
LEMMA CricketRowIs ==
    ASSUME ~IsX01, NEW l \in LegRow, NEW row, RowRight(row, l.starter, l.darts),
           NEW s \in 1..Len(row.darts)
    PROVE  \E v, i : CricketRow(row, LegOf(l).visits, s, v, i)
<1>1. PICK visits : visits = LegOf(l).visits
    OBVIOUS
<1>2. VisitsRight(row.visits, visits) /\ DartsRight(row.darts, visits, l.starter, l.darts)
    BY <1>1 DEF RowRight, LegOf
<1>3. DartRight(row.darts[s], visits, l.starter, l.darts, s)
    BY <1>2 DEF DartsRight
<1>4. PICK v, i, prior : /\ Lies(visits, s, v, i)
                         /\ row.darts[s] = DartRow(visits[v], v, i, prior)
    BY <1>3 DEF DartRight
<1>5. row.visits[v].team = visits[v].team
    <2>1. PICK r : r = row.visits[v] /\ r = VisitRow(visits, v)
        BY <1>2, <1>4 DEF VisitsRight, Lies
    <2>2. r.team = visits[v].team
        BY <2>1 DEF VisitRow
    <2> QED
        BY <2>1, <2>2
<1>6. PICK dart, outcome : dart = row.darts[s] /\ outcome = visits[v].darts[i]
    OBVIOUS
<1>7. dart.visit = v /\ dart.cricket = CricketRows(visits[v], i)
    BY <1>4, <1>6 DEF DartRow
<1>8. PICK e : e = [target |-> outcome.target, marks |-> outcome.marks,
                    surplus |-> outcome.surplus, wasted |-> outcome.wasted]
    OBVIOUS
<1>9. dart.cricket = [effects |-> {e}, awards |-> outcome.awards]
    BY <1>6, <1>7, <1>8 DEF CricketRows
<1>10. dart.cricket.effects = {e} /\ dart.cricket.awards = outcome.awards
    BY <1>9
<1>11. Effect(dart) = e
    BY <1>10 DEF Effect
<1>12. e.marks = outcome.marks /\ e.target = outcome.target
    BY <1>8
<1> QED
    BY <1>1, <1>4, <1>5, <1>6, <1>7, <1>10, <1>11, <1>12 DEF CricketRow

(* What the rows of a cricket leg add up to.                               *)
MarkDarts(row, team, g) ==
    {s \in DOMAIN row.darts : /\ row.visits[row.darts[s].visit].team = team
                              /\ Effect(row.darts[s]).target = g}

(* The rows of a cricket leg, summed over a team's darts, give the marks     *)
(* and the points its replay reaches.                                      *)
LEMMA RowsSum ==
    ASSUME ~IsX01, NEW l \in LegRow, NEW row, RowRight(row, l.starter, l.darts), NEW team \in Team
    PROVE  /\ \A g \in Targets :
                 LegOf(l).teams[team].marks[g] = StoredMarks(row.darts, MarkDarts(row, team, g))
           /\ LegOf(l).teams[team].points = StoredPoints(row.darts, team, DOMAIN row.darts)
<1>1. PICK visits : visits = LegOf(l).visits
    OBVIOUS
<1>2. PICK m \in Nat : m = Len(l.darts) /\ m = Len(row.darts) /\ DOMAIN row.darts = 1..m
    BY IsSeqLen DEF RowRight, DartsRight
<1>3. Covers(visits, m)
    BY <1>1, <1>2 DEF RowRight, LegOf
<1>4. CricketInv(LegOf(l), NTeams) /\ team \in 0..NTeams - 1
    BY LegIsPlayed, ReplayKeepsMarks DEF IsX01, Team
<1>5. PICK n \in Nat : n = Len(visits)
    BY <1>3, IsSeqLen DEF Covers, Shaped
<1>6. \A v \in 1..n : CricketSound(visits[v])
    BY <1>1, <1>4, <1>5 DEF CricketInv
<1>7. \A s \in 1..m : \E v, i : CricketRow(row, visits, s, v, i)
    BY <1>1, <1>2, CricketRowIs
<1>8. \A v, i : v \in 1..n /\ i \in 1..Len(visits[v].darts) => CricketJudged(visits[v].darts[i])
    BY <1>6 DEF CricketSound
<1>9. PICK D : D = 1..m
    OBVIOUS
<1>10. IsFiniteSet(D)
    BY <1>9, FS_Interval
<1>11. LegOf(l).teams[team].points = StoredPoints(row.darts, team, D)
    <2>1. PICK x : x = [v \in 1..n |-> Gains(visits[v].darts, team)]
        OBVIOUS
    <2>2. PICK w : w = [s \in 1..m |-> PaidTo(row.darts[s], team)]
        OBVIOUS
    <2>3. \A v, i : v \in 1..n /\ i \in 1..Len(visits[v].darts) =>
             x[v][i] = Gain(visits[v].darts[i], team) /\ x[v][i] \in Int
        <3> SUFFICES ASSUME NEW v \in 1..n, NEW i \in 1..Len(visits[v].darts)
                     PROVE  x[v][i] = Gain(visits[v].darts[i], team) /\ x[v][i] \in Int
            OBVIOUS
        <3>1. x[v][i] = Gain(visits[v].darts[i], team)
            BY <2>1 DEF Gains
        <3>2. Gain(visits[v].darts[i], team) \in Nat
            BY <1>8, JudgedAmounts
        <3> QED
            BY <3>1, <3>2
    <2>4. ASSUME NEW s \in 1..m
          PROVE  \E v, i : Lies(visits, s, v, i) /\ w[s] = x[v][i]
        <3>1. PICK v, i : CricketRow(row, visits, s, v, i)
            BY <1>7
        <3>2. v \in 1..n /\ i \in 1..Len(visits[v].darts) /\ Lies(visits, s, v, i)
            BY <1>5, <3>1 DEF CricketRow, Lies
        <3>3. PaidTo(row.darts[s], team) = Gain(visits[v].darts[i], team)
            BY <1>8, <3>1, <3>2, PaidIs DEF CricketRow
        <3> QED
            BY <2>2, <2>3, <3>2, <3>3
    <2>5. SameAmounts(visits, x, w, m)
        BY <1>5, <2>3, <2>4 DEF SameAmounts
    <2>6. PICK sums : sums = TeamGains(visits, team)
        OBVIOUS
    <2>7. \A v \in 1..n : sums[v] = Total(x[v], 1..Len(visits[v].darts))
        BY <1>5, <2>1, <2>6 DEF TeamGains, Added
    <2>8. Total(w, D) = Total(sums, 1..n)
        BY <1>3, <1>5, <1>9, <2>5, <2>7, DartByDart
    <2>9. StoredPoints(row.darts, team, D) = Total(w, D)
        BY <1>9, <1>10, <2>2, StoredPointsAre
    <2>10. LegOf(l).teams[team].points = Total(sums, 1..n)
        BY <1>1, <1>4, <1>5, <2>6 DEF CricketInv
    <2> QED
        BY <2>8, <2>9, <2>10
<1>12. ASSUME NEW g \in Targets
       PROVE  LegOf(l).teams[team].marks[g] = StoredMarks(row.darts, MarkDarts(row, team, g))
    <2>1. PICK x : x = [v \in 1..n |-> IF visits[v].team = team THEN Marks(visits[v].darts, g)
                                       ELSE [i \in 1..Len(visits[v].darts) |-> 0]]
        OBVIOUS
    <2>2. PICK C : C = MarkDarts(row, team, g)
        OBVIOUS
    <2>3. PICK w : w = [s \in D |-> IF s \in C THEN Effect(row.darts[s]).marks ELSE 0]
        OBVIOUS
    <2>4. \A v, i : v \in 1..n /\ i \in 1..Len(visits[v].darts) =>
             /\ x[v][i] = IF visits[v].team = team THEN Marked(visits[v].darts[i], g) ELSE 0
             /\ x[v][i] \in Int
        <3> SUFFICES ASSUME NEW v \in 1..n, NEW i \in 1..Len(visits[v].darts)
                     PROVE  /\ x[v][i] = IF visits[v].team = team
                                         THEN Marked(visits[v].darts[i], g) ELSE 0
                            /\ x[v][i] \in Int
            OBVIOUS
        <3>1. x[v][i] = IF visits[v].team = team THEN Marked(visits[v].darts[i], g) ELSE 0
            BY <2>1 DEF Marks
        <3>2. Marked(visits[v].darts[i], g) \in Nat
            BY <1>8, JudgedAmounts
        <3> QED
            BY <3>1, <3>2
    <2>5. ASSUME NEW s \in 1..m
          PROVE  \E v, i : Lies(visits, s, v, i) /\ w[s] = x[v][i]
        <3>1. PICK v, i : CricketRow(row, visits, s, v, i)
            BY <1>7
        <3>2. v \in 1..n /\ i \in 1..Len(visits[v].darts) /\ Lies(visits, s, v, i)
            BY <1>5, <3>1 DEF CricketRow, Lies
        <3>3. s \in C <=> visits[v].team = team /\ visits[v].darts[i].target = g
            BY <1>2, <2>2, <3>1 DEF CricketRow, MarkDarts
        <3>4. w[s] = IF s \in C THEN visits[v].darts[i].marks ELSE 0
            BY <1>9, <2>3, <3>1 DEF CricketRow
        <3> QED
            BY <2>4, <3>2, <3>3, <3>4 DEF Marked
    <2>6. SameAmounts(visits, x, w, m)
        BY <1>5, <2>4, <2>5 DEF SameAmounts
    <2>7. PICK sums : sums = TeamMarks(visits, team, g)
        OBVIOUS
    <2>8. ASSUME NEW v \in 1..n
          PROVE  sums[v] = Total(x[v], 1..Len(visits[v].darts))
        <3>1. CASE visits[v].team = team
            BY <1>5, <2>1, <2>7, <3>1 DEF TeamMarks, Put
        <3>2. CASE visits[v].team # team
            <4>1. PICK I : I = 1..Len(visits[v].darts)
                OBVIOUS
            <4>2. IsFiniteSet(I)
                <5>1. PICK len \in Nat : len = Len(visits[v].darts)
                    BY <1>3, <1>5, SMTT(40) DEF Covers, Shaped, DartsPerVisit
                <5> QED
                    BY <4>1, <5>1, FS_Interval
            <4>3. \A i \in I : x[v][i] = 0
                BY <2>1, <3>2, <4>1
            <4>4. Total(x[v], I) = 0
                BY <4>2, <4>3, TotalZero
            <4> QED
                BY <1>5, <2>7, <3>2, <4>1, <4>4 DEF TeamMarks
        <3> QED
            BY <3>1, <3>2
    <2>9. (\A s \in D : w[s] \in Int) /\ Total(w, D) = Total(sums, 1..n)
        BY <1>3, <1>5, <1>9, <2>6, <2>8, DartByDart
    <2>10. C \in SUBSET D /\ (\A s \in D \ C : w[s] = 0) /\ \A s \in C : w[s] = Effect(row.darts[s]).marks
        BY <1>2, <1>9, <2>2, <2>3 DEF MarkDarts
    <2>11. IsFiniteSet(C) /\ Total(w, D) = Total(w, C)
        BY <1>10, <2>9, <2>10, TotalWithout
    <2>12. StoredMarks(row.darts, C) = Total(w, C)
        BY <2>10, <2>11, StoredMarksAre
    <2>13. LegOf(l).teams[team].marks[g] = Total(sums, 1..n)
        BY <1>1, <1>4, <1>5, <2>7 DEF CricketInv
    <2> QED
        BY <2>2, <2>9, <2>11, <2>12, <2>13
<1> QED
    BY <1>2, <1>9, <1>11, <1>12

(* The effects and the point events stored for a leg always add up to the  *)
(* position its replay reaches; an x01 leg has none.                       *)
THEOREM CricketRowsAlwaysAddUp == RowsSpec => []CricketRowsAddUp
<1>1. ASSUME RowsInv
      PROVE  CricketRowsAddUp
    <2>1. DOMAIN legs = 1..Len(legs)
        BY <1>1, LenProperties DEF RowsInv, Inductive, LegsOK
    <2>2. ASSUME NEW k \in DOMAIN legs
          PROVE  /\ legs[k] \in LegRow /\ RowRight(rows[k], legs[k].starter, legs[k].darts)
                 /\ LegOf(legs[k]) = LegAfter(legs[k].starter, legs[k].darts)
        BY <1>1, <2>1, LegsAreClean DEF LegOf
    <2>3. ASSUME IsX01, NEW k \in DOMAIN legs, NEW s \in DOMAIN rows[k].darts
          PROVE  rows[k].darts[s].cricket = [effects |-> {}, awards |-> {}]
        <3>1. PICK row, visits : row = rows[k] /\ visits = LegOf(legs[k]).visits
            OBVIOUS
        <3>2. DartsRight(row.darts, visits, legs[k].starter, legs[k].darts)
            BY <2>2, <3>1 DEF RowRight
        <3>3. s \in 1..Len(row.darts)
            BY <2>3, <3>1, <3>2, IsSeqLen DEF DartsRight
        <3>4. PICK v, i, prior : row.darts[s] = DartRow(visits[v], v, i, prior)
            <4>1. DartRight(row.darts[s], visits, legs[k].starter, legs[k].darts, s)
                BY <3>2, <3>3 DEF DartsRight
            <4> QED
                BY <4>1 DEF DartRight
        <3>5. row.darts[s].cricket = CricketRows(visits[v], i)
            BY <3>4 DEF DartRow
        <3> QED
            BY <2>3, <3>1, <3>5 DEF CricketRows
    <2>4. ASSUME ~IsX01, NEW k \in DOMAIN legs, NEW team \in Team
          PROVE  /\ \A g \in Targets :
                      LegAfter(legs[k].starter, legs[k].darts).teams[team].marks[g]
                          = StoredMarks(rows[k].darts, MarkDarts(rows[k], team, g))
                 /\ LegAfter(legs[k].starter, legs[k].darts).teams[team].points
                      = StoredPoints(rows[k].darts, team, DOMAIN rows[k].darts)
        BY <2>2, <2>4, RowsSum
    <2> QED
        BY <2>3, <2>4
        DEF CricketRowsAddUp, StoredMarks, StoredPoints, MarkDarts, Effect, PaidTo, Awarded
<1> QED
    BY <1>1, RowsHold, PTL
-----------------------------------------------------------------------------
(* What a read finds of the darts of a leg.                                *)
DartsTold(l, r) ==
    [s \in DOMAIN l.darts |->
        [throw |-> l.darts[s], visit |-> r.darts[s].visit, index |-> r.darts[s].index,
         flags |-> r.darts[s].flags]]

TrueDart(l, leg, v, i, s) ==
    [throw |-> l.darts[s], visit |-> v, index |-> i, flags |-> ExpectedFlags(l, leg, s)]

(* The darts that name a visit, and those that lie in it: together.        *)
Naming(darts, v) == {s \in DOMAIN darts : darts[s].visit = v}

LyingIn(l, leg, v) == {s \in DOMAIN l.darts : Position(leg, s)[1] = v}

Together(told, l, leg, v, e, n) ==
    /\ Naming(told, v) = e + 1..e + n
    /\ LyingIn(l, leg, v) = e + 1..e + n
    /\ \A i \in 1..n : told[e + i] = TrueDart(l, leg, v, i, e + i)

InOrder(darts, e, n) == [i \in 1..n |-> darts[e + i]]

(* Darts that lie together are shown in that order.                        *)
LEMMA DartsInOrder ==
    ASSUME NEW darts, NEW v, NEW e \in Nat, NEW n \in Nat,
           Naming(darts, v) = e + 1..e + n
    PROVE  DartsOfVisit(darts, v) = InOrder(darts, e, n)
<1> DEFINE mine   == {s \in DOMAIN darts : darts[s].visit = v}
           Upto(s) == {r \in mine : r <= s}
           Nth(i) == CHOOSE s \in mine : Cardinality(Upto(s)) = i
<1>1. mine = e + 1..e + n
    BY DEF Naming
<1>2. DartsOfVisit(darts, v) = [i \in 1..Cardinality(mine) |-> darts[Nth(i)]]
    BY DEF DartsOfVisit
<1> HIDE DEF mine
<1>3. Cardinality(mine) = n
    <2>1. Cardinality(e + 1..e + n) = IF e + 1 > e + n THEN 0 ELSE e + n - (e + 1) + 1
        BY FS_Interval
    <2> QED
        BY <1>1, <2>1
<1>4. ASSUME NEW s \in e + 1..e + n
      PROVE  Cardinality(Upto(s)) = s - e
    <2>1. Upto(s) = e + 1..s
        BY <1>1
    <2>2. Cardinality(e + 1..s) = s - (e + 1) + 1
        BY FS_Interval
    <2>3. s - (e + 1) + 1 = s - e
        OBVIOUS
    <2> HIDE DEF Upto
    <2> QED
        BY <2>1, <2>2, <2>3
<1>5. ASSUME NEW i \in 1..n
      PROVE  Nth(i) = e + i
    <2> HIDE DEF Upto
    <2>1. e + i \in mine /\ Cardinality(Upto(e + i)) = i
        <3>1. e + i \in e + 1..e + n /\ e + i - e = i
            OBVIOUS
        <3> QED
            BY <1>1, <1>4, <3>1
    <2>2. \A s \in mine : Cardinality(Upto(s)) = i => s = e + i
        BY <1>1, <1>4
    <2> QED
        BY <2>1, <2>2
<1> HIDE DEF Nth
<1> QED
    BY <1>2, <1>3, <1>5 DEF InOrder

(* The darts of a visit, as they are found.                                *)
LEMMA DartsOfOne ==
    ASSUME NEW l, NEW r, LegRight(l, r), NEW leg, leg = LegOf(l), NEW v \in 1..Len(leg.visits),
           NEW told, told = DartsTold(l, r)
    PROVE  \E e \in Nat, n \in Nat \ {0} : Together(told, l, leg, v, e, n)
<1>1. PICK visits : visits = leg.visits
    OBVIOUS
<1>2. /\ Covers(visits, Len(l.darts)) /\ Shaped(visits)
      /\ DartsRight(r.darts, visits, l.starter, l.darts)
    BY <1>1 DEF LegRight, RowRight, Covers, LegOf
<1>3. PICK m \in Nat : m = Len(l.darts) /\ DOMAIN l.darts = 1..m
    <2>1. l.darts \in Seq(Dart)
        BY DartSeqLemma DEF LegRight, LegRow
    <2> QED
        BY <2>1, LenProperties
<1>4. PICK e \in Nat, n \in Nat \ {0} : e = Earlier(visits, v) /\ n = Len(visits[v].darts)
    <2>1. PICK c \in Nat : c = Len(visits)
        BY <1>2, IsSeqLen DEF Shaped
    <2>2. v \in 1..c /\ v \in 1..c + 1
        BY <1>1, <2>1
    <2>3. PICK n : n = Len(visits[v].darts)
        OBVIOUS
    <2>4. n \in 1..DartsPerVisit
        BY <1>2, <2>1, <2>2, <2>3 DEF Shaped
    <2>5. n \in Nat \ {0}
        BY <2>4 DEF DartsPerVisit
    <2> QED
        BY <1>2, <2>1, <2>2, <2>3, <2>5, EarlierIs
<1>6. ASSUME NEW i \in 1..n
      PROVE  e + i \in 1..m /\ Lies(visits, e + i, v, i)
    <2>1. PICK s \in 1..m : Lies(visits, s, v, i)
        BY <1>1, <1>2, <1>3, <1>4, LiesSomewhere
    <2>2. s = i + e
        BY <1>4, <2>1 DEF Lies
    <2>3. s = e + i
        BY <2>2
    <2> QED
        BY <2>1, <2>3
<1>7. /\ \A s \in DOMAIN l.darts :
            <<r.darts[s].visit, r.darts[s].index>> = Position(leg, s)
      /\ \A s \in DOMAIN l.darts : r.darts[s].flags = ExpectedFlags(l, leg, s)
    <2>1. l \in LegRow /\ RowOK(l) /\ RowRight(r, l.starter, l.darts)
          /\ r.caches = CacheRows(LegOf(l))
        BY DEF LegRight
    <2>2. VerifyLeg(l, r) = {}
        BY <2>1, RightIsClean
    <2>3. CheckDarts(l, r, leg) = {}
        BY <2>2 DEF VerifyLeg, LegOf
    <2>4. \A s \in DOMAIN l.darts : r.darts[s].flags = ExpectedFlags(l, leg, s)
        BY <2>3 DEF CheckDarts
    <2> QED
        BY <2>1, <2>4, RightIsClean
<1>8. ASSUME NEW s \in 1..m
      PROVE  /\ r.darts[s].visit = Position(leg, s)[1]
             /\ r.darts[s].visit = v <=> s \in e + 1..e + n
    <2>1. DartRight(r.darts[s], visits, l.starter, l.darts, s)
        BY <1>2, <1>3 DEF DartsRight
    <2>2. PICK w, j : Lies(visits, s, w, j)
        BY <2>1 DEF DartRight
    <2>3. PICK row : row = r.darts[s]
        OBVIOUS
    <2>4. row.visit = w
        BY <1>2, <2>1, <2>2, <2>3, VisitOfDart
    <2>5. Position(leg, s) = <<w, j>>
        BY <1>1, <1>2, <2>2, PositionIs
    <2>6. w = v => s \in e + 1..e + n
        <3>1. SUFFICES ASSUME w = v PROVE s \in e + 1..e + n
            OBVIOUS
        <3>2. j \in 1..n /\ s = j + e
            BY <1>4, <2>2, <3>1 DEF Lies
        <3> QED
            BY <3>2
    <2>7. s \in e + 1..e + n => w = v
        <3>1. SUFFICES ASSUME s \in e + 1..e + n PROVE w = v
            OBVIOUS
        <3>2. PICK i \in 1..n : s = e + i
            <4>1. s - e \in 1..n /\ s = e + (s - e)
                BY <3>1
            <4> QED
                BY <4>1
        <3>3. Lies(visits, s, v, i)
            BY <1>6, <3>2
        <3> QED
            BY <1>2, <2>2, <3>3, LiesOnce
    <2> QED
        BY <2>3, <2>4, <2>5, <2>6, <2>7
<1>9. e + 1..e + n \subseteq 1..m
    <2>1. SUFFICES ASSUME NEW s \in e + 1..e + n PROVE s \in 1..m
        OBVIOUS
    <2>2. s - e \in 1..n /\ s = e + (s - e)
        OBVIOUS
    <2> QED
        BY <1>6, <2>2
<1>10. LyingIn(l, leg, v) = e + 1..e + n
    BY <1>3, <1>8, <1>9 DEF LyingIn
<1>11. \A s \in 1..m : told[s] = [throw |-> l.darts[s], visit |-> r.darts[s].visit,
                                 index |-> r.darts[s].index, flags |-> r.darts[s].flags]
    BY <1>3 DEF DartsTold
<1>12. DOMAIN told = 1..m /\ \A s \in 1..m : told[s].visit = r.darts[s].visit
    BY <1>3, <1>11 DEF DartsTold
<1>13. Naming(told, v) = e + 1..e + n
    BY <1>8, <1>9, <1>12 DEF Naming
<1>14. ASSUME NEW i \in 1..n
       PROVE  told[e + i] = TrueDart(l, leg, v, i, e + i)
    <2>1. PICK s \in 1..m : s = e + i /\ Lies(visits, s, v, i)
        BY <1>6
    <2>2. Position(leg, s) = <<v, i>>
        BY <1>1, <1>2, <2>1, PositionIs
    <2>3. r.darts[s].visit = v /\ r.darts[s].index = i
        <3>1. <<r.darts[s].visit, r.darts[s].index>> = <<v, i>>
            BY <1>3, <1>7, <2>2
        <3> QED
            BY <3>1
    <2>4. told[s] = TrueDart(l, leg, v, i, s)
        BY <1>3, <1>7, <1>11, <2>3 DEF TrueDart
    <2> QED
        BY <2>1, <2>4
<1> QED
    BY <1>10, <1>13, <1>14 DEF Together

(* A visit is shown as it was thrown, with its thrower and its verdict.    *)
LEMMA VisitTold ==
    ASSUME NEW l, NEW r, LegRight(l, r), NEW leg, leg = LegOf(l), NEW v \in 1..Len(leg.visits),
           NEW told, told = DartsTold(l, r)
    PROVE  VisitState(r.visits, told, v) = TrueVisit(l, leg, v)
<1>1. PICK e \in Nat, n \in Nat \ {0} : Together(told, l, leg, v, e, n)
    BY DartsOfOne
<1>2. DartsOfVisit(told, v) = InOrder(told, e, n)
    <2>1. n \in Nat /\ Naming(told, v) = e + 1..e + n
        BY <1>1 DEF Together
    <2> QED
        BY <2>1, DartsInOrder
<1>3. PICK Mine : Mine = LyingIn(l, leg, v) /\ Mine = e + 1..e + n
    BY <1>1 DEF Together
<1>4. Cardinality(Mine) = n
    <2>1. Cardinality(e + 1..e + n) = e + n - (e + 1) + 1
        BY FS_Interval
    <2>2. e + n - (e + 1) + 1 = n
        OBVIOUS
    <2> QED
        BY <1>3, <2>1, <2>2
<1>5. Min(Mine) = e + 1
    <2>1. e + 1 \in Mine /\ \A s \in Mine : e + 1 <= s /\ (s <= e + 1 => s = e + 1)
        BY <1>3
    <2> QED
        BY <2>1 DEF Min
<1>6. TrueVisit(l, leg, v).darts = [i \in 1..n |-> TrueDart(l, leg, v, i, e + i)]
    <2>1. TrueVisit(l, leg, v).darts
             = [i \in 1..Cardinality(Mine) |-> TrueDart(l, leg, v, i, Min(Mine) + i - 1)]
        BY <1>3 DEF TrueVisit, TrueDart, LyingIn
    <2>2. \A i \in 1..n : Min(Mine) + i - 1 = e + i
        BY <1>5
    <2> QED
        BY <1>4, <2>1, <2>2
<1>7. DartsOfVisit(told, v) = TrueVisit(l, leg, v).darts
    BY <1>1, <1>2, <1>6 DEF Together, InOrder
<1>8. PICK visits : visits = leg.visits
    OBVIOUS
<1>9. PICK row : row = r.visits[v] /\ row = VisitRow(visits, v)
    <2>1. VisitsRight(r.visits, visits)
        BY <1>8 DEF LegRight, RowRight, LegOf
    <2> QED
        BY <1>8, <2>1 DEF VisitsRight
<1>10. /\ row.team = visits[v].team /\ row.member = visits[v].member
       /\ row.verdict = VisitVerdict(visits[v])
    <2>1. row = VisitRow(visits, v)
        BY <1>9
    <2> QED
        BY <2>1 DEF VisitRow
<1>11. VisitState(r.visits, told, v)
          = [visit |-> v, team |-> row.team, member |-> row.member,
             verdict |-> row.verdict, darts |-> DartsOfVisit(told, v)]
    BY <1>9 DEF VisitState
<1>12. PICK darts : darts = TrueVisit(l, leg, v).darts
    OBVIOUS
<1>13. TrueVisit(l, leg, v)
          = [visit |-> v, team |-> visits[v].team, member |-> visits[v].member,
             verdict |-> VisitVerdict(visits[v]), darts |-> darts]
    BY <1>8, <1>12 DEF TrueVisit
<1> QED
    BY <1>7, <1>10, <1>11, <1>12, <1>13

(* So are the visits that a leg shows; of a leg without visits the darts   *)
(* need not be read again.                                                 *)
LEMMA VisitsTold ==
    ASSUME NEW l, NEW r, LegRight(l, r), NEW leg, leg = LegOf(l),
           NEW told, told = DartsTold(l, r) \/ r.visits = <<>>
    PROVE  ShownVisits(r.visits, told) = TrueVisits(l, leg)
<1>1. PICK visits : visits = leg.visits
    OBVIOUS
<1>2. VisitsRight(r.visits, visits)
    BY <1>1 DEF LegRight, RowRight, LegOf
<1>3. PICK n \in Nat : n = Len(r.visits) /\ n = Len(visits)
    BY <1>2, IsSeqLen DEF VisitsRight
<1>4. n > 0 => told = DartsTold(l, r)
    <2>1. r.visits = <<>> => n = 0
        BY <1>3, EmptySeq
    <2> QED
        BY <2>1
<1>5. \A v \in 1..n : n > 0 => VisitState(r.visits, told, v) = TrueVisit(l, leg, v)
    BY <1>1, <1>3, <1>4, VisitTold
<1>6. ASSUME n > 0
      PROVE  r.visits[n].verdict.complete = visits[n].complete
    <2>1. PICK row : row = r.visits[n] /\ row = VisitRow(visits, n)
        BY <1>2, <1>3, <1>6 DEF VisitsRight
    <2>2. row.verdict = VisitVerdict(visits[n])
        <3>1. row = VisitRow(visits, n)
            BY <2>1
        <3> QED
            BY <3>1 DEF VisitRow
    <2>3. VisitVerdict(visits[n]).complete = visits[n].complete
        BY DEF VisitVerdict
    <2> QED
        BY <2>1, <2>2, <2>3
<1>7. CASE n = 0
    <2>1. ShownVisits(r.visits, told) = [current |-> <<>>, previous |-> <<>>]
        BY <1>3, <1>7 DEF ShownVisits
    <2>2. TrueVisits(l, leg) = [current |-> <<>>, previous |-> <<>>]
        BY <1>1, <1>3, <1>7 DEF TrueVisits
    <2> QED
        BY <2>1, <2>2
<1>8. CASE n > 0 /\ visits[n].complete
    <2>1. PICK a : a = VisitState(r.visits, told, n) /\ a = TrueVisit(l, leg, n)
        <3>1. n \in 1..n
            BY <1>8
        <3> QED
            BY <1>5, <1>8, <3>1
    <2>2. ShownVisits(r.visits, told) = [current |-> <<>>, previous |-> <<a>>]
        <3>1. n # 0
            BY <1>8
        <3>2. PICK c : c = r.visits[n].verdict.complete /\ c = visits[n].complete
            BY <1>6, <1>8
        <3>3. c
            BY <1>8, <3>2
        <3> QED
            BY <1>3, <2>1, <3>1, <3>2, <3>3 DEF ShownVisits
    <2>3. TrueVisits(l, leg) = [current |-> <<>>, previous |-> <<a>>]
        BY <1>1, <1>3, <1>8, <2>1 DEF TrueVisits
    <2> QED
        BY <2>2, <2>3
<1>9. CASE n > 0 /\ ~visits[n].complete
    <2>1. PICK a, b : a = VisitState(r.visits, told, n) /\ a = TrueVisit(l, leg, n)
                      /\ (n > 1 => b = VisitState(r.visits, told, n - 1)
                                   /\ b = TrueVisit(l, leg, n - 1))
        <3>1. n \in 1..n /\ (n > 1 => n - 1 \in 1..n)
            BY <1>9
        <3> QED
            BY <1>5, <1>9, <3>1
    <2>2. n = 1 \/ n > 1
        BY <1>9
    <2>3. ShownVisits(r.visits, told)
             = [current |-> <<a>>, previous |-> IF n = 1 THEN <<>> ELSE <<b>>]
        BY <1>3, <1>6, <1>9, <2>1, <2>2 DEF ShownVisits
    <2>4. n - 1 = 0 <=> n = 1
        OBVIOUS
    <2>5. TrueVisits(l, leg) = [current |-> <<a>>, previous |-> IF n = 1 THEN <<>> ELSE <<b>>]
        BY <1>1, <1>3, <1>9, <2>1, <2>2, <2>4 DEF TrueVisits
    <2> QED
        BY <2>3, <2>5
<1> QED
    BY <1>7, <1>8, <1>9
-----------------------------------------------------------------------------
(* A board in order, and the database it is the board of.                  *)
BoardRight(board) ==
    /\ LegsOK(board.legs)
    /\ board.winner = Champion(board.legs)
    /\ LastOf(board.legs).winner = NoTeam <=> board.winner = NoTeam
    /\ board.abandoned \in BOOLEAN

DbRight(db) ==
    /\ BoardRight(db.board)
    /\ \A k \in 1..Len(db.board.legs) : LegRight(db.board.legs[k], db.rows[k])

(* What the answer of a board comes to.                                    *)
ActiveNow(board) ==
    IF board.abandoned \/ board.winner # NoTeam THEN 0 ELSE Len(board.legs)

LegsWonOn(board) == [team \in Team |-> Cardinality(WonBy(board.legs, team))]

LegTold(board, k) == TrueLeg(board, LegOf(board.legs[k]), k)

SecondLeg(board, k) ==
    IF ActiveNow(board) \in {0, k} THEN <<>> ELSE <<LegTold(board, ActiveNow(board))>>

Truth(board, k) == TrueResponse(board, Replayed(board), TrueLegs(board, Replayed(board)), k)

(* Its legs are those that the replay makes of it.                         *)
LEMMA LegsReplayed ==
    ASSUME NEW board, BoardRight(board)
    PROVE  /\ Len(board.legs) \in Nat \ {0} /\ DOMAIN board.legs = 1..Len(board.legs)
           /\ Replayed(board) = [k \in 1..Len(board.legs) |-> LegOf(board.legs[k])]
           /\ \A k \in 1..Len(board.legs) : Replayed(board)[k].winner = board.legs[k].winner
           /\ \A k \in 1..Len(board.legs) :
                TrueLegs(board, Replayed(board))[k] = LegTold(board, k)
<1>1. Len(board.legs) \in Nat \ {0} /\ DOMAIN board.legs = 1..Len(board.legs)
    BY LenProperties DEF BoardRight, LegsOK
<1>2. Replayed(board) = [k \in 1..Len(board.legs) |-> LegOf(board.legs[k])]
    BY <1>1 DEF Replayed, LegOf
<1>3. ASSUME NEW k \in 1..Len(board.legs)
      PROVE  LegOf(board.legs[k]).winner = board.legs[k].winner
    <2>1. board.legs[k] \in LegRow /\ RowOK(board.legs[k])
        BY ElementOfSeq DEF BoardRight, LegsOK
    <2> QED
        BY <2>1, NotRefused
<1> QED
    BY <1>1, <1>2, <1>3 DEF TrueLegs, LegTold

(* A match has one champion at most: the winner stored with it.            *)
LEMMA OneChampion ==
    ASSUME NEW board, BoardRight(board)
    PROVE  /\ board.winner = NoTeam <=> Champions(board.legs) = {}
           /\ Champions(board.legs) # {} => Champions(board.legs) = {board.winner}
BY SoleChampion DEF BoardRight

(* The answer, from the darts alone, is that of the stored board.          *)
LEMMA TruthIs ==
    ASSUME NEW board, BoardRight(board), NEW k \in 1..Len(board.legs)
    PROVE  Truth(board, k)
              = [status    |-> Status(board),
                 winner    |-> board.winner,
                 legs_won  |-> LegsWonOn(board),
                 current   |-> LegTold(board, k),
                 active_id |-> ActiveNow(board),
                 active    |-> SecondLeg(board, k)]
<1>1. PICK n, replays, told :
         /\ n \in Nat \ {0} /\ n = Len(board.legs)
         /\ replays = Replayed(board) /\ told = TrueLegs(board, replays)
    BY LegsReplayed
<1>2. /\ DOMAIN replays = 1..n
      /\ \A i \in 1..n : replays[i].winner = board.legs[i].winner /\ told[i] = LegTold(board, i)
    BY <1>1, LegsReplayed
<1> DEFINE Won(team) == {i \in DOMAIN replays : replays[i].winner = team}
           champions == {team \in Team : Cardinality(Won(team)) >= Needed}
           active    == IF board.abandoned \/ champions # {} THEN 0 ELSE n
<1>3. \A team : Won(team) = WonBy(board.legs, team)
    BY <1>1, <1>2 DEF WonBy
<1>4. Truth(board, k)
        = [status    |-> IF board.abandoned THEN "abandoned"
                         ELSE IF champions # {} THEN "complete" ELSE "in_progress",
           winner    |-> IF champions = {} THEN NoTeam ELSE CHOOSE team \in champions : TRUE,
           legs_won  |-> [team \in Team |-> Cardinality(Won(team))],
           current   |-> told[k],
           active_id |-> active,
           active    |-> IF active \in {0, k} THEN <<>> ELSE <<told[active]>>]
    BY <1>1 DEF Truth, TrueResponse
<1> HIDE DEF Won
<1>5. champions = Champions(board.legs)
    BY <1>3 DEF Champions
<1>6. [team \in Team |-> Cardinality(Won(team))] = LegsWonOn(board)
    BY <1>3 DEF LegsWonOn
<1> HIDE DEF champions
<1>7. /\ board.winner = NoTeam <=> champions = {}
      /\ champions # {} => champions = {board.winner}
    BY <1>5, OneChampion
<1>8. (IF champions = {} THEN NoTeam ELSE CHOOSE team \in champions : TRUE) = board.winner
    BY <1>7
<1>9. active = ActiveNow(board) /\ active \in 0..n
    BY <1>1, <1>7 DEF ActiveNow
<1>10. (IF board.abandoned THEN "abandoned"
        ELSE IF champions # {} THEN "complete" ELSE "in_progress") = Status(board)
    BY <1>7 DEF Status
<1> HIDE DEF active
<1>11. told[k] = LegTold(board, k)
    BY <1>1, <1>2
<1>12. (IF active \in {0, k} THEN <<>> ELSE <<told[active]>>) = SecondLeg(board, k)
    <2>1. active \notin {0, k} => told[active] = LegTold(board, active)
        BY <1>2, <1>9
    <2> QED
        BY <1>9, <2>1 DEF SecondLeg
<1> QED
    BY <1>4, <1>6, <1>8, <1>9, <1>10, <1>11, <1>12
-----------------------------------------------------------------------------
(* What the statements of a state find, of a leg that is there.            *)
RowTold(l) == [starter |-> l.starter, winner |-> l.winner]

WinnersTold(board) == [i \in 1..Len(board.legs) |-> board.legs[i].winner]

Stated(got, db, k) ==
    /\ AllRead(got)
    /\ \A i \in 1..Len(got) : got[i] = Look(db, Statements[i], k)

Finds(got, board, l, r) ==
    /\ got[1] = <<RowTold(l)>>
    /\ got[2] = [winner |-> board.winner, abandoned |-> board.abandoned]
    /\ got[3] = DartsTold(l, r)
    /\ got[4] = WinnersTold(board)
    /\ got[5] = r.visits
    /\ IF Len(got) = 6 THEN got[6] = DartsTold(l, r) ELSE r.visits = <<>>

(* They find the leg, its rows and the winners stored with the legs.       *)
LEMMA Looked ==
    ASSUME NEW db, DbRight(db), NEW k \in 1..Len(db.board.legs), NEW got, Stated(got, db, k),
           NEW l, l = db.board.legs[k], NEW r, r = db.rows[k]
    PROVE  Finds(got, db.board, l, r)
<1>1. DOMAIN db.board.legs = 1..Len(db.board.legs)
    BY LegsReplayed DEF DbRight
<1>2. Len(got) = 6 \/ (Len(got) = 5 /\ got[5] = <<>>)
    BY DEF Stated, AllRead
<1>3. \A i \in 1..5 : i \in 1..Len(got)
    <2>1. PICK c \in {5, 6} : c = Len(got)
        BY <1>2
    <2>2. \A i \in 1..5 : i \in 1..c
        OBVIOUS
    <2> QED
        BY <2>1, <2>2
<1>4. \A i \in 1..5 : got[i] = Look(db, Statements[i], k)
    BY <1>3 DEF Stated
<1>5. /\ Statements[1] = "leg" /\ Statements[2] = "match" /\ Statements[3] = "darts"
      /\ Statements[4] = "legs" /\ Statements[5] = "visits" /\ Statements[6] = "visit_darts"
    BY DEF Statements
<1>6. /\ got[1] = Look(db, "leg", k) /\ got[2] = Look(db, "match", k)
      /\ got[3] = Look(db, "darts", k) /\ got[4] = Look(db, "legs", k)
      /\ got[5] = Look(db, "visits", k)
    BY <1>4, <1>5
<1>7. DartRows(db, k) = DartsTold(l, r)
    BY DEF DartRows, DartsTold
<1>8. Look(db, "darts", k) = DartsTold(l, r) /\ Look(db, "visit_darts", k) = DartsTold(l, r)
    BY <1>1, <1>7 DEF Look
<1>9. Look(db, "leg", k) = <<RowTold(l)>> /\ Look(db, "visits", k) = r.visits
    BY <1>1 DEF Look, RowTold
<1>10. Look(db, "match", k) = [winner |-> db.board.winner, abandoned |-> db.board.abandoned]
    BY DEF Look
<1>11. Look(db, "legs", k) = WinnersTold(db.board)
    BY <1>1 DEF Look, WinnersTold
<1>12. IF Len(got) = 6 THEN got[6] = DartsTold(l, r) ELSE r.visits = <<>>
    <2>1. Len(got) = 6 => got[6] = Look(db, "visit_darts", k)
        BY <1>5 DEF Stated
    <2> QED
        BY <1>2, <1>6, <1>8, <1>9, <2>1
<1> QED
    BY <1>6, <1>8, <1>9, <1>10, <1>11, <1>12 DEF Finds

(* A state that says of the board what is so.                              *)
SaysTruly(state, board, k) ==
    /\ state.status = Status(board)
    /\ state.winner = board.winner
    /\ state.legs_won = LegsWonOn(board)
    /\ ActiveId(state) = ActiveNow(board)
    /\ state.current.leg = k
    /\ LegResponse(state.current, state.status = "abandoned") = LegTold(board, k)

(* The leg of a state, as it is answered.                                  *)
LEMMA LegAnswered ==
    ASSUME NEW db, DbRight(db), NEW k \in 1..Len(db.board.legs), NEW got, Stated(got, db, k),
           NEW given, given = db.board.abandoned
    PROVE  LegResponse(GameState(k, got).current, given) = LegTold(db.board, k)
<1>1. PICK board, l, r, leg, m :
         /\ board = db.board /\ l = board.legs[k] /\ r = db.rows[k] /\ leg = LegOf(l)
         /\ m = Len(l.darts)
    OBVIOUS
<1>2. /\ LegRight(l, r) /\ l \in LegRow /\ RowOK(l)
    BY <1>1 DEF DbRight, LegRight
<1>3. leg.winner = l.winner
    BY <1>1, <1>2, NotRefused
<1>4. PICK told : told = DartsTold(l, r)
    OBVIOUS
<1>5. /\ got[1] = <<RowTold(l)>> /\ got[3] = told /\ got[5] = r.visits
      /\ IF Len(got) = 6 THEN got[6] = told ELSE r.visits = <<>>
    <2>1. l = db.board.legs[k] /\ r = db.rows[k]
        BY <1>1
    <2>2. Finds(got, db.board, l, r)
        BY <2>1, Looked
    <2> QED
        BY <1>4, <2>2 DEF Finds
<1>6. /\ m \in Nat /\ DOMAIN l.darts = 1..m /\ l.darts = [s \in 1..m |-> l.darts[s]]
    <2>1. l.darts \in Seq(Dart)
        BY <1>2, DartSeqLemma DEF LegRow
    <2>2. m \in Nat /\ l.darts \in [1..m -> Dart]
        BY <1>1, <2>1, LenProperties
    <2> QED
        BY <2>2
<1>7. DOMAIN told = 1..m /\ \A s \in 1..m : told[s].throw = l.darts[s]
    BY <1>4, <1>6 DEF DartsTold
<1>8. Len(told) = m
    <2>1. told = [s \in 1..m |-> told[s]]
        BY <1>4, <1>6 DEF DartsTold
    <2> QED
        BY <1>6, <2>1, FunIsSeq
<1>9. [s \in DOMAIN told |-> told[s].throw] = l.darts
    BY <1>6, <1>7
<1>10. LegAfter(got[1][1].starter, [s \in DOMAIN got[3] |-> got[3][s].throw]) = leg
    <2>1. got[1][1].starter = l.starter
        BY <1>5 DEF RowTold
    <2> QED
        BY <1>1, <1>5, <1>9, <2>1 DEF LegOf
<1>11. ShownVisits(got[5], IF Len(got) = 6 THEN got[6] ELSE <<>>) = TrueVisits(l, leg)
    <2>1. PICK ds : ds = IF Len(got) = 6 THEN got[6] ELSE <<>>
        OBVIOUS
    <2>2. ds = DartsTold(l, r) \/ r.visits = <<>>
        BY <1>4, <1>5, <2>1
    <2>3. ShownVisits(r.visits, ds) = TrueVisits(l, leg)
        BY <1>1, <1>2, <2>2, VisitsTold, SMTT(40)
    <2> QED
        BY <1>5, <2>1, <2>3
<1>12. PICK view : /\ view = GameState(k, got).current
                   /\ view = [leg |-> k, row |-> RowTold(l), replay |-> leg, thrown |-> m,
                              visits |-> TrueVisits(l, leg)]
    <2>1. GameState(k, got).current
             = [leg |-> k, row |-> got[1][1],
                replay |-> LegAfter(got[1][1].starter,
                                    [s \in DOMAIN got[3] |-> got[3][s].throw]),
                thrown |-> Len(got[3]),
                visits |-> ShownVisits(got[5], IF Len(got) = 6 THEN got[6] ELSE <<>>)]
        BY DEF GameState
    <2>2. got[1][1] = RowTold(l) /\ Len(got[3]) = m
        BY <1>5, <1>8
    <2> QED
        BY <1>10, <1>11, <2>1, <2>2
<1>13. /\ view.leg = k /\ view.row.starter = l.starter /\ view.row.winner = leg.winner
       /\ view.thrown = m /\ view.replay = leg /\ view.visits = TrueVisits(l, leg)
    BY <1>3, <1>12 DEF RowTold
<1>14. LegResponse(view, given)
         = [leg |-> k, starter |-> l.starter, winner |-> leg.winner, thrown |-> m,
            left |-> DartsLeft(leg),
            thrower |-> IF given THEN Nobody ELSE NextThrower(Members, leg),
            teams |-> [team \in Team |-> TeamLegState(leg, team)],
            visits |-> TrueVisits(l, leg),
            checkout |-> HintsFor(Rules, Members, leg, leg.winner # NoTeam, given)]
    BY <1>13 DEF LegResponse
<1>15. TrueLeg(board, leg, k)
         = [leg |-> k, starter |-> l.starter, winner |-> leg.winner, thrown |-> m,
            left |-> DartsLeft(leg),
            thrower |-> IF given THEN Nobody ELSE NextThrower(Members, leg),
            teams |-> [team \in Team |-> TeamLegState(leg, team)],
            visits |-> TrueVisits(l, leg),
            checkout |-> HintsFor(Rules, Members, leg, leg.winner # NoTeam, given)]
    BY <1>1 DEF TrueLeg
<1> QED
    BY <1>1, <1>12, <1>14, <1>15 DEF LegTold

(* All its statements made of one database, a state says what is so.       *)
LEMMA StateIs ==
    ASSUME NEW db, DbRight(db), NEW k \in 1..Len(db.board.legs), NEW got, Stated(got, db, k)
    PROVE  SaysTruly(GameState(k, got), db.board, k)
<1>1. PICK board, ls, n : board = db.board /\ ls = board.legs /\ n = Len(ls)
    OBVIOUS
<1>2. BoardRight(board) /\ n \in Nat \ {0} /\ DOMAIN ls = 1..n /\ k \in 1..n
    BY <1>1, LegsReplayed DEF DbRight
<1>3. PICK state : state = GameState(k, got)
    OBVIOUS
<1>4. /\ got[2] = [winner |-> board.winner, abandoned |-> board.abandoned]
      /\ got[4] = WinnersTold(board)
    <2>1. PICK l, r : l = db.board.legs[k] /\ r = db.rows[k]
        OBVIOUS
    <2>2. Finds(got, db.board, l, r)
        BY <2>1, Looked
    <2> QED
        BY <1>1, <2>2 DEF Finds
<1>5. DOMAIN got[4] = 1..n /\ \A i \in 1..n : got[4][i] = ls[i].winner
    BY <1>1, <1>4 DEF WinnersTold
<1>6. state.status = Status(board) /\ state.winner = board.winner
    BY <1>3, <1>4 DEF GameState, Status
<1>7. state.legs_won = LegsWonOn(board)
    <2>1. \A team : {i \in DOMAIN got[4] : got[4][i] = team} = WonBy(ls, team)
        BY <1>1, <1>5 DEF WonBy
    <2>2. state.legs_won
             = [team \in Team |-> Cardinality({i \in DOMAIN got[4] : got[4][i] = team})]
        BY <1>3 DEF GameState
    <2> QED
        BY <1>1, <2>1, <2>2 DEF LegsWonOn
<1>8. state.status = "abandoned" <=> board.abandoned
    BY <1>2, <1>6 DEF Status, BoardRight
<1>9. ActiveId(state) = ActiveNow(board)
    <2> DEFINE open == {i \in DOMAIN got[4] : got[4][i] = NoTeam}
    <2>1. state.active = IF open = {} THEN 0 ELSE Min(open)
        BY <1>3 DEF GameState
    <2>2. \A i \in 1..n : i < n => ls[i].winner # NoTeam
        <3>1. SUFFICES ASSUME NEW i \in 1..n, i < n PROVE ls[i].winner # NoTeam
            OBVIOUS
        <3>2. i \in 1..n - 1
            BY <1>2, <3>1
        <3> QED
            BY <1>1, <1>2, <3>2 DEF BoardRight, LegsOK
    <2>3. ls[n].winner = NoTeam <=> board.winner = NoTeam
        BY <1>1, <1>2 DEF BoardRight, LastOf
    <2>4. CASE board.abandoned
        BY <1>8, <2>4 DEF ActiveId, ActiveNow
    <2>5. CASE ~board.abandoned /\ board.winner # NoTeam
        <3>1. open = {}
            BY <1>2, <1>5, <2>2, <2>3, <2>5
        <3> QED
            BY <1>8, <2>1, <2>5, <3>1 DEF ActiveId, ActiveNow
    <2>6. CASE ~board.abandoned /\ board.winner = NoTeam
        <3>1. open = {n}
            BY <1>2, <1>5, <2>2, <2>3, <2>6
        <3>2. Min({n}) = n
            BY <1>2 DEF Min
        <3>3. state.active = n
            BY <2>1, <3>1, <3>2
        <3> QED
            BY <1>1, <1>8, <2>6, <3>3 DEF ActiveId, ActiveNow
    <2> QED
        BY <2>4, <2>5, <2>6
<1>10. state.current.leg = k
    BY <1>3 DEF GameState
<1>11. LegResponse(state.current, state.status = "abandoned") = LegTold(board, k)
    <2>1. PICK given : given = (state.status = "abandoned")
        OBVIOUS
    <2>2. given = board.abandoned
        BY <1>2, <1>8, <2>1 DEF BoardRight
    <2>3. LegResponse(GameState(k, got).current, given) = LegTold(board, k)
        BY <1>1, <2>2, LegAnswered
    <2> QED
        BY <1>3, <2>1, <2>3
<1> QED
    BY <1>1, <1>3, <1>6, <1>7, <1>9, <1>10, <1>11 DEF SaysTruly
-----------------------------------------------------------------------------
(* A match with right rows, before a step and after it.                    *)
LEMMA RowsAreRight == RowsInv => DbRight(Db)
<1>1. SUFFICES ASSUME RowsInv PROVE DbRight(Db)
    OBVIOUS
<1>2. BoardRight(Board)
    BY <1>1 DEF RowsInv, Inductive, BoardRight, Board
<1>3. \A k \in 1..Len(legs) : LegRight(legs[k], rows[k])
    BY <1>1, LegsAreRight
<1>4. Db.board = Board /\ Db.rows = rows /\ Board.legs = legs
    BY DEF Db, Board
<1> QED
    BY <1>2, <1>3, <1>4 DEF DbRight

(* The same of the database a step leaves.                                 *)
LEMMA RowsStayRight == RowsInv' => DbRight(Db)'
<1>1. RowsInv => DbRight(Db)
    BY RowsAreRight
<1> QED
    BY <1>1, PTL

(* The response of a state that is true, whatever leg comes second.        *)
LEMMA ResponseIs ==
    ASSUME NEW board, BoardRight(board), NEW k \in 1..Len(board.legs), NEW state,
           SaysTruly(state, board, k), NEW second
    PROVE  /\ StateResponse(state, second)
                = [status    |-> Status(board),
                   winner    |-> board.winner,
                   legs_won  |-> LegsWonOn(board),
                   current   |-> LegTold(board, k),
                   active_id |-> ActiveNow(board),
                   active    |-> StateResponse(state, second).active]
           /\ SameButForTheSecondLeg(StateResponse(state, second), Truth(board, k))
           /\ StateResponse(state, second).active = SecondLeg(board, k)
                => StateResponse(state, second) = Truth(board, k)
<1>1. PICK given : given = (state.status = "abandoned")
    OBVIOUS
<1>2. /\ state.status = Status(board) /\ state.winner = board.winner
      /\ state.legs_won = LegsWonOn(board) /\ ActiveId(state) = ActiveNow(board)
      /\ LegResponse(state.current, given) = LegTold(board, k)
    BY <1>1 DEF SaysTruly
<1>3. PICK active : active = StateResponse(state, second).active
    OBVIOUS
<1>4. StateResponse(state, second)
         = [status    |-> state.status,
            winner    |-> state.winner,
            legs_won  |-> state.legs_won,
            current   |-> LegResponse(state.current, given),
            active_id |-> ActiveId(state),
            active    |-> active]
    BY <1>1, <1>3 DEF StateResponse
<1>5. StateResponse(state, second)
         = [status    |-> Status(board),
            winner    |-> board.winner,
            legs_won  |-> LegsWonOn(board),
            current   |-> LegTold(board, k),
            active_id |-> ActiveNow(board),
            active    |-> active]
    BY <1>2, <1>4
<1>6. Truth(board, k)
         = [status    |-> Status(board),
            winner    |-> board.winner,
            legs_won  |-> LegsWonOn(board),
            current   |-> LegTold(board, k),
            active_id |-> ActiveNow(board),
            active    |-> SecondLeg(board, k)]
    BY TruthIs
<1>7. SameButForTheSecondLeg(StateResponse(state, second), Truth(board, k))
    BY <1>5, <1>6 DEF SameButForTheSecondLeg
<1> QED
    BY <1>3, <1>5, <1>6, <1>7

(* With no second leg to report, it is all of it what is so.               *)
LEMMA OneLegSaid ==
    ASSUME NEW board, BoardRight(board), NEW k \in 1..Len(board.legs), NEW state,
           SaysTruly(state, board, k), ActiveId(state) \in {0, k}
    PROVE  StateResponse(state, <<>>) = Truth(board, k)
<1>1. ActiveNow(board) \in {0, k}
    BY DEF SaysTruly
<1>2. StateResponse(state, <<>>).active = SecondLeg(board, k)
    BY <1>1 DEF StateResponse, SecondLeg
<1> QED
    BY <1>2, ResponseIs

(* And with a second leg that is true as well.                             *)
LEMMA TwoLegsSaid ==
    ASSUME NEW board, BoardRight(board), NEW k \in 1..Len(board.legs), NEW state,
           SaysTruly(state, board, k), ActiveId(state) \notin {0, k},
           NEW other, SaysTruly(other, board, ActiveId(state))
    PROVE  StateResponse(state, <<other.current>>) = Truth(board, k)
<1>1. PICK n : n = ActiveNow(board) /\ n = ActiveId(state) /\ n \notin {0, k}
    BY DEF SaysTruly
<1>2. ~board.abandoned
    BY <1>1 DEF ActiveNow
<1>3. other.status = Status(board) /\ other.status # "abandoned"
    BY <1>2 DEF SaysTruly, Status
<1>4. PICK given : given = (other.status = "abandoned")
    OBVIOUS
<1>5. given = FALSE
    BY <1>3, <1>4
<1>6. LegResponse(other.current, given) = LegTold(board, n)
    BY <1>1, <1>4 DEF SaysTruly
<1>7. LegResponse(other.current, FALSE) = LegTold(board, n)
    BY <1>5, <1>6
<1>8. <<other.current>> # <<>> /\ <<other.current>>[1] = other.current
    OBVIOUS
<1>9. StateResponse(state, <<other.current>>).active = SecondLeg(board, k)
    BY <1>1, <1>7, <1>8 DEF StateResponse, SecondLeg
<1> QED
    BY <1>9, ResponseIs

(* The leg that is active is a leg of the match.                           *)
LEMMA ActiveIsThere ==
    ASSUME NEW board, BoardRight(board), NEW k, NEW state, SaysTruly(state, board, k),
           ActiveId(state) # 0
    PROVE  ActiveId(state) \in 1..Len(board.legs)
<1>1. ActiveId(state) = Len(board.legs)
    BY DEF SaysTruly, ActiveNow
<1> QED
    BY <1>1, LegsReplayed
-----------------------------------------------------------------------------
Writers == {"throw", "undo", "repeat"}

(* The answer to a write is of the board the write left, but for the leg   *)
(* it reads later; so is any answer when nobody else wrote.                *)
StateTrue(r) ==
    /\ r.by # "get" => SameButForTheSecondLeg(r.answer[2], Truth(r.seen[1], r.asked))
    /\ Alone(r.seen) => r.answer[2] = Truth(r.seen[1], r.asked)

(* While it goes on: which leg is being read, what the state it keeps for  *)
(* its answer says, and what has been read since.                          *)
LegInHand(r, state) ==
    r.by # "get" \/ Alone(r.seen) =>
        /\ SaysTruly(state, r.seen[1], r.asked)
        /\ r.leg = ActiveId(state) /\ r.leg \notin {0, r.asked}

FirstTrue(r) ==
    \/ r.first = <<>> /\ r.leg = r.asked
    \/ \E state : r.first = <<state>> /\ LegInHand(r, state)

GotTrue(r, db) ==
    Alone(r.seen) => \A i \in 1..Len(r.got) : r.got[i] = Look(db, Statements[i], r.leg)

ReadTrue(r, db) ==
    /\ BoardRight(r.seen[1]) /\ r.asked \in 1..Len(r.seen[1].legs)
    /\ r.answer = <<>> =>
         FirstTrue(r) /\ GotTrue(r, db) /\ (r.by \in Writers => r.first # <<>>)
    /\ r.answer # <<>> =>
         r.answer[1] # "history" /\ (r.answer[1] = "state" => StateTrue(r))

(* The leg being read is there.                                            *)
LEMMA LegIsThere ==
    ASSUME NEW r, BoardRight(r.seen[1]), r.asked \in 1..Len(r.seen[1].legs), FirstTrue(r),
           Alone(r.seen)
    PROVE  r.leg \in 1..Len(r.seen[1].legs)
<1>1. CASE r.first = <<>> /\ r.leg = r.asked
    BY <1>1
<1>2. ASSUME NEW state, LegInHand(r, state)
      PROVE  r.leg \in 1..Len(r.seen[1].legs)
    <2>1. SaysTruly(state, r.seen[1], r.asked) /\ r.leg = ActiveId(state) /\ ActiveId(state) # 0
        BY <1>2 DEF LegInHand
    <2> QED
        BY <2>1, ActiveIsThere
<1> QED
    BY <1>1, <1>2 DEF FirstTrue

(* A true state makes a true answer, or the first half of one.             *)
LEMMA Responded ==
    ASSUME NEW r, ReadForm(r), r.answer = <<>>,
           BoardRight(r.seen[1]), r.asked \in 1..Len(r.seen[1].legs), FirstTrue(r),
           NEW state, NEW db, NEW q, q = Respond(r, state),
           r.first = <<>> /\ r.by \in Writers => SaysTruly(state, r.seen[1], r.asked),
           Alone(r.seen) => SaysTruly(state, r.seen[1], r.leg)
    PROVE  ReadForm(q) /\ q.seen = r.seen /\ ReadTrue(q, db)
<1>1. CASE r.by = "checkout"
    <2>1. PICK hints : q = [r EXCEPT !.answer = <<"checkout", hints>>]
        BY <1>1 DEF Respond
    <2>2. /\ ReadForm(q) /\ q.seen = r.seen /\ q.asked = r.asked
          /\ q.answer = <<"checkout", hints>>
        BY <2>1 DEF ReadForm
    <2> QED
        BY <2>2 DEF ReadTrue
<1>2. CASE r.by # "checkout" /\ r.first = <<>> /\ ActiveId(state) \notin {0, state.current.leg}
    <2>1. q = [r EXCEPT !.first = <<state>>, !.leg = ActiveId(state), !.got = <<>>]
        BY <1>2 DEF Respond
    <2>2. /\ ReadForm(q) /\ q.seen = r.seen /\ q.asked = r.asked /\ q.answer = <<>>
          /\ q.leg = ActiveId(state) /\ q.got = <<>> /\ q.first = <<state>> /\ q.by = r.by
        BY <2>1 DEF ReadForm
    <2>3. r.leg = r.asked
        BY <1>2 DEF FirstTrue
    <2>4. r.by # "get" \/ Alone(r.seen) => SaysTruly(state, r.seen[1], r.asked)
        BY <1>2, <2>3 DEF ReadForm, Writers
    <2>5. LegInHand(q, state)
        BY <1>2, <2>2, <2>4 DEF LegInHand, SaysTruly
    <2>6. Len(<<>>) = 0 /\ \A i \in 1..0 : FALSE
        OBVIOUS
    <2>7. GotTrue(q, db)
        BY <2>2, <2>6 DEF GotTrue
    <2>8. <<state>> # <<>>
        OBVIOUS
    <2> QED
        BY <2>2, <2>5, <2>7, <2>8 DEF ReadTrue, FirstTrue
<1>3. ASSUME r.by # "checkout", NEW response, q = [r EXCEPT !.answer = <<"state", response>>],
             r.by # "get" => SameButForTheSecondLeg(response, Truth(r.seen[1], r.asked)),
             Alone(r.seen) => response = Truth(r.seen[1], r.asked)
      PROVE  ReadForm(q) /\ q.seen = r.seen /\ ReadTrue(q, db)
    <2>1. /\ ReadForm(q) /\ q.seen = r.seen /\ q.asked = r.asked /\ q.by = r.by
          /\ q.answer = <<"state", response>>
        BY <1>3 DEF ReadForm
    <2>2. q.answer # <<>> /\ q.answer[1] = "state" /\ q.answer[2] = response
        BY <2>1
    <2> QED
        BY <1>3, <2>1, <2>2 DEF ReadTrue, StateTrue
<1>4. CASE r.by # "checkout" /\ r.first = <<>> /\ ActiveId(state) \in {0, state.current.leg}
    <2>1. q = [r EXCEPT !.answer = <<"state", StateResponse(state, <<>>)>>]
        BY <1>4 DEF Respond
    <2>2. r.leg = r.asked
        BY <1>4 DEF FirstTrue
    <2>3. r.by # "get" \/ Alone(r.seen) => SaysTruly(state, r.seen[1], r.asked)
        BY <1>4, <2>2 DEF ReadForm, Writers
    <2>4. r.by # "get" \/ Alone(r.seen) =>
             StateResponse(state, <<>>) = Truth(r.seen[1], r.asked)
        <3>1. SUFFICES ASSUME SaysTruly(state, r.seen[1], r.asked)
                       PROVE  StateResponse(state, <<>>) = Truth(r.seen[1], r.asked)
            BY <2>3
        <3>2. ActiveId(state) \in {0, r.asked}
            BY <1>4, <3>1 DEF SaysTruly
        <3> QED
            BY <3>1, <3>2, OneLegSaid
    <2> QED
        BY <1>3, <1>4, <2>1, <2>4 DEF SameButForTheSecondLeg
<1>5. CASE r.by # "checkout" /\ r.first # <<>>
    <2>1. PICK first : r.first = <<first>> /\ LegInHand(r, first)
        BY <1>5 DEF FirstTrue
    <2>2. r.first[1] = first
        BY <2>1
    <2>3. q = [r EXCEPT !.answer = <<"state", StateResponse(first, <<state.current>>)>>]
        BY <1>5, <2>2 DEF Respond
    <2>4. r.by # "get" =>
             SameButForTheSecondLeg(StateResponse(first, <<state.current>>),
                                    Truth(r.seen[1], r.asked))
        <3>1. SUFFICES ASSUME r.by # "get"
                       PROVE  SameButForTheSecondLeg(StateResponse(first, <<state.current>>),
                                                     Truth(r.seen[1], r.asked))
            OBVIOUS
        <3>2. SaysTruly(first, r.seen[1], r.asked)
            BY <2>1, <3>1 DEF LegInHand
        <3> QED
            BY <3>2, ResponseIs
    <2>5. Alone(r.seen) =>
             StateResponse(first, <<state.current>>) = Truth(r.seen[1], r.asked)
        <3>1. SUFFICES ASSUME Alone(r.seen)
                       PROVE  StateResponse(first, <<state.current>>)
                                  = Truth(r.seen[1], r.asked)
            OBVIOUS
        <3>2. /\ SaysTruly(first, r.seen[1], r.asked) /\ ActiveId(first) \notin {0, r.asked}
              /\ SaysTruly(state, r.seen[1], ActiveId(first))
            BY <2>1, <3>1 DEF LegInHand
        <3> QED
            BY <3>2, TwoLegsSaid
    <2> QED
        BY <1>3, <1>5, <2>3, <2>4, <2>5
<1> QED
    BY <1>1, <1>2, <1>4, <1>5
-----------------------------------------------------------------------------
(* A leg of the darts of the match.                                        *)
LegHistory(board, k) ==
    [row    |-> RowTold(board.legs[k]),
     visits |-> [v \in 1..Len(LegOf(board.legs[k]).visits) |->
                    TrueVisit(board.legs[k], LegOf(board.legs[k]), v)]]

History(board) == [k \in 1..Len(board.legs) |-> LegHistory(board, k)]

(* The visits of a leg, stored and replayed, are as many.                  *)
LEMMA AsManyVisits ==
    ASSUME NEW db, DbRight(db), NEW k \in 1..Len(db.board.legs)
    PROVE  /\ LegRight(db.board.legs[k], db.rows[k])
           /\ DOMAIN LegOf(db.board.legs[k]).visits = 1..Len(LegOf(db.board.legs[k]).visits)
           /\ DOMAIN db.rows[k].visits = 1..Len(LegOf(db.board.legs[k]).visits)
<1>1. PICK l, r, visits :
         l = db.board.legs[k] /\ r = db.rows[k] /\ visits = LegOf(l).visits
    OBVIOUS
<1>2. LegRight(l, r)
    BY <1>1, SMTT(40) DEF DbRight
<1>3. Shaped(visits) /\ VisitsRight(r.visits, visits)
    BY <1>1, <1>2, Zenon DEF LegRight, RowRight, Covers, LegOf
<1>4. DOMAIN visits = 1..Len(visits) /\ DOMAIN r.visits = 1..Len(visits)
    BY <1>3, IsSeqLen DEF Shaped, VisitsRight
<1> QED
    BY <1>1, <1>2, <1>4

(* The darts of the match, from the darts alone, leg by leg.               *)
LEMMA HistoryIs ==
    ASSUME NEW db, DbRight(db)
    PROVE  TrueHistory(db.board, Replayed(db.board)) = History(db.board)
<1>1. PICK board, n, replays :
         board = db.board /\ n = Len(board.legs) /\ replays = Replayed(board)
    OBVIOUS
<1>2. /\ replays = [k \in 1..n |-> LegOf(board.legs[k])]
      /\ \A k \in 1..n : replays[k].winner = board.legs[k].winner
    BY <1>1, LegsReplayed DEF DbRight
<1>3. ASSUME NEW k \in 1..n
      PROVE  [row    |-> [starter |-> board.legs[k].starter, winner |-> replays[k].winner],
              visits |-> [v \in DOMAIN replays[k].visits |->
                             TrueVisit(board.legs[k], replays[k], v)]]
                = LegHistory(board, k)
    <2>1. PICK leg : leg = replays[k] /\ leg = LegOf(board.legs[k])
        BY <1>2
    <2>2. DOMAIN leg.visits = 1..Len(leg.visits)
        BY <1>1, <2>1, AsManyVisits
    <2>3. leg.winner = board.legs[k].winner
        BY <1>2, <2>1
    <2> QED
        BY <2>1, <2>2, <2>3 DEF LegHistory, RowTold
<1>4. DOMAIN replays = 1..n
    BY <1>2
<1>5. TrueHistory(board, replays)
         = [k \in 1..n |->
              [row    |-> [starter |-> board.legs[k].starter, winner |-> replays[k].winner],
               visits |-> [v \in DOMAIN replays[k].visits |->
                              TrueVisit(board.legs[k], replays[k], v)]]]
    BY <1>4 DEF TrueHistory
<1> QED
    BY <1>1, <1>3, <1>5 DEF History

(* What the two reads of a leg make of it.                                 *)
LEMMA LegHistoryIs ==
    ASSUME NEW db, DbRight(db), NEW k \in 1..Len(db.board.legs),
           NEW visits, visits = Look(db, "visits", k), NEW darts, darts = Look(db, "darts", k)
    PROVE  [row    |-> RowTold(db.board.legs[k]),
            visits |-> [v \in DOMAIN visits |-> VisitState(visits, darts, v)]]
               = LegHistory(db.board, k)
<1>1. PICK l, r, leg : l = db.board.legs[k] /\ r = db.rows[k] /\ leg = LegOf(l)
    OBVIOUS
<1>2. DOMAIN db.board.legs = 1..Len(db.board.legs)
    BY LegsReplayed DEF DbRight
<1>3. visits = r.visits
    BY <1>1, <1>2 DEF Look
<1>4. darts = DartsTold(l, r)
    BY <1>1, <1>2 DEF Look, DartRows, DartsTold
<1>5. LegRight(l, r) /\ DOMAIN visits = 1..Len(leg.visits)
    BY <1>1, <1>3, AsManyVisits
<1>6. \A v \in 1..Len(leg.visits) : VisitState(visits, darts, v) = TrueVisit(l, leg, v)
    BY <1>1, <1>3, <1>4, <1>5, VisitTold
<1> QED
    BY <1>1, <1>5, <1>6 DEF LegHistory

(* The darts of the match, as far as they have been read.                  *)
HistoryInHand(r, db) ==
    /\ r.listed = [k \in 1..Len(db.board.legs) |-> RowTold(db.board.legs[k])]
    /\ IsSeq(r.told) /\ Len(r.told) < Len(db.board.legs)
    /\ \A k \in 1..Len(r.told) : r.told[k] = LegHistory(db.board, k)
    /\ r.darts = <<>> \/ r.darts = <<Look(db, "darts", Len(r.told) + 1)>>

HistoryTrue(r, db) ==
    /\ r.answer # <<>> => r.answer[1] = "history"
    /\ Alone(r.seen) =>
         /\ r.answer = <<>> => HistoryInHand(r, db)
         /\ r.answer # <<>> =>
              r.answer[2] = TrueHistory(r.seen[1], Replayed(r.seen[1]))

LegAdded(r, told, db, k) ==
    /\ IsSeq(told) /\ Len(told) = k
    /\ \A j \in 1..k : told[j] = LegHistory(db.board, j)
    /\ k = Len(r.listed) => told = History(db.board)
    /\ k # Len(r.listed) => k < Len(db.board.legs)

(* Another leg read.                                                       *)
LEMMA OneMoreLeg ==
    ASSUME NEW db, DbRight(db), NEW r, HistoryInHand(r, db), r.darts # <<>>,
           NEW k, k = Len(r.told) + 1, NEW visits, visits = Look(db, "visits", k),
           NEW told, told = Append(r.told,
                                   [row |-> r.listed[k],
                                    visits |-> [v \in DOMAIN visits |->
                                                   VisitState(visits, r.darts[1], v)]])
    PROVE  LegAdded(r, told, db, k)
<1>1. PICK n \in Nat, m \in Nat : n = Len(db.board.legs) /\ m = Len(r.told)
    BY LegsReplayed, IsSeqLen DEF DbRight, HistoryInHand
<1>2. k = m + 1 /\ k \in 1..n
    BY <1>1 DEF HistoryInHand
<1>3. PICK darts : darts = r.darts[1] /\ darts = Look(db, "darts", k)
    BY <1>1, <1>2 DEF HistoryInHand
<1>4. r.listed[k] = RowTold(db.board.legs[k])
    BY <1>1, <1>2 DEF HistoryInHand
<1>5. PICK one : one = LegHistory(db.board, k)
    OBVIOUS
<1>6. told = Append(r.told, one)
    <2>1. [row    |-> RowTold(db.board.legs[k]),
           visits |-> [v \in DOMAIN visits |-> VisitState(visits, darts, v)]]
              = LegHistory(db.board, k)
        BY <1>1, <1>2, <1>3, LegHistoryIs
    <2> QED
        BY <1>3, <1>4, <1>5, <2>1
<1>7. PICK S : r.told \in Seq(S) /\ one \in S
    <2>1. PICK T : r.told \in Seq(T)
        BY DEF HistoryInHand, IsSeq
    <2>2. r.told \in Seq(T \cup {one}) /\ one \in T \cup {one}
        BY <2>1, SeqMonotonic
    <2> QED
        BY <2>2
<1>8. /\ told \in Seq(S) /\ Len(told) = m + 1
      /\ \A j \in 1..m : told[j] = r.told[j]
      /\ told[m + 1] = one
    BY <1>1, <1>6, <1>7, AppendProperties
<1>9. ASSUME NEW j \in 1..k
      PROVE  told[j] = LegHistory(db.board, j)
    <2>1. CASE j \in 1..m
        BY <1>1, <1>8, <2>1 DEF HistoryInHand
    <2>2. CASE j = m + 1
        BY <1>2, <1>5, <1>8, <2>2
    <2> QED
        BY <1>2, <2>1, <2>2
<1>10. Len(r.listed) = n
    <2>1. PICK listed : listed = r.listed
        OBVIOUS
    <2>2. listed = [j \in 1..n |-> RowTold(db.board.legs[j])]
        BY <1>1, <2>1 DEF HistoryInHand
    <2>3. listed = [j \in 1..n |-> listed[j]]
        BY <2>2
    <2> QED
        BY <2>1, <2>3, FunIsSeq
<1>11. k = n => told = History(db.board)
    <2>1. told = [j \in 1..k |-> told[j]]
        <3>1. DOMAIN told = 1..k /\ Len(told) \in Nat /\ told \in [1..Len(told) -> S]
            BY <1>2, <1>8, LenProperties
        <3> QED
            BY <3>1
    <2>2. [j \in 1..k |-> told[j]] = [j \in 1..k |-> LegHistory(db.board, j)]
        BY <1>9
    <2> QED
        BY <1>1, <2>1, <2>2 DEF History
<1>12. IsSeq(told) /\ Len(told) = k
    BY <1>2, <1>8 DEF IsSeq
<1> QED
    BY <1>1, <1>2, <1>9, <1>10, <1>11, <1>12 DEF LegAdded
-----------------------------------------------------------------------------
(* Each request in hand, and each answer, is true of the board it is of.   *)
TrueReq(r, db) ==
    \/ r = NoRequest
    \/ SweepForm(r) /\ (r.answer # <<>> => r.answer[1] \in {"report", "sweep_failed"})
    \/ ReadForm(r) /\ ReadTrue(r, db)
    \/ HistoryForm(r) /\ HistoryTrue(r, db)

(* A write's answer, or its first half.                                    *)
LEMMA WriteIsTrue ==
    ASSUME NEW db, DbRight(db), NEW by \in Writers, NEW k \in 1..Len(db.board.legs),
           NEW q, q = Answered(by, k, db)
    PROVE  TrueReq(q, db)
<1>1. PICK r : r = Request(by, k, db.board)
    OBVIOUS
<1>2. /\ ReadForm(r) /\ r.answer = <<>> /\ r.first = <<>> /\ r.leg = k /\ r.asked = k
      /\ r.seen = <<db.board>>
    BY <1>1 DEF Request, ReadForm, Writers
<1>3. r.seen[1] = db.board /\ BoardRight(db.board)
    BY <1>2 DEF DbRight
<1>4. PICK got : got = [i \in DOMAIN Statements |-> Look(db, Statements[i], k)]
    OBVIOUS
<1>5. Stated(got, db, k)
    <2>1. got = [i \in 1..6 |-> Look(db, Statements[i], k)]
        BY <1>4 DEF Statements
    <2>2. got = [i \in 1..6 |-> got[i]]
        BY <2>1
    <2>3. Len(got) = 6
        BY <2>2, FunIsSeq
    <2> QED
        BY <2>1, <2>3 DEF Stated, AllRead
<1>6. PICK state : state = GameState(k, got)
    OBVIOUS
<1>7. SaysTruly(state, db.board, k)
    BY <1>5, <1>6, StateIs
<1>8. q = Respond(r, state)
    BY <1>1, <1>4, <1>6 DEF Answered, Project
<1>9. FirstTrue(r)
    BY <1>2 DEF FirstTrue
<1>10. ReadForm(q) /\ ReadTrue(q, db)
    BY <1>2, <1>3, <1>7, <1>8, <1>9, Responded
<1> QED
    BY <1>10 DEF TrueReq

(* A read that starts with nothing read.                                   *)
LEMMA NewIsTrue ==
    ASSUME NEW db, DbRight(db), NEW by \in {"get", "checkout"},
           NEW k \in 1..Len(db.board.legs), NEW q, q = Request(by, k, db.board)
    PROVE  TrueReq(q, db)
<1>1. /\ ReadForm(q) /\ q.answer = <<>> /\ q.first = <<>> /\ q.leg = k /\ q.asked = k
      /\ q.seen = <<db.board>> /\ q.got = <<>> /\ q.by \notin Writers
    BY DEF Request, ReadForm, Writers
<1>2. q.seen[1] = db.board /\ BoardRight(db.board)
    BY <1>1 DEF DbRight
<1>3. Len(<<>>) = 0 /\ \A i \in 1..0 : FALSE
    OBVIOUS
<1>4. GotTrue(q, db)
    BY <1>1, <1>3 DEF GotTrue
<1> QED
    BY <1>1, <1>2, <1>4 DEF TrueReq, ReadTrue, FirstTrue

(* The one board seen is the board there is.                               *)
LEMMA AloneIsNow ==
    ASSUME ReqInv, req # NoRequest, Alone(req.seen)
    PROVE  req.seen[1] = Board /\ Db.board = Board
BY DEF ReqInv, Alone, Db

(* The next statement of a read.                                           *)
LEMMA ReadIsTrue ==
    ASSUME RowsInv, ReqInv, TrueReq(req, Db), ReadOn
    PROVE  TrueReq(req, Db)'
<1> DEFINE k      == req.leg
           result == Look(Db, Statements[Len(req.got) + 1], k)
           got    == Append(req.got, result)
           read   == [req EXCEPT !.got = got]
<1>1. Db' = Db /\ DbRight(Db)
    BY RowsAreRight DEF ReadOn, rowVars, vars, Db, Board
<1>2. /\ ReadForm(req) /\ req.answer = <<>> /\ ReadKnows(req) /\ req # NoRequest
      /\ ReadTrue(req, Db)
    BY DEF ReqInv, TrueReq, ReadOn, Reading, Idle, NoRequest, ReadForm, HistoryForm, SweepForm
<1>3. /\ BoardRight(req.seen[1]) /\ req.asked \in 1..Len(req.seen[1].legs)
      /\ FirstTrue(req) /\ GotTrue(req, Db) /\ (req.by \in Writers => req.first # <<>>)
    BY <1>2 DEF ReadTrue
<1>4. /\ Len(req.got) \in Nat /\ Len(got) = Len(req.got) + 1
      /\ \A i \in 1..Len(req.got) : got[i] = req.got[i]
      /\ got[Len(req.got) + 1] = result
    <2>1. PICK S : req.got \in Seq(S)
        BY <1>2 DEF ReadKnows
    <2> HIDE DEF result
    <2>2. req.got \in Seq(S \cup {result}) /\ result \in S \cup {result}
        BY <2>1, SeqMonotonic
    <2> QED
        BY <2>2, AppendProperties, LenProperties
<1>5. Alone(req.seen) => \A i \in 1..Len(got) : got[i] = Look(Db, Statements[i], k)
    <2>1. SUFFICES ASSUME Alone(req.seen), NEW i \in 1..Len(got)
                   PROVE  got[i] = Look(Db, Statements[i], k)
        OBVIOUS
    <2>2. PICK n \in Nat : n = Len(req.got)
        BY <1>4
    <2>3. \A j \in 1..n : got[j] = Look(Db, Statements[j], k)
        BY <1>3, <1>4, <2>1, <2>2 DEF GotTrue
    <2>4. got[n + 1] = Look(Db, Statements[n + 1], k)
        BY <1>4, <2>2
    <2>5. i \in 1..n + 1
        BY <1>4, <2>1, <2>2
    <2> HIDE DEF got, k
    <2> QED
        BY <2>2, <2>3, <2>4, <2>5
<1>6. /\ ReadForm(read) /\ read.answer = <<>> /\ read.seen = req.seen /\ read.asked = req.asked
      /\ read.first = req.first /\ read.leg = k /\ read.by = req.by /\ read.got = got
    <2> HIDE DEF got
    <2> QED
        BY <1>2 DEF ReadForm
<1> HIDE DEF got, read
<1>7. FirstTrue(read)
    BY <1>3, <1>6 DEF FirstTrue, LegInHand
<1>8. CASE req' = [req EXCEPT !.answer = <<"not_found">>]
    <2>1. /\ ReadForm(req') /\ req'.answer = <<"not_found">> /\ req'.seen = req.seen
          /\ req'.asked = req.asked
        BY <1>2, <1>8 DEF ReadForm
    <2>2. ReadTrue(req', Db')
        BY <1>3, <2>1 DEF ReadTrue
    <2> QED
        BY <2>1, <2>2 DEF TrueReq
<1>9. CASE req' = read
    <2>1. GotTrue(read, Db)
        BY <1>5, <1>6 DEF GotTrue
    <2>2. ReadTrue(read, Db)
        BY <1>3, <1>6, <1>7, <2>1 DEF ReadTrue
    <2> QED
        BY <1>1, <1>6, <1>9, <2>2 DEF TrueReq
<1>10. CASE AllRead(got) /\ req' = Respond(read, GameState(k, got))
    <2>1. PICK state, q : state = GameState(k, got) /\ q = req' /\ q = Respond(read, state)
        BY <1>10
    <2>2. Alone(read.seen) => SaysTruly(state, read.seen[1], read.leg)
        <3>1. SUFFICES ASSUME Alone(req.seen)
                       PROVE  SaysTruly(state, req.seen[1], k)
            BY <1>6
        <3>2. req.seen[1] = Db.board
            BY <1>2, <3>1, AloneIsNow
        <3>3. k \in 1..Len(Db.board.legs)
            BY <1>3, <3>1, <3>2, LegIsThere
        <3>4. Stated(got, Db, k)
            BY <1>5, <1>10, <3>1 DEF Stated
        <3>5. SaysTruly(GameState(k, got), Db.board, k)
            BY <1>1, <3>3, <3>4, StateIs
        <3> QED
            BY <2>1, <3>2, <3>5
    <2>3. ~(read.first = <<>> /\ read.by \in Writers)
        BY <1>3, <1>6
    <2>4. BoardRight(read.seen[1]) /\ read.asked \in 1..Len(read.seen[1].legs)
        BY <1>3, <1>6
    <2>5. PICK db : db = Db'
        OBVIOUS
    <2>6. ReadForm(q) /\ ReadTrue(q, db)
        BY <1>6, <1>7, <2>1, <2>2, <2>3, <2>4, Responded
    <2> QED
        BY <2>1, <2>5, <2>6 DEF TrueReq
<1> QED
    BY <1>8, <1>9, <1>10 DEF ReadOn, got, read
-----------------------------------------------------------------------------
(* Reading the darts of the match, leg by leg.                             *)
LEMMA HistoryStaysTrue ==
    ASSUME RowsInv, ReqInv, TrueReq(req, Db), GetDarts \/ ReadDarts \/ ReadVisits
    PROVE  TrueReq(req, Db)'
<1>1. Db' = Db /\ DbRight(Db) /\ Db.board = Board /\ Board.legs = legs
    BY RowsAreRight DEF GetDarts, ReadDarts, ReadVisits, rowVars, vars, Db, Board
<1>2. /\ Len(legs) \in Nat \ {0} /\ DOMAIN legs = 1..Len(legs)
    BY BoardIsTyped DEF RowsInv
<1>3. PICK db : db = Db /\ db = Db'
    BY <1>1
<1>4. CASE GetDarts
    <2>1. PICK listed :
             /\ req' = [by |-> "history", seen |-> <<Board>>, answer |-> <<>>,
                        darts |-> <<>>, told |-> <<>>, listed |-> listed]
             /\ listed = [k \in DOMAIN legs |-> Look(Db, "leg", k)[1]]
        BY <1>4 DEF GetDarts
    <2>2. listed = [k \in 1..Len(legs) |-> RowTold(legs[k])]
        <3>1. \A k \in 1..Len(legs) : Look(Db, "leg", k) = <<RowTold(legs[k])>>
            BY <1>1, <1>2 DEF Look, RowTold
        <3>2. \A k \in 1..Len(legs) : Look(Db, "leg", k)[1] = RowTold(legs[k])
            BY <3>1
        <3> QED
            BY <1>2, <2>1, <3>2
    <2>3. PICK q : q = req'
        OBVIOUS
    <2>4. /\ HistoryForm(q) /\ q.answer = <<>> /\ q.darts = <<>> /\ q.told = <<>>
          /\ q.listed = listed
        BY <2>1, <2>3 DEF HistoryForm
    <2>5. IsSeq(<<>>) /\ Len(<<>>) = 0 /\ \A k \in 1..0 : FALSE
        BY EmptyIsSeq
    <2>6. HistoryInHand(q, db)
        BY <1>1, <1>2, <1>3, <2>2, <2>4, <2>5 DEF HistoryInHand
    <2>7. HistoryTrue(q, db)
        BY <2>4, <2>6 DEF HistoryTrue
    <2> QED
        BY <1>3, <2>3, <2>4, <2>7 DEF TrueReq
<1>5. ASSUME ReadDarts \/ ReadVisits
      PROVE  HistoryForm(req) /\ req.answer = <<>> /\ HistoryTrue(req, db) /\ req # NoRequest
    BY <1>3, <1>5
    DEF TrueReq, ReadDarts, ReadVisits, Reading, Idle, NoRequest, ReadForm, SweepForm, HistoryForm
<1>6. CASE ReadDarts
    <2>1. PICK darts : /\ req' = [req EXCEPT !.darts = darts]
                       /\ darts = <<Look(db, "darts", Len(req.told) + 1)>>
        BY <1>3, <1>6 DEF ReadDarts
    <2>2. PICK q : q = req'
        OBVIOUS
    <2>3. /\ HistoryForm(q) /\ q.answer = <<>> /\ q.darts = darts /\ q.told = req.told
          /\ q.listed = req.listed /\ q.seen = req.seen
        BY <1>5, <1>6, <2>1, <2>2 DEF HistoryForm
    <2>4. Alone(req.seen) => HistoryInHand(q, db)
        BY <1>5, <1>6, <2>1, <2>3 DEF HistoryTrue, HistoryInHand
    <2>5. HistoryTrue(q, db)
        BY <2>3, <2>4 DEF HistoryTrue
    <2> QED
        BY <1>3, <2>2, <2>3, <2>5 DEF TrueReq
<1>7. CASE ReadVisits
    <2>1. PICK k, visits, told, answer :
             /\ k = Len(req.told) + 1 /\ visits = Look(db, "visits", k)
             /\ told = Append(req.told, [row    |-> req.listed[k],
                                         visits |-> [v \in DOMAIN visits |->
                                                        VisitState(visits, req.darts[1], v)]])
             /\ answer = IF k = Len(req.listed) THEN <<"history", told>> ELSE <<>>
             /\ req' = [req EXCEPT !.darts = <<>>, !.told = told, !.answer = answer]
             /\ req.darts # <<>>
        BY <1>3, <1>7 DEF ReadVisits
    <2>2. PICK q : q = req'
        OBVIOUS
    <2>3. /\ HistoryForm(q) /\ q.answer = answer /\ q.darts = <<>> /\ q.told = told
          /\ q.listed = req.listed /\ q.seen = req.seen
        BY <1>5, <1>7, <2>1, <2>2 DEF HistoryForm
    <2>4. ASSUME Alone(req.seen)
          PROVE  /\ answer = <<>> => HistoryInHand(q, db)
                 /\ answer # <<>> =>
                      answer[2] = TrueHistory(req.seen[1], Replayed(req.seen[1]))
        <3>1. HistoryInHand(req, db)
            BY <1>5, <1>7, <2>4 DEF HistoryTrue
        <3>2. /\ IsSeq(told) /\ Len(told) = k
              /\ \A j \in 1..k : told[j] = LegHistory(db.board, j)
              /\ k = Len(req.listed) => told = History(db.board)
              /\ k # Len(req.listed) => k < Len(db.board.legs)
            <4>1. PICK r : /\ r = req /\ HistoryInHand(r, db) /\ r.darts # <<>>
                           /\ k = Len(r.told) + 1
                BY <2>1, <3>1
            <4>2. DbRight(db) /\ visits = Look(db, "visits", k)
                BY <1>1, <1>3, <2>1
            <4>3. told = Append(r.told, [row    |-> r.listed[k],
                                         visits |-> [v \in DOMAIN visits |->
                                                        VisitState(visits, r.darts[1], v)]])
                BY <2>1, <4>1
            <4>4. LegAdded(r, told, db, k)
                BY <4>1, <4>2, <4>3, OneMoreLeg
            <4> QED
                BY <4>1, <4>4 DEF LegAdded
        <3>3. req.seen[1] = db.board
            BY <1>3, <1>5, <1>7, <2>4, AloneIsNow
        <3>4. CASE k = Len(req.listed)
            <4>1. answer # <<>> /\ answer[2] = told
                BY <2>1, <3>4
            <4>2. told = TrueHistory(req.seen[1], Replayed(req.seen[1]))
                BY <1>1, <1>3, <3>2, <3>3, <3>4, HistoryIs
            <4> QED
                BY <4>1, <4>2
        <3>5. CASE k # Len(req.listed)
            <4>1. answer = <<>>
                BY <2>1, <3>5
            <4>2. HistoryInHand(q, db)
                BY <2>3, <3>1, <3>2, <3>5 DEF HistoryInHand
            <4> QED
                BY <4>1, <4>2
        <3> QED
            BY <3>4, <3>5
    <2>5. answer = <<>> \/ answer[1] = "history"
        BY <2>1
    <2>6. HistoryTrue(q, db)
        BY <2>3, <2>4, <2>5 DEF HistoryTrue
    <2> QED
        BY <1>3, <2>2, <2>3, <2>6 DEF TrueReq
<1> QED
    BY <1>4, <1>6, <1>7

(* Once somebody else has written, little is claimed of a read any more.   *)
LEMMA OvertakenStaysTrue ==
    ASSUME ReqInv, TrueReq(req, Db), Overtaken, (Board \in BoardType)'
    PROVE  TrueReq(req, Db)'
<1>1. /\ req.seen \in Seq(BoardType) /\ req.seen # <<>> /\ req.answer = <<>> /\ req # NoRequest
      /\ req' = [req EXCEPT !.seen = Append(@, Board')]
    BY DEF ReqInv, Overtaken, Reading, Idle, NoRequest
<1>2. PICK board \in BoardType : board = Board'
    OBVIOUS
<1>3. PICK more : more = Append(req.seen, board)
    OBVIOUS
<1>4. Len(more) # 1 /\ more[1] = req.seen[1]
    <2>1. PICK seen \in Seq(BoardType) : seen = req.seen /\ seen # <<>>
        BY <1>1
    <2>2. more = Append(seen, board)
        BY <1>3, <2>1
    <2>3. Len(seen) \in Nat \ {0}
        BY <2>1, LenProperties, EmptySeq
    <2>4. /\ Len(more) = Len(seen) + 1
          /\ \A i \in 1..Len(seen) : more[i] = seen[i]
        BY <2>1, <2>2, AppendProperties
    <2>5. PICK n \in Nat \ {0} : n = Len(seen)
        BY <2>3
    <2>6. n + 1 # 1 /\ 1 \in 1..n
        OBVIOUS
    <2> QED
        BY <2>1, <2>4, <2>5, <2>6
<1>5. ~Alone(more)
    BY <1>4 DEF Alone
<1>6. PICK q, db : q = req' /\ db = Db'
    OBVIOUS
<1>7. q = [req EXCEPT !.seen = more]
    BY <1>1, <1>2, <1>3, <1>6
<1>8. CASE SweepForm(req)
    BY <1>1, <1>6, <1>7, <1>8 DEF SweepForm, TrueReq
<1>9. CASE HistoryForm(req)
    <2>1. HistoryForm(q) /\ q.answer = <<>> /\ q.seen = more
        BY <1>1, <1>7, <1>9 DEF HistoryForm
    <2>2. HistoryTrue(q, db)
        BY <1>5, <2>1 DEF HistoryTrue
    <2> QED
        BY <1>6, <2>1, <2>2 DEF TrueReq
<1>10. CASE ReadForm(req) /\ ReadTrue(req, Db)
    <2>1. /\ ReadForm(q) /\ q.answer = <<>> /\ q.seen = more /\ q.asked = req.asked
          /\ q.first = req.first /\ q.leg = req.leg /\ q.by = req.by
        BY <1>1, <1>7, <1>10 DEF ReadForm
    <2>2. /\ BoardRight(req.seen[1]) /\ req.asked \in 1..Len(req.seen[1].legs)
          /\ FirstTrue(req) /\ (req.by \in Writers => req.first # <<>>)
        BY <1>1, <1>10 DEF ReadTrue
    <2>3. FirstTrue(q)
        BY <1>4, <1>5, <2>1, <2>2 DEF FirstTrue, LegInHand
    <2>4. GotTrue(q, db)
        BY <1>5, <2>1 DEF GotTrue
    <2>5. ReadTrue(q, db)
        BY <1>4, <2>1, <2>2, <2>3, <2>4 DEF ReadTrue
    <2> QED
        BY <1>6, <2>1, <2>5 DEF TrueReq
<1> QED
    BY <1>1, <1>8, <1>9, <1>10 DEF TrueReq

(* The sweep answers only with its report, or that it failed.              *)
LEMMA SweepStaysTrue ==
    ASSUME ReqInv, TrueReq(req, Db), SweepStep
    PROVE  TrueReq(req, Db)'
<1>1. ASSUME NEW q, q = req', SweepForm(q),
             q.answer # <<>> => q.answer[1] \in {"report", "sweep_failed"}
      PROVE  TrueReq(req, Db)'
    BY <1>1 DEF TrueReq
<1>2. CASE BeginSweep
    <2>1. PICK q : q = req' /\ q = SweepRequest
        BY <1>2 DEF BeginSweep
    <2>2. SweepForm(q) /\ q.answer = <<>>
        BY <2>1 DEF SweepRequest, SweepForm
    <2> QED
        BY <1>1, <2>1, <2>2
<1>3. ASSUME Sweeping
      PROVE  SweepForm(req) /\ req.answer = <<>>
    BY <1>3 DEF ReqInv, Sweeping, Reading, Idle, NoRequest, ReadForm, HistoryForm
<1>4. CASE ReadBefore
    <2>1. PICK was : req' = [req EXCEPT !.was = was]
        BY <1>4 DEF ReadBefore
    <2>2. PICK q : q = req'
        OBVIOUS
    <2>3. SweepForm(q) /\ q.answer = <<>>
        BY <1>3, <1>4, <2>1, <2>2 DEF SweepForm, ReadBefore
    <2> QED
        BY <1>1, <2>2, <2>3
<1>5. CASE Rebuild
    <2>1. \/ req' = [req EXCEPT !.rebuilt = TRUE]
          \/ req' = [req EXCEPT !.answer = <<"sweep_failed">>]
        BY <1>5 DEF Rebuild
    <2>2. PICK q : q = req'
        OBVIOUS
    <2>3. SweepForm(q) /\ (q.answer = <<>> \/ q.answer = <<"sweep_failed">>)
        BY <1>3, <1>5, <2>1, <2>2 DEF SweepForm, Rebuild
    <2> QED
        BY <1>1, <2>2, <2>3
<1>6. CASE ReadAfter
    <2>1. PICK ids, now, changed, onward :
             /\ onward = [req EXCEPT !.ids = ids, !.was = <<>>, !.rebuilt = FALSE, !.now = <<>>,
                                     !.changed = changed]
             /\ \/ req' = [req EXCEPT !.now = now]
                \/ req' = [onward EXCEPT !.answer = <<"report", changed>>]
                \/ req' = onward
        BY <1>6 DEF ReadAfter
    <2>2. PICK q : q = req'
        OBVIOUS
    <2>3. SweepForm(onward) /\ onward.answer = <<>>
        BY <1>3, <1>6, <2>1 DEF SweepForm, ReadAfter
    <2>4. SweepForm(q) /\ (q.answer = <<>> \/ q.answer = <<"report", changed>>)
        BY <1>3, <1>6, <2>1, <2>2, <2>3 DEF SweepForm, ReadAfter
    <2>5. <<"report", changed>>[1] = "report"
        OBVIOUS
    <2> QED
        BY <1>1, <2>2, <2>4, <2>5
<1> QED
    BY <1>2, <1>4, <1>5, <1>6 DEF SweepStep
-----------------------------------------------------------------------------
AnswersInv == RowsInv /\ TrueReq(req, Db)

(* The rows stay right beside the requests and the sweep.                  *)
LEMMA RowsBesideRequests ==
    ASSUME RowsInv, ReqInv, [SweepNext]_readVars
    PROVE  RowsInv'
<1>1. CASE RowsNext \/ UNCHANGED rowVars
    BY <1>1, RowsStep
<1>2. CASE Rebuild
    <2>1. CASE UNCHANGED rows
        BY <1>2, <2>1, RowsStep DEF Rebuild, rowVars
    <2>2. CASE Head(req.ids) \in DOMAIN legs /\ rows' = [rows EXCEPT ![Head(req.ids)].caches
                                                            = RebuiltCaches(Head(req.ids))]
        <3>1. PICK k : k = Head(req.ids)
            OBVIOUS
        <3>2. k \in 1..Len(legs) /\ CachesAgree
            BY <2>2, <3>1, BoardIsTyped DEF RowsInv
        <3>3. rows' = rows
            BY <2>2, <3>1, <3>2, RebuildIsIdle
        <3> QED
            BY <1>2, <3>3, RowsStep DEF Rebuild, rowVars
    <2> QED
        BY <1>2, <2>1, <2>2 DEF Rebuild
<1>3. CASE ReadNext
    <2>1. ASSUME NEW k \in 1..Len(legs), NEW d \in Dart, ServeThrow(k, d)
          PROVE  RowsNext
        BY <2>1 DEF ServeThrow, RowsNext
    <2>2. ASSUME NEW k \in 1..Len(legs), ServeUndo(k)
          PROVE  RowsNext
        BY <2>2 DEF ServeUndo, RowsNext
    <2>3. ASSUME NEW k, ServeRepeat(k) \/ GetCheckout(k)
          PROVE  UNCHANGED rowVars
        BY <2>3 DEF ServeRepeat, GetCheckout
    <2>4. CASE GetState \/ GetDarts \/ ReadOn \/ ReadDarts \/ ReadVisits \/ Delivered
        BY <1>1, <2>4 DEF GetState, GetDarts, ReadOn, ReadDarts, ReadVisits, Delivered
    <2>5. CASE Overtaken \/ AbandonIdle
        BY <1>1, <2>5 DEF Overtaken, AbandonIdle, RowsNext
    <2> QED
        BY <1>1, <1>3, <2>1, <2>2, <2>3, <2>4, <2>5 DEF ReadNext
<1>4. CASE BeginSweep \/ ReadBefore \/ ReadAfter
    BY <1>1, <1>4 DEF BeginSweep, ReadBefore, ReadAfter
<1>5. CASE UNCHANGED readVars
    BY <1>1, <1>5 DEF readVars
<1> QED
    BY <1>2, <1>3, <1>4, <1>5 DEF SweepNext

(* Each step keeps every request true to its board.                        *)
LEMMA AnswersStep ==
    ASSUME AnswersInv, ReqInv, [SweepNext]_readVars
    PROVE  AnswersInv'
<1> USE DEF AnswersInv
<1>1. RowsInv'
    BY RowsBesideRequests
<1>2. DbRight(Db) /\ DbRight(Db)' /\ DbRight(Db')
    BY <1>1, RowsAreRight, RowsStayRight
<1> SUFFICES TrueReq(req, Db)'
    BY <1>1
<1>3. ASSUME NEW by \in Writers, NEW k, NEW db, DbRight(db), k \in 1..Len(db.board.legs),
             db = Db', req' = Answered(by, k, db)
      PROVE  TrueReq(req, Db)'
    <2>1. PICK q : q = req' /\ q = Answered(by, k, db)
        BY <1>3
    <2>2. TrueReq(q, db)
        BY <1>3, <2>1, WriteIsTrue
    <2> QED
        BY <1>3, <2>1, <2>2
<1>4. ASSUME NEW k \in 1..Len(legs), NEW d \in Dart, ServeThrow(k, d)
      PROVE  TrueReq(req, Db)'
    <2>1. Throw(k, d) /\ req' = Answered("throw", k, Db') /\ Db'.board.legs = legs'
        BY <1>4 DEF ServeThrow, ThrowRows, Db, Board
    <2>2. k \in 1..Len(legs')
        <3>1. k \in Nat \ {0} /\ (Len(legs') = k \/ Len(legs') = k + 1)
            BY <2>1, ThrowShape DEF RowsInv
        <3> QED
            BY <3>1
    <2>3. PICK db : db = Db'
        OBVIOUS
    <2>4. DbRight(db) /\ k \in 1..Len(db.board.legs) /\ "throw" \in Writers
        BY <1>2, <2>1, <2>2, <2>3 DEF Writers
    <2> QED
        BY <1>3, <2>1, <2>3, <2>4
<1>5. ASSUME NEW k \in 1..Len(legs), ServeUndo(k)
      PROVE  TrueReq(req, Db)'
    <2>1. Undo(k) /\ req' = Answered("undo", k, Db') /\ Db'.board.legs = legs'
        BY <1>5 DEF ServeUndo, UndoRows, Db, Board
    <2>2. k \in 1..Len(legs')
        <3>1. Len(legs') = k
            BY <2>1, UndoStep DEF RowsInv
        <3> QED
            BY <3>1
    <2>3. PICK db : db = Db'
        OBVIOUS
    <2>4. DbRight(db) /\ k \in 1..Len(db.board.legs) /\ "undo" \in Writers
        BY <1>2, <2>1, <2>2, <2>3 DEF Writers
    <2> QED
        BY <1>3, <2>1, <2>3, <2>4
<1>6. UNCHANGED rowVars => Db' = Db
    BY DEF rowVars, vars, Db, Board
<1>7. Db.board = Board /\ Board.legs = legs
    BY DEF Db, Board
<1>8. ASSUME NEW k \in 1..Len(legs), ServeRepeat(k)
      PROVE  TrueReq(req, Db)'
    <2>1. UNCHANGED rowVars /\ req' = Answered("repeat", k, Db)
        BY <1>8 DEF ServeRepeat
    <2>2. PICK db : db = Db' /\ db = Db
        BY <1>6, <2>1
    <2>3. DbRight(db) /\ k \in 1..Len(db.board.legs) /\ "repeat" \in Writers
        BY <1>2, <1>7, <2>2 DEF Writers
    <2> QED
        BY <1>3, <2>1, <2>2, <2>3
<1>9. ASSUME NEW by \in {"get", "checkout"}, NEW k \in 1..Len(legs),
             req' = Request(by, k, Board), UNCHANGED rowVars
      PROVE  TrueReq(req, Db)'
    <2>1. PICK db : db = Db' /\ db = Db
        BY <1>6, <1>9
    <2>2. PICK q : q = req' /\ q = Request(by, k, db.board)
        BY <1>7, <1>9, <2>1
    <2>3. DbRight(db) /\ k \in 1..Len(db.board.legs)
        BY <1>2, <1>7, <2>1
    <2>4. TrueReq(q, db)
        BY <2>2, <2>3, NewIsTrue
    <2> QED
        BY <2>1, <2>2, <2>4
<1>10. ASSUME NEW k \in 1..Len(legs), GetCheckout(k)
       PROVE  TrueReq(req, Db)'
    BY <1>9, <1>10 DEF GetCheckout
<1>11. CASE GetState
    <2>1. Len(legs) \in 1..Len(legs)
        BY BoardIsTyped DEF RowsInv
    <2> QED
        BY <1>9, <1>11, <2>1 DEF GetState
<1>12. CASE GetDarts \/ ReadDarts \/ ReadVisits
    BY <1>12, HistoryStaysTrue
<1>13. CASE ReadOn
    BY <1>13, ReadIsTrue
<1>14. CASE Delivered
    BY <1>14 DEF Delivered, TrueReq
<1>15. CASE Overtaken
    <2>1. (Board \in BoardType)'
        BY <1>1, BoardStaysTyped DEF RowsInv
    <2> QED
        BY <1>15, <2>1, OvertakenStaysTrue
<1>16. CASE AbandonIdle
    <2>1. req = NoRequest /\ req' = req
        BY <1>16 DEF AbandonIdle, Idle, ReqInv, ReadForm, HistoryForm, SweepForm
    <2> QED
        BY <2>1 DEF TrueReq
<1>17. CASE SweepStep
    BY <1>17, SweepStaysTrue
<1>18. CASE UNCHANGED readVars
    <2>1. Db' = Db /\ req' = req
        BY <1>6, <1>18 DEF readVars
    <2> QED
        BY <2>1
<1> QED
    BY <1>4, <1>5, <1>8, <1>10, <1>11, <1>12, <1>13, <1>14, <1>15, <1>16, <1>17, <1>18
    DEF SweepNext, ReadNext, SweepStep

(* So they always are.                                                     *)
LEMMA AnswersHold == SweepSpec => []AnswersInv
<1>1. ReadInit => AnswersInv
    BY RowsStart DEF ReadInit, AnswersInv, TrueReq
<1>2. AnswersInv /\ ReadInv /\ [SweepNext]_readVars => AnswersInv'
    BY AnswersStep DEF ReadInv
<1> QED
    BY <1>1, <1>2, ReadsHold, PTL DEF SweepSpec

(* Each answer is of one board (_state_response of api/play.py over state  *)
(* and _project of services/play.py): a write's of the one it left, but    *)
(* for the leg it reads once its transaction is over; and, with nobody     *)
(* else writing, a GET's of the one there is, for every game, match and    *)
(* number of overtaking writes.                                            *)
THEOREM AnswersAreTrue == SweepSpec => []AnswersAreOfTheirBoard
<1>1. ReadInv /\ AnswersInv => AnswersAreOfTheirBoard
    <2>1. SUFFICES ASSUME ReadInv, AnswersInv, req # NoRequest, req.answer # <<>>
                   PROVE  /\ req.answer[1] = "state" =>
                               /\ req.by # "get" =>
                                    SameButForTheSecondLeg(req.answer[2],
                                                           Truth(req.seen[1], req.asked))
                               /\ Alone(req.seen) =>
                                    req.answer[2] = Truth(req.seen[1], req.asked)
                          /\ req.answer[1] = "history" /\ Alone(req.seen) =>
                               req.answer[2] = TrueHistory(req.seen[1], Replayed(req.seen[1]))
        BY DEF AnswersAreOfTheirBoard, AnsweredWith, Idle, NoRequest, Undisturbed, Alone, Truth
    <2>2. CASE SweepForm(req)
        BY <2>1, <2>2 DEF AnswersInv, TrueReq, SweepForm, ReadForm, HistoryForm
    <2>3. CASE ReadForm(req) /\ ReadTrue(req, Db)
        BY <2>1, <2>3 DEF ReadTrue, StateTrue
    <2>4. CASE HistoryForm(req) /\ HistoryTrue(req, Db)
        BY <2>1, <2>4 DEF HistoryTrue
    <2> QED
        BY <2>1, <2>2, <2>3, <2>4 DEF AnswersInv, TrueReq
<1> QED
    BY <1>1, ReadsHold, AnswersHold, PTL
-----------------------------------------------------------------------------
(***************************************************************************)
(* The reports.  Each dart of the match is seen once, with the visit of    *)
(* the replay it lies in; so what is counted and summed over the darts of  *)
(* a player, of a visit, of a leg or of a target is what the replays say.  *)
(***************************************************************************)
ReplayOf(k) == LegOf(legs[k])

ThrownIn(k) == legs[k].darts

Keys == UNION {{<<k, s>> : s \in 1..Len(ThrownIn(k))} : k \in 1..Len(legs)}

ViewOf == [ks \in Keys |-> DartView(ks[1], ks[2])]

(* A dart as it is seen, dart i of visit v: whose it is and what its visit *)
(* and its leg came to.                                                    *)
SeenIn(d, k, s, visit, v, i) ==
    /\ d.leg = k /\ d.seq = s /\ d.visit = <<k, v>> /\ d.index = i
    /\ d.team = visit.team /\ d.player = <<visit.team, visit.member>>
    /\ d.throw = ThrownIn(k)[s]
    /\ d.flags = DartFlags(visit, i, Prior(legs[k].starter, ThrownIn(k), s)[visit.team])
    /\ d.effects = CricketRows(visit, i).effects
    /\ d.before = visit.before /\ d.after = visit.after
    /\ d.winner = ReplayOf(k).winner

DartSeen(k, s, v, i) ==
    /\ Lies(ReplayOf(k).visits, s, v, i)
    /\ SeenIn(DartView(k, s), k, s, ReplayOf(k).visits[v], v, i)
    /\ Says(Rules, ReplayOf(k).visits[v].darts[i], ThrownIn(k)[s])
    /\ Position(ReplayOf(k), s) = <<v, i>>

(* A leg, its rows and what the replay says of its darts.                  *)
LegSeen(k) ==
    /\ Len(ThrownIn(k)) \in Nat /\ DOMAIN ThrownIn(k) = 1..Len(ThrownIn(k))
    /\ DOMAIN rows[k].darts = 1..Len(ThrownIn(k))
    /\ Covers(ReplayOf(k).visits, Len(ThrownIn(k)))
    /\ legs[k].winner = ReplayOf(k).winner /\ ~ReplayOf(k).refused
    /\ Manned(ReplayOf(k).visits, Members, NTeams)
    /\ Sourced(ReplayOf(k), Rules, ThrownIn(k))

(* Every leg of a match in order is seen so.                               *)
LEMMA LegIsSeen ==
    ASSUME RowsInv, NEW k \in 1..Len(legs)
    PROVE  LegSeen(k)
<1>1. PICK l : l = legs[k]
    OBVIOUS
<1>2. /\ l \in LegRow /\ RowOK(l) /\ RowRight(rows[k], l.starter, l.darts)
    BY <1>1, LegsAreClean
<1>3. /\ Legal(Dart) /\ l.darts \in Seq(Dart) /\ l.starter \in 0..NTeams - 1
      /\ Seats(Members, NTeams) /\ LegOf(l) = LegReplay(Rules, Members, l.starter, l.darts)
    BY <1>2, LegIsPlayed
<1>4. Len(l.darts) \in Nat /\ DOMAIN l.darts = 1..Len(l.darts)
    BY <1>3, LenProperties
<1>5. DOMAIN rows[k].darts = 1..Len(l.darts)
    <2>1. IsSeq(rows[k].darts) /\ Len(rows[k].darts) = Len(l.darts)
        BY <1>2 DEF RowRight, DartsRight
    <2> QED
        BY <2>1, IsSeqLen
<1>6. Covers(LegOf(l).visits, Len(l.darts))
    BY <1>2 DEF RowRight, LegOf
<1>7. ~LegOf(l).refused /\ l.winner = LegOf(l).winner
    BY <1>2, NotRefused
<1>8. Manned(LegOf(l).visits, Members, NTeams)
    <2>1. \A s \in 0..NTeams - 1 : Members[s] \in Nat \ {0}
        BY StatisticsAssumption DEF Team
    <2> QED
        BY <1>3, <2>1, ReplayIsManned
<1>9. Sourced(LegOf(l), Rules, l.darts)
    BY <1>3, ReplayIsSourced DEF Seats
<1> QED
    BY <1>1, <1>4, <1>5, <1>6, <1>7, <1>8, <1>9 DEF LegSeen, ReplayOf, ThrownIn

(* And every dart of it.                                                   *)
LEMMA DartIsSeen ==
    ASSUME RowsInv, NEW k \in 1..Len(legs), NEW s \in 1..Len(ThrownIn(k))
    PROVE  \E v, i : DartSeen(k, s, v, i)
<1>1. PICK leg, row, starter, darts : /\ leg = ReplayOf(k) /\ row = rows[k]
                                      /\ starter = legs[k].starter /\ darts = ThrownIn(k)
    OBVIOUS
<1>2. LegSeen(k)
    BY LegIsSeen
<1>3. RowRight(row, starter, darts) /\ leg.visits = LegAfter(starter, darts).visits
    BY <1>1, LegsAreClean DEF ThrownIn, ReplayOf, LegOf
<1>4. PICK visits : visits = leg.visits
    OBVIOUS
<1>5. DartRight(row.darts[s], visits, starter, darts, s)
    BY <1>1, <1>3, <1>4 DEF RowRight, DartsRight
<1>6. PICK v, i : /\ Lies(visits, s, v, i)
                  /\ row.darts[s] = DartRow(visits[v], v, i, Prior(starter, darts, s))
    BY <1>5 DEF DartRight
<1>7. PICK dart, visit, prior : /\ dart = row.darts[s] /\ visit = visits[v]
                                /\ prior = Prior(starter, darts, s)
    OBVIOUS
<1>8. /\ dart.visit = v /\ dart.index = i /\ dart.flags = DartFlags(visit, i, prior[visit.team])
      /\ dart.cricket = CricketRows(visit, i)
    BY <1>6, <1>7 DEF DartRow
<1>9. PICK stored : stored = row.visits[v]
    OBVIOUS
<1>10. /\ stored.team = visit.team /\ stored.member = visit.member
       /\ stored.verdict = VisitVerdict(visit)
    <2>1. stored = VisitRow(visits, v)
        BY <1>3, <1>4, <1>6, <1>9 DEF RowRight, VisitsRight, Lies
    <2>2. /\ stored.team = visits[v].team /\ stored.member = visits[v].member
          /\ stored.verdict = VisitVerdict(visits[v])
        BY <2>1 DEF VisitRow
    <2> QED
        BY <1>7, <2>2
<1>11. stored.verdict.before = visit.before /\ stored.verdict.after = visit.after
    BY <1>10 DEF VisitVerdict
<1>12. legs[k].winner = leg.winner
    BY <1>1, <1>2 DEF LegSeen
<1>13. PICK d : d = DartView(k, s)
    BY Zenon
<1>14. d = [leg |-> k, seq |-> s, visit |-> <<k, v>>, index |-> i,
            team |-> visit.team, player |-> <<visit.team, visit.member>>,
            throw |-> darts[s], flags |-> dart.flags, effects |-> dart.cricket.effects,
            before |-> visit.before, after |-> visit.after, winner |-> leg.winner]
    BY <1>1, <1>7, <1>8, <1>9, <1>10, <1>11, <1>12, <1>13 DEF DartView, ThrownIn
<1>15. SeenIn(d, k, s, visit, v, i)
    BY <1>1, <1>7, <1>8, <1>14 DEF SeenIn
<1>16. Says(Rules, visit.darts[i], darts[s])
    <2>0. v \in 1..Len(visits) + 1
        BY <1>1, <1>2, <1>4, <1>6, IsSeqLen DEF LegSeen, Covers, Shaped, Lies
    <2>1. PICK e \in Nat : e = Earlier(visits, v)
        BY <1>1, <1>2, <1>4, <2>0, EarlierIs DEF LegSeen, Covers
    <2>2. Says(Rules, visit.darts[i], darts[e + i])
        BY <1>1, <1>2, <1>4, <1>6, <1>7, <2>1 DEF LegSeen, Sourced, Lies
    <2>3. s = e + i
        BY <1>6, <2>1 DEF Lies
    <2> QED
        BY <2>2, <2>3
<1>17. Position(leg, s) = <<v, i>>
    BY <1>1, <1>2, <1>4, <1>6, PositionIs DEF LegSeen, Covers
<1>18. Lies(ReplayOf(k).visits, s, v, i)
    BY <1>1, <1>4, <1>6
<1> QED
    BY <1>1, <1>4, <1>7, <1>13, <1>15, <1>16, <1>17, <1>18 DEF DartSeen

(* It is seen in one place only.                                           *)
LEMMA SeenOnce ==
    ASSUME RowsInv, NEW k \in 1..Len(legs), NEW s, NEW v, NEW i, DartSeen(k, s, v, i),
           NEW w, NEW j, Lies(ReplayOf(k).visits, s, w, j)
    PROVE  w = v /\ j = i
BY LegIsSeen, LiesOnce DEF LegSeen, Covers, DartSeen

(* Every dart of a visit is seen.                                          *)
LEMMA VisitIsSeen ==
    ASSUME RowsInv, NEW k \in 1..Len(legs), NEW v \in 1..Len(ReplayOf(k).visits),
           NEW i \in 1..Len(ReplayOf(k).visits[v].darts)
    PROVE  \E s \in 1..Len(ThrownIn(k)) : DartSeen(k, s, v, i)
<1>1. PICK s \in 1..Len(ThrownIn(k)) : Lies(ReplayOf(k).visits, s, v, i)
    BY LegIsSeen, LiesSomewhere DEF LegSeen
<1>2. PICK w, j : DartSeen(k, s, w, j)
    BY DartIsSeen
<1>3. v = w /\ i = j
    BY <1>1, <1>2, SeenOnce
<1> QED
    BY <1>2, <1>3
-----------------------------------------------------------------------------
(* There are finitely many pairs.                                          *)
LEMMA PairsAreFinite ==
    ASSUME NEW n \in Nat, NEW len, \A i \in 1..n : len[i] \in Nat
    PROVE  /\ IsFiniteSet(Pairs(len, n))
           /\ \A p : p \in Pairs(len, n) <=> \E i \in 1..n : \E j \in 1..len[i] : p = <<i, j>>
<1>1. \A p : p \in Pairs(len, n) <=> \E i \in 1..n : \E j \in 1..len[i] : p = <<i, j>>
    <2>1. ASSUME NEW p \in Pairs(len, n)
          PROVE  \E i \in 1..n : \E j \in 1..len[i] : p = <<i, j>>
        <3>1. PICK i \in 1..n : p \in Row(len, i)
            BY DEF Pairs
        <3> QED
            BY <3>1 DEF Row
    <2>2. ASSUME NEW i \in 1..n, NEW j \in 1..len[i]
          PROVE  <<i, j>> \in Pairs(len, n)
        <3>1. <<i, j>> \in Row(len, i)
            BY DEF Row
        <3> QED
            BY <3>1 DEF Pairs
    <2> QED
        BY <2>1, <2>2
<1>2. PICK v : v = [i \in 1..n |-> [j \in 1..len[i] |-> 0]]
    OBVIOUS
<1>3. PICK w : w = [p \in Pairs(len, n) |-> 0]
    OBVIOUS
<1>4. PICK sums : sums = [i \in 1..n |-> Total(v[i], 1..len[i])]
    OBVIOUS
<1>5. \A i \in 1..n : \A j \in 1..len[i] : w[<<i, j>>] = v[i][j] /\ v[i][j] \in Int
    BY <1>1, <1>2, <1>3
<1>6. \A i \in 1..n : sums[i] = Total(v[i], 1..len[i])
    BY <1>4
<1>7. InRows(w, v, sums, len, n)
    BY <1>5, <1>6 DEF InRows
<1> QED
    BY <1>1, <1>7, TotalRows

(* The legs of the match.                                                  *)
LEMMA LegsAre == RowsInv => Len(legs) \in Nat /\ DOMAIN legs = 1..Len(legs)
    BY LenProperties DEF RowsInv, Inductive, LegsOK

(* The darts of the match, by leg and place.                               *)
LEMMA KeysAre ==
    ASSUME RowsInv
    PROVE  /\ IsFiniteSet(Keys)
           /\ \A p : p \in Keys <=> \E k \in 1..Len(legs) : \E s \in 1..Len(ThrownIn(k)) : p = <<k, s>>
<1>1. PICK len : len = [k \in 1..Len(legs) |-> Len(ThrownIn(k))]
    OBVIOUS
<1>2. PICK n \in Nat : n = Len(legs)
    BY LegsAre
<1>3. \A k \in 1..n : len[k] = Len(ThrownIn(k)) /\ len[k] \in Nat
    BY <1>1, <1>2, LegIsSeen DEF LegSeen
<1>4. \A p : p \in Keys <=> \E k \in 1..Len(legs) : \E s \in 1..Len(ThrownIn(k)) : p = <<k, s>>
    BY DEF Keys
<1>5. /\ IsFiniteSet(Pairs(len, n))
      /\ \A p : p \in Pairs(len, n) <=> \E i \in 1..n : \E j \in 1..len[i] : p = <<i, j>>
    BY <1>3, PairsAreFinite
<1>6. \A p : p \in Keys <=> p \in Pairs(len, n)
    BY <1>2, <1>3, <1>4, <1>5
<1>7. Keys = Pairs(len, n)
    BY <1>6
<1> QED
    BY <1>4, <1>5, <1>7

(* Each is seen, in one visit.                                             *)
KeySeen(ks, k, s, v, i) ==
    /\ k \in 1..Len(legs) /\ s \in 1..Len(ThrownIn(k)) /\ ks = <<k, s>>
    /\ ViewOf[ks] = DartView(k, s) /\ DartSeen(k, s, v, i)

(* For each there is.                                                      *)
LEMMA KeyIsSeen ==
    ASSUME RowsInv, NEW ks \in Keys
    PROVE  \E k, s, v, i : KeySeen(ks, k, s, v, i)
<1>0. PICK k \in 1..Len(legs) : \E s \in 1..Len(ThrownIn(k)) : ks = <<k, s>>
    BY KeysAre
<1>1. PICK s \in 1..Len(ThrownIn(k)) : ks = <<k, s>>
    BY <1>0
<1>2. PICK v, i : DartSeen(k, s, v, i)
    BY DartIsSeen
<1>3. ViewOf[ks] = DartView(k, s)
    BY <1>1 DEF ViewOf
<1> QED
    BY <1>1, <1>2, <1>3 DEF KeySeen

(* And so is every dart of every visit.                                    *)
LEMMA PlaceIsSeen ==
    ASSUME RowsInv, NEW k \in 1..Len(legs), NEW v \in 1..Len(ReplayOf(k).visits),
           NEW i \in 1..Len(ReplayOf(k).visits[v].darts)
    PROVE  \E s \in 1..Len(ThrownIn(k)) : <<k, s>> \in Keys /\ KeySeen(<<k, s>>, k, s, v, i)
<1>1. PICK s \in 1..Len(ThrownIn(k)) : DartSeen(k, s, v, i)
    BY VisitIsSeen
<1>2. <<k, s>> \in Keys
    BY KeysAre
<1>3. ViewOf[<<k, s>>] = DartView(k, s)
    BY <1>2 DEF ViewOf
<1> QED
    BY <1>1, <1>2, <1>3 DEF KeySeen

(* A dart of the match is seen once.                                       *)
LEMMA AllAreSeen ==
    ASSUME RowsInv
    PROVE  OneToOne(ViewOf, Keys, AllDarts)
<1>1. ASSUME NEW y \in AllDarts
      PROVE  \E ks \in Keys : y = ViewOf[ks]
    <2>1. PICK k \in DOMAIN legs : \E s \in DOMAIN rows[k].darts : y = DartView(k, s)
        BY DEF AllDarts
    <2>2. PICK s \in DOMAIN rows[k].darts : y = DartView(k, s)
        BY <2>1
    <2>3. k \in 1..Len(legs) /\ s \in 1..Len(ThrownIn(k))
        BY LegsAre, LegIsSeen DEF LegSeen
    <2>4. <<k, s>> \in Keys
        BY <2>3, KeysAre
    <2> QED
        BY <2>2, <2>4 DEF ViewOf
<1>2. ASSUME NEW ks \in Keys
      PROVE  ViewOf[ks] \in AllDarts
    <2>0. PICK k \in 1..Len(legs) : \E s \in 1..Len(ThrownIn(k)) : ks = <<k, s>>
        BY KeysAre
    <2>1. PICK s \in 1..Len(ThrownIn(k)) : ks = <<k, s>>
        BY <2>0
    <2>2. k \in DOMAIN legs /\ s \in DOMAIN rows[k].darts
        BY LegsAre, LegIsSeen DEF LegSeen
    <2>3. ViewOf[ks] = DartView(k, s)
        BY <2>1 DEF ViewOf
    <2> QED
        BY <2>2, <2>3 DEF AllDarts
<1>3. ASSUME NEW ks \in Keys, NEW js \in Keys, ViewOf[ks] = ViewOf[js]
      PROVE  ks = js
    <2>1. PICK k, s, v, i : KeySeen(ks, k, s, v, i)
        BY KeyIsSeen
    <2>2. PICK l, r, w, j : KeySeen(js, l, r, w, j)
        BY KeyIsSeen
    <2>3. ViewOf[ks].leg = k /\ ViewOf[ks].seq = s
        BY <2>1 DEF KeySeen, DartSeen, SeenIn
    <2>4. ViewOf[js].leg = l /\ ViewOf[js].seq = r
        BY <2>2 DEF KeySeen, DartSeen, SeenIn
    <2>5. k = l /\ s = r
        BY <1>3, <2>3, <2>4
    <2> QED
        BY <2>1, <2>2, <2>5 DEF KeySeen
<1> QED
    BY <1>1, <1>2, <1>3 DEF OneToOne
-----------------------------------------------------------------------------
(* The replays of the report are those of the legs.                        *)
LEMMA ReplaysAre ==
    ASSUME RowsInv
    PROVE  /\ DOMAIN Replays = 1..Len(legs)
           /\ \A k \in 1..Len(legs) : Replays[k] = ReplayOf(k)
BY LegsAre DEF Replays, ReplayOf, LegOf

Thrower(visit) == <<visit.team, visit.member>>

VisitAt(kv) == ReplayOf(kv[1]).visits[kv[2]]

PlacedAt(kv, k, v) ==
    k \in 1..Len(legs) /\ v \in 1..Len(ReplayOf(k).visits) /\ kv = <<k, v>>

(* The visits of a player.                                                 *)
LEMMA MineAre ==
    ASSUME RowsInv, NEW p
    PROVE  /\ IsFiniteSet(VisitsBy(Replays, p))
           /\ \A kv : kv \in VisitsBy(Replays, p) <=>
                 (\E k, v : PlacedAt(kv, k, v)) /\ Thrower(VisitAt(kv)) = p
<1>1. PICK n \in Nat : n = Len(legs)
    BY LegsAre
<1>2. PICK len : len = [k \in 1..n |-> Len(ReplayOf(k).visits)]
    OBVIOUS
<1>3. ASSUME NEW k \in 1..n
      PROVE  /\ len[k] = Len(ReplayOf(k).visits) /\ len[k] \in Nat
             /\ DOMAIN Replays[k].visits = 1..len[k] /\ Replays[k] = ReplayOf(k)
    BY <1>1, <1>2, LegIsSeen, ReplaysAre, IsSeqLen DEF LegSeen, Covers, Shaped
<1>4. /\ IsFiniteSet(Pairs(len, n))
      /\ \A q : q \in Pairs(len, n) <=> \E i \in 1..n : \E j \in 1..len[i] : q = <<i, j>>
    <2>1. \A k \in 1..n : len[k] \in Nat
        BY <1>3
    <2> QED
        BY <2>1, PairsAreFinite
<1>5. \A k \in 1..n : \A v \in 1..len[k] : VisitAt(<<k, v>>) = Replays[k].visits[v]
    BY <1>3 DEF VisitAt
<1>6. ASSUME NEW kv \in VisitsBy(Replays, p)
      PROVE  kv \in Pairs(len, n) /\ (\E k, v : PlacedAt(kv, k, v)) /\ Thrower(VisitAt(kv)) = p
    <2>1. PICK k \in DOMAIN Replays :
              kv \in {<<k, v>> : v \in {i \in DOMAIN Replays[k].visits :
                                    <<Replays[k].visits[i].team, Replays[k].visits[i].member>> = p}}
        BY DEF VisitsBy
    <2>2. PICK v \in DOMAIN Replays[k].visits :
              /\ kv = <<k, v>>
              /\ <<Replays[k].visits[v].team, Replays[k].visits[v].member>> = p
        BY <2>1
    <2>3. k \in 1..n /\ v \in 1..len[k]
        BY <1>1, <1>3, <2>2, ReplaysAre
    <2>4. VisitAt(kv) = Replays[k].visits[v]
        BY <1>5, <2>2, <2>3
    <2>5. PlacedAt(kv, k, v)
        BY <1>1, <1>3, <2>2, <2>3 DEF PlacedAt
    <2> QED
        BY <1>4, <2>2, <2>3, <2>4, <2>5 DEF Thrower
<1>7. ASSUME NEW kv, NEW k, NEW v, PlacedAt(kv, k, v), Thrower(VisitAt(kv)) = p
      PROVE  kv \in VisitsBy(Replays, p)
    <2>1. k \in 1..n /\ v \in 1..len[k] /\ kv = <<k, v>>
        BY <1>1, <1>3, <1>7 DEF PlacedAt
    <2>2. k \in DOMAIN Replays /\ v \in DOMAIN Replays[k].visits
        BY <1>1, <1>3, <2>1, ReplaysAre
    <2>3. <<Replays[k].visits[v].team, Replays[k].visits[v].member>> = p
        BY <1>5, <1>7, <2>1 DEF Thrower
    <2>4. kv \in {<<k, u>> : u \in {i \in DOMAIN Replays[k].visits :
                                    <<Replays[k].visits[i].team, Replays[k].visits[i].member>> = p}}
        BY <2>1, <2>2, <2>3
    <2> QED
        BY <2>2, <2>4 DEF VisitsBy
<1>8. IsFiniteSet(VisitsBy(Replays, p))
    <2>1. VisitsBy(Replays, p) \subseteq Pairs(len, n)
        BY <1>6
    <2> QED
        BY <1>4, <2>1, FS_Subset
<1> QED
    BY <1>6, <1>7, <1>8

(* The visit of a dart of the leg is that of the replay it lies in.        *)
LEMMA KeySays ==
    ASSUME RowsInv, NEW ks, NEW k, NEW s, NEW v, NEW i, KeySeen(ks, k, s, v, i)
    PROVE  /\ PlacedAt(<<k, v>>, k, v) /\ VisitAt(<<k, v>>) = ReplayOf(k).visits[v]
           /\ i \in 1..Len(ReplayOf(k).visits[v].darts)
           /\ SeenIn(ViewOf[ks], k, s, ReplayOf(k).visits[v], v, i)
           /\ Replays[k] = ReplayOf(k) /\ Position(Replays[k], s) = <<v, i>>
<1>1. v \in 1..Len(ReplayOf(k).visits) /\ i \in 1..Len(ReplayOf(k).visits[v].darts)
    BY DEF KeySeen, DartSeen, Lies
<1>2. PlacedAt(<<k, v>>, k, v) /\ VisitAt(<<k, v>>) = ReplayOf(k).visits[v]
    BY <1>1 DEF PlacedAt, VisitAt, KeySeen
<1>3. Replays[k] = ReplayOf(k)
    BY ReplaysAre DEF KeySeen
<1> QED
    BY <1>1, <1>2, <1>3 DEF KeySeen, DartSeen

(* The darts of a player.                                                  *)
LEMMA ThrownAre ==
    ASSUME RowsInv, NEW p
    PROVE  /\ ThrownBy(Replays, p) \subseteq Keys /\ IsFiniteSet(ThrownBy(Replays, p))
           /\ \A ks \in Keys : ks \in ThrownBy(Replays, p) <=> ViewOf[ks].player = p
           /\ OneToOne(ViewOf, ThrownBy(Replays, p), OwnDarts(AllDarts, p))
<1>1. ASSUME NEW ks \in ThrownBy(Replays, p)
      PROVE  ks \in Keys /\ ViewOf[ks].player = p
    <2>1. PICK k \in DOMAIN Replays :
              ks \in {<<k, s>> : s \in {i \in DOMAIN legs[k].darts :
                                   <<k, Position(Replays[k], i)[1]>> \in VisitsBy(Replays, p)}}
        BY DEF ThrownBy
    <2>2. PICK s \in DOMAIN legs[k].darts :
              ks = <<k, s>> /\ <<k, Position(Replays[k], s)[1]>> \in VisitsBy(Replays, p)
        BY <2>1
    <2>3. k \in 1..Len(legs) /\ s \in 1..Len(ThrownIn(k))
        BY ReplaysAre, LegIsSeen DEF LegSeen, ThrownIn
    <2>4. ks \in Keys
        BY <2>2, <2>3, KeysAre
    <2>5. PICK l, r, v, i : KeySeen(ks, l, r, v, i)
        BY <2>4, KeyIsSeen
    <2>6. l = k /\ r = s
        BY <2>2, <2>5 DEF KeySeen
    <2>7. Position(Replays[k], s)[1] = v /\ VisitAt(<<k, v>>) = ReplayOf(k).visits[v]
        BY <2>5, <2>6, KeySays
    <2>8. Thrower(ReplayOf(k).visits[v]) = p
        BY <2>2, <2>7, MineAre
    <2>9. ViewOf[ks].player = Thrower(ReplayOf(k).visits[v])
        <3>1. PICK d, visit : d = ViewOf[ks] /\ visit = ReplayOf(k).visits[v]
            OBVIOUS
        <3>2. SeenIn(d, k, s, visit, v, i)
            BY <2>5, <2>6, <3>1, KeySays
        <3> QED
            BY <3>1, <3>2 DEF SeenIn, Thrower
    <2> QED
        BY <2>4, <2>8, <2>9
<1>2. ASSUME NEW ks \in Keys, ViewOf[ks].player = p
      PROVE  ks \in ThrownBy(Replays, p)
    <2>1. PICK k, s, v, i : KeySeen(ks, k, s, v, i)
        BY KeyIsSeen
    <2>2. /\ PlacedAt(<<k, v>>, k, v) /\ VisitAt(<<k, v>>) = ReplayOf(k).visits[v]
          /\ Position(Replays[k], s)[1] = v
        BY <2>1, KeySays
    <2>3. ViewOf[ks].player = Thrower(ReplayOf(k).visits[v])
        <3>1. PICK d, visit : d = ViewOf[ks] /\ visit = ReplayOf(k).visits[v]
            OBVIOUS
        <3>2. SeenIn(d, k, s, visit, v, i)
            BY <2>1, <3>1, KeySays
        <3> QED
            BY <3>1, <3>2 DEF SeenIn, Thrower
    <2>4. <<k, v>> \in VisitsBy(Replays, p)
        BY <1>2, <2>2, <2>3, MineAre
    <2>5. k \in DOMAIN Replays /\ s \in DOMAIN legs[k].darts
        BY <2>1, ReplaysAre, LegIsSeen DEF LegSeen, ThrownIn, KeySeen
    <2>6. ks \in {<<k, r>> : r \in {j \in DOMAIN legs[k].darts :
                                   <<k, Position(Replays[k], j)[1]>> \in VisitsBy(Replays, p)}}
        BY <2>1, <2>2, <2>4, <2>5 DEF KeySeen
    <2> QED
        BY <2>5, <2>6 DEF ThrownBy
<1>3. PICK P : P = ThrownBy(Replays, p)
    OBVIOUS
<1>4. P \in SUBSET Keys
    BY <1>1, <1>3
<1>5. \A y : y \in OwnDarts(AllDarts, p) <=> \E ks \in P : y = ViewOf[ks]
    BY <1>1, <1>2, <1>3, AllAreSeen DEF OwnDarts, OneToOne
<1>6. OneToOne(ViewOf, P, OwnDarts(AllDarts, p))
    BY <1>4, <1>5, AllAreSeen, PartOneToOne
<1>7. IsFiniteSet(P)
    BY <1>4, KeysAre, FS_Subset
<1> QED
    BY <1>1, <1>2, <1>3, <1>4, <1>6, <1>7
-----------------------------------------------------------------------------
(* A sum over images is one over what they are the images of.              *)
LEMMA SumSeen ==
    ASSUME NEW P, IsFiniteSet(P), NEW f, NEW Q, OneToOne(f, P, Q), NEW w, DOMAIN w = Q,
           NEW v, \A x \in P : v[x] = w[f[x]] /\ v[x] \in Int
    PROVE  IsFiniteSet(Q) /\ SumFunction(w) = Total(v, P)
<1>1. IsFiniteSet(Q) /\ Total(w, Q) = Total(v, P)
    BY TotalImage
<1> QED
    BY <1>1, SumIs

(* There are finitely many players.                                        *)
LEMMA PlayersAre ==
    /\ IsFiniteSet(Players)
    /\ \A team \in Team : \A member \in 0..Members[team] - 1 : <<team, member>> \in Players
<1>1. ASSUME NEW team \in Team, NEW member \in 0..Members[team] - 1
      PROVE  <<team, member>> \in Players
    BY DEF Players
<1>2. PICK n \in Nat : n = NTeams
    BY MatchAssumption
<1>3. PICK len : len = [i \in 1..n |-> Members[i - 1]]
    OBVIOUS
<1>4. \A i \in 1..n : len[i] = Members[i - 1] /\ i - 1 \in Team
    BY <1>2, <1>3 DEF Team
<1>5. \A i \in 1..n : len[i] \in Nat
    BY <1>4, StatisticsAssumption
<1>6. /\ IsFiniteSet(Pairs(len, n))
      /\ \A q : q \in Pairs(len, n) <=> \E i \in 1..n : \E j \in 1..len[i] : q = <<i, j>>
    BY <1>5, PairsAreFinite
<1>7. PICK f : f = [q \in Pairs(len, n) |-> <<q[1] - 1, q[2] - 1>>]
    OBVIOUS
<1>8. ASSUME NEW p \in Players
      PROVE  \E q \in Pairs(len, n) : p = f[q]
    <2>1. PICK team \in Team : p \in {<<team, member>> : member \in 0..Members[team] - 1}
        BY DEF Players
    <2>2. PICK member \in 0..Members[team] - 1 : p = <<team, member>>
        BY <2>1
    <2>3. PICK m \in Nat : m = Members[team]
        BY StatisticsAssumption
    <2>4. PICK i \in 1..n : i = team + 1 /\ i - 1 = team
        BY <1>2 DEF Team
    <2>5. PICK j \in 1..m : j = member + 1 /\ j - 1 = member
        BY <2>3
    <2>6. <<i, j>> \in Pairs(len, n)
        BY <1>4, <1>6, <2>3, <2>4, <2>5
    <2>7. f[<<i, j>>] = <<team, member>>
        BY <1>7, <2>4, <2>5, <2>6
    <2> QED
        BY <2>2, <2>6, <2>7
<1>9. IsFiniteSet(Players)
    BY <1>6, <1>8, ImageIsFinite
<1> QED
    BY <1>1, <1>9

(* Every dart is somebody's.                                               *)
LEMMA DartIsTheirs ==
    ASSUME RowsInv, NEW d \in AllDarts
    PROVE  d.player \in Players
<1>1. PICK ks \in Keys : d = ViewOf[ks]
    BY AllAreSeen DEF OneToOne
<1>2. PICK k, s, v, i : KeySeen(ks, k, s, v, i)
    BY KeyIsSeen
<1>3. PICK visit : visit = ReplayOf(k).visits[v]
    OBVIOUS
<1>4. SeenIn(d, k, s, visit, v, i) /\ v \in 1..Len(ReplayOf(k).visits) /\ k \in 1..Len(legs)
    BY <1>1, <1>2, <1>3, KeySays DEF PlacedAt, KeySeen
<1>5. Manned(ReplayOf(k).visits, Members, NTeams)
    BY <1>4, LegIsSeen DEF LegSeen
<1>6. visit.team \in Team /\ visit.member \in 0..Members[visit.team] - 1
    BY <1>3, <1>4, <1>5 DEF Manned, Team
<1>7. <<visit.team, visit.member>> \in Players
    BY <1>6, PlayersAre
<1> QED
    BY <1>4, <1>7 DEF SeenIn

(* So the darts of the match are as many as its players' are together.     *)
LEMMA EverybodyCounted ==
    ASSUME RowsInv, NEW sums, DOMAIN sums = Players,
           \A p \in Players : sums[p] = Cardinality(OwnDarts(AllDarts, p))
    PROVE  Cardinality(AllDarts) = SumFunction(sums)
<1>1. PICK S : S = AllDarts
    OBVIOUS
<1>2. IsFiniteSet(S)
    BY <1>1, KeysAre, AllAreSeen, ImageCount
<1>3. PICK g : g = [d \in S |-> d.player]
    OBVIOUS
<1>4. \A d \in S : g[d] \in Players
    BY <1>1, <1>3, DartIsTheirs
<1>5. ASSUME NEW p \in Players
      PROVE  sums[p] = Cardinality({d \in S : g[d] = p})
    <2>1. {d \in S : g[d] = p} = OwnDarts(AllDarts, p)
        BY <1>1, <1>3 DEF OwnDarts
    <2> QED
        BY <2>1
<1>6. Cardinality(S) = Total(sums, Players)
    BY <1>2, <1>4, <1>5, PlayersAre, CountBy
<1> QED
    BY <1>1, <1>6, PlayersAre, SumIs

(* A player's darts, and those of theirs in each leg.                      *)
OwnIn(p, k) == {d \in OwnDarts(AllDarts, p) : d.leg = k}

LinesOf(p) == {k \in DOMAIN legs : <<k, p>> \in {<<d.leg, d.player>> : d \in AllDarts}}

(* A player's own darts are finitely many, as many as they threw.          *)
LEMMA OwnAreFinite ==
    ASSUME RowsInv, NEW p
    PROVE  /\ IsFiniteSet(OwnDarts(AllDarts, p))
           /\ Cardinality(OwnDarts(AllDarts, p)) = Cardinality(ThrownBy(Replays, p))
BY ThrownAre, ImageCount

(* The legs a player has a line for are those they threw in.               *)
LEMMA LinesAre ==
    ASSUME RowsInv, NEW p
    PROVE  /\ IsFiniteSet(LinesOf(p))
           /\ \A d \in OwnDarts(AllDarts, p) : d.leg \in LinesOf(p)
           /\ \A k \in LinesOf(p) : OwnIn(p, k) # {} /\ k \in 1..Len(legs)
<1>1. \A d \in AllDarts : d.leg \in DOMAIN legs
    <2> SUFFICES ASSUME NEW d \in AllDarts
                 PROVE  d.leg \in DOMAIN legs
        OBVIOUS
    <2>1. PICK ks \in Keys : d = ViewOf[ks]
        BY AllAreSeen DEF OneToOne
    <2>2. PICK k, s, v, i : KeySeen(ks, k, s, v, i)
        BY KeyIsSeen
    <2>3. SeenIn(d, k, s, ReplayOf(k).visits[v], v, i) /\ k \in 1..Len(legs)
        BY <2>1, <2>2, KeySays DEF KeySeen
    <2> QED
        BY <2>3, LegsAre DEF SeenIn
<1>2. ASSUME NEW d \in OwnDarts(AllDarts, p)
      PROVE  d.leg \in LinesOf(p)
    BY <1>1 DEF OwnDarts, LinesOf
<1>3. ASSUME NEW k \in LinesOf(p)
      PROVE  OwnIn(p, k) # {} /\ k \in 1..Len(legs)
    <2>1. PICK d \in AllDarts : <<k, p>> = <<d.leg, d.player>>
        BY DEF LinesOf
    <2>2. d \in OwnIn(p, k)
        BY <2>1 DEF OwnIn, OwnDarts
    <2> QED
        BY <2>2, LegsAre DEF LinesOf
<1>4. IsFiniteSet(LinesOf(p))
    <2>1. PICK n \in Nat : n = Len(legs)
        BY LegsAre
    <2>2. IsFiniteSet(1..n) /\ LinesOf(p) \subseteq 1..n
        BY <1>3, <2>1, FS_Interval
    <2> QED
        BY <2>2, FS_Subset
<1> QED
    BY <1>2, <1>3, <1>4

(* The lines of a player add up, and each says whether their team won.     *)
LEMMA LinesAddUp ==
    ASSUME RowsInv, NEW p, NEW sums, DOMAIN sums = LinesOf(p),
           \A k \in LinesOf(p) : sums[k] = Cardinality(OwnIn(p, k))
    PROVE  Cardinality(OwnDarts(AllDarts, p)) = SumFunction(sums)
<1>1. PICK S : S = OwnDarts(AllDarts, p)
    OBVIOUS
<1>2. PICK g : g = [d \in S |-> d.leg]
    OBVIOUS
<1>3. \A d \in S : g[d] \in LinesOf(p)
    BY <1>1, <1>2, LinesAre
<1>4. ASSUME NEW k \in LinesOf(p)
      PROVE  sums[k] = Cardinality({d \in S : g[d] = k})
    <2>1. {d \in S : g[d] = k} = OwnIn(p, k)
        BY <1>1, <1>2 DEF OwnIn
    <2> QED
        BY <2>1
<1>5. Cardinality(S) = Total(sums, LinesOf(p))
    BY <1>1, <1>3, <1>4, OwnAreFinite, LinesAre, CountBy
<1> QED
    BY <1>1, <1>5, LinesAre, SumIs

(* A line says whether the player's team won the leg.                      *)
LEMMA LinesAreWon ==
    ASSUME RowsInv, NEW p, NEW k \in LinesOf(p)
    PROVE  (\E d \in OwnIn(p, k) : d.winner = d.team) <=> Replays[k].winner = p[1]
<1>1. ASSUME NEW d \in OwnIn(p, k)
      PROVE  d.winner = Replays[k].winner /\ d.team = p[1]
    <2>1. d \in AllDarts /\ d.player = p /\ d.leg = k
        BY DEF OwnIn, OwnDarts
    <2>2. PICK ks \in Keys : d = ViewOf[ks]
        BY <2>1, AllAreSeen DEF OneToOne
    <2>3. PICK l, s, v, i : KeySeen(ks, l, s, v, i)
        BY KeyIsSeen
    <2>4. PICK visit : visit = ReplayOf(l).visits[v]
        OBVIOUS
    <2>5. SeenIn(d, l, s, visit, v, i) /\ Replays[l] = ReplayOf(l)
        BY <2>2, <2>3, <2>4, KeySays
    <2>6. l = k /\ d.winner = ReplayOf(l).winner /\ d.team = visit.team
          /\ p = <<visit.team, visit.member>>
        BY <2>1, <2>5 DEF SeenIn
    <2> QED
        BY <2>5, <2>6
<1>2. OwnIn(p, k) # {}
    BY LinesAre
<1> QED
    BY <1>1, <1>2
-----------------------------------------------------------------------------
(* The darts of x01, and of each of its visits.                            *)
LEMMA X01IsSound ==
    ASSUME RowsInv, IsX01, NEW k \in 1..Len(legs)
    PROVE  /\ X01Inv(ReplayOf(k), Rules, NTeams) /\ EndsRight(ReplayOf(k), NTeams)
           /\ \A v \in 1..Len(ReplayOf(k).visits) : VisitSound(ReplayOf(k).visits[v])
<1>1. PICK l : l = legs[k]
    OBVIOUS
<1>2. l \in LegRow
    BY <1>1, LegsAreClean
<1>3. /\ Legal(Dart) /\ l.darts \in Seq(Dart) /\ l.starter \in 0..NTeams - 1
      /\ Seats(Members, NTeams) /\ LegOf(l) = LegReplay(Rules, Members, l.starter, l.darts)
    BY <1>2, LegIsPlayed
<1>4. X01Rules(Rules) /\ Rules.start # 0
    BY RowsAssumption, StatisticsAssumption DEF X01Rules, IsX01
<1>5. X01Inv(LegOf(l), Rules, NTeams)
    BY <1>3, <1>4, ReplayKeepsScores
<1>6. EndsRight(LegOf(l), NTeams)
    BY <1>3, <1>4, ReplayEndsRight
<1> QED
    BY <1>1, <1>5, <1>6 DEF X01Inv, ReplayOf

(* What a dart scored for its thrower is what it is worth in its visit.    *)
LEMMA KeyScores ==
    ASSUME RowsInv, IsX01, NEW ks, NEW k, NEW s, NEW v, NEW i, KeySeen(ks, k, s, v, i)
    PROVE  /\ Scored(ViewOf[ks]) = Worth(ReplayOf(k).visits[v].darts[i])
           /\ Scored(ViewOf[ks]) = WorthAt(Replays, ks)
           /\ Scored(ViewOf[ks]) \in Int
<1>1. PICK d, visit, dart : /\ d = ViewOf[ks] /\ visit = ReplayOf(k).visits[v]
                            /\ dart = visit.darts[i]
    OBVIOUS
<1>2. /\ k \in 1..Len(legs) /\ v \in 1..Len(ReplayOf(k).visits) /\ i \in 1..Len(visit.darts)
      /\ SeenIn(d, k, s, visit, v, i) /\ ks = <<k, s>>
      /\ Replays[k] = ReplayOf(k) /\ Position(Replays[k], s) = <<v, i>>
    <2>1. /\ k \in 1..Len(legs) /\ ks = <<k, s>>
        BY DEF KeySeen
    <2>2. v \in 1..Len(ReplayOf(k).visits)
        BY KeySays DEF PlacedAt
    <2>3. SeenIn(d, k, s, visit, v, i) /\ i \in 1..Len(visit.darts)
        BY <1>1, KeySays
    <2>4. Replays[k] = ReplayOf(k) /\ Position(Replays[k], s) = <<v, i>>
        BY <2>1, ReplaysAre DEF KeySeen, DartSeen
    <2> QED
        BY <2>1, <2>2, <2>3, <2>4
<1>3. VisitSound(visit)
    BY <1>1, <1>2, X01IsSound
<1>4. IsSeq(visit.darts) /\ Judged(dart)
    BY <1>1, <1>2, <1>3 DEF VisitSound
<1>5. dart.counted \in BOOLEAN /\ Score(dart.throw) \in Nat
    BY <1>4 DEF Judged
<1>6. d.throw = dart.throw
    <2>1. Says(Rules, dart, ThrownIn(k)[s])
        BY <1>1 DEF KeySeen, DartSeen
    <2>2. dart.throw = ThrownIn(k)[s]
        BY <2>1 DEF Says, IsX01
    <2> QED
        BY <1>2, <2>2 DEF SeenIn
<1>7. d.flags.counted <=> dart.counted
    <2>1. PICK prior : d.flags = DartFlags(visit, i, prior)
        BY <1>2 DEF SeenIn
    <2>2. d.flags.counted = CountedFlags(visit)[i]
        BY <2>1 DEF DartFlags
    <2>3. i \in DOMAIN visit.darts
        BY <1>2, <1>4, IsSeqLen
    <2>4. CountedFlags(visit)[i] = (IsX01 => dart.counted)
        BY <1>1, <2>3 DEF CountedFlags
    <2> QED
        BY <2>2, <2>4
<1>8. Scored(d) = IF dart.counted THEN Score(dart.throw) ELSE 0
    BY <1>6, <1>7 DEF Scored
<1>9. Scored(d) = Worth(dart)
    BY <1>8 DEF Worth
<1>10. WorthAt(Replays, ks) = IF dart.counted THEN Score(dart.throw) ELSE 0
    <2>1. ks[1] = k /\ ks[2] = s
        BY <1>2
    <2>2. Replays[k].visits[v].darts[i] = dart
        BY <1>1, <1>2
    <2> QED
        BY <1>2, <2>1, <2>2 DEF WorthAt
<1>11. Scored(d) \in Int
    BY <1>5, <1>8
<1> QED
    BY <1>1, <1>8, <1>9, <1>10, <1>11

(* The darts of a visit are all its player's, and are seen in their order. *)
SeenDarts(g, k, v, Q) ==
    /\ OneToOne(g, 1..Len(ReplayOf(k).visits[v].darts), Q)
    /\ \A i \in 1..Len(ReplayOf(k).visits[v].darts) :
          \E ks, s : ks \in Keys /\ KeySeen(ks, k, s, v, i) /\ g[i] = ViewOf[ks]

(* So they can be counted in that order.                                   *)
LEMMA VisitDartsAre ==
    ASSUME RowsInv, NEW kv, NEW k, NEW v, PlacedAt(kv, k, v), NEW p, Thrower(VisitAt(kv)) = p
    PROVE  \E g : SeenDarts(g, k, v, InVisit(OwnDarts(AllDarts, p), kv))
<1>1. PICK visit : visit = ReplayOf(k).visits[v]
    OBVIOUS
<1>2. /\ k \in 1..Len(legs) /\ v \in 1..Len(ReplayOf(k).visits) /\ kv = <<k, v>>
      /\ Thrower(visit) = p
    BY <1>1 DEF PlacedAt, VisitAt
<1>3. PICK D : D = 1..Len(visit.darts)
    OBVIOUS
<1>4. PICK Q : Q = InVisit(OwnDarts(AllDarts, p), kv)
    OBVIOUS
<1> DEFINE At(i, d) == \E ks, s : ks \in Keys /\ KeySeen(ks, k, s, v, i) /\ d = ViewOf[ks]
<1>5. PICK g : g = [i \in D |-> CHOOSE d : At(i, d)]
    OBVIOUS
<1>6. ASSUME NEW i \in D
      PROVE  At(i, g[i])
    <2>1. PICK s : <<k, s>> \in Keys /\ KeySeen(<<k, s>>, k, s, v, i)
        BY <1>1, <1>2, <1>3, PlaceIsSeen
    <2>2. At(i, ViewOf[<<k, s>>])
        BY <2>1
    <2> HIDE DEF At
    <2> QED
        BY <1>5, <2>2
<1>7. ASSUME NEW i \in D
      PROVE  g[i] \in Q /\ g[i].index = i
    <2>1. PICK ks, s : ks \in Keys /\ KeySeen(ks, k, s, v, i) /\ g[i] = ViewOf[ks]
        BY <1>6
    <2>2. PICK d : d = g[i]
        OBVIOUS
    <2>3. SeenIn(d, k, s, visit, v, i)
        BY <1>1, <2>1, <2>2, KeySays
    <2>4. d.visit = kv /\ d.player = p /\ d.index = i
        BY <1>2, <2>3 DEF SeenIn, Thrower
    <2>5. d \in AllDarts
        BY <2>1, <2>2, AllAreSeen DEF OneToOne
    <2> QED
        BY <1>4, <2>2, <2>4, <2>5 DEF InVisit, OwnDarts
<1>8. ASSUME NEW d \in Q
      PROVE  \E i \in D : d = g[i]
    <2>1. d \in AllDarts /\ d.visit = kv
        BY <1>4 DEF InVisit, OwnDarts
    <2>2. PICK ks \in Keys : d = ViewOf[ks]
        BY <2>1, AllAreSeen DEF OneToOne
    <2>3. PICK l, s, w, i : KeySeen(ks, l, s, w, i)
        BY KeyIsSeen
    <2>4. d.visit = <<l, w>> /\ i \in 1..Len(ReplayOf(l).visits[w].darts)
        <3>1. PICK other : other = ReplayOf(l).visits[w]
            OBVIOUS
        <3>2. SeenIn(d, l, s, other, w, i) /\ i \in 1..Len(other.darts)
            BY <2>2, <2>3, <3>1, KeySays
        <3> QED
            BY <3>1, <3>2 DEF SeenIn
    <2>5. l = k /\ w = v
        BY <1>2, <2>1, <2>4
    <2>6. i \in D
        BY <1>1, <1>3, <2>4, <2>5
    <2>7. PICK js, r : js \in Keys /\ KeySeen(js, k, r, v, i) /\ g[i] = ViewOf[js]
        BY <1>6, <2>6
    <2>8. s = r
        BY <2>3, <2>5, <2>7 DEF KeySeen, DartSeen, Lies
    <2>9. ks = js
        BY <2>3, <2>5, <2>7, <2>8 DEF KeySeen
    <2> QED
        BY <2>2, <2>6, <2>7, <2>9
<1>9. OneToOne(g, D, Q)
    <2>1. \A y : y \in Q <=> \E i \in D : y = g[i]
        BY <1>7, <1>8
    <2>2. \A i, j \in D : g[i] = g[j] => i = j
        BY <1>7
    <2> QED
        BY <2>1, <2>2 DEF OneToOne
<1> QED
    BY <1>1, <1>3, <1>4, <1>6, <1>9 DEF SeenDarts

(* The points of a visit are what it took off the score.                   *)
LEMMA VisitTakesOff ==
    ASSUME RowsInv, IsX01, NEW kv, NEW k, NEW v, PlacedAt(kv, k, v),
           NEW p, Thrower(VisitAt(kv)) = p
    PROVE  /\ PointsOf(InVisit(OwnDarts(AllDarts, p), kv)) = TakenOff(Replays, kv)
           /\ InVisit(OwnDarts(AllDarts, p), kv) # {}
<1>1. PICK visit : visit = ReplayOf(k).visits[v]
    OBVIOUS
<1>2. k \in 1..Len(legs) /\ v \in 1..Len(ReplayOf(k).visits) /\ kv = <<k, v>>
    BY <1>1 DEF PlacedAt
<1>3. PICK Q : Q = InVisit(OwnDarts(AllDarts, p), kv)
    OBVIOUS
<1>4. PICK g : SeenDarts(g, k, v, Q)
    BY <1>3, VisitDartsAre
<1>5. VisitSound(visit)
    BY <1>1, <1>2, X01IsSound
<1>6. Len(visit.darts) \in Nat \ {0}
    <2>1. Len(visit.darts) \in 1..DartsPerVisit
        BY <1>1, <1>2, LegIsSeen DEF LegSeen, Covers, Shaped
    <2> QED
        BY <2>1 DEF DartsPerVisit
<1>7. PICK n \in Nat \ {0} : n = Len(visit.darts)
    BY <1>6
<1>8. PICK D : D = 1..n
    OBVIOUS
<1>9. OneToOne(g, D, Q)
    BY <1>1, <1>4, <1>7, <1>8 DEF SeenDarts
<1>10. PICK w : w = [d \in Q |-> Scored(d)]
    OBVIOUS
<1>11. PICK u : u = Worths(visit.darts)
    OBVIOUS
<1>12. ASSUME NEW i \in D
       PROVE  u[i] = w[g[i]] /\ u[i] \in Int
    <2>1. PICK ks, s : ks \in Keys /\ KeySeen(ks, k, s, v, i) /\ g[i] = ViewOf[ks]
        BY <1>1, <1>4, <1>7, <1>8 DEF SeenDarts
    <2>2. u[i] = Worth(visit.darts[i])
        BY <1>7, <1>8, <1>11 DEF Worths
    <2>3. Scored(g[i]) = Worth(visit.darts[i]) /\ Scored(g[i]) \in Int
        BY <1>1, <2>1, KeyScores
    <2>4. g[i] \in Q
        BY <1>9 DEF OneToOne
    <2> QED
        BY <1>10, <2>2, <2>3, <2>4
<1>13. IsFiniteSet(D)
    BY <1>8, FS_Interval
<1>14. SumFunction(w) = Total(u, D)
    <2>1. DOMAIN w = Q
        BY <1>10
    <2> QED
        BY <1>9, <1>12, <1>13, <2>1, SumSeen
<1>15. Total(u, D) = visit.before - visit.after
    BY <1>5, <1>7, <1>8, <1>11 DEF VisitSound, VisitWorth
<1>16. TakenOff(Replays, kv) = visit.before - visit.after
    <2>1. kv[1] = k /\ kv[2] = v /\ Replays[k] = ReplayOf(k)
        BY <1>2, ReplaysAre
    <2> QED
        BY <1>1, <2>1 DEF TakenOff
<1>17. Q # {}
    <2>1. 1 \in D
        BY <1>8
    <2> QED
        BY <1>9, <2>1 DEF OneToOne
<1>18. PointsOf(Q) = SumFunction(w)
    BY <1>10 DEF PointsOf
<1> QED
    BY <1>3, <1>14, <1>15, <1>16, <1>17, <1>18
-----------------------------------------------------------------------------
(* A player's dart lies in one of their visits.                            *)
OwnSeen(d, p, ks, k, s, v, i) ==
    /\ ks \in ThrownBy(Replays, p) /\ KeySeen(ks, k, s, v, i) /\ d = ViewOf[ks]
    /\ SeenIn(d, k, s, ReplayOf(k).visits[v], v, i)
    /\ PlacedAt(<<k, v>>, k, v) /\ Thrower(VisitAt(<<k, v>>)) = p
    /\ <<k, v>> \in VisitsBy(Replays, p)

(* Each of them does.                                                      *)
LEMMA OwnDartSeen ==
    ASSUME RowsInv, NEW p, NEW d \in OwnDarts(AllDarts, p)
    PROVE  \E ks, k, s, v, i : OwnSeen(d, p, ks, k, s, v, i)
<1>1. PICK ks \in ThrownBy(Replays, p) : d = ViewOf[ks]
    BY ThrownAre DEF OneToOne
<1>2. ks \in Keys /\ d.player = p
    BY <1>1, ThrownAre
<1>3. PICK k, s, v, i : KeySeen(ks, k, s, v, i)
    BY <1>2, KeyIsSeen
<1>4. PICK visit : visit = ReplayOf(k).visits[v]
    OBVIOUS
<1>5. SeenIn(d, k, s, visit, v, i)
    BY <1>1, <1>3, <1>4, KeySays
<1>6. PlacedAt(<<k, v>>, k, v) /\ VisitAt(<<k, v>>) = visit
    BY <1>3, <1>4, KeySays
<1>7. Thrower(VisitAt(<<k, v>>)) = p
    BY <1>2, <1>5, <1>6 DEF SeenIn, Thrower
<1>8. <<k, v>> \in VisitsBy(Replays, p)
    BY <1>6, <1>7, MineAre
<1> QED
    BY <1>1, <1>3, <1>4, <1>5, <1>6, <1>7, <1>8 DEF OwnSeen

(* A dart that is seen, of a player's visit, is theirs.                    *)
LEMMA SeenIsOwn ==
    ASSUME RowsInv, NEW p, NEW ks, NEW k, NEW s, NEW v, NEW i, KeySeen(ks, k, s, v, i),
           Thrower(ReplayOf(k).visits[v]) = p
    PROVE  /\ ks \in ThrownBy(Replays, p) /\ ViewOf[ks] \in OwnDarts(AllDarts, p)
<1>1. ks \in Keys
    BY KeysAre DEF KeySeen
<1>2. ViewOf[ks].player = p
    <2>1. PICK d, visit : d = ViewOf[ks] /\ visit = ReplayOf(k).visits[v]
        OBVIOUS
    <2>2. SeenIn(d, k, s, visit, v, i)
        BY <2>1, KeySays
    <2> QED
        BY <2>1, <2>2 DEF SeenIn, Thrower
<1>3. ks \in ThrownBy(Replays, p)
    BY <1>1, <1>2, ThrownAre
<1> QED
    BY <1>3, ThrownAre DEF OneToOne

(* The visits seen of a player's darts are the visits of the replays that  *)
(* are theirs.                                                             *)
LEMMA VisitsAreMine ==
    ASSUME RowsInv, NEW p
    PROVE  Visits(OwnDarts(AllDarts, p)) = VisitsBy(Replays, p)
<1>1. ASSUME NEW kv \in Visits(OwnDarts(AllDarts, p))
      PROVE  kv \in VisitsBy(Replays, p)
    <2>1. PICK d \in OwnDarts(AllDarts, p) : kv = d.visit
        BY DEF Visits
    <2>2. PICK ks, k, s, v, i : OwnSeen(d, p, ks, k, s, v, i)
        BY OwnDartSeen
    <2>3. d.visit = <<k, v>> /\ <<k, v>> \in VisitsBy(Replays, p)
        BY <2>2 DEF OwnSeen, SeenIn
    <2> QED
        BY <2>1, <2>3
<1>2. ASSUME NEW kv \in VisitsBy(Replays, p)
      PROVE  kv \in Visits(OwnDarts(AllDarts, p))
    <2>1. PICK k, v : PlacedAt(kv, k, v)
        BY MineAre
    <2>2. Thrower(VisitAt(kv)) = p
        BY MineAre
    <2>3. PICK Q : Q = InVisit(OwnDarts(AllDarts, p), kv)
        OBVIOUS
    <2>4. PICK g : SeenDarts(g, k, v, Q)
        BY <2>1, <2>2, <2>3, VisitDartsAre
    <2>5. PICK n \in 1..3 : n = Len(ReplayOf(k).visits[v].darts)
        BY <2>1, LegIsSeen DEF LegSeen, Covers, Shaped, PlacedAt, DartsPerVisit
    <2>6. 1 \in 1..Len(ReplayOf(k).visits[v].darts)
        <3>1. 1 \in 1..n
            OBVIOUS
        <3> QED
            BY <2>5, <3>1, Zenon
    <2>7. g[1] \in Q
        BY <2>4, <2>6 DEF SeenDarts, OneToOne
    <2> QED
        BY <2>3, <2>7 DEF Visits, InVisit
<1> QED
    BY <1>1, <1>2

(* What a player's darts scored is what their visits took off.             *)
LEMMA PointsAreTaken ==
    ASSUME RowsInv, IsX01, NEW p
    PROVE  PointsOf(OwnDarts(AllDarts, p))
              = SumFunction([kv \in VisitsBy(Replays, p) |-> TakenOff(Replays, kv)])
<1>1. PICK S, R : S = OwnDarts(AllDarts, p) /\ R = VisitsBy(Replays, p)
    OBVIOUS
<1>2. IsFiniteSet(S) /\ IsFiniteSet(R)
    BY <1>1, OwnAreFinite, MineAre
<1>3. PICK g : g = [d \in S |-> d.visit]
    OBVIOUS
<1>4. PICK w : w = [d \in S |-> Scored(d)]
    OBVIOUS
<1>5. PICK sums : sums = [kv \in R |-> TakenOff(Replays, kv)]
    OBVIOUS
<1>6. ASSUME NEW d \in S
      PROVE  g[d] \in R /\ w[d] \in Int
    <2>1. PICK ks, k, s, v, i : OwnSeen(d, p, ks, k, s, v, i)
        BY <1>1, OwnDartSeen
    <2>2. d.visit = <<k, v>> /\ <<k, v>> \in R
        BY <1>1, <2>1 DEF OwnSeen, SeenIn
    <2>3. Scored(d) \in Int
        BY <2>1, KeyScores DEF OwnSeen
    <2> QED
        BY <1>3, <1>4, <2>2, <2>3
<1>7. ASSUME NEW kv \in R
      PROVE  sums[kv] = Total(w, {d \in S : g[d] = kv})
    <2>1. PICK Q : Q = InVisit(S, kv)
        OBVIOUS
    <2>2. Q = {d \in S : g[d] = kv} /\ Q \subseteq S
        BY <1>3, <2>1 DEF InVisit
    <2>3. PICK k, v : PlacedAt(kv, k, v)
        BY <1>1, MineAre
    <2>4. Thrower(VisitAt(kv)) = p
        BY <1>1, MineAre
    <2>5. PointsOf(Q) = TakenOff(Replays, kv)
        BY <1>1, <2>1, <2>3, <2>4, VisitTakesOff
    <2>6. IsFiniteSet(Q)
        BY <1>2, <2>2, FS_Subset
    <2>7. PICK u : u = [d \in Q |-> Scored(d)]
        OBVIOUS
    <2>8. PointsOf(Q) = Total(u, Q)
        BY <2>6, <2>7, SumIs DEF PointsOf
    <2>9. \A d \in Q : u[d] = w[d]
        BY <1>4, <2>2, <2>7
    <2>10. Total(u, Q) = Total(w, Q)
        BY <2>6, <2>9, SameTotal
    <2> QED
        BY <1>5, <2>2, <2>5, <2>8, <2>10
<1>8. Total(w, S) = Total(sums, R)
    <2>1. \A d \in S : g[d] \in R
        BY <1>6
    <2>2. \A d \in S : w[d] \in Int
        BY <1>6
    <2>3. \A kv \in R : sums[kv] = Total(w, {d \in S : g[d] = kv})
        BY <1>7
    <2>4. Sorted(sums, w, g, S, R)
        BY <2>1, <2>2, <2>3 DEF Sorted
    <2> QED
        BY <1>2, <2>4, TotalBy
<1>9. PointsOf(S) = Total(w, S)
    BY <1>2, <1>4, SumIs DEF PointsOf
<1>10. SumFunction(sums) = Total(sums, R)
    BY <1>2, <1>5, SumIs
<1> QED
    BY <1>1, <1>5, <1>8, <1>9, <1>10
-----------------------------------------------------------------------------
(* The legs won are those the replays say the team won.                    *)
LEMMA LegsWonAre ==
    ASSUME RowsInv, NEW team
    PROVE  LegsWon(team)
              = Cardinality({k \in DOMAIN legs : ~SingleSided /\ Replays[k].winner = team})
<1>1. \A k \in DOMAIN legs : legs[k].winner = Replays[k].winner
    BY LegsAre, ReplaysAre, LegIsSeen DEF LegSeen
<1>2. PICK won : won = {k \in DOMAIN legs : ~SingleSided /\ Replays[k].winner = team}
    BY Zenon
<1>3. CASE SingleSided
    <2>1. won = {}
        BY <1>2, <1>3
    <2> QED
        BY <1>2, <1>3, <2>1, FS_EmptySet DEF LegsWon
<1>4. CASE ~SingleSided
    <2>1. won = {k \in DOMAIN legs : legs[k].winner = team}
        BY <1>1, <1>2, <1>4
    <2> QED
        BY <1>2, <1>4, <2>1 DEF LegsWon
<1> QED
    BY <1>3, <1>4

(* Where each dart is seen to be.                                          *)
LEMMA SeenWhere ==
    ASSUME RowsInv, NEW ks \in Keys
    PROVE  ViewOf[ks].leg = ks[1] /\ ViewOf[ks].seq = ks[2]
<1>1. PICK k, s, v, i : KeySeen(ks, k, s, v, i)
    BY KeyIsSeen
<1>2. PICK d, visit : d = ViewOf[ks] /\ visit = ReplayOf(k).visits[v]
    OBVIOUS
<1>3. SeenIn(d, k, s, visit, v, i)
    BY <1>1, <1>2, KeySays
<1>4. d.leg = k /\ d.seq = s
    BY <1>3 DEF SeenIn
<1>5. ks = <<k, s>>
    BY <1>1 DEF KeySeen
<1> QED
    BY <1>2, <1>4, <1>5

(* The first few darts of each leg are seen as such.                       *)
LEMMA FirstAreSeen ==
    ASSUME RowsInv, NEW p
    PROVE  /\ FirstOf(ThrownBy(Replays, p)) \in SUBSET Keys
           /\ IsFiniteSet(FirstOf(ThrownBy(Replays, p)))
           /\ OneToOne(ViewOf, FirstOf(ThrownBy(Replays, p)), FirstNine(OwnDarts(AllDarts, p)))
<1>1. PICK P, own, f : P = ThrownBy(Replays, p) /\ own = OwnDarts(AllDarts, p) /\ f = ViewOf
    OBVIOUS
<1>2. P \subseteq Keys /\ IsFiniteSet(P) /\ OneToOne(f, P, own)
    BY <1>1, ThrownAre
<1>3. \A ks \in P : f[ks].leg = ks[1] /\ f[ks].seq = ks[2]
    BY <1>1, <1>2, SeenWhere
<1> DEFINE Thus(ks) == {js \in P : js[1] = ks[1] /\ js[2] <= ks[2]}
           Seen(d) == {e \in own : e.leg = d.leg /\ e.seq <= d.seq}
<1>4. ASSUME NEW ks \in P
      PROVE  Cardinality(Seen(f[ks])) = Cardinality(Thus(ks))
    <2>1. PICK d : d = f[ks]
        OBVIOUS
    <2>2. d.leg = ks[1] /\ d.seq = ks[2]
        BY <1>3, <2>1
    <2>3. \A e \in own : \E js \in P : e = f[js]
        BY <1>2 DEF OneToOne
    <2>4. \A js \in P : f[js] \in own
        BY <1>2 DEF OneToOne
    <2>5. \A js \in P : f[js] \in Seen(d) <=> js \in Thus(ks)
        BY <1>3, <2>2, <2>4
    <2>6. \A e : e \in Seen(d) <=> \E js \in Thus(ks) : e = f[js]
        BY <2>3, <2>5
    <2>7. Thus(ks) \in SUBSET P
        OBVIOUS
    <2> HIDE DEF Thus, Seen
    <2>8. OneToOne(f, Thus(ks), Seen(d))
        BY <1>2, <2>6, <2>7, PartOneToOne
    <2>9. IsFiniteSet(Thus(ks))
        BY <1>2, <2>7, FS_Subset
    <2> QED
        BY <2>1, <2>8, <2>9, ImageCount
<1>5. PICK early, nine : early = FirstOf(P) /\ nine = FirstNine(own)
    OBVIOUS
<1>6. early = {ks \in P : Cardinality(Thus(ks)) <= FirstDarts}
    BY <1>5 DEF FirstOf
<1>7. nine = {d \in own : Cardinality(Seen(d)) <= FirstDarts}
    BY <1>5 DEF FirstNine
<1> HIDE DEF Thus, Seen
<1>8. early \in SUBSET P
    BY <1>6
<1>9. \A d : d \in nine <=> \E ks \in early : d = f[ks]
    <2>1. \A d : d \in own <=> \E ks \in P : d = f[ks]
        BY <1>2 DEF OneToOne
    <2> QED
        BY <1>4, <1>6, <1>7, <2>1
<1>10. OneToOne(f, early, nine)
    BY <1>2, <1>8, <1>9, PartOneToOne
<1>11. IsFiniteSet(early)
    BY <1>2, <1>8, FS_Subset
<1> QED
    BY <1>1, <1>2, <1>5, <1>8, <1>10, <1>11

(* So what the first few scored is what they were worth.                   *)
LEMMA FirstAreWorth ==
    ASSUME RowsInv, IsX01, NEW p,
           NEW nine, nine = FirstNine(OwnDarts(AllDarts, p)),
           NEW early, early = FirstOf(ThrownBy(Replays, p))
    PROVE  /\ PointsOf(nine) = SumFunction([ks \in early |-> WorthAt(Replays, ks)])
           /\ Cardinality(nine) = Cardinality(early)
<1>1. early \in SUBSET Keys /\ IsFiniteSet(early) /\ OneToOne(ViewOf, early, nine)
    BY FirstAreSeen
<1>2. PICK w : w = [d \in nine |-> Scored(d)]
    OBVIOUS
<1>3. PICK v : v = [ks \in early |-> WorthAt(Replays, ks)]
    OBVIOUS
<1>4. ASSUME NEW ks \in early
      PROVE  v[ks] = w[ViewOf[ks]] /\ v[ks] \in Int
    <2>1. PICK k, s, u, i : KeySeen(ks, k, s, u, i)
        BY <1>1, KeyIsSeen
    <2>2. Scored(ViewOf[ks]) = WorthAt(Replays, ks) /\ Scored(ViewOf[ks]) \in Int
        BY <2>1, KeyScores
    <2>3. ViewOf[ks] \in nine
        BY <1>1 DEF OneToOne
    <2> QED
        BY <1>2, <1>3, <2>2, <2>3
<1>5. DOMAIN w = nine /\ DOMAIN v = early
    BY <1>2, <1>3
<1>6. SumFunction(w) = Total(v, early)
    BY <1>1, <1>4, <1>5, SumSeen
<1>7. SumFunction(v) = Total(v, early)
    BY <1>1, <1>5, SumIs
<1>8. Cardinality(nine) = Cardinality(early)
    BY <1>1, ImageCount
<1> QED
    BY <1>2, <1>3, <1>6, <1>7, <1>8 DEF PointsOf
-----------------------------------------------------------------------------
(* A player's dart is told by its visit and its place in it.               *)
LEMMA IndexTells ==
    ASSUME RowsInv, NEW p, NEW d \in OwnDarts(AllDarts, p), NEW e \in OwnDarts(AllDarts, p),
           d.visit = e.visit, d.index = e.index
    PROVE  d = e
<1>1. PICK ks, k, s, v, i : OwnSeen(d, p, ks, k, s, v, i)
    BY OwnDartSeen
<1>2. PICK js, l, r, w, j : OwnSeen(e, p, js, l, r, w, j)
    BY OwnDartSeen
<1>3. d.visit = <<k, v>> /\ d.index = i
    BY <1>1 DEF OwnSeen, SeenIn
<1>4. e.visit = <<l, w>> /\ e.index = j
    BY <1>2 DEF OwnSeen, SeenIn
<1>5. k = l /\ v = w /\ i = j
    <2>1. <<k, v>> = <<l, w>>
        BY <1>3, <1>4, Zenon
    <2>2. i = j
        BY <1>3, <1>4, Zenon
    <2> QED
        BY <2>1, <2>2
<1>6. s = r
    BY <1>1, <1>2, <1>5 DEF OwnSeen, KeySeen, DartSeen, Lies
<1>7. ks = js
    BY <1>1, <1>2, <1>5, <1>6 DEF OwnSeen, KeySeen
<1> QED
    BY <1>1, <1>2, <1>7 DEF OwnSeen

(* Its place is a number.                                                  *)
LEMMA IndexIs ==
    ASSUME RowsInv, NEW p, NEW d \in OwnDarts(AllDarts, p)
    PROVE  d.index \in Nat
<1>1. PICK ks, k, s, v, i : OwnSeen(d, p, ks, k, s, v, i)
    BY OwnDartSeen
<1>2. d.index = i
    BY <1>1 DEF OwnSeen, SeenIn
<1>3. i \in 1..Len(ReplayOf(k).visits[v].darts)
    BY <1>1, KeySays DEF OwnSeen
<1>4. i \in Nat
    BY <1>3
<1> QED
    BY <1>2, <1>4

(* The legs a player won themselves.                                       *)
LEMMA WonAre ==
    ASSUME RowsInv, NEW p
    PROVE  \A k : k \in WonBySelf(Replays, p) <=>
               /\ k \in 1..Len(legs) /\ ReplayOf(k).winner # NoTeam
               /\ <<k, Len(ReplayOf(k).visits)>> \in VisitsBy(Replays, p)
BY ReplaysAre DEF WonBySelf

(* A visit of x01 leaves nothing and is its winner's when it is the last   *)
(* of a leg that is won.                                                   *)
LEMMA LastVisitWins ==
    ASSUME RowsInv, IsX01, NEW k \in 1..Len(legs), NEW v \in 1..Len(ReplayOf(k).visits),
           NEW visit, visit = ReplayOf(k).visits[v]
    PROVE  (visit.after = 0 /\ ReplayOf(k).winner = visit.team)
               <=> (ReplayOf(k).winner # NoTeam /\ v = Len(ReplayOf(k).visits))
<1>1. PICK leg : leg = ReplayOf(k)
    OBVIOUS
<1>2. OverRight(leg, NTeams)
    BY <1>1, X01IsSound DEF EndsRight
<1>3. visit.team # NoTeam
    <2>1. Manned(leg.visits, Members, NTeams)
        BY <1>1, LegIsSeen DEF LegSeen
    <2>2. visit.team \in 0..NTeams - 1
        BY <1>1, <2>1 DEF Manned
    <2> QED
        BY <2>2, MatchAssumption DEF NoTeam
<1>4. ASSUME leg.winner # NoTeam
      PROVE  (visit.after = 0 /\ leg.winner = visit.team) <=> v = Len(leg.visits)
    <2>1. PICK n \in Nat : /\ Len(leg.visits) = n + 1
                           /\ leg.visits[n + 1].after = 0 /\ leg.visits[n + 1].team = leg.winner
                           /\ \A u \in 1..n : leg.visits[u].after # 0
        BY <1>2, <1>4 DEF OverRight
    <2>2. v \in 1..n + 1
        BY <1>1, <2>1
    <2>3. v \in 1..n \/ v = n + 1
        BY <2>2
    <2>4. CASE v \in 1..n
        <3>1. visit.after # 0
            BY <1>1, <2>1, <2>4
        <3>2. v # n + 1
            BY <2>4
        <3> QED
            BY <2>1, <3>1, <3>2
    <2>5. CASE v = n + 1
        BY <1>1, <2>1, <2>5
    <2> QED
        BY <2>3, <2>4, <2>5
<1> QED
    BY <1>1, <1>3, <1>4

(* A dart is of a visit that checked out when it is of the last visit of a *)
(* leg its player won.                                                     *)
LEMMA CheckedOutIs ==
    ASSUME RowsInv, IsX01, NEW p, NEW d \in OwnDarts(AllDarts, p)
    PROVE  /\ CheckedOut(d) <=> /\ d.leg \in WonBySelf(Replays, p)
                                /\ d.visit = <<d.leg, Len(ReplayOf(d.leg).visits)>>
           /\ CheckedOut(d) => d.before = LeftAt(Replays, d.leg)
<1>1. PICK ks, k, s, v, i : OwnSeen(d, p, ks, k, s, v, i)
    BY OwnDartSeen
<1>2. PICK visit, leg : visit = ReplayOf(k).visits[v] /\ leg = ReplayOf(k)
    OBVIOUS
<1>3. SeenIn(d, k, s, visit, v, i) /\ <<k, v>> \in VisitsBy(Replays, p)
    BY <1>1, <1>2 DEF OwnSeen
<1>4. /\ d.leg = k /\ d.visit = <<k, v>> /\ d.team = visit.team
      /\ d.before = visit.before /\ d.after = visit.after /\ d.winner = leg.winner
    BY <1>2, <1>3 DEF SeenIn
<1>5. k \in 1..Len(legs) /\ v \in 1..Len(leg.visits)
    BY <1>1, <1>2 DEF OwnSeen, PlacedAt
<1>6. CheckedOut(d) <=> leg.winner # NoTeam /\ v = Len(leg.visits)
    BY <1>2, <1>4, <1>5, LastVisitWins DEF CheckedOut
<1>7. CheckedOut(d) => d.before = LeftAt(Replays, k)
    <2>1. Replays[k] = leg
        BY <1>2, <1>5, ReplaysAre
    <2>2. v = Len(leg.visits) => LeftAt(Replays, k) = visit.before
        BY <1>2, <2>1 DEF LeftAt, LastOf
    <2> QED
        BY <1>4, <1>6, <2>2
<1>8. d.visit = <<k, Len(leg.visits)>> <=> v = Len(leg.visits)
    BY <1>4
<1>9. v = Len(leg.visits) /\ leg.winner # NoTeam => k \in WonBySelf(Replays, p)
    BY <1>2, <1>3, <1>5, WonAre
<1>10. k \in WonBySelf(Replays, p) => leg.winner # NoTeam
    BY <1>2, WonAre
<1> QED
    BY <1>2, <1>4, <1>6, <1>7, <1>8, <1>9, <1>10

(* Of a leg a player won the last dart is seen.                            *)
LEMMA WonIsSeen ==
    ASSUME RowsInv, IsX01, NEW p, NEW own, own = OwnDarts(AllDarts, p),
           NEW k \in WonBySelf(Replays, p)
    PROVE  \E d \in Winning(own) : d.leg = k
<1>1. PICK leg, v : leg = ReplayOf(k) /\ v = Len(leg.visits)
    OBVIOUS
<1>2. k \in 1..Len(legs) /\ <<k, v>> \in VisitsBy(Replays, p)
    BY <1>1, WonAre
<1>3. PlacedAt(<<k, v>>, k, v) /\ Thrower(VisitAt(<<k, v>>)) = p
    <2>1. PICK l, w : PlacedAt(<<k, v>>, l, w)
        BY <1>2, MineAre
    <2>2. l = k /\ w = v
        BY <2>1 DEF PlacedAt
    <2> QED
        BY <1>2, <2>1, <2>2, MineAre
<1>4. PICK Q : Q = InVisit(own, <<k, v>>)
    OBVIOUS
<1>5. PICK g : SeenDarts(g, k, v, Q)
    BY <1>3, <1>4, VisitDartsAre
<1>6. PICK n \in 1..3 : n = Len(leg.visits[v].darts)
    BY <1>1, <1>3, LegIsSeen DEF LegSeen, Covers, Shaped, PlacedAt, DartsPerVisit
<1>7. OneToOne(g, 1..n, Q)
    BY <1>1, <1>5, <1>6 DEF SeenDarts
<1>8. \A i \in 1..n : g[i] \in Q /\ g[i].index = i /\ g[i].leg = k
    <2> SUFFICES ASSUME NEW i \in 1..n
                 PROVE  g[i] \in Q /\ g[i].index = i /\ g[i].leg = k
        OBVIOUS
    <2>1. PICK ks, s : ks \in Keys /\ KeySeen(ks, k, s, v, i) /\ g[i] = ViewOf[ks]
        BY <1>1, <1>5, <1>6 DEF SeenDarts
    <2>2. PICK d, visit : d = g[i] /\ visit = leg.visits[v]
        OBVIOUS
    <2>3. SeenIn(d, k, s, visit, v, i)
        BY <1>1, <2>1, <2>2, KeySays
    <2>4. d.index = i /\ d.leg = k
        BY <2>3 DEF SeenIn
    <2> QED
        BY <1>7, <2>2, <2>4 DEF OneToOne
<1>9. PICK d : d = g[n]
    OBVIOUS
<1>10. n \in 1..n
    OBVIOUS
<1>11. d \in Q /\ d.index = n /\ d.leg = k
    BY <1>8, <1>9, <1>10
<1>12. d \in own /\ d.visit = <<k, v>>
    BY <1>4, <1>11 DEF InVisit
<1>13. CheckedOut(d)
    BY <1>1, <1>11, <1>12, CheckedOutIs
<1>14. \A e \in InVisit(own, d.visit) : e.index <= d.index
    <2> SUFFICES ASSUME NEW e \in Q
                 PROVE  e.index <= n
        BY <1>4, <1>11, <1>12
    <2>1. PICK i \in 1..n : e = g[i]
        BY <1>7 DEF OneToOne
    <2>2. e.index = i
        BY <1>8, <2>1
    <2> QED
        BY <2>2
<1> QED
    BY <1>11, <1>12, <1>13, <1>14 DEF Winning

(* And no other.                                                           *)
LEMMA WonOnce ==
    ASSUME RowsInv, IsX01, NEW p, NEW own, own = OwnDarts(AllDarts, p),
           NEW d \in Winning(own), NEW e \in Winning(own), d.leg = e.leg
    PROVE  d = e
<1>1. /\ d \in own /\ CheckedOut(d) /\ \A c \in InVisit(own, d.visit) : c.index <= d.index
      /\ e \in own /\ CheckedOut(e) /\ \A c \in InVisit(own, e.visit) : c.index <= e.index
    BY DEF Winning
<1>2. d.visit = e.visit
    <2>1. d.visit = <<d.leg, Len(ReplayOf(d.leg).visits)>>
        BY <1>1, CheckedOutIs
    <2>2. e.visit = <<e.leg, Len(ReplayOf(e.leg).visits)>>
        BY <1>1, CheckedOutIs
    <2> QED
        BY <2>1, <2>2
<1>3. d \in InVisit(own, e.visit) /\ e \in InVisit(own, d.visit)
    BY <1>1, <1>2 DEF InVisit
<1>4. d.index <= e.index /\ e.index <= d.index
    BY <1>1, <1>3
<1>5. d.index \in Nat /\ e.index \in Nat
    BY <1>1, IndexIs
<1>6. d.index = e.index
    BY <1>4, <1>5
<1> QED
    BY <1>1, <1>2, <1>6, IndexTells

(* So the winning darts are one for each leg won.                          *)
LEMMA WinningAre ==
    ASSUME RowsInv, IsX01, NEW p, NEW own, own = OwnDarts(AllDarts, p),
           NEW won, won = WonBySelf(Replays, p)
    PROVE  /\ Cardinality(Winning(own)) = Cardinality(won)
           /\ {d.before : d \in Winning(own)} = {LeftAt(Replays, k) : k \in won}
<1>1. PICK W : W = Winning(own)
    OBVIOUS
<1>2. \A d \in W : /\ d \in own /\ CheckedOut(d)
                   /\ \A e \in InVisit(own, d.visit) : e.index <= d.index
    BY <1>1 DEF Winning
<1>3. \A d \in W : /\ d.leg \in won /\ d.before = LeftAt(Replays, d.leg)
                   /\ d.visit = <<d.leg, Len(ReplayOf(d.leg).visits)>>
    BY <1>2, CheckedOutIs
<1>4. \A k \in won : \E d \in W : d.leg = k
    BY <1>1, WonIsSeen
<1>5. PICK g : g = [d \in W |-> d.leg]
    OBVIOUS
<1>6. \A d \in W : g[d] = d.leg
    BY <1>5
<1>7. \A d, e \in W : d.leg = e.leg => d = e
    BY <1>1, WonOnce
<1>8. OneToOne(g, W, won)
    <2>1. \A k : k \in won <=> \E d \in W : k = g[d]
        BY <1>3, <1>4, <1>6
    <2>2. \A d, e \in W : g[d] = g[e] => d = e
        BY <1>6, <1>7
    <2> QED
        BY <2>1, <2>2 DEF OneToOne
<1>9. IsFiniteSet(W)
    <2>1. W \subseteq own
        BY <1>2
    <2> QED
        BY <2>1, OwnAreFinite, FS_Subset
<1>10. Cardinality(won) = Cardinality(W)
    BY <1>8, <1>9, ImageCount
<1>11. {d.before : d \in W} = {LeftAt(Replays, k) : k \in won}
    BY <1>3, <1>4
<1> QED
    BY <1>1, <1>10, <1>11
-----------------------------------------------------------------------------
(* The darts of a leg but the last.                                        *)
LEMMA AllButLast ==
    ASSUME NEW S, NEW longer \in Seq(S), NEW n \in Nat, Len(longer) = n + 1,
           NEW darts, darts = SubSeq(longer, 1, n)
    PROVE  darts \in Seq(S) /\ Len(darts) = n /\ Extends(longer, darts)
<1>1. IsSeq(longer)
    BY DEF IsSeq
<1>2. Len(darts) = n /\ \A i \in 1..n : darts[i] = longer[i]
    BY <1>1, FrontIs
<1>3. \A i \in 1..n : longer[i] \in S
    BY ElementOfSeq
<1>4. darts \in Seq(S)
    BY <1>3
<1> QED
    BY <1>2, <1>4 DEF Extends

(* The dart that won a leg of x01: it is the last of the leg.              *)
LEMMA WinningIsLast ==
    ASSUME RowsInv, IsX01, NEW p, NEW own, own = OwnDarts(AllDarts, p), NEW d \in Winning(own),
           NEW ks, NEW k, NEW s, NEW v, NEW i, OwnSeen(d, p, ks, k, s, v, i)
    PROVE  s = Len(ThrownIn(k)) /\ ReplayOf(k).winner = ReplayOf(k).visits[v].team
           /\ ReplayOf(k).winner # NoTeam /\ k \in WonBySelf(Replays, p)
<1>1. PICK leg, visit : leg = ReplayOf(k) /\ visit = leg.visits[v]
    OBVIOUS
<1>2. SeenIn(d, k, s, visit, v, i) /\ k \in 1..Len(legs) /\ v \in 1..Len(leg.visits)
    BY <1>1 DEF OwnSeen, PlacedAt
<1>3. /\ d.leg = k /\ d.visit = <<k, v>> /\ d.index = i /\ d.after = visit.after
      /\ d.winner = leg.winner /\ d.team = visit.team
    BY <1>1, <1>2 DEF SeenIn
<1>4. /\ d \in own /\ CheckedOut(d)
      /\ \A e \in InVisit(own, d.visit) : e.index <= d.index
    BY DEF Winning
<1>5. leg.winner # NoTeam /\ v = Len(leg.visits) /\ leg.winner = visit.team
    <2>1. visit.after = 0 /\ leg.winner = visit.team
        BY <1>3, <1>4 DEF CheckedOut
    <2>2. (visit.after = 0 /\ leg.winner = visit.team)
              <=> (leg.winner # NoTeam /\ v = Len(leg.visits))
        BY <1>1, <1>2, LastVisitWins
    <2> QED
        BY <2>1, <2>2
<1>6. k \in WonBySelf(Replays, p)
    BY <1>3, <1>4, CheckedOutIs
<1>7. PICK n \in 1..3 : n = Len(visit.darts)
    BY <1>1, <1>2, LegIsSeen DEF LegSeen, Covers, Shaped, DartsPerVisit
<1>8. i = n
    <2>1. i \in 1..n
        BY <1>1, <1>7, KeySays DEF OwnSeen
    <2>0. n \in 1..Len(ReplayOf(k).visits[v].darts) /\ v \in 1..Len(ReplayOf(k).visits)
        <3>1. n \in 1..n
            OBVIOUS
        <3> QED
            BY <1>1, <1>2, <1>7, <3>1, Zenon
    <2>2. PICK r : <<k, r>> \in Keys /\ KeySeen(<<k, r>>, k, r, v, n)
        BY <1>2, <2>0, PlaceIsSeen
    <2>3. Thrower(leg.visits[v]) = p
        BY <1>1 DEF OwnSeen, VisitAt
    <2>4. PICK e : e = ViewOf[<<k, r>>]
        OBVIOUS
    <2>5. e \in own
        BY <1>1, <2>2, <2>3, <2>4, SeenIsOwn
    <2>6. SeenIn(e, k, r, visit, v, n)
        BY <1>1, <2>2, <2>4, KeySays
    <2>7. e.visit = <<k, v>> /\ e.index = n
        BY <2>6 DEF SeenIn
    <2>8. e \in InVisit(own, d.visit)
        BY <1>3, <2>5, <2>7 DEF InVisit
    <2>9. n <= i
        BY <1>3, <1>4, <2>7, <2>8
    <2> QED
        BY <2>1, <2>9
<1>9. Lies(leg.visits, s, v, i)
    BY <1>1 DEF OwnSeen, KeySeen, DartSeen
<1>10. Covers(leg.visits, Len(ThrownIn(k)))
    BY <1>1, <1>2, LegIsSeen DEF LegSeen
<1>11. s = Len(ThrownIn(k))
    <2>1. s = i + Earlier(leg.visits, v)
        BY <1>9 DEF Lies
    <2>2. /\ Earlier(leg.visits, v) \in Nat
          /\ Earlier(leg.visits, v + 1) = Earlier(leg.visits, v) + Len(leg.visits[v].darts)
        <3>1. v \in 1..Len(leg.visits) + 1
            BY <1>2, <1>10, IsSeqLen DEF Covers, Shaped
        <3> QED
            BY <1>2, <1>10, <3>1, EarlierIs DEF Covers
    <2>3. Earlier(leg.visits, v + 1) = Len(ThrownIn(k))
        BY <1>5, <1>10 DEF Covers
    <2>4. PICK e \in Nat : e = Earlier(leg.visits, v)
        BY <2>2
    <2>5. Earlier(leg.visits, v + 1) = e + n
        BY <1>1, <1>7, <2>2, <2>4
    <2>6. s = n + e
        BY <1>8, <2>1, <2>4
    <2> QED
        BY <2>3, <2>5, <2>6
<1> QED
    BY <1>1, <1>5, <1>6, <1>11

(* It was an attempt, or it opened the leg it won.                         *)
LEMMA WinningIsTried ==
    ASSUME RowsInv, IsX01, NEW p, NEW own, own = OwnDarts(AllDarts, p), NEW d \in Winning(own)
    PROVE  d.flags.attempt \/ d.leg \in WonFromStart(Replays, p)
<1>1. PICK ks, k, s, v, i : OwnSeen(d, p, ks, k, s, v, i)
    BY OwnDartSeen DEF Winning
<1>2. PICK leg, visit : leg = ReplayOf(k) /\ visit = leg.visits[v]
    OBVIOUS
<1>3. /\ s = Len(ThrownIn(k)) /\ leg.winner = visit.team /\ leg.winner # NoTeam
      /\ k \in WonBySelf(Replays, p)
    BY <1>1, <1>2, WinningIsLast
<1>4. SeenIn(d, k, s, visit, v, i) /\ k \in 1..Len(legs) /\ s \in 1..Len(ThrownIn(k))
    BY <1>1, <1>2 DEF OwnSeen, PlacedAt, KeySeen
<1>5. PICK l, longer, t : l = legs[k] /\ longer = l.darts /\ t = longer[s]
    OBVIOUS
<1>6. /\ Legal(Dart) /\ longer \in Seq(Dart) /\ l.starter \in 0..NTeams - 1
      /\ Seats(Members, NTeams) /\ leg = LegReplay(Rules, Members, l.starter, longer)
    <2>1. l \in LegRow
        BY <1>4, <1>5, LegsAreClean
    <2> QED
        BY <1>2, <1>5, <2>1, LegIsPlayed DEF ReplayOf
<1>7. ThrownIn(k) = longer
    BY <1>5 DEF ThrownIn
<1>8. PICK n \in Nat : s = n + 1 /\ n = s - 1
    <2>1. Len(longer) \in Nat
        BY <1>6, LenProperties
    <2>2. s \in Nat \ {0}
        BY <1>4, <1>7, <2>1
    <2>3. s - 1 \in Nat /\ s = (s - 1) + 1
        BY <2>2
    <2> QED
        BY <2>3
<1>9. PICK darts : darts = SubSeq(longer, 1, n)
    OBVIOUS
<1>10. darts \in Seq(Dart) /\ Len(darts) = n /\ Extends(longer, darts)
    <2>1. Len(longer) = n + 1
        BY <1>3, <1>7, <1>8
    <2>2. longer \in Seq(Dart) /\ n \in Nat
        BY <1>6
    <2> QED
        BY <1>9, <2>1, <2>2, AllButLast, ZenonT(60)
<1>11. X01Rules(Rules) /\ Rules.start # 0 /\ Rules.in_rule \in X01Rule /\ Rules.out_rule \in X01Rule
       /\ (Rules.start <= TopScore \/ TopScore >= 60) /\ Rules.start \in Nat
    BY RowsAssumption, StatisticsAssumption DEF X01Rules, IsX01
<1>12. ~leg.refused
    BY <1>2, <1>4, LegIsSeen DEF LegSeen
<1>13. PICK before : before = LegReplay(Rules, Members, l.starter, darts)
    OBVIOUS
<1>14. PICK state : state = before.teams[leg.winner]
    OBVIOUS
<1>15. WinningDart(state, t, Rules)
    <2>1. WinningDart(before.teams[leg.winner], longer[Len(darts) + 1], Rules)
        BY <1>3, <1>6, <1>10, <1>11, <1>12, <1>13, X01WonByDart
    <2>2. longer[Len(darts) + 1] = t
        BY <1>5, <1>8, <1>10
    <2> QED
        BY <1>14, <2>1, <2>2
<1>16. d.flags = DartFlags(visit, i, state)
    <2>1. d.flags = DartFlags(visit, i, Prior(legs[k].starter, ThrownIn(k), s)[visit.team])
        BY <1>4 DEF SeenIn
    <2>2. Prior(legs[k].starter, ThrownIn(k), s) = before.teams
        BY <1>5, <1>7, <1>8, <1>9, <1>13 DEF Prior, LegAfter
    <2> QED
        BY <1>3, <1>14, <2>1, <2>2
<1>17. d.flags.attempt <=> state.open /\ WasCheckoutAttempt(state.remaining, Rules.out_rule)
    <2>1. d.flags.attempt = (IsX01 /\ state.open /\ WasCheckoutAttempt(state.remaining, Rules.out_rule))
        BY <1>16 DEF DartFlags
    <2> QED
        BY <2>1
<1>18. CASE state.open
    <2>1. IsLegalThrow(t)
        BY <1>4, <1>5, <1>6, <1>7, ElementOfSeq DEF Legal
    <2>2. PICK m \in 0..60 : m = Score(t)
        BY <2>1, ScoreIsBounded
    <2>3. m \in 1..Rules.start /\ Satisfies(Rules.out_rule, t) /\ state.remaining = m
        BY <1>15, <2>2 DEF WinningDart
    <2>4. m \in 1..TopScore
        BY <1>11, <2>2, <2>3, TopScoreAssumption
    <2>5. WasCheckoutAttempt(m, Rules.out_rule)
        BY <1>11, <2>1, <2>2, <2>3, <2>4, FinishIsAttempt
    <2> QED
        BY <1>17, <1>18, <2>3, <2>5
<1>19. CASE ~state.open
    <2>1. Rules.in_rule # "straight" /\ Score(t) = Rules.start
        BY <1>15, <1>19 DEF WinningDart
    <2>2. LastOf(legs[k].darts) = t
        BY <1>3, <1>5, <1>7 DEF LastOf
    <2>3. k \in WonFromStart(Replays, p)
        BY <1>3, <2>1, <2>2 DEF WonFromStart
    <2>4. d.leg = k
        BY <1>4 DEF SeenIn
    <2> QED
        BY <2>3, <2>4
<1> QED
    BY <1>18, <1>19
(* So there are no more checkouts than attempts and legs so opened.        *)
LEMMA AttemptsCover ==
    ASSUME RowsInv, IsX01, NEW p, NEW own, own = OwnDarts(AllDarts, p)
    PROVE  Cardinality(Winning(own)) <= Attempts(own) + Cardinality(WonFromStart(Replays, p))
<1>1. PICK W, F : W = Winning(own) /\ F = WonFromStart(Replays, p)
    OBVIOUS
<1>2. PICK A : A = {d \in own : d.flags.attempt}
    BY Zenon
<1>3. PICK B : B = {d \in W : d.leg \in F}
    OBVIOUS
<1>4. W \subseteq own
    BY <1>1 DEF Winning
<1>5. IsFiniteSet(own) /\ IsFiniteSet(W) /\ IsFiniteSet(A) /\ IsFiniteSet(B)
    <2>1. IsFiniteSet(own)
        BY OwnAreFinite
    <2>2. A \subseteq own /\ B \subseteq own
        BY <1>2, <1>3, <1>4
    <2> QED
        BY <1>4, <2>1, <2>2, FS_Subset
<1>6. W \subseteq A \cup B
    <2> SUFFICES ASSUME NEW d \in W
                 PROVE  d \in A \cup B
        OBVIOUS
    <2>1. d.flags.attempt \/ d.leg \in F
        BY <1>1, WinningIsTried
    <2>2. d \in own
        BY <1>4
    <2>3. CASE d.flags.attempt
        BY <1>2, <2>2, <2>3, Zenon
    <2>4. CASE d.leg \in F
        BY <1>3, <2>4
    <2> QED
        BY <2>1, <2>3, <2>4
<1>7. PICK g : g = [d \in B |-> d.leg]
    OBVIOUS
<1>8. OneToOne(g, B, F)
    <2>1. \A k \in F : \E d \in W : d.leg = k
        BY <1>1, WonIsSeen DEF WonFromStart
    <2>2. \A k : k \in F <=> \E d \in B : k = g[d]
        BY <1>3, <1>7, <2>1
    <2>3. \A d, e \in B : g[d] = g[e] => d = e
        <3>1. \A d, e \in W : d.leg = e.leg => d = e
            BY <1>1, WonOnce
        <3> QED
            BY <1>3, <1>7, <3>1
    <2> QED
        BY <2>2, <2>3 DEF OneToOne
<1>9. PICK a, b, w \in Nat : a = Cardinality(A) /\ b = Cardinality(B) /\ w = Cardinality(W)
    BY <1>5, FS_CardinalityType
<1>10. Cardinality(F) = b
    BY <1>5, <1>8, <1>9, ImageCount
<1>11. PICK c, u \in Nat : c = Cardinality(A \cap B) /\ u = Cardinality(A \cup B)
    <2>1. IsFiniteSet(A \cap B) /\ IsFiniteSet(A \cup B)
        BY <1>5, FS_Union, FS_Intersection
    <2> QED
        BY <2>1, FS_CardinalityType
<1>12. u = a + b - c
    BY <1>5, <1>9, <1>11, FS_Union
<1>13. w <= u
    <2>1. IsFiniteSet(A \cup B) /\ W \in SUBSET (A \cup B)
        BY <1>5, <1>6, FS_Union
    <2> QED
        BY <1>9, <1>11, <2>1, FS_Subset
<1>14. w <= a + b
    BY <1>12, <1>13
<1>15. Attempts(own) = a
    BY <1>2, <1>9 DEF Attempts
<1> QED
    BY <1>1, <1>9, <1>10, <1>14, <1>15

(* The leaderboard counts the same legs, by their visits.                  *)
LEMMA WonVisitsAre ==
    ASSUME RowsInv, IsX01, NEW p, NEW own, own = OwnDarts(AllDarts, p),
           NEW won, won = WonBySelf(Replays, p)
    PROVE  /\ Cardinality({v \in Visits(own) : \E d \in InVisit(own, v) : CheckedOut(d)})
                = Cardinality(won)
           /\ {d.before : d \in {e \in own : CheckedOut(e)}} = {LeftAt(Replays, k) : k \in won}
<1>1. PICK U : U = {v \in Visits(own) : \E d \in InVisit(own, v) : CheckedOut(d)}
    OBVIOUS
<1>2. PICK last : last = [k \in won |-> <<k, Len(ReplayOf(k).visits)>>]
    OBVIOUS
<1>3. \A d \in own : /\ CheckedOut(d) => d.leg \in won /\ d.visit = last[d.leg]
                     /\ CheckedOut(d) => d.before = LeftAt(Replays, d.leg)
    BY <1>2, CheckedOutIs
<1>4. \A k \in won : \E d \in own : CheckedOut(d) /\ d.leg = k
    BY WonIsSeen DEF Winning
<1>5. \A v : v \in U <=> \E k \in won : v = last[k]
    <2>1. ASSUME NEW v \in U
          PROVE  \E k \in won : v = last[k]
        <3>1. PICK d \in own : CheckedOut(d) /\ d.visit = v
            BY <1>1 DEF InVisit
        <3> QED
            BY <1>3, <3>1
    <2>2. ASSUME NEW k \in won
          PROVE  last[k] \in U
        <3>1. PICK d \in own : CheckedOut(d) /\ d.leg = k
            BY <1>4
        <3>2. d.visit = last[k]
            BY <1>3, <3>1
        <3>3. d \in InVisit(own, last[k]) /\ last[k] \in Visits(own)
            BY <3>2 DEF InVisit, Visits
        <3> QED
            BY <1>1, <3>1, <3>3
    <2> QED
        BY <2>1, <2>2
<1>6. OneToOne(last, won, U)
    <2>1. \A k, l \in won : last[k] = last[l] => k = l
        BY <1>2
    <2> QED
        BY <1>5, <2>1 DEF OneToOne
<1>7. IsFiniteSet(won)
    <2>1. Len(legs) \in Nat
        BY LegsAre
    <2>2. PICK n \in Nat : n = Len(legs)
        BY <2>1
    <2>3. IsFiniteSet(1..n)
        BY FS_Interval
    <2>4. \A k \in won : k \in 1..Len(legs)
        BY WonAre
    <2>5. won \in SUBSET (1..n)
        BY <2>2, <2>4
    <2> QED
        BY <2>3, <2>5, FS_Subset
<1>8. Cardinality(U) = Cardinality(won)
    BY <1>6, <1>7, ImageCount
<1>9. {d.before : d \in {e \in own : CheckedOut(e)}} = {LeftAt(Replays, k) : k \in won}
    BY <1>3, <1>4
<1> QED
    BY <1>1, <1>8, <1>9
(* What is reported of a player's x01 darts is what their darts did.       *)
LEMMA X01Follows ==
    ASSUME RowsInv, IsX01, NEW p, NEW report, report = PlayerReport(AllDarts, p)
    PROVE  X01FollowsPlay(Replays, report, p)
<1>1. PICK own : own = OwnDarts(AllDarts, p)
    OBVIOUS
<1>2. report.x01 = X01Totals(own) /\ report.checkout = CheckoutTotals(own)
    BY <1>1 DEF PlayerReport
<1>3. PICK mine, early, won : /\ mine = VisitsBy(Replays, p) /\ won = WonBySelf(Replays, p)
                              /\ early = FirstOf(ThrownBy(Replays, p))
    OBVIOUS
<1>4. report.x01.visits = Cardinality(mine)
    <2>1. Visits(own) = mine
        BY <1>1, <1>3, VisitsAreMine
    <2> QED
        BY <1>2, <2>1 DEF X01Totals
<1>5. report.x01.points = SumFunction([kv \in mine |-> TakenOff(Replays, kv)])
    <2>1. PointsOf(own) = SumFunction([kv \in mine |-> TakenOff(Replays, kv)])
        BY <1>1, <1>3, PointsAreTaken
    <2> QED
        BY <1>2, <2>1 DEF X01Totals
<1>6. report.x01.first_nine =
         Mean(SumFunction([ks \in early |-> WorthAt(Replays, ks)]), Cardinality(early))
    <2>1. PICK nine : nine = FirstNine(own)
        OBVIOUS
    <2>2. /\ PointsOf(nine) = SumFunction([ks \in early |-> WorthAt(Replays, ks)])
          /\ Cardinality(nine) = Cardinality(early)
        BY <1>1, <1>3, <2>1, FirstAreWorth
    <2>3. report.x01.first_nine = Mean(PointsOf(nine), Cardinality(nine))
        BY <1>2, <2>1 DEF X01Totals
    <2> QED
        BY <2>2, <2>3
<1>7. report.x01.highest = Highest({TakenOff(Replays, kv) : kv \in mine})
    <2>1. {PointsOf(InVisit(own, v)) : v \in Visits(own)} = {TakenOff(Replays, kv) : kv \in mine}
        <3>1. \A kv \in mine : PointsOf(InVisit(own, kv)) = TakenOff(Replays, kv)
            BY <1>1, <1>3, MineAre, VisitTakesOff
        <3>2. Visits(own) = mine
            BY <1>1, <1>3, VisitsAreMine
        <3> QED
            BY <3>1, <3>2
    <2>2. report.x01.highest = Highest({PointsOf(InVisit(own, v)) : v \in Visits(own)})
        BY <1>2 DEF X01Totals
    <2> QED
        BY <2>1, <2>2
<1>8. /\ report.checkout.hits = Cardinality(Winning(own))
      /\ report.checkout.best = Highest({d.before : d \in Winning(own)})
      /\ report.checkout.attempts = Attempts(own)
    BY <1>2 DEF CheckoutTotals
<1>9. /\ Cardinality(Winning(own)) = Cardinality(won)
      /\ {d.before : d \in Winning(own)} = {LeftAt(Replays, k) : k \in won}
    BY <1>1, <1>3, WinningAre
<1>10. report.checkout.hits = Cardinality(won)
    BY <1>8, <1>9
<1>11. report.checkout.best = Highest({LeftAt(Replays, k) : k \in won})
    BY <1>8, <1>9
<1>12. report.checkout.hits <=
         report.checkout.attempts + Cardinality(WonFromStart(Replays, p))
    BY <1>1, <1>8, AttemptsCover
<1> QED
    BY <1>3, <1>4, <1>5, <1>6, <1>7, <1>10, <1>11, <1>12 DEF X01FollowsPlay

(* And the leaderboard says the same.                                      *)
LEMMA RankedFollows ==
    ASSUME RowsInv, IsX01, NEW p, NEW own, own = OwnDarts(AllDarts, p)
    PROVE  RankedAsReported(LeaderboardLine(own), PlayerReport(AllDarts, p))
<1>1. PICK line, report : line = LeaderboardLine(own) /\ report = PlayerReport(AllDarts, p)
    OBVIOUS
<1>2. report.x01 = X01Totals(own) /\ report.checkout = CheckoutTotals(own)
    BY <1>1 DEF PlayerReport
<1>3. /\ report.x01.darts = Cardinality(own)
      /\ report.x01.average = Mean(PointsOf(own), Cardinality(own))
      /\ report.x01.highest = Highest({PointsOf(InVisit(own, v)) : v \in Visits(own)})
    BY <1>2 DEF X01Totals
<1>4. /\ report.checkout.attempts = Attempts(own)
      /\ report.checkout.hits = Cardinality(Winning(own))
      /\ report.checkout.best = Highest({d.before : d \in Winning(own)})
    BY <1>2 DEF CheckoutTotals
<1>5. /\ line.darts = Cardinality(own)
      /\ line.average = Mean(PointsOf(own), Cardinality(own))
      /\ line.highest = Highest({PointsOf(InVisit(own, v)) : v \in Visits(own)})
      /\ line.attempts = Attempts(own)
    BY <1>1 DEF LeaderboardLine
<1>6. line.hits = Cardinality({v \in Visits(own) : \E d \in InVisit(own, v) : CheckedOut(d)})
    BY <1>1 DEF LeaderboardLine
<1>7. line.best = Highest({d.before : d \in {e \in own : CheckedOut(e)}})
    BY <1>1 DEF LeaderboardLine
<1>8. PICK won : won = WonBySelf(Replays, p)
    OBVIOUS
<1>9. /\ Cardinality(Winning(own)) = Cardinality(won)
      /\ {d.before : d \in Winning(own)} = {LeftAt(Replays, k) : k \in won}
    BY <1>8, WinningAre
<1>10. /\ Cardinality({v \in Visits(own) : \E d \in InVisit(own, v) : CheckedOut(d)})
            = Cardinality(won)
       /\ {d.before : d \in {e \in own : CheckedOut(e)}} = {LeftAt(Replays, k) : k \in won}
    BY <1>8, WonVisitsAre
<1>11. line.hits = report.checkout.hits
    BY <1>4, <1>6, <1>9, <1>10
<1>12. line.best = report.checkout.best
    BY <1>4, <1>7, <1>9, <1>10
<1> QED
    BY <1>1, <1>3, <1>4, <1>5, <1>11, <1>12 DEF RankedAsReported
-----------------------------------------------------------------------------
(* A sum of one number is that number.                                     *)
LEMMA SumOfOne ==
    ASSUME NEW x, NEW w, DOMAIN w = {x}, w[x] \in Int
    PROVE  SumFunction(w) = w[x]
<1>1. PICK S : S = {x}
    OBVIOUS
<1>2. IsFiniteSet(S)
    BY <1>1, FS_Singleton
<1>3. SumFunction(w) = Total(w, S)
    BY <1>1, <1>2, SumIs
<1>4. Total(w, {}) = 0 /\ Total(w, S) = w[x] + Total(w, S \ {x})
    <2>1. \A y \in S : w[y] \in Int
        BY <1>1
    <2>2. x \in S
        BY <1>1
    <2> QED
        BY <1>2, <2>1, <2>2, TotalOf
<1>5. S \ {x} = {}
    BY <1>1
<1>6. Total(w, S \ {x}) = 0
    BY <1>4, <1>5
<1>7. PICK n \in Int : n = w[x]
    OBVIOUS
<1>8. SumFunction(w) = n + 0
    BY <1>3, <1>4, <1>6, <1>7
<1> QED
    BY <1>7, <1>8

ThrowAt(ks) == legs[ks[1]].darts[ks[2]]

(* A dart of cricket made the marks it multiplies on the target it hit.    *)
LEMMA KeyMarks ==
    ASSUME RowsInv, ~IsX01, NEW ks \in Keys
    PROVE  /\ MarksOf(ViewOf[ks])
                = IF ThrowAt(ks).segment \in Targets THEN ThrowAt(ks).multiplier ELSE 0
           /\ MarksOf(ViewOf[ks]) \in Int
           /\ \A g \in Targets :
                (\E e \in ViewOf[ks].effects : e.target = g) <=> ThrowAt(ks).segment = g
<1>1. PICK k, s, v, i : KeySeen(ks, k, s, v, i)
    BY KeyIsSeen
<1>2. PICK d, visit, dart, t : /\ d = ViewOf[ks] /\ visit = ReplayOf(k).visits[v]
                               /\ dart = visit.darts[i] /\ t = ThrowAt(ks)
    OBVIOUS
<1>3. t = ThrownIn(k)[s]
    BY <1>1, <1>2 DEF KeySeen, ThrowAt, ThrownIn
<1>4. CricketSays(dart, t)
    BY <1>1, <1>2, <1>3 DEF KeySeen, DartSeen, Says, IsX01
<1>5. SeenIn(d, k, s, visit, v, i)
    BY <1>1, <1>2, KeySays
<1>6. PICK e : e = [target |-> dart.target, marks |-> dart.marks,
                    surplus |-> dart.surplus, wasted |-> dart.wasted]
    OBVIOUS
<1>7. d.effects = {e}
    <2>1. CricketRows(visit, i).effects = {e}
        BY <1>2, <1>6 DEF CricketRows
    <2> QED
        BY <1>5, <2>1 DEF SeenIn
<1>8. e.target = dart.target /\ e.marks = dart.marks /\ e.surplus = dart.surplus
    BY <1>6
<1>9. e.marks + e.surplus = IF t.segment \in Targets THEN t.multiplier ELSE 0
    <2>1. CASE t.segment \in Targets
        BY <1>4, <1>8, <2>1 DEF CricketSays
    <2>2. CASE t.segment \notin Targets
        BY <1>4, <1>8, <2>2 DEF CricketSays
    <2> QED
        BY <2>1, <2>2
<1>10. e.marks + e.surplus \in Int
    <2>1. e.marks \in Nat /\ e.surplus \in Nat
        BY <1>4, <1>8 DEF CricketSays
    <2> QED
        BY <2>1
<1>11. PICK w : w = [c \in d.effects |-> c.marks + c.surplus]
    OBVIOUS
<1>12. DOMAIN w = {e} /\ w[e] = e.marks + e.surplus
    BY <1>7, <1>11
<1>13. MarksOf(d) = e.marks + e.surplus
    <2>1. SumFunction(w) = w[e]
        BY <1>10, <1>12, SumOfOne
    <2> QED
        BY <1>11, <1>12, <2>1 DEF MarksOf
<1>14. ASSUME NEW g \in Targets
       PROVE  (\E c \in d.effects : c.target = g) <=> t.segment = g
    <2>1. (\E c \in d.effects : c.target = g) <=> dart.target = g
        BY <1>7, <1>8
    <2>2. CASE t.segment \in Targets
        BY <1>4, <2>1, <2>2 DEF CricketSays
    <2>3. CASE t.segment \notin Targets
        <3>1. g # NoTarget
            BY TargetsAssumption DEF Bull, NoTarget
        <3>2. dart.target = NoTarget
            BY <1>4, <2>3 DEF CricketSays
        <3> QED
            BY <2>1, <2>3, <3>1, <3>2
    <2> QED
        BY <2>2, <2>3
<1> QED
    BY <1>2, <1>9, <1>10, <1>13, <1>14
(* The darts on some targets, as they are seen and as they were thrown.    *)
LEMMA LandedAre ==
    ASSUME RowsInv, ~IsX01, NEW p, NEW own, own = OwnDarts(AllDarts, p),
           NEW aimed \in SUBSET Targets, NEW P, P = Landed(Replays, p, aimed),
           NEW Q, \A d : d \in Q <=> d \in own /\ \E g \in aimed : d \in OnTarget(own, g)
    PROVE  /\ Cardinality(Q) = Cardinality(P)
           /\ MarksOn(Q) = Multiplied(P)
<1>1. PICK T : T = ThrownBy(Replays, p)
    OBVIOUS
<1>2. T \subseteq Keys /\ IsFiniteSet(T) /\ OneToOne(ViewOf, T, own)
    BY <1>1, ThrownAre
<1>3. \A ks : ks \in P <=> ks \in T /\ ThrowAt(ks).segment \in aimed
    BY <1>1 DEF Landed, ThrowAt
<1>4. P \in SUBSET T
    BY <1>3
<1>5. IsFiniteSet(P)
    BY <1>2, <1>4, FS_Subset
<1>6. \A ks \in T : ViewOf[ks] \in Q <=> ks \in P
    <2> SUFFICES ASSUME NEW ks \in T
                 PROVE  ViewOf[ks] \in Q <=> ks \in P
        OBVIOUS
    <2>1. \A g \in aimed : (\E e \in ViewOf[ks].effects : e.target = g) <=> ThrowAt(ks).segment = g
        BY <1>2, KeyMarks
    <2>2. ViewOf[ks] \in own
        BY <1>2 DEF OneToOne
    <2>3. \A g \in aimed : ViewOf[ks] \in OnTarget(own, g) <=> ThrowAt(ks).segment = g
        BY <2>1, <2>2 DEF OnTarget
    <2> QED
        BY <1>3, <2>2, <2>3
<1>7. \A d : d \in Q <=> \E ks \in P : d = ViewOf[ks]
    <2>1. \A d \in Q : \E ks \in T : d = ViewOf[ks]
        BY <1>2 DEF OneToOne
    <2> QED
        BY <1>4, <1>6, <2>1
<1>8. OneToOne(ViewOf, P, Q)
    BY <1>2, <1>4, <1>7, PartOneToOne
<1>9. PICK w : w = [d \in Q |-> MarksOf(d)]
    OBVIOUS
<1>10. PICK v : v = [ks \in P |-> legs[ks[1]].darts[ks[2]].multiplier]
    OBVIOUS
<1>11. ASSUME NEW ks \in P
       PROVE  v[ks] = w[ViewOf[ks]] /\ v[ks] \in Int
    <2>1. ks \in Keys /\ ThrowAt(ks).segment \in Targets
        BY <1>2, <1>3, <1>4
    <2>2. MarksOf(ViewOf[ks]) = ThrowAt(ks).multiplier /\ MarksOf(ViewOf[ks]) \in Int
        BY <2>1, KeyMarks
    <2>3. v[ks] = ThrowAt(ks).multiplier
        BY <1>10 DEF ThrowAt
    <2>4. ViewOf[ks] \in Q
        BY <1>7
    <2> QED
        BY <1>9, <2>2, <2>3, <2>4
<1>12. DOMAIN w = Q /\ DOMAIN v = P
    BY <1>9, <1>10
<1>13. SumFunction(w) = Total(v, P)
    BY <1>5, <1>8, <1>11, <1>12, SumSeen
<1>14. SumFunction(v) = Total(v, P)
    BY <1>5, <1>12, SumIs
<1>15. Cardinality(Q) = Cardinality(P)
    BY <1>5, <1>8, ImageCount
<1>16. MarksOn(Q) = SumFunction(w)
    BY <1>9 DEF MarksOn
<1>17. Multiplied(P) = SumFunction(v)
    BY <1>10 DEF Multiplied
<1> QED
    BY <1>13, <1>14, <1>15, <1>16, <1>17

(* A player's marks are those of their darts on the targets.               *)
LEMMA MarksAreOnTarget ==
    ASSUME RowsInv, ~IsX01, NEW p, NEW own, own = OwnDarts(AllDarts, p),
           NEW Q, Q = UNION {OnTarget(own, g) : g \in Targets}
    PROVE  MarksOn(own) = MarksOn(Q)
<1>1. Q \in SUBSET own
    BY DEF OnTarget
<1>2. IsFiniteSet(own)
    BY OwnAreFinite
<1>3. IsFiniteSet(Q)
    BY <1>1, <1>2, FS_Subset
<1>4. PICK w : w = [d \in own |-> MarksOf(d)]
    OBVIOUS
<1>5. PICK v : v = [d \in Q |-> MarksOf(d)]
    OBVIOUS
<1>6. ASSUME NEW d \in own
      PROVE  w[d] \in Int /\ (d \notin Q => w[d] = 0)
    <2>1. PICK ks \in ThrownBy(Replays, p) : d = ViewOf[ks]
        BY ThrownAre DEF OneToOne
    <2>2. ks \in Keys
        BY ThrownAre
    <2>3. /\ MarksOf(d) = IF ThrowAt(ks).segment \in Targets THEN ThrowAt(ks).multiplier ELSE 0
          /\ MarksOf(d) \in Int
          /\ \A g \in Targets : (\E e \in d.effects : e.target = g) <=> ThrowAt(ks).segment = g
        BY <2>1, <2>2, KeyMarks
    <2>4. ASSUME ThrowAt(ks).segment \in Targets
          PROVE  d \in Q
        <3>1. d \in OnTarget(own, ThrowAt(ks).segment)
            BY <2>3, <2>4 DEF OnTarget
        <3> QED
            BY <2>4, <3>1
    <2> QED
        BY <1>4, <2>3, <2>4
<1>7. Total(w, own) = Total(w, Q)
    <2>1. \A d \in own : w[d] \in Int
        BY <1>6
    <2>2. \A d \in own \ Q : w[d] = 0
        BY <1>6
    <2> QED
        BY <1>1, <1>2, <2>1, <2>2, TotalWithout
<1>8. Total(w, Q) = Total(v, Q)
    <2>1. \A d \in Q : w[d] = v[d]
        BY <1>1, <1>4, <1>5
    <2> QED
        BY <1>3, <2>1, SameTotal
<1>9. MarksOn(own) = Total(w, own)
    BY <1>2, <1>4, SumIs DEF MarksOn
<1>10. MarksOn(Q) = Total(v, Q)
    BY <1>3, <1>5, SumIs DEF MarksOn
<1> QED
    BY <1>7, <1>8, <1>9, <1>10

(* What is reported of a player's cricket darts is what they landed on.    *)
LEMMA CricketFollows ==
    ASSUME RowsInv, ~IsX01, NEW p, NEW report, report = PlayerReport(AllDarts, p)
    PROVE  CricketFollowsPlay(Replays, report, p)
<1>1. PICK own : own = OwnDarts(AllDarts, p)
    OBVIOUS
<1>2. report.cricket = CricketTotals(own)
    BY <1>1 DEF PlayerReport
<1>3. PICK Q : Q = UNION {OnTarget(own, g) : g \in Targets}
    OBVIOUS
<1>4. PICK P : P = Landed(Replays, p, Targets)
    OBVIOUS
<1>5. Cardinality(Q) = Cardinality(P) /\ MarksOn(Q) = Multiplied(P)
    <2>1. \A d : d \in Q <=> d \in own /\ \E g \in Targets : d \in OnTarget(own, g)
        BY <1>3 DEF OnTarget
    <2>2. Targets \in SUBSET Targets
        OBVIOUS
    <2> QED
        BY <1>1, <1>4, <2>1, <2>2, LandedAre
<1>6. report.cricket.marks = Multiplied(P)
    <2>1. report.cricket.marks = MarksOn(own)
        BY <1>2 DEF CricketTotals
    <2>2. MarksOn(own) = MarksOn(Q)
        BY <1>1, <1>3, MarksAreOnTarget
    <2> QED
        BY <1>5, <2>1, <2>2
<1>7. report.cricket.on_target = Cardinality(P)
    <2>1. report.cricket.on_target = Cardinality(Q)
        BY <1>2, <1>3 DEF CricketTotals
    <2> QED
        BY <1>5, <2>1
<1>8. ASSUME NEW g \in Targets
      PROVE  /\ report.cricket.targets[g].hits = Cardinality(Landed(Replays, p, {g}))
             /\ report.cricket.targets[g].marks = Multiplied(Landed(Replays, p, {g}))
    <2>1. PICK L : L = Landed(Replays, p, {g})
        OBVIOUS
    <2>2. PICK H : H = OnTarget(own, g)
        OBVIOUS
    <2>3. /\ report.cricket.targets[g].hits = Cardinality(H)
          /\ report.cricket.targets[g].marks = MarksOn(H)
        BY <1>2, <2>2 DEF CricketTotals
    <2>4. \A d : d \in H <=> d \in own /\ \E h \in {g} : d \in OnTarget(own, h)
        BY <2>2 DEF OnTarget
    <2>5. {g} \in SUBSET Targets
        OBVIOUS
    <2>6. Cardinality(H) = Cardinality(L) /\ MarksOn(H) = Multiplied(L)
        BY <1>1, <2>1, <2>4, <2>5, LandedAre
    <2> QED
        BY <2>1, <2>3, <2>6
<1> QED
    BY <1>4, <1>6, <1>7, <1>8 DEF CricketFollowsPlay
-----------------------------------------------------------------------------
(* A player's figures are what their darts did.                            *)
LEMMA PlayerFollows ==
    ASSUME RowsInv, NEW p, NEW report, report = PlayerReport(AllDarts, p)
    PROVE  PlayerFollowsPlay(Replays, report, p)
<1>1. report.thrown = Cardinality(ThrownBy(Replays, p))
    <2>1. report.thrown = Cardinality(OwnDarts(AllDarts, p))
        BY DEF PlayerReport
    <2> QED
        BY <2>1, OwnAreFinite
<1>2. report.results.legs_won = LegsWon(p[1])
    BY DEF PlayerReport, Results
<1>3. LegsWon(p[1]) = Cardinality({k \in DOMAIN legs : ~SingleSided /\ Replays[k].winner = p[1]})
    BY LegsWonAre
<1>4. CASE IsX01
    BY <1>1, <1>2, <1>3, <1>4, X01Follows DEF PlayerFollowsPlay
<1>5. CASE ~IsX01
    BY <1>1, <1>2, <1>3, <1>5, CricketFollows DEF PlayerFollowsPlay
<1> QED
    BY <1>4, <1>5

(* A player's lines are of the legs they threw in, and add up.             *)
LEMMA LinesFollow ==
    ASSUME RowsInv, NEW p \in Players, NEW match, match = MatchReport(AllDarts)
    PROVE  LinesFollowPlay(Replays, match, p)
<1>1. PICK lines : lines = {k \in DOMAIN legs : <<k, p>> \in DOMAIN match.legs}
    OBVIOUS
<1>2. DOMAIN match.legs = {<<d.leg, d.player>> : d \in AllDarts}
    BY DEF MatchReport
<1>3. lines = LinesOf(p)
    BY <1>1, <1>2 DEF LinesOf
<1>4. ASSUME NEW k \in lines
      PROVE  match.legs[<<k, p>>] = LegLine(AllDarts, k, p)
    <2>1. <<k, p>> \in {<<d.leg, d.player>> : d \in AllDarts}
        BY <1>1, <1>2
    <2> QED
        BY <2>1 DEF MatchReport
<1>5. ASSUME NEW k \in lines
      PROVE  /\ match.legs[<<k, p>>].darts = Cardinality(OwnIn(p, k))
             /\ match.legs[<<k, p>>].won <=> ~SingleSided /\ Replays[k].winner = p[1]
    <2>1. PICK line : line = LegLine(AllDarts, k, p)
        OBVIOUS
    <2>2. PICK own : own = OwnIn(p, k)
        OBVIOUS
    <2>3. own = {d \in OwnDarts(AllDarts, p) : d.leg = k}
        BY <2>2 DEF OwnIn
    <2>4. line.darts = Cardinality(own)
        BY <2>1, <2>3 DEF LegLine
    <2>5. line.won = (~SingleSided /\ \E d \in own : d.winner = d.team)
        BY <2>1, <2>3 DEF LegLine
    <2>6. (\E d \in own : d.winner = d.team) <=> Replays[k].winner = p[1]
        BY <1>3, <2>2, LinesAreWon
    <2> QED
        BY <1>4, <2>1, <2>2, <2>4, <2>5, <2>6
<1>6. PICK sums : sums = [k \in lines |-> match.legs[<<k, p>>].darts]
    OBVIOUS
<1>7. Cardinality(OwnDarts(AllDarts, p)) = SumFunction(sums)
    <2>1. DOMAIN sums = LinesOf(p)
        BY <1>3, <1>6
    <2>2. \A k \in LinesOf(p) : sums[k] = Cardinality(OwnIn(p, k))
        BY <1>3, <1>5, <1>6
    <2> QED
        BY <2>1, <2>2, LinesAddUp
<1>8. match.players[p].thrown = Cardinality(OwnDarts(AllDarts, p))
    BY DEF MatchReport, PlayerReport
<1>9. match.players[p].thrown = SumFunction([k \in lines |-> match.legs[<<k, p>>].darts])
    BY <1>6, <1>7, <1>8
<1>10. \A k \in lines : match.legs[<<k, p>>].won <=> ~SingleSided /\ Replays[k].winner = p[1]
    BY <1>5
<1> QED
    BY <1>1, <1>9, <1>10 DEF LinesFollowPlay

(* The reports are what the darts of the match did.                        *)
LEMMA ReportsFollow ==
    ASSUME RowsInv
    PROVE  ReportsFollowPlay
<1>1. PICK darts, match, ranked : /\ darts = AllDarts /\ match = MatchReport(darts)
                                  /\ ranked = Leaderboard(darts, 0)
    OBVIOUS
<1>2. \A p \in Players : match.players[p] = PlayerReport(darts, p)
    BY <1>1 DEF MatchReport
<1>3. MatchLine(darts).darts_thrown = SumFunction([p \in Players |-> match.players[p].thrown])
    <2>1. PICK sums : sums = [p \in Players |-> match.players[p].thrown]
        OBVIOUS
    <2>2. DOMAIN sums = Players
        BY <2>1
    <2>3. \A p \in Players : sums[p] = Cardinality(OwnDarts(darts, p))
        <3>1. \A p \in Players : PlayerReport(darts, p).thrown = Cardinality(OwnDarts(darts, p))
            BY DEF PlayerReport
        <3> QED
            BY <1>2, <2>1, <3>1
    <2>4. Cardinality(darts) = SumFunction(sums)
        BY <1>1, <2>2, <2>3, EverybodyCounted
    <2>5. MatchLine(darts).darts_thrown = Cardinality(darts)
        BY DEF MatchLine
    <2> QED
        BY <2>1, <2>4, <2>5
<1>4. ASSUME NEW p \in Players
      PROVE  PlayerFollowsPlay(Replays, match.players[p], p) /\ LinesFollowPlay(Replays, match, p)
    <2>1. PlayerFollowsPlay(Replays, match.players[p], p)
        BY <1>1, <1>2, PlayerFollows
    <2>2. LinesFollowPlay(Replays, match, p)
        BY <1>1, LinesFollow
    <2> QED
        BY <2>1, <2>2
<1>5. ASSUME NEW p \in Players, p \in DOMAIN ranked
      PROVE  RankedAsReported(ranked[p], match.players[p])
    <2>1. IsX01 /\ ranked[p] = LeaderboardLine(OwnDarts(darts, p))
        BY <1>1, <1>5 DEF Leaderboard
    <2>2. RankedAsReported(LeaderboardLine(OwnDarts(darts, p)), PlayerReport(darts, p))
        BY <1>1, <2>1, RankedFollows
    <2> QED
        BY <1>2, <2>1, <2>2
<1> QED
    BY <1>1, <1>3, <1>4, <1>5 DEF ReportsFollowPlay

(* Whatever was thrown, undone, busted, won and given up, the statistics   *)
(* and the exports (stats/queries.py, stats/report.py, services/export.py) *)
(* report what the darts of the match did.                                 *)
THEOREM ReportsAreTrue == RowsSpec => []ReportsFollowPlay
    BY ReportsFollow, RowsHold, PTL
=============================================================================
