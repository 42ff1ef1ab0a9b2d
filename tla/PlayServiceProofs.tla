-------------------------- MODULE PlayServiceProofs --------------------------
(***************************************************************************)
(* The life of a match, proved for every number of teams, match length,    *)
(* start rule, set of throws and game (LegVerdict).                        *)
(*                                                                         *)
(* The argument: LegsOK holds of a list of legs whose last row is replaced *)
(* by a right one, that is extended behind a decided leg, or that loses    *)
(* its last leg.  A throw is the first, then perhaps the second; an undo   *)
(* is the first, or the third and then the first.                          *)
(*                                                                         *)
(* The second part proves that the service implements the ledger of        *)
(* MatchLedger.tla: reconciling rows dart by dart comes to the same as     *)
(* replaying the whole match.                                              *)
(***************************************************************************)
EXTENDS MatchRefinement, Induction, SequenceTheorems, FiniteSetTheorems, TLAPS

USE DEF NoTeam, Refused

(* A row whose winner is the engine's, reached only by its last dart.      *)
RowOK(r) ==
    /\ r.winner = LegVerdict(r.starter, r.darts)
    /\ \A n \in 0..Len(r.darts) - 1 : LegVerdict(r.starter, SubSeq(r.darts, 1, n)) = NoTeam

(* How many of the legs have been thrown into.                             *)
ThrownInto(ls) == IF LastOf(ls).darts = <<>> THEN Len(ls) - 1 ELSE Len(ls)

StarterOf(ls, k) ==
    IF k = 1 THEN StartingTeam(NTeams, 0, StartRule, FixedTeam, NoTeam, 0)
    ELSE NextStarter(SubSeq(ls, 1, k - 1))

LegsOK(ls) ==
    /\ ls \in Seq(LegRow)
    /\ Len(ls) > 0
    /\ \A k \in 1..Len(ls) : RowOK(ls[k])
    /\ \A k \in 1..Len(ls) - 1 : ls[k].winner # NoTeam
    /\ \A k \in 1..Len(ls) : ls[k].starter = StarterOf(ls, k)
    /\ Champions(FrontOf(ls)) = {}

(* The inductive invariant.                                                *)
Inductive ==
    /\ LegsOK(legs)
    /\ winner = Champion(legs)
    /\ LastOf(legs).winner = NoTeam <=> winner = NoTeam
    /\ abandoned \in BOOLEAN
    /\ abandoned => winner = NoTeam
-----------------------------------------------------------------------------
(* Two sequences that agree on a prefix have it in common.                 *)
LEMMA CommonPrefix ==
    ASSUME NEW S, NEW a \in Seq(S), NEW b \in Seq(S), NEW m \in Nat,
           m <= Len(a), m <= Len(b), \A i \in 1..m : a[i] = b[i]
    PROVE  SubSeq(a, 1, m) = SubSeq(b, 1, m)
<1>1. \A i \in 1..m : a[i] \in S /\ b[i] \in S
  BY ElementOfSeq
<1>2. /\ SubSeq(a, 1, m) \in Seq(S) /\ SubSeq(b, 1, m) \in Seq(S)
      /\ Len(SubSeq(a, 1, m)) = m /\ Len(SubSeq(b, 1, m)) = m
      /\ \A i \in 1..m : SubSeq(a, 1, m)[i] = a[i]
      /\ \A i \in 1..m : SubSeq(b, 1, m)[i] = b[i]
  BY <1>1, SubSeqProperties
<1> QED BY <1>2, SeqEqual

(* The darts of a leg stay a bounded sequence of throws.                   *)
LEMMA DartSeqLemma ==
    ASSUME NEW s \in DartSeq
    PROVE  /\ s \in Seq(Dart)
           /\ Len(s) \in 0..MaxDarts
           /\ \A d \in Dart : Len(s) < MaxDarts => Append(s, d) \in DartSeq
           /\ s # <<>> => SubSeq(s, 1, Len(s) - 1) \in DartSeq
<1>1. PICK m \in 0..MaxDarts : s \in [1..m -> Dart]
  BY DEF DartSeq
<1>2. s \in Seq(Dart) /\ Len(s) = m
  BY <1>1, MatchAssumption
<1>3. ASSUME NEW d \in Dart, Len(s) < MaxDarts
      PROVE  Append(s, d) \in DartSeq
  <2>1. Append(s, d) \in Seq(Dart) /\ Len(Append(s, d)) = m + 1
    BY <1>2, AppendProperties
  <2>2. Append(s, d) \in [1..m + 1 -> Dart]
    BY <2>1, LenProperties
  <2> QED BY <1>1, <1>2, <1>3, <2>2, MatchAssumption DEF DartSeq
<1>4. ASSUME s # <<>>
      PROVE  SubSeq(s, 1, Len(s) - 1) \in DartSeq
  <2>1. m > 0
    BY <1>2, <1>4, EmptySeq
  <2>2. SubSeq(s, 1, m - 1) \in Seq(Dart) /\ Len(SubSeq(s, 1, m - 1)) = m - 1
    BY <1>2, <2>1, SubSeqProperties, ElementOfSeq
  <2>3. SubSeq(s, 1, m - 1) \in [1..m - 1 -> Dart]
    BY <2>2, LenProperties
  <2> QED BY <1>1, <1>2, <2>1, <2>3, MatchAssumption DEF DartSeq
<1> QED BY <1>2, <1>3, <1>4, MatchAssumption

(* A recorded dart leaves a right row, with the winner the engine names.   *)
LEMMA ThrownRow ==
    ASSUME NEW r \in LegRow, RowOK(r), r.winner = NoTeam, NEW d \in Dart,
           Len(r.darts) < MaxDarts,
           LegVerdict(r.starter, Append(r.darts, d)) # Refused,
           NEW q, q = [r EXCEPT !.darts = Append(@, d),
                                !.winner = LegVerdict(r.starter, Append(r.darts, d))]
    PROVE  q \in LegRow /\ RowOK(q) /\ q.starter = r.starter /\ q.darts # <<>>
<1> DEFINE more == Append(r.darts, d)
<1>1. r.darts \in DartSeq /\ r.starter \in Team
  BY DEF LegRow
<1>2. r.darts \in Seq(Dart) /\ more \in DartSeq /\ Len(r.darts) \in Nat
  BY <1>1, DartSeqLemma, MatchAssumption
<1>3. /\ more \in Seq(Dart) /\ more # <<>> /\ Len(more) = Len(r.darts) + 1
      /\ \A i \in 1..Len(r.darts) : more[i] = r.darts[i]
  BY <1>2, AppendProperties
<1>4. LegVerdict(r.starter, more) \in Team \cup {NoTeam}
  BY <1>1, <1>2, VerdictAssumption
<1>5. q = [starter |-> r.starter, winner |-> LegVerdict(r.starter, more), darts |-> more]
  BY DEF LegRow
<1>6. ASSUME NEW n \in 0..Len(more) - 1
      PROVE  LegVerdict(r.starter, SubSeq(more, 1, n)) = NoTeam
  <2>1. n \in 0..Len(r.darts)
    BY <1>2, <1>3
  <2>2. SubSeq(more, 1, n) = SubSeq(r.darts, 1, n)
    <3>1. \A i \in 1..n : more[i] = r.darts[i]
      BY <1>2, <1>3, <2>1
    <3>2. n \in Nat /\ n <= Len(r.darts) /\ n <= Len(more)
      BY <1>2, <1>3, <2>1
    <3> QED BY <1>2, <1>3, <3>1, <3>2, CommonPrefix
  <2>3. CASE n = Len(r.darts)
    BY <1>2, <2>2, <2>3, SubSeqFull DEF RowOK
  <2>4. CASE n < Len(r.darts)
    <3>1. n \in 0..Len(r.darts) - 1
      BY <1>2, <2>1, <2>4
    <3> QED BY <2>2, <3>1 DEF RowOK
  <2> QED BY <1>2, <2>1, <2>3, <2>4
<1> QED BY <1>1, <1>2, <1>3, <1>4, <1>5, <1>6 DEF LegRow, RowOK

(* Taking the last dart back leaves a right row, with no winner.           *)
LEMMA UndoneRow ==
    ASSUME NEW r \in LegRow, RowOK(r), r.darts # <<>>,
           NEW less, less = SubSeq(r.darts, 1, Len(r.darts) - 1),
           NEW q, q = [r EXCEPT !.darts = less, !.winner = LegVerdict(r.starter, less)]
    PROVE  q \in LegRow /\ RowOK(q) /\ q.starter = r.starter /\ q.winner = NoTeam
<1>1. r.darts \in DartSeq /\ r.starter \in Team
  BY DEF LegRow
<1>2. r.darts \in Seq(Dart) /\ less \in DartSeq /\ Len(r.darts) \in Nat \ {0}
  BY <1>1, DartSeqLemma, EmptySeq
<1>3. LegVerdict(r.starter, less) = NoTeam
  BY <1>2 DEF RowOK
<1>4. q = [starter |-> r.starter, winner |-> NoTeam, darts |-> less]
  BY <1>3 DEF LegRow
<1>5. less \in Seq(Dart) /\ Len(less) = Len(r.darts) - 1
  BY <1>2, SubSeqProperties, ElementOfSeq
<1>6. ASSUME NEW n \in 0..Len(less) - 1
      PROVE  LegVerdict(r.starter, SubSeq(less, 1, n)) = NoTeam
  <2>1. SubSeq(less, 1, n) = SubSeq(r.darts, 1, n)
    <3>1. \A i \in 1..Len(less) : less[i] = r.darts[i]
      BY <1>2, <1>5, SubSeqProperties, ElementOfSeq
    <3>2. n \in Nat /\ n <= Len(r.darts) /\ n <= Len(less)
      BY <1>2, <1>5
    <3> QED BY <1>2, <1>5, <3>1, <3>2, CommonPrefix
  <2>2. n \in 0..Len(r.darts) - 1
    BY <1>2, <1>5
  <2> QED BY <2>1, <2>2 DEF RowOK
<1> QED BY <1>1, <1>2, <1>3, <1>4, <1>6 DEF LegRow, RowOK
-----------------------------------------------------------------------------
(* The rotation names a team.                                              *)
LEMMA StarterIsTeam ==
    ASSUME NEW i \in Nat, NEW w \in Team, NEW p \in Team
    PROVE  StartingTeam(NTeams, i, StartRule, FixedTeam, w, p) \in Team
<1>1. NTeams \in Nat \ {0} /\ FixedTeam \in Team /\ StartRule \in StartRules
  BY MatchAssumption
<1>2. \A x \in Nat : x % NTeams \in Team
  BY <1>1 DEF Team
<1>3. NextLoser(NTeams, w, p) \in Team
  <2>1. p + 1 \in Nat
    BY <1>1 DEF Team
  <2>2. (p + 1) % NTeams \in Team
    BY <1>2, <2>1
  <2>3. ((p + 1) % NTeams) + 1 \in Nat
    BY <1>1, <2>2 DEF Team
  <2> QED BY <1>2, <2>2, <2>3 DEF NextLoser
<1>4. 0 \in Team
  BY <1>1 DEF Team
<1>5. CASE StartRule = "alternate"
  BY <1>2, <1>5 DEF StartingTeam
<1>6. CASE StartRule = "fixed"
  BY <1>1, <1>6 DEF StartingTeam
<1>7. CASE StartRule = "winner_starts"
  BY <1>1, <1>7 DEF StartingTeam
<1>8. CASE StartRule = "loser_starts"
  BY <1>1, <1>3, <1>4, <1>8 DEF StartingTeam
<1> QED BY <1>1, <1>5, <1>6, <1>7, <1>8 DEF StartRules

(* The team that starts the first leg, before anybody has won.             *)
LEMMA OpenerIsTeam ==
    StartingTeam(NTeams, 0, StartRule, FixedTeam, NoTeam, 0) \in Team
<1>1. NTeams \in Nat \ {0} /\ FixedTeam \in Team /\ StartRule \in StartRules
  BY MatchAssumption
<1>2. 0 % NTeams \in Team
  BY <1>1 DEF Team
<1> QED BY <1>1, <1>2 DEF StartingTeam, StartRules

(* Wins are finitely many, and a team with fewer of them is champion less. *)
LEMMA WonByFinite ==
    ASSUME NEW ls \in Seq(LegRow), NEW team
    PROVE  IsFiniteSet(WonBy(ls, team)) /\ Cardinality(WonBy(ls, team)) \in Nat
<1>1. Len(ls) \in Nat
  BY LenProperties
<1>2. IsFiniteSet(1..Len(ls)) /\ WonBy(ls, team) \in SUBSET (1..Len(ls))
  BY <1>1, FS_Interval DEF WonBy
<1>3. IsFiniteSet(WonBy(ls, team))
  BY <1>2, FS_Subset
<1> QED BY <1>3, FS_CardinalityType

(* A champion stays one when no leg it won is taken away.                  *)
LEMMA FewerWins ==
    ASSUME NEW a \in Seq(LegRow), NEW b \in Seq(LegRow), NEW team \in Champions(a),
           WonBy(a, team) \subseteq WonBy(b, team)
    PROVE  team \in Champions(b)
<1>1. Cardinality(WonBy(a, team)) <= Cardinality(WonBy(b, team))
  BY WonByFinite, FS_Subset
<1>2. /\ Cardinality(WonBy(a, team)) \in Nat /\ Cardinality(WonBy(b, team)) \in Nat
      /\ Needed \in Int
  BY WonByFinite, MatchAssumption DEF Needed
<1> QED BY <1>1, <1>2 DEF Champions

(* What FrontOf leaves.                                                    *)
LEMMA FrontLemma ==
    ASSUME NEW ls \in Seq(LegRow), Len(ls) > 0
    PROVE  /\ FrontOf(ls) \in Seq(LegRow)
           /\ Len(FrontOf(ls)) = Len(ls) - 1
           /\ \A i \in 1..Len(ls) - 1 : FrontOf(ls)[i] = ls[i]
<1>1. Len(ls) \in Nat \ {0} /\ \A i \in 1..Len(ls) - 1 : ls[i] \in LegRow
  BY LenProperties, ElementOfSeq
<1>2. PICK n \in Nat : n = Len(ls) - 1
  <2>1. Len(ls) - 1 \in Nat
    BY <1>1
  <2> QED BY <2>1
<1>3. \A i \in 1..n : ls[i] \in LegRow
  BY <1>1, <1>2
<1>4. /\ SubSeq(ls, 1, n) \in Seq(LegRow)
      /\ Len(SubSeq(ls, 1, n)) = n
      /\ \A i \in 1..n : SubSeq(ls, 1, n)[i] = ls[i]
  BY <1>3, SubSeqProperties
<1> QED BY <1>2, <1>4 DEF FrontOf

(* Only the winner of the last leg can be champion.                        *)
LEMMA SoleChampion ==
    ASSUME NEW ls, LegsOK(ls)
    PROVE  /\ Champions(ls) \subseteq {LastOf(ls).winner} \ {NoTeam}
           /\ Champion(ls) = NoTeam <=> Champions(ls) = {}
           /\ Champions(ls) # {} => Champion(ls) = LastOf(ls).winner
<1>1. ls \in Seq(LegRow) /\ Len(ls) > 0 /\ Champions(FrontOf(ls)) = {} /\ Len(ls) \in Nat
  BY LenProperties DEF LegsOK
<1>2. ASSUME NEW team \in Champions(ls), team # LastOf(ls).winner
      PROVE  FALSE
  <2>1. WonBy(ls, team) \subseteq WonBy(FrontOf(ls), team)
    BY <1>1, <1>2, FrontLemma DEF WonBy, LastOf
  <2> QED BY <1>1, <2>1, FewerWins, FrontLemma
<1>3. \A team \in Champions(ls) : team # NoTeam
  BY MatchAssumption DEF Champions, Team
<1>4. Champions(ls) \subseteq {LastOf(ls).winner} \ {NoTeam}
  BY <1>2, <1>3
<1>5. CASE Champions(ls) = {}
  BY <1>4, <1>5 DEF Champion
<1>6. CASE Champions(ls) # {}
  <2>1. Champions(ls) = {LastOf(ls).winner} /\ LastOf(ls).winner # NoTeam
    BY <1>4, <1>6
  <2>2. LastOf(ls).winner \in Team
    BY <2>1 DEF Champions
  <2>3. LastOf(ls).winner <= LastOf(ls).winner
    BY <2>2, MatchAssumption DEF Team
  <2>4. Champion(ls) = LastOf(ls).winner
    BY <2>1, <2>3 DEF Champion
  <2> QED BY <2>1, <2>4, <1>4, <1>6
<1> QED BY <1>4, <1>5, <1>6
-----------------------------------------------------------------------------
(* The three things that can happen to a list of legs.                     *)

(* The last row is replaced by a right one.                                *)
LEMMA ReplaceLast ==
    ASSUME NEW ls, LegsOK(ls), NEW q \in LegRow, RowOK(q),
           q.starter = LastOf(ls).starter,
           NEW new, new = [ls EXCEPT ![Len(ls)] = q]
    PROVE  LegsOK(new) /\ Len(new) = Len(ls) /\ LastOf(new) = q /\ FrontOf(new) = FrontOf(ls)
<1>1. ls \in Seq(LegRow) /\ Len(ls) \in Nat \ {0}
  BY LenProperties DEF LegsOK
<1>2. /\ new \in Seq(LegRow) /\ Len(new) = Len(ls)
      /\ \A j \in 1..Len(ls) : new[j] = IF j = Len(ls) THEN q ELSE ls[j]
  BY <1>1, ExceptSeq
<1>3. \A m \in 0..Len(ls) - 1 : SubSeq(new, 1, m) = SubSeq(ls, 1, m)
  <2> SUFFICES ASSUME NEW m \in 0..Len(ls) - 1
               PROVE  SubSeq(new, 1, m) = SubSeq(ls, 1, m)
    OBVIOUS
  <2>1. m \in Nat /\ m <= Len(ls) /\ m <= Len(new) /\ \A i \in 1..m : new[i] = ls[i]
    BY <1>1, <1>2
  <2> QED BY <1>1, <1>2, <2>1, CommonPrefix
<1>4. FrontOf(new) = FrontOf(ls)
  <2>1. Len(ls) - 1 \in 0..Len(ls) - 1 /\ Len(new) - 1 = Len(ls) - 1
    BY <1>1, <1>2
  <2> QED BY <1>3, <2>1 DEF FrontOf
<1>5. LastOf(new) = q
  BY <1>1, <1>2 DEF LastOf
<1>6. \A k \in 1..Len(new) : RowOK(new[k])
  BY <1>1, <1>2 DEF LegsOK
<1>7. \A k \in 1..Len(new) - 1 : new[k].winner # NoTeam
  BY <1>1, <1>2 DEF LegsOK
<1>8. ASSUME NEW k \in 1..Len(new)
      PROVE  new[k].starter = StarterOf(new, k)
  <2>1. new[k].starter = ls[k].starter
    BY <1>1, <1>2 DEF LastOf
  <2>2. k - 1 \in 0..Len(ls) - 1 /\ k \in 1..Len(ls)
    BY <1>1, <1>2
  <2>3. SubSeq(new, 1, k - 1) = SubSeq(ls, 1, k - 1)
    BY <1>3, <2>2
  <2>4. ls[k].starter = StarterOf(ls, k)
    BY <2>2 DEF LegsOK
  <2> QED BY <2>1, <2>3, <2>4 DEF StarterOf
<1> QED BY <1>1, <1>2, <1>4, <1>5, <1>6, <1>7, <1>8 DEF LegsOK

(* A leg is opened behind a decided one that decided no match.             *)
LEMMA OpenNext ==
    ASSUME NEW ls, LegsOK(ls), LastOf(ls).winner # NoTeam, Champions(ls) = {},
           NEW new, new = Append(ls, NewLeg(NextStarter(ls)))
    PROVE  LegsOK(new) /\ LastOf(new).winner = NoTeam
<1> DEFINE leg == NewLeg(NextStarter(ls))
<1>1. ls \in Seq(LegRow) /\ Len(ls) \in Nat \ {0}
  BY LenProperties DEF LegsOK
<1>2. LastOf(ls) \in LegRow
  BY <1>1, ElementOfSeq DEF LastOf
<1>3. NextStarter(ls) \in Team
  BY <1>1, <1>2, StarterIsTeam DEF NextStarter, LegRow
<1>4. <<>> \in DartSeq /\ Len(<<>>) = 0
  <2>1. <<>> \in [1..0 -> Dart]
    OBVIOUS
  <2>2. 0 \in 0..MaxDarts
    BY MatchAssumption
  <2> QED BY <2>1, <2>2 DEF DartSeq
<1>5. leg \in LegRow /\ leg.winner = NoTeam
  BY <1>3, <1>4 DEF NewLeg, LegRow
<1>6. RowOK(leg)
  <2>1. leg.winner = NoTeam /\ leg.darts = <<>> /\ leg.starter \in Team
    BY <1>3 DEF NewLeg
  <2> QED BY <1>4, <2>1, VerdictAssumption DEF RowOK
<1>7. /\ new \in Seq(LegRow) /\ Len(new) = Len(ls) + 1
      /\ \A i \in 1..Len(ls) : new[i] = ls[i]
      /\ new[Len(ls) + 1] = leg
  BY <1>1, <1>5, AppendProperties
<1>8. \A m \in 0..Len(ls) : SubSeq(new, 1, m) = SubSeq(ls, 1, m)
  <2> SUFFICES ASSUME NEW m \in 0..Len(ls)
               PROVE  SubSeq(new, 1, m) = SubSeq(ls, 1, m)
    OBVIOUS
  <2>1. m \in Nat /\ m <= Len(ls) /\ m <= Len(new) /\ \A i \in 1..m : new[i] = ls[i]
    BY <1>1, <1>7
  <2>2. ls \in Seq(LegRow) /\ new \in Seq(LegRow)
    BY <1>1, <1>7
  <2> QED BY <2>1, <2>2, CommonPrefix
<1>9. SubSeq(new, 1, Len(ls)) = ls
  BY <1>1, <1>8, SubSeqFull
<1>10. FrontOf(new) = ls
  BY <1>1, <1>7, <1>9 DEF FrontOf
<1>11. \A k \in 1..Len(new) : RowOK(new[k])
  BY <1>1, <1>6, <1>7 DEF LegsOK
<1>12. \A k \in 1..Len(new) - 1 : new[k].winner # NoTeam
  BY <1>1, <1>7 DEF LegsOK, LastOf
<1>13. ASSUME NEW k \in 1..Len(new)
       PROVE  new[k].starter = StarterOf(new, k)
  <2>1. CASE k = Len(ls) + 1
    <3>1. new[k].starter = NextStarter(ls)
      BY <1>7, <2>1 DEF NewLeg
    <3>2. k - 1 = Len(ls) /\ k # 1
      BY <1>1, <2>1
    <3>3. SubSeq(new, 1, k - 1) = ls
      BY <1>9, <3>2
    <3> QED BY <3>1, <3>2, <3>3 DEF StarterOf
  <2>2. CASE k \in 1..Len(ls)
    <3>1. k - 1 \in 0..Len(ls)
      BY <1>1, <2>2
    <3>2. SubSeq(new, 1, k - 1) = SubSeq(ls, 1, k - 1) /\ new[k] = ls[k]
      BY <1>7, <1>8, <2>2, <3>1
    <3> QED BY <2>2, <3>2 DEF StarterOf, LegsOK
  <2> QED BY <1>1, <1>7, <2>1, <2>2
<1>14. LastOf(new).winner = NoTeam
  BY <1>5, <1>7 DEF LastOf
<1> QED BY <1>1, <1>7, <1>10, <1>11, <1>12, <1>13, <1>14 DEF LegsOK

(* The last leg is dropped.                                                *)
LEMMA DropLast ==
    ASSUME NEW ls, LegsOK(ls), Len(ls) > 1
    PROVE  LegsOK(FrontOf(ls)) /\ LastOf(FrontOf(ls)) = ls[Len(ls) - 1]
<1> DEFINE new == FrontOf(ls)
<1>1. ls \in Seq(LegRow) /\ Len(ls) \in Nat \ {0, 1}
  BY LenProperties DEF LegsOK
<1>2. /\ new \in Seq(LegRow) /\ Len(new) = Len(ls) - 1
      /\ \A i \in 1..Len(ls) - 1 : new[i] = ls[i]
  BY <1>1, FrontLemma
<1>3. \A k \in 1..Len(new) : RowOK(new[k]) /\ new[k].winner # NoTeam
  BY <1>1, <1>2 DEF LegsOK
<1>4. ASSUME NEW k \in 1..Len(new)
      PROVE  new[k].starter = StarterOf(new, k)
  <2>1. /\ k - 1 \in Nat /\ k - 1 <= Len(ls) /\ k - 1 <= Len(new)
        /\ \A i \in 1..k - 1 : new[i] = ls[i]
        /\ k \in 1..Len(ls) /\ new[k] = ls[k]
    BY <1>1, <1>2
  <2>2. SubSeq(new, 1, k - 1) = SubSeq(ls, 1, k - 1)
    BY <1>1, <1>2, <2>1, CommonPrefix
  <2> QED BY <2>1, <2>2 DEF StarterOf, LegsOK
<1>5. Champions(FrontOf(new)) = {}
  <2>1. /\ FrontOf(new) \in Seq(LegRow) /\ Len(FrontOf(new)) = Len(new) - 1
        /\ \A i \in 1..Len(new) - 1 : FrontOf(new)[i] = new[i]
    BY <1>1, <1>2, FrontLemma
  <2>2. ASSUME NEW team \in Champions(FrontOf(new))
        PROVE  FALSE
    <3>1. WonBy(FrontOf(new), team) \subseteq WonBy(new, team)
      BY <1>1, <1>2, <2>1 DEF WonBy
    <3>2. team \in Champions(new)
      BY <1>2, <2>1, <3>1, FewerWins
    <3> QED BY <3>2 DEF LegsOK
  <2> QED BY <2>2
<1>6. LastOf(new) = ls[Len(ls) - 1]
  BY <1>1, <1>2 DEF LastOf
<1> QED BY <1>1, <1>2, <1>3, <1>4, <1>5, <1>6 DEF LegsOK
-----------------------------------------------------------------------------
(* The end of _advance: a list of legs whose last row is right gets its    *)
(* champion, or its next leg.                                              *)
LEMMA Extend ==
    ASSUME NEW ls, LegsOK(ls),
           NEW new, new = Extended(ls, Champion(ls))
    PROVE  /\ LegsOK(new)
           /\ Champion(ls) = Champion(new)
           /\ LastOf(new).winner = NoTeam <=> Champion(ls) = NoTeam
<1>1. CASE LastOf(ls).winner = NoTeam
  <2>1. Champions(ls) = {} /\ Champion(ls) = NoTeam
    BY <1>1, SoleChampion
  <2>2. new = ls
    BY <1>1 DEF Extended
  <2> QED BY <1>1, <2>1, <2>2
<1>2. CASE LastOf(ls).winner # NoTeam /\ Champions(ls) = {}
  <2>1. Champion(ls) = NoTeam
    BY <1>2, SoleChampion
  <2>2. new = Append(ls, NewLeg(NextStarter(ls)))
    BY <1>2, <2>1 DEF Extended
  <2>3. LegsOK(new) /\ LastOf(new).winner = NoTeam
    BY <1>2, <2>2, OpenNext
  <2>4. Champion(new) = NoTeam
    BY <2>3, SoleChampion
  <2> QED BY <2>1, <2>3, <2>4
<1>3. CASE LastOf(ls).winner # NoTeam /\ Champions(ls) # {}
  <2>1. Champion(ls) = LastOf(ls).winner
    BY <1>3, SoleChampion
  <2>2. new = ls
    BY <1>3, <2>1 DEF Extended
  <2> QED BY <1>3, <2>1, <2>2
<1> QED BY <1>1, <1>2, <1>3

(* The legs a throw leaves: the last one has the dart and its verdict, and *)
(* perhaps there is a leg behind it.                                       *)
Thrown(r, d) ==
    [r EXCEPT !.darts = Append(r.darts, d), !.winner = LegVerdict(r.starter, Append(r.darts, d))]

(* The legs after a dart: the leg thrown at judged again, and another      *)
(* opened when it is over and the match is not.                            *)
LEMMA ThrownLegs ==
    ASSUME Inductive, NEW k \in 1..Len(legs), NEW d \in Dart, CanThrow(k, d),
           NEW new, new = [legs EXCEPT ![Len(legs)] = Thrown(legs[k], d)]
    PROVE  /\ k = Len(legs) /\ legs[k] = LastOf(legs)
           /\ Thrown(legs[k], d) \in LegRow
           /\ LegsOK(new) /\ LastOf(new) = Thrown(legs[k], d)
           /\ AfterThrow(legs, k, d) = [legs   |-> Extended(new, Champion(new)),
                                        winner |-> Champion(new)]
<1> DEFINE r    == legs[k]
           more == Append(r.darts, d)
           q    == [r EXCEPT !.darts = more, !.winner = LegVerdict(r.starter, more)]
<1>q. q = Thrown(legs[k], d)
  BY DEF Thrown
<1>1. LegsOK(legs)
  BY DEF Inductive
<1>2. legs \in Seq(LegRow) /\ Len(legs) \in Nat \ {0}
  BY <1>1, LenProperties DEF LegsOK
<1>3. k = Len(legs) /\ r = LastOf(legs)
  BY <1>1, <1>2 DEF LegsOK, CanThrow, LastOf
<1>4. r \in LegRow /\ RowOK(r)
  BY <1>1, <1>2, ElementOfSeq DEF LegsOK
<1>5. q \in LegRow /\ RowOK(q) /\ q.starter = r.starter /\ q.darts # <<>>
  <2>1. /\ r.winner = NoTeam /\ Len(r.darts) < MaxDarts
        /\ LegVerdict(r.starter, more) # Refused
    BY DEF CanThrow
  <2> QED BY <1>4, <2>1, ThrownRow
<1>6. LegsOK(new) /\ LastOf(new) = q
  <2>1. q.starter = LastOf(legs).starter
    BY <1>3, <1>5
  <2>2. new = [legs EXCEPT ![Len(legs)] = q]
    BY <1>q
  <2> HIDE DEF q
  <2> QED BY <1>1, <1>5, <2>1, <2>2, ReplaceLast
<1>7. AfterThrow(legs, k, d) = [legs   |-> Extended(new, Champion(new)),
                                winner |-> Champion(new)]
  <2>1. PICK base : base = [legs EXCEPT ![k].darts = more]
    OBVIOUS
  <2>2. PICK v : v = LegVerdict(r.starter, more)
    OBVIOUS
  <2>3. /\ base[k].starter = r.starter /\ base[k].darts = more
        /\ Settled(base, k, v) = new
    <3>1. new = [legs EXCEPT ![k] = [@ EXCEPT !.darts = more, !.winner = v]]
      BY <1>3, <1>q, <2>2
    <3> HIDE DEF more
    <3>2. DOMAIN legs = 1..Len(legs) /\ legs[k] \in LegRow
      BY <1>2, <1>4, LenProperties
    <3> QED BY <2>1, <3>1, <3>2 DEF Settled, LegRow
  <2>5. Trimmed(new) = new
    <3> HIDE DEF q
    <3> QED BY <1>5, <1>6 DEF Trimmed, IsEmptyLeg
  <2>6. AfterThrow(legs, k, d) = Advanced(base, k)
    BY <2>1 DEF AfterThrow
  <2> HIDE DEF more
  <2>7. Settled(base, k, LegVerdict(base[k].starter, base[k].darts)) = new
    BY <2>2, <2>3
  <2> QED BY <2>5, <2>6, <2>7 DEF Advanced
<1> HIDE DEF q
<1> QED BY <1>3, <1>5, <1>6, <1>7, <1>q

(* A throw preserves the inductive invariant.                              *)
LEMMA ThrowStep ==
    ASSUME Inductive, NEW k \in 1..Len(legs), NEW d \in Dart, Throw(k, d)
    PROVE  Inductive'
<1>1. PICK new : new = [legs EXCEPT ![Len(legs)] = Thrown(legs[k], d)]
  OBVIOUS
<1>2. /\ LegsOK(new)
      /\ AfterThrow(legs, k, d) = [legs   |-> Extended(new, Champion(new)),
                                   winner |-> Champion(new)]
  BY <1>1, ThrownLegs DEF Throw
<1>3. legs' = Extended(new, Champion(new)) /\ winner' = Champion(new) /\ abandoned' = abandoned
  BY <1>2 DEF Throw
<1>4. /\ LegsOK(legs')
      /\ Champion(new) = Champion(legs')
      /\ LastOf(legs').winner = NoTeam <=> Champion(new) = NoTeam
  BY <1>2, <1>3, Extend
<1>5. abandoned \in BOOLEAN /\ ~abandoned
  BY DEF Inductive, Throw, CanThrow
<1> QED BY <1>3, <1>4, <1>5 DEF Inductive

(* A throw leaves the legs behind the one thrown at as they were, and      *)
(* opens at most one, which is empty.                                      *)
LEMMA ThrowShape ==
    ASSUME Inductive, NEW k \in 1..Len(legs), NEW d \in Dart, Throw(k, d)
    PROVE  /\ k = Len(legs) /\ legs' \in Seq(LegRow)
           /\ Len(legs') \in {k, k + 1} /\ legs'[k] \in LegRow
           /\ legs'[k].starter = legs[k].starter
           /\ legs'[k].darts = Append(legs[k].darts, d)
           /\ \A j \in 1..k - 1 : legs'[j] = legs[j]
           /\ Len(legs') = k + 1 => legs'[k + 1].darts = <<>>
<1>1. PICK new : new = [legs EXCEPT ![Len(legs)] = Thrown(legs[k], d)]
  OBVIOUS
<1>2. /\ k = Len(legs) /\ LegsOK(new) /\ Thrown(legs[k], d) \in LegRow
      /\ AfterThrow(legs, k, d) = [legs   |-> Extended(new, Champion(new)),
                                   winner |-> Champion(new)]
  BY <1>1, ThrownLegs DEF Throw
<1>3. legs' = Extended(new, Champion(new))
  BY <1>2 DEF Throw
<1>4. legs \in Seq(LegRow) /\ Len(legs) \in Nat \ {0} /\ legs[k] \in LegRow
  BY LenProperties, ElementOfSeq DEF Inductive, LegsOK
<1>5. /\ new \in Seq(LegRow) /\ Len(new) = k
      /\ \A j \in 1..k : new[j] = IF j = k THEN Thrown(legs[k], d) ELSE legs[j]
  BY <1>1, <1>2, <1>4, ExceptSeq
<1>6. Thrown(legs[k], d).starter = legs[k].starter
      /\ Thrown(legs[k], d).darts = Append(legs[k].darts, d)
  BY <1>4 DEF Thrown, LegRow
<1>7. LegsOK(legs')
  BY ThrowStep DEF Inductive
<1>8. legs' = new \/ legs' = Append(new, NewLeg(NextStarter(new)))
  BY <1>3 DEF Extended
<1>9. /\ Len(legs') \in {k, k + 1}
      /\ \A j \in 1..k : legs'[j] = new[j]
      /\ Len(legs') = k + 1 => legs'[k + 1].darts = <<>>
  <2>1. CASE legs' = new
    BY <1>2, <1>4, <1>5, <2>1
  <2>2. CASE legs' = Append(new, NewLeg(NextStarter(new)))
    <3>1. /\ Len(legs') = k + 1
          /\ \A j \in 1..k : legs'[j] = new[j]
          /\ legs'[k + 1] = NewLeg(NextStarter(new))
      <4> DEFINE more == NewLeg(NextStarter(new))
      <4> HIDE DEF more
      <4>1. new \in Seq(LegRow \cup {more}) /\ more \in LegRow \cup {more}
        BY <1>5, SeqMonotonic
      <4>2. legs' = Append(new, more)
        BY <2>2 DEF more
      <4>3. Len(legs') = k + 1 /\ legs'[k + 1] = more /\ \A j \in 1..k : legs'[j] = new[j]
        BY <1>5, <4>1, <4>2, AppendProperties
      <4> QED BY <4>3 DEF more
    <3> QED BY <3>1 DEF NewLeg
  <2> QED BY <1>8, <2>1, <2>2
<1>10. legs' \in Seq(LegRow)
  BY <1>7 DEF LegsOK
<1>11. k \in 1..k /\ \A j \in 1..k - 1 : j \in 1..k /\ j # k
  BY <1>4
<1> QED BY <1>2, <1>5, <1>6, <1>9, <1>10, <1>11

(* Taking back the dart just thrown: the row it was added to is what it    *)
(* was, and so are the legs.                                               *)
LEMMA UndoAfterThrow ==
    ASSUME Inductive, NEW k \in 1..Len(legs), NEW d \in Dart, CanThrow(k, d)
    PROVE  AfterUndo(AfterThrow(legs, k, d).legs, k) = [legs |-> legs, winner |-> winner]
<1>1. PICK new : new = [legs EXCEPT ![Len(legs)] = Thrown(legs[k], d)]
  OBVIOUS
<1>2. PICK after : after = Extended(new, Champion(new))
  OBVIOUS
<1>3. /\ k = Len(legs) /\ legs[k] = LastOf(legs)
      /\ Thrown(legs[k], d) \in LegRow /\ LegsOK(new)
      /\ AfterThrow(legs, k, d).legs = after
  <2>1. /\ k = Len(legs) /\ legs[k] = LastOf(legs)
        /\ Thrown(legs[k], d) \in LegRow /\ LegsOK(new)
        /\ AfterThrow(legs, k, d) = [legs   |-> Extended(new, Champion(new)),
                                     winner |-> Champion(new)]
    BY <1>1, ThrownLegs
  <2> QED BY <1>2, <2>1
<1>4. LegsOK(legs) /\ legs \in Seq(LegRow) /\ Len(legs) \in Nat \ {0} /\ legs[k] \in LegRow
  <2>1. LegsOK(legs) /\ legs \in Seq(LegRow) /\ Len(legs) > 0
    BY DEF Inductive, LegsOK
  <2> QED BY <2>1, LenProperties, ElementOfSeq
<1>5. winner = NoTeam /\ legs[k].winner = NoTeam /\ Champions(legs) = {}
  BY <1>4, SoleChampion DEF CanThrow, Inductive
<1>6. /\ new \in Seq(LegRow) /\ Len(new) = k
      /\ \A j \in 1..k : new[j] = IF j = k THEN Thrown(legs[k], d) ELSE legs[j]
  BY <1>1, <1>3, <1>4, ExceptSeq
<1>7. \/ after = new
      \/ after = Append(new, NewLeg(NextStarter(new)))
  BY <1>2 DEF Extended
<1>8. LegsOK(after)
  BY <1>2, <1>3, Extend
<1>9. /\ after \in Seq(LegRow) /\ Len(after) \in {k, k + 1}
      /\ after[k] = Thrown(legs[k], d)
      /\ \A j \in 1..k - 1 : after[j] = legs[j]
      /\ Len(after) = k + 1 => after[k + 1] = NewLeg(NextStarter(new))
  <2>1. after \in Seq(LegRow) /\ k \in Nat \ {0}
    BY <1>3, <1>4, <1>8 DEF LegsOK
  <2>2. CASE after = new
    BY <1>6, <2>1, <2>2
  <2>3. CASE after = Append(new, NewLeg(NextStarter(new)))
    <3>1. /\ Len(after) = k + 1 /\ after[k + 1] = NewLeg(NextStarter(new))
          /\ \A j \in 1..k : after[j] = new[j]
      BY <1>6, <2>1, <2>3
    <3> QED BY <1>6, <2>1, <3>1
  <2> QED BY <1>7, <2>2, <2>3
(* The row is set back.                                                    *)
<1>10. SubSeq(after[k].darts, 1, Len(after[k].darts) - 1) = legs[k].darts
  <2>1. legs[k].darts \in Seq(Dart)
    BY <1>4, DartSeqLemma DEF LegRow
  <2>2. after[k].darts = Append(legs[k].darts, d)
    BY <1>4, <1>9 DEF Thrown, LegRow
  <2> QED BY <2>1, <2>2
<1>11. PICK base : base = [after EXCEPT ![k].darts = legs[k].darts]
  OBVIOUS
<1>12. AfterUndo(after, k) = Advanced(base, k)
  BY <1>10, <1>11 DEF AfterUndo
<1>13. PICK set : set = [after EXCEPT ![k] = legs[k]]
  OBVIOUS
<1>14. Settled(base, k, LegVerdict(base[k].starter, base[k].darts)) = set
  <2>1. DOMAIN after = 1..Len(after) /\ k \in 1..Len(after)
    BY <1>3, <1>4, <1>9, LenProperties
  <2>2. base[k].starter = legs[k].starter /\ base[k].darts = legs[k].darts
    BY <1>4, <1>9, <1>11, <2>1 DEF Thrown, LegRow
  <2>3. LegVerdict(base[k].starter, base[k].darts) = legs[k].winner
    BY <1>4, <2>2 DEF LegsOK, RowOK
  <2>4. [[after[k] EXCEPT !.darts = legs[k].darts] EXCEPT !.winner = legs[k].winner] = legs[k]
    BY <1>4, <1>9 DEF Thrown, LegRow
  <2>5. Settled(base, k, legs[k].winner) = [after EXCEPT ![k] =
           [[after[k] EXCEPT !.darts = legs[k].darts] EXCEPT !.winner = legs[k].winner]]
    BY <1>11, <2>1 DEF Settled
  <2> QED BY <1>13, <2>3, <2>4, <2>5
<1>15. /\ set \in Seq(LegRow) /\ Len(set) = Len(after)
       /\ \A j \in 1..Len(after) : set[j] = IF j = k THEN legs[k] ELSE after[j]
  BY <1>4, <1>9, <1>13, ExceptSeq
<1>16. \A j \in 1..k : set[j] = legs[j]
  BY <1>3, <1>4, <1>9, <1>15
(* The leg behind it goes, if there is one.                                *)
<1>17. Trimmed(set) = legs
  <2>1. CASE Len(after) = k
    <3>1. set = legs
      BY <1>3, <1>4, <1>15, <1>16, <2>1, SeqEqual
    <3>2. Len(legs) > 1 => legs[Len(legs) - 1].winner # NoTeam
      BY <1>4 DEF LegsOK
    <3> QED BY <3>1, <3>2 DEF Trimmed
  <2>2. CASE Len(after) = k + 1
    <3>1. set[k + 1] = NewLeg(NextStarter(new)) /\ Len(set) = k + 1
      BY <1>3, <1>4, <1>9, <1>15, <2>2
    <3>2. Len(set) > 1 /\ set[Len(set) - 1].winner = NoTeam /\ IsEmptyLeg(LastOf(set))
      BY <1>3, <1>4, <1>5, <1>16, <3>1 DEF LastOf, IsEmptyLeg, NewLeg
    <3>3. /\ FrontOf(set) \in Seq(LegRow) /\ Len(FrontOf(set)) = k
          /\ \A j \in 1..k : FrontOf(set)[j] = set[j]
      <4>1. Len(set) > 0 /\ Len(set) - 1 = k
        BY <1>4, <3>1
      <4> QED BY <1>15, <4>1, FrontLemma
    <3>4. FrontOf(set) = legs
      BY <1>3, <1>4, <1>16, <3>3, SeqEqual
    <3> QED BY <3>2, <3>4 DEF Trimmed
  <2> QED BY <1>9, <2>1, <2>2
<1>18. Champion(set) = NoTeam
  <2>1. ASSUME NEW team \in Champions(set) PROVE FALSE
    <3>1. team # NoTeam
      BY MatchAssumption DEF Champions, Team
    <3>2. \A i \in 1..Len(set) : i <= k \/ set[i].winner = NoTeam
      BY <1>3, <1>4, <1>9, <1>15 DEF NewLeg
    <3>3. WonBy(set, team) \subseteq WonBy(legs, team)
      BY <1>3, <1>4, <1>9, <1>15, <1>16, <3>1, <3>2 DEF WonBy
    <3>4. team \in Champions(legs)
      BY <1>4, <1>15, <3>3, FewerWins
    <3> QED BY <1>5, <3>4
  <2> QED BY <2>1 DEF Champion
<1>19. Extended(legs, NoTeam) = legs
  BY <1>3, <1>5 DEF Extended
<1> QED BY <1>3, <1>5, <1>12, <1>14, <1>17, <1>18, <1>19 DEF Advanced

(* An undo preserves the inductive invariant.                              *)
LEMMA UndoStep ==
    ASSUME Inductive, NEW k \in 1..Len(legs), Undo(k)
    PROVE  /\ Inductive'
           /\ k = ThrownInto(legs)
           /\ legs' \in Seq(LegRow) /\ Len(legs') = k /\ legs'[k] \in LegRow
           /\ legs'[k].starter = legs[k].starter
           /\ legs'[k].darts = SubSeq(legs[k].darts, 1, Len(legs[k].darts) - 1)
           /\ \A j \in 1..k - 1 : legs'[j] = legs[j]
<1> DEFINE r    == legs[k]
           less == SubSeq(r.darts, 1, Len(r.darts) - 1)
           q    == [r EXCEPT !.darts = less, !.winner = LegVerdict(r.starter, less)]
           set  == [legs EXCEPT ![k] = q]
           new  == Trimmed(set)
<1>1. LegsOK(legs) /\ CanUndo(k)
  BY DEF Inductive, Undo
<1>2. legs \in Seq(LegRow) /\ Len(legs) \in Nat \ {0}
  BY <1>1, LenProperties DEF LegsOK
<1>3. r \in LegRow /\ RowOK(r) /\ r.darts # <<>>
  BY <1>1, <1>2, ElementOfSeq DEF LegsOK, CanUndo
<1>4. q \in LegRow /\ RowOK(q) /\ q.starter = r.starter /\ q.winner = NoTeam
  BY <1>3, UndoneRow
<1>5. /\ set \in Seq(LegRow) /\ Len(set) = Len(legs)
      /\ \A j \in 1..Len(legs) : set[j] = IF j = k THEN q ELSE legs[j]
  BY <1>2, <1>4, ExceptSeq
<1>s. set = [legs EXCEPT ![k] = q]
  OBVIOUS
<1> HIDE DEF q, set
<1>6. /\ LegsOK(new) /\ LastOf(new) = q /\ Champion(set) = NoTeam
      /\ k = IF LastOf(legs).darts = <<>> THEN Len(legs) - 1 ELSE Len(legs)
      /\ Len(new) = k
      /\ \A j \in 1..k : new[j] = set[j]
  <2>1. CASE k = Len(legs)
    <3>1. LegsOK(set) /\ LastOf(set) = q
      <4>1. set = [legs EXCEPT ![Len(legs)] = q] /\ q.starter = LastOf(legs).starter
        BY <1>4, <1>s, <2>1 DEF LastOf
      <4> QED BY <1>1, <1>4, <4>1, ReplaceLast
    <3>2. Len(set) > 1 => set[Len(set) - 1].winner # NoTeam
      BY <1>2, <3>1, <1>5 DEF LegsOK
    <3>3. new = set
      BY <3>2 DEF Trimmed
    <3> QED BY <1>3, <1>4, <1>5, <2>1, <3>1, <3>3, SoleChampion DEF LastOf
  <2>2. CASE k # Len(legs)
    <3>1. \A j \in k + 1..Len(legs) : legs[j].darts = <<>> /\ legs[j].winner = NoTeam
      <4> SUFFICES ASSUME NEW j \in k + 1..Len(legs)
                   PROVE  legs[j].darts = <<>> /\ legs[j].winner = NoTeam
        OBVIOUS
      <4>1. j \in 1..Len(legs) /\ legs[j].darts = <<>>
        BY <1>1, <1>2 DEF CanUndo
      <4>2. legs[j] \in LegRow /\ RowOK(legs[j])
        BY <1>1, <1>2, <4>1, ElementOfSeq DEF LegsOK
      <4> QED BY <4>1, <4>2, VerdictAssumption DEF RowOK, LegRow
    <3>2. k = Len(legs) - 1
      <4>1. k + 1 \in k + 1..Len(legs) /\ k + 1 \in 1..Len(legs)
        BY <1>2, <2>2
      <4>2. legs[k + 1].winner = NoTeam
        BY <3>1, <4>1
      <4>3. \A j \in 1..Len(legs) - 1 : legs[j].winner # NoTeam
        BY <1>1 DEF LegsOK
      <4> QED BY <1>2, <4>1, <4>2, <4>3
    <3>3. Len(set) > 1 /\ set[Len(set) - 1].winner = NoTeam
      BY <1>2, <1>4, <1>5, <3>2
    <3>4. IsEmptyLeg(LastOf(set))
      <4>1. LastOf(set) = legs[Len(legs)]
        <5>1. Len(legs) \in 1..Len(legs) /\ Len(legs) # k
          BY <1>2, <3>2
        <5> QED BY <1>5, <5>1 DEF LastOf
      <4> QED BY <1>2, <3>1, <3>2, <4>1 DEF IsEmptyLeg
    <3>5. new = FrontOf(set)
      BY <3>3, <3>4 DEF Trimmed
    <3>6. /\ FrontOf(legs) \in Seq(LegRow) /\ Len(FrontOf(legs)) = k
          /\ \A j \in 1..k : FrontOf(legs)[j] = legs[j]
      BY <1>2, <3>2, FrontLemma
    <3>7. /\ FrontOf(set) \in Seq(LegRow) /\ Len(FrontOf(set)) = k
          /\ \A j \in 1..k : FrontOf(set)[j] = set[j]
      <4>1. Len(set) > 0 /\ Len(set) - 1 = k
        BY <1>2, <1>5, <3>2
      <4> QED BY <1>5, <4>1, FrontLemma
    <3>8. /\ [FrontOf(legs) EXCEPT ![k] = q] \in Seq(LegRow)
          /\ Len([FrontOf(legs) EXCEPT ![k] = q]) = k
          /\ \A j \in 1..k : [FrontOf(legs) EXCEPT ![k] = q][j]
                               = IF j = k THEN q ELSE FrontOf(legs)[j]
      BY <1>2, <1>4, <3>2, <3>6, ExceptSeq
    <3>9. FrontOf(set) = [FrontOf(legs) EXCEPT ![k] = q]
      <4>1. \A j \in 1..k : FrontOf(set)[j] = [FrontOf(legs) EXCEPT ![k] = q][j]
        <5> SUFFICES ASSUME NEW j \in 1..k
                     PROVE  FrontOf(set)[j] = [FrontOf(legs) EXCEPT ![k] = q][j]
          OBVIOUS
        <5>1. j \in 1..Len(legs)
          BY <1>2, <3>2
        <5>2. FrontOf(set)[j] = IF j = k THEN q ELSE legs[j]
          BY <1>5, <3>7, <5>1
        <5> QED BY <3>6, <3>8, <5>2
      <4> QED BY <3>7, <3>8, <4>1, SeqEqual
    <3>10. LegsOK(FrontOf(legs)) /\ LastOf(FrontOf(legs)) = r
      BY <1>1, <1>2, <1>5, <3>2, <3>3, DropLast
    <3>11. LegsOK(new) /\ LastOf(new) = q
      <4>1. /\ new = [FrontOf(legs) EXCEPT ![Len(FrontOf(legs))] = q]
            /\ q.starter = LastOf(FrontOf(legs)).starter
        BY <1>4, <3>5, <3>6, <3>9, <3>10
      <4> HIDE DEF new
      <4> QED BY <1>4, <3>10, <4>1, ReplaceLast
    <3>12. Champions(new) = {}
      BY <1>4, <3>11, SoleChampion
    <3>13. ASSUME NEW team \in Champions(set)
           PROVE  FALSE
      <4>1. team # NoTeam
        BY MatchAssumption DEF Champions, Team
      <4>2. set[Len(legs)].winner = NoTeam
        BY <1>5, <3>4 DEF IsEmptyLeg, LastOf
      <4>3. WonBy(set, team) \subseteq WonBy(new, team)
        <5> SUFFICES ASSUME NEW i \in 1..Len(set), set[i].winner = team
                     PROVE  i \in 1..Len(new) /\ new[i].winner = team
          BY DEF WonBy
        <5>1. i # Len(legs)
          BY <4>1, <4>2
        <5>2. i \in 1..k
          BY <1>2, <1>5, <3>2, <5>1
        <5> QED BY <3>5, <3>7, <5>2
      <4>4. team \in Champions(new)
        BY <1>5, <3>5, <3>7, <4>3, FewerWins
      <4> QED BY <3>12, <4>4
    <3>14. Champion(set) = NoTeam
      BY <3>13 DEF Champion
    <3>15. LastOf(legs).darts = <<>>
      BY <1>2, <3>1, <3>2 DEF LastOf
    <3> QED BY <3>2, <3>5, <3>7, <3>11, <3>14, <3>15
  <2> QED BY <2>1, <2>2
<1>7. AfterUndo(legs, k) = [legs   |-> Extended(new, Champion(set)),
                            winner |-> Champion(set)]
  <2>1. PICK base : base = [legs EXCEPT ![k].darts = less]
    OBVIOUS
  <2>2. PICK v : v = LegVerdict(r.starter, less)
    OBVIOUS
  <2>3. AfterUndo(legs, k) = Advanced(base, k)
    BY <2>1 DEF AfterUndo
  <2>4. set = [legs EXCEPT ![k] = [@ EXCEPT !.darts = less, !.winner = v]]
    BY <1>s, <2>2 DEF q
  <2>5. /\ base[k].starter = r.starter /\ base[k].darts = less
        /\ Settled(base, k, v) = set
    <3> HIDE DEF less
    <3>1. DOMAIN legs = 1..Len(legs) /\ legs[k] \in LegRow
      BY <1>2, <1>3, LenProperties
    <3> QED BY <2>1, <2>4, <3>1 DEF Settled, LegRow
  <2>7. Settled(base, k, LegVerdict(base[k].starter, base[k].darts)) = set
    BY <2>2, <2>5
  <2> QED BY <2>3, <2>7 DEF Advanced
<1>8. legs' = new /\ winner' = NoTeam /\ abandoned' = abandoned
  <2>1. Extended(new, NoTeam) = new
    BY <1>4, <1>6 DEF Extended
  <2> QED BY <1>6, <1>7, <2>1 DEF Undo
<1>9. Champion(new) = NoTeam
  BY <1>4, <1>6, SoleChampion
<1>10. abandoned \in BOOLEAN /\ ~abandoned
  BY <1>1 DEF Inductive, CanUndo
<1>11. Inductive'
  BY <1>4, <1>6, <1>8, <1>9, <1>10 DEF Inductive
<1>12. q.darts = less
  BY <1>3 DEF q, LegRow
<1>13. /\ k = ThrownInto(legs) /\ Len(new) = k
       /\ \A j \in 1..k : new[j] = set[j]
  BY <1>6 DEF ThrownInto
<1>14. legs' \in Seq(LegRow)
  BY <1>6, <1>8 DEF LegsOK
<1> HIDE DEF new, less
<1>15. k \in 1..k /\ \A j \in 1..k : j \in 1..Len(legs)
  BY <1>2
<1>16. \A j \in 1..k : legs'[j] = IF j = k THEN q ELSE legs[j]
  BY <1>5, <1>8, <1>13, <1>15
<1>17. legs'[k] = q /\ \A j \in 1..k - 1 : legs'[j] = legs[j]
  BY <1>2, <1>15, <1>16
<1>18. Len(legs') = k
  BY <1>8, <1>13
<1> QED BY <1>4, <1>11, <1>12, <1>13, <1>14, <1>17, <1>18 DEF less

(* The first leg, alone and empty.                                         *)
LEMMA FirstLegIsRight ==
    ASSUME Init
    PROVE  Inductive
<1> DEFINE start == StartingTeam(NTeams, 0, StartRule, FixedTeam, NoTeam, 0)
<1>1. start \in Team
  BY OpenerIsTeam
<1>2. <<>> \in DartSeq /\ Len(<<>>) = 0
  <2>1. <<>> \in [1..0 -> Dart]
    OBVIOUS
  <2>2. 0 \in 0..MaxDarts
    BY MatchAssumption
  <2> QED BY <2>1, <2>2 DEF DartSeq
<1>3. NewLeg(start) \in LegRow /\ RowOK(NewLeg(start))
  BY <1>1, <1>2, VerdictAssumption DEF NewLeg, LegRow, RowOK
<1>4. legs = <<NewLeg(start)>> /\ Len(legs) = 1 /\ legs[1] = NewLeg(start) /\ legs \in Seq(LegRow)
  BY <1>3 DEF Init
<1>5. Champions(FrontOf(legs)) = {}
  <2>1. Len(FrontOf(legs)) = 0
    <3>1. Len(legs) > 0 /\ Len(legs) - 1 = 0
      BY <1>4
    <3> QED BY <1>4, <3>1, FrontLemma
  <2>2. \A team : WonBy(FrontOf(legs), team) = {}
    BY <2>1 DEF WonBy
  <2>3. Needed > 0 /\ Needed \in Int
    BY MatchAssumption DEF Needed
  <2>4. Cardinality({}) = 0
    BY FS_EmptySet
  <2>5. \A team : ~(Cardinality(WonBy(FrontOf(legs), team)) >= Needed)
    BY <2>2, <2>3, <2>4
  <2> QED BY <2>5 DEF Champions
<1>6. LegsOK(legs)
  BY <1>3, <1>4, <1>5 DEF LegsOK, StarterOf, NewLeg
<1>7. LastOf(legs).winner = NoTeam
  BY <1>4 DEF LastOf, NewLeg
<1>8. Champion(legs) = NoTeam
  BY <1>6, <1>7, SoleChampion
<1> QED BY <1>6, <1>7, <1>8 DEF Inductive, Init

(* The shape of the rows follows from the invariant.                       *)
LEMMA InductiveIsTyped ==
    ASSUME Inductive
    PROVE  TypeOK
<1>1. legs \in Seq(LegRow) /\ abandoned \in BOOLEAN
  BY DEF Inductive, LegsOK
<1>2. winner \in Team \cup {NoTeam}
  <2>1. Champions(legs) \subseteq Team
    BY DEF Champions
  <2>2. CASE Champions(legs) = {}
    BY <2>2 DEF Inductive, Champion
  <2>3. CASE Champions(legs) # {}
    BY <2>1, <2>3, SoleChampion DEF Inductive
  <2> QED BY <2>2, <2>3
<1> QED BY <1>1, <1>2 DEF TypeOK

(* The invariant holds in every reachable state.                           *)
THEOREM InductiveInvariant == Spec => []Inductive
<1>1. Init => Inductive
  BY FirstLegIsRight
<1>2. Inductive /\ [Next]_vars => Inductive'
  <2> SUFFICES ASSUME Inductive, [Next]_vars
               PROVE  Inductive'
    OBVIOUS
  <2>1. CASE \E k \in 1..Len(legs), d \in Dart : Throw(k, d)
    BY <2>1, ThrowStep
  <2>2. CASE \E k \in 1..Len(legs) : Undo(k)
    BY <2>2, UndoStep
  <2>3. CASE Abandon
    BY <2>3 DEF Abandon, Inductive
  <2>4. CASE UNCHANGED vars
    BY <2>4 DEF vars, Inductive
  <2> QED BY <2>1, <2>2, <2>3, <2>4 DEF Next
<1> QED BY <1>1, <1>2, PTL DEF Spec
-----------------------------------------------------------------------------
(* The stored rows keep the types of their columns.                        *)
THEOREM RowsAreTyped == Spec => []TypeOK
BY InductiveIsTyped, InductiveInvariant, PTL

(* After any mix of throws and undos, every stored leg winner is the one   *)
(* the engine concludes from the leg's darts (_check_winner of verify.py). *)
THEOREM StoredWinnersFollow == Spec => []WinnersFollowDarts
<1>1. Inductive => WinnersFollowDarts
  BY DEF Inductive, LegsOK, RowOK, WinnersFollowDarts
<1> QED BY <1>1, InductiveInvariant, PTL

(* One leg is open while the match is undecided and it is the last one     *)
(* (_advance).                                                             *)
THEOREM OneLegIsOpen == Spec => []OneOpenLegAndItIsLast
<1>1. Inductive => OneOpenLegAndItIsLast
  BY DEF Inductive, LegsOK, OneOpenLegAndItIsLast
<1> QED BY <1>1, InductiveInvariant, PTL

(* The stored champion is the one the legs elect, alone, and the match     *)
(* stopped at the leg that elected it (_advance, tally_champion).          *)
THEOREM ChampionIsSole == Spec => []ChampionByTally
<1>1. Inductive => ChampionByTally
  <2> SUFFICES ASSUME Inductive
               PROVE  ChampionByTally
    OBVIOUS
  <2>1. Champions(legs) \subseteq {LastOf(legs).winner}
    BY SoleChampion DEF Inductive
  <2>2. IsFiniteSet({LastOf(legs).winner}) /\ Cardinality({LastOf(legs).winner}) = 1
    BY FS_Singleton
  <2>3. Cardinality(Champions(legs)) <= 1
    BY <2>1, <2>2, FS_Subset
  <2> QED BY <2>3 DEF Inductive, LegsOK, ChampionByTally
<1> QED BY <1>1, InductiveInvariant, PTL

(* Every leg was started by the team the rotation names from the legs      *)
(* before it (_open_next_leg), whatever was undone and won again since.    *)
THEOREM StartersFollow == Spec => []StarterChain
<1>1. Inductive => StarterChain
  BY DEF Inductive, LegsOK, StarterOf, StarterChain
<1> QED BY <1>1, InductiveInvariant, PTL

(* A match is never both abandoned and won (migration 0002's CHECK).       *)
THEOREM AbandonedStaysUndecided == Spec => []AbandonedIsUndecided
<1>1. Inductive => AbandonedIsUndecided
  BY DEF Inductive, AbandonedIsUndecided
<1> QED BY <1>1, InductiveInvariant, PTL

(* No dart is stored behind the one that won its leg (_reject_closed).     *)
THEOREM WinningDartIsLast == Spec => []NothingAfterTheWin
<1>1. Inductive => NothingAfterTheWin
  BY DEF Inductive, LegsOK, RowOK, NothingAfterTheWin
<1> QED BY <1>1, InductiveInvariant, PTL

(* Undo gives back exactly the match there was before the dart, for every  *)
(* game: the leg it won is open again, the leg opened behind it is gone.   *)
THEOREM UndoTakesBackTheThrow == Spec => []UndoRevertsThrow
<1>1. Inductive => UndoRevertsThrow
  BY UndoAfterThrow DEF UndoRevertsThrow
<1> QED BY <1>1, InductiveInvariant, PTL
-----------------------------------------------------------------------------
(***************************************************************************)
(* The ledger.  replay_match, given the darts of legs that satisfy the     *)
(* inductive invariant, retraces them leg by leg.                          *)
(***************************************************************************)
USE DEF Ledger!NoTeam

Unrolled(record, m, n) ==
    m = [i \in 0..n |-> IF i = 0 THEN Ledger!NothingPlayed ELSE Ledger!Replayed(record, m[i - 1], i)]

(* The recursion of replay_match has a solution, of whatever length.       *)
LEMMA MatchUnrolls ==
    ASSUME NEW record, NEW n \in Nat
    PROVE  \E m : Unrolled(record, m, n)
<1> DEFINE T == {k \in Nat : \E m : Unrolled(record, m, k)}
<1>1. 0 \in T
  <2>1. Unrolled(record, [i \in 0..0 |-> Ledger!NothingPlayed], 0)
    BY DEF Unrolled
  <2> QED BY <2>1
<1>2. ASSUME NEW k \in T
      PROVE  k + 1 \in T
  <2>1. PICK m : Unrolled(record, m, k)
    OBVIOUS
  <2> DEFINE longer == [i \in 0..k + 1 |-> IF i = 0 THEN Ledger!NothingPlayed
                                           ELSE Ledger!Replayed(record, m[i - 1], i)]
  <2>2. \A i \in 0..k : longer[i] = m[i]
    BY <2>1 DEF Unrolled
  <2>3. ASSUME NEW i \in 0..k + 1
        PROVE  longer[i] = IF i = 0 THEN Ledger!NothingPlayed
                           ELSE Ledger!Replayed(record, longer[i - 1], i)
    <3>1. CASE i = 0
      BY <3>1
    <3>2. CASE i # 0
      <4>1. i - 1 \in 0..k
        BY <3>2
      <4>2. longer[i - 1] = m[i - 1]
        BY <2>2, <4>1
      <4> QED BY <3>2, <4>2
    <3> QED BY <3>1, <3>2
  <2>4. longer = [i \in 0..k + 1 |-> IF i = 0 THEN Ledger!NothingPlayed
                                     ELSE Ledger!Replayed(record, longer[i - 1], i)]
    <3>1. longer = [i \in 0..k + 1 |-> longer[i]]
      OBVIOUS
    <3> HIDE DEF longer
    <3> QED BY <2>3, <3>1, Zenon
  <2>5. Unrolled(record, longer, k + 1)
    <3> HIDE DEF longer
    <3> QED BY <2>4 DEF Unrolled
  <2> HIDE DEF longer
  <2> QED BY <2>5
<1>3. T = Nat
  <2> HIDE DEF T
  <2>1. T \in SUBSET Nat
    BY DEF T
  <2> QED BY <1>1, <1>2, <2>1, Induction
<1> QED BY <1>3

(* So the function of MatchReplay is that solution.                        *)
LEMMA MatchReplayUnrolls ==
    ASSUME NEW record, Len(record) \in Nat
    PROVE  \E m : /\ m[0] = Ledger!NothingPlayed
                  /\ \A i \in 1..Len(record) : m[i] = Ledger!Replayed(record, m[i - 1], i)
                  /\ Ledger!MatchReplay(record) = m[Len(record)]
<1> DEFINE m == CHOOSE f : Unrolled(record, f, Len(record))
<1>1. Unrolled(record, m, Len(record))
  BY MatchUnrolls
<1>2. Ledger!MatchReplay(record) = m[Len(record)]
  BY DEF Ledger!MatchReplay, Unrolled
<1> HIDE DEF m
<1>3. /\ m[0] = Ledger!NothingPlayed
      /\ \A i \in 1..Len(record) : m[i] = Ledger!Replayed(record, m[i - 1], i)
  BY <1>1 DEF Unrolled
<1> QED BY <1>2, <1>3
-----------------------------------------------------------------------------
(* The record of the first n legs, and what there is to know of them.      *)
DartsOf(ls, n) == [k \in 1..n |-> ls[k].darts]

Retraced(ls, n) ==
    [legs   |-> SubSeq(ls, 1, n),
     winner |-> IF n = Len(ls) THEN Champion(ls) ELSE NoTeam,
     raised |-> FALSE]

(* The ledger reads the rotation from a copy of the same module.           *)
LEMMA SameRotation ==
    ASSUME NEW i, NEW w, NEW p
    PROVE  Ledger!StartingTeam(NTeams, i, StartRule, FixedTeam, w, p)
             = StartingTeam(NTeams, i, StartRule, FixedTeam, w, p)
BY DEF Ledger!StartingTeam, StartingTeam, Ledger!NextLoser, NextLoser

(* And counts with its own copy of FiniteSets.                             *)
LEMMA SameCardinality ==
    ASSUME NEW S
    PROVE  Ledger!Cardinality(S) = Cardinality(S)
BY DEF Ledger!Cardinality, Cardinality

(* A prefix of the legs, as the sequence it is.                            *)
LEMMA PrefixOfLegs ==
    ASSUME NEW ls \in Seq(LegRow), NEW n \in 0..Len(ls)
    PROVE  /\ SubSeq(ls, 1, n) \in Seq(LegRow)
           /\ Len(SubSeq(ls, 1, n)) = n
           /\ \A i \in 1..n : SubSeq(ls, 1, n)[i] = ls[i]
<1>1. Len(ls) \in Nat /\ n \in Nat /\ \A i \in 1..n : ls[i] \in LegRow
  BY LenProperties, ElementOfSeq
<1> QED BY <1>1, SubSeqProperties

(* The win that takes a team to the length of the match is the last one:   *)
(* replay_match asks for the exact tally where _advance asks for enough.   *)
LEMMA DecidingWin ==
    ASSUME NEW ls, LegsOK(ls), NEW i \in 1..Len(ls), ls[i].winner # NoTeam,
           NEW wins, wins = {j \in 1..i - 1 : ls[j].winner = ls[i].winner}
    PROVE  1 + Cardinality(wins) = (BestOf + 1) \div 2
             <=> i = Len(ls) /\ ls[i].winner \in Champions(ls)
<1> DEFINE w == ls[i].winner
<1>1. /\ ls \in Seq(LegRow) /\ Len(ls) \in Nat \ {0}
      /\ ls[i] \in LegRow /\ RowOK(ls[i])
  BY LenProperties, ElementOfSeq DEF LegsOK
<1>2. w \in Team
  BY <1>1 DEF LegRow
<1>3. Needed = (BestOf + 1) \div 2 /\ Needed \in Int
  BY MatchAssumption DEF Needed
<1>4. IsFiniteSet(wins) /\ Cardinality(wins) \in Nat
  <2>1. IsFiniteSet(1..Len(ls)) /\ wins \in SUBSET (1..Len(ls))
    BY <1>1, FS_Interval
  <2> QED BY <2>1, FS_Subset, FS_CardinalityType
<1>5. IsFiniteSet(wins \cup {i}) /\ Cardinality(wins \cup {i}) = 1 + Cardinality(wins)
  <2>1. i \notin wins
    OBVIOUS
  <2>2. /\ IsFiniteSet(wins \cup {i})
        /\ Cardinality(wins \cup {i}) = IF i \in wins THEN Cardinality(wins)
                                        ELSE Cardinality(wins) + 1
    BY <1>4, FS_AddElement, Zenon
  <2> QED BY <1>4, <2>1, <2>2
<1>6. /\ FrontOf(ls) \in Seq(LegRow) /\ Len(FrontOf(ls)) = Len(ls) - 1
      /\ \A j \in 1..Len(ls) - 1 : FrontOf(ls)[j] = ls[j]
  BY <1>1, FrontLemma
<1>7. Cardinality(WonBy(FrontOf(ls), w)) < Needed /\ IsFiniteSet(WonBy(FrontOf(ls), w))
      /\ Cardinality(WonBy(FrontOf(ls), w)) \in Nat
  BY <1>2, <1>3, <1>6, WonByFinite DEF LegsOK, Champions
<1>8. CASE i # Len(ls)
  <2>1. wins \cup {i} \subseteq WonBy(FrontOf(ls), w)
    BY <1>1, <1>6, <1>8 DEF WonBy
  <2>2. Cardinality(wins \cup {i}) <= Cardinality(WonBy(FrontOf(ls), w))
    BY <1>7, <2>1, FS_Subset
  <2> QED BY <1>3, <1>4, <1>5, <1>7, <1>8, <2>2
<1>9. CASE i = Len(ls)
  <2>1. wins = WonBy(FrontOf(ls), w) /\ wins \cup {i} = WonBy(ls, w)
    BY <1>1, <1>6, <1>9 DEF WonBy
  <2>2. w \in Champions(ls) <=> Cardinality(wins \cup {i}) >= Needed
    BY <1>2, <2>1 DEF Champions
  <2>3. Cardinality(wins) < Needed
    BY <1>7, <2>1
  <2> QED BY <1>3, <1>4, <1>5, <1>9, <2>2, <2>3
<1> QED BY <1>8, <1>9

(* Replaying one more of the legs retraces one more of them.               *)
LEMMA RetraceLeg ==
    ASSUME NEW ls, LegsOK(ls), NEW n \in 1..Len(ls), NEW i \in 1..n
    PROVE  Ledger!Replayed(DartsOf(ls, n), Retraced(ls, i - 1), i) = Retraced(ls, i)
<1> DEFINE before == Retraced(ls, i - 1)
           leg    == ls[i]
<1>1. /\ ls \in Seq(LegRow) /\ Len(ls) \in Nat \ {0} /\ i \in 1..Len(ls)
      /\ i - 1 \in 0..Len(ls)
      /\ leg \in LegRow /\ RowOK(leg)
  BY LenProperties, ElementOfSeq DEF LegsOK
<1>2. /\ before.legs = SubSeq(ls, 1, i - 1) /\ before.winner = NoTeam /\ before.raised = FALSE
      /\ Len(before.legs) = i - 1
      /\ \A j \in 1..i - 1 : before.legs[j] = ls[j]
  BY <1>1, PrefixOfLegs DEF Retraced
<1> HIDE DEF before
<1>3. Ledger!Started(before, i) = leg.starter
  <2>1. leg.starter = StarterOf(ls, i)
    BY <1>1 DEF LegsOK
  <2>2. CASE i = 1
    BY <2>1, <2>2, SameRotation DEF Ledger!Started, StarterOf
  <2>3. CASE i # 1
    <3>1. i - 1 \in 1..i - 1
      BY <2>3
    <3>2. StarterOf(ls, i) = StartingTeam(NTeams, i - 1, StartRule, FixedTeam,
                                          ls[i - 1].winner, ls[i - 1].starter)
      BY <1>2, <2>3, <3>1 DEF StarterOf, NextStarter, LastOf
    <3>3. Ledger!Started(before, i) = StartingTeam(NTeams, i - 1, StartRule, FixedTeam,
                                                   ls[i - 1].winner, ls[i - 1].starter)
      BY <1>2, <2>3, <3>1, SameRotation DEF Ledger!Started
    <3> QED BY <2>1, <3>2, <3>3
  <2> QED BY <2>2, <2>3
<1>4. Ledger!Replayed(DartsOf(ls, n), before, i) = Ledger!LegPlayed(before, i, leg)
  <2>1. DartsOf(ls, n)[i] = leg.darts /\ LegVerdict(leg.starter, leg.darts) = leg.winner
    BY <1>1 DEF DartsOf, RowOK
  <2>2. leg = [starter |-> leg.starter, winner |-> leg.winner, darts |-> leg.darts]
    BY <1>1 DEF LegRow
  <2> HIDE DEF leg
  <2> QED BY <1>3, <2>1, <2>2 DEF Ledger!Replayed
<1>5. Append(before.legs, leg) = SubSeq(ls, 1, i)
  <2>1. /\ SubSeq(ls, 1, i) \in Seq(LegRow) /\ Len(SubSeq(ls, 1, i)) = i
        /\ \A j \in 1..i : SubSeq(ls, 1, i)[j] = ls[j]
    BY <1>1, PrefixOfLegs
  <2>2. /\ Append(before.legs, leg) \in Seq(LegRow) /\ Len(Append(before.legs, leg)) = i
        /\ \A j \in 1..i - 1 : Append(before.legs, leg)[j] = ls[j]
        /\ Append(before.legs, leg)[i] = leg
    <3>1. before.legs \in Seq(LegRow)
      BY <1>1, <1>2, PrefixOfLegs
    <3> QED BY <1>1, <1>2, <3>1, AppendProperties
  <2>3. \A j \in 1..i : Append(before.legs, leg)[j] = SubSeq(ls, 1, i)[j]
    BY <1>1, <2>1, <2>2
  <2> QED BY <2>1, <2>2, <2>3, SeqEqual
<1> HIDE DEF leg
<1>6. Ledger!LegPlayed(before, i, leg).raised = FALSE
  <2>1. leg.winner # -2
    <3>1. leg.winner \in Team \cup {NoTeam}
      BY <1>1 DEF LegRow
    <3> QED BY <3>1, MatchAssumption DEF Team
  <2>2. i > 1 => before.legs[i - 1].winner # NoTeam
    BY <1>1, <1>2 DEF LegsOK
  <2> QED BY <1>2, <2>1, <2>2 DEF Ledger!LegPlayed
<1>7. Ledger!LegPlayed(before, i, leg).winner = IF i = Len(ls) THEN Champion(ls) ELSE NoTeam
  <2> DEFINE wins == {j \in 1..i - 1 : before.legs[j].winner = leg.winner}
  <2>1. Ledger!LegPlayed(before, i, leg).winner =
          IF leg.winner # NoTeam /\ 1 + Cardinality(wins) = (BestOf + 1) \div 2
          THEN leg.winner ELSE NoTeam
    BY SameCardinality DEF Ledger!LegPlayed
  <2>2. wins = {j \in 1..i - 1 : ls[j].winner = ls[i].winner}
    BY <1>2 DEF leg
  <2>3. leg.winner # NoTeam =>
          (1 + Cardinality(wins) = (BestOf + 1) \div 2
             <=> i = Len(ls) /\ leg.winner \in Champions(ls))
    BY <1>1, <2>2, DecidingWin DEF leg
  <2> HIDE DEF wins
  <2>4. CASE i = Len(ls)
    BY <2>1, <2>3, <2>4, SoleChampion DEF LastOf, leg
  <2>5. CASE i # Len(ls)
    BY <2>1, <2>3, <2>5
  <2> QED BY <2>4, <2>5
<1>8. Ledger!LegPlayed(before, i, leg) = Retraced(ls, i)
  BY <1>5, <1>6, <1>7 DEF Ledger!LegPlayed, Retraced
<1> QED BY <1>4, <1>8 DEF before

(* A record, as the sequence it is.                                        *)
LEMMA DartsOfLegs ==
    ASSUME NEW ls \in Seq(LegRow), NEW n \in 0..Len(ls)
    PROVE  /\ DartsOf(ls, n) \in Seq(DartSeq)
           /\ Len(DartsOf(ls, n)) = n
           /\ \A i \in 1..n : DartsOf(ls, n)[i] = ls[i].darts
<1>1. Len(ls) \in Nat /\ n \in Nat /\ \A i \in 1..n : ls[i] \in LegRow
  BY LenProperties, ElementOfSeq
<1>2. DartsOf(ls, n) \in [1..n -> DartSeq]
  BY <1>1 DEF DartsOf, LegRow
<1>3. DartsOf(ls, n) \in Seq(DartSeq) /\ Len(DartsOf(ls, n)) = n
  BY <1>1, <1>2
<1>4. \A i \in 1..n : DartsOf(ls, n)[i] = ls[i].darts
  BY DEF DartsOf
<1> QED BY <1>3, <1>4

(* replay_match of the darts of the first n legs finds those n legs.       *)
LEMMA Retrace ==
    ASSUME NEW ls, LegsOK(ls), NEW n \in 0..Len(ls)
    PROVE  Ledger!MatchReplay(DartsOf(ls, n)) = Retraced(ls, n)
<1>1. ls \in Seq(LegRow) /\ Len(ls) \in Nat \ {0} /\ n \in Nat
  BY LenProperties DEF LegsOK
<1>2. Len(DartsOf(ls, n)) = n
  BY <1>1, DartsOfLegs
<1>3. PICK m : /\ m[0] = Ledger!NothingPlayed
               /\ \A i \in 1..n : m[i] = Ledger!Replayed(DartsOf(ls, n), m[i - 1], i)
               /\ Ledger!MatchReplay(DartsOf(ls, n)) = m[n]
  BY <1>1, <1>2, MatchReplayUnrolls
<1> DEFINE T == {k \in Nat : k <= n => m[k] = Retraced(ls, k)}
<1>4. 0 \in T
  <2>1. SubSeq(ls, 1, 0) = <<>>
    BY <1>1, PrefixOfLegs, EmptySeq
  <2>2. m[0] = Retraced(ls, 0)
    BY <1>1, <1>3, <2>1 DEF Retraced, Ledger!NothingPlayed
  <2> QED BY <2>2
<1>5. ASSUME NEW k \in T
      PROVE  k + 1 \in T
  <2>1. ASSUME k + 1 <= n
        PROVE  m[k + 1] = Retraced(ls, k + 1)
    <3>1. n \in 1..Len(ls) /\ k + 1 \in 1..n /\ (k + 1) - 1 = k /\ m[k] = Retraced(ls, k)
      BY <1>1, <2>1
    <3>2. m[k + 1] = Ledger!Replayed(DartsOf(ls, n), Retraced(ls, k), k + 1)
      BY <1>3, <3>1
    <3>3. Ledger!Replayed(DartsOf(ls, n), Retraced(ls, (k + 1) - 1), k + 1) = Retraced(ls, k + 1)
      BY <3>1, RetraceLeg
    <3> QED BY <3>1, <3>2, <3>3
  <2> QED BY <2>1
<1>6. T = Nat
  <2> HIDE DEF T
  <2>1. T \in SUBSET Nat
    BY DEF T
  <2> QED BY <1>4, <1>5, <2>1, Induction
<1>7. n \in T
  BY <1>1, <1>6
<1> QED BY <1>1, <1>3, <1>7

(* What the ledger makes of the record of right legs: those legs, whose    *)
(* last is not part of the record before its first dart.                   *)
LEMMA RecordRetraced ==
    ASSUME NEW ls, LegsOK(ls)
    PROVE  /\ ThrownInto(ls) \in 0..Len(ls)
           /\ RecordOf(ls) = DartsOf(ls, ThrownInto(ls))
           /\ Ledger!MatchReplay(RecordOf(ls)) = Retraced(ls, ThrownInto(ls))
           /\ Ledger!MatchReplay(RecordOf(ls)).winner = Champion(ls)
           /\ Ledger!HasOpenLeg(Ledger!MatchReplay(RecordOf(ls)))
                <=> LastOf(ls).winner = NoTeam /\ LastOf(ls).darts # <<>>
<1>1. /\ ls \in Seq(LegRow) /\ Len(ls) \in Nat \ {0}
      /\ LastOf(ls) \in LegRow /\ RowOK(LastOf(ls))
  BY LenProperties, ElementOfSeq DEF LegsOK, LastOf
<1>2. ThrownInto(ls) \in 0..Len(ls)
  BY <1>1 DEF ThrownInto
<1>3. RecordOf(ls) = DartsOf(ls, ThrownInto(ls))
  BY DEF RecordOf, DartsOf, ThrownInto
<1>4. Ledger!MatchReplay(RecordOf(ls)) = Retraced(ls, ThrownInto(ls))
  BY <1>2, <1>3, Retrace
<1>5. SubSeq(ls, 1, Len(ls)) = ls
  BY <1>1, SubSeqFull
<1>6. CASE LastOf(ls).darts = <<>>
  <2>1. LastOf(ls).winner = NoTeam
    BY <1>1, <1>6, VerdictAssumption DEF RowOK, LegRow
  <2>2. Champion(ls) = NoTeam
    BY <2>1, SoleChampion
  <2>3. Retraced(ls, ThrownInto(ls)).winner = NoTeam
    BY <1>1, <1>6, <2>2 DEF Retraced, ThrownInto
  <2>4. ~Ledger!HasOpenLeg(Retraced(ls, ThrownInto(ls)))
    <3> DEFINE front == SubSeq(ls, 1, Len(ls) - 1)
    <3>1. Retraced(ls, ThrownInto(ls)).legs = front /\ Len(ls) - 1 \in 0..Len(ls)
      BY <1>1, <1>6 DEF Retraced, ThrownInto
    <3>2. /\ front \in Seq(LegRow) /\ Len(front) = Len(ls) - 1
          /\ \A i \in 1..Len(ls) - 1 : front[i] = ls[i]
      BY <1>1, <3>1, PrefixOfLegs
    <3> HIDE DEF front
    <3>3. ASSUME front # <<>>
          PROVE  front[Len(front)].winner # NoTeam
      <4>1. Len(ls) - 1 \in 1..Len(ls) - 1
        BY <1>1, <3>2, <3>3, EmptySeq
      <4> QED BY <3>2, <4>1 DEF LegsOK
    <3> QED BY <3>1, <3>3 DEF Ledger!HasOpenLeg
  <2> QED BY <1>2, <1>3, <1>4, <1>6, <2>2, <2>3, <2>4
<1>7. CASE LastOf(ls).darts # <<>>
  <2>1. Retraced(ls, ThrownInto(ls)).winner = Champion(ls) /\ Retraced(ls, ThrownInto(ls)).legs = ls
    BY <1>5, <1>7 DEF Retraced, ThrownInto
  <2>2. ls # <<>>
    BY <1>1
  <2> QED BY <1>2, <1>3, <1>4, <1>7, <2>1, <2>2 DEF Ledger!HasOpenLeg, LastOf
<1> QED BY <1>6, <1>7

(* The rows of RowsAgreeWithReplayMatch, of any right list of legs.        *)
LEMMA OpenLegShown ==
    ASSUME NEW ls, LegsOK(ls), LastOf(ls).winner = NoTeam <=> Champion(ls) = NoTeam
    PROVE  ls = Ledger!WithOpenLeg(RecordOf(ls))
<1>1. /\ ls \in Seq(LegRow) /\ Len(ls) \in Nat \ {0}
      /\ LastOf(ls) \in LegRow /\ RowOK(LastOf(ls)) /\ SubSeq(ls, 1, Len(ls)) = ls
  BY LenProperties, ElementOfSeq, SubSeqFull DEF LegsOK, LastOf
<1>2. CASE LastOf(ls).darts = <<>>
  <2>1. LastOf(ls).winner = NoTeam
    BY <1>1, <1>2, VerdictAssumption DEF RowOK, LegRow
  <2>2. Ledger!WithOpenLeg(RecordOf(ls)) = Ledger!MatchReplay(Append(RecordOf(ls), <<>>)).legs
    BY <1>2, <2>1, RecordRetraced DEF Ledger!WithOpenLeg
  <2>3. Append(RecordOf(ls), <<>>) = DartsOf(ls, Len(ls))
    <3>1. /\ RecordOf(ls) = DartsOf(ls, Len(ls) - 1) /\ Len(ls) - 1 \in 0..Len(ls)
          /\ Len(ls) \in 0..Len(ls)
      BY <1>1, <1>2, RecordRetraced DEF ThrownInto
    <3>2. /\ RecordOf(ls) \in Seq(DartSeq) /\ Len(RecordOf(ls)) = Len(ls) - 1
          /\ \A i \in 1..Len(ls) - 1 : RecordOf(ls)[i] = ls[i].darts
      BY <1>1, <3>1, DartsOfLegs
    <3>3. /\ DartsOf(ls, Len(ls)) \in Seq(DartSeq) /\ Len(DartsOf(ls, Len(ls))) = Len(ls)
          /\ \A i \in 1..Len(ls) : DartsOf(ls, Len(ls))[i] = ls[i].darts
      BY <1>1, <3>1, DartsOfLegs
    <3>4. <<>> \in DartSeq /\ ls[Len(ls)].darts = <<>>
      BY <1>1, <1>2 DEF LegRow, LastOf
    <3> DEFINE record == RecordOf(ls)
               more   == Append(record, <<>>)
    <3>5. /\ more \in Seq(DartSeq) /\ Len(more) = Len(record) + 1
          /\ \A i \in 1..Len(record) : more[i] = record[i]
          /\ more[Len(record) + 1] = <<>>
      <4> HIDE DEF record
      <4> QED BY <3>2, <3>4, AppendProperties DEF record
    <3> HIDE DEF more, record
    <3>6. Len(record) = Len(ls) - 1 /\ \A i \in 1..Len(ls) - 1 : record[i] = ls[i].darts
      BY <3>2 DEF record
    <3>7. Len(more) = Len(ls) /\ \A i \in 1..Len(ls) : more[i] = DartsOf(ls, Len(ls))[i]
      <4>1. PICK n \in Nat \ {0} : n = Len(ls) /\ Len(record) = n - 1
        BY <1>1, <3>6
      <4>2. Len(more) = n
        BY <3>5, <4>1
      <4>3. \A i \in 1..n - 1 : more[i] = ls[i].darts
        BY <3>5, <3>6, <4>1
      <4>4. more[n] = ls[n].darts
        BY <3>4, <3>5, <4>1
      <4>5. \A i \in 1..n : i \in 1..n - 1 \/ i = n
        OBVIOUS
      <4> QED BY <3>3, <4>1, <4>2, <4>3, <4>4, <4>5
    <3>8. more = DartsOf(ls, Len(ls))
      BY <3>3, <3>5, <3>7, SeqEqual
    <3> QED BY <3>8 DEF more, record
  <2>4. Ledger!MatchReplay(DartsOf(ls, Len(ls))) = Retraced(ls, Len(ls))
    BY <1>1, Retrace
  <2>5. Retraced(ls, Len(ls)).legs = ls
    BY <1>1 DEF Retraced
  <2> QED BY <2>2, <2>3, <2>4, <2>5, Zenon
<1>3. CASE LastOf(ls).darts # <<>>
  <2>1. Ledger!WithOpenLeg(RecordOf(ls)) = Ledger!MatchReplay(RecordOf(ls)).legs
    BY <1>3, RecordRetraced DEF Ledger!WithOpenLeg
  <2>2. Ledger!MatchReplay(RecordOf(ls)) = Retraced(ls, Len(ls))
    BY <1>3, RecordRetraced DEF ThrownInto
  <2> QED BY <1>1, <2>1, <2>2 DEF Retraced
<1> QED BY <1>2, <1>3

(* RowsAgreeWithReplayMatch, for every game: the rows _advance reconciles  *)
(* dart by dart are the ones replay_match would make of the whole match.   *)
THEOREM RowsAgreeTheorem == Spec => []RowsAgreeWithReplayMatch
<1>1. Inductive => RowsAgreeWithReplayMatch
  <2> SUFFICES ASSUME Inductive
               PROVE  RowsAgreeWithReplayMatch
    OBVIOUS
  <2>1. /\ LegsOK(legs) /\ winner = Champion(legs)
        /\ LastOf(legs).winner = NoTeam <=> Champion(legs) = NoTeam
    BY DEF Inductive
  <2>2. legs = Ledger!WithOpenLeg(RecordOf(legs))
    BY <2>1, OpenLegShown
  <2>3. ~Ledger!MatchReplay(RecordOf(legs)).raised
    BY <2>1, RecordRetraced DEF Retraced
  <2> QED BY <2>1, <2>2, <2>3, RecordRetraced DEF RowsAgreeWithReplayMatch
<1> QED BY <1>1, InductiveInvariant, PTL
-----------------------------------------------------------------------------
(* A dart thrown is a dart recorded at the end of the ledger: into the leg *)
(* being played, or into the first of a new one.                           *)
LEMMA ThrowRecords ==
    ASSUME Inductive, Inductive', NEW k \in 1..Len(legs), NEW d \in Dart, Throw(k, d)
    PROVE  Ledger!Record(d)
<1>1. PICK new : new = [legs EXCEPT ![Len(legs)] = Thrown(legs[k], d)]
  OBVIOUS
<1>2. /\ k = Len(legs) /\ legs[k] = LastOf(legs) /\ Thrown(legs[k], d) \in LegRow
      /\ LegsOK(new) /\ LastOf(new) = Thrown(legs[k], d)
      /\ legs' = Extended(new, Champion(new))
  <2>1. CanThrow(k, d) /\ legs' = AfterThrow(legs, k, d).legs
    BY DEF Throw
  <2>2. /\ k = Len(legs) /\ legs[k] = LastOf(legs) /\ Thrown(legs[k], d) \in LegRow
        /\ LegsOK(new) /\ LastOf(new) = Thrown(legs[k], d)
        /\ AfterThrow(legs, k, d) = [legs   |-> Extended(new, Champion(new)),
                                     winner |-> Champion(new)]
    BY <1>1, <2>1, ThrownLegs
  <2> QED BY <2>1, <2>2
<1>3. /\ LegsOK(legs) /\ legs \in Seq(LegRow) /\ k \in Nat \ {0} /\ legs[k] \in LegRow
      /\ winner = NoTeam /\ ~abandoned /\ winner = Champion(legs)
      /\ legs[k].winner = NoTeam
  <2>1. LegsOK(legs) /\ legs \in Seq(LegRow) /\ Len(legs) > 0
    BY DEF Inductive, LegsOK
  <2>2. winner = NoTeam /\ ~abandoned /\ winner = Champion(legs) /\ legs[k].winner = NoTeam
    BY DEF Inductive, Throw, CanThrow
  <2> QED BY <1>2, <2>1, <2>2, LenProperties, ElementOfSeq
<1>4. /\ new \in Seq(LegRow) /\ Len(new) = k
      /\ \A j \in 1..k : new[j] = IF j = k THEN Thrown(legs[k], d) ELSE legs[j]
  BY <1>1, <1>2, <1>3, ExceptSeq
<1>5. /\ legs[k].darts \in Seq(Dart)
      /\ Thrown(legs[k], d).darts = Append(legs[k].darts, d)
      /\ Thrown(legs[k], d).darts # <<>>
  <2>1. legs[k].darts \in Seq(Dart)
    BY <1>3, DartSeqLemma DEF LegRow
  <2>2. Thrown(legs[k], d).darts = Append(legs[k].darts, d)
    BY <1>3 DEF Thrown, LegRow
  <2> QED BY <2>1, <2>2, AppendProperties
<1>6. RecordOf(legs') = DartsOf(new, k)
  <2>1. CASE legs' = new
    BY <1>2, <1>4, <1>5, <2>1 DEF RecordOf, DartsOf
  <2>2. CASE legs' # new
    <3>1. /\ legs' = Append(new, NewLeg(NextStarter(new))) /\ LegsOK(legs')
      BY <1>2, <2>2 DEF Extended, Inductive
    <3>2. legs' \in Seq(LegRow)
      BY <3>1 DEF LegsOK
    <3>3. /\ Len(legs') = k + 1
          /\ \A j \in 1..k : legs'[j] = new[j]
          /\ legs'[k + 1] = NewLeg(NextStarter(new))
      <4>1. PICK leg : leg = NewLeg(NextStarter(new))
        OBVIOUS
      <4>2. new \in Seq(LegRow \cup {leg}) /\ leg \in LegRow \cup {leg}
        BY <1>4
      <4>3. legs' = Append(new, leg)
        BY <3>1, <4>1
      <4> QED BY <1>4, <4>1, <4>2, <4>3, AppendProperties
    <3>4. LastOf(legs').darts = <<>>
      BY <3>3 DEF LastOf, NewLeg
    <3>5. RecordOf(legs') = [j \in 1..k |-> legs'[j].darts]
      BY <1>3, <3>3, <3>4 DEF RecordOf
    <3> QED BY <3>3, <3>5 DEF DartsOf
  <2> QED BY <2>1, <2>2
<1>7. DartsOf(new, k) = Ledger!Longer(RecordOf(legs), d)
  <2>1. ThrownInto(legs) = (IF legs[k].darts = <<>> THEN k - 1 ELSE k)
    BY <1>2 DEF ThrownInto
  <2>2. /\ RecordOf(legs) = DartsOf(legs, ThrownInto(legs))
        /\ Ledger!HasOpenLeg(Ledger!MatchReplay(RecordOf(legs))) <=> legs[k].darts # <<>>
    BY <1>2, <1>3, RecordRetraced
  <2>3. /\ DartsOf(new, k) \in Seq(DartSeq) /\ Len(DartsOf(new, k)) = k
        /\ \A j \in 1..k - 1 : DartsOf(new, k)[j] = legs[j].darts
        /\ DartsOf(new, k)[k] = Append(legs[k].darts, d)
    <3>1. k \in 0..Len(new)
      BY <1>3, <1>4
    <3>2. /\ DartsOf(new, k) \in Seq(DartSeq) /\ Len(DartsOf(new, k)) = k
          /\ \A j \in 1..k : DartsOf(new, k)[j] = new[j].darts
      BY <1>4, <3>1, DartsOfLegs
    <3>3. new[k].darts = Append(legs[k].darts, d) /\ \A j \in 1..k - 1 : new[j] = legs[j]
      BY <1>3, <1>4, <1>5
    <3>4. k \in 1..k /\ \A j \in 1..k - 1 : j \in 1..k
      BY <1>3
    <3> QED BY <3>2, <3>3, <3>4
  <2>4. CASE legs[k].darts = <<>>
    <3> DEFINE record == RecordOf(legs)
               more   == Append(record, <<d>>)
    <3>1. /\ record \in Seq(DartSeq) /\ Len(record) = k - 1
          /\ \A j \in 1..k - 1 : record[j] = legs[j].darts
      <4>1. k - 1 \in 0..Len(legs) /\ record = DartsOf(legs, k - 1)
        BY <1>2, <1>3, <2>1, <2>2, <2>4
      <4> HIDE DEF record
      <4> QED BY <1>3, <4>1, DartsOfLegs
    <3> HIDE DEF record
    <3>2. Append(legs[k].darts, d) = <<d>>
      BY <2>4
    <3>3. <<d>> \in DartSeq
      <4>1. k \in 1..k
        BY <1>3
      <4>2. DartsOf(new, k)[k] \in DartSeq
        BY <2>3, <4>1, ElementOfSeq
      <4> QED BY <2>3, <3>2, <4>2
    <3>4. /\ more \in Seq(DartSeq) /\ Len(more) = Len(record) + 1
          /\ \A j \in 1..Len(record) : more[j] = record[j]
          /\ more[Len(record) + 1] = <<d>>
      BY <3>1, <3>3, AppendProperties
    <3> HIDE DEF more
    <3>5. Len(more) = k /\ \A j \in 1..k : more[j] = DartsOf(new, k)[j]
      BY <1>3, <2>3, <3>1, <3>2, <3>4
    <3>6. more = DartsOf(new, k)
      BY <2>3, <3>4, <3>5, SeqEqual
    <3>7. Ledger!Longer(record, d) = more
      BY <2>2, <2>4 DEF Ledger!Longer, more, record
    <3> QED BY <3>6, <3>7 DEF record
  <2>5. CASE legs[k].darts # <<>>
    <3> DEFINE record == RecordOf(legs)
               more   == [record EXCEPT ![k] = Append(record[k], d)]
    <3>1. /\ record \in Seq(DartSeq) /\ Len(record) = k
          /\ \A j \in 1..k : record[j] = legs[j].darts
      <4>1. k \in 0..Len(legs) /\ record = DartsOf(legs, k)
        BY <1>2, <1>3, <2>1, <2>2, <2>5
      <4> HIDE DEF record
      <4> QED BY <1>3, <4>1, DartsOfLegs
    <3> HIDE DEF record
    <3>2. Ledger!Longer(record, d) = more
      BY <2>2, <2>5, <3>1 DEF Ledger!Longer, record
    <3>3. k \in 1..k /\ record[k] = legs[k].darts
      BY <1>3, <3>1
    <3>4. Append(record[k], d) \in DartSeq
      BY <2>3, <3>3, ElementOfSeq
    <3>5. /\ more \in Seq(DartSeq) /\ Len(more) = k
          /\ \A j \in 1..k : more[j] = IF j = k THEN Append(record[k], d) ELSE record[j]
      BY <1>3, <3>1, <3>4, ExceptSeq
    <3> HIDE DEF more
    <3>6. ASSUME NEW j \in 1..k
          PROVE  more[j] = DartsOf(new, k)[j]
      <4>1. CASE j = k
        BY <2>3, <3>3, <3>5, <4>1
      <4>2. CASE j # k
        <5>1. j \in 1..k - 1
          BY <1>3, <4>2
        <5>2. more[j] = record[j] /\ record[j] = legs[j].darts
          BY <3>1, <3>5, <4>2
        <5> QED BY <2>3, <5>1, <5>2
      <4> QED BY <4>1, <4>2
    <3>7. more = DartsOf(new, k)
      BY <2>3, <3>5, <3>6, SeqEqual
    <3> QED BY <3>2, <3>7 DEF record
  <2> QED BY <2>4, <2>5
<1>8. Ledger!MatchReplay(RecordOf(legs)).winner = NoTeam
  BY <1>3, RecordRetraced
<1>9. ~Ledger!MatchReplay(RecordOf(legs')).raised
  <2>1. PICK ls : ls = legs'
    OBVIOUS
  <2>2. LegsOK(ls)
    BY <2>1 DEF Inductive
  <2> QED BY <2>1, <2>2, RecordRetraced DEF Retraced
<1>10. RecordOf(legs)' = Ledger!Longer(RecordOf(legs), d)
  <2>1. RecordOf(legs)' = RecordOf(legs')
    BY DEF RecordOf, LastOf
  <2> QED BY <1>6, <1>7, <2>1
<1>11. abandoned' = abandoned
  BY DEF Throw
<1> QED BY <1>3, <1>6, <1>7, <1>8, <1>9, <1>10, <1>11 DEF Ledger!Record

(* A dart taken back is the last one of the ledger.                        *)
LEMMA UndoTakesBack ==
    ASSUME Inductive, NEW k \in 1..Len(legs), Undo(k)
    PROVE  Ledger!TakeBack
<1> DEFINE darts == legs[k].darts
<1>1. /\ k = ThrownInto(legs)
      /\ legs' \in Seq(LegRow) /\ Len(legs') = k /\ legs'[k] \in LegRow
      /\ legs'[k].darts = SubSeq(darts, 1, Len(darts) - 1)
      /\ \A j \in 1..k - 1 : legs'[j] = legs[j]
  BY UndoStep
<1>2. /\ LegsOK(legs) /\ legs \in Seq(LegRow) /\ k \in Nat \ {0} /\ k \in 0..Len(legs)
      /\ legs[k] \in LegRow /\ darts # <<>> /\ ~abandoned /\ abandoned' = abandoned
  <2>1. LegsOK(legs) /\ legs \in Seq(LegRow)
    BY DEF Inductive, LegsOK
  <2>2. darts # <<>> /\ ~abandoned /\ abandoned' = abandoned
    BY DEF Undo, CanUndo
  <2> QED BY <2>1, <2>2, LenProperties, ElementOfSeq
<1>3. PICK record : record = RecordOf(legs)
  OBVIOUS
<1>4. /\ record \in Seq(DartSeq) /\ Len(record) = k
      /\ \A j \in 1..k : record[j] = legs[j].darts
  <2>1. record = DartsOf(legs, k)
    BY <1>1, <1>2, <1>3, RecordRetraced
  <2> QED BY <1>2, <2>1, DartsOfLegs
<1>5. /\ darts \in Seq(Dart) /\ Len(darts) \in Nat \ {0}
      /\ SubSeq(darts, 1, Len(darts) - 1) \in Seq(Dart)
      /\ Len(SubSeq(darts, 1, Len(darts) - 1)) = Len(darts) - 1
  <2>1. darts \in Seq(Dart)
    BY <1>2, DartSeqLemma DEF LegRow
  <2>2. Len(darts) \in Nat \ {0}
    BY <1>2, <2>1, LenProperties, EmptySeq
  <2> QED BY <2>1, <2>2, SubSeqProperties, ElementOfSeq
<1>6. record[k] = darts /\ k \in 1..k
  BY <1>2, <1>4
<1>7. RecordOf(legs') = [j \in 1..(IF Len(darts) = 1 THEN k - 1 ELSE k) |-> legs'[j].darts]
  <2>1. LastOf(legs').darts = <<>> <=> Len(darts) = 1
    <3>1. PICK less : less = SubSeq(darts, 1, Len(darts) - 1)
      OBVIOUS
    <3>2. less \in Seq(Dart) /\ Len(less) = Len(darts) - 1
      BY <1>5, <3>1
    <3>3. LastOf(legs').darts = less
      BY <1>1, <3>1 DEF LastOf
    <3> HIDE DEF darts
    <3> QED BY <1>5, <3>2, <3>3, EmptySeq
  <2> QED BY <1>1, <2>1 DEF RecordOf
<1>8. RecordOf(legs') = Ledger!Shorter(record)
  <2>1. CASE Len(darts) = 1
    <3>1. RecordOf(legs') = [j \in 1..k - 1 |-> record[j]]
      <4>1. \A j \in 1..k - 1 : legs'[j].darts = record[j]
        BY <1>1, <1>2, <1>4
      <4> QED BY <1>7, <2>1, <4>1
    <3>2. SubSeq(record, 1, k - 1) = [j \in 1..k - 1 |-> record[j]]
      <4>1. k - 1 \in Nat /\ \A j \in 1..k - 1 : record[j] \in DartSeq /\ j \in 1..k
        BY <1>2, <1>4, ElementOfSeq
      <4>2. /\ SubSeq(record, 1, k - 1) \in Seq(DartSeq) /\ Len(SubSeq(record, 1, k - 1)) = k - 1
            /\ \A j \in 1..k - 1 : SubSeq(record, 1, k - 1)[j] = record[j]
        BY <1>4, <4>1, SubSeqProperties
      <4>3. DOMAIN SubSeq(record, 1, k - 1) = 1..k - 1
        BY <4>2, LenProperties
      <4> QED BY <4>2, <4>3
    <3>3. Ledger!Shorter(record) = SubSeq(record, 1, k - 1)
      BY <1>4, <1>6, <2>1 DEF Ledger!Shorter
    <3> QED BY <3>1, <3>2, <3>3
  <2>2. CASE Len(darts) # 1
    <3> DEFINE less == SubSeq(darts, 1, Len(darts) - 1)
    <3>1. RecordOf(legs') = [j \in 1..k |-> legs'[j].darts]
      BY <1>7, <2>2
    <3>2. DOMAIN record = 1..k /\ record = [j \in 1..k |-> record[j]]
      BY <1>4, LenProperties
    <3>3. Ledger!Shorter(record) = [record EXCEPT ![k] = less]
      BY <1>4, <1>6, <2>2 DEF Ledger!Shorter
    <3> HIDE DEF less
    <3>4. [record EXCEPT ![k] = less] = [j \in 1..k |-> IF j = k THEN less ELSE record[j]]
      BY <3>2
    <3>5. ASSUME NEW j \in 1..k
          PROVE  legs'[j].darts = IF j = k THEN less ELSE record[j]
      <4>1. j = k \/ j \in 1..k - 1
        BY <1>2
      <4> QED BY <1>1, <1>4, <4>1 DEF less
    <3> QED BY <3>1, <3>3, <3>4, <3>5
  <2> QED BY <2>1, <2>2
<1>9. record # <<>>
  BY <1>2, <1>4
<1>10. RecordOf(legs)' = RecordOf(legs')
  BY DEF RecordOf, LastOf
<1> QED BY <1>2, <1>3, <1>8, <1>9, <1>10 DEF Ledger!TakeBack

(* ImplementsLedger, for every game: each step of the service records one  *)
(* dart at the end, takes the last one back or closes the match, and       *)
(* refuses what replay_match would refuse.                                 *)
THEOREM ServiceImplementsLedger == Spec => ImplementsLedger
<1>1. Init => Ledger!Init
  <2> SUFFICES ASSUME Init
               PROVE  Ledger!Init
    OBVIOUS
  <2>1. PICK leg : leg = NewLeg(StartingTeam(NTeams, 0, StartRule, FixedTeam, NoTeam, 0))
    OBVIOUS
  <2>2. legs = <<leg>> /\ leg.darts = <<>> /\ abandoned = FALSE
    BY <2>1 DEF Init, NewLeg
  <2>3. RecordOf(legs) = <<>>
    BY <2>2 DEF RecordOf, LastOf
  <2> QED BY <2>2, <2>3 DEF Ledger!Init
<1>2. Inductive /\ Inductive' /\ [Next]_vars => [Ledger!Next]_(Ledger!vars)
  <2> SUFFICES ASSUME Inductive, Inductive', [Next]_vars
               PROVE  [Ledger!Next]_(Ledger!vars)
    OBVIOUS
  <2>1. CASE \E k \in 1..Len(legs), d \in Dart : Throw(k, d)
    BY <2>1, ThrowRecords DEF Ledger!Next
  <2>2. CASE \E k \in 1..Len(legs) : Undo(k)
    BY <2>2, UndoTakesBack DEF Ledger!Next
  <2>3. CASE Abandon
    <3>1. Ledger!MatchReplay(RecordOf(legs)).winner = NoTeam
      BY <2>3, RecordRetraced DEF Abandon, Inductive
    <3>2. RecordOf(legs)' = RecordOf(legs)
      BY <2>3 DEF Abandon, RecordOf, LastOf
    <3> QED BY <2>3, <3>1, <3>2 DEF Abandon, Ledger!Close, Ledger!Next
  <2>4. CASE UNCHANGED vars
    BY <2>4 DEF vars, RecordOf, LastOf, Ledger!vars
  <2> QED BY <2>1, <2>2, <2>3, <2>4 DEF Next
<1> QED BY <1>1, <1>2, InductiveInvariant, PTL DEF Spec, ImplementsLedger, Ledger!Spec
=============================================================================
