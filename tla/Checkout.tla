------------------------------- MODULE Checkout -------------------------------
(***************************************************************************)
(* The checkout table: which x01 scores can be finished with how many      *)
(* darts, and the paths suggested for them (backend/darts/engine/          *)
(* checkout_gen.py, which generates checkout_table.py, and checkout.py,    *)
(* which looks scores up in it).                                           *)
(***************************************************************************)
EXTENDS X01, FiniteSets

CONSTANT TopScore           \* bound: the highest score the table is built for

ASSUME TopScoreAssumption == TopScore \in Nat

MaxPathDarts == 3

PathsPerEntry == 3

ScoringThrows == {t \in AllThrows : Score(t) \in 1..TopScore}

(* checkout_gen's own copy of the out-rule, kept apart from x01's.         *)
Finishes(rule, t) ==
    CASE rule = "straight" -> TRUE
      [] rule = "double"   -> t.multiplier = 2
      [] rule = "master"   -> t.multiplier \in {2, 3}

(* What a dart before the last costs, in two bands: a bull or a double is  *)
(* awkward, and outweighs whatever else the path is made of.               *)
SetupCost(t) ==
    IF t.multiplier = 1 \/ t = [segment |-> 20, multiplier |-> 3] THEN 0
    ELSE IF t = [segment |-> 19, multiplier |-> 3] THEN 1 ELSE 2

AwkwardUnit == 10           \* one above the dearest path: two setups at 2, a finish at 5

SetupWeight(t) ==
    SetupCost(t) + AwkwardUnit * (IF t.segment = Bull THEN 3
                                  ELSE IF t.multiplier = 2 THEN 1 ELSE 0)

(* How often a double missed into its single still leaves a double.        *)
Halvings(segment) == Cardinality({k \in 1..4 : segment % 2^k = 0})

FinishCost(t) ==
    IF t.segment = Bull \/ t.multiplier = 3 THEN 5
    ELSE IF t.multiplier = 1 THEN 0
    ELSE (CASE Halvings(t.segment) = 0 -> 5
            [] Halvings(t.segment) = 1 -> 3
            [] Halvings(t.segment) = 2 -> 1
            [] OTHER                   -> 0)
         + (IF t.segment \in {2, 4} THEN 1 ELSE 0)

Ordinal(t) == 4 * t.segment + t.multiplier      \* the order of SCORING_THROWS

FirstDartRank(t) == IF t.segment = Bull THEN 0 ELSE -Ordinal(t)

RankKey(path) ==
    LET n == Len(path)
        Weight(i) == IF i = n THEN FinishCost(path[i]) ELSE SetupWeight(path[i])
        total[i \in 0..n] == IF i = 0 THEN 0 ELSE total[i - 1] + Weight(i)
    IN  <<n, total[n], FirstDartRank(path[1])>> \o [i \in 1..n |-> Ordinal(path[i])]

Precedes(a, b) == \E i \in DOMAIN a : a[i] < b[i] /\ \A j \in 1..i - 1 : a[j] = b[j]

Outranks(p, q) == Precedes(RankKey(p), RankKey(q))

(* Every path of one, two and three scoring darts, by the score it checks  *)
(* out: the last dart finishes, and the darts before it may be any.        *)
OneDart ==
    [rule \in X01Rule |-> [total \in 0..TopScore |->
        {<<t>> : t \in {u \in ScoringThrows : Score(u) = total /\ Finishes(rule, u)}}]]

Preceded(paths) ==
    [rule \in X01Rule |-> [total \in 0..TopScore |->
        UNION {{<<t>> \o p : p \in paths[rule][total - Score(t)]} :
                   t \in {u \in ScoringThrows : Score(u) < total}}]]

TwoDarts == Preceded(OneDart)

ThreeDarts == Preceded(TwoDarts)

(* The best few of a set of paths, best first.                             *)
BestOfPaths(paths) ==
    LET ranked[i \in 0..PathsPerEntry] ==
          IF i = 0 THEN <<>>
          ELSE LET before == ranked[i - 1]
                   rest   == {p \in paths : \A j \in DOMAIN before : before[j] # p}
               IN  IF rest = {} THEN before
                   ELSE Append(before, CHOOSE p \in rest : \A q \in rest : ~Outranks(q, p))
    IN  ranked[PathsPerEntry]

(* What more darts can do is ranked behind what fewer can, and only the    *)
(* best of it all is kept.                                                 *)
BestFirst(pathSets) ==
    LET best[n \in 0..Len(pathSets)] ==
          IF n = 0 THEN <<>>
          ELSE LET both == best[n - 1] \o BestOfPaths(pathSets[n])
               IN  SubSeq(both, 1, IF Len(both) < PathsPerEntry THEN Len(both)
                                                                ELSE PathsPerEntry)
    IN  best[Len(pathSets)]

CheckoutTable ==
    [rule \in X01Rule |-> [n \in 1..MaxPathDarts |-> [remaining \in 1..TopScore |->
        BestFirst(SubSeq(<<OneDart[rule][remaining], TwoDarts[rule][remaining],
                           ThreeDarts[rule][remaining]>>, 1, n))]]]

Suggest(remaining, dartsLeft, rule) ==
    IF remaining \in 1..TopScore THEN CheckoutTable[rule][dartsLeft][remaining] ELSE <<>>

(* Membership of the table is checkability.                                *)
IsCheckable(remaining, dartsLeft, rule) == Suggest(remaining, dartsLeft, rule) # <<>>

WasCheckoutAttempt(remaining, rule) == IsCheckable(remaining, 1, rule)
=============================================================================
