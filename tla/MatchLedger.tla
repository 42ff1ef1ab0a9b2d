----------------------------- MODULE MatchLedger -----------------------------
(***************************************************************************)
(* What the play service promises: a match is the record of its darts, one *)
(* sequence per leg thrown into, and everything said of it - starters,     *)
(* winners, the leg being played, the champion - is what replay_match      *)
(* (backend/darts/engine/replay.py) makes of that record.  A dart is added *)
(* at the end, or the last one taken off.                                  *)
(*                                                                         *)
(* The service never calls replay_match ("Why replay_match is not used",   *)
(* play.py): it keeps each conclusion in a row and reconciles the rows.    *)
(* MatchRefinement.tla says that this comes to the same thing.             *)
(***************************************************************************)
EXTENDS Rotation, Sequences, FiniteSets

CONSTANTS NTeams, BestOf, StartRule, FixedTeam, Dart, MaxDarts, LegVerdict(_, _)

VARIABLES
    ledger,             \* the darts of each leg thrown into, in order
    closed              \* the match was abandoned

vars == <<ledger, closed>>

(* What is known before the first leg, and once leg i of the record has    *)
(* been replayed too: the legs with starter and winner, the match winner,  *)
(* and `raised' when the record is one the engine refuses.                 *)
NothingPlayed == [legs |-> <<>>, winner |-> NoTeam, raised |-> FALSE]

Started(before, i) ==
    IF i = 1 THEN StartingTeam(NTeams, 0, StartRule, FixedTeam, NoTeam, 0)
    ELSE StartingTeam(NTeams, i - 1, StartRule, FixedTeam,
                      before.legs[i - 1].winner, before.legs[i - 1].starter)

LegPlayed(before, i, leg) ==
    LET tally == 1 + Cardinality({j \in 1..i - 1 : before.legs[j].winner = leg.winner})
    IN  [legs   |-> Append(before.legs, leg),
         winner |-> IF leg.winner # NoTeam /\ tally = (BestOf + 1) \div 2
                    THEN leg.winner ELSE NoTeam,
         raised |-> \/ before.raised
                    \/ leg.winner = -2
                    \/ before.winner # NoTeam
                    \/ i > 1 /\ before.legs[i - 1].winner = NoTeam]

Replayed(record, before, i) ==
    LegPlayed(before, i, [starter |-> Started(before, i),
                          winner  |-> LegVerdict(Started(before, i), record[i]),
                          darts   |-> record[i]])

MatchReplay(record) ==
    LET m[i \in 0..Len(record)] ==
          IF i = 0 THEN NothingPlayed ELSE Replayed(record, m[i - 1], i)
    IN  m[Len(record)]

(* replay_match exposes a fresh opening leg until the match is won.        *)
HasOpenLeg(match) ==
    match.legs # <<>> /\ match.legs[Len(match.legs)].winner = NoTeam

WithOpenLeg(record) ==
    IF HasOpenLeg(MatchReplay(record)) \/ MatchReplay(record).winner # NoTeam
    THEN MatchReplay(record).legs
    ELSE MatchReplay(Append(record, <<>>)).legs

Init == ledger = <<>> /\ closed = FALSE

Longer(record, d) ==
    IF HasOpenLeg(MatchReplay(record))
    THEN [record EXCEPT ![Len(record)] = Append(@, d)]
    ELSE Append(record, <<d>>)

Shorter(record) ==
    LET n == Len(record)
    IN  IF Len(record[n]) = 1 THEN SubSeq(record, 1, n - 1)
        ELSE [record EXCEPT ![n] = SubSeq(@, 1, Len(@) - 1)]

Record(d) ==
    /\ ~closed
    /\ MatchReplay(ledger).winner = NoTeam
    /\ ~MatchReplay(Longer(ledger, d)).raised
    /\ ledger' = Longer(ledger, d)
    /\ UNCHANGED closed

TakeBack ==
    /\ ~closed
    /\ ledger # <<>>
    /\ ledger' = Shorter(ledger)
    /\ UNCHANGED closed

Close ==
    /\ MatchReplay(ledger).winner = NoTeam
    /\ closed' = TRUE
    /\ UNCHANGED ledger

Next == (\E d \in Dart : Record(d)) \/ TakeBack \/ Close

Spec == Init /\ [][Next]_vars
=============================================================================
