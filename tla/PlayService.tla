----------------------------- MODULE PlayService -----------------------------
(***************************************************************************)
(* The life of one match as the play service records it                    *)
(* (backend/darts/services/play.py): the darts of each leg, and the        *)
(* conclusions stored beside them - who started and who won each leg, who  *)
(* won the match, whether it was abandoned.  Every operation is one        *)
(* BEGIN IMMEDIATE transaction, hence one step.                            *)
(*                                                                         *)
(* The game itself is a parameter: LegVerdict says what the engine makes   *)
(* of a leg's darts.  PlayRows fills it in with the replay of Replay.tla   *)
(* and adds the rows derived dart by dart.                                 *)
(*                                                                         *)
(* A leg is identified by its place in `legs', which is legs.leg_index     *)
(* plus one.  legs.id has no AUTOINCREMENT, so a leg deleted by an undo    *)
(* and opened again gets its id back, as it gets its place back here.      *)
(***************************************************************************)
EXTENDS Rotation, Sequences, FiniteSets

CONSTANTS
    NTeams,             \* number of teams of the match
    BestOf,             \* odd; BestOf \div 2 + 1 legs win the match
    StartRule,          \* who starts a leg
    FixedTeam,          \* the team the start rule starts from
    Dart,               \* the throws explored
    MaxDarts,           \* bound on the darts of one leg
    LegVerdict(_, _)    \* the winner of a leg, of its starter and its darts

Team == 0..NTeams - 1

DartSeq == UNION {[1..k -> Dart] : k \in 0..MaxDarts}

Refused == -2           \* the engine raises instead of answering

ASSUME MatchAssumption ==
    /\ NTeams \in Nat \ {0}
    /\ BestOf \in Nat /\ BestOf % 2 = 1
    /\ StartRule \in StartRules
    /\ FixedTeam \in Team
    /\ MaxDarts \in Nat

(* What the service relies on the engine for: an answer for every leg, and *)
(* no winner before the first dart.                                        *)
ASSUME VerdictAssumption ==
    /\ \A s \in Team : LegVerdict(s, <<>>) = NoTeam
    /\ \A s \in Team, d \in DartSeq : LegVerdict(s, d) \in Team \cup {NoTeam, Refused}

VARIABLES
    legs,               \* the legs in playing order: [starter, winner, darts]
    winner,             \* matches.winner_team_id
    abandoned           \* matches.abandoned_at is set

vars == <<legs, winner, abandoned>>

LegRow == [starter : Team, winner : Team \cup {NoTeam}, darts : DartSeq]

NewLeg(start) == [starter |-> start, winner |-> NoTeam, darts |-> <<>>]

LastOf(ls) == ls[Len(ls)]

FrontOf(ls) == SubSeq(ls, 1, Len(ls) - 1)

Needed == BestOf \div 2 + 1

WonBy(ls, team) == {i \in 1..Len(ls) : ls[i].winner = team}

Champions(ls) == {team \in Team : Cardinality(WonBy(ls, team)) >= Needed}

(* The first team, in team order, with enough legs.                        *)
Champion(ls) ==
    IF Champions(ls) = {} THEN NoTeam
    ELSE CHOOSE team \in Champions(ls) : \A other \in Champions(ls) : team <= other

NextStarterLate(ls) ==                  \* mutant: the index of the leg just won
    StartingTeam(NTeams, Len(ls) - 1, StartRule, FixedTeam,
                 LastOf(ls).winner, LastOf(ls).starter)

(* The team that starts the leg after the last of `ls', read off the       *)
(* stored chain.                                                           *)
NextStarter(ls) ==
    StartingTeam(NTeams, Len(ls), StartRule, FixedTeam, LastOf(ls).winner, LastOf(ls).starter)

IsEmptyLeg(leg) == leg.winner = NoTeam /\ leg.darts = <<>>

(* _advance: give the leg its replayed winner and reconcile the list of    *)
(* legs with it.                                                           *)
SettledOnce(ls, k, verdict) ==          \* mutant: a winner once stored is never cleared
    [ls EXCEPT ![k].winner = IF verdict = NoTeam THEN @ ELSE verdict]

Settled(ls, k, verdict) == [ls EXCEPT ![k].winner = verdict]

TrimmedNever(ls) == ls                  \* mutant: a leg once opened stays

Trimmed(ls) ==
    IF Len(ls) > 1 /\ ls[Len(ls) - 1].winner = NoTeam /\ IsEmptyLeg(LastOf(ls))
    THEN FrontOf(ls) ELSE ls

ExtendedAlways(ls, champion) ==         \* mutant: a leg is opened after the deciding one
    IF LastOf(ls).winner # NoTeam THEN Append(ls, NewLeg(NextStarter(ls))) ELSE ls

Extended(ls, champion) ==
    IF champion = NoTeam /\ LastOf(ls).winner # NoTeam
    THEN Append(ls, NewLeg(NextStarter(ls))) ELSE ls

Advanced(ls, k) ==
    LET settled  == Settled(ls, k, LegVerdict(ls[k].starter, ls[k].darts))
        champion == Champion(settled)
    IN  [legs |-> Extended(Trimmed(settled), champion), winner |-> champion]

AfterThrow(ls, k, d) == Advanced([ls EXCEPT ![k].darts = Append(@, d)], k)

AfterUndo(ls, k) == Advanced([ls EXCEPT ![k].darts = SubSeq(@, 1, Len(@) - 1)], k)

Init ==
    /\ legs = <<NewLeg(StartingTeam(NTeams, 0, StartRule, FixedTeam, NoTeam, 0))>>
    /\ winner = NoTeam
    /\ abandoned = FALSE

(* POST a dart to leg k: refused on an abandoned or decided match and on a *)
(* decided leg (_reject_closed), and whenever the engine raises.           *)
CanThrow(k, d) ==
    /\ ~abandoned
    /\ winner = NoTeam
    /\ legs[k].winner = NoTeam
    /\ Len(legs[k].darts) < MaxDarts
    /\ LegVerdict(legs[k].starter, Append(legs[k].darts, d)) # Refused

Throw(k, d) ==
    /\ CanThrow(k, d)
    /\ legs' = AfterThrow(legs, k, d).legs
    /\ winner' = AfterThrow(legs, k, d).winner
    /\ UNCHANGED abandoned

CanUndoAnyLeg(k) == ~abandoned /\ legs[k].darts # <<>>      \* mutant: legs behind too

(* Undo leg k's last dart: refused on an abandoned match, an empty leg, or *)
(* a leg behind one that has been played into.                             *)
CanUndo(k) ==
    /\ ~abandoned
    /\ legs[k].darts # <<>>
    /\ \A j \in k + 1..Len(legs) : legs[j].darts = <<>>

Undo(k) ==
    /\ CanUndo(k)
    /\ legs' = AfterUndo(legs, k).legs
    /\ winner' = AfterUndo(legs, k).winner
    /\ UNCHANGED abandoned

(* Refused on a match that has completed; harmless when repeated.          *)
Abandon ==
    /\ winner = NoTeam
    /\ abandoned' = TRUE
    /\ UNCHANGED <<legs, winner>>

Next ==
    \/ \E k \in 1..Len(legs), d \in Dart : Throw(k, d)
    \/ \E k \in 1..Len(legs) : Undo(k)
    \/ Abandon

Spec == Init /\ [][Next]_vars
-----------------------------------------------------------------------------
TypeOK ==
    /\ legs \in Seq(LegRow)
    /\ winner \in Team \cup {NoTeam}
    /\ abandoned \in BOOLEAN

(* Every stored leg winner is what the engine concludes from that leg's    *)
(* darts (verify._check_winner finds nothing), after any mix of throws and *)
(* undos.                                                                  *)
WinnersFollowDarts ==
    \A k \in 1..Len(legs) : legs[k].winner = LegVerdict(legs[k].starter, legs[k].darts)

(* "One leg is open at a time and it is the last one" (_advance): there is *)
(* an open leg exactly while the match is undecided.                       *)
OneOpenLegAndItIsLast ==
    /\ Len(legs) > 0
    /\ \A k \in 1..Len(legs) - 1 : legs[k].winner # NoTeam
    /\ (LastOf(legs).winner = NoTeam) <=> (winner = NoTeam)

(* The stored champion is the one the stored legs elect, nobody else has   *)
(* as many legs as it takes, and no leg was played after the deciding one. *)
ChampionByTally ==
    /\ winner = Champion(legs)
    /\ Champions(FrontOf(legs)) = {}
    /\ Cardinality(Champions(legs)) <= 1

(* Each leg was started by the team the rotation names from the legs       *)
(* before it, whatever was undone and won again since.                     *)
StarterChain ==
    \A k \in 1..Len(legs) :
        legs[k].starter = IF k = 1
            THEN StartingTeam(NTeams, 0, StartRule, FixedTeam, NoTeam, 0)
            ELSE NextStarter(SubSeq(legs, 1, k - 1))

(* A match is never both abandoned and won (the CHECK of migration 0002).  *)
AbandonedIsUndecided == abandoned => winner = NoTeam

(* No dart is recorded after the one that won its leg.                     *)
NothingAfterTheWin ==
    \A k \in 1..Len(legs) : \A n \in 0..Len(legs[k].darts) - 1 :
        LegVerdict(legs[k].starter, SubSeq(legs[k].darts, 1, n)) = NoTeam

(* Undo gives back exactly the match there was before the dart: the leg it *)
(* won is open again, the leg opened behind it is gone, the match it won   *)
(* is in progress, and nothing earlier has moved.                          *)
UndoRevertsThrow ==
    \A k \in 1..Len(legs), d \in Dart :
        CanThrow(k, d) =>
            LET thrown == AfterThrow(legs, k, d).legs
            IN  AfterUndo(thrown, k) = [legs |-> legs, winner |-> winner]
=============================================================================
