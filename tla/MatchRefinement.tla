--------------------------- MODULE MatchRefinement ---------------------------
(***************************************************************************)
(* The play service implements the ledger: the record is the darts of the  *)
(* stored legs, but for a last leg nobody has thrown into yet.             *)
(***************************************************************************)
EXTENDS PlayService

RecordOf(ls) ==
    [k \in 1..(IF LastOf(ls).darts = <<>> THEN Len(ls) - 1 ELSE Len(ls)) |-> ls[k].darts]

Ledger == INSTANCE MatchLedger WITH ledger <- RecordOf(legs), closed <- abandoned

(* Every step of the service is one dart recorded, one dart taken back or  *)
(* the match closed - never a change of history.                           *)
ImplementsLedger == Ledger!Spec

(* The rows say exactly what replay_match would: the same legs with the    *)
(* same starters and winners, the same open leg, the same champion.        *)
RowsAgreeWithReplayMatch ==
    /\ ~Ledger!MatchReplay(RecordOf(legs)).raised
    /\ legs = Ledger!WithOpenLeg(RecordOf(legs))
    /\ winner = Ledger!MatchReplay(RecordOf(legs)).winner
=============================================================================
