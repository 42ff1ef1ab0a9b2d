----------------------------- MODULE MCMatchSetup -----------------------------
(* Names that differ in case only, a palette of two colours, pages of one   *)
(* match.  The bound is on the rows: a listing reaches three pages, and at  *)
(* most two players are active at once, for a third would overrun the       *)
(* palette and nothing is promised then.  Names and the history are checked *)
(* without sheets, and the players stop changing when there is a match, for *)
(* nothing about a listing depends on them; sheets are checked without      *)
(* matches.                                                                 *)
EXTENDS MatchSetup, TLC

CONSTANTS MaxRows, f1, f2

OnePhone == {f1}

TwoPhones == {f1, f2}

TypedNames == {"Ana", "ana", "Ben"}

Folded == [name \in TypedNames |-> IF name = "Ben" THEN "ben" ELSE "ana"]

PracticeOrPair == {<<<<1>>>>, <<<<1>>, <<2>>>>, <<<<1>>, <<1>>>>}

NoLineups == {}

TwoReadings == {1, 2}

WithoutSheets ==
    /\ \A f \in Phone : ~forms'[f].open
    /\ outdated' = {}
    /\ matches' # <<>> => picked' = {} /\ UNCHANGED playerVars

(* A third player takes the place of one who was archived.                  *)
NamesByPosition ==
    /\ \A p \in DOMAIN players' : players'[p].name \in <<{"Ana"}, {"Ben"}, {"ana", "Ben"}>>[p]
    /\ matches' = <<>> /\ reader'.wanted = AnyStatus

FewRows ==
    /\ Len(players') + Len(matches') <= MaxRows /\ Len(players') <= 3
    /\ WithoutSheets \/ NamesByPosition

(* Two phones add a player at the same moment: nothing is written until a   *)
(* sheet is open on both, and then only from the sheets.                    *)
AtTheSameMoment ==
    /\ FewRows /\ NamesByPosition
    /\ players' # players =>
          /\ \A f \in Phone : forms[f].open
          /\ \E f \in Phone, name \in Spelling : SubmitForm(f, name)
=============================================================================
