------------------------------- MODULE ImageTags -------------------------------
(***************************************************************************)
(* The two decisions of scripts/deploy-lib.sh: which image a failed deploy *)
(* goes back to, and which images are deleted after a good one.  A tag is  *)
(* the build it was made of; a list of tags is newest built first.         *)
(***************************************************************************)
EXTENDS Integers, Sequences, FiniteSets, Functions

CONSTANT NoTag          \* what the scripts print when there is no such image

(* The build that was answering, if its image is on the box and it is not  *)
(* the one being deployed; or else the newest other image.                 *)
SelectRollbackTag(new, running, available) ==
    LET others == {i \in DOMAIN available : available[i] # new}
    IN  IF running \notin {NoTag, new} /\ running \in Range(available) THEN running
        ELSE IF others = {} THEN NoTag
        ELSE available[CHOOSE i \in others : \A j \in others : i <= j]

(* The protected tags hold their places first, the newest others fill what *)
(* is left of the budget.                                                  *)
TagsToPrune(keep, protected, available) ==
    LET others    == {i \in DOMAIN available : available[i] \notin protected}
        places    == keep - Cardinality(Range(available) \cap protected)
        Newer(i)  == {j \in others : j < i}
    IN  {available[i] : i \in {k \in others : Cardinality(Newer(k)) >= places}}
=============================================================================
