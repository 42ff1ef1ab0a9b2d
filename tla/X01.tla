--------------------------------- MODULE X01 ---------------------------------
(***************************************************************************)
(* x01 scoring (backend/darts/engine/x01.py): in-rules, out-rules and the  *)
(* bust, which voids the whole visit.  A configuration `cfg' is a record   *)
(* [start, in_rule, out_rule]; a team's state is [remaining, open, darts]. *)
(***************************************************************************)
EXTENDS Throws, Sequences

X01Rule == {"straight", "double", "master"}

NoBust == "none"

Satisfies(rule, t) ==
    \/ rule = "straight"
    \/ IsDouble(t)
    \/ rule = "master" /\ IsTriple(t)

X01Initial(cfg) ==
    [remaining |-> cfg.start, open |-> cfg.in_rule = "straight", darts |-> 0]

BustReason(left, t, cfg) ==
    CASE left < 0                                      -> "below_zero"
      [] left = 0 /\ ~Satisfies(cfg.out_rule, t)       -> "wrong_finish"
      [] left = 1 /\ cfg.out_rule # "straight"         -> "left_one"
      [] OTHER                                         -> NoBust

DartOutcome(thrown, t, left, counted, bust) ==
    [throw    |-> t,
     state    |-> IF counted THEN [thrown EXCEPT !.remaining = left, !.open = TRUE]
                             ELSE thrown,
     counted  |-> counted,
     bust     |-> bust,
     checkout |-> counted /\ left = 0]

(* One dart.  A dart thrown before the in-rule is met scores nothing; a    *)
(* dart that busts leaves the position as it was.  Only the dart count     *)
(* always moves.                                                           *)
X01ApplyDart(state, t, cfg) ==
    LET left     == state.remaining - Score(t)
        unopened == ~state.open /\ ~Satisfies(cfg.in_rule, t)
        bust     == IF unopened THEN NoBust ELSE BustReason(left, t, cfg)
    IN  DartOutcome([state EXCEPT !.darts = @ + 1], t, left,
                    ~unopened /\ bust = NoBust, bust)

PlayedOn(run) == run.won                            \* mutant: a bust ends nothing

Ended(run) == run.bust # NoBust \/ run.won

Uncounted(darts) == [i \in DOMAIN darts |-> [darts[i] EXCEPT !.counted = FALSE]]

(* Mutants: a bust that leaves something of its visit standing.            *)
BustKeepsCounts(start, end) ==
    [end EXCEPT !.state = [start EXCEPT !.darts = end.state.darts]]

BustKeepsScore(start, end) == [end EXCEPT !.darts = Uncounted(@)]

(* A bust: score and opening go back to where the visit began and none of  *)
(* its darts counts, but they were all thrown.                             *)
Voided(start, end) ==
    [end EXCEPT !.state = [start EXCEPT !.darts = end.state.darts],
                !.darts = Uncounted(@)]

FinalX01(start, end) == IF end.bust = NoBust THEN end ELSE Voided(start, end)

AddX01Dart(run, dart) ==
    [state |-> dart.state,
     darts |-> Append(run.darts, dart),
     bust  |-> dart.bust,
     won   |-> dart.checkout]

(* A visit: the darts in order up to a bust or a checkout.                 *)
X01ApplyVisit(state, throws, cfg) ==
    LET run[i \in 0..Len(throws)] ==
          IF i = 0 THEN [state |-> state, darts |-> <<>>, bust |-> NoBust, won |-> FALSE]
          ELSE LET before == run[i - 1]
               IN  IF Ended(before) THEN before
                   ELSE AddX01Dart(before, X01ApplyDart(before.state, throws[i], cfg))
    IN  FinalX01(state, run[Len(throws)])
=============================================================================
