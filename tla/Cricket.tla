------------------------------- MODULE Cricket -------------------------------
(***************************************************************************)
(* American Cricket (backend/darts/engine/cricket.py): mark accounting,    *)
(* what happens to surplus marks, and the win, in three variants.          *)
(*                                                                         *)
(* The engine is handed the thrower's state and its opponents' separately; *)
(* here both are one function `states' from teams to [marks, points], and  *)
(* a point event names its recipient by team.                              *)
(***************************************************************************)
EXTENDS Throws, Sequences, FiniteSets

CONSTANT Targets        \* the targets in play; the engine's are {15, ..., 20, 25}

ASSUME TargetsAssumption == Targets \subseteq (15..20) \cup {Bull}

Variant == {"standard", "cutthroat", "quick"}

MarksToClose == 3

NoTarget == -1

CricketInitial == [marks |-> [g \in Targets |-> 0], points |-> 0]

HasClosed(state, target) == state.marks[target] >= MarksToClose

HasClosedAll(state) == \A g \in Targets : HasClosed(state, g)

Opponents(states, team) == DOMAIN states \ {team}

NeverDead(states, team, target) == FALSE            \* mutant: a dead target still pays

(* Nobody is left to score against; vacuously true for a team alone.       *)
IsDead(states, team, target) ==
    \A o \in Opponents(states, team) : HasClosed(states[o], target)

(* Mutant: level points do not win.                                        *)
HasWonOutright(states, team, variant) ==
    /\ HasClosedAll(states[team])
    /\ variant = "cutthroat" =>
         \A o \in Opponents(states, team) : states[team].points < states[o].points
    /\ variant = "standard" =>
         \A o \in Opponents(states, team) : states[team].points > states[o].points

HasWon(states, team, variant) ==
    /\ HasClosedAll(states[team])
    /\ variant = "cutthroat" =>
         \A o \in Opponents(states, team) : states[team].points <= states[o].points
    /\ variant = "standard" =>
         \A o \in Opponents(states, team) : states[team].points >= states[o].points

(* The teams paid for surplus marks on a target, each the full amount.     *)
Recipients(states, team, target, variant) ==
    CASE variant = "quick"     -> {}
      [] variant = "cutthroat" -> {o \in Opponents(states, team) :
                                       ~HasClosed(states[o], target)}
      [] variant = "standard"  -> IF IsDead(states, team, target) THEN {} ELSE {team}

(* The position once `marks' are counted on target g and the teams `paid'  *)
(* have the surplus in points.                                             *)
Paid(states, team, g, marks, surplus, paid) ==
    [s \in DOMAIN states |->
        [marks  |-> IF s = team THEN [states[s].marks EXCEPT ![g] = @ + marks]
                                ELSE states[s].marks,
         points |-> states[s].points + (IF s \in paid THEN g * surplus ELSE 0)]]

TargetOutcome(after, team, g, marks, surplus, paid, variant) ==
    [states  |-> after,
     target  |-> g,
     marks   |-> marks,
     surplus |-> surplus,
     awards  |-> {[recipient |-> r, points |-> g * surplus] : r \in paid},
     wasted  |-> surplus > 0 /\ paid = {},
     win     |-> HasWon(after, team, variant)]

CricketApplyDart(states, team, t, variant) ==
    IF t.segment \notin Targets
    THEN [states |-> states, target |-> NoTarget, marks |-> 0, surplus |-> 0,
          awards |-> {}, wasted |-> FALSE, win |-> FALSE]
    ELSE LET room    == MarksToClose - states[team].marks[t.segment]
             surplus == IF t.multiplier <= room THEN 0 ELSE t.multiplier - room
             marks   == t.multiplier - surplus
             paid    == IF surplus = 0 THEN {}
                        ELSE Recipients(states, team, t.segment, variant)
         IN  TargetOutcome(Paid(states, team, t.segment, marks, surplus, paid),
                           team, t.segment, marks, surplus, paid, variant)

AddCricketDart(run, dart) ==
    [states |-> dart.states, darts |-> Append(run.darts, dart), won |-> dart.win]

(* A visit: the darts in order up to a win, every team's points threaded   *)
(* from dart to dart.                                                      *)
CricketApplyVisit(states, team, throws, variant) ==
    LET run[i \in 0..Len(throws)] ==
          IF i = 0 THEN [states |-> states, darts |-> <<>>, won |-> FALSE]
          ELSE LET before == run[i - 1]
               IN  IF before.won THEN before
                   ELSE AddCricketDart(before,
                                       CricketApplyDart(before.states, team, throws[i], variant))
    IN  run[Len(throws)]
=============================================================================
