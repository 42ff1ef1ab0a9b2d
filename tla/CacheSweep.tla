------------------------------ MODULE CacheSweep ------------------------------
(***************************************************************************)
(* The operator's sweep over the caches (rebuild_caches of services/       *)
(* admin.py, POST /admin/rebuild-caches): one request that goes through    *)
(* the legs it listed when it began, rebuilding each in a transaction and  *)
(* comparing what was stored before and after.  Other phones go on playing *)
(* meanwhile.                                                              *)
(***************************************************************************)
EXTENDS StateRead

CacheTables == <<"leg_team_state", "cricket_leg_state">>

(* A leg's rows of one cache table, none for a leg that is gone.           *)
StoredIn(table, k) ==
    IF k \notin DOMAIN rows THEN {}
    ELSE IF table = "cricket_leg_state"
    THEN {[team |-> c.team, marks |-> c.position.marks] :
             c \in {d \in rows[k].caches : "marks" \in DOMAIN d.position}}
    ELSE {[team |-> c.team, thrown |-> c.thrown,
           position |-> [f \in DOMAIN c.position \ {"marks"} |-> c.position[f]]] :
             c \in rows[k].caches}

SweepRequest ==
    [by |-> "sweep", seen |-> <<Board>>, answer |-> <<>>, ids |-> [k \in DOMAIN legs |-> k],
     was |-> <<>>, rebuilt |-> FALSE, now |-> <<>>, changed |-> 0]

Sweeping == Reading /\ req.by = "sweep"

BeginSweep ==
    /\ Idle
    /\ req' = SweepRequest
    /\ UNCHANGED rowVars

(* _cache_rows before the rebuild, one statement to a table.               *)
ReadBefore ==
    /\ Sweeping /\ ~req.rebuilt /\ Len(req.was) < Len(CacheTables)
    /\ req' = [req EXCEPT !.was = Append(@, StoredIn(CacheTables[Len(@) + 1], Head(req.ids)))]
    /\ UNCHANGED rowVars

KeptCaches(k) == CacheRowsKept(LegAfter(legs[k].starter, legs[k].darts))    \* mutant

RebuiltCaches(k) == CacheRows(LegAfter(legs[k].starter, legs[k].darts))

(* play.rebuild_caches, in one transaction; a leg deleted since the sweep  *)
(* began ends it there, with the legs behind it not looked at.             *)
Rebuild ==
    LET k == Head(req.ids)
    IN  /\ Sweeping /\ ~req.rebuilt /\ Len(req.was) = Len(CacheTables)
        /\ \/ /\ k \in DOMAIN legs
              /\ rows' = [rows EXCEPT ![k].caches = RebuiltCaches(k)]
              /\ req' = [req EXCEPT !.rebuilt = TRUE]
           \/ /\ k \notin DOMAIN legs
              /\ req' = [req EXCEPT !.answer = <<"sweep_failed">>]
              /\ UNCHANGED rows
        /\ UNCHANGED vars

(* _cache_rows after it; the last table settles whether the leg changed.   *)
ReadAfter ==
    /\ Sweeping /\ req.rebuilt
    /\ LET now     == Append(req.now, StoredIn(CacheTables[Len(req.now) + 1], Head(req.ids)))
           changed == req.changed + (IF now = req.was THEN 0 ELSE 1)
           onward  == [req EXCEPT !.ids = Tail(@), !.was = <<>>, !.rebuilt = FALSE, !.now = <<>>,
                                  !.changed = changed]
       IN  req' = IF Len(now) < Len(CacheTables) THEN [req EXCEPT !.now = now]
                  ELSE IF Len(req.ids) = 1 THEN [onward EXCEPT !.answer = <<"report", changed>>]
                  ELSE onward
    /\ UNCHANGED rowVars

SweepNext == ReadNext \/ BeginSweep \/ ReadBefore \/ Rebuild \/ ReadAfter

SweepSpec == ReadInit /\ [][SweepNext]_readVars
-----------------------------------------------------------------------------
(* A sweep beside play takes nothing from a leg in progress and gives      *)
(* nothing to a finished one: its own steps leave every row as it was,     *)
(* whatever was thrown, undone or won since it listed the legs.            *)
SweepChangesNothing ==
    [][req.by = "sweep" /\ req'.by = "sweep" /\ req'.seen = req.seen => UNCHANGED rows]_readVars

(* "Over a correct database this changes nothing": a sweep that reports a  *)
(* changed leg was overtaken by a write, and one that fails for want of a  *)
(* leg was overtaken by the undo that deleted it.                          *)
SweepReportIsExplained ==
    /\ AnsweredWith("report") /\ req.answer[2] > 0 => Len(req.seen) > 1
    /\ AnsweredWith("sweep_failed") =>
         \E i \in 2..Len(req.seen) : Len(req.seen[i].legs) < Len(req.seen[i - 1].legs)
=============================================================================
