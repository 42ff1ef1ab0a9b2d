------------------------------- MODULE MCDeploy -------------------------------
(* One box that runs the second of three builds and is given the third,      *)
(* which ships one more migration; and the docker daemon, which restarts the *)
(* container until it is stopped.                                            *)
EXTENDS Deploy, TLC

Builds == 1..3

TheThird == {3}

MigrationsOf == 1 :> 1 @@ 2 :> 1 @@ 3 :> 2

Restart == Boot /\ UNCHANGED <<tags, latest, script, scripts>>

(* Where the matches are the question, a deploy is told the tags as they     *)
(* are; the first one, on a box nobody has played on yet, may be told any.   *)
TagsAreListed ==
    script.at = "idle" /\ script'.at = "transfer" =>
        \/ script'.listed = tags
        \/ played = 0 /\ now = 0 /\ scripts = 0 /\ faults = 0

Spec == Installed(<<2, 1>>) /\ [][DeployNext]_boxVars /\ WF_boxVars(Restart)
=============================================================================
