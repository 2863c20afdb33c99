-------------------------- MODULE MCDeployService --------------------------
(* Instances of DeployService for TLC.                                     *)
EXTENDS DeployService

CONSTANTS d1, r1, r2, r3, r4, a1, a2

OnFirst == [d \in Deploys |-> a1]

\* A start, a stop, and deletions by all others.
StartStopDelete == [r \in Reqs |-> IF r = r1 THEN "start"
                                   ELSE IF r = r2 THEN "stop" ELSE "delete"]

StopDeleteUpdate == [r \in Reqs |-> IF r = r1 THEN "stop"
                                    ELSE IF r = r2 THEN "delete" ELSE "update"]
=============================================================================
