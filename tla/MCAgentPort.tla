---------------------------- MODULE MCAgentPort ----------------------------
(* Instances of AgentPort: one worker with two request threads, two workers *)
(* with one thread each.                                                    *)
EXTENDS AgentPort

CONSTANTS p1, p2, t1, t2

OneWorker == [t \in {t1, t2} |-> p1]
TwoWorkers == [t \in {t1, t2} |-> IF t = t1 THEN p1 ELSE p2]
=============================================================================
