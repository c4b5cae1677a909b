---------------------------- MODULE Confirmation ----------------------------
(***************************************************************************)
(* What the port's confirmation state promises, seen from one             *)
(* (user, channel) key: a confirmation is asked once, it is taken by one   *)
(* input, and its tool is run at most once, only after having been taken.  *)
(***************************************************************************)
EXTENDS Naturals

CONSTANT Ids   \* confirmation ids

VARIABLES
  phase,       \* where each confirmation stands
  runs         \* how often the tool of each confirmation was run

vars == <<phase, runs>>

Phases == {"unused", "waiting", "taken", "ran", "closed"}

Init == phase = [i \in Ids |-> "unused"] /\ runs = [i \in Ids |-> 0]

\* A confirmation starts waiting; the ones that waited may be replaced.
Ask(i) ==
  /\ phase[i] = "unused"
  /\ \E R \in SUBSET {j \in Ids : phase[j] = "waiting"} :
        phase' = [j \in Ids |-> IF j = i THEN "waiting"
                                ELSE IF j \in R THEN "closed" ELSE phase[j]]
  /\ UNCHANGED runs

\* An input takes it.
Take(i) ==
  /\ phase[i] = "waiting"
  /\ phase' = [phase EXCEPT ![i] = "taken"]
  /\ UNCHANGED runs

\* The input approved it: its tool is run.
Approve(i) ==
  /\ phase[i] = "taken"
  /\ phase' = [phase EXCEPT ![i] = "ran"]
  /\ runs' = [runs EXCEPT ![i] = runs[i] + 1]

\* Denied, or lost with the process that held it.
Close(S) ==
  /\ \A i \in S : phase[i] \in {"waiting", "taken"}
  /\ phase' = [i \in Ids |-> IF i \in S THEN "closed" ELSE phase[i]]
  /\ UNCHANGED runs

Next ==
  \/ \E i \in Ids : Ask(i) \/ Take(i) \/ Approve(i)
  \/ \E S \in SUBSET Ids : Close(S)

Spec == Init /\ [][Next]_vars
=============================================================================
