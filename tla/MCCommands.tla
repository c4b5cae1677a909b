----------------------------- MODULE MCCommands -----------------------------
(* Instances of Commands: one or two threads' requests in two minutes.      *)
EXTENDS Commands, TLC

I(word, text, blocks) ==
  [word |-> word, complete |-> TRUE, text |-> text, blocks |-> blocks, listed |-> FALSE]

Open == [guard |-> FALSE, maxChars |-> FALSE, rpm |-> 0, memory |-> TRUE,
         read |-> "allow", write |-> "allow", readApproval |-> FALSE,
         writeApproval |-> FALSE, promote |-> TRUE, allowlist |-> FALSE]

Limited == {[Open EXCEPT !.rpm = 1], [Open EXCEPT !.rpm = 2]}
Watched == {[Open EXCEPT !.guard = TRUE, !.maxChars = TRUE, !.allowlist = TRUE]}
Gated == {Open,
           [Open EXCEPT !.writeApproval = TRUE, !.readApproval = TRUE],
           [Open EXCEPT !.write = "deny", !.read = "deny"],
           [Open EXCEPT !.memory = FALSE]}
AllSetups == Limited \cup Watched \cup Gated

\* Counted and uncounted messages; every way to carry a guard pattern past
\* the gates; every command of memory.
LimitedInputs == {I("chat", {}, {}), I("put", {}, {}), I("archive", {}, {})}
WatchedInputs ==
  {I("chat", {}, {Guarded}), I("chat", {Long}, {}),
   I("remember", {}, {Guarded}), I("remember", {Guarded}, {}),
   I("forget", {Guarded}, {}), I("put", {Guarded}, {}), I("archive", {}, {}),
   [I("delegate", {}, {}) EXCEPT !.listed = TRUE], I("delegate", {}, {}),
   [I("remember", {Guarded}, {}) EXCEPT !.complete = FALSE]}
GatedInputs ==
  {I("chat", {}, {}), I("remember", {}, {}), I("forget", {}, {}), I("put", {}, {}),
   I("remove", {}, {}), I("read", {}, {}), I("archive", {}, {})}

AllInputs ==
  [s \in AllSetups |-> IF s \in Limited THEN LimitedInputs
                       ELSE IF s \in Watched THEN WatchedInputs ELSE GatedInputs]
AllTicks == [s \in AllSetups |-> IF s \in Limited THEN 2 ELSE 0]

Pairs == Permutations(Threads)
=============================================================================
