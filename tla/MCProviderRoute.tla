--------------------------- MODULE MCProviderRoute ---------------------------
(* Two endpoints behind breaker and limiter that fail over to each other,   *)
(* one of them without pool; two without either, a provider without key,    *)
(* one whose vendor is unknown, and a stub; one of them has active skills.  *)
EXTENDS PromptRoute, TLC

CONSTANTS t1, t2

Of(dflt, special) == special @@ [p \in Providers |-> dflt]

Chains == Of(<<>>, [a |-> <<"nokey", "b", "nokey">>,
                    b |-> <<"a", "vendor", "c">>, c |-> <<"stub">>,
                    d |-> <<"a">>])
Routes == Of("ok", [nokey |-> "unset", vendor |-> "unknown"])
Thresholds == Of(0, [a |-> 2, b |-> 1])
OpenTimes == Of(2, [b |-> 1])
Limits == Of(0, [a |-> 2, b |-> 1])
Windows == [p \in Providers |-> 1]
Keys == Of("x", [b |-> NoPool, c |-> "y", d |-> "z"])
\* Sessions of one or of two providers without skills, and sessions of one
\* whose prompts have active skills and vary in one variable.
Plain(named) == [named |-> named, prompts |-> Of({}, <<>>)]
Skills == [named |-> {"c"}, prompts |-> Of({}, [c |-> {"k1", "k2"}])]
AllKinds == {Plain({"a"}), Plain({"b"}), Plain({"c", "d"}), Skills}
SameThreads == Permutations(Threads)
=============================================================================
