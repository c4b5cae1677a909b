----------------------------- MODULE TurnProofs -----------------------------
(* Proofs about Turn, for every value of the constants.                     *)
EXTENDS Turn, FiniteSetTheorems, WellFoundedInduction, TLAPS

-----------------------------------------------------------------------------
(* What a step of the turn does to its parts                                *)

\* Tool calls take the steps of ToolRoute ...
RouteMoves ==
  \/ UNCHANGED routeVars
  \/ \E name \in ToolNames \cup {output.call.name} : Route(name)
  \/ RouteStep
  \/ LocalRaises
  \/ TakeResult

\* ... and model calls those of ModelStream.
StreamMoves == UNCHANGED streamVars \/ StreamStep \/ TakeOutput

\* Every step of the turn is one of its parts' or leaves them alone.
LEMMA Parts == ASSUME [Next]_vars PROVE RouteMoves /\ StreamMoves
<1> USE DEF RouteMoves, StreamMoves
<1>1. CASE UNCHANGED vars
  BY <1>1 DEF vars
<1>2. CASE \E q \in Questions : Start(q)
  BY <1>2 DEF Start
<1>3. CASE Step
  <2>1. CASE BuildBlock \/ EmbeddingRaises \/ RunLoop \/ LoopsExhausted \/ SendToModel
    BY <2>1 DEF BuildBlock, EmbeddingRaises, RunLoop, LoopsExhausted, SendToModel
  <2>2. CASE CommandReplies \/ ToolFirstReply
    BY <2>2 DEF CommandReplies, ToolFirstReply
  <2>3. CASE \E name \in ToolNames : CommandCalls(name)
    BY <2>3 DEF CommandCalls, CallTool
  <2>4. CASE ModelReplies \/ ModelCalls
    BY <2>4 DEF ModelReplies, ModelCalls, CallTool
  <2>5. CASE OnTheWire
    BY <2>5 DEF OnTheWire
  <2>6. CASE AtTheTool \/ ToolRaises \/ ToolAnswers
    BY <2>6 DEF AtTheTool, ToolRaises, ToolAnswers
  <2>7. QED
    BY <1>3, <2>1, <2>2, <2>3, <2>4, <2>5, <2>6 DEF Step
<1>4. QED
  BY <1>1, <1>2, <1>3 DEF Next

-----------------------------------------------------------------------------
(* The tool                                                                 *)

\* How often one server may run a call.
Limit == IF transport = "http_stream" THEN 2 ELSE 1

\* The places of a call under way, by the bridges they belong to.
Bridges == [connect |-> {"stdio"}, call |-> {"stdio"}, running |-> {"stdio"},
            answered |-> {"stdio"}, raised |-> {"stdio"},
            stream |-> {"http_stream"}, post |-> {"http", "http_stream"}]
Waiting == {"connect", "call", "running", "answered", "raised", "stream", "post"}

\* A server is asked after those before it; none after it has run the tool,
\* and where it stands tells how often it has itself.
AskingInv ==
  /\ server \in ServerIds
  /\ transport \in Bridges[hop]
  /\ \A s \in ServerIds :
       /\ s < server => ran[s] <= Limit
       /\ s > server => ran[s] = 0
  /\ hop \in {"connect", "call", "stream"} => ran[server] = 0
  /\ hop \in {"running", "answered"} => ran[server] = 1
  /\ hop = "raised" => ran[server] <= 1
  /\ hop = "post" => ran[server] < Limit

RouteInv ==
  /\ transport \in Transports
  /\ ran \in [ServerIds -> Nat]
  /\ hop \in {"none", "local", "done"} \cup Waiting
  /\ hop \in {"none", "local"} => \A s \in ServerIds : ran[s] = 0
  /\ hop \in Waiting => AskingInv
  /\ AnsweredByLast

\* No call is under way at first.
LEMMA RouteInitInv == ASSUME RouteInit PROVE RouteInv
BY DEF RouteInit, RouteInv, AnsweredByLast, Waiting

\* The next server, or the last one's error.
LEMMA FailedInv ==
  ASSUME RouteInv, hop \in Waiting, Failed, transport' = transport,
         ran' \in [ServerIds -> Nat], ran'[server] <= Limit,
         \A s \in ServerIds : s # server => ran'[s] = ran[s]
  PROVE  RouteInv'
<1>1. AskingInv /\ server \in ServerIds /\ Servers \in Nat /\ Limit' = Limit
  BY RouteAssumption DEF RouteInv, AskingInv, Limit
<1>2. CASE server < Servers /\ Asked(server + 1)
  <2>1. /\ server' = server + 1 /\ server' \in ServerIds /\ server' # server
    BY <1>1, <1>2 DEF Asked, ServerIds
  <2>2. /\ hop' \in {"connect", "post", "stream"}
        /\ hop' = "connect" => transport = "stdio"
        /\ hop' = "stream" => transport = "http_stream"
        /\ hop' = "post" => transport = "http"
    BY <1>1, <1>2 DEF Asked, AskingInv, Bridges, Waiting
  <2>3. \A s \in ServerIds : /\ s < server' => ran'[s] <= Limit
                             /\ s >= server' => ran'[s] = 0
    BY <1>1, <2>1 DEF AskingInv, ServerIds
  <2>4. AskingInv'
    BY <1>1, <2>1, <2>2, <2>3 DEF AskingInv, Bridges, Limit, ServerIds
  <2>5. QED
    BY <2>2, <2>4 DEF RouteInv, AnsweredByLast, Waiting
<1>3. CASE server = Servers /\ Returned(Result("error", server)) /\ UNCHANGED server
  <2>1. \A s \in ServerIds : ran'[s] <= Limit /\ s <= server
    BY <1>1, <1>3 DEF AskingInv, ServerIds
  <2>2. AnsweredByLast'
    BY <1>1, <1>3, <2>1 DEF AnsweredByLast, Returned, Result, Limit, ServerIds
  <2>3. QED
    BY <1>3, <2>2 DEF RouteInv, Returned, Waiting
<1>4. QED
  BY <1>2, <1>3 DEF Failed

\* A success ends the call at the server that ran it.
LEMMA SucceededInv ==
  ASSUME RouteInv, hop \in Waiting, Succeeded, transport' = transport,
         ran' \in [ServerIds -> Nat], ran'[server] \in 1..Limit,
         \A s \in ServerIds : s # server => ran'[s] = ran[s]
  PROVE  RouteInv'
<1>1. AskingInv /\ server \in ServerIds /\ Limit' = Limit /\ Limit \in Nat
  BY DEF RouteInv, AskingInv, Limit
<1>2. \A s \in ServerIds : ran'[s] <= Limit /\ (ran'[s] > 0 => s <= server)
  BY <1>1 DEF AskingInv, ServerIds
<1>3. ran'[server] > 0
  BY <1>1
<1>4. AnsweredByLast'
  BY <1>1, <1>2, <1>3 DEF AnsweredByLast, Succeeded, Returned, Result, Limit, ServerIds
<1>5. QED
  BY <1>4 DEF RouteInv, Succeeded, Returned, Waiting

\* A step of the server that is asked.
LEMMA ServerInv ==
  ASSUME RouteInv, hop \in Waiting, hop' \in Waiting, UNCHANGED <<transport, server>>,
         transport \in Bridges[hop'],
         ran' \in [ServerIds -> Nat],
         \A s \in ServerIds : s # server => ran'[s] = ran[s],
         hop' \in {"connect", "call", "stream"} => ran'[server] = 0,
         hop' \in {"running", "answered"} => ran'[server] = 1,
         hop' = "raised" => ran'[server] <= 1,
         hop' = "post" => ran'[server] < Limit
  PROVE  RouteInv'
<1>1. AskingInv /\ server \in ServerIds /\ Limit' = Limit
  BY DEF RouteInv, AskingInv, Limit
<1>2. AskingInv'
  BY <1>1 DEF AskingInv, ServerIds
<1>3. QED
  BY <1>2 DEF RouteInv, AnsweredByLast, Waiting

\* A run counts for the server at hand alone.
LEMMA RunsOnce ==
  ASSUME ran \in [ServerIds -> Nat], server \in ServerIds, Runs
  PROVE  /\ ran' \in [ServerIds -> Nat] /\ ran'[server] = ran[server] + 1
         /\ \A s \in ServerIds : s # server => ran'[s] = ran[s]
BY DEF Runs

\* Every step of a call keeps RouteInv: each bridge hands on to the next server.
LEMMA RouteStepInv == ASSUME RouteInv, RouteStep PROVE RouteInv'
<1>1. CASE LocalReturns
  BY <1>1 DEF LocalReturns, RouteInv, Returned, Result, AnsweredByLast, Waiting
<1>2. CASE Initialised
  BY <1>2, ServerInv DEF Initialised, RouteInv, AskingInv, Bridges, Waiting
<1>3. CASE ServerRuns
  BY <1>3, ServerInv, RunsOnce DEF ServerRuns, RouteInv, AskingInv, Bridges, Waiting
<1>4. CASE ServerAnswers
  BY <1>4, ServerInv DEF ServerAnswers, RouteInv, AskingInv, Bridges, Waiting
<1>5. CASE RunnerRaises
  <2>1. ran[server] <= 1
    BY <1>5 DEF RunnerRaises, RouteInv, AskingInv, Waiting
  <2>2. QED
    BY <1>5, <2>1, ServerInv DEF RunnerRaises, RouteInv, AskingInv, Bridges, Waiting
<1>6. CASE FutureExpires
  BY <1>6, ServerInv DEF FutureExpires, RouteInv, AskingInv, Bridges, Waiting
<1>7. CASE Collect
  <2>1. hop \in Waiting /\ transport' = transport /\ ran' = ran
        /\ ran \in [ServerIds -> Nat] /\ ran[server] <= 1
        /\ (hop = "answered" => ran[server] = 1) /\ Limit \in {1, 2}
        /\ server \in ServerIds
    BY <1>7 DEF Collect, RouteInv, AskingInv, Waiting, Limit
  <2>2. CASE hop = "answered" /\ ~expired
    BY <1>7, <2>1, <2>2, SucceededInv DEF Collect
  <2>3. CASE ~(hop = "answered" /\ ~expired)
    <3>1. Failed
      BY <1>7, <2>3 DEF Collect
    <3>2. ran[server] <= Limit
      BY <2>1
    <3>3. QED
      BY <2>1, <3>1, <3>2, FailedInv
  <2>4. QED
    BY <2>2, <2>3
<1>8. CASE StreamAnswers \/ StreamEmpty \/ PostAnswers \/ HttpFails
  <2>1. /\ hop \in Waiting /\ hop \in {"stream", "post"} /\ transport' = transport
        /\ ran \in [ServerIds -> Nat] /\ server \in ServerIds
        /\ Limit \in {1, 2} /\ ran[server] \in 0..(Limit - 1)
    BY <1>8
    DEF StreamAnswers, StreamEmpty, PostAnswers, HttpFails, RouteInv, AskingInv,
        Waiting, Limit, Bridges
  <2>2. CASE StreamAnswers \/ PostAnswers
    <3>1. Runs /\ Succeeded
      BY <2>2 DEF StreamAnswers, PostAnswers
    <3>2. ran'[server] \in 1..Limit
      BY <2>1, <3>1, RunsOnce
    <3>3. QED
      BY <2>1, <3>1, <3>2, RunsOnce, SucceededInv
  <2>3. CASE StreamEmpty
    <3>1. ran[server] = 0 /\ transport = "http_stream" /\ Limit = 2
      BY <2>1, <2>3 DEF StreamEmpty, RouteInv, AskingInv, Limit, Bridges
    <3>2. QED
      BY <2>1, <2>3, <3>1, RunsOnce, ServerInv DEF StreamEmpty, Bridges, Waiting
  <2>4. CASE HttpFails
    <3>1. Failed /\ (Runs \/ UNCHANGED ran)
      BY <2>4 DEF HttpFails
    <3>2. /\ ran' \in [ServerIds -> Nat] /\ ran'[server] <= Limit
          /\ \A s \in ServerIds : s # server => ran'[s] = ran[s]
      BY <2>1, <3>1, RunsOnce
    <3>3. QED
      BY <2>1, <3>1, <3>2, FailedInv
  <2>5. QED
    BY <1>8, <2>2, <2>3, <2>4
<1>9. QED
  BY <1>1, <1>2, <1>3, <1>4, <1>5, <1>6, <1>7, <1>8 DEF RouteStep

\* execute begins: refused, local, or the first server is asked.
LEMMA RouteBegins == ASSUME RouteInv, NEW name, Route(name) PROVE RouteInv'
<1>1. /\ hop = "none" /\ \A s \in ServerIds : ran[s] = 0
      /\ ran' = ran /\ transport' = transport
  BY DEF Route, RouteInv
<1>2. CASE \E k \in {"denied", "unknown"} : Returned(Result(k, 0))
  BY <1>1, <1>2 DEF RouteInv, Returned, Result, AnsweredByLast, Waiting
<1>3. CASE hop' = "local"
  BY <1>1, <1>3 DEF RouteInv, AnsweredByLast, Waiting
<1>4. CASE Asked(1) /\ transport # "none"
  <2>1. transport \in {"stdio", "http", "http_stream"}
    BY <1>4, RouteAssumption DEF RouteInv
  <2>2. server' = 1 /\ 1 \in ServerIds
    BY <1>4, RouteAssumption DEF Asked, ServerIds
  <2>3. /\ hop' \in {"connect", "post", "stream"}
        /\ hop' = "connect" => transport = "stdio"
        /\ hop' = "stream" => transport = "http_stream"
        /\ hop' = "post" => transport = "http"
    BY <1>4, <2>1 DEF Asked
  <2>4. AskingInv'
    BY <1>1, <2>2, <2>3 DEF AskingInv, Bridges, Limit, ServerIds
  <2>5. QED
    BY <1>1, <2>3, <2>4 DEF RouteInv, AnsweredByLast, Waiting
<1>5. QED
  BY <1>2, <1>3, <1>4 DEF Route

\* So does whatever the turn does with the route.
LEMMA RouteNextInv == ASSUME RouteInv, RouteMoves PROVE RouteInv'
<1>1. CASE UNCHANGED routeVars
  BY <1>1 DEF routeVars, RouteInv, AskingInv, AnsweredByLast, Limit
<1>2. CASE LocalRaises
  BY <1>2 DEF LocalRaises, RouteInv, AnsweredByLast, Waiting
<1>3. CASE TakeResult
  BY <1>3 DEF TakeResult, RouteInv, AnsweredByLast, Waiting
<1>4. QED
  BY <1>1, <1>2, <1>3, RouteStepInv, RouteBegins DEF RouteMoves

\* RouteInv holds in every state of a turn.
LEMMA RouteInvariance == Spec => []RouteInv
<1>1. Init => RouteInv
  BY RouteInitInv DEF Init
<1>2. RouteInv /\ [Next]_vars => RouteInv'
  BY Parts, RouteNextInv
<1>3. QED
  BY <1>1, <1>2, PTL DEF Spec

(***************************************************************************)
(* ToolModuleImpl.execute returns the answer of the last server it asked,   *)
(* an error only after it has asked them all, and no server runs a call     *)
(* more often than its endpoints: for any servers, policies and bridges,    *)
(* whatever fails, dies or times out.                                       *)
(***************************************************************************)
THEOREM LastServerAnswers == Spec => []AnsweredByLast
BY RouteInvariance, PTL DEF RouteInv
-----------------------------------------------------------------------------
(* Selections                                                               *)

\* Ranks number a set of positions in their order.
LEMMA Ranks ==
  ASSUME NEW k \in Nat, NEW S \in SUBSET (1..k)
  PROVE  /\ IsFiniteSet(S) /\ Cardinality(S) \in Nat
         /\ \A i \in S : Rank(S, i) \in 1..Cardinality(S)
         /\ \A i, j \in S : i < j => Rank(S, i) < Rank(S, j)
         /\ \A n \in 1..Cardinality(S) : \E i \in S : Rank(S, i) = n
<1> DEFINE upTo(i) == {j \in S : j <= i}
           f == [i \in S |-> Rank(S, i)]
           T == 1..Cardinality(S)
<1>1. IsFiniteSet(S) /\ Cardinality(S) \in Nat
  <2>1. IsFiniteSet(1..k)
    BY FS_Interval, 1 \in Int, k \in Int
  <2>2. QED
    BY <2>1, FS_Subset, FS_CardinalityType
<1>2. \A i \in S : /\ upTo(i) \subseteq S /\ IsFiniteSet(upTo(i)) /\ i \in upTo(i)
                   /\ Rank(S, i) = Cardinality(upTo(i))
  <2>1. ASSUME NEW i \in S PROVE upTo(i) \subseteq S /\ IsFiniteSet(upTo(i)) /\ i \in upTo(i)
    <3>1. upTo(i) \subseteq S /\ i \in Int
      OBVIOUS
    <3>2. QED
      BY <1>1, <3>1, FS_Subset
  <2>2. QED
    BY <2>1 DEF Rank
<1>3. \A i \in S : Rank(S, i) \in 1..Cardinality(S)
  <2>1. ASSUME NEW i \in S PROVE Rank(S, i) \in 1..Cardinality(S)
    <3>1. Cardinality(upTo(i)) <= Cardinality(S) /\ Cardinality(upTo(i)) \in Nat
      BY <1>1, <1>2, FS_Subset, FS_CardinalityType
    <3>2. Cardinality(upTo(i)) # 0
      BY <1>2, FS_EmptySet
    <3>3. QED
      BY <1>1, <1>2, <3>1, <3>2
  <2>2. QED
    BY <2>1
<1>4. \A i, j \in S : i < j => Rank(S, i) < Rank(S, j)
  <2>1. ASSUME NEW i \in S, NEW j \in S, i < j PROVE Rank(S, i) < Rank(S, j)
    <3>0. \A n \in S : n \in Int
      OBVIOUS
    <3>1. upTo(i) \subseteq upTo(j) /\ j \notin upTo(i) /\ j \in upTo(j)
      <4>1. \A n \in S : n <= i => n <= j
        BY <2>1, <3>0
      <4>2. ~(j <= i) /\ j <= j
        BY <2>1, <3>0
      <4>3. QED
        BY <4>1, <4>2
    <3>2. Cardinality(upTo(i)) < Cardinality(upTo(j))
      <4>1. upTo(i) # upTo(j) /\ IsFiniteSet(upTo(j))
        BY <1>2, <3>1
      <4>2. Cardinality(upTo(i)) <= Cardinality(upTo(j))
            /\ (Cardinality(upTo(i)) = Cardinality(upTo(j)) => upTo(i) = upTo(j))
        BY <3>1, <4>1, FS_Subset
      <4>3. Cardinality(upTo(i)) \in Nat /\ Cardinality(upTo(j)) \in Nat
        BY <1>2, FS_CardinalityType
      <4>4. QED
        BY <4>1, <4>2, <4>3
    <3>3. QED
      BY <1>2, <3>2
  <2>2. QED
    BY <2>1
<1>5. f \in Surjection(S, T)
  <2>1. f \in [S -> T] /\ \A i \in S : f[i] = Rank(S, i)
    BY <1>3
  <2>2. \A i, j \in S : f[i] = f[j] => i = j
    <3>1. ASSUME NEW i \in S, NEW j \in S, f[i] = f[j] PROVE i = j
      <4>1. i \in Int /\ j \in Int /\ f[i] \in Int /\ f[j] \in Int
        BY <1>1, <2>1
      <4>2. ~(i < j) /\ ~(j < i)
        BY <1>4, <2>1, <3>1, <4>1
      <4>3. QED
        BY <4>1, <4>2
    <3>2. QED
      BY <3>1
  <2>3. f \in Injection(S, T)
    <3> HIDE DEF f
    <3> QED
      BY <2>1, <2>2 DEF Injection, IsInjective
  <2>4. IsFiniteSet(T) /\ Cardinality(T) = Cardinality(S)
    BY <1>1, FS_Interval, 1 \in Int, Cardinality(S) \in Int
  <2>5. QED
    BY <1>1, <2>3, <2>4, FS_Injection
<1>6. \A n \in T : \E i \in S : f[i] = n
  <2> HIDE DEF f
  <2> QED
    BY <1>5 DEF Surjection
<1>7. QED
  BY <1>1, <1>3, <1>4, <1>6

\* What a selection holds, and where.
LEMMA SelectedAt ==
  ASSUME NEW s, Len(s) \in Nat, NEW S \in SUBSET (1..Len(s))
  PROVE  /\ Cardinality(S) \in Nat
         /\ DOMAIN Selected(s, S) = 1..Cardinality(S)
         /\ Selected(s, S) = [n \in 1..Cardinality(S) |-> Selected(s, S)[n]]
         /\ \A n \in 1..Cardinality(S) :
              \E i \in S : Rank(S, i) = n /\ Selected(s, S)[n] = s[i]
         /\ \A i \in S : Selected(s, S)[Rank(S, i)] = s[i]
<1>1. /\ IsFiniteSet(S) /\ Cardinality(S) \in Nat
      /\ \A i \in S : Rank(S, i) \in 1..Cardinality(S)
      /\ \A i, j \in S : i < j => Rank(S, i) < Rank(S, j)
      /\ \A n \in 1..Cardinality(S) : \E i \in S : Rank(S, i) = n
  BY Ranks
<1>2. ASSUME NEW n \in 1..Cardinality(S)
      PROVE  \E i \in S : Rank(S, i) = n /\ Selected(s, S)[n] = s[i]
  <2>1. Selected(s, S)[n] = s[CHOOSE i \in S : Rank(S, i) = n]
    BY DEF Selected
  <2>2. PICK i \in S : i = CHOOSE j \in S : Rank(S, j) = n
    BY <1>1
  <2>3. Rank(S, i) = n
    BY <1>1, <2>2
  <2>4. QED
    BY <2>1, <2>2, <2>3
<1>3. ASSUME NEW i \in S PROVE Selected(s, S)[Rank(S, i)] = s[i]
  <2>1. PICK j \in S : Rank(S, j) = Rank(S, i) /\ Selected(s, S)[Rank(S, i)] = s[j]
    BY <1>1, <1>2
  <2>2. i \in Int /\ j \in Int /\ Rank(S, i) \in Int
    BY <1>1
  <2>3. ~(i < j) /\ ~(j < i)
    BY <1>1, <2>1, <2>2
  <2>4. QED
    BY <2>1, <2>2, <2>3
<1>4. QED
  BY <1>1, <1>2, <1>3 DEF Selected

\* A selection of a sequence has its type.
LEMMA SelectedType ==
  ASSUME NEW T, NEW s \in Seq(T), NEW S \in SUBSET (1..Len(s))
  PROVE  Selected(s, S) \in Seq(T)
<1>1. Len(s) \in Nat /\ \A i \in 1..Len(s) : s[i] \in T
  OBVIOUS
<1>2. Cardinality(S) \in Nat /\ \A n \in 1..Cardinality(S) : Selected(s, S)[n] \in T
  BY <1>1, SelectedAt
<1>3. Selected(s, S) = [n \in 1..Cardinality(S) |-> Selected(s, S)[n]]
  BY <1>1, SelectedAt
<1>4. QED
  BY <1>2, <1>3

\* The selection of all positions is the sequence.
LEMMA SelectedAll ==
  ASSUME NEW T, NEW s \in Seq(T)
  PROVE  Selected(s, 1..Len(s)) = s
<1> DEFINE S == 1..Len(s)
<1>1. Len(s) \in Nat /\ S \in SUBSET (1..Len(s)) /\ Cardinality(S) = Len(s)
  <2>1. Len(s) \in Nat
    OBVIOUS
  <2>2. Cardinality(1..Len(s)) = IF 1 > Len(s) THEN 0 ELSE Len(s) - 1 + 1
    BY <2>1, FS_Interval, 1 \in Int, Len(s) \in Int
  <2>3. QED
    BY <2>1, <2>2
<1>2. \A i \in S : Rank(S, i) = i
  <2>1. ASSUME NEW i \in S PROVE Rank(S, i) = i
    <3>1. {j \in S : j <= i} = 1..i /\ i \in Nat
      BY <1>1
    <3>2. Cardinality(1..i) = i
      BY <3>1, FS_Interval, 1 \in Int, i \in Int
    <3>3. QED
      BY <3>1, <3>2 DEF Rank
  <2>2. QED
    BY <2>1
<1>3. \A i \in 1..Len(s) : Selected(s, S)[i] = s[i]
  BY <1>1, <1>2, SelectedAt
<1>4. Selected(s, S) = [n \in 1..Len(s) |-> Selected(s, S)[n]]
  <2> HIDE DEF S
  <2>1. Selected(s, S) = [n \in 1..Cardinality(S) |-> Selected(s, S)[n]]
    BY <1>1, SelectedAt
  <2>2. QED
    BY <1>1, <2>1
<1>5. s = [n \in 1..Len(s) |-> s[n]]
  OBVIOUS
<1>6. QED
  BY <1>3, <1>4, <1>5
-----------------------------------------------------------------------------
(* The stream                                                               *)

\* The first element moves from what is left to what is here.
LEMMA FirstMoves ==
  \A T : \A h, l \in Seq(T) : l # <<>> =>
    /\ Tail(l) \in Seq(T) /\ Append(h, Head(l)) \in Seq(T)
    /\ h \o <<Head(l)>> \in Seq(T)
    /\ Append(h, Head(l)) \o Tail(l) = h \o l
    /\ (h \o <<Head(l)>>) \o Tail(l) = h \o l
OBVIOUS

\* The same of pieces of text.
LEMMA TextMoves ==
  \A h, l \in Seq(STRING) : l # <<>> =>
    /\ Tail(l) \in Seq(STRING) /\ Append(h, Head(l)) \in Seq(STRING)
    /\ h \o <<Head(l)>> \in Seq(STRING)
    /\ Append(h, Head(l)) \o Tail(l) = h \o l
    /\ (h \o <<Head(l)>>) \o Tail(l) = h \o l
BY FirstMoves, Zenon

Names == STRING \cup {""}
Calls == [id : Names, name : Names, args : Seq(STRING)]
Whole == [text : Seq(STRING), calls : Seq(Calls)]

\* The answers an endpoint may send are whole messages.
LEMMA AnswersWhole == Answers \subseteq Whole
<1> SUFFICES ASSUME NEW a \in Answers PROVE a \in Whole
  OBVIOUS
<1> DEFINE C == [id : STRING, name : STRING, args : Seq(STRING)]
<1>1. a \in [text : Seq(STRING), calls : Seq(C)]
  BY StreamAssumption
<1>2. C \subseteq Calls
  BY DEF Calls, Names
<1>3. a.calls \in Seq(Calls)
  <2> HIDE DEF C
  <2>1. a.calls \in Seq(C)
    BY <1>1
  <2>2. QED
    BY <1>2, <2>1
<1>4. QED
  BY <1>1, <1>3 DEF Whole

\* A slot that is not open yet is empty, and all of its call is still to
\* come; an open one and what is to come make up the call.
SlotInv(slot, rest, c) ==
  /\ slot.name = "" => slot.args = <<>> /\ rest = c /\ slot.id \in {"", c.id}
  /\ slot.name # "" => /\ slot.id = c.id /\ slot.name = c.name
                       /\ slot.args \o rest.args = c.args

\* So do the text heard and the text to come.
OpenInv ==
  /\ answer \in Whole /\ left \in Whole
  /\ heard \in Seq(STRING) /\ heard \o left.text = answer.text
  /\ slots \in Seq(Calls)
  /\ Len(slots) = Len(answer.calls) /\ Len(left.calls) = Len(answer.calls)
  /\ \A i \in 1..Len(slots) : SlotInv(slots[i], left.calls[i], answer.calls[i])

StreamInv ==
  /\ link \in {"closed", "open", "ended"}
  /\ link = "closed" => heard = <<>>
  /\ link = "open" => OpenInv
  /\ StreamAgrees

\* A piece of a call in its slot.
LEMMA SlotMerges ==
  ASSUME NEW slot \in Calls, NEW rest \in Calls, NEW c \in Calls,
         SlotInv(slot, rest, c)
  PROVE  /\ slot.name = "" =>
              /\ MergeDelta(slot, FirstPiece(rest)) \in Calls
              /\ SlotInv(MergeDelta(slot, FirstPiece(rest)), rest, c)
         /\ slot.name # "" /\ rest.args # <<>> =>
              /\ MergeDelta(slot, ArgsPiece(rest)) \in Calls
              /\ [rest EXCEPT !.args = Tail(@)] \in Calls
              /\ SlotInv(MergeDelta(slot, ArgsPiece(rest)),
                         [rest EXCEPT !.args = Tail(@)], c)
<1>1. ASSUME slot.name = ""
      PROVE  /\ MergeDelta(slot, FirstPiece(rest)) \in Calls
             /\ SlotInv(MergeDelta(slot, FirstPiece(rest)), rest, c)
  <2>1. slot.args = <<>> /\ rest = c /\ slot.id \in {"", c.id}
    BY <1>1 DEF SlotInv
  <2>2. /\ MergeDelta(slot, FirstPiece(rest)).args = <<>>
        /\ MergeDelta(slot, FirstPiece(rest)).id = c.id
        /\ MergeDelta(slot, FirstPiece(rest)).name = c.name
        /\ MergeDelta(slot, FirstPiece(rest)) \in Calls
    <3>1. <<>> \o <<>> = <<>> /\ <<>> \in Seq(STRING)
      OBVIOUS
    <3>2. QED
      BY <1>1, <2>1, <3>1 DEF MergeDelta, FirstPiece, Calls
  <2>3. <<>> \o c.args = c.args
    BY DEF Calls
  <2>4. QED
    BY <2>1, <2>2, <2>3 DEF SlotInv
<1>2. ASSUME slot.name # "", rest.args # <<>>
      PROVE  /\ MergeDelta(slot, ArgsPiece(rest)) \in Calls
             /\ [rest EXCEPT !.args = Tail(@)] \in Calls
             /\ SlotInv(MergeDelta(slot, ArgsPiece(rest)),
                        [rest EXCEPT !.args = Tail(@)], c)
  <2>1. /\ slot.id = c.id /\ slot.name = c.name
        /\ slot.args \o rest.args = c.args
    BY <1>2 DEF SlotInv
  <2>2. /\ slot.args \in Seq(STRING) /\ rest.args \in Seq(STRING)
    BY DEF Calls
  <2>3. /\ Tail(rest.args) \in Seq(STRING)
        /\ slot.args \o <<Head(rest.args)>> \in Seq(STRING)
        /\ (slot.args \o <<Head(rest.args)>>) \o Tail(rest.args) = c.args
    BY <1>2, <2>1, <2>2, TextMoves
  <2>4. MergeDelta(slot, ArgsPiece(rest)) =
          [id |-> slot.id, name |-> slot.name, args |-> slot.args \o <<Head(rest.args)>>]
    BY DEF MergeDelta, ArgsPiece, NoSlot
  <2>5. [rest EXCEPT !.args = Tail(@)] \in Calls
        /\ [rest EXCEPT !.args = Tail(@)].args = Tail(rest.args)
    BY <2>3 DEF Calls
  <2>6. MergeDelta(slot, ArgsPiece(rest)) \in Calls
    BY <2>3, <2>4 DEF Calls
  <2>7. /\ MergeDelta(slot, ArgsPiece(rest)).id = slot.id
        /\ MergeDelta(slot, ArgsPiece(rest)).name = slot.name
        /\ MergeDelta(slot, ArgsPiece(rest)).args = slot.args \o <<Head(rest.args)>>
    BY <2>4
  <2>8. SlotInv(MergeDelta(slot, ArgsPiece(rest)), [rest EXCEPT !.args = Tail(@)], c)
    <3> DEFINE to == MergeDelta(slot, ArgsPiece(rest))
               more == [rest EXCEPT !.args = Tail(@)]
    <3>1. to.args \o more.args = c.args
      BY <2>3, <2>5, <2>7
    <3>2. to.name # "" /\ to.id = c.id /\ to.name = c.name
      BY <1>2, <2>1, <2>7
    <3> HIDE DEF to, more
    <3>3. SlotInv(to, more, c)
      BY <3>1, <3>2 DEF SlotInv
    <3>4. QED
      BY <3>3 DEF to, more
  <2>9. QED
    BY <2>5, <2>6, <2>8
<1>3. QED
  BY <1>1, <1>2

\* When all has come the collector has the whole message.
LEMMA CollectedWhole ==
  ASSUME OpenInv, AllHere
  PROVE  /\ heard = answer.text /\ slots = answer.calls
         /\ Message(heard, slots) = answer
         /\ slots # <<>> => Head(slots).name # ""
<1>1. heard = answer.text
  <2>1. heard \o <<>> = heard
    BY DEF OpenInv
  <2>2. QED
    BY <2>1 DEF OpenInv, AllHere
<1>2. \A i \in 1..Len(slots) : slots[i] = answer.calls[i] /\ slots[i].name # ""
  <2>1. ASSUME NEW i \in 1..Len(slots)
        PROVE  slots[i] = answer.calls[i] /\ slots[i].name # ""
    <3>1. /\ slots[i] \in Calls /\ answer.calls[i] \in Calls
      BY DEF OpenInv, Whole
    <3>2. /\ slots[i].name # "" /\ slots[i].id = answer.calls[i].id
          /\ slots[i].name = answer.calls[i].name
          /\ slots[i].args \o <<>> = answer.calls[i].args
      BY DEF OpenInv, AllHere, SlotInv
    <3>3. slots[i].args \o <<>> = slots[i].args
      BY <3>1 DEF Calls
    <3>4. \A c, d \in Calls :
            c.id = d.id /\ c.name = d.name /\ c.args = d.args => c = d
      BY DEF Calls
    <3>5. QED
      BY <3>1, <3>2, <3>3, <3>4
  <2>2. QED
    BY <2>1
<1>3. slots = answer.calls
  <2>1. slots \in Seq(Calls) /\ answer.calls \in Seq(Calls) /\ Len(slots) = Len(answer.calls)
    BY DEF OpenInv, Whole
  <2>2. \A c, d \in Seq(Calls) :
          Len(c) = Len(d) /\ (\A i \in 1..Len(c) : c[i] = d[i]) => c = d
    OBVIOUS
  <2>3. QED
    BY <1>2, <2>1, <2>2
<1>4. Selected(slots, {i \in 1..Len(slots) : slots[i].name # ""}) = slots
  <2>1. {i \in 1..Len(slots) : slots[i].name # ""} = 1..Len(slots)
    BY <1>2
  <2>2. slots \in Seq(Calls)
    BY DEF OpenInv
  <2>3. QED
    BY <2>1, <2>2, SelectedAll
<1>5. Message(heard, slots) = answer
  BY <1>1, <1>3, <1>4 DEF Message, OpenInv, Whole
<1>6. slots # <<>> => Head(slots).name # ""
  <2>1. slots \in Seq(Calls)
    BY DEF OpenInv
  <2>2. slots # <<>> => 1 \in 1..Len(slots) /\ Head(slots) = slots[1]
    BY <2>1
  <2>3. QED
    BY <1>2, <2>2
<1>7. QED
  BY <1>1, <1>3, <1>5, <1>6

\* Every step of a model call keeps StreamInv.
LEMMA StreamStepInv == ASSUME StreamInv, StreamStep PROVE StreamInv'
<1>1. CASE \E a \in Answers : AnswerWhole(a)
  BY <1>1 DEF AnswerWhole, StreamInv, StreamAgrees, UseStream
<1>2. CASE \E a \in Answers : OpenStream(a)
  <2>1. PICK a \in Answers : OpenStream(a)
    BY <1>2
  <2>2. a \in Whole /\ heard = <<>> /\ heard' = <<>>
    BY <2>1, AnswersWhole DEF OpenStream, StreamInv
  <2>3. /\ a.calls \in Seq(Calls) /\ Len(a.calls) \in Nat /\ NoSlot \in Calls
        /\ a.text \in Seq(STRING)
    <3>1. a.calls \in Seq(Calls) /\ a.text \in Seq(STRING)
      BY <2>2 DEF Whole
    <3>2. NoSlot \in Calls
      <4>1. \A args \in Seq(STRING) : [id |-> "", name |-> "", args |-> args] \in Calls
        BY DEF Calls, Names
      <4>2. <<>> \in Seq(STRING)
        OBVIOUS
      <4>3. QED
        BY <4>1, <4>2 DEF NoSlot
    <3>3. QED
      BY <3>1, <3>2
  <2>4. /\ slots' = [i \in 1..Len(a.calls) |-> NoSlot]
        /\ answer' = a /\ left' = a /\ link' = "open"
    BY <2>1 DEF OpenStream
  <2>5. /\ slots' \in Seq(Calls) /\ Len(slots') = Len(a.calls)
        /\ \A i \in 1..Len(slots') : slots'[i] = NoSlot
    BY <2>3, <2>4
  <2>6. <<>> \in Seq(STRING) /\ <<>> \o a.text = a.text
    BY <2>3
  <2>7. OpenInv'
    BY <2>2, <2>4, <2>5, <2>6 DEF OpenInv, SlotInv, NoSlot
  <2>8. QED
    BY <2>4, <2>7 DEF StreamInv, StreamAgrees
<1>3. CASE TextPiece
  <2>1. /\ link = "open" /\ link' = "open" /\ OpenInv /\ left.text # <<>>
        /\ heard' = Append(heard, Head(left.text))
        /\ left' = [left EXCEPT !.text = Tail(@)]
        /\ UNCHANGED <<answer, slots>>
    BY <1>3 DEF TextPiece, StreamInv
  <2>2. heard \in Seq(STRING) /\ left.text \in Seq(STRING)
    BY <2>1 DEF OpenInv, Whole
  <2>3. /\ Tail(left.text) \in Seq(STRING) /\ heard' \in Seq(STRING)
        /\ heard' \o Tail(left.text) = heard \o left.text
    BY <2>1, <2>2, TextMoves
  <2>4. left' \in Whole /\ left'.text = Tail(left.text) /\ left'.calls = left.calls
    BY <2>1, <2>3 DEF OpenInv, Whole
  <2>5. OpenInv'
    BY <2>1, <2>3, <2>4 DEF OpenInv
  <2>6. QED
    BY <2>1, <2>5 DEF StreamInv, StreamAgrees
<1>4. CASE \E i \in 1..Len(slots) : CallPiece(i)
  <2>1. PICK i \in 1..Len(slots) : CallPiece(i)
    BY <1>4
  <2> DEFINE slot == slots[i]
             rest == left.calls[i]
  <2>2. /\ link = "open" /\ link' = "open" /\ OpenInv
        /\ UNCHANGED <<answer, heard>>
    BY <2>1 DEF CallPiece, StreamInv
  <2>3. /\ i \in 1..Len(left.calls) /\ i \in 1..Len(answer.calls)
        /\ slot \in Calls /\ rest \in Calls /\ answer.calls[i] \in Calls
        /\ SlotInv(slot, rest, answer.calls[i])
        /\ left.calls \in Seq(Calls) /\ slots \in Seq(Calls)
    BY <2>2 DEF OpenInv, Whole
  <2>4. CASE slot.name = ""
    <3>1. /\ slots' = [slots EXCEPT ![i] = MergeDelta(slot, FirstPiece(rest))]
          /\ left' = left
      BY <2>1, <2>4 DEF CallPiece
    <3>2. /\ MergeDelta(slot, FirstPiece(rest)) \in Calls
          /\ SlotInv(MergeDelta(slot, FirstPiece(rest)), rest, answer.calls[i])
      BY <2>3, <2>4, SlotMerges
    <3>3. /\ slots' \in Seq(Calls) /\ Len(slots') = Len(slots)
          /\ slots'[i] = MergeDelta(slot, FirstPiece(rest))
          /\ \A j \in 1..Len(slots) : j # i => slots'[j] = slots[j]
      BY <2>3, <3>1, <3>2
    <3>4. OpenInv'
      BY <2>2, <3>1, <3>2, <3>3 DEF OpenInv
    <3>5. QED
      BY <2>2, <3>4 DEF StreamInv, StreamAgrees
  <2>5. CASE slot.name # ""
    <3>1. /\ rest.args # <<>>
          /\ slots' = [slots EXCEPT ![i] = MergeDelta(slot, ArgsPiece(rest))]
          /\ left' = [left EXCEPT !.calls[i].args = Tail(@)]
      BY <2>1, <2>5 DEF CallPiece
    <3>2. /\ MergeDelta(slot, ArgsPiece(rest)) \in Calls
          /\ [rest EXCEPT !.args = Tail(@)] \in Calls
          /\ SlotInv(MergeDelta(slot, ArgsPiece(rest)),
                     [rest EXCEPT !.args = Tail(@)], answer.calls[i])
      BY <2>3, <2>5, <3>1, SlotMerges
    <3>3. /\ slots' \in Seq(Calls) /\ Len(slots') = Len(slots)
          /\ slots'[i] = MergeDelta(slot, ArgsPiece(rest))
          /\ \A j \in 1..Len(slots) : j # i => slots'[j] = slots[j]
      BY <2>3, <3>1, <3>2
    <3>4. left' = [left EXCEPT !.calls = [left.calls EXCEPT
                     ![i] = [rest EXCEPT !.args = Tail(@)]]]
      BY <3>1
    <3>5. /\ left' \in Whole /\ left'.text = left.text
          /\ Len(left'.calls) = Len(left.calls)
          /\ left'.calls[i] = [rest EXCEPT !.args = Tail(@)]
          /\ \A j \in 1..Len(slots) : j # i => left'.calls[j] = left.calls[j]
      <4> DEFINE more == [rest EXCEPT !.args = Tail(@)]
                 calls == [left.calls EXCEPT ![i] = more]
      <4>1. /\ calls \in Seq(Calls) /\ Len(calls) = Len(left.calls) /\ calls[i] = more
            /\ \A j \in 1..Len(left.calls) : j # i => calls[j] = left.calls[j]
        <5>1. more \in Calls
          BY <3>2
        <5> HIDE DEF more
        <5>2. QED
          BY <2>3, <5>1
      <4>2. left' = [left EXCEPT !.calls = calls] /\ left \in Whole
            /\ Len(slots) = Len(left.calls)
        BY <2>2, <3>4 DEF OpenInv
      <4> HIDE DEF calls, more
      <4>3. left' \in Whole /\ left'.text = left.text /\ left'.calls = calls
        BY <4>1, <4>2 DEF Whole
      <4>4. QED
        BY <4>1, <4>2, <4>3 DEF more
    <3>6. OpenInv'
      BY <2>2, <3>2, <3>3, <3>5 DEF OpenInv
    <3>7. QED
      BY <2>2, <3>6 DEF StreamInv, StreamAgrees
  <2>6. QED
    BY <2>4, <2>5
<1>5. CASE StreamEnds
  <2>1. /\ OpenInv /\ AllHere /\ link' = "ended"
        /\ UNCHANGED <<wire, answer, slots, heard>>
    BY <1>5 DEF StreamEnds, StreamInv
  <2>2. /\ heard = answer.text /\ slots = answer.calls
        /\ Message(heard, slots) = answer
        /\ slots # <<>> => Head(slots).name # ""
    BY <2>1, CollectedWhole
  <2>3. output' = IF answer.calls = <<>> /\ IsBlank(heard) THEN Failure ELSE Parse(answer)
    BY <1>5, <2>2 DEF StreamEnds
  <2>4. Parse(answer).kind = "text" => answer.calls = <<>>
    BY <2>2 DEF Parse, CallOutput
  <2>5. StreamAgrees'
    BY <2>1, <2>2, <2>3, <2>4 DEF StreamAgrees, Parse, IsBlank
  <2>6. QED
    BY <2>1, <2>5 DEF StreamInv
<1>6. CASE AttemptFails
  BY <1>6 DEF AttemptFails, StreamInv, StreamAgrees
<1>7. CASE NextProvider
  BY <1>7 DEF NextProvider, StreamInv, StreamAgrees
<1>8. QED
  BY <1>1, <1>2, <1>3, <1>4, <1>5, <1>6, <1>7 DEF StreamStep

\* So does whatever the turn does with the stream.
LEMMA StreamNextInv == ASSUME StreamInv, StreamMoves PROVE StreamInv'
<1>1. CASE UNCHANGED streamVars
  BY <1>1
  DEF streamVars, StreamInv, OpenInv, StreamAgrees, UseStream, IsBlank
<1>2. CASE TakeOutput
  BY <1>2 DEF TakeOutput, StreamInv, StreamAgrees
<1>3. QED
  BY <1>1, <1>2, StreamStepInv DEF StreamMoves

\* StreamInv holds in every state of a turn.
LEMMA StreamInvariance == Spec => []StreamInv
<1>1. Init => StreamInv
  BY DEF Init, StreamInit, StreamInv, StreamAgrees
<1>2. StreamInv /\ [Next]_vars => StreamInv'
  BY Parts, StreamNextInv
<1>3. QED
  BY <1>1, <1>2, PTL DEF Spec

(***************************************************************************)
(* OpenAiChatStreamCollector builds the message that the endpoint would     *)
(* have sent whole, for any answer, cut into pieces that come in any order  *)
(* of its parts, after any attempts that failed.                            *)
(***************************************************************************)
THEOREM StreamBuildsAnswer == Spec => []StreamAgrees
BY StreamInvariance, PTL DEF StreamInv
-----------------------------------------------------------------------------
(* Least elements, bounds and iterations                                    *)

\* A set of numbers has a least one.
LEMMA Least ==
  ASSUME NEW S \in SUBSET Nat, S # {}
  PROVE  \E n \in S : \A m \in S : n <= m
<1>1. PICK n \in S : \A m \in S : <<m, n>> \notin OpToRel(<, Nat)
  BY NatLessThanWellFounded, WFMin
<1>2. \A m \in S : ~(m < n)
  BY <1>1 DEF OpToRel
<1>3. QED
  BY <1>2

\* Min finds it.
LEMMA MinIn ==
  ASSUME NEW S \in SUBSET Nat, S # {}
  PROVE  Min(S) \in S /\ \A m \in S : Min(S) <= m
BY Least DEF Min

\* The larger of two.
LEMMA MaxOfTwo ==
  ASSUME NEW a \in Int, NEW b \in Int
  PROVE  Max({a, b}) \in {a, b} /\ Max({a, b}) >= a /\ Max({a, b}) >= b
<1>1. \E x \in {a, b} : \A y \in {a, b} : x >= y
  <2>1. CASE a >= b
    BY <2>1
  <2>2. CASE b >= a
    BY <2>2
  <2>3. QED
    BY <2>1, <2>2
<1>2. QED
  BY <1>1 DEF Max

\* The smaller of two.
LEMMA MinOfTwo ==
  ASSUME NEW a \in Int, NEW b \in Int
  PROVE  Min({a, b}) \in {a, b} /\ Min({a, b}) <= a /\ Min({a, b}) <= b
<1>1. \E x \in {a, b} : \A y \in {a, b} : x <= y
  <2>1. CASE a <= b
    BY <2>1
  <2>2. CASE b <= a
    BY <2>2
  <2>3. QED
    BY <2>1, <2>2
<1>2. QED
  BY <1>1 DEF Min

\* The values of an iteration stay where its step stays.
LEMMA Iterates ==
  ASSUME NEW S, NEW a \in S, NEW C, \A s \in S : C[s] \in S, NEW K \in Nat,
         NEW f,
         f = CHOOSE g : g = [n \in 0..K |-> IF n = 0 THEN a ELSE C[g[n - 1]]]
  PROVE  f[K] \in S
<1> DEFINE Iter(g, k) == g = [n \in 0..k |-> IF n = 0 THEN a ELSE C[g[n - 1]]]
           None == {k \in 0..K : ~\E g : Iter(g, k)}
           Bad == {k \in 0..K : f[k] \notin S}
<1>1. None = {}
  <2> SUFFICES ASSUME None # {} PROVE FALSE
    OBVIOUS
  <2>1. None \subseteq Nat
    OBVIOUS
  <2>2. PICK k \in None : \A m \in None : k <= m
    BY <2>1, Least
  <2>3. k \in 0..K /\ ~\E g : Iter(g, k)
    OBVIOUS
  <2>4. CASE k = 0
    <3>1. Iter([n \in 0..0 |-> a], 0)
      OBVIOUS
    <3>2. QED
      BY <2>3, <2>4, <3>1
  <2>5. CASE k # 0
    <3>1. k - 1 \in 0..K /\ k - 1 \notin None
      BY <2>2, <2>3, <2>5
    <3>2. PICK h : Iter(h, k - 1)
      BY <3>1
    <3> DEFINE g == [n \in 0..k |-> IF n = k THEN C[h[k - 1]] ELSE h[n]]
    <3>3. \A n \in 0..k : g[n] = IF n = 0 THEN a ELSE C[g[n - 1]]
      <4>1. ASSUME NEW n \in 0..k PROVE g[n] = IF n = 0 THEN a ELSE C[g[n - 1]]
        <5>1. CASE n = k
          <6>1. n # 0 /\ n - 1 \in 0..k /\ n - 1 # k
            BY <2>3, <2>5, <5>1
          <6>2. g[n - 1] = h[n - 1]
            BY <6>1
          <6>3. g[n] = C[h[k - 1]]
            BY <5>1
          <6>4. QED
            BY <5>1, <6>1, <6>2, <6>3
        <5>2. CASE n # k
          <6>1. n \in 0..(k - 1)
            BY <2>3, <5>2
          <6>2. h[n] = IF n = 0 THEN a ELSE C[h[n - 1]]
            BY <3>2, <6>1
          <6>3. g[n] = h[n]
            BY <5>2
          <6>4. n # 0 => n - 1 \in 0..k /\ n - 1 # k
            BY <2>3, <6>1
          <6>5. n # 0 => g[n - 1] = h[n - 1]
            BY <6>4
          <6>6. QED
            BY <6>2, <6>3, <6>5
        <5>3. QED
          BY <5>1, <5>2
      <4>2. QED
        BY <4>1
    <3>4. g = [n \in 0..k |-> g[n]]
      OBVIOUS
    <3> HIDE DEF g
    <3>5. Iter(g, k)
      BY <3>3, <3>4
    <3>6. QED
      BY <2>3, <3>5
  <2>6. QED
    BY <2>4, <2>5
<1>2. Iter(f, K)
  <2>1. K \in 0..K /\ K \notin None
    BY <1>1
  <2>2. \E g : Iter(g, K)
    BY <2>1
  <2>3. QED
    BY <2>2
<1>3. Bad = {}
  <2> SUFFICES ASSUME Bad # {} PROVE FALSE
    OBVIOUS
  <2>1. Bad \subseteq Nat
    OBVIOUS
  <2>2. PICK k \in Bad : \A m \in Bad : k <= m
    BY <2>1, Least
  <2>3. k \in 0..K /\ f[k] \notin S /\ f[k] = IF k = 0 THEN a ELSE C[f[k - 1]]
    BY <1>2
  <2>4. k # 0
    BY <2>3
  <2>5. k - 1 \in 0..K /\ k - 1 \notin Bad
    BY <2>2, <2>3, <2>4
  <2>6. f[k - 1] \in S
    BY <2>5
  <2>7. QED
    BY <2>3, <2>4, <2>6
<1>4. QED
  BY <1>3

-----------------------------------------------------------------------------
(* The window                                                               *)

\* The limits of a session are numbers.
LEMMA LimitsTyped ==
  ASSUME NEW l \in Limits
  PROVE  /\ l.tail \in Nat /\ l.msgMax \in Nat /\ l.budget \in Nat
         /\ l.toolMax \in Nat /\ l.turnMax \in Nat /\ l.maxHistory \in Nat
         /\ l.outMax \in Nat
BY TurnAssumption

\* Lengths and tokens are numbers.
LEMMA TokensType ==
  ASSUME NEW m \in Messages PROVE RenderLen(m) \in Nat /\ Tokens(m) \in Nat
<1>1. RenderLen(m) \in Nat
  BY WindowAssumption DEF RenderLen, Messages
<1>2. \A n \in Nat, k \in Nat \ {0} : n \div k \in Nat
  OBVIOUS
<1>3. RenderLen(m) \div CharsPerToken \in Nat
  BY <1>1, <1>2, WindowAssumption
<1>4. Max({1, RenderLen(m) \div CharsPerToken}) \in Nat
  <2> DEFINE n == RenderLen(m) \div CharsPerToken
  <2> HIDE DEF n
  <2>1. 1 \in Int /\ n \in Int
    BY <1>3 DEF n
  <2>2. Max({1, n}) \in {1, n}
    BY <2>1, MaxOfTwo, Zenon
  <2>3. QED
    BY <1>3, <2>2 DEF n
<1>5. QED
  BY <1>1, <1>4 DEF Tokens

\* No message has no tokens.
LEMMA NoTokens == TotalTokens(<<>>) = 0
<1> DEFINE Sum(f) == f = [n \in 0..Len(<<>>) |->
                            IF n = 0 THEN 0 ELSE f[n - 1] + Tokens(<<>>[n])]
           sum == CHOOSE f : Sum(f)
<1>1. Len(<<>>) = 0
  OBVIOUS
<1>2. Sum([n \in 0..0 |-> 0])
  BY <1>1
<1>3. Sum(sum)
  BY <1>2
<1>4. sum[0] = 0
  BY <1>1, <1>3
<1>5. QED
  BY <1>1, <1>4 DEF TotalTokens

\* One message has its own tokens.
LEMMA TokensOfOne ==
  ASSUME NEW ms \in Seq(Messages), Len(ms) = 1
  PROVE  TotalTokens(ms) = Tokens(ms[1])
<1> DEFINE Sum(f) == f = [n \in 0..Len(ms) |->
                            IF n = 0 THEN 0 ELSE f[n - 1] + Tokens(ms[n])]
           sum == CHOOSE f : Sum(f)
           g == [n \in 0..1 |-> IF n = 0 THEN 0 ELSE Tokens(ms[1])]
<1>1. Tokens(ms[1]) \in Nat
  BY TokensType
<1>2. Sum(g)
  <2>1. \A n \in 0..1 : g[n] = IF n = 0 THEN 0 ELSE g[n - 1] + Tokens(ms[n])
    BY <1>1
  <2>2. g = [n \in 0..1 |-> g[n]]
    OBVIOUS
  <2> HIDE DEF g
  <2>3. QED
    BY <2>1, <2>2
<1>3. Sum(sum)
  BY <1>2
<1>4. sum[0] = 0 /\ sum[1] = sum[0] + Tokens(ms[1])
  <2> HIDE DEF sum
  <2>1. \A n \in 0..1 : sum[n] = IF n = 0 THEN 0 ELSE sum[n - 1] + Tokens(ms[n])
    BY <1>3
  <2>2. 0 \in 0..1 /\ 1 \in 0..1 /\ 1 - 1 = 0
    OBVIOUS
  <2>3. QED
    BY <2>1, <2>2
<1>5. QED
  BY <1>1, <1>4 DEF TotalTokens

\* Suffixes.
LEMMA SuffixType ==
  ASSUME NEW ms \in Seq(Messages), NEW k \in Nat \ {0}
  PROVE  /\ SubSeq(ms, k, Len(ms)) \in Seq(Messages)
         /\ k <= Len(ms) => SubSeq(ms, k, Len(ms)) # <<>>
         /\ k = Len(ms) + 1 => SubSeq(ms, k, Len(ms)) = <<>>
         /\ k = Len(ms) => SubSeq(ms, k, Len(ms)) = <<ms[k]>>
<1> DEFINE L == Len(ms)
           t == SubSeq(ms, k, L)
<1>1. L \in Nat /\ \A i \in 1..L : ms[i] \in Messages
  OBVIOUS
<1>2. \A i \in k..L : i \in 1..L
  BY <1>1
<1>3. t \in Seq(Messages)
  BY <1>1, <1>2
<1>4. Len(t) = IF k <= L THEN L - k + 1 ELSE 0
  BY <1>1
<1>5. \A i \in 1..Len(t) : t[i] = ms[k + i - 1]
  BY <1>1, <1>4
<1> HIDE DEF t
<1>6. k <= L => t # <<>>
  BY <1>1, <1>3, <1>4
<1>7. k = L + 1 => t = <<>>
  BY <1>1, <1>3, <1>4
<1>8. k = L => t = <<ms[k]>>
  BY <1>1, <1>3, <1>4, <1>5
<1>9. QED
  BY <1>3, <1>6, <1>7, <1>8 DEF t

\* The last messages of a session are messages, and some if there were some.
LEMMA LastOfType ==
  ASSUME NEW ms \in Seq(Messages), NEW n \in Nat
  PROVE  /\ LastOf(ms, n) \in Seq(Messages)
         /\ n # 0 /\ ms # <<>> => LastOf(ms, n) # <<>>
<1>1. Len(ms) \in Nat /\ Len(ms) - n + 1 \in Int
  OBVIOUS
<1> DEFINE k == Max({1, Len(ms) - n + 1})
<1>2. k \in {1, Len(ms) - n + 1} /\ k >= 1
  <2> DEFINE n2 == Len(ms) - n + 1
  <2> HIDE DEF n2
  <2>1. 1 \in Int /\ n2 \in Int
    BY <1>1 DEF n2
  <2>2. Max({1, n2}) \in {1, n2} /\ Max({1, n2}) >= 1
    BY <2>1, MaxOfTwo, Zenon
  <2>3. QED
    BY <2>2 DEF n2
<1>3. k \in Nat \ {0}
  BY <1>1, <1>2
<1>4. n # 0 /\ ms # <<>> => k <= Len(ms)
  BY <1>1, <1>2
<1> HIDE DEF k
<1>5. SubSeq(ms, k, Len(ms)) \in Seq(Messages)
      /\ (k <= Len(ms) => SubSeq(ms, k, Len(ms)) # <<>>)
  BY <1>3, SuffixType, Zenon
<1>6. LastOf(ms, n) = SubSeq(ms, k, Len(ms))
  BY DEF LastOf, k
<1>7. QED
  BY <1>4, <1>5, <1>6

\* So is the tail the assembly takes.
LEMMA TailType ==
  ASSUME NEW ms \in Seq(Messages), NEW tail \in Nat
  PROVE  /\ TailMessages(ms, tail) \in Seq(Messages)
         /\ ms # <<>> => TailMessages(ms, tail) # <<>>
<1> DEFINE n == Min({200, tail})
           m == Max({1, n})
<1>1. n \in Nat
  <2> DEFINE most == 200
  <2>1. most \in Nat /\ most \in Int /\ tail \in Int
    OBVIOUS
  <2> HIDE DEF most
  <2>2. Min({most, tail}) \in {most, tail}
    BY <2>1, MinOfTwo, Zenon
  <2>3. QED
    BY <2>1, <2>2 DEF most
<1>2. m \in Nat \ {0}
  <2> HIDE DEF n
  <2>1. 1 \in Int /\ n \in Int
    BY <1>1
  <2>2. m \in {1, n} /\ m >= 1
    BY <2>1, MaxOfTwo, Zenon
  <2>3. QED
    BY <1>1, <2>2
<1>3. QED
  BY <1>2, LastOfType DEF TailMessages

\* A clipped message is a message.
LEMMA ClipType ==
  ASSUME NEW m \in Messages, NEW max \in Nat
  PROVE  Clip(m, max) \in Messages /\ Shorten(m, max) \in Messages
BY DEF Clip, Shorten, Messages, Forms

\* Messages changed one by one.
LEMMA MappedType ==
  ASSUME NEW ms \in Seq(Messages), NEW to, \A i \in 1..Len(ms) : to[i] \in Messages
  PROVE  /\ [i \in 1..Len(ms) |-> to[i]] \in Seq(Messages)
         /\ ms # <<>> => [i \in 1..Len(ms) |-> to[i]] # <<>>
<1>1. Len(ms) \in Nat
  OBVIOUS
<1>2. ms # <<>> => Len(ms) # 0
  OBVIOUS
<1>3. QED
  BY <1>1, <1>2

Some == Seq(Messages) \ {<<>>}

\* Folding a pair leaves messages, and at least one.
LEMMA CollapseFirstType ==
  ASSUME NEW ms \in Some, NEW max \in Nat
  PROVE  CollapseFirst(ms, max) \in Some
<1> DEFINE pairs == {i \in 1..(Len(ms) - 1) : PlainPair(ms, i)}
           i == Min(pairs)
           size == Min({max, Tier2Prefix + ms[i].size + ms[i + 1].size})
           merged == [ms[i] EXCEPT !.body = "summary", !.size = size]
           before == SubSeq(ms, 1, i - 1)
           after == SubSeq(ms, i + 2, Len(ms))
<1>1. CASE pairs = {}
  BY <1>1 DEF CollapseFirst
<1>2. CASE pairs # {}
  <2>1. ms \in Seq(Messages) /\ Len(ms) \in Nat
    BY DEF Some
  <2>2. pairs \in SUBSET Nat
    BY <2>1
  <2>3. i \in 1..(Len(ms) - 1)
    BY <1>2, <2>2, MinIn
  <2> HIDE DEF i, pairs
  <2>4. ms[i] \in Messages /\ ms[i + 1] \in Messages
    BY <2>1, <2>3
  <2>5. size \in Nat
    <3>1. Tier2Prefix + ms[i].size + ms[i + 1].size \in Nat
      BY <2>4, WindowAssumption DEF Messages
    <3> DEFINE n == Tier2Prefix + ms[i].size + ms[i + 1].size
    <3> HIDE DEF n
    <3>2. max \in Int /\ n \in Int
      BY <3>1 DEF n
    <3>3. Min({max, n}) \in {max, n}
      BY <3>2, MinOfTwo, Zenon
    <3>4. QED
      BY <3>1, <3>3 DEF n
  <2> HIDE DEF size
  <2>6. merged \in Messages
    BY <2>4, <2>5, WindowAssumption DEF Messages
  <2>7. before \in Seq(Messages) /\ after \in Seq(Messages)
    BY <2>1, <2>3
  <2> HIDE DEF merged, before, after
  <2>8. before \o <<merged>> \o after \in Seq(Messages)
    BY <2>6, <2>7
  <2>9. before \o <<merged>> \o after # <<>>
    BY <2>6, <2>7
  <2>10. CollapseFirst(ms, max) = before \o <<merged>> \o after
    BY <1>2 DEF CollapseFirst, pairs, i, size, merged, before, after
  <2>11. QED
    BY <2>8, <2>9, <2>10 DEF Some
<1>3. QED
  BY <1>1, <1>2

\* So do all rounds of it.
LEMMA CollapseEarlyType ==
  ASSUME NEW ms \in Some, NEW budget \in Nat, NEW max \in Nat
  PROVE  CollapseEarly(ms, budget, max) \in Some
<1> DEFINE C == Collapse(budget, max)
           K == Max({1, 2 * Len(ms)})
           f == CHOOSE g : g = [n \in 0..K |-> IF n = 0 THEN ms ELSE C[g[n - 1]]]
<1>1. \A s \in Some : C[s] \in Some
  BY CollapseFirstType DEF Collapse, Some
<1>2. K \in Nat
  <2>1. Len(ms) \in Nat
    BY DEF Some
  <2>2. 2 * Len(ms) \in Nat
    BY <2>1
  <2> DEFINE n == 2 * Len(ms)
  <2> HIDE DEF n
  <2>3. 1 \in Int /\ n \in Int
    BY <2>2 DEF n
  <2>4. Max({1, n}) \in {1, n}
    BY <2>3, MaxOfTwo, Zenon
  <2>5. QED
    BY <2>2, <2>4 DEF n
<1>3. f[K] \in Some
  <2> HIDE DEF C, K
  <2>1. QED
    BY <1>1, <1>2, Iterates
<1>4. CollapseEarly(ms, budget, max) = f[K]
  BY DEF CollapseEarly
<1>5. QED
  BY <1>3, <1>4

\* The third tier leaves something, and within the budget unless it is one
\* message.
LEMMA TrimFits ==
  ASSUME NEW ms \in Some, NEW budget \in Nat
  PROVE  /\ Trim(ms, budget) \in Some
         /\ TotalTokens(Trim(ms, budget)) <= budget \/ Len(Trim(ms, budget)) = 1
<1> DEFINE L == Len(ms)
           fits == {k \in 1..(L + 1) : TotalTokens(SubSeq(ms, k, Len(ms))) <= budget}
           k == Min(fits)
<1>1. ms \in Seq(Messages) /\ L \in Nat \ {0} /\ ms[L] \in Messages
  BY DEF Some
<1>2. CASE Tokens(Last(ms)) > budget
  <2>1. Trim(ms, budget) = <<ms[L]>>
    BY <1>2 DEF Trim, Last, Some
  <2>2. <<ms[L]>> \in Seq(Messages) /\ <<ms[L]>> # <<>> /\ Len(<<ms[L]>>) = 1
    BY <1>1
  <2>3. QED
    BY <2>1, <2>2 DEF Some
<1>3. CASE ~(Tokens(Last(ms)) > budget)
  <2>1. Tokens(Last(ms)) \in Nat /\ Tokens(ms[L]) <= budget
    BY <1>1, <1>3, TokensType DEF Last
  <2>2. SubSeq(ms, L, Len(ms)) = <<ms[L]>> /\ <<ms[L]>> \in Seq(Messages)
    <3>1. L \in Nat \ {0} /\ L = Len(ms)
      BY <1>1
    <3> HIDE DEF L
    <3>2. SubSeq(ms, L, Len(ms)) \in Seq(Messages)
          /\ (L = Len(ms) => SubSeq(ms, L, Len(ms)) = <<ms[L]>>)
      BY <1>1, <3>1, SuffixType, Zenon
    <3>3. QED
      BY <3>1, <3>2
  <2>3. Len(<<ms[L]>>) = 1 /\ <<ms[L]>>[1] = ms[L]
    OBVIOUS
  <2>4. TotalTokens(SubSeq(ms, L, Len(ms))) <= budget
    BY <2>1, <2>2, <2>3, TokensOfOne
  <2>5. L \in fits /\ fits \in SUBSET Nat
    BY <1>1, <2>4
  <2>6. k \in fits /\ k <= L
    BY <2>5, MinIn
  <2>7. k \in Nat \ {0} /\ TotalTokens(SubSeq(ms, k, Len(ms))) <= budget
    BY <1>1, <2>6
  <2>8. Trim(ms, budget) = SubSeq(ms, k, Len(ms))
    BY <1>3 DEF Trim
  <2> HIDE DEF k
  <2>9. SubSeq(ms, k, Len(ms)) \in Some
    <3>1. SubSeq(ms, k, Len(ms)) \in Seq(Messages)
          /\ (k <= Len(ms) => SubSeq(ms, k, Len(ms)) # <<>>)
      BY <1>1, <2>7, SuffixType, Zenon
    <3>2. QED
      BY <2>6, <3>1 DEF Some
  <2>10. QED
    BY <2>7, <2>8, <2>9
<1>4. QED
  BY <1>2, <1>3

\* What a window must be.
Fitting(ms, budget) ==
  ms \in Some /\ (TotalTokens(ms) <= budget \/ Len(ms) = 1)

\* What the tiers return is within the budget, or one message.
LEMMA TiersFit ==
  ASSUME NEW l \in Limits, NEW ms \in Some
  PROVE  /\ Fitting(Tier3(l)[ms], l.budget)
         /\ Fitting(Tier2(l)[ms], l.budget)
         /\ ThreeTier(l)[ms] \in Some
         /\ l.budget > 0 => Fitting(ThreeTier(l)[ms], l.budget)
<1>1. \A s \in Some : Fitting(Tier3(l)[s], l.budget)
  <2>1. ASSUME NEW s \in Some PROVE Fitting(Tier3(l)[s], l.budget)
    <3>1. Tier3(l)[s] = IF TotalTokens(s) <= l.budget THEN s ELSE Trim(s, l.budget)
      BY DEF Tier3, Some
    <3>2. l.budget \in Nat
      BY LimitsTyped
    <3>3. QED
      BY <3>1, <3>2, TrimFits DEF Fitting
  <2>2. QED
    BY <2>1
<1>2. \A s \in Some : Fitting(Tier2(l)[s], l.budget)
  <2>1. ASSUME NEW s \in Some PROVE Fitting(Tier2(l)[s], l.budget)
    <3>1. Tier2(l)[s] = IF l.turnMax = 0 THEN Tier3(l)[s]
                        ELSE Tier3(l)[CollapseEarly(s, l.budget, l.turnMax)]
      BY DEF Tier2, Some
    <3>2. CollapseEarly(s, l.budget, l.turnMax) \in Some
      BY LimitsTyped, CollapseEarlyType
    <3>3. QED
      BY <1>1, <3>1, <3>2
  <2>2. QED
    BY <2>1
<1> DEFINE to == [i \in 1..Len(ms) |-> Shorten(ms[i], l.toolMax)]
<1>3. to \in Some
  <2>1. ms \in Seq(Messages) /\ ms # <<>> /\ l.toolMax \in Nat
    BY LimitsTyped DEF Some
  <2>2. \A i \in 1..Len(ms) : to[i] \in Messages
    BY <2>1, ClipType
  <2>3. to = [i \in 1..Len(ms) |-> to[i]]
    OBVIOUS
  <2> HIDE DEF to
  <2>4. QED
    BY <2>1, <2>2, <2>3, MappedType DEF Some
<1>4. ThreeTier(l)[ms] = IF l.budget = 0 \/ TotalTokens(ms) <= l.budget THEN ms
                         ELSE IF l.toolMax = 0 THEN Tier2(l)[ms] ELSE Tier2(l)[to]
  BY DEF ThreeTier, Some
<1> HIDE DEF to
<1>5. QED
  BY <1>1, <1>2, <1>3, <1>4, LimitsTyped DEF Fitting

\* So is a window, whatever the session; it is empty only if the session is.
LEMMA WindowFits ==
  ASSUME NEW l \in Limits, NEW ms \in Seq(Messages)
  PROVE  /\ Window(ms, l) \in Seq(Messages)
         /\ ms # <<>> => Window(ms, l) # <<>>
         /\ l.budget > 0 =>
              TotalTokens(Window(ms, l)) <= l.budget \/ Len(Window(ms, l)) = 1
<1> DEFINE tail == TailMessages(ms, l.tail)
           clipped == [i \in 1..Len(tail) |-> Clip(tail[i], l.msgMax)]
<1>1. l.tail \in Nat /\ l.msgMax \in Nat /\ l.budget \in Nat
  BY LimitsTyped
<1>2. tail \in Seq(Messages) /\ (ms # <<>> => tail # <<>>)
  BY <1>1, TailType
<1>3. clipped \in Seq(Messages) /\ (tail # <<>> => clipped # <<>>)
  <2> HIDE DEF tail
  <2>1. \A i \in 1..Len(tail) : clipped[i] \in Messages
    <3>1. \A i \in 1..Len(tail) : tail[i] \in Messages /\ clipped[i] = Clip(tail[i], l.msgMax)
      BY <1>2
    <3>2. QED
      BY <1>1, <3>1, ClipType
  <2>2. clipped = [i \in 1..Len(tail) |-> clipped[i]]
    OBVIOUS
  <2> HIDE DEF clipped
  <2>3. QED
    BY <1>2, <2>1, <2>2, MappedType
<1>4. Window(ms, l) = ThreeTier(l)[clipped]
  BY <1>2 DEF Window, ClipAll
<1> HIDE DEF tail, clipped
<1>5. CASE clipped # <<>>
  BY <1>3, <1>4, <1>5, TiersFit DEF Fitting, Some
<1>6. CASE clipped = <<>>
  <2>1. <<>> \in Seq(Messages) /\ TotalTokens(<<>>) <= l.budget
    BY <1>1, NoTokens
  <2>2. ThreeTier(l)[<<>>] = <<>>
    BY <2>1 DEF ThreeTier
  <2>3. QED
    BY <1>2, <1>3, <1>4, <1>6, <2>1, <2>2
<1>7. QED
  BY <1>5, <1>6
-----------------------------------------------------------------------------
(* The payload                                                              *)

\* A tool message follows the assistant message that announced its call.
Paired(ms) ==
  \A n \in 1..Len(ms) : ms[n].role = "tool" =>
    \E i \in 1..(n - 1) : ms[i].role = "assistant" /\ ms[i].call = ms[n].call

\* What announces a call is kept, and kept before what answers it.
LEMMA SanitizePairs ==
  ASSUME NEW h \in Seq(Messages)
  PROVE  Sanitize[h] \in Seq(Messages) /\ Paired(Sanitize[h])
<1> DEFINE announced(n) == {h[i].call : i \in {j \in 1..(n - 1) :
                              h[j].role = "assistant" /\ h[j].call # 0}}
           S == {n \in 1..Len(h) : h[n].role = "tool" => h[n].call \in announced(n)}
           r == Selected(h, S)
<1>1. Sanitize[h] = r
  BY DEF Sanitize
<1>2. Len(h) \in Nat /\ S \in SUBSET (1..Len(h)) /\ \A n \in S : n \in Nat
  OBVIOUS
<1>3. /\ \A i \in S : Rank(S, i) \in 1..Cardinality(S)
      /\ \A i, j \in S : i < j => Rank(S, i) < Rank(S, j)
  <2> HIDE DEF S
  <2>1. QED
    BY <1>2, Ranks
<1>4. /\ Cardinality(S) \in Nat
      /\ r = [n \in 1..Cardinality(S) |-> r[n]]
      /\ \A n \in 1..Cardinality(S) : \E i \in S : Rank(S, i) = n /\ r[n] = h[i]
      /\ \A i \in S : r[Rank(S, i)] = h[i]
  <2> HIDE DEF S
  <2>1. QED
    BY <1>2, SelectedAt
<1>5. r \in Seq(Messages)
  <2> HIDE DEF S
  <2>1. QED
    BY <1>2, SelectedType
<1>6. Len(r) = Cardinality(S)
  <2> HIDE DEF r, S
  <2>1. QED
    BY <1>4
<1>7. ASSUME NEW n \in 1..Len(r), r[n].role = "tool"
      PROVE  \E i \in 1..(n - 1) : r[i].role = "assistant" /\ r[i].call = r[n].call
  <2>1. PICK p \in S : Rank(S, p) = n /\ r[n] = h[p]
    <3> HIDE DEF r, S
    <3>1. QED
      BY <1>4, <1>6, <1>7
  <2>2. h[p].call \in announced(p)
    <3> HIDE DEF r
    <3>1. QED
      BY <1>7, <2>1
  <2>3. PICK j \in 1..(p - 1) : h[j].role = "assistant" /\ h[j].call = h[p].call
    BY <2>2
  <2>4. j \in S /\ j < p
    <3> HIDE DEF announced
    <3>1. QED
      BY <1>2, <2>3
  <2>5. Rank(S, j) \in 1..Cardinality(S) /\ Rank(S, j) < n /\ r[Rank(S, j)] = h[j]
    <3> HIDE DEF r, S
    <3>1. QED
      BY <1>3, <1>4, <2>1, <2>4
  <2>6. Rank(S, j) \in 1..(n - 1)
    <3> HIDE DEF r, S
    <3>1. QED
      BY <1>4, <1>6, <2>5
  <2> HIDE DEF r, S
  <2>7. QED
    BY <2>1, <2>3, <2>5, <2>6
<1> HIDE DEF r
<1>8. QED
  BY <1>1, <1>5, <1>7 DEF Paired

\* All but the last message.
LEMMA FrontType ==
  ASSUME NEW ms \in Seq(Messages), ms # <<>>
  PROVE  /\ Front(ms) \in Seq(Messages) /\ Len(Front(ms)) = Len(ms) - 1
         /\ \A i \in 1..(Len(ms) - 1) : Front(ms)[i] = ms[i]
<1> DEFINE L == Len(ms)
           t == SubSeq(ms, 1, L - 1)
<1>1. L \in Nat \ {0} /\ \A i \in 1..L : ms[i] \in Messages
  OBVIOUS
<1>2. t \in Seq(Messages) /\ Len(t) = L - 1
  <2>1. L - 1 \in Nat /\ \A i \in 1..(L - 1) : ms[i] \in Messages
    BY <1>1
  <2>2. t \in Seq(Messages)
    BY <1>1, <2>1
  <2>3. Len(t) = IF 1 <= L - 1 THEN L - 1 - 1 + 1 ELSE 0
    BY <1>1, <2>1
  <2> HIDE DEF t, L
  <2>4. QED
    BY <1>1, <2>2, <2>3
<1>3. \A i \in 1..(L - 1) : t[i] = ms[i]
  BY <1>1
<1>4. QED
  BY <1>2, <1>3 DEF Front

\* Every tool message of a history follows the announcement of its call.
LEMMA HistoryPairs ==
  ASSUME NEW ms \in Seq(Messages), NEW max \in Nat, NEW allowed
  PROVE  History(ms, max, allowed) \in Seq(Messages) /\ Paired(History(ms, max, allowed))
<1> DEFINE recent == IF max > 0 THEN LastOf(ms, max) ELSE ms
           past == IF recent # <<>> /\ IsImage(Last(recent)) THEN Front(recent) ELSE recent
           full == {i \in 1..Len(past) : past[i].form = "text" => past[i].size > 0}
           sent == Selected(past, full)
           rendered == [i \in 1..Len(sent) |-> Blocks(sent[i], allowed)]
<1>1. recent \in Seq(Messages)
  BY LastOfType
<1>2. past \in Seq(Messages)
  <2> HIDE DEF recent
  <2>1. QED
    BY <1>1, FrontType
<1>3. sent \in Seq(Messages)
  <2>1. full \in SUBSET (1..Len(past))
    OBVIOUS
  <2> HIDE DEF past, full
  <2>2. QED
    BY <1>2, <2>1, SelectedType
<1>4. rendered \in Seq(Messages)
  <2> HIDE DEF sent
  <2>1. \A i \in 1..Len(sent) : sent[i] \in Messages
    BY <1>3
  <2>2. \A m \in Messages : Blocks(m, allowed) \in Messages
    BY DEF Blocks, Messages, Forms
  <2>3. Len(sent) \in Nat
    BY <1>3
  <2>4. QED
    BY <2>1, <2>2, <2>3
<1>5. History(ms, max, allowed) = Sanitize[rendered]
  BY DEF History
<1> HIDE DEF rendered
<1>6. QED
  BY <1>4, <1>5, SanitizePairs

\* What comes after the history of a payload is a user's message.
LEMMA PayloadPairs ==
  ASSUME NEW history \in Seq(Messages), Paired(history),
         snap \in Seq(Messages), current \in Messages, current.role = "user"
  PROVE  Paired(Payload(history))
<1> DEFINE kept == DropTrailing(history, current)
<1>1. kept \in Seq(Messages) /\ Paired(kept)
  <2>1. CASE kept = history
    BY <2>1
  <2>2. CASE kept # history
    <3>1. kept = Front(history) /\ history # <<>>
      BY <2>2 DEF DropTrailing
    <3>2. /\ kept \in Seq(Messages) /\ Len(kept) = Len(history) - 1
          /\ \A i \in 1..(Len(history) - 1) : kept[i] = history[i]
      BY <3>1, FrontType
    <3> HIDE DEF kept
    <3>3. Len(history) \in Nat
      OBVIOUS
    <3>4. ASSUME NEW n \in 1..Len(kept), kept[n].role = "tool"
          PROVE  \E i \in 1..(n - 1) : kept[i].role = "assistant" /\ kept[i].call = kept[n].call
      <4>1. n \in 1..(Len(history) - 1) /\ n \in 1..Len(history) /\ kept[n] = history[n]
        BY <3>2, <3>3
      <4>2. PICK i \in 1..(n - 1) :
              history[i].role = "assistant" /\ history[i].call = history[n].call
        BY <3>4, <4>1 DEF Paired
      <4>3. kept[i] = history[i]
        <5>1. i \in 1..(Len(history) - 1)
          BY <3>3, <4>1
        <5>2. QED
          BY <3>2, <5>1
      <4>4. QED
        BY <4>1, <4>2, <4>3
    <3>5. QED
      BY <3>2, <3>4 DEF Paired
  <2>3. QED
    BY <2>1, <2>2
<1>2. Current.role = "user"
  <2>1. CASE snap # <<>> /\ IsImage(Last(snap))
    <3>1. Last(snap) \in Messages
      BY <2>1 DEF Last
    <3>2. Blocks(Last(snap), images).role = "user"
      BY <2>1, <3>1 DEF Blocks, IsImage, Messages
    <3>3. QED
      BY <2>1, <3>2 DEF Current
  <2>2. CASE ~(snap # <<>> /\ IsImage(Last(snap)))
    BY <2>2 DEF Current
  <2>3. QED
    BY <2>1, <2>2
<1> DEFINE p == Append(kept, Current)
<1>3. /\ Len(kept) \in Nat /\ Len(p) = Len(kept) + 1 /\ p[Len(kept) + 1] = Current
      /\ \A i \in 1..Len(kept) : p[i] = kept[i]
  <2> HIDE DEF kept
  <2>1. QED
    BY <1>1
<1>4. Paired(p)
  <2> HIDE DEF kept, p
  <2>1. ASSUME NEW n \in 1..Len(p), p[n].role = "tool"
        PROVE  \E i \in 1..(n - 1) : p[i].role = "assistant" /\ p[i].call = p[n].call
    <3>1. n \in 1..Len(kept) /\ p[n] = kept[n]
      BY <1>2, <1>3, <2>1
    <3>2. PICK i \in 1..(n - 1) : kept[i].role = "assistant" /\ kept[i].call = kept[n].call
      BY <1>1, <2>1, <3>1 DEF Paired
    <3>3. p[i] = kept[i]
      BY <1>3, <3>1, <3>2
    <3>4. QED
      BY <3>1, <3>2, <3>3
  <2>2. QED
    BY <2>1 DEF Paired
<1>5. QED
  BY <1>4 DEF Payload

-----------------------------------------------------------------------------
(* The request                                                              *)

TurnInv ==
  /\ lim \in Limits
  /\ stored \in Seq(Messages) /\ snap \in Seq(Messages) /\ window \in Seq(Messages)
  /\ current \in Messages /\ current.role = "user"
  /\ pc = "tool" => stored # <<>>
  /\ ContextFits /\ ToolMessagesAnswerCalls

\* What the turn logs are messages.
LEMMA MessagesTyped ==
  /\ \A q \in Questions : UserMessage(q) \in Messages
                          /\ CurrentText(q.size, q.body) \in Messages
  /\ AssistantText(ReplySize) \in Messages
  /\ \A i \in Nat : CallMessage(i) \in Messages
  /\ \A i, n \in Nat : ResultMessage(i, n) \in Messages
  /\ \A n \in Nat : CurrentText(n, "tool") \in Messages
  /\ CurrentText(0, "none") \in Messages
  /\ \A n, b : CurrentText(n, b).role = "user"
<1>1. \A q \in Questions : q.form \in {"text", "image"} /\ q.size \in Nat /\ q.body \in Bodies
  BY TurnAssumption
<1>2. QED
  BY <1>1, TurnAssumption
  DEF UserMessage, AssistantText, CallMessage, ResultMessage, CurrentText,
      Messages, Roles, Forms

\* A message is logged.
LEMMA LoggedType ==
  ASSUME NEW ms \in Seq(Messages), NEW m \in Messages
  PROVE  Append(ms, m) \in Seq(Messages) /\ Append(ms, m) # <<>>
<1>1. Append(ms, m) \in Seq(Messages) /\ Len(Append(ms, m)) = Len(ms) + 1
  OBVIOUS
<1>2. Len(ms) + 1 # Len(<<>>)
  OBVIOUS
<1>3. QED
  BY <1>1, <1>2

\* Steps that leave the contexts of the request alone.
LEMMA Undisturbed ==
  ASSUME TurnInv, UNCHANGED <<lim, snap, window, current, payload>>,
         stored' \in Seq(Messages), pc' = "tool" => stored' # <<>>,
         pc = "idle" => pc' = "idle"
  PROVE  TurnInv'
BY DEF TurnInv, ContextFits, ToolMessagesAnswerCalls

\* The end of a request.
LEMMA EndsInv ==
  ASSUME TurnInv, Ends, lim' = lim, stored' \in Seq(Messages)
  PROVE  TurnInv'
<1>1. <<>> \in Seq(Messages) /\ Len(<<>>) = 0
  OBVIOUS
<1>2. lim.budget > 0 => TotalTokens(<<>>) <= lim.budget
  BY NoTokens, LimitsTyped DEF TurnInv
<1>3. ToolMessagesAnswerCalls'
  BY <1>1 DEF Ends, ToolMessagesAnswerCalls
<1>4. ContextFits'
  BY <1>2 DEF Ends, ContextFits
<1>5. current' \in Messages /\ current'.role = "user"
  BY MessagesTyped DEF Ends
<1>6. QED
  BY <1>1, <1>3, <1>4, <1>5 DEF TurnInv, Ends

\* A context is built.
LEMMA BuiltInv ==
  ASSUME TurnInv, lim' = lim, payload' = payload, stored' \in Seq(Messages),
         pc' # "tool", snap' \in Seq(Messages), window' = Window(snap', lim),
         current' \in Messages, current'.role = "user"
  PROVE  TurnInv'
<1>1. /\ window' \in Seq(Messages)
      /\ snap' # <<>> => window' # <<>>
      /\ lim.budget > 0 => TotalTokens(window') <= lim.budget \/ Len(window') = 1
  BY WindowFits DEF TurnInv
<1>2. ContextFits'
  BY <1>1 DEF ContextFits
<1>3. QED
  BY <1>1, <1>2 DEF TurnInv, ToolMessagesAnswerCalls

\* A request begins with a window that fits.
LEMMA StartInv ==
  ASSUME TurnInv, NEW q \in Questions, Start(q) PROVE TurnInv'
<1>1. stored' \in Seq(Messages)
  BY LoggedType, MessagesTyped DEF Start, TurnInv
<1>2. current' \in Messages /\ current'.role = "user"
  BY MessagesTyped DEF Start
<1>3. /\ lim' = lim /\ payload' = payload /\ pc' # "tool"
      /\ snap' = stored /\ window' = Window(snap', lim)
  BY DEF Start, settings
<1>4. QED
  BY <1>1, <1>2, <1>3, BuiltInv DEF TurnInv

\* A reply is logged and the request over.
LEMMA ReplyInv == ASSUME TurnInv, Reply PROVE TurnInv'
<1>1. stored' \in Seq(Messages) /\ Ends /\ lim' = lim
  BY LoggedType, MessagesTyped DEF Reply, TurnInv, settings
<1>2. QED
  BY <1>1, EndsInv

\* A call is logged before its tool is looked for.
LEMMA CallToolInv ==
  ASSUME TurnInv, NEW name, CallTool(name), pc # "idle" PROVE TurnInv'
<1>1. Len(stored) + 1 \in Nat
  BY DEF TurnInv
<1>2. CallMessage(Len(stored) + 1) \in Messages
  BY <1>1, MessagesTyped
<1>3. stored' \in Seq(Messages) /\ stored' # <<>>
  BY <1>2, LoggedType DEF CallTool, TurnInv
<1>4. UNCHANGED <<lim, snap, window, current, payload>>
  BY DEF CallTool, settings
<1>5. QED
  BY <1>3, <1>4, Undisturbed

\* A payload is rendered from the window at hand.
LEMMA SendInv == ASSUME TurnInv, SendToModel PROVE TurnInv'
<1> DEFINE h == History(window, lim.maxHistory, images)
<1>1. /\ payload' = Payload(h) /\ pc' = "model"
      /\ UNCHANGED <<lim, stored, snap, window, current>> /\ pc = "loop"
  BY DEF SendToModel, InLoop, settings
<1>2. h \in Seq(Messages) /\ Paired(h)
  BY LimitsTyped, HistoryPairs DEF TurnInv
<1> HIDE DEF h
<1>3. Paired(payload')
  BY <1>1, <1>2, PayloadPairs DEF TurnInv
<1>4. ToolMessagesAnswerCalls'
  BY <1>3 DEF Paired, ToolMessagesAnswerCalls
<1>5. ContextFits'
  BY <1>1 DEF TurnInv, ContextFits
<1>6. QED
  BY <1>1, <1>4, <1>5 DEF TurnInv

\* A result is logged and the window built again.
LEMMA ToolAnswersInv == ASSUME TurnInv, ToolAnswers PROVE TurnInv'
<1>1. PICK n \in OutputSize : \E m \in Sanitized(n) :
        /\ stored' = Append(stored, ResultMessage(Last(stored).call, m))
        /\ current' = CurrentText(m, "tool")
  BY DEF ToolAnswers
<1>2. PICK m \in Sanitized(n) :
        /\ stored' = Append(stored, ResultMessage(Last(stored).call, m))
        /\ current' = CurrentText(m, "tool")
  BY <1>1
<1>3. m \in Nat
  BY TurnAssumption, LimitsTyped DEF OutputSize, Sanitized, TurnInv
<1>4. Last(stored).call \in Nat
  <2>1. stored \in Seq(Messages) /\ stored # <<>>
    BY DEF ToolAnswers, TurnInv
  <2>2. Last(stored) \in Messages
    BY <2>1 DEF Last
  <2>3. QED
    BY <2>2 DEF Messages
<1>5. ResultMessage(Last(stored).call, m) \in Messages
  BY <1>3, <1>4, MessagesTyped
<1>6. stored' \in Seq(Messages)
  BY <1>2, <1>5, LoggedType DEF TurnInv
<1>7. current' \in Messages /\ current'.role = "user"
  BY <1>2, <1>3, MessagesTyped
<1>8. /\ lim' = lim /\ payload' = payload /\ pc' # "tool"
      /\ snap' = snap /\ window' = Window(snap', lim)
  BY DEF ToolAnswers, settings
<1>9. QED
  BY <1>6, <1>7, <1>8, BuiltInv DEF TurnInv

\* Every step of a turn keeps TurnInv.
LEMMA TurnNextInv == ASSUME TurnInv, [Next]_vars PROVE TurnInv'
<1>0. stored \in Seq(Messages) /\ (pc = "tool" => stored # <<>>)
  BY DEF TurnInv
<1>1. CASE UNCHANGED vars
  BY <1>0, <1>1, Undisturbed DEF vars, turnVars
<1>2. CASE \E q \in Questions : Start(q)
  BY <1>2, StartInv
<1>3. CASE BuildBlock \/ RunLoop
  BY <1>0, <1>3, Undisturbed DEF BuildBlock, RunLoop, settings
<1>4. CASE EmbeddingRaises \/ LoopsExhausted \/ ToolRaises
  BY <1>0, <1>4, EndsInv DEF EmbeddingRaises, LoopsExhausted, ToolRaises, settings
<1>5. CASE CommandReplies \/ ToolFirstReply \/ ModelReplies
  BY <1>5, ReplyInv DEF CommandReplies, ToolFirstReply, ModelReplies
<1>6. CASE \E name \in ToolNames : CommandCalls(name)
  BY <1>6, CallToolInv DEF CommandCalls, InLoop
<1>7. CASE ModelCalls
  BY <1>7, CallToolInv DEF ModelCalls
<1>8. CASE SendToModel
  BY <1>8, SendInv
<1>9. CASE OnTheWire \/ AtTheTool
  BY <1>0, <1>9, Undisturbed DEF OnTheWire, AtTheTool, turnVars
<1>10. CASE ToolAnswers
  BY <1>10, ToolAnswersInv
<1>11. QED
  BY <1>1, <1>2, <1>3, <1>4, <1>5, <1>6, <1>7, <1>8, <1>9, <1>10 DEF Next, Step

\* A turn begins with a session and nothing built.
LEMMA TurnInitInv == ASSUME Init PROVE TurnInv
<1>1. <<>> \in Seq(Messages) /\ Len(<<>>) = 0
  OBVIOUS
<1>2. lim \in Limits /\ stored \in Seq(Messages) /\ snap = <<>> /\ window = <<>>
      /\ payload = <<>> /\ pc = "idle"
  BY TurnAssumption DEF Init
<1>3. current \in Messages /\ current.role = "user"
  BY MessagesTyped DEF Init
<1>4. ContextFits
  BY <1>2, NoTokens, LimitsTyped DEF ContextFits
<1>5. ToolMessagesAnswerCalls
  BY <1>1, <1>2 DEF ToolMessagesAnswerCalls
<1>6. QED
  BY <1>1, <1>2, <1>3, <1>4, <1>5 DEF TurnInv

\* TurnInv holds in every state of a turn.
LEMMA TurnInvariance == Spec => []TurnInv
BY TurnInitInv, TurnNextInv, PTL DEF Spec

(***************************************************************************)
(* Whatever the limits cut, clip, fold and trim away, every tool message    *)
(* _sanitize_openai_history_messages lets into a payload follows the        *)
(* assistant message with its call, for any session and limits.             *)
(***************************************************************************)
THEOREM PayloadsArePaired == Spec => []ToolMessagesAnswerCalls
BY TurnInvariance, PTL DEF TurnInv

(***************************************************************************)
(* apply_three_tier_token_budget keeps to its budget, one message excepted, *)
(* and never empties a context, for any messages, limits and tier settings. *)
(***************************************************************************)
THEOREM ContextsFit == Spec => []ContextFits
BY TurnInvariance, PTL DEF TurnInv

-----------------------------------------------------------------------------
(* Lists in their order                                                     *)

NoRepetition(s) == \A i, j \in 1..Len(s) : s[i] = s[j] => i = j
Before(s, b, a) == \E i, j \in 1..Len(s) : i <= j /\ s[i] = b /\ s[j] = a

\* The first elements of a list, in its order.
LEMMA FirstsKeep ==
  ASSUME NEW T, NEW s \in Seq(T), NEW n \in Nat
  PROVE  /\ Firsts(s, n) \in Seq(T)
         /\ Len(Firsts(s, n)) <= n
         /\ Len(Firsts(s, n)) < n => Firsts(s, n) = s
         /\ Len(Firsts(s, n)) <= Len(s)
         /\ \A i \in 1..Len(Firsts(s, n)) : Firsts(s, n)[i] = s[i]
<1> DEFINE k == IF n < Len(s) THEN n ELSE Len(s)
<1>1. k \in Nat /\ k <= n /\ k <= Len(s) /\ (k < n => k = Len(s)) /\ Len(s) \in Nat
  OBVIOUS
<1>2. /\ SubSeq(s, 1, k) \in Seq(T) /\ Len(SubSeq(s, 1, k)) = k
      /\ \A i \in 1..k : SubSeq(s, 1, k)[i] = s[i]
  <2> HIDE DEF k
  <2> QED
    BY <1>1
<1>3. k = Len(s) => SubSeq(s, 1, k) = s
  OBVIOUS
<1>4. Firsts(s, n) = SubSeq(s, 1, k)
  BY DEF Firsts
<1> HIDE DEF k
<1>5. QED
  BY <1>1, <1>2, <1>3, <1>4

\* What is before an element that is kept is kept.
LEMMA FirstsOrder ==
  ASSUME NEW T, NEW s \in Seq(T), NEW n \in Nat, NoRepetition(s)
  PROVE  /\ NoRepetition(Firsts(s, n))
         /\ ToSet(Firsts(s, n)) \subseteq ToSet(s)
         /\ \A a \in ToSet(Firsts(s, n)), b \in T :
              Before(s, b, a) => Before(Firsts(s, n), b, a)
<1> DEFINE f == Firsts(s, n)
<1>1. /\ f \in Seq(T) /\ Len(f) \in Nat /\ Len(s) \in Nat /\ Len(f) <= Len(s)
      /\ \A i \in 1..Len(f) : f[i] = s[i] /\ i \in 1..Len(s)
  <2>1. f \in Seq(T) /\ Len(f) <= Len(s) /\ \A i \in 1..Len(f) : f[i] = s[i]
    BY FirstsKeep
  <2> HIDE DEF f
  <2>2. Len(f) \in Nat /\ Len(s) \in Nat
    BY <2>1
  <2>3. \A i \in 1..Len(f) : i \in 1..Len(s)
    BY <2>1, <2>2
  <2>4. QED
    BY <2>1, <2>2, <2>3
<1> HIDE DEF f
<1>2. NoRepetition(f)
  BY <1>1 DEF NoRepetition
<1>3. ToSet(f) \subseteq ToSet(s)
  BY <1>1 DEF ToSet
<1>4. ASSUME NEW a \in ToSet(f), NEW b \in T, Before(s, b, a) PROVE Before(f, b, a)
  <2>1. PICK i \in 1..Len(s), j \in 1..Len(s) : i <= j /\ s[i] = b /\ s[j] = a
    BY <1>4 DEF Before
  <2>2. PICK l \in 1..Len(f) : f[l] = a
    BY <1>1 DEF ToSet
  <2>3. l = j
    BY <1>1, <2>1, <2>2 DEF NoRepetition
  <2>4. i \in 1..Len(f)
    BY <1>1, <2>1, <2>2, <2>3
  <2>5. QED
    BY <1>1, <2>1, <2>2, <2>3, <2>4 DEF Before
<1>5. QED
  BY <1>2, <1>3, <1>4 DEF f

\* A selection by elements keeps the order.
LEMMA AmongKeeps ==
  ASSUME NEW T, NEW s \in Seq(T), NEW X
  PROVE  /\ Among(s, X) \in Seq(T)
         /\ ToSet(Among(s, X)) = ToSet(s) \cap X
         /\ NoRepetition(s) => NoRepetition(Among(s, X))
         /\ \A a, b \in X : Before(s, b, a) => Before(Among(s, X), b, a)
<1> DEFINE S == {i \in 1..Len(s) : s[i] \in X}
           c == Selected(s, S)
<1>1. Len(s) \in Nat /\ S \in SUBSET (1..Len(s)) /\ c = Among(s, X)
  BY DEF Among
<1>2. c \in Seq(T)
  BY SelectedType
<1>3. \A i \in S : s[i] \in X /\ i \in 1..Len(s) /\ i \in Int
  BY <1>1
<1>4. \A i \in 1..Len(s) : s[i] \in X => i \in S
  OBVIOUS
<1> HIDE DEF S, c
<1>5. /\ Len(c) = Cardinality(S) /\ Cardinality(S) \in Nat
      /\ \A n \in 1..Len(c) : \E i \in S : Rank(S, i) = n /\ c[n] = s[i]
      /\ \A i \in S : c[Rank(S, i)] = s[i]
  <2>1. /\ Cardinality(S) \in Nat /\ DOMAIN c = 1..Cardinality(S)
        /\ \A n \in 1..Cardinality(S) : \E i \in S : Rank(S, i) = n /\ c[n] = s[i]
        /\ \A i \in S : c[Rank(S, i)] = s[i]
    BY <1>1, SelectedAt DEF c
  <2>2. Len(c) = Cardinality(S)
    BY <1>2, <2>1
  <2>3. QED
    BY <2>1, <2>2
<1>6. /\ \A i \in S : Rank(S, i) \in 1..Len(c)
      /\ \A i, j \in S : i < j => Rank(S, i) < Rank(S, j)
  <2>1. /\ \A i \in S : Rank(S, i) \in 1..Cardinality(S)
        /\ \A i, j \in S : i < j => Rank(S, i) < Rank(S, j)
    BY <1>1, Ranks
  <2>2. QED
    BY <1>5, <2>1
<1>7. DOMAIN c = 1..Len(c) /\ DOMAIN s = 1..Len(s)
  BY <1>2
<1>8. ToSet(c) = ToSet(s) \cap X
  <2>1. ASSUME NEW x \in ToSet(c) PROVE x \in ToSet(s) \cap X
    <3>1. PICK n \in 1..Len(c) : c[n] = x
      BY <1>7 DEF ToSet
    <3>2. QED
      BY <1>3, <1>5, <1>7, <3>1 DEF ToSet
  <2>2. ASSUME NEW x \in ToSet(s) \cap X PROVE x \in ToSet(c)
    <3>1. PICK i \in 1..Len(s) : s[i] = x
      BY <1>7 DEF ToSet
    <3>2. i \in S
      BY <1>4, <3>1
    <3>3. QED
      BY <1>5, <1>6, <1>7, <3>1, <3>2 DEF ToSet
  <2>3. QED
    BY <2>1, <2>2
<1>9. ASSUME NoRepetition(s) PROVE NoRepetition(c)
  <2>1. ASSUME NEW n \in 1..Len(c), NEW m \in 1..Len(c), c[n] = c[m] PROVE n = m
    <3>1. PICK i \in S : Rank(S, i) = n /\ c[n] = s[i]
      BY <1>5
    <3>2. PICK j \in S : Rank(S, j) = m /\ c[m] = s[j]
      BY <1>5
    <3>3. i = j
      BY <1>3, <1>9, <2>1, <3>1, <3>2 DEF NoRepetition
    <3>4. QED
      BY <3>1, <3>2, <3>3
  <2>2. QED
    BY <2>1 DEF NoRepetition
<1>10. ASSUME NEW a \in X, NEW b \in X, Before(s, b, a) PROVE Before(c, b, a)
  <2>1. PICK i \in 1..Len(s), j \in 1..Len(s) : i <= j /\ s[i] = b /\ s[j] = a
    BY <1>10 DEF Before
  <2>2. i \in S /\ j \in S
    BY <1>4, <2>1
  <2>3. Rank(S, i) <= Rank(S, j)
    <3>1. CASE i = j
      BY <1>5, <1>6, <2>2, <3>1
    <3>2. CASE i # j
      <4>1. i < j
        BY <2>1, <3>2
      <4>2. Rank(S, i) < Rank(S, j) /\ Rank(S, i) \in 1..Len(c) /\ Rank(S, j) \in 1..Len(c)
        BY <1>6, <2>2, <4>1
      <4>3. QED
        BY <4>2
    <3>3. QED
      BY <3>1, <3>2
  <2>4. QED
    BY <1>5, <1>6, <2>1, <2>2, <2>3 DEF Before
<1>11. QED
  BY <1>1, <1>2, <1>8, <1>9, <1>10

\* Places number the positions of a list in the order of its keys.
LEMMA Places ==
  ASSUME NEW s, Len(s) \in Nat, NEW key, \A i \in 1..Len(s) : key[s[i]] \in Int
  PROVE  /\ \A j \in 1..Len(s) : Place(s, key, j) \in 1..Len(s)
         /\ \A i, j \in 1..Len(s) :
              Ahead(s, key, i, j) <=> Place(s, key, i) <= Place(s, key, j)
         /\ \A i, j \in 1..Len(s) : Place(s, key, i) = Place(s, key, j) => i = j
         /\ \A n \in 1..Len(s) : \E j \in 1..Len(s) : Place(s, key, j) = n
<1> DEFINE P == 1..Len(s)
           upTo(j) == {i \in P : Ahead(s, key, i, j)}
           f == [j \in P |-> Place(s, key, j)]
<1>1. IsFiniteSet(P) /\ Cardinality(P) = Len(s) /\ \A i \in P : i \in Int
  <2>1. IsFiniteSet(1..Len(s))
        /\ Cardinality(1..Len(s)) = IF 1 > Len(s) THEN 0 ELSE Len(s) - 1 + 1
    BY FS_Interval, 1 \in Int, Len(s) \in Int
  <2>2. QED
    BY <2>1
<1>2. /\ \A i \in P : Ahead(s, key, i, i)
      /\ \A i, j \in P : Ahead(s, key, i, j) \/ Ahead(s, key, j, i)
      /\ \A i, j \in P : Ahead(s, key, i, j) /\ Ahead(s, key, j, i) => i = j
  BY DEF Ahead
<1>3. \A i, j, l \in P : Ahead(s, key, i, j) /\ Ahead(s, key, j, l) => Ahead(s, key, i, l)
  BY DEF Ahead
<1>4. \A j \in P : /\ upTo(j) \subseteq P /\ IsFiniteSet(upTo(j)) /\ j \in upTo(j)
                   /\ Place(s, key, j) = Cardinality(upTo(j))
                   /\ Cardinality(upTo(j)) \in Nat
  <2>1. ASSUME NEW j \in P
        PROVE  /\ upTo(j) \subseteq P /\ IsFiniteSet(upTo(j)) /\ j \in upTo(j)
               /\ Cardinality(upTo(j)) \in Nat
    <3>1. upTo(j) \subseteq P /\ j \in upTo(j)
      BY <1>2
    <3>2. IsFiniteSet(upTo(j))
      BY <1>1, <3>1, FS_Subset
    <3>3. QED
      BY <3>1, <3>2, FS_CardinalityType
  <2>2. QED
    BY <2>1 DEF Place
<1>5. ASSUME NEW j \in P PROVE Place(s, key, j) \in P
  <2>1. Cardinality(upTo(j)) <= Cardinality(P)
    BY <1>1, <1>4, FS_Subset
  <2>2. Cardinality(upTo(j)) # 0
    BY <1>4, FS_EmptySet
  <2>3. \A c \in Nat : c <= Len(s) /\ c # 0 => c \in P
    OBVIOUS
  <2>4. Place(s, key, j) = Cardinality(upTo(j)) /\ Cardinality(upTo(j)) \in Nat
    BY <1>4
  <2> HIDE DEF P, upTo
  <2>5. QED
    BY <1>1, <2>1, <2>2, <2>3, <2>4
<1>6. ASSUME NEW i \in P, NEW j \in P, Ahead(s, key, i, j), i # j
      PROVE  Place(s, key, i) < Place(s, key, j)
  <2>1. upTo(i) \subseteq upTo(j) /\ j \notin upTo(i)
    BY <1>2, <1>3, <1>6
  <2>2. upTo(i) # upTo(j) /\ IsFiniteSet(upTo(j))
    BY <1>4, <2>1
  <2>3. Cardinality(upTo(i)) <= Cardinality(upTo(j))
        /\ (Cardinality(upTo(i)) = Cardinality(upTo(j)) => upTo(i) = upTo(j))
    BY <2>1, <2>2, FS_Subset
  <2>4. /\ Place(s, key, i) = Cardinality(upTo(i)) /\ Cardinality(upTo(i)) \in Nat
        /\ Place(s, key, j) = Cardinality(upTo(j)) /\ Cardinality(upTo(j)) \in Nat
    BY <1>4
  <2> HIDE DEF upTo
  <2>5. QED
    BY <2>2, <2>3, <2>4
<1>7. \A i, j \in P : Ahead(s, key, i, j) <=> Place(s, key, i) <= Place(s, key, j)
  <2>1. ASSUME NEW i \in P, NEW j \in P
        PROVE  Ahead(s, key, i, j) <=> Place(s, key, i) <= Place(s, key, j)
    <3>1. Place(s, key, i) \in Int /\ Place(s, key, j) \in Int
      BY <1>5
    <3>2. CASE i = j
      BY <1>2, <3>1, <3>2
    <3>3. CASE i # j /\ Ahead(s, key, i, j)
      <4>1. Place(s, key, i) < Place(s, key, j)
        BY <1>6, <3>3
      <4>2. QED
        BY <3>1, <3>3, <4>1
    <3>4. CASE i # j /\ ~Ahead(s, key, i, j)
      <4>1. Place(s, key, j) < Place(s, key, i)
        BY <1>2, <1>6, <3>4
      <4>2. QED
        BY <3>1, <3>4, <4>1
    <3>5. QED
      BY <3>2, <3>3, <3>4
  <2>2. QED
    BY <2>1
<1>8. \A i, j \in P : Place(s, key, i) = Place(s, key, j) => i = j
  <2>1. ASSUME NEW i \in P, NEW j \in P, Place(s, key, i) = Place(s, key, j)
        PROVE  i = j
    <3>1. Place(s, key, i) <= Place(s, key, j) /\ Place(s, key, j) <= Place(s, key, i)
      BY <1>5, <2>1
    <3>2. QED
      BY <1>2, <1>7, <3>1
  <2>2. QED
    BY <2>1
<1>9. f \in Surjection(P, P)
  <2>1. f \in [P -> P] /\ \A j \in P : f[j] = Place(s, key, j)
    BY <1>5
  <2>2. f \in Injection(P, P)
    <3> HIDE DEF f, P
    <3> QED
      BY <1>8, <2>1 DEF Injection, IsInjective
  <2>3. QED
    BY <1>1, <2>2, FS_Injection
<1>10. \A n \in P : \E j \in P : f[j] = n
  <2> HIDE DEF f, P
  <2> QED
    BY <1>9 DEF Surjection
<1>11. QED
  BY <1>5, <1>7, <1>8, <1>10

\* A sort holds what it is given, with what is ahead before the rest.
LEMMA DescendingKeeps ==
  ASSUME NEW T, NEW s \in Seq(T), NEW key, \A i \in 1..Len(s) : key[s[i]] \in Int
  PROVE  /\ Descending(s, key) \in Seq(T)
         /\ Len(Descending(s, key)) = Len(s)
         /\ ToSet(Descending(s, key)) = ToSet(s)
         /\ NoRepetition(s) => NoRepetition(Descending(s, key))
         /\ \A i, j \in 1..Len(s) :
              Ahead(s, key, i, j) => Before(Descending(s, key), s[i], s[j])
<1> DEFINE P == 1..Len(s)
           d == Descending(s, key)
           p(j) == Place(s, key, j)
<1>1. Len(s) \in Nat /\ DOMAIN s = P /\ \A i \in P : s[i] \in T
  OBVIOUS
<1>2. /\ \A j \in P : p(j) \in P
      /\ \A i, j \in P : Ahead(s, key, i, j) <=> p(i) <= p(j)
      /\ \A i, j \in P : p(i) = p(j) => i = j
      /\ \A n \in P : \E j \in P : p(j) = n
  BY <1>1, Places
<1>3. d = [n \in P |-> s[CHOOSE j \in P : p(j) = n]]
  BY DEF Descending
<1> HIDE DEF P, d, p
<1>4. ASSUME NEW n \in P PROVE \E j \in P : p(j) = n /\ d[n] = s[j]
  <2> DEFINE c == CHOOSE j \in P : p(j) = n
  <2>1. c \in P /\ p(c) = n
    BY <1>2
  <2>2. d[n] = s[c]
    BY <1>3
  <2> HIDE DEF c
  <2>3. QED
    BY <2>1, <2>2
<1>5. ASSUME NEW j \in P PROVE d[p(j)] = s[j]
  <2>1. PICK i \in P : p(i) = p(j) /\ d[p(j)] = s[i]
    BY <1>2, <1>4
  <2>2. QED
    BY <1>2, <2>1
<1>6. d \in Seq(T) /\ Len(d) = Len(s) /\ DOMAIN d = P
  <2>1. \A n \in P : d[n] \in T
    BY <1>1, <1>4
  <2>2. DOMAIN d = P /\ d = [n \in P |-> d[n]]
    BY <1>3
  <2>3. QED
    BY <1>1, <2>1, <2>2 DEF P
<1>7. ToSet(d) = ToSet(s)
  <2>1. \A x : (\E n \in P : d[n] = x) <=> (\E j \in P : s[j] = x)
    BY <1>2, <1>4, <1>5
  <2>2. \A x : x \in ToSet(d) <=> \E n \in P : d[n] = x
    BY <1>6 DEF ToSet
  <2>3. \A x : x \in ToSet(s) <=> \E n \in P : s[n] = x
    BY <1>1 DEF ToSet
  <2>4. \A x : x \in ToSet(d) <=> x \in ToSet(s)
    BY <2>1, <2>2, <2>3, Zenon
  <2>5. QED
    BY <2>4
<1>8. ASSUME NoRepetition(s) PROVE NoRepetition(d)
  <2>1. \A i, j \in P : s[i] = s[j] => i = j
    BY <1>8 DEF NoRepetition, P
  <2>2. \A n, m \in P : d[n] = d[m] => n = m
    BY <1>4, <2>1
  <2>3. QED
    BY <1>6, <2>2 DEF NoRepetition, P
<1>9. ASSUME NEW i \in P, NEW j \in P, Ahead(s, key, i, j)
      PROVE  Before(d, s[i], s[j])
  <2>1. p(i) \in P /\ p(j) \in P /\ p(i) <= p(j)
    BY <1>2, <1>9
  <2>2. d[p(i)] = s[i] /\ d[p(j)] = s[j]
    BY <1>5
  <2>3. QED
    BY <1>6, <2>1, <2>2 DEF Before, P
<1>10. QED
  BY <1>6, <1>7, <1>8, <1>9 DEF d, P

-----------------------------------------------------------------------------
(* Retrieval                                                                *)

\* Membership in a list, and where it is found.
LEMMA Member ==
  ASSUME NEW T, NEW s \in Seq(T)
  PROVE  /\ \A x : Contains(s, x) <=> x \in ToSet(s)
         /\ \A x : x \in ToSet(s) <=> \E i \in 1..Len(s) : s[i] = x
         /\ \A x \in ToSet(s) : Position(s, x) \in 1..Len(s) /\ s[Position(s, x)] = x
         /\ \A i \in 1..Len(s) : s[i] \in T /\ s[i] \in ToSet(s)
<1>1. DOMAIN s = 1..Len(s) /\ \A i \in 1..Len(s) : s[i] \in T
  OBVIOUS
<1>2. \A x : x \in ToSet(s) <=> \E i \in 1..Len(s) : s[i] = x
  BY <1>1 DEF ToSet
<1>3. \A x : Contains(s, x) <=> x \in ToSet(s)
  BY <1>2 DEF Contains
<1>4. \A x \in ToSet(s) : Position(s, x) \in 1..Len(s) /\ s[Position(s, x)] = x
  BY <1>2 DEF Position
<1>5. QED
  BY <1>1, <1>2, <1>3, <1>4

\* What a list concatenates.
LEMMA Joined ==
  ASSUME NEW T, NEW s \in Seq(T), NEW t \in Seq(T)
  PROVE  /\ s \o t \in Seq(T)
         /\ ToSet(s \o t) = ToSet(s) \cup ToSet(t)
         /\ Len(s \o t) = Len(s) + Len(t)
         /\ \A i \in 1..Len(s) : (s \o t)[i] = s[i]
         /\ \A i \in 1..Len(t) : (s \o t)[Len(s) + i] = t[i]
<1> DEFINE u == s \o t
<1>1. /\ u \in Seq(T) /\ Len(u) = Len(s) + Len(t) /\ Len(s) \in Nat /\ Len(t) \in Nat
      /\ \A i \in 1..Len(s) : u[i] = s[i]
      /\ \A i \in 1..Len(t) : u[Len(s) + i] = t[i]
      /\ \A i \in 1..Len(u) : i \in 1..Len(s) \/ i - Len(s) \in 1..Len(t)
  OBVIOUS
<1> HIDE DEF u
<1>2. ASSUME NEW x \in ToSet(u) PROVE x \in ToSet(s) \cup ToSet(t)
  <2>1. PICK i \in 1..Len(u) : u[i] = x
    BY <1>1, Member
  <2>2. CASE i \in 1..Len(s)
    BY <1>1, <2>1, <2>2, Member
  <2>3. CASE i - Len(s) \in 1..Len(t)
    <3>1. Len(s) + (i - Len(s)) = i
      BY <1>1
    <3>2. t[i - Len(s)] = x
      BY <1>1, <2>1, <2>3, <3>1
    <3>3. QED
      BY <2>3, <3>2, Member
  <2>4. QED
    BY <1>1, <2>2, <2>3
<1>3. ASSUME NEW x \in ToSet(s) \cup ToSet(t) PROVE x \in ToSet(u)
  <2>1. CASE x \in ToSet(s)
    <3>1. PICK i \in 1..Len(s) : s[i] = x
      BY <2>1, Member
    <3>2. i \in 1..Len(u) /\ u[i] = x
      BY <1>1, <3>1
    <3>3. QED
      BY <1>1, <3>2, Member
  <2>2. CASE x \in ToSet(t)
    <3>1. PICK i \in 1..Len(t) : t[i] = x
      BY <2>2, Member
    <3>2. Len(s) + i \in 1..Len(u) /\ u[Len(s) + i] = x
      BY <1>1, <3>1
    <3>3. QED
      BY <1>1, <3>2, Member
  <2>3. QED
    BY <2>1, <2>2
<1>4. ToSet(u) = ToSet(s) \cup ToSet(t)
  BY <1>2, <1>3
<1>5. QED
  BY <1>1, <1>4 DEF u

\* The word search finds each memory once.
LEMMA FtsHitsType ==
  ASSUME NEW mem \in Memories
  PROVE  FtsHits(mem) \in Seq(DOMAIN mem.rows) /\ NoRepetition(FtsHits(mem))
<1> DEFINE M == DOMAIN mem.rows
           X == {m \in ToSet(mem.fts) : mem.rows[m].live /\ Matches(mem.rows[m])}
           h == Among(mem.fts, X)
<1>1. mem.fts \in Seq(M) /\ NoRepetition(mem.fts)
  BY RecallAssumption DEF NoRepetition
<1>2. FtsHits(mem) = Firsts(h, HitLimit)
  BY DEF FtsHits
<1> HIDE DEF M, X, h
<1>3. h \in Seq(M) /\ NoRepetition(h)
  BY <1>1, AmongKeeps DEF h
<1>4. Firsts(h, HitLimit) \in Seq(M) /\ NoRepetition(Firsts(h, HitLimit))
  BY <1>3, FirstsKeep, FirstsOrder, RetrievalAssumption
<1>5. QED
  BY <1>2, <1>4 DEF M

\* So does the vector search: of each memory the best chunk.
LEMMA VectorHitsType ==
  ASSUME NEW mem \in Memories
  PROVE  VectorHits(mem) \in Seq(DOMAIN mem.rows) /\ NoRepetition(VectorHits(mem))
<1> DEFINE M == DOMAIN mem.rows
           C == [memory : M, sim : Int]
           scan == Firsts(mem.chunks, ScanLimit)
           key == [c \in ToSet(scan) |-> c.sim]
           best == Firsts(Descending(scan, key), HitLimit)
           new == {j \in 1..Len(best) : \A i \in 1..(j - 1) : best[i].memory # best[j].memory}
           all == [j \in 1..Len(best) |-> best[j].memory]
           hits == Selected(all, new)
<1>1. scan \in Seq(C)
  BY FirstsKeep, RetrievalAssumption, RecallAssumption
<1> HIDE DEF C
<1>2. \A i \in 1..Len(scan) : key[scan[i]] \in Int
  <2>1. \A i \in 1..Len(scan) : scan[i] \in ToSet(scan) /\ scan[i] \in C
    BY <1>1, Member
  <2>2. QED
    BY <2>1 DEF C
<1>3. VectorHits(mem) = hits
  BY DEF VectorHits
<1> HIDE DEF scan, key
<1>4. best \in Seq(C)
  <2>1. Descending(scan, key) \in Seq(C)
    BY <1>1, <1>2, DescendingKeeps
  <2>2. QED
    BY <2>1, FirstsKeep, RetrievalAssumption
<1> HIDE DEF best
<1>5. Len(best) \in Nat /\ \A i \in 1..Len(best) : best[i].memory \in M
  <2>1. \A i \in 1..Len(best) : best[i] \in C
    BY <1>4, Member
  <2>2. QED
    BY <1>4, <2>1 DEF C
<1>6. /\ all \in Seq(M) /\ Len(all) = Len(best)
      /\ \A i \in 1..Len(best) : all[i] = best[i].memory
  <2> HIDE DEF M
  <2> QED
    BY <1>5
<1>7. new \in SUBSET (1..Len(all))
      /\ \A i, j \in new : i < j => best[i].memory # best[j].memory
  <2>1. ASSUME NEW i \in new, NEW j \in new, i < j PROVE best[i].memory # best[j].memory
    <3>1. i \in 1..(j - 1)
      BY <1>5, <2>1
    <3>2. QED
      BY <3>1
  <2>2. QED
    BY <1>6, <2>1
<1> HIDE DEF M, C, all, new
<1>8. hits \in Seq(M)
  BY <1>6, <1>7, SelectedType
<1>9. /\ Len(all) \in Nat /\ Cardinality(new) \in Nat /\ DOMAIN hits = 1..Cardinality(new)
      /\ \A n \in 1..Cardinality(new) : \E i \in new : Rank(new, i) = n /\ hits[n] = all[i]
  BY <1>5, <1>6, <1>7, SelectedAt
<1>10. NoRepetition(hits)
  <2>1. Len(hits) = Cardinality(new)
    BY <1>8, <1>9
  <2>2. ASSUME NEW n \in 1..Len(hits), NEW m \in 1..Len(hits), hits[n] = hits[m]
        PROVE  n = m
    <3>1. PICK i \in new : Rank(new, i) = n /\ hits[n] = all[i]
      BY <1>9, <2>1
    <3>2. PICK j \in new : Rank(new, j) = m /\ hits[m] = all[j]
      BY <1>9, <2>1
    <3>3. i \in 1..Len(all) /\ j \in 1..Len(all)
      BY <1>7
    <3>4. i \in Int /\ j \in Int /\ best[i].memory = best[j].memory
      <4>1. all[i] = all[j]
        BY <2>2, <3>1, <3>2, Zenon
      <4>2. all[i] = best[i].memory /\ all[j] = best[j].memory
        BY <1>6, <3>3
      <4>3. i \in Int /\ j \in Int
        BY <1>9, <3>3
      <4>4. QED
        BY <4>1, <4>2, <4>3
    <3>5. ~(i < j) /\ ~(j < i)
      BY <1>7, <3>4
    <3>6. QED
      BY <3>1, <3>2, <3>4, <3>5
  <2>3. QED
    BY <2>2 DEF NoRepetition
<1>11. QED
  BY <1>3, <1>8, <1>10 DEF M

\* The common multiple of the ranks is a number.
LEMMA UnitType == Unit \in Nat
<1> DEFINE Values(f, k) ==
             f = [r \in 0..k |-> IF r = 0 THEN 1 ELSE f[r - 1] * (RrfK + r)]
           product == CHOOSE f : Values(f, HitLimit)
           None == {k \in 0..HitLimit : ~\E f : Values(f, k)}
           Bad == {k \in 0..HitLimit : product[k] \notin Nat}
<1>1. HitLimit \in Nat /\ RrfK \in Nat
  BY RetrievalAssumption
<1>2. None = {}
  <2> SUFFICES ASSUME None # {} PROVE FALSE
    OBVIOUS
  <2>1. PICK k \in None : \A m \in None : k <= m
    <3>1. None \subseteq Nat
      OBVIOUS
    <3>2. QED
      BY <3>1, Least
  <2>2. k \in 0..HitLimit /\ ~\E f : Values(f, k)
    OBVIOUS
  <2>3. k # 0
    <3>1. Values([r \in 0..0 |-> 1], 0)
      OBVIOUS
    <3>2. QED
      BY <2>2, <3>1
  <2>4. k - 1 \in 0..HitLimit /\ k - 1 \notin None
    <3>1. k - 1 \in 0..HitLimit /\ ~(k <= k - 1)
      BY <1>1, <2>2, <2>3
    <3> HIDE DEF None
    <3>2. QED
      BY <2>1, <3>1
  <2>5. PICK h : Values(h, k - 1)
    BY <2>4
  <2> DEFINE g == [r \in 0..k |-> IF r = k THEN h[k - 1] * (RrfK + k) ELSE h[r]]
  <2>6. ASSUME NEW r \in 0..k
        PROVE  g[r] = IF r = 0 THEN 1 ELSE g[r - 1] * (RrfK + r)
    <3>1. CASE r = k
      <4>1. r # 0 /\ r - 1 \in 0..k /\ r - 1 # k
        BY <2>2, <2>3, <3>1
      <4>2. g[r - 1] = h[r - 1]
        BY <4>1
      <4>3. g[r] = h[k - 1] * (RrfK + k)
        BY <3>1
      <4>4. QED
        BY <3>1, <4>1, <4>2, <4>3
    <3>2. CASE r # k
      <4>1. r \in 0..(k - 1)
        BY <2>2, <3>2
      <4>2. h[r] = IF r = 0 THEN 1 ELSE h[r - 1] * (RrfK + r)
        BY <2>5, <4>1
      <4>3. g[r] = h[r]
        BY <3>2
      <4>4. r # 0 => r - 1 \in 0..k /\ r - 1 # k
        BY <2>2, <4>1
      <4>5. r # 0 => g[r - 1] = h[r - 1]
        BY <4>4
      <4>6. QED
        BY <4>2, <4>3, <4>5
    <3>3. QED
      BY <3>1, <3>2
  <2>7. g = [r \in 0..k |-> g[r]]
    OBVIOUS
  <2> HIDE DEF g
  <2>8. Values(g, k)
    BY <2>6, <2>7
  <2>9. QED
    BY <2>2, <2>8
<1>3. Values(product, HitLimit)
  <2>1. HitLimit \in 0..HitLimit /\ HitLimit \notin None
    <3> HIDE DEF None
    <3> QED
      BY <1>1, <1>2
  <2>2. \E f : Values(f, HitLimit)
    BY <2>1
  <2>3. QED
    BY <2>2
<1>4. Bad = {}
  <2> SUFFICES ASSUME Bad # {} PROVE FALSE
    OBVIOUS
  <2>1. PICK k \in Bad : \A m \in Bad : k <= m
    <3>1. Bad \subseteq Nat
      OBVIOUS
    <3>2. QED
      BY <3>1, Least
  <2>2. /\ k \in 0..HitLimit /\ product[k] \notin Nat
        /\ product[k] = IF k = 0 THEN 1 ELSE product[k - 1] * (RrfK + k)
    BY <1>3
  <2>3. k # 0
    BY <2>2
  <2>4. k - 1 \in 0..HitLimit /\ k - 1 \notin Bad
    BY <1>1, <2>1, <2>2, <2>3
  <2>5. product[k - 1] \in Nat /\ RrfK + k \in Nat
    BY <1>1, <2>2, <2>4
  <2>6. \A m, n \in Nat : m * n \in Nat
    OBVIOUS
  <2> HIDE DEF product
  <2>7. QED
    BY <2>2, <2>3, <2>5, <2>6
<1>5. product[HitLimit] \in Nat
  <2>1. HitLimit \in 0..HitLimit /\ HitLimit \notin Bad
    BY <1>1, <1>4
  <2>2. QED
    BY <2>1
<1>6. QED
  BY <1>5 DEF Unit

\* Of a unit, a smaller divisor gives no less.
LEMMA Shares ==
  ASSUME NEW u \in Nat, NEW x \in Nat \ {0}, NEW y \in Nat, x <= y
  PROVE  u \div x \in Nat /\ u \div y \in Nat /\ u \div y <= u \div x
<1>1. /\ u \div x \in Nat /\ x * (u \div x) <= u /\ u < x * (u \div x) + x
      /\ u \div y \in Nat /\ y * (u \div y) <= u
  <2>1. \A m \in Nat, n \in Nat \ {0} :
          m \div n \in Nat /\ n * (m \div n) <= m /\ m < n * (m \div n) + n
    OBVIOUS
  <2>2. y \in Nat \ {0}
    OBVIOUS
  <2>3. QED
    BY <2>1, <2>2
<1>2. ASSUME NEW p \in Nat, NEW q \in Nat, x * p <= u, u < x * p + x, y * q <= u
      PROVE  q <= p
  <2> SUFFICES ASSUME p + 1 <= q PROVE FALSE
    OBVIOUS
  <2>1. \A a, b, c \in Nat : a <= b => a * c <= b * c /\ c * a <= c * b
    OBVIOUS
  <2>2. x * (p + 1) <= x * q /\ x * q <= y * q
    BY <2>1
  <2>3. x * (p + 1) = x * p + x
    OBVIOUS
  <2>4. x * p \in Nat /\ x * q \in Nat /\ y * q \in Nat
    OBVIOUS
  <2>5. QED
    BY <1>2, <2>2, <2>3, <2>4
<1>3. QED
  BY <1>1, <1>2

\* b is in a list no later than a is.
NoLater(s, b, a) ==
  Contains(s, a) => \E i \in 1..Len(s) : s[i] = b /\ Position(s, b) <= Position(s, a)

LEMMA NoLaterBefore ==
  ASSUME NEW T, NEW s \in Seq(T), NEW a \in ToSet(s), NEW b, NoLater(s, b, a)
  PROVE  /\ b \in ToSet(s) /\ Position(s, b) <= Position(s, a)
         /\ Before(s, b, a)
<1>1. b \in ToSet(s) /\ Position(s, b) <= Position(s, a)
  BY Member DEF NoLater
<1>2. QED
  BY <1>1, Member DEF Before

\* A share is a number, and no less for who is no later.
LEMMA ShareType ==
  ASSUME NEW T, NEW s \in Seq(T), NEW m PROVE Share(s, m) \in Nat
<1>1. CASE m \in ToSet(s)
  <2>1. Position(s, m) \in 1..Len(s) /\ Contains(s, m)
    BY <1>1, Member
  <2>2. RrfK + Position(s, m) \in Nat \ {0}
    BY <2>1, RetrievalAssumption
  <2>3. Unit \div (RrfK + Position(s, m)) \in Nat
    BY <2>2, UnitType, Shares
  <2>4. QED
    BY <2>1, <2>3 DEF Share
<1>2. CASE m \notin ToSet(s)
  BY <1>2, Member DEF Share
<1>3. QED
  BY <1>1, <1>2

LEMMA ShareGrows ==
  ASSUME NEW T, NEW s \in Seq(T), NEW a, NEW b, NoLater(s, b, a)
  PROVE  Share(s, a) <= Share(s, b)
<1>1. CASE a \in ToSet(s)
  <2>1. b \in ToSet(s) /\ Position(s, b) <= Position(s, a)
    BY <1>1, NoLaterBefore
  <2>2. /\ Position(s, a) \in 1..Len(s) /\ Position(s, b) \in 1..Len(s)
        /\ Contains(s, a) /\ Contains(s, b)
    BY <1>1, <2>1, Member
  <2>3. /\ RrfK + Position(s, b) \in Nat \ {0} /\ RrfK + Position(s, a) \in Nat
        /\ RrfK + Position(s, b) <= RrfK + Position(s, a)
    BY <2>1, <2>2, RetrievalAssumption
  <2>4. Unit \div (RrfK + Position(s, a)) <= Unit \div (RrfK + Position(s, b))
    BY <2>3, UnitType, Shares
  <2>5. QED
    BY <2>2, <2>4 DEF Share
<1>2. CASE a \notin ToSet(s)
  <2>1. Share(s, a) = 0
    BY <1>2, Member DEF Share
  <2>2. Share(s, b) \in Nat
    BY ShareType
  <2>3. QED
    BY <2>1, <2>2
<1>3. QED
  BY <1>1, <1>2

\* The fusion of two lists: each element once, and before it whatever is no
\* later in either.
LEMMA FusedKeeps ==
  ASSUME NEW M, NEW fts \in Seq(M), NEW vec \in Seq(M),
         NoRepetition(fts), NoRepetition(vec)
  PROVE  /\ Fused(fts, vec) \in Seq(M) /\ NoRepetition(Fused(fts, vec))
         /\ ToSet(Fused(fts, vec)) = ToSet(fts) \cup ToSet(vec)
         /\ \A a, b \in ToSet(fts) \cup ToSet(vec) :
              NoLater(fts, b, a) /\ NoLater(vec, b, a) => Before(Fused(fts, vec), b, a)
<1> DEFINE X == ToSet(vec) \ ToSet(fts)
           rest == Among(vec, X)
           all == fts \o rest
           key == [m \in ToSet(fts \o vec) |-> RrfScore(m, fts, vec)]
<1>1. /\ rest \in Seq(M) /\ ToSet(rest) = X /\ NoRepetition(rest)
      /\ \A a, b \in X : Before(vec, b, a) => Before(rest, b, a)
  <2>1. ToSet(vec) \cap X = X
    OBVIOUS
  <2> HIDE DEF X
  <2>2. QED
    BY <2>1, AmongKeeps
<1>2. Fused(fts, vec) = Descending(all, key)
  BY DEF Fused
<1> HIDE DEF rest
<1>3. /\ all \in Seq(M) /\ ToSet(all) = ToSet(fts) \cup ToSet(vec)
      /\ Len(all) = Len(fts) + Len(rest)
      /\ \A i \in 1..Len(fts) : all[i] = fts[i]
      /\ \A i \in 1..Len(rest) : all[Len(fts) + i] = rest[i]
  <2>1. ToSet(fts) \cup ToSet(rest) = ToSet(fts) \cup ToSet(vec)
    BY <1>1
  <2> HIDE DEF X
  <2>2. QED
    BY <1>1, <2>1, Joined
<1>4. Len(fts) \in Nat /\ Len(rest) \in Nat /\ Len(all) \in Nat
  BY <1>1, <1>3
<1> HIDE DEF all
<1>5. ASSUME NEW i \in 1..Len(all)
      PROVE  \/ i \in 1..Len(fts) /\ all[i] = fts[i] /\ all[i] \in ToSet(fts)
             \/ /\ i - Len(fts) \in 1..Len(rest) /\ all[i] = rest[i - Len(fts)]
                /\ all[i] \notin ToSet(fts)
  <2>1. CASE i \in 1..Len(fts)
    BY <1>3, <2>1, Member
  <2>2. CASE i \notin 1..Len(fts)
    <3>1. i - Len(fts) \in 1..Len(rest) /\ Len(fts) + (i - Len(fts)) = i
      BY <1>3, <1>4, <2>2
    <3>2. all[i] = rest[i - Len(fts)]
      BY <1>3, <3>1
    <3>3. all[i] \in X
      BY <1>1, <3>1, <3>2, Member
    <3>4. QED
      BY <3>1, <3>2, <3>3
  <2>3. QED
    BY <2>1, <2>2
<1>6. NoRepetition(all)
  <2>1. ASSUME NEW i \in 1..Len(all), NEW j \in 1..Len(all), all[i] = all[j]
        PROVE  i = j
    <3>1. CASE all[i] \in ToSet(fts)
      <4>1. i \in 1..Len(fts) /\ j \in 1..Len(fts) /\ fts[i] = fts[j]
        BY <1>5, <2>1, <3>1
      <4>2. QED
        BY <4>1 DEF NoRepetition
    <3>2. CASE all[i] \notin ToSet(fts)
      <4>1. /\ i - Len(fts) \in 1..Len(rest) /\ j - Len(fts) \in 1..Len(rest)
            /\ rest[i - Len(fts)] = rest[j - Len(fts)]
        BY <1>5, <2>1, <3>2
      <4>2. i - Len(fts) = j - Len(fts)
        BY <1>1, <4>1 DEF NoRepetition
      <4>3. QED
        BY <1>4, <4>2
    <3>3. QED
      BY <3>1, <3>2
  <2>2. QED
    BY <2>1 DEF NoRepetition
<1>7. ASSUME NEW m \in ToSet(fts) \cup ToSet(vec)
      PROVE  key[m] = RrfScore(m, fts, vec) /\ key[m] \in Int
  <2>1. m \in ToSet(fts \o vec)
    BY Joined
  <2>2. RrfScore(m, fts, vec) \in Int
    <3>1. Share(fts, m) \in Nat /\ Share(vec, m) \in Nat
      BY ShareType
    <3>2. QED
      BY <3>1 DEF RrfScore
  <2>3. QED
    BY <2>1, <2>2
<1>8. \A i \in 1..Len(all) : key[all[i]] \in Int
  BY <1>3, <1>7, Member
<1> HIDE DEF key
<1>9. /\ Fused(fts, vec) \in Seq(M) /\ ToSet(Fused(fts, vec)) = ToSet(all)
      /\ NoRepetition(Fused(fts, vec))
      /\ \A i, j \in 1..Len(all) : Ahead(all, key, i, j) => Before(Fused(fts, vec), all[i], all[j])
  <2>1. all \in Seq(M)
    BY <1>3
  <2>2. /\ Descending(all, key) \in Seq(M) /\ ToSet(Descending(all, key)) = ToSet(all)
        /\ NoRepetition(all) => NoRepetition(Descending(all, key))
        /\ \A i, j \in 1..Len(all) :
             Ahead(all, key, i, j) => Before(Descending(all, key), all[i], all[j])
    BY <1>8, <2>1, DescendingKeeps, Zenon
  <2>3. QED
    BY <1>2, <1>6, <2>2, Zenon
<1>10. ASSUME NEW a \in ToSet(fts) \cup ToSet(vec), NEW b \in ToSet(fts) \cup ToSet(vec),
              NoLater(fts, b, a), NoLater(vec, b, a)
       PROVE  Before(Fused(fts, vec), b, a)
  <2>1. key[a] <= key[b] /\ key[a] \in Int /\ key[b] \in Int
    <3>1. /\ Share(fts, a) \in Nat /\ Share(vec, a) \in Nat
          /\ Share(fts, b) \in Nat /\ Share(vec, b) \in Nat
      BY ShareType
    <3>2. Share(fts, a) <= Share(fts, b) /\ Share(vec, a) <= Share(vec, b)
      BY <1>10, ShareGrows
    <3>3. RrfScore(a, fts, vec) <= RrfScore(b, fts, vec)
      BY <3>1, <3>2 DEF RrfScore
    <3>4. QED
      BY <1>7, <3>3
  <2>2. \E i, j \in 1..Len(all) : i <= j /\ all[i] = b /\ all[j] = a
    <3>1. CASE a \in ToSet(fts)
      <4>1. PICK i \in 1..Len(fts), j \in 1..Len(fts) : i <= j /\ fts[i] = b /\ fts[j] = a
        BY <1>10, <3>1, NoLaterBefore DEF Before
      <4>2. i \in 1..Len(all) /\ j \in 1..Len(all)
        BY <1>3, <1>4
      <4>3. QED
        BY <1>3, <4>1, <4>2
    <3>2. CASE a \notin ToSet(fts)
      <4>1. a \in X /\ a \in ToSet(vec)
        BY <3>2
      <4>2. b \in ToSet(vec) /\ Before(vec, b, a)
        BY <1>10, <4>1, NoLaterBefore
      <4>3. CASE b \in ToSet(fts)
        <5>1. PICK i \in 1..Len(fts) : fts[i] = b
          BY <4>3, Member
        <5>2. PICK j \in 1..Len(rest) : rest[j] = a
          BY <1>1, <4>1, Member
        <5>3. i \in 1..Len(all) /\ Len(fts) + j \in 1..Len(all) /\ i <= Len(fts) + j
          BY <1>3, <1>4
        <5>4. all[i] = b /\ all[Len(fts) + j] = a
          BY <1>3, <5>1, <5>2
        <5>5. QED
          BY <5>3, <5>4
      <4>4. CASE b \notin ToSet(fts)
        <5>1. Before(rest, b, a)
          BY <1>1, <4>1, <4>2, <4>4
        <5>2. PICK i \in 1..Len(rest), j \in 1..Len(rest) : i <= j /\ rest[i] = b /\ rest[j] = a
          BY <5>1 DEF Before
        <5>3. /\ Len(fts) + i \in 1..Len(all) /\ Len(fts) + j \in 1..Len(all)
              /\ Len(fts) + i <= Len(fts) + j
          BY <1>3, <1>4, <5>2
        <5>4. all[Len(fts) + i] = b /\ all[Len(fts) + j] = a
          BY <1>3, <5>2
        <5>5. QED
          BY <5>3, <5>4
      <4>5. QED
        BY <4>3, <4>4
    <3>3. QED
      BY <3>1, <3>2
  <2>3. PICK i \in 1..Len(all), j \in 1..Len(all) : i <= j /\ all[i] = b /\ all[j] = a
    BY <2>2
  <2>4. Ahead(all, key, i, j)
    BY <2>1, <2>3 DEF Ahead
  <2>5. QED
    BY <1>9, <2>3, <2>4
<1>11. QED
  BY <1>3, <1>9, <1>10

-----------------------------------------------------------------------------
(* What a retrieval shows                                                   *)

\* The lists of both searches, what they found, and of it what may be shown.
Words(mem, pol) == IF pol.fts THEN FtsHits(mem) ELSE <<>>
Found(mem, pol) ==
  {m \in ToSet(Words(mem, pol)) \cup ToSet(VectorHits(mem)) :
     Qualifies(mem, m, Words(mem, pol))}
WordsOf(mem, m) == Cardinality(mem.rows[m].words)

\* b is ahead of a in both searches.
AheadInBoth(mem, pol, b, a) ==
  NoLater(Words(mem, pol), b, a) /\ NoLater(VectorHits(mem), b, a)

\* A list that shows only what was found, each once, and what is ahead of an
\* element before it.
Faithful(mem, pol, s) ==
  /\ s \in Seq(DOMAIN mem.rows) /\ NoRepetition(s)
  /\ ToSet(s) \subseteq Found(mem, pol)

LEMMA SearchesType ==
  ASSUME NEW mem \in Memories, NEW pol \in Policies
  PROVE  /\ Words(mem, pol) \in Seq(DOMAIN mem.rows) /\ NoRepetition(Words(mem, pol))
         /\ VectorHits(mem) \in Seq(DOMAIN mem.rows) /\ NoRepetition(VectorHits(mem))
         /\ Found(mem, pol) \subseteq DOMAIN mem.rows
<1>1. <<>> \in Seq(DOMAIN mem.rows) /\ NoRepetition(<<>>)
  BY DEF NoRepetition
<1>2. Words(mem, pol) \in Seq(DOMAIN mem.rows) /\ NoRepetition(Words(mem, pol))
  BY <1>1, FtsHitsType DEF Words
<1>3. VectorHits(mem) \in Seq(DOMAIN mem.rows) /\ NoRepetition(VectorHits(mem))
  BY VectorHitsType
<1>4. \A m \in ToSet(Words(mem, pol)) \cup ToSet(VectorHits(mem)) : m \in DOMAIN mem.rows
  BY <1>2, <1>3, Member
<1>5. QED
  BY <1>2, <1>3, <1>4 DEF Found

\* The candidates: before one of them stands all that was found ahead of it,
\* and all that was found is among them while they are below their limit.
LEMMA CandidatesKeep ==
  ASSUME NEW mem \in Memories, NEW pol \in Policies
  PROVE  /\ Faithful(mem, pol, Candidates(mem, pol))
         /\ \A a \in ToSet(Candidates(mem, pol)), b \in Found(mem, pol) :
              AheadInBoth(mem, pol, b, a) => Before(Candidates(mem, pol), b, a)
         /\ Len(Candidates(mem, pol)) < pol.rerankMax =>
              ToSet(Candidates(mem, pol)) = Found(mem, pol)
<1> DEFINE M == DOMAIN mem.rows
           fts == Words(mem, pol)
           vec == VectorHits(mem)
           fused == Fused(fts, vec)
           q == Among(fused, Found(mem, pol))
           c == Firsts(q, pol.rerankMax)
<1>1. /\ fts \in Seq(M) /\ vec \in Seq(M) /\ NoRepetition(fts) /\ NoRepetition(vec)
      /\ Found(mem, pol) \subseteq ToSet(fts) \cup ToSet(vec)
      /\ Found(mem, pol) \subseteq M
  BY SearchesType DEF Found
<1>2. Candidates(mem, pol) = c
  <2>1. {m \in ToSet(fts \o vec) : Qualifies(mem, m, fts)} = Found(mem, pol)
    BY <1>1, Joined DEF Found
  <2>2. QED
    BY <2>1 DEF Candidates, Words
<1>3. pol.rerankMax \in Nat
  BY RecallAssumption
<1> HIDE DEF M, fts, vec
<1>4. /\ fused \in Seq(M) /\ NoRepetition(fused) /\ ToSet(fused) = ToSet(fts) \cup ToSet(vec)
      /\ \A a, b \in ToSet(fts) \cup ToSet(vec) :
           NoLater(fts, b, a) /\ NoLater(vec, b, a) => Before(fused, b, a)
  BY <1>1, FusedKeeps
<1> HIDE DEF fused
<1>5. /\ q \in Seq(M) /\ NoRepetition(q) /\ ToSet(q) = ToSet(fused) \cap Found(mem, pol)
      /\ \A a, b \in Found(mem, pol) : Before(fused, b, a) => Before(q, b, a)
  BY <1>4, AmongKeeps
<1>6. ToSet(q) = Found(mem, pol)
  BY <1>1, <1>4, <1>5
<1> HIDE DEF q
<1>7. /\ c \in Seq(M) /\ NoRepetition(c) /\ ToSet(c) \subseteq ToSet(q)
      /\ \A a \in ToSet(c), b \in M : Before(q, b, a) => Before(c, b, a)
      /\ Len(c) < pol.rerankMax => c = q
  BY <1>3, <1>5, FirstsKeep, FirstsOrder
<1> HIDE DEF c
<1>8. Faithful(mem, pol, c)
  BY <1>6, <1>7 DEF Faithful, M
<1>9. ASSUME NEW a \in ToSet(c), NEW b \in Found(mem, pol), AheadInBoth(mem, pol, b, a)
      PROVE  Before(c, b, a)
  <2>1. a \in Found(mem, pol) /\ b \in M
    BY <1>1, <1>6, <1>7
  <2>2. Before(fused, b, a)
    BY <1>1, <1>4, <1>9, <2>1 DEF AheadInBoth, fts, vec
  <2>3. QED
    BY <1>5, <1>7, <2>1, <2>2
<1>10. QED
  BY <1>2, <1>6, <1>7, <1>8, <1>9

\* The rerank puts more words of the question first and keeps the order of
\* equals.
LEMMA RerankedKeeps ==
  ASSUME NEW mem \in Memories, NEW pol \in Policies
  PROVE  /\ Faithful(mem, pol, Reranked(mem, pol))
         /\ Len(Reranked(mem, pol)) = Len(Candidates(mem, pol))
         /\ ToSet(Reranked(mem, pol)) = ToSet(Candidates(mem, pol))
         /\ \A a \in ToSet(Reranked(mem, pol)), b \in Found(mem, pol) :
              AheadInBoth(mem, pol, b, a) /\ WordsOf(mem, b) >= WordsOf(mem, a) =>
                Before(Reranked(mem, pol), b, a)
<1> DEFINE M == DOMAIN mem.rows
           c == Candidates(mem, pol)
           key == [m \in ToSet(c) |-> WordsOf(mem, m)]
           d == Descending(c, key)
<1>1. /\ c \in Seq(M) /\ NoRepetition(c) /\ ToSet(c) \subseteq Found(mem, pol)
      /\ \A a \in ToSet(c), b \in Found(mem, pol) :
           AheadInBoth(mem, pol, b, a) => Before(c, b, a)
  BY CandidatesKeep DEF Faithful
<1>2. Reranked(mem, pol) = IF pol.rerank THEN d ELSE c
  BY DEF Reranked, WordsOf
<1> HIDE DEF c
<1>3. \A m \in ToSet(c) : key[m] = WordsOf(mem, m) /\ key[m] \in Int
  <2>1. \A m \in ToSet(c) : m \in M
    BY <1>1, Member
  <2>2. \A m \in M : WordsOf(mem, m) \in Nat
    BY RecallAssumption, FS_CardinalityType DEF WordsOf
  <2>3. QED
    BY <2>1, <2>2
<1> HIDE DEF key, M
<1>4. \A i \in 1..Len(c) : key[c[i]] \in Int
  BY <1>1, <1>3, Member
<1>5. /\ d \in Seq(M) /\ Len(d) = Len(c) /\ ToSet(d) = ToSet(c)
      /\ NoRepetition(c) => NoRepetition(d)
      /\ \A i, j \in 1..Len(c) : Ahead(c, key, i, j) => Before(d, c[i], c[j])
  BY <1>1, <1>4, DescendingKeeps, Zenon
<1> HIDE DEF d
<1>6. ASSUME NEW a \in ToSet(c), NEW b \in Found(mem, pol), AheadInBoth(mem, pol, b, a),
             WordsOf(mem, b) >= WordsOf(mem, a)
      PROVE  Before(c, b, a) /\ Before(d, b, a)
  <2>1. PICK i \in 1..Len(c), j \in 1..Len(c) : i <= j /\ c[i] = b /\ c[j] = a
    BY <1>1, <1>6 DEF Before
  <2>2. a \in ToSet(c) /\ b \in ToSet(c)
    BY <1>1, <2>1, Member
  <2>3. key[b] >= key[a] /\ key[b] \in Int /\ key[a] \in Int
    BY <1>3, <1>6, <2>2
  <2>4. Ahead(c, key, i, j)
    BY <2>1, <2>3 DEF Ahead
  <2>5. Before(d, b, a)
    BY <1>5, <2>1, <2>4
  <2>6. QED
    BY <1>1, <1>6, <2>5
<1>7. QED
  BY <1>1, <1>2, <1>5, <1>6 DEF Faithful, M, c

\* What fits is shown: nothing found is left out but for what stands before it,
\* or for want of places.
LEMMA LocalKeeps ==
  ASSUME NEW mem \in Memories, NEW pol \in Policies
  PROVE  /\ Faithful(mem, pol, Local(mem, pol)) /\ Len(Local(mem, pol)) <= pol.topK
         /\ \A a \in ToSet(Local(mem, pol)), b \in Found(mem, pol) :
              AheadInBoth(mem, pol, b, a) /\ WordsOf(mem, b) >= WordsOf(mem, a) =>
                b \in ToSet(Local(mem, pol))
         /\ Len(Local(mem, pol)) < pol.topK /\ pol.topK <= pol.rerankMax =>
              ToSet(Local(mem, pol)) = Found(mem, pol)
<1> DEFINE M == DOMAIN mem.rows
           r == Reranked(mem, pol)
           l == Firsts(r, pol.topK)
<1>1. pol.topK \in Nat /\ pol.rerankMax \in Nat
  BY RecallAssumption
<1>2. /\ Faithful(mem, pol, r) /\ r \in Seq(M) /\ NoRepetition(r)
      /\ ToSet(r) \subseteq Found(mem, pol) /\ Found(mem, pol) \subseteq M
      /\ \A a \in ToSet(r), b \in Found(mem, pol) :
           AheadInBoth(mem, pol, b, a) /\ WordsOf(mem, b) >= WordsOf(mem, a) => Before(r, b, a)
      /\ Len(r) < pol.rerankMax => ToSet(r) = Found(mem, pol)
  BY RerankedKeeps, CandidatesKeep, SearchesType DEF Faithful
<1>3. Local(mem, pol) = l
  BY DEF Local
<1> HIDE DEF r, M
<1>4. /\ l \in Seq(M) /\ NoRepetition(l) /\ ToSet(l) \subseteq ToSet(r)
      /\ Len(l) <= pol.topK /\ (Len(l) < pol.topK => l = r)
      /\ \A a \in ToSet(l), b \in M : Before(r, b, a) => Before(l, b, a)
  BY <1>1, <1>2, FirstsKeep, FirstsOrder
<1> HIDE DEF l
<1>5. Faithful(mem, pol, l)
  BY <1>2, <1>4 DEF Faithful, M
<1>6. ASSUME NEW a \in ToSet(l), NEW b \in Found(mem, pol), AheadInBoth(mem, pol, b, a),
             WordsOf(mem, b) >= WordsOf(mem, a)
      PROVE  b \in ToSet(l)
  <2>1. Before(l, b, a)
    BY <1>2, <1>4, <1>6
  <2>2. QED
    BY <1>4, <2>1, Member DEF Before
<1>7. ASSUME Len(l) < pol.topK, pol.topK <= pol.rerankMax
      PROVE  ToSet(l) = Found(mem, pol)
  <2>1. l = r /\ Len(l) \in Nat
    BY <1>4, <1>7
  <2>2. QED
    BY <1>1, <1>2, <1>7, <2>1
<1>8. QED
  BY <1>3, <1>4, <1>5, <1>6, <1>7

\* A list without repetitions has as many elements as it is long.
LEMMA Elements ==
  ASSUME NEW T, NEW s \in Seq(T)
  PROVE  /\ IsFiniteSet(ToSet(s))
         /\ NoRepetition(s) => Cardinality(ToSet(s)) = Len(s)
<1> DEFINE P == 1..Len(s)
<1>1. Len(s) \in Nat /\ DOMAIN s = P
  OBVIOUS
<1>2. IsFiniteSet(P) /\ Cardinality(P) = Len(s)
  <2>1. IsFiniteSet(1..Len(s))
        /\ Cardinality(1..Len(s)) = IF 1 > Len(s) THEN 0 ELSE Len(s) - 1 + 1
    BY <1>1, FS_Interval, 1 \in Int, Len(s) \in Int
  <2>2. QED
    BY <1>1, <2>1
<1>3. s \in Surjection(P, ToSet(s))
  <2>1. s = [i \in P |-> s[i]] /\ \A i \in P : s[i] \in ToSet(s)
    BY <1>1, Member
  <2>2. \A x \in ToSet(s) : \E i \in P : s[i] = x
    BY Member
  <2> HIDE DEF P
  <2>3. QED
    BY <2>1, <2>2 DEF Surjection
<1>4. NoRepetition(s) => s \in Injection(P, ToSet(s))
  BY <1>1, <1>3 DEF NoRepetition, Injection, Surjection, IsInjective
<1> HIDE DEF P
<1>5. QED
  BY <1>2, <1>3, <1>4, FS_Surjection

\* What the service adds comes after what is local.
LEMMA RetrieveKeeps ==
  ASSUME NEW mem \in Memories, NEW pol \in Policies, pol.enabled
  PROVE  /\ Len(Retrieve(mem, pol)) <= pol.topK
         /\ ToSet(Local(mem, pol)) \subseteq ToSet(Retrieve(mem, pol))
         /\ ToSet(Retrieve(mem, pol)) \subseteq
              ToSet(Local(mem, pol)) \cup ToSet(mem.remote) \cup {"policy"}
<1> DEFINE l == Local(mem, pol)
           R == ToSet(mem.remote) \cup {"policy"}
           T == DOMAIN mem.rows \cup R
           remote == Remote(mem, pol)
           more == Among(remote, ToSet(remote) \ ToSet(l))
           all == l \o more
           shown == Firsts(all, pol.topK)
<1>1. pol.topK \in Nat
  BY RecallAssumption
<1>2. l \in Seq(DOMAIN mem.rows) /\ Len(l) <= pol.topK
  BY LocalKeeps DEF Faithful
<1>3. remote \in Seq(R)
  <2>1. mem.remote \in Seq(ToSet(mem.remote))
    BY RecallAssumption
  <2>2. Firsts(mem.remote, pol.topK) \in Seq(ToSet(mem.remote))
    BY <1>1, <2>1, FirstsKeep
  <2>3. Firsts(mem.remote, pol.topK) \in Seq(R)
    BY <2>2
  <2>4. <<"policy">> \in Seq(R) /\ <<>> \in Seq(R)
    OBVIOUS
  <2> HIDE DEF R
  <2>5. QED
    BY <2>3, <2>4 DEF Remote
<1>4. Retrieve(mem, pol) = shown
  BY DEF Retrieve
<1> HIDE DEF l, R, remote
<1>5. more \in Seq(R) /\ ToSet(more) \subseteq R
  <2>1. more \in Seq(R)
    BY <1>3, AmongKeeps
  <2> HIDE DEF more
  <2>2. \A x \in ToSet(more) : x \in R
    BY <2>1, Member
  <2>3. QED
    BY <2>1, <2>2
<1> HIDE DEF more
<1>6. l \in Seq(T) /\ more \in Seq(T)
  BY <1>2, <1>5
<1> HIDE DEF T
<1>7. /\ all \in Seq(T) /\ ToSet(all) = ToSet(l) \cup ToSet(more)
      /\ Len(all) = Len(l) + Len(more)
      /\ \A i \in 1..Len(l) : all[i] = l[i]
  BY <1>6, Joined
<1> HIDE DEF all
<1>8. /\ shown \in Seq(T) /\ Len(shown) <= pol.topK
      /\ Len(shown) < pol.topK => shown = all
      /\ \A i \in 1..Len(shown) : shown[i] = all[i] /\ i \in 1..Len(all)
  <2>1. /\ shown \in Seq(T) /\ Len(shown) <= pol.topK /\ Len(shown) <= Len(all)
        /\ Len(shown) < pol.topK => shown = all
        /\ \A i \in 1..Len(shown) : shown[i] = all[i]
    BY <1>1, <1>7, FirstsKeep
  <2>2. Len(shown) \in Nat /\ Len(all) \in Nat
    BY <1>7, <2>1
  <2>3. QED
    BY <2>1, <2>2
<1> HIDE DEF shown
<1>9. ToSet(shown) \subseteq ToSet(l) \cup R
  <2>1. ASSUME NEW x \in ToSet(shown) PROVE x \in ToSet(all)
    <3>1. PICK i \in 1..Len(shown) : shown[i] = x
      BY <1>8, Member
    <3>2. QED
      BY <1>7, <1>8, <3>1, Member
  <2>2. QED
    BY <1>5, <1>7, <2>1
<1>10. ToSet(l) \subseteq ToSet(shown)
  <2>1. CASE Len(shown) < pol.topK
    BY <1>7, <1>8, <2>1
  <2>2. CASE Len(shown) >= pol.topK
    <3>1. Len(l) <= Len(shown) /\ Len(l) \in Nat /\ Len(shown) \in Nat
      BY <1>1, <1>2, <1>8, <2>2
    <3>2. \A i \in 1..Len(l) : i \in 1..Len(shown) /\ shown[i] = l[i]
      BY <1>7, <1>8, <3>1
    <3>3. \A x \in ToSet(l) : \E i \in 1..Len(l) : l[i] = x
      BY <1>2, Member
    <3>4. QED
      BY <1>8, <3>2, <3>3, Member
  <2>3. QED
    BY <1>1, <1>8, <2>1, <2>2
<1>11. QED
  BY <1>4, <1>8, <1>9, <1>10 DEF l, R

\* A context under way shows what was retrieved of what the memory held.
RecallInv ==
  /\ policy \in Policies
  /\ pc \in {"recall", "context"} => policy.enabled
  /\ pc = "context" => memory \in Memories /\ block = Retrieve(memory, policy)

\* What is retrieved under any policy from any memory is the best.
LEMMA RecallFits == ASSUME RecallInv PROVE RecallBest
<1> SUFFICES ASSUME pc = "context" PROVE RecallBest
  BY DEF RecallBest
<1> DEFINE fts == Words(memory, policy)
           vec == VectorHits(memory)
           found == Found(memory, policy)
           l == Local(memory, policy)
           local == ToSet(block) \ (ToSet(memory.remote) \cup {"policy"})
<1>1. /\ memory \in Memories /\ policy \in Policies /\ policy.enabled
      /\ block = Retrieve(memory, policy)
  BY DEF RecallInv
<1>2. /\ policy.topK \in Nat /\ policy.rerankMax \in Nat
  BY <1>1, RecallAssumption
<1>3. /\ Len(block) <= policy.topK
      /\ ToSet(l) \subseteq ToSet(block)
      /\ ToSet(block) \subseteq ToSet(l) \cup ToSet(memory.remote) \cup {"policy"}
  BY <1>1, RetrieveKeeps
<1>4. /\ Faithful(memory, policy, l) /\ Len(l) <= policy.topK
      /\ \A a \in ToSet(l), b \in found :
           AheadInBoth(memory, policy, b, a) /\ WordsOf(memory, b) >= WordsOf(memory, a) =>
             b \in ToSet(l)
      /\ Len(l) < policy.topK /\ policy.topK <= policy.rerankMax => ToSet(l) = found
  BY <1>1, LocalKeeps
<1>5. local \subseteq ToSet(l) /\ ToSet(l) \subseteq found
  BY <1>3, <1>4 DEF Faithful
<1>6. ASSUME NEW a \in local, NEW b \in found, NoLater(fts, b, a), NoLater(vec, b, a),
             WordsOf(memory, b) >= WordsOf(memory, a)
      PROVE  Contains(block, b)
  <2>1. b \in ToSet(block)
    BY <1>3, <1>4, <1>5, <1>6 DEF AheadInBoth
  <2>2. QED
    BY <2>1 DEF ToSet, Contains
<1>7. ASSUME Cardinality(found \cap ToSet(block)) < policy.topK, policy.topK <= policy.rerankMax
      PROVE  found \subseteq ToSet(block)
  <2>1. IsFiniteSet(found)
    <3>1. IsFiniteSet(ToSet(fts)) /\ IsFiniteSet(ToSet(vec))
      BY <1>1, SearchesType, Elements
    <3>2. IsFiniteSet(ToSet(fts) \cup ToSet(vec))
      BY <3>1, FS_Union
    <3>3. found \subseteq ToSet(fts) \cup ToSet(vec)
      BY DEF Found
    <3>4. QED
      BY <3>2, <3>3, FS_Subset
  <2>2. Cardinality(ToSet(l)) = Len(l) /\ Len(l) \in Nat
    BY <1>4, Elements DEF Faithful
  <2>3. /\ Cardinality(ToSet(l)) <= Cardinality(found \cap ToSet(block))
        /\ Cardinality(found \cap ToSet(block)) \in Nat
    <3>1. IsFiniteSet(found \cap ToSet(block)) /\ ToSet(l) \subseteq found \cap ToSet(block)
      BY <1>3, <1>5, <2>1, FS_Subset
    <3>2. QED
      BY <3>1, FS_Subset, FS_CardinalityType
  <2>4. Len(l) < policy.topK
    BY <1>2, <1>7, <2>2, <2>3
  <2>5. QED
    BY <1>3, <1>4, <1>7, <2>4
<1>8. found = {m \in ToSet(fts) \cup ToSet(vec) : Qualifies(memory, m, fts)}
  BY DEF Found
<1>9. fts = IF policy.fts THEN FtsHits(memory) ELSE <<>>
  BY DEF Words
<1>10. QED
  BY <1>3, <1>5, <1>6, <1>7, <1>8, <1>9 DEF RecallBest, NoLater, WordsOf

\* A request without retrieval never builds a block; one with it builds it of
\* one state of the memory.
LEMMA RecallNextInv == ASSUME RecallInv, [Next]_vars PROVE RecallInv'
<1> USE DEF RecallInv, settings, recall, turnVars
<1>1. CASE UNCHANGED vars
  BY <1>1 DEF vars
<1>2. ASSUME NEW q \in Questions, Start(q) PROVE RecallInv'
  BY <1>2 DEF Start
<1>3. CASE BuildBlock
  <2>1. PICK mem \in Memories : memory' = mem /\ block' = Retrieved[policy][mem]
    BY <1>3 DEF BuildBlock
  <2>2. Retrieved[policy][mem] = Retrieve(mem, policy)
    BY DEF Retrieved
  <2>3. QED
    BY <1>3, <2>1, <2>2 DEF BuildBlock
<1>4. CASE EmbeddingRaises \/ RunLoop \/ LoopsExhausted \/ SendToModel
  BY <1>4 DEF EmbeddingRaises, RunLoop, LoopsExhausted, SendToModel, Ends, Forgets
<1>5. CASE CommandReplies \/ ToolFirstReply \/ ModelReplies
  BY <1>5 DEF CommandReplies, ToolFirstReply, ModelReplies, Reply, Ends, Forgets
<1>6. ASSUME NEW name \in ToolNames, CommandCalls(name) PROVE RecallInv'
  BY <1>6 DEF CommandCalls, CallTool
<1>7. CASE ModelCalls
  BY <1>7 DEF ModelCalls, CallTool
<1>8. CASE OnTheWire \/ AtTheTool
  BY <1>8 DEF OnTheWire, AtTheTool
<1>9. CASE ToolRaises \/ ToolAnswers
  BY <1>9 DEF ToolRaises, ToolAnswers, Ends, Forgets
<1>10. QED
  BY <1>1, <1>2, <1>3, <1>4, <1>5, <1>6, <1>7, <1>8, <1>9 DEF Next, Step

\* Whatever the memory holds, and whatever the limits and the policy of the
\* retrieval: a memory is left out of a context only for one that is no worse,
\* or for want of places.
THEOREM BestIsRecalled == Spec => []RecallBest
<1>1. Init => RecallInv
  BY DEF Init, RecallInv
<1>2. RecallInv /\ [Next]_vars => RecallInv'
  BY RecallNextInv
<1>3. RecallInv => RecallBest
  BY RecallFits
<1>4. QED
  BY <1>1, <1>2, <1>3, PTL DEF Spec
=============================================================================
