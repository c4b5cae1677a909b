---------------------------- MODULE ProviderRoute ----------------------------
(***************************************************************************)
(* A chat request on its way to an endpoint: the provider the session      *)
(* names, then those of its failover chain, each behind its route, its     *)
(* circuit breaker, its rate limit and a pooled HTTP client.  Request      *)
(* threads share breaker, limiter and pool; each of the three is one       *)
(* critical section, the HTTP call between them is not, and breaker and     *)
(* limiter compare with a time that was read before their lock was taken.   *)
(***************************************************************************)
EXTENDS Integers, Sequences, FiniteSets

CONSTANTS
  Threads,      \* request threads
  Providers,
  Stubs,        \* providers whose backend is not openai_compatible
  Primaries,    \* providers that sessions name, the default one included
  Chain,        \* failover_chain of each provider
  Route,        \* "ok", "unset": no api_key_env or no key, "unknown": vendor
  Threshold,    \* model_circuit_failure_threshold; 0 switches it off
  OpenSeconds,  \* model_circuit_open_seconds
  MaxCalls,     \* model_rate_max_calls_per_window; 0 switches it off
  Window,       \* model_rate_window_seconds
  PoolKey,      \* (base_url, timeout) of each provider
  NoPool,       \* the PoolKey of a provider with http_disable_connection_pool
  MaxPool,      \* _MAX_POOL_ENTRIES
  MaxNow,       \* bound: seconds that pass
  MaxRequests   \* bound: chat requests

ASSUME RouteAssumption ==
  /\ IsFiniteSet(Threads) /\ Threads # {}
  /\ Providers # {}
  /\ Stubs \subseteq Providers /\ Primaries \subseteq Providers
  /\ Chain \in [Providers -> Seq(Providers)]
  /\ Route \in [Providers -> {"ok", "unset", "unknown"}]
  /\ Threshold \in [Providers -> Nat] /\ MaxCalls \in [Providers -> Nat]
  /\ OpenSeconds \in [Providers -> Nat \ {0}]
  /\ Window \in [Providers -> Nat \ {0}]
  /\ MaxPool \in Nat \ {0}
  /\ MaxNow \in Nat /\ MaxRequests \in Nat

VARIABLES
  now,        \* time.monotonic()
  failures,   \* circuit: consecutive_failures of each provider
  openUntil,  \* circuit: open_until
  stamps,     \* rate limit: the deque of call times
  pool,       \* the keys of _POOL, least recently used first
  pc, call,   \* where each thread stands, and its locals
  sent,       \* history: of each call that passed its provider's limiter the
              \* time it had read and the time it passed
  failed,     \* history: calls that failed since the last usable answer
  opened,     \* history: how often the circuit opened since then
  shut,       \* history: until when the last opening was to last
  early,      \* history: threads whose calls were out at that opening
  pardoned,   \* history: such a call has succeeded since
  requests    \* chat requests so far (bounded by MaxRequests)

circuit == <<failures, openUntil>>
ghosts == <<failed, opened, shut, early, pardoned>>
vars == <<now, circuit, stamps, pool, pc, call, sent, ghosts, requests>>

\* What an attempt at one provider comes to.  A call fails when it raises,
\* when its answer is empty, and when the answer happens to contain one of the
\* markers; a tool call or any other text is usable.
Replies == {"usable", "failed"}
Messages == {"stub", "unset", "unknown", "refused", "throttled"}
Outcomes == Replies \cup Messages
\* Mutation: the message of the breaker no longer contains its marker.
RefusalUnmarked == {"failed", "unset", "throttled"}

\* OPENAI_SOFT_FAILURE_MARKERS: the message of an unknown vendor has none.
SoftFailures == {"failed", "unset", "refused", "throttled"}

Idle == [primary |-> CHOOSE p \in Providers : TRUE, turn |-> 1, at |-> 0,
         spent |-> {}, out |-> "none", client |-> "none", since |-> {}]

Init ==
  /\ now = 0
  /\ failures = [p \in Providers |-> 0]
  /\ openUntil = [p \in Providers |-> 0]
  /\ stamps = [p \in Providers |-> <<>>]
  /\ pool = <<>>
  /\ pc = [t \in Threads |-> "idle"]
  /\ call = [t \in Threads |-> Idle]
  /\ sent = [p \in Providers |-> <<>>]
  /\ failed = [p \in Providers |-> 0]
  /\ opened = [p \in Providers |-> 0]
  /\ shut = [p \in Providers |-> 0]
  /\ early = [p \in Providers |-> {}]
  /\ pardoned = [p \in Providers |-> FALSE]
  /\ requests = 0

-----------------------------------------------------------------------------
(* The failover sequence                                                    *)

Candidates(p) == <<p>> \o Chain[p]

\* A position counts unless its provider was seen at an earlier one.
Turns(p) ==
  {i \in 1..Len(Candidates(p)) :
     \A j \in 1..(i - 1) : Candidates(p)[j] # Candidates(p)[i]}

Current(t) == Candidates(call[t].primary)[call[t].turn]
Later(t) == {i \in Turns(call[t].primary) : i > call[t].turn}

\* The loop of _dispatch_chat_with_failover takes the outcome of an attempt.
Conclude(t, out) ==
  LET tried == [call[t] EXCEPT !.out = out, !.spent = @ \cup {Current(t)},
                               !.client = "none", !.since = {}, !.at = 0]
  IN IF out \in SoftFailures /\ Later(t) # {}
     THEN \E i \in Later(t) :
            /\ \A j \in Later(t) : i <= j
            /\ pc' = [pc EXCEPT ![t] = "route"]
            /\ call' = [call EXCEPT ![t] = [tried EXCEPT !.turn = i]]
     ELSE /\ pc' = [pc EXCEPT ![t] = "answered"]
          /\ call' = [call EXCEPT ![t] = tried]

\* A chat intent whose session resolves to provider p.
RunChat(t, p) ==
  /\ pc[t] = "idle"
  /\ requests < MaxRequests
  /\ requests' = requests + 1
  /\ pc' = [pc EXCEPT ![t] = "route"]
  /\ call' = [call EXCEPT ![t] = [Idle EXCEPT !.primary = p]]
  /\ UNCHANGED <<now, circuit, stamps, pool, sent, ghosts>>

Return(t) ==
  /\ pc[t] \in {"answered", "raised"}
  /\ pc' = [pc EXCEPT ![t] = "idle"]
  /\ call' = [call EXCEPT ![t] = Idle]
  /\ UNCHANGED <<now, circuit, stamps, pool, sent, ghosts, requests>>
-----------------------------------------------------------------------------
(* One attempt                                                              *)

Turn(t, p) == pc[t] = "route" /\ Current(t) = p

\* The backend is a stub, or there is no route or no key for the provider.
NoCall(t, p) ==
  /\ Turn(t, p)
  /\ \/ p \in Stubs /\ Conclude(t, "stub")
     \/ p \notin Stubs /\ Route[p] # "ok" /\ Conclude(t, Route[p])
  /\ UNCHANGED <<now, circuit, stamps, pool, sent, ghosts, requests>>

\* time.monotonic() is read before the lock is taken; other threads may come
\* between the two.
ReadsClock(t, l) ==
  /\ pc' = [pc EXCEPT ![t] = l]
  /\ call' = [call EXCEPT ![t].at = now]

\* A precheck has returned None.
Passes(t, l) ==
  /\ pc' = [pc EXCEPT ![t] = l]
  /\ call' = [call EXCEPT ![t].at = 0]

\* model_circuit_precheck up to its lock.
AskCircuit(t, p) ==
  /\ Turn(t, p)
  /\ p \notin Stubs /\ Route[p] = "ok"
  /\ \/ Threshold[p] = 0 /\ Passes(t, "rate")
     \/ Threshold[p] # 0 /\ ReadsClock(t, "circuit")
  /\ UNCHANGED <<now, circuit, stamps, pool, sent, ghosts, requests>>

\* Mutation: a refusal clears open_until.
RefusesOnce(t, p) ==
  /\ pc[t] = "circuit" /\ Current(t) = p
  /\ openUntil' = [openUntil EXCEPT ![p] = 0]
  /\ IF openUntil[p] > call[t].at
     THEN Conclude(t, "refused") /\ UNCHANGED early
     ELSE Passes(t, "rate") /\ early' = [early EXCEPT ![p] = @ \ {t}]
  /\ UNCHANGED <<now, failures, stamps, pool, sent, failed, opened, shut,
                 pardoned, requests>>

\* Its critical section.
CircuitPrecheck(t, p) ==
  /\ pc[t] = "circuit" /\ Current(t) = p
  /\ IF openUntil[p] > call[t].at
     THEN /\ Conclude(t, "refused")
          /\ UNCHANGED <<openUntil, early>>
     ELSE /\ Passes(t, "rate")
          /\ openUntil' = [openUntil EXCEPT ![p] = 0]
          /\ early' = [early EXCEPT ![p] = @ \ {t}]
  /\ UNCHANGED <<now, failures, stamps, pool, sent, failed, opened, shut,
                 pardoned, requests>>

\* model_rate_precheck up to its lock.
AskLimiter(t, p) ==
  /\ pc[t] = "rate" /\ Current(t) = p
  /\ \/ MaxCalls[p] = 0 /\ Passes(t, "fetch")
     \/ MaxCalls[p] # 0 /\ ReadsClock(t, "limit")
  /\ UNCHANGED <<now, circuit, stamps, pool, sent, ghosts, requests>>

\* Mutation: a stamp at the window's edge is popped as well.
ExpiredAtEdge(p, x, at) == x + Window[p] <= at

\* The deque without the stamps popped from its left end; threads need not
\* take the lock in the order of their stamps.
Expired(p, x, at) == x + Window[p] < at
Kept(p, at) ==
  {n \in 0..Len(stamps[p]) :
     /\ \A i \in 1..n : Expired(p, stamps[p][i], at)
     /\ n < Len(stamps[p]) => ~Expired(p, stamps[p][n + 1], at)}

\* Its critical section.
RatePrecheck(t, p) ==
  /\ pc[t] = "limit" /\ Current(t) = p
  /\ \E n \in Kept(p, call[t].at) :
       LET kept == SubSeq(stamps[p], n + 1, Len(stamps[p]))
           at == call[t].at
       IN IF Len(kept) >= MaxCalls[p]
          THEN /\ stamps' = [stamps EXCEPT ![p] = kept]
               /\ Conclude(t, "throttled")
               /\ UNCHANGED sent
          ELSE /\ stamps' = [stamps EXCEPT ![p] = Append(kept, at)]
               /\ sent' = [sent EXCEPT ![p] =
                             Append(@, [read |-> at, passed |-> now])]
               /\ Passes(t, "fetch")
  /\ UNCHANGED <<now, circuit, pool, ghosts, requests>>

\* Building the prompt is not inside the try: the prompt cache has no lock, and
\* an entry that another thread pops between the lookup and move_to_end raises
\* a KeyError; a malformed parameter or a prompt strategy may raise as well.
PromptRaises(t, p) ==
  /\ pc[t] = "fetch" /\ Current(t) = p
  /\ pc' = [pc EXCEPT ![t] = "raised"]
  /\ UNCHANGED <<now, circuit, stamps, pool, call, sent, ghosts, requests>>

\* Mutation: a key found in the pool keeps its place.
UsedInPlace(k) ==
  IF \E i \in 1..Len(pool) : pool[i] = k THEN pool ELSE Append(pool, k)

\* The pool after a fetch of key k, before it is cut to its limit.
Used(k) ==
  LET at == {i \in 1..Len(pool) : pool[i] = k}
      i == CHOOSE j \in at : TRUE
  IN Append(IF at = {} THEN pool
            ELSE SubSeq(pool, 1, i - 1) \o SubSeq(pool, i + 1, Len(pool)), k)

\* Mutation: the pool has no limit.
EvictsNothing(k) == {}

\* The key that has to leave the pool.
Evicted(k) == IF Len(Used(k)) > MaxPool THEN {Head(Used(k))} ELSE {}

\* get_pooled_httpx_client: the client of an evicted key is closed, whoever
\* holds it.
FetchClient(t, p) ==
  LET k == PoolKey[p]
      Holds(u) == u # t /\ call[u].client = "open"
                        /\ PoolKey[Current(u)] # NoPool
  IN
  /\ pc[t] = "fetch" /\ Current(t) = p
  /\ pc' = [pc EXCEPT ![t] = "http"]
  /\ IF k = NoPool
     THEN /\ call' = [call EXCEPT ![t].client = "open"]
          /\ UNCHANGED pool
     ELSE /\ pool' = IF Evicted(k) = {} THEN Used(k) ELSE Tail(Used(k))
          /\ call' = [u \in Threads |->
               IF u = t THEN [call[u] EXCEPT !.client = "open"]
               ELSE IF Holds(u)
               THEN [call[u] EXCEPT
                       !.since = @ \cup {k},
                       !.client = IF PoolKey[Current(u)] \in Evicted(k)
                                  THEN "closed" ELSE "open"]
               ELSE call[u]]
  /\ UNCHANGED <<now, circuit, stamps, sent, ghosts, requests>>

\* model_circuit_record: consecutive soft failures open the circuit, any
\* other answer closes it.
Opens(p, out) == out \in SoftFailures /\ failures[p] + 1 >= Threshold[p]

\* Mutation: the count of failures goes on after an opening.
CountsOn(p, out, at) ==
  IF out \in SoftFailures
  THEN /\ failures' = [failures EXCEPT ![p] = @ + 1]
       /\ openUntil' = IF Opens(p, out)
                       THEN [openUntil EXCEPT ![p] = at + OpenSeconds[p]]
                       ELSE openUntil
  ELSE /\ failures' = [failures EXCEPT ![p] = 0]
       /\ openUntil' = [openUntil EXCEPT ![p] = 0]

CircuitRecord(p, out, at) ==
  IF Opens(p, out)
  THEN /\ failures' = [failures EXCEPT ![p] = 0]
       /\ openUntil' = [openUntil EXCEPT ![p] = at + OpenSeconds[p]]
  ELSE IF out \in SoftFailures
  THEN /\ failures' = [failures EXCEPT ![p] = @ + 1]
       /\ UNCHANGED openUntil
  ELSE /\ failures' = [failures EXCEPT ![p] = 0]
       /\ openUntil' = [openUntil EXCEPT ![p] = 0]

\* Calls of other threads that passed the breaker of p and have not ended.
Out(t, p) ==
  {u \in Threads \ {t} :
     pc[u] \in {"rate", "limit", "fetch", "http", "record"} /\ Current(u) = p}

Remember(t, p, out) ==
  IF out \in SoftFailures
  THEN /\ failed' = [failed EXCEPT ![p] = @ + 1]
       /\ IF Opens(p, out)
          THEN /\ opened' = [opened EXCEPT ![p] = @ + 1]
               /\ shut' = [shut EXCEPT ![p] = call[t].at + OpenSeconds[p]]
               /\ early' = [early EXCEPT ![p] = Out(t, p)]
               /\ pardoned' = [pardoned EXCEPT ![p] = FALSE]
          ELSE UNCHANGED <<opened, shut, early, pardoned>>
  ELSE /\ failed' = [failed EXCEPT ![p] = 0]
       /\ opened' = [opened EXCEPT ![p] = 0]
       /\ pardoned' = [pardoned EXCEPT ![p] = @ \/ t \in early[p]]
       /\ UNCHANGED <<shut, early>>

\* The answer of the endpoint, streamed or not, or what became of the call;
\* model_circuit_record up to its lock.
HttpReply(t, p, out) ==
  /\ pc[t] = "http" /\ Current(t) = p
  /\ IF Threshold[p] = 0
     THEN Conclude(t, out)
     ELSE /\ pc' = [pc EXCEPT ![t] = "record"]
          /\ call' = [call EXCEPT ![t] = [@ EXCEPT !.out = out, !.at = now,
                                     !.client = "none", !.since = {}]]
  /\ UNCHANGED <<now, circuit, stamps, pool, sent, ghosts, requests>>

\* Its critical section.
RecordReply(t, p) ==
  /\ pc[t] = "record" /\ Current(t) = p
  /\ Conclude(t, call[t].out)
  /\ CircuitRecord(p, call[t].out, call[t].at)
  /\ Remember(t, p, call[t].out)
  /\ UNCHANGED <<now, stamps, pool, sent, requests>>

Tick ==
  /\ now < MaxNow
  /\ now' = now + 1
  /\ UNCHANGED <<circuit, stamps, pool, pc, call, sent, ghosts, requests>>

Attempt(t, p) ==
  \/ NoCall(t, p) \/ AskCircuit(t, p) \/ CircuitPrecheck(t, p)
  \/ AskLimiter(t, p) \/ RatePrecheck(t, p)
  \/ PromptRaises(t, p) \/ FetchClient(t, p)
  \/ (\E out \in Replies : HttpReply(t, p, out)) \/ RecordReply(t, p)

Next ==
  \/ \E t \in Threads, p \in Primaries : RunChat(t, p)
  \/ \E t \in Threads, p \in Providers : Attempt(t, p)
  \/ \E t \in Threads : Return(t)
  \/ Tick

Spec == Init /\ [][Next]_vars

-----------------------------------------------------------------------------
(* Properties                                                               *)

PoolKeys == {PoolKey[p] : p \in Providers}
Locals ==
  [primary : Providers, turn : Nat, at : 0..MaxNow, spent : SUBSET Providers,
   out : Outcomes \cup {"none"}, client : {"none", "open", "closed"},
   since : SUBSET PoolKeys]

ClockType == now \in 0..MaxNow /\ requests \in 0..MaxRequests
CircuitType ==
  /\ failures \in [Providers -> Nat]
  /\ \A p \in Providers : Threshold[p] > 0 => failures[p] < Threshold[p]
  /\ openUntil \in [Providers -> Nat]
  /\ failed \in [Providers -> Nat] /\ opened \in [Providers -> Nat]
  /\ shut \in [Providers -> Nat]
  /\ early \in [Providers -> SUBSET Threads]
  /\ pardoned \in [Providers -> BOOLEAN]
LimiterType ==
  /\ stamps \in [Providers -> Seq(0..MaxNow)]
  /\ \A p \in Providers : Len(stamps[p]) <= MaxCalls[p]
  /\ sent \in [Providers -> Seq([read : 0..MaxNow, passed : 0..MaxNow])]
PoolType == pool \in Seq(PoolKeys) /\ Len(pool) <= MaxPool
ThreadType ==
  /\ pc \in [Threads -> {"idle", "route", "circuit", "rate", "limit", "fetch",
                         "http", "record", "answered", "raised"}]
  /\ call \in [Threads -> Locals]
  /\ \A t \in Threads : call[t].turn \in Turns(call[t].primary)
ReadingType ==
  \A t \in Threads :
    call[t].at <= now /\ (pc[t] = "record" => call[t].out \in Replies)

\* Every variable keeps its type; a circuit that is still counting is short
\* of its threshold, deque and pool stay within their limits, a thread stands
\* at a position of its failover sequence, and the time it has read is past.
TypeOK ==
  /\ ClockType /\ CircuitType /\ LimiterType /\ PoolType /\ ThreadType
  /\ ReadingType

\* Since a provider's last usable answer every opening of its circuit was paid
\* for by as many failed calls as the threshold asks for, none of them counted
\* twice or forgotten: refusals by breaker and limiter never count, however
\* the calls of several threads overlap.
OpeningsArePaid ==
  \A p \in Providers : Threshold[p] > 0 =>
    opened[p] * Threshold[p] + failures[p] = failed[p]

\* While the opening recorded last lasts a call passes the breaker only if a
\* call that was already out at that opening has succeeded since: late
\* failures, times read before another thread's opening and the calls of other
\* providers let nothing through.
RefusedWhileOpen ==
  [][\A t \in Threads :
       LET p == Current(t) IN
       pc[t] # "rate" /\ pc'[t] = "rate" =>
         Threshold[p] = 0 \/ shut[p] <= now \/ pardoned[p]]_vars

\* The calls of p that read a time in the window that starts at x.
Stamped(p, x) ==
  {i \in 1..Len(sent[p]) : sent[p][i].read \in x..(x + Window[p])}
\* Those of them that pass the limiter in that window.
Within(p, x) == {i \in Stamped(p, x) : sent[p][i].passed <= x + Window[p]}

\* In any window, its end included, at most MaxCalls calls of one provider
\* read the clock and pass the limiter (a fullest window starts with a call).
\* Threads that read it in the window and take the lock after it may find that
\* a later one has emptied the deque: they exceed the limit by at most one
\* call for each other thread.
RateWindow ==
  \A p \in Providers : MaxCalls[p] > 0 =>
    \A n \in 1..Len(sent[p]) :
      LET x == sent[p][n].read
      IN /\ Cardinality(Within(p, x)) <= MaxCalls[p]
         /\ Cardinality(Stamped(p, x)) < MaxCalls[p] + Cardinality(Threads)

\* The candidates are tried in order, each once, until one is usable: a
\* failure is the answer only after every candidate has failed, whatever kind
\* of failure sent the request on.
FailsOnlyAtTheEnd ==
  \A t \in Threads : pc[t] = "answered" =>
    LET c == call[t]
        upTo(n) == {Candidates(c.primary)[i] : i \in 1..n}
    IN /\ c.spent = upTo(c.turn)
       /\ c.out \notin {"usable", "stub", "unknown"} =>
            c.spent = upTo(Len(Candidates(c.primary)))

\* A client is closed under the thread that uses it only after clients for at
\* least MaxPool other keys were fetched since that thread fetched it.
ClosedOnlyWhenOldest ==
  \A t \in Threads : call[t].client = "closed" =>
    Cardinality(call[t].since \ {PoolKey[Current(t)]}) >= MaxPool
=============================================================================
