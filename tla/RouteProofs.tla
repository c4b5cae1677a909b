----------------------------- MODULE RouteProofs -----------------------------
(***************************************************************************)
(* Breaker and limiter for any number of threads and providers: openings   *)
(* are paid for, an open circuit lets nothing through before an older call *)
(* succeeds, and what a window holds over its limit is bounded.  A failure *)
(* is the answer only after the last provider, and a client in use is      *)
(* closed only after MaxPool other keys.  With the prompt cache, for any   *)
(* keys: routing with it implements routing, a KeyError needs another      *)
(* thread, and the cache keeps its bound.                                  *)
(***************************************************************************)
EXTENDS PromptRoute, SequenceTheorems, FiniteSetTheorems,
        WellFoundedInduction, TLAPS

Under(t, p) ==
  /\ pc[t] \in {"rate", "limit", "fetch", "http", "record"}
  /\ Current(t) = p

\* Until an opening is over or pardoned, open_until is what it set, and every
\* call under way was so when it happened.
BreakerInv ==
  \A p \in Providers : Threshold[p] > 0 /\ ~pardoned[p] /\ shut[p] > now =>
    /\ openUntil[p] = shut[p]
    /\ \A t \in Threads : Under(t, p) => t \in early[p]

\* The deque is the end of the log of calls.
Popped(p) == Len(sent[p]) - Len(stamps[p])
LimitInv ==
  \A p \in Providers :
    /\ Popped(p) \in Nat
    /\ \A i \in 1..Len(stamps[p]) : stamps[p][i] = sent[p][Popped(p) + i].read

\* Threads that have read a time of the window and wait for the lock.
Waiting(p, x) ==
  {t \in Threads : /\ pc[t] = "limit" /\ Current(t) = p
                   /\ call[t].at \in x..(x + Window[p])}

\* The calls of a window are in the deque, which the limit bounds, until a
\* thread with a later time pops one of them: that thread is not waiting, and
\* from then on only those that wait already can add to the window.
Counted(p, x) ==
  \/ \A i \in Stamped(p, x) : i > Popped(p)
  \/ /\ now > x + Window[p]
     /\ Cardinality(Within(p, x)) <= MaxCalls[p]
     /\ Cardinality(Stamped(p, x)) + Cardinality(Waiting(p, x))
          < MaxCalls[p] + Cardinality(Threads)
WindowInv ==
  \A p \in Providers, x \in 0..MaxNow : MaxCalls[p] > 0 => Counted(p, x)

IInv == TypeOK /\ OpeningsArePaid /\ BreakerInv /\ LimitInv /\ WindowInv
-----------------------------------------------------------------------------
(* Helpers                                                                  *)

\* A position of the sequence holds a provider.
LEMMA CandidateType ==
  ASSUME NEW p \in Providers
  PROVE  /\ Candidates(p) \in Seq(Providers)
         /\ 1 \in Turns(p)
         /\ \A i \in Turns(p) : i \in Nat /\ Candidates(p)[i] \in Providers
<1>1. <<p>> \in Seq(Providers) /\ Chain[p] \in Seq(Providers)
  BY RouteAssumption
<1>2. /\ Candidates(p) \in Seq(Providers)
      /\ Len(Candidates(p)) = 1 + Len(Chain[p])
  BY <1>1, ConcatProperties DEF Candidates
<1>3. Len(Chain[p]) \in Nat
  BY <1>1, LenProperties
<1>4. QED
  BY <1>2, <1>3, ElementOfSeq DEF Turns

\* Locals at rest.
LEMMA IdleType == Idle \in Locals /\ Idle.turn \in Turns(Idle.primary)
<1>1. (CHOOSE p \in Providers : TRUE) \in Providers
  BY RouteAssumption
<1>2. QED
  BY <1>1, CandidateType, RouteAssumption DEF Idle, Locals

\* A thread's provider is one.
LEMMA CurrentType ==
  ASSUME ThreadType, NEW t \in Threads
  PROVE  Current(t) \in Providers
BY CandidateType DEF ThreadType, Current, Locals

\* An outcome keeps the locals typed and touches one thread only.
LEMMA ConcludeType ==
  ASSUME ThreadType, NEW t \in Threads, NEW out \in Outcomes, Conclude(t, out)
  PROVE  /\ ThreadType'
         /\ pc'[t] \in {"route", "answered"} /\ call'[t].at = 0
         /\ \A u \in Threads \ {t} : pc'[u] = pc[u] /\ call'[u] = call[u]
<1> DEFINE tried == [call[t] EXCEPT !.out = out,
                       !.spent = @ \cup {Current(t)},
                       !.client = "none", !.since = {}, !.at = 0]
<1>1. Current(t) \in Providers
  BY CurrentType
<1>2. /\ tried \in Locals /\ tried.at = 0
      /\ tried.primary = call[t].primary /\ tried.turn = call[t].turn
  <2>1. call[t] \in Locals
    BY DEF ThreadType
  <2>2. call[t].spent \cup {Current(t)} \in SUBSET Providers
    BY <1>1, <2>1 DEF Locals
  <2>3. 0 \in 0..MaxNow
    BY RouteAssumption
  <2>4. QED
    BY <2>1, <2>2, <2>3 DEF Locals
<1>3. \A i \in Later(t) :
        /\ i \in Turns(call[t].primary) /\ i \in Nat
        /\ [tried EXCEPT !.turn = i] \in Locals
        /\ [tried EXCEPT !.turn = i].primary = call[t].primary
        /\ [tried EXCEPT !.turn = i].turn = i
        /\ [tried EXCEPT !.turn = i].at = 0
  <2>1. \A i \in Later(t) : i \in Turns(call[t].primary) /\ i \in Nat
    BY CandidateType DEF Later, ThreadType, Locals
  <2>2. QED
    BY <2>1, <1>2 DEF Locals
<1>4. CASE out \in SoftFailures /\ Later(t) # {}
  <2>1. PICK i \in Later(t) :
          /\ pc' = [pc EXCEPT ![t] = "route"]
          /\ call' = [call EXCEPT ![t] = [tried EXCEPT !.turn = i]]
    BY <1>4 DEF Conclude
  <2>2. QED
    BY <2>1, <1>3 DEF ThreadType
<1>5. CASE ~(out \in SoftFailures /\ Later(t) # {})
  <2>1. /\ pc' = [pc EXCEPT ![t] = "answered"]
        /\ call' = [call EXCEPT ![t] = tried]
    BY <1>5 DEF Conclude
  <2>2. QED
    BY <2>1, <1>2 DEF ThreadType
<1>6. QED
  BY <1>4, <1>5

\* A thread goes to another place, with or without a time it has read.
LEMMA StandType ==
  ASSUME ThreadType, ClockType, NEW t \in Threads, NEW at \in {0, now},
         NEW l \in {"circuit", "rate", "limit", "fetch"},
         pc' = [pc EXCEPT ![t] = l], call' = [call EXCEPT ![t].at = at]
  PROVE  ThreadType'
<1> DEFINE c == [call[t] EXCEPT !.at = at]
<1>1. c \in Locals /\ c.turn = call[t].turn /\ c.primary = call[t].primary
  <2>1. 0 \in 0..MaxNow
    BY RouteAssumption
  <2>2. at \in 0..MaxNow /\ call[t] \in Locals
    BY <2>1 DEF ClockType, ThreadType
  <2>3. QED
    BY <2>2 DEF Locals
<1> HIDE DEF c
<1>2. call' = [call EXCEPT ![t] = c]
  BY DEF c
<1>3. QED
  BY <1>1, <1>2 DEF ThreadType

\* It keeps the rest of its locals.
LEMMA Stands ==
  ASSUME ThreadType, NEW t \in Threads, NEW l, Passes(t, l) \/ ReadsClock(t, l)
  PROVE  /\ pc' = [pc EXCEPT ![t] = l]
         /\ \A u \in Threads :
              /\ call'[u].turn = call[u].turn /\ call'[u].primary = call[u].primary
              /\ call'[u].spent = call[u].spent /\ call'[u].out = call[u].out
              /\ call'[u].client = call[u].client /\ call'[u].since = call[u].since
BY DEF Passes, ReadsClock, ThreadType, Locals

\* A reply that is still to be recorded has ended the use of the client.
LEMMA Held ==
  ASSUME ThreadType, NEW t \in Threads, NEW p \in Providers, NEW out,
         HttpReply(t, p, out), ~Conclude(t, out)
  PROVE  /\ pc' = [pc EXCEPT ![t] = "record"]
         /\ \A u \in Threads \ {t} : call'[u] = call[u]
         /\ call'[t].turn = call[t].turn /\ call'[t].primary = call[t].primary
         /\ call'[t].spent = call[t].spent /\ call'[t].out = out
         /\ call'[t].client = "none" /\ call'[t].since = {}
<1> DEFINE held == [call[t] EXCEPT !.out = out, !.at = now,
                                   !.client = "none", !.since = {}]
<1>1. pc' = [pc EXCEPT ![t] = "record"] /\ call' = [call EXCEPT ![t] = held]
  BY DEF HttpReply
<1>2. /\ held.turn = call[t].turn /\ held.primary = call[t].primary
      /\ held.spent = call[t].spent /\ held.out = out
      /\ held.client = "none" /\ held.since = {}
  BY DEF ThreadType, Locals
<1> HIDE DEF held
<1>3. QED
  BY <1>1, <1>2 DEF ThreadType

\* The invariant holds initially.
LEMMA InitInv == Init => IInv
<1> SUFFICES ASSUME Init PROVE IInv
  OBVIOUS
<1> USE RouteAssumption DEF Init
<1>1. TypeOK
  <2>1. ReadingType
    BY DEF ReadingType, Idle
  <2>2. QED
    BY <2>1, IdleType DEF TypeOK, ClockType, CircuitType, LimiterType,
                          PoolType, ThreadType
<1>2. OpeningsArePaid
  BY DEF OpeningsArePaid
<1>3. BreakerInv
  BY DEF BreakerInv
<1>4. LimitInv
  BY DEF LimitInv, Popped
<1>5. WindowInv
  BY DEF WindowInv, Counted, Stamped
<1>6. QED
  BY <1>1, <1>2, <1>3, <1>4, <1>5 DEF IInv
-----------------------------------------------------------------------------
(* The steps                                                                *)

\* What the limiter keeps of the deque is its end.
LEMMA KeptType ==
  ASSUME LimiterType, NEW p \in Providers, NEW at \in Nat,
         NEW n \in Kept(p, at)
  PROVE  LET kept == SubSeq(stamps[p], n + 1, Len(stamps[p])) IN
         /\ n \in Nat /\ n <= Len(stamps[p]) /\ Len(stamps[p]) \in Nat
         /\ kept \in Seq(0..MaxNow)
         /\ Len(kept) = Len(stamps[p]) - n
         /\ \A i \in 1..Len(kept) : kept[i] = stamps[p][n + i]
         /\ \A i \in 1..n : stamps[p][i] + Window[p] < at
<1>1. stamps[p] \in Seq(0..MaxNow) /\ Len(stamps[p]) \in Nat
  BY LenProperties DEF LimiterType
<1>2. n \in Nat /\ n <= Len(stamps[p])
  BY <1>1 DEF Kept
<1>3. \A i \in (n + 1)..Len(stamps[p]) : stamps[p][i] \in 0..MaxNow
  <2>1. \A i \in 1..Len(stamps[p]) : stamps[p][i] \in 0..MaxNow
    BY <1>1, ElementOfSeq
  <2>2. QED
    BY <2>1, <1>1, <1>2
<1>4. /\ SubSeq(stamps[p], n + 1, Len(stamps[p])) \in Seq(0..MaxNow)
      /\ Len(SubSeq(stamps[p], n + 1, Len(stamps[p]))) = Len(stamps[p]) - n
      /\ \A i \in 1..(Len(stamps[p]) - n) :
           SubSeq(stamps[p], n + 1, Len(stamps[p]))[i] = stamps[p][n + i]
  BY <1>1, <1>2, <1>3, SubSeqProperties
<1>5. \A i \in 1..n : stamps[p][i] + Window[p] < at
  BY DEF Kept, Expired
<1>6. QED
  BY <1>1, <1>2, <1>4, <1>5

\* The pool never holds more than its maximum.
LEMMA PoolNext ==
  ASSUME PoolType, NEW k \in PoolKeys
  PROVE  LET next == IF Evicted(k) = {} THEN Used(k) ELSE Tail(Used(k)) IN
         next \in Seq(PoolKeys) /\ Len(next) <= MaxPool
<1> DEFINE at == {i \in 1..Len(pool) : pool[i] = k}
           i == CHOOSE j \in at : TRUE
           rest == IF at = {} THEN pool
                   ELSE SubSeq(pool, 1, i - 1) \o SubSeq(pool, i + 1, Len(pool))
<1>1. pool \in Seq(PoolKeys) /\ Len(pool) \in Nat /\ Len(pool) <= MaxPool
  BY LenProperties DEF PoolType
<1>2. rest \in Seq(PoolKeys) /\ Len(rest) \in Nat /\ Len(rest) <= Len(pool)
  <2>1. CASE at = {}
    BY <1>1, <2>1
  <2>2. CASE at # {}
    <3>1. i \in 1..Len(pool)
      BY <2>2
    <3> HIDE DEF i
    <3>2. \A j \in 1..Len(pool) : pool[j] \in PoolKeys
      BY <1>1, ElementOfSeq
    <3>3. /\ SubSeq(pool, 1, i - 1) \in Seq(PoolKeys)
          /\ Len(SubSeq(pool, 1, i - 1)) = i - 1
      BY <1>1, <3>1, <3>2, SubSeqProperties
    <3>4. /\ SubSeq(pool, i + 1, Len(pool)) \in Seq(PoolKeys)
          /\ Len(SubSeq(pool, i + 1, Len(pool))) = Len(pool) - i
      BY <1>1, <3>1, <3>2, SubSeqProperties
    <3>5. rest = SubSeq(pool, 1, i - 1) \o SubSeq(pool, i + 1, Len(pool))
      BY <2>2
    <3> HIDE DEF rest
    <3>6. rest \in Seq(PoolKeys) /\ Len(rest) = (i - 1) + (Len(pool) - i)
      BY <3>3, <3>4, <3>5, ConcatProperties
    <3>7. QED
      BY <1>1, <3>1, <3>6
  <2>3. QED
    BY <2>1, <2>2
<1>3. Used(k) = Append(rest, k)
  BY DEF Used
<1> HIDE DEF rest
<1>4. /\ Used(k) \in Seq(PoolKeys) /\ Used(k) # <<>>
      /\ Len(Used(k)) = Len(rest) + 1
  BY <1>2, <1>3, AppendProperties
<1>5. MaxPool \in Nat
  BY RouteAssumption
<1>6. CASE Evicted(k) = {}
  BY <1>2, <1>4, <1>5, <1>6 DEF Evicted
<1>7. CASE Evicted(k) # {}
  BY <1>1, <1>2, <1>4, <1>5, <1>7, HeadTailProperties
<1>8. QED
  BY <1>6, <1>7

\* A fetch touches what a thread knows of its client, and no more.
LEMMA FetchCalls ==
  ASSUME ThreadType, NEW t \in Threads, NEW p \in Providers, FetchClient(t, p)
  PROVE  /\ call' \in [Threads -> Locals]
         /\ \A u \in Threads :
              /\ call'[u].turn = call[u].turn /\ call'[u].primary = call[u].primary
              /\ call'[u].spent = call[u].spent /\ call'[u].out = call[u].out
              /\ call'[u].at = call[u].at
<1> DEFINE Mine(u) == [call[u] EXCEPT !.client = "open"]
           Seen(u, c) == [call[u] EXCEPT !.since = @ \cup {PoolKey[p]},
                                         !.client = c]
<1>1. PoolKey[p] \in PoolKeys
  BY DEF PoolKeys
<1>2. ASSUME NEW u \in Threads
      PROVE  /\ Mine(u) \in Locals
             /\ Mine(u).turn = call[u].turn
             /\ Mine(u).primary = call[u].primary
             /\ Mine(u).spent = call[u].spent /\ Mine(u).out = call[u].out
             /\ Mine(u).at = call[u].at
  BY DEF ThreadType, Locals
<1>3. ASSUME NEW u \in Threads, NEW c \in {"open", "closed"}
      PROVE  /\ Seen(u, c) \in Locals
             /\ Seen(u, c).turn = call[u].turn
             /\ Seen(u, c).primary = call[u].primary
             /\ Seen(u, c).spent = call[u].spent /\ Seen(u, c).out = call[u].out
             /\ Seen(u, c).at = call[u].at
  <2>1. call[u] \in Locals
    BY DEF ThreadType
  <2>2. call[u].since \cup {PoolKey[p]} \in SUBSET PoolKeys
    BY <1>1, <2>1 DEF Locals
  <2>3. QED
    BY <2>1, <2>2 DEF Locals
<1> HIDE DEF Mine, Seen
<1>4. CASE PoolKey[p] = NoPool
  <2>1. call' = [call EXCEPT ![t] = Mine(t)]
    BY <1>4 DEF FetchClient, Mine
  <2>2. QED
    BY <1>2, <2>1 DEF ThreadType
<1>5. CASE PoolKey[p] # NoPool
  <2>1. /\ call' = [u \in Threads |-> call'[u]]
        /\ \A u \in Threads :
             call'[u] \in {Mine(u), Seen(u, "open"), Seen(u, "closed"), call[u]}
    BY <1>5 DEF FetchClient, Mine, Seen
  <2>2. ASSUME NEW u \in Threads
        PROVE  /\ call'[u] \in Locals
               /\ call'[u].turn = call[u].turn /\ call'[u].primary = call[u].primary
               /\ call'[u].spent = call[u].spent /\ call'[u].out = call[u].out
               /\ call'[u].at = call[u].at
    <3>1. call[u] \in Locals
      BY DEF ThreadType
    <3>2. CASE call'[u] \in {Mine(u), call[u]}
      BY <1>2, <3>1, <3>2
    <3>3. CASE call'[u] \in {Seen(u, "open"), Seen(u, "closed")}
      BY <1>3, <3>3
    <3>4. QED
      BY <2>1, <3>2, <3>3
  <2>3. QED
    BY <2>1, <2>2
<1>6. QED
  BY <1>4, <1>5

\* The clock.
LEMMA ClockStep == ASSUME TypeOK, [Next]_vars PROVE ClockType'
<1> USE DEF TypeOK, ClockType
<1>1. ASSUME NEW t \in Threads, NEW p \in Primaries, RunChat(t, p)
      PROVE  ClockType'
  BY SMTT(60), <1>1, RouteAssumption DEF RunChat
<1>2. CASE Tick
  BY <1>2, RouteAssumption DEF Tick
<1>3. CASE UNCHANGED <<now, requests>>
  BY <1>3
<1>4. ASSUME NEW t \in Threads, NEW p \in Providers, Attempt(t, p)
      PROVE  UNCHANGED <<now, requests>>
  BY <1>4 DEF Attempt, NoCall, AskCircuit, CircuitPrecheck, AskLimiter,
              RatePrecheck, PromptRaises, FetchClient, HttpReply, RecordReply
<1>5. QED
  BY <1>1, <1>2, <1>3, <1>4 DEF Next, Return, vars

\* Time does not run backwards.
LEMMA ClockRuns ==
  ASSUME TypeOK, [Next]_vars PROVE now \in Int /\ now' \in Int /\ now <= now'
<1>1. CASE UNCHANGED now
  BY <1>1 DEF TypeOK, ClockType
<1>2. CASE Tick
  BY <1>2, RouteAssumption DEF Tick, TypeOK, ClockType
<1>3. ASSUME NEW t \in Threads, NEW p \in Providers, Attempt(t, p)
      PROVE  UNCHANGED now
  BY <1>3 DEF Attempt, NoCall, AskCircuit, CircuitPrecheck, AskLimiter,
              RatePrecheck, PromptRaises, FetchClient, HttpReply, RecordReply
<1>4. QED
  BY <1>1, <1>2, <1>3 DEF Next, vars, RunChat, Return

\* The threads.
LEMMA ThreadStep == ASSUME TypeOK, [Next]_vars PROVE ThreadType'
<1> USE DEF TypeOK
<1>1. ASSUME NEW t \in Threads, NEW p \in Primaries, RunChat(t, p)
      PROVE  ThreadType'
  <2> DEFINE fresh == [Idle EXCEPT !.primary = p]
  <2>1. p \in Providers
    BY RouteAssumption
  <2>2. fresh \in Locals /\ fresh.primary = p /\ fresh.turn = 1
    BY <2>1, IdleType DEF Idle, Locals
  <2>3. fresh.turn \in Turns(fresh.primary)
    BY <2>1, <2>2, CandidateType
  <2> HIDE DEF fresh
  <2>4. call' = [call EXCEPT ![t] = fresh] /\ pc' = [pc EXCEPT ![t] = "route"]
    BY <1>1 DEF RunChat, fresh
  <2>5. QED
    BY <2>2, <2>3, <2>4 DEF ThreadType
<1>2. ASSUME NEW t \in Threads, Return(t) PROVE ThreadType'
  BY <1>2, IdleType DEF Return, ThreadType
<1>3. ASSUME NEW t \in Threads, NEW p \in Providers, NoCall(t, p)
      PROVE  ThreadType'
  <2>1. Route[p] \in {"ok", "unset", "unknown"}
    BY RouteAssumption
  <2>2. PICK out \in Outcomes : Conclude(t, out)
    BY <1>3, <2>1 DEF NoCall, Outcomes, Messages
  <2>3. QED
    BY <2>2, ConcludeType
<1>4. ASSUME NEW t \in Threads, NEW p \in Providers, CircuitPrecheck(t, p)
      PROVE  ThreadType'
  <2>1. CASE Conclude(t, "refused")
    BY <2>1, ConcludeType DEF Outcomes, Messages
  <2>2. CASE Passes(t, "rate")
    BY <2>2, StandType DEF Passes
  <2>3. QED
    BY <1>4, <2>1, <2>2 DEF CircuitPrecheck
<1>5. ASSUME NEW t \in Threads, NEW p \in Providers, RatePrecheck(t, p)
      PROVE  ThreadType'
  <2>1. CASE Conclude(t, "throttled")
    BY <2>1, ConcludeType DEF Outcomes, Messages
  <2>2. CASE Passes(t, "fetch")
    BY <2>2, StandType DEF Passes
  <2>3. QED
    BY <1>5, <2>1, <2>2 DEF RatePrecheck
<1>12. ASSUME NEW t \in Threads, NEW p \in Providers,
              AskCircuit(t, p) \/ AskLimiter(t, p)
       PROVE  ThreadType'
  BY <1>12, StandType DEF AskCircuit, AskLimiter, Passes, ReadsClock
<1>6. ASSUME NEW t \in Threads, NEW p \in Providers, PromptRaises(t, p)
      PROVE  ThreadType'
  BY <1>6 DEF PromptRaises, ThreadType
<1>7. ASSUME NEW t \in Threads, NEW p \in Providers, FetchClient(t, p)
      PROVE  ThreadType'
  <2>1. /\ call' \in [Threads -> Locals]
        /\ \A u \in Threads : /\ call'[u].turn = call[u].turn
                              /\ call'[u].primary = call[u].primary
    BY <1>7, FetchCalls
  <2>2. pc' = [pc EXCEPT ![t] = "http"]
    BY <1>7 DEF FetchClient
  <2>3. QED
    BY <2>1, <2>2 DEF ThreadType
<1>8. ASSUME NEW t \in Threads, NEW p \in Providers, NEW out \in Replies,
             HttpReply(t, p, out)
      PROVE  ThreadType'
  <2>1. CASE Conclude(t, out)
    BY <2>1, ConcludeType DEF Outcomes
  <2>2. CASE /\ pc' = [pc EXCEPT ![t] = "record"]
             /\ call' = [call EXCEPT ![t] = [@ EXCEPT !.out = out, !.at = now,
                                        !.client = "none", !.since = {}]]
    <3> DEFINE held == [call[t] EXCEPT !.out = out, !.at = now,
                                       !.client = "none", !.since = {}]
    <3>1. call[t] \in Locals /\ now \in 0..MaxNow
      BY DEF ThreadType, ClockType
    <3>2. /\ held \in Locals
          /\ held.turn = call[t].turn /\ held.primary = call[t].primary
      BY <3>1 DEF Locals, Outcomes
    <3> HIDE DEF held
    <3>3. call' = [call EXCEPT ![t] = held]
      BY <2>2 DEF held
    <3>4. QED
      BY <2>2, <3>2, <3>3 DEF ThreadType
  <2>3. QED
    BY <1>8, <2>1, <2>2 DEF HttpReply
<1>13. ASSUME NEW t \in Threads, NEW p \in Providers, RecordReply(t, p)
       PROVE  ThreadType'
  BY <1>13, ConcludeType DEF RecordReply, ReadingType, Outcomes
<1>9. CASE Tick
  BY <1>9 DEF Tick, ThreadType
<1>10. CASE UNCHANGED vars
  BY <1>10 DEF vars, ThreadType
<1>11. QED
  BY <1>1, <1>2, <1>3, <1>4, <1>5, <1>6, <1>7, <1>8, <1>9, <1>10, <1>12, <1>13
     DEF Next, Attempt

\* Who changes what a thread has read: it has passed the reply or read the
\* clock, or it is back at 0.
LEMMA ReadingStep == ASSUME TypeOK, [Next]_vars PROVE ReadingType'
<1> USE DEF TypeOK
<1>1. now \in Int /\ now' \in Int /\ now <= now' /\ now \in 0..MaxNow
  BY ClockRuns DEF ClockType
<1>2. \A u \in Threads : call[u].at \in 0..MaxNow /\ call[u].at <= now
  BY DEF ThreadType, Locals, ReadingType
<1>3. ASSUME NEW t \in Threads, NEW out \in Outcomes, Conclude(t, out)
      PROVE  ReadingType'
  <2>1. /\ pc'[t] \in {"route", "answered"} /\ call'[t].at = 0
        /\ \A u \in Threads \ {t} : pc'[u] = pc[u] /\ call'[u] = call[u]
    BY <1>3, ConcludeType
  <2>2. QED
    BY <1>1, <1>2, <2>1 DEF ReadingType
<1>4. ASSUME NEW t \in Threads, NEW l \in {"idle", "route", "circuit", "rate",
                                         "limit", "fetch", "raised"},
             pc' = [pc EXCEPT ![t] = l], call'[t].at \in {0, call[t].at, now},
             \A u \in Threads \ {t} : call'[u] = call[u]
      PROVE  ReadingType'
  <2>1. pc'[t] = l /\ \A u \in Threads \ {t} : pc'[u] = pc[u]
    BY <1>4 DEF ThreadType
  <2>2. QED
    BY <1>1, <1>2, <1>4, <2>1 DEF ReadingType
<1>5. ASSUME NEW t \in Threads, NEW p \in Primaries, RunChat(t, p)
      PROVE  ReadingType'
  BY <1>4, <1>5 DEF RunChat, Idle, ThreadType
<1>6. ASSUME NEW t \in Threads, Return(t) PROVE ReadingType'
  BY <1>4, <1>6 DEF Return, Idle, ThreadType
<1>7. ASSUME NEW t \in Threads, NEW p \in Providers, NoCall(t, p)
      PROVE  ReadingType'
  <2>1. Route[p] \in {"ok", "unset", "unknown"}
    BY RouteAssumption
  <2>2. PICK out \in Outcomes : Conclude(t, out)
    BY <1>7, <2>1 DEF NoCall, Outcomes, Messages
  <2>3. QED
    BY <2>2, <1>3
<1>8. ASSUME NEW t \in Threads, NEW p \in Providers,
             AskCircuit(t, p) \/ AskLimiter(t, p)
      PROVE  ReadingType'
  <2>1. \A l : Passes(t, l) \/ ReadsClock(t, l) =>
          /\ pc' = [pc EXCEPT ![t] = l]
          /\ call'[t].at \in {0, call[t].at, now}
          /\ \A u \in Threads \ {t} : call'[u] = call[u]
    BY DEF Passes, ReadsClock, ThreadType, Locals
  <2>2. QED
    BY <1>4, <1>8, <2>1 DEF AskCircuit, AskLimiter
<1>9. ASSUME NEW t \in Threads, NEW l \in {"rate", "fetch"}, Passes(t, l)
      PROVE  ReadingType'
  <2>1. /\ pc' = [pc EXCEPT ![t] = l] /\ call'[t].at = 0
        /\ \A u \in Threads \ {t} : call'[u] = call[u]
    BY <1>9 DEF Passes, ThreadType, Locals
  <2>2. QED
    BY <1>4, <2>1
<1>10. ASSUME NEW t \in Threads, NEW p \in Providers,
              CircuitPrecheck(t, p) \/ RatePrecheck(t, p)
       PROVE  ReadingType'
  <2>1. \/ Conclude(t, "refused") \/ Conclude(t, "throttled")
        \/ Passes(t, "rate") \/ Passes(t, "fetch")
    BY <1>10 DEF CircuitPrecheck, RatePrecheck
  <2>2. QED
    BY <1>3, <1>9, <2>1 DEF Outcomes, Messages
<1>11. ASSUME NEW t \in Threads, NEW p \in Providers, PromptRaises(t, p)
       PROVE  ReadingType'
  BY <1>4, <1>11 DEF PromptRaises
<1>12. ASSUME NEW t \in Threads, NEW p \in Providers, FetchClient(t, p)
       PROVE  ReadingType'
  <2>1. \A u \in Threads : call'[u].at = call[u].at /\ call'[u].out = call[u].out
    BY <1>12, FetchCalls
  <2>2. pc' = [pc EXCEPT ![t] = "http"]
    BY <1>12 DEF FetchClient
  <2>3. \A u \in Threads : pc'[u] = "record" => pc[u] = "record"
    BY <2>2 DEF ThreadType
  <2>4. QED
    BY <1>1, <1>2, <2>1, <2>3 DEF ReadingType
<1>13. ASSUME NEW t \in Threads, NEW p \in Providers, NEW out \in Replies,
              HttpReply(t, p, out)
       PROVE  ReadingType'
  <2>1. CASE Conclude(t, out)
    BY <2>1, <1>3 DEF Outcomes
  <2>2. CASE /\ pc' = [pc EXCEPT ![t] = "record"]
             /\ call' = [call EXCEPT ![t] = [@ EXCEPT !.out = out, !.at = now,
                                        !.client = "none", !.since = {}]]
    <3>1. /\ call'[t].at = now /\ call'[t].out = out
          /\ \A u \in Threads \ {t} : call'[u] = call[u] /\ pc'[u] = pc[u]
      BY <2>2 DEF ThreadType, Locals
    <3>2. QED
      BY <1>1, <1>2, <3>1 DEF ReadingType
  <2>3. QED
    BY <1>13, <2>1, <2>2 DEF HttpReply
<1>14. ASSUME NEW t \in Threads, NEW p \in Providers, RecordReply(t, p)
       PROVE  ReadingType'
  BY <1>14, <1>3 DEF RecordReply, ReadingType, Outcomes
<1>15. CASE Tick \/ UNCHANGED vars
  <2>1. UNCHANGED <<pc, call>>
    BY <1>15 DEF Tick, vars
  <2>2. QED
    BY <1>1, <1>2, <2>1 DEF ReadingType
<1>16. QED
  BY <1>5, <1>6, <1>7, <1>8, <1>10, <1>11, <1>12, <1>13, <1>14, <1>15
     DEF Next, Attempt

\* Who changes breaker and histories, limiter, pool.
LEMMA Frames ==
  ASSUME [Next]_vars
  PROVE  /\ \/ UNCHANGED <<circuit, ghosts>>
            \/ \E t \in Threads, p \in Providers : CircuitPrecheck(t, p)
            \/ \E t \in Threads, p \in Providers : RecordReply(t, p)
         /\ \/ UNCHANGED <<stamps, sent>>
            \/ \E t \in Threads, p \in Providers : RatePrecheck(t, p)
         /\ \/ UNCHANGED pool
            \/ \E t \in Threads, p \in Providers : FetchClient(t, p)
<1>1. ASSUME NEW t \in Threads, NEW p \in Providers,
             CircuitPrecheck(t, p) \/ RecordReply(t, p)
      PROVE  UNCHANGED <<stamps, sent, pool>>
  BY <1>1 DEF CircuitPrecheck, RecordReply
<1>2. ASSUME NEW t \in Threads, NEW p \in Providers, RatePrecheck(t, p)
      PROVE  UNCHANGED <<circuit, ghosts, pool>>
  BY <1>2 DEF RatePrecheck
<1>3. ASSUME NEW t \in Threads, NEW p \in Providers, FetchClient(t, p)
      PROVE  UNCHANGED <<circuit, ghosts, stamps, sent>>
  BY <1>3 DEF FetchClient
<1>4. ASSUME NEW t \in Threads, NEW p \in Providers,
             \/ NoCall(t, p) \/ PromptRaises(t, p)
             \/ AskCircuit(t, p) \/ AskLimiter(t, p)
             \/ \E out \in Replies : HttpReply(t, p, out)
      PROVE  UNCHANGED <<circuit, ghosts, stamps, sent, pool>>
  BY <1>4 DEF NoCall, PromptRaises, AskCircuit, AskLimiter, HttpReply
<1>5. ASSUME \/ \E t \in Threads, p \in Primaries : RunChat(t, p)
             \/ \E t \in Threads : Return(t)
             \/ Tick \/ UNCHANGED vars
      PROVE  UNCHANGED <<circuit, ghosts, stamps, sent, pool>>
  BY <1>5 DEF RunChat, Return, Tick, vars
<1>6. QED
  BY <1>1, <1>2, <1>3, <1>4, <1>5 DEF Next, Attempt

\* The breaker and its histories.
LEMMA CircuitStep == ASSUME TypeOK, [Next]_vars PROVE CircuitType'
<1> USE DEF TypeOK, circuit, ghosts
<1>1. CASE UNCHANGED <<circuit, ghosts>>
  BY <1>1 DEF CircuitType
<1>2. ASSUME NEW t \in Threads, NEW p \in Providers, CircuitPrecheck(t, p)
      PROVE  CircuitType'
  <2>1. openUntil' \in [Providers -> Nat]
    BY <1>2 DEF CircuitPrecheck, CircuitType
  <2>2. early' \in [Providers -> SUBSET Threads]
    BY <1>2 DEF CircuitPrecheck, CircuitType
  <2>3. QED
    BY <1>2, <2>1, <2>2 DEF CircuitPrecheck, CircuitType
<1>3. ASSUME NEW t \in Threads, NEW p \in Providers, NEW out, NEW at \in Nat,
             at = call[t].at, CircuitRecord(p, out, at), Remember(t, p, out)
      PROVE  CircuitType'
  <2>1. Threshold \in [Providers -> Nat] /\ OpenSeconds[p] \in Nat
    BY RouteAssumption
  <2>2. failures' \in [Providers -> Nat]
    BY <1>3 DEF CircuitRecord, CircuitType
  <2>3. \A q \in Providers : Threshold[q] > 0 => failures'[q] < Threshold[q]
    BY <1>3, <2>1 DEF CircuitRecord, Opens, CircuitType
  <2>4. openUntil' \in [Providers -> Nat] /\ shut' \in [Providers -> Nat]
    <3>1. at + OpenSeconds[p] \in Nat
      BY <2>1
    <3>2. openUntil' \in [Providers -> Nat]
      BY <1>3, <3>1 DEF CircuitRecord, CircuitType
    <3>3. shut' \in [Providers -> Nat]
      BY <1>3, <3>1 DEF Remember, CircuitType
    <3>4. QED
      BY <3>2, <3>3
  <2>5. failed' \in [Providers -> Nat] /\ opened' \in [Providers -> Nat]
    BY <1>3 DEF Remember, CircuitType
  <2>6. early' \in [Providers -> SUBSET Threads]
    <3>1. Out(t, p) \in SUBSET Threads
      BY DEF Out
    <3> QED
      BY <1>3, <3>1 DEF Remember, CircuitType
  <2>7. pardoned' \in [Providers -> BOOLEAN]
    BY <1>3 DEF Remember, CircuitType
  <2>8. QED
    BY <2>2, <2>3, <2>4, <2>5, <2>6, <2>7 DEF CircuitType
<1>4. ASSUME NEW t \in Threads, NEW p \in Providers, RecordReply(t, p)
      PROVE  CircuitType'
  <2>1. call[t].at \in Nat
    BY RouteAssumption DEF ThreadType, Locals
  <2>2. QED
    BY <1>3, <1>4, <2>1 DEF RecordReply
<1>5. QED
  BY <1>1, <1>2, <1>4, Frames

\* One opening more.
LEMMA Distribute ==
  ASSUME NEW a \in Nat, NEW b \in Nat PROVE (a + 1) * b = a * b + b
OBVIOUS

\* Openings stay paid for.
LEMMA PaidStep ==
  ASSUME TypeOK, OpeningsArePaid, [Next]_vars PROVE OpeningsArePaid'
<1> USE DEF circuit, ghosts
<1>1. CASE UNCHANGED <<circuit, ghosts>>
  BY <1>1 DEF OpeningsArePaid
<1>2. ASSUME NEW t \in Threads, NEW p \in Providers, CircuitPrecheck(t, p)
      PROVE  OpeningsArePaid'
  BY <1>2 DEF CircuitPrecheck, OpeningsArePaid
<1>3. ASSUME NEW t \in Threads, NEW p \in Providers, NEW out, NEW at,
             CircuitRecord(p, out, at), Remember(t, p, out)
      PROVE  OpeningsArePaid'
  <2> SUFFICES ASSUME NEW q \in Providers, Threshold[q] > 0
               PROVE  opened'[q] * Threshold[q] + failures'[q] = failed'[q]
    BY DEF OpeningsArePaid
  <2>1. /\ Threshold[q] \in Nat /\ failures[q] \in Nat /\ failed[q] \in Nat
        /\ opened[q] \in Nat /\ failures[q] < Threshold[q]
    BY RouteAssumption DEF TypeOK, CircuitType
  <2>2. opened[q] * Threshold[q] + failures[q] = failed[q]
    BY DEF OpeningsArePaid
  <2>3. CASE q # p
    BY <1>3, <2>2, <2>3
       DEF CircuitRecord, Remember, TypeOK, CircuitType
  <2>4. CASE q = p /\ Opens(p, out)
    <3>1. /\ opened'[q] = opened[q] + 1 /\ failures'[q] = 0
          /\ failed'[q] = failed[q] + 1 /\ failures[q] + 1 >= Threshold[q]
      BY <1>3, <2>4 DEF CircuitRecord, Remember, Opens, TypeOK, CircuitType
    <3>2. failures[q] + 1 = Threshold[q]
      BY <2>1, <3>1
    <3>3. (opened[q] + 1) * Threshold[q] = opened[q] * Threshold[q] + Threshold[q]
      BY <2>1, Distribute
    <3>4. opened[q] * Threshold[q] \in Nat
      BY <2>1
    <3>5. QED
      BY <2>1, <2>2, <3>1, <3>2, <3>3, <3>4
  <2>5. CASE q = p /\ out \in SoftFailures /\ ~Opens(p, out)
    <3>1. /\ opened'[q] = opened[q] /\ failures'[q] = failures[q] + 1
          /\ failed'[q] = failed[q] + 1
      BY <1>3, <2>5 DEF CircuitRecord, Remember, TypeOK, CircuitType
    <3>2. opened[q] * Threshold[q] \in Nat
      BY <2>1
    <3>3. QED
      BY <2>1, <2>2, <3>1, <3>2
  <2>6. CASE q = p /\ out \notin SoftFailures
    <3>1. opened'[q] = 0 /\ failures'[q] = 0 /\ failed'[q] = 0
      BY <1>3, <2>6 DEF CircuitRecord, Remember, Opens, TypeOK, CircuitType
    <3>2. QED
      BY <2>1, <3>1
  <2>7. QED
    BY <2>3, <2>4, <2>5, <2>6
<1>4. QED
  BY <1>1, <1>2, <1>3, Frames DEF RecordReply

\* The log of calls and the deque.
LEMMA LogType ==
  ASSUME LimiterType, NEW p \in Providers
  PROVE  /\ stamps[p] \in Seq(0..MaxNow) /\ Len(stamps[p]) \in Nat
         /\ sent[p] \in Seq([read : 0..MaxNow, passed : 0..MaxNow])
         /\ Len(sent[p]) \in Nat
         /\ \A i \in 1..Len(sent[p]) :
              sent[p][i].read \in 0..MaxNow /\ sent[p][i].passed \in 0..MaxNow
         /\ Len(stamps[p]) <= MaxCalls[p]
         /\ MaxCalls[p] \in Nat /\ Window[p] \in Nat
<1>1. /\ stamps[p] \in Seq(0..MaxNow)
      /\ sent[p] \in Seq([read : 0..MaxNow, passed : 0..MaxNow])
  BY DEF LimiterType
<1>2. \A i \in 1..Len(sent[p]) : sent[p][i] \in [read : 0..MaxNow, passed : 0..MaxNow]
  BY <1>1, ElementOfSeq
<1>3. Len(stamps[p]) \in Nat /\ Len(sent[p]) \in Nat
  BY <1>1, LenProperties
<1>4. MaxCalls[p] \in Nat /\ Window[p] \in Nat
  BY RouteAssumption
<1>5. QED
  BY <1>1, <1>2, <1>3, <1>4 DEF LimiterType

\* The critical section of the limiter pops the first n stamps, which have left
\* the window of the time read, and appends that time unless the deque is full.
LEMMA RateEffect ==
  ASSUME TypeOK, NEW t \in Threads, NEW p \in Providers, RatePrecheck(t, p)
  PROVE  \E n \in 0..Len(stamps[p]), grown \in {0, 1} :
           /\ \A i \in 1..n : stamps[p][i] + Window[p] < call[t].at
           /\ Len(stamps'[p]) = Len(stamps[p]) - n + grown
           /\ \A i \in 1..(Len(stamps[p]) - n) : stamps'[p][i] = stamps[p][n + i]
           /\ Len(sent'[p]) = Len(sent[p]) + grown
           /\ \A i \in 1..Len(sent[p]) : sent'[p][i] = sent[p][i]
           /\ grown = 1 =>
                /\ stamps'[p][Len(stamps[p]) - n + 1] = call[t].at
                /\ sent'[p][Len(sent[p]) + 1] = [read |-> call[t].at, passed |-> now]
           /\ \A q \in Providers \ {p} :
                stamps'[q] = stamps[q] /\ sent'[q] = sent[q]
           /\ LimiterType'
<1> DEFINE at == call[t].at
           new == [read |-> at, passed |-> now]
           ss == stamps[p]
           se == sent[p]
           K(n) == SubSeq(ss, n + 1, Len(ss))
           Effect(n, grown) ==
             /\ \A i \in 1..n : ss[i] + Window[p] < at
             /\ Len(stamps'[p]) = Len(ss) - n + grown
             /\ \A i \in 1..(Len(ss) - n) : stamps'[p][i] = ss[n + i]
             /\ Len(sent'[p]) = Len(se) + grown
             /\ \A i \in 1..Len(se) : sent'[p][i] = se[i]
             /\ grown = 1 => /\ stamps'[p][Len(ss) - n + 1] = at
                             /\ sent'[p][Len(se) + 1] = new
             /\ \A q \in Providers \ {p} :
                  stamps'[q] = stamps[q] /\ sent'[q] = sent[q]
             /\ LimiterType'
<1> SUFFICES \E n \in 0..Len(ss), grown \in {0, 1} : Effect(n, grown)
  OBVIOUS
<1>1. /\ ss \in Seq(0..MaxNow) /\ Len(ss) \in Nat /\ Len(ss) <= MaxCalls[p]
      /\ se \in Seq([read : 0..MaxNow, passed : 0..MaxNow]) /\ Len(se) \in Nat
      /\ MaxCalls[p] \in Nat
  BY LogType DEF TypeOK
<1>2. at \in 0..MaxNow /\ at \in Nat /\ new \in [read : 0..MaxNow, passed : 0..MaxNow]
  BY RouteAssumption DEF TypeOK, ThreadType, Locals, ClockType
<1>3. PICK n \in Kept(p, at) :
        IF Len(K(n)) >= MaxCalls[p]
        THEN /\ stamps' = [stamps EXCEPT ![p] = K(n)]
             /\ Conclude(t, "throttled") /\ UNCHANGED sent
        ELSE /\ stamps' = [stamps EXCEPT ![p] = Append(K(n), at)]
             /\ sent' = [sent EXCEPT ![p] = Append(@, new)]
             /\ Passes(t, "fetch")
  BY DEF RatePrecheck
<1>4. PICK kept \in Seq(0..MaxNow) :
        /\ kept = K(n)
        /\ n \in 0..Len(ss)
        /\ Len(kept) = Len(ss) - n
        /\ \A i \in 1..Len(kept) : kept[i] = ss[n + i]
        /\ \A i \in 1..n : ss[i] + Window[p] < at
  <2>1. LimiterType
    BY DEF TypeOK
  <2>2. /\ n \in Nat /\ n <= Len(ss) /\ Len(ss) \in Nat
        /\ K(n) \in Seq(0..MaxNow) /\ Len(K(n)) = Len(ss) - n
        /\ \A i \in 1..Len(K(n)) : K(n)[i] = ss[n + i]
        /\ \A i \in 1..n : ss[i] + Window[p] < at
    BY <2>1, <1>2, KeptType
  <2>3. n \in 0..Len(ss)
    BY <2>2
  <2> HIDE DEF K
  <2>4. QED
    BY <2>2, <2>3
<1> HIDE DEF at, new, K
<1>5. CASE stamps' = [stamps EXCEPT ![p] = kept] /\ UNCHANGED sent
  <2>1. stamps'[p] = kept /\ \A q \in Providers \ {p} : stamps'[q] = stamps[q]
    BY <1>5 DEF TypeOK, LimiterType
  <2>2. Len(kept) <= MaxCalls[p]
    BY <1>1, <1>4
  <2>3. LimiterType'
    BY <1>5, <2>2 DEF TypeOK, LimiterType
  <2>4. Len(kept) = Len(ss) - n + 0 /\ Len(se) = Len(se) + 0
    BY <1>1, <1>4
  <2>5. Effect(n, 0)
    BY <1>4, <1>5, <2>1, <2>3, <2>4
  <2> HIDE DEF Effect
  <2>6. QED
    BY <1>4, <2>5
<1>6. CASE /\ Len(kept) < MaxCalls[p]
           /\ stamps' = [stamps EXCEPT ![p] = Append(kept, at)]
           /\ sent' = [sent EXCEPT ![p] = Append(se, new)]
  <2>1. /\ Append(kept, at) \in Seq(0..MaxNow)
        /\ Len(Append(kept, at)) = Len(kept) + 1
        /\ \A i \in 1..Len(kept) : Append(kept, at)[i] = kept[i]
        /\ Append(kept, at)[Len(kept) + 1] = at
    BY <1>2, AppendProperties
  <2>2. /\ Append(se, new) \in Seq([read : 0..MaxNow, passed : 0..MaxNow])
        /\ Len(Append(se, new)) = Len(se) + 1
        /\ \A i \in 1..Len(se) : Append(se, new)[i] = se[i]
        /\ Append(se, new)[Len(se) + 1] = new
    BY <1>1, <1>2, AppendProperties
  <2>3. /\ stamps'[p] = Append(kept, at) /\ sent'[p] = Append(se, new)
        /\ \A q \in Providers \ {p} :
             stamps'[q] = stamps[q] /\ sent'[q] = sent[q]
    BY <1>6 DEF TypeOK, LimiterType
  <2>4. Len(kept) + 1 <= MaxCalls[p]
    BY <1>1, <1>4, <1>6
  <2>5. LimiterType'
    BY <1>6, <2>1, <2>2, <2>4 DEF TypeOK, LimiterType
  <2>6. Effect(n, 1)
    BY <1>4, <2>1, <2>2, <2>3, <2>5
  <2> HIDE DEF Effect
  <2>7. QED
    BY <1>4, <2>6
<1>7. QED
  <2>1. Len(kept) \in Nat
    BY <1>1, <1>4
  <2>2. \/ stamps' = [stamps EXCEPT ![p] = kept] /\ UNCHANGED sent
        \/ /\ Len(kept) < MaxCalls[p]
           /\ stamps' = [stamps EXCEPT ![p] = Append(kept, at)]
           /\ sent' = [sent EXCEPT ![p] = Append(se, new)]
    BY <1>1, <1>3, <1>4, <2>1
  <2> HIDE DEF Effect
  <2>3. QED
    BY <1>5, <1>6, <2>2

\* How a thread comes to wait for the limiter's lock.
LEMMA WaitingStep ==
  ASSUME TypeOK, [Next]_vars, NEW u \in Threads, pc'[u] = "limit"
  PROVE  \/ call'[u].at = now
         \/ /\ pc[u] = "limit" /\ call'[u].at = call[u].at
            /\ Current(u)' = Current(u)
            /\ ~ \E p \in Providers : RatePrecheck(u, p)
<1> USE DEF TypeOK
<1> DEFINE Stays == /\ pc[u] = "limit" /\ call'[u].at = call[u].at
                    /\ Current(u)' = Current(u)
                    /\ ~ \E p \in Providers : RatePrecheck(u, p)
<1>1. ASSUME NEW t \in Threads, pc'[t] # "limit",
             u # t => pc'[u] = pc[u] /\ call'[u].at = call[u].at
                      /\ call'[u].turn = call[u].turn
                      /\ call'[u].primary = call[u].primary
      PROVE  Stays
  <2>1. u # t /\ pc[u] = "limit"
    BY <1>1
  <2>2. Current(u)' = Current(u)
    BY <1>1, <2>1 DEF Current
  <2>3. ASSUME NEW p \in Providers, RatePrecheck(u, p) PROVE FALSE
    <3>1. Conclude(u, "throttled") \/ Passes(u, "fetch")
      BY <2>3 DEF RatePrecheck
    <3>2. pc'[u] # "limit"
      BY <3>1, ConcludeType DEF Outcomes, Messages, Passes, ThreadType
    <3>3. QED
      BY <3>2
  <2>4. QED
    BY <1>1, <2>1, <2>2, <2>3
<1>2. ASSUME NEW t \in Threads, NEW out \in Outcomes, Conclude(t, out)
      PROVE  Stays
  <2>1. /\ pc'[t] # "limit"
        /\ \A v \in Threads \ {t} : pc'[v] = pc[v] /\ call'[v] = call[v]
    BY <1>2, ConcludeType
  <2>2. QED
    BY <1>1, <2>1
<1>3. ASSUME NEW t \in Threads, NEW l, l # "limit", pc' = [pc EXCEPT ![t] = l],
             \A v \in Threads \ {t} : call'[v] = call[v]
      PROVE  Stays
  <2>1. pc'[t] # "limit" /\ \A v \in Threads \ {t} : pc'[v] = pc[v]
    BY <1>3 DEF ThreadType
  <2>2. QED
    BY <1>1, <1>3, <2>1
<1>4. ASSUME NEW t \in Threads, NEW l, l # "limit", Passes(t, l) PROVE Stays
  <2>1. /\ pc' = [pc EXCEPT ![t] = l]
        /\ \A v \in Threads \ {t} : call'[v] = call[v]
    BY <1>4 DEF Passes, ThreadType
  <2>2. QED
    BY <1>3, <1>4, <2>1
<1>5. ASSUME NEW t \in Threads, NEW l, ReadsClock(t, l)
      PROVE  Stays \/ call'[u].at = now
  <2>1. CASE u = t
    BY <1>5, <2>1 DEF ReadsClock, ThreadType, Locals
  <2>2. CASE u # t
    <3>1. /\ pc'[u] = pc[u] /\ call'[u] = call[u]
      BY <1>5, <2>2 DEF ReadsClock, ThreadType
    <3>2. CASE l = "limit"
      <4>1. ASSUME NEW p \in Providers, RatePrecheck(u, p) PROVE FALSE
        <5>1. Conclude(u, "throttled") \/ Passes(u, "fetch")
          BY <4>1 DEF RatePrecheck
        <5>2. pc'[u] # "limit"
          BY <5>1, ConcludeType DEF Outcomes, Messages, Passes, ThreadType
        <5>3. QED
          BY <5>2
      <4>2. Current(u)' = Current(u)
        BY <3>1 DEF Current
      <4>3. QED
        BY <3>1, <4>1, <4>2
    <3>3. CASE l # "limit"
      BY <1>3, <1>5, <3>3 DEF ReadsClock, ThreadType
    <3>4. QED
      BY <3>2, <3>3
  <2>3. QED
    BY <2>1, <2>2
<1>6. ASSUME NEW t \in Threads, NEW p \in Primaries, RunChat(t, p)
      PROVE  Stays
  BY <1>3, <1>6 DEF RunChat, ThreadType
<1>7. ASSUME NEW t \in Threads, Return(t) PROVE Stays
  BY <1>3, <1>7 DEF Return, ThreadType
<1>8. ASSUME NEW t \in Threads, NEW p \in Providers, NoCall(t, p)
      PROVE  Stays
  <2>1. Route[p] \in {"ok", "unset", "unknown"}
    BY RouteAssumption
  <2>2. PICK out \in Outcomes : Conclude(t, out)
    BY <1>8, <2>1 DEF NoCall, Outcomes, Messages
  <2>3. QED
    BY <2>2, <1>2
<1>9. ASSUME NEW t \in Threads, NEW p \in Providers,
             AskCircuit(t, p) \/ AskLimiter(t, p)
      PROVE  Stays \/ call'[u].at = now
  BY <1>4, <1>5, <1>9 DEF AskCircuit, AskLimiter
<1>10. ASSUME NEW t \in Threads, NEW p \in Providers,
              CircuitPrecheck(t, p) \/ RatePrecheck(t, p)
       PROVE  Stays
  <2>1. \/ Conclude(t, "refused") \/ Conclude(t, "throttled")
        \/ Passes(t, "rate") \/ Passes(t, "fetch")
    BY <1>10 DEF CircuitPrecheck, RatePrecheck
  <2>2. QED
    BY <1>2, <1>4, <2>1 DEF Outcomes, Messages
<1>11. ASSUME NEW t \in Threads, NEW p \in Providers, PromptRaises(t, p)
       PROVE  Stays
  BY <1>3, <1>11 DEF PromptRaises
<1>12. ASSUME NEW t \in Threads, NEW p \in Providers, FetchClient(t, p)
       PROVE  Stays
  <2>1. pc' = [pc EXCEPT ![t] = "http"]
    BY <1>12 DEF FetchClient
  <2>2. QED
    BY <1>1, <1>12, <2>1, FetchCalls DEF ThreadType
<1>13. ASSUME NEW t \in Threads, NEW p \in Providers, NEW out \in Replies,
              HttpReply(t, p, out)
       PROVE  Stays
  <2>1. CASE Conclude(t, out)
    BY <2>1, <1>2 DEF Outcomes
  <2>2. CASE ~Conclude(t, out)
    <3>1. /\ pc' = [pc EXCEPT ![t] = "record"]
          /\ \A v \in Threads \ {t} : call'[v] = call[v]
      BY <1>13, <2>2 DEF HttpReply, ThreadType
    <3>2. QED
      BY <1>3, <3>1
  <2>3. QED
    BY <2>1, <2>2
<1>14. ASSUME NEW t \in Threads, NEW p \in Providers, RecordReply(t, p)
       PROVE  Stays
  BY <1>14, <1>2 DEF RecordReply, ReadingType, Outcomes
<1>15. CASE Tick \/ UNCHANGED vars
  <2>1. UNCHANGED <<pc, call>>
    BY <1>15 DEF Tick, vars
  <2>2. ASSUME NEW p \in Providers, RatePrecheck(u, p) PROVE FALSE
    <3>1. Conclude(u, "throttled") \/ Passes(u, "fetch")
      BY <2>2 DEF RatePrecheck
    <3>2. pc'[u] # "limit"
      BY <3>1, ConcludeType DEF Outcomes, Messages, Passes, ThreadType
    <3>3. QED
      BY <3>2
  <2>3. QED
    BY <2>1, <2>2 DEF Current
<1>16. QED
  BY <1>6, <1>7, <1>8, <1>9, <1>10, <1>11, <1>12, <1>13, <1>14, <1>15
     DEF Next, Attempt

\* Nobody starts to wait with a time of a window that is over.
LEMMA WaitingOver ==
  ASSUME TypeOK, [Next]_vars, NEW p \in Providers, NEW x \in 0..MaxNow,
         now > x + Window[p]
  PROVE  Waiting(p, x)' \subseteq Waiting(p, x)
<1> SUFFICES ASSUME NEW u \in Waiting(p, x)' PROVE u \in Waiting(p, x)
  OBVIOUS
<1>1. /\ u \in Threads /\ pc'[u] = "limit" /\ Current(u)' = p
      /\ call'[u].at \in x..(x + Window[p])
  BY DEF Waiting
<1>2. now \in Int /\ Window[p] \in Nat /\ x \in Int
  BY ClockRuns, RouteAssumption
<1>3. call'[u].at # now
  BY <1>1, <1>2
<1>4. pc[u] = "limit" /\ call'[u].at = call[u].at /\ Current(u)' = Current(u)
  BY <1>1, <1>3, WaitingStep
<1>5. QED
  BY <1>1, <1>4 DEF Waiting

\* Calls of a window are finitely many, and so are those who wait.
LEMMA WindowFinite ==
  ASSUME TypeOK, NEW p \in Providers, NEW x \in 0..MaxNow
  PROVE  /\ IsFiniteSet(Stamped(p, x)) /\ IsFiniteSet(Within(p, x))
         /\ Within(p, x) \subseteq Stamped(p, x)
         /\ Cardinality(Within(p, x)) <= Cardinality(Stamped(p, x))
         /\ Cardinality(Stamped(p, x)) \in Nat /\ Cardinality(Within(p, x)) \in Nat
         /\ IsFiniteSet(Waiting(p, x)) /\ Cardinality(Waiting(p, x)) \in Nat
         /\ Cardinality(Waiting(p, x)) <= Cardinality(Threads)
         /\ Cardinality(Threads) \in Nat
<1>1. Len(sent[p]) \in Nat
  BY LogType DEF TypeOK
<1>2. IsFiniteSet(1..Len(sent[p])) /\ Stamped(p, x) \subseteq 1..Len(sent[p])
  <2>1. 1 \in Int /\ Len(sent[p]) \in Int
    BY <1>1
  <2>2. QED
    BY <2>1, FS_Interval DEF Stamped
<1>3. IsFiniteSet(Stamped(p, x)) /\ Within(p, x) \subseteq Stamped(p, x)
  BY <1>2, FS_Subset DEF Within
<1>4. /\ IsFiniteSet(Within(p, x))
      /\ Cardinality(Within(p, x)) <= Cardinality(Stamped(p, x))
  BY <1>3, FS_Subset
<1>5. IsFiniteSet(Threads) /\ Waiting(p, x) \subseteq Threads
  BY RouteAssumption DEF Waiting
<1>6. /\ IsFiniteSet(Waiting(p, x))
      /\ Cardinality(Waiting(p, x)) <= Cardinality(Threads)
  BY <1>5, FS_Subset
<1>7. QED
  BY <1>3, <1>4, <1>5, <1>6, FS_CardinalityType

\* Calls that are in the deque are no more than its limit.
LEMMA DequeBounds ==
  ASSUME TypeOK, LimitInv, NEW p \in Providers, NEW x \in 0..MaxNow,
         \A i \in Stamped(p, x) : i > Popped(p)
  PROVE  Cardinality(Stamped(p, x)) <= MaxCalls[p]
<1>1. /\ Len(sent[p]) \in Nat /\ Len(stamps[p]) \in Nat
      /\ Len(stamps[p]) <= MaxCalls[p] /\ MaxCalls[p] \in Nat
  BY LogType DEF TypeOK
<1>2. Popped(p) \in Nat /\ Popped(p) = Len(sent[p]) - Len(stamps[p])
  BY DEF LimitInv, Popped
<1> DEFINE end == (Popped(p) + 1)..Len(sent[p])
<1>3. Stamped(p, x) \subseteq end
  <2>1. \A i \in Stamped(p, x) : i \in 1..Len(sent[p]) /\ i > Popped(p)
    BY DEF Stamped
  <2> DEFINE last == Len(sent[p])
             first == Popped(p)
  <2>2. last \in Nat /\ first \in Nat
    BY <1>1, <1>2
  <2> HIDE DEF last, first
  <2>3. \A i \in Stamped(p, x) : i \in (first + 1)..last
    BY <2>1, <2>2 DEF last, first
  <2>4. QED
    BY <2>3 DEF last, first
<1>4. IsFiniteSet(end) /\ Cardinality(end) <= Len(stamps[p])
  <2>1. Popped(p) + 1 \in Int /\ Len(sent[p]) \in Int
    BY <1>1, <1>2
  <2>2. /\ IsFiniteSet(end)
        /\ Cardinality(end) = IF Popped(p) + 1 > Len(sent[p]) THEN 0
                              ELSE Len(sent[p]) - (Popped(p) + 1) + 1
    BY <2>1, FS_Interval
  <2>3. CASE Popped(p) + 1 > Len(sent[p])
    BY <1>1, <2>2, <2>3
  <2>4. CASE ~(Popped(p) + 1 > Len(sent[p]))
    <3>1. Cardinality(end) = Len(sent[p]) - (Popped(p) + 1) + 1
      BY <2>2, <2>4
    <3>2. Len(sent[p]) - (Popped(p) + 1) + 1 = Len(stamps[p])
      BY <1>1, <1>2
    <3>3. QED
      BY <1>1, <2>2, <3>1, <3>2
  <2>5. QED
    BY <2>3, <2>4
<1>5. /\ Cardinality(Stamped(p, x)) <= Cardinality(end)
      /\ Cardinality(Stamped(p, x)) \in Nat /\ Cardinality(end) \in Nat
  BY <1>3, <1>4, FS_Subset, FS_CardinalityType
<1>6. QED
  BY <1>1, <1>4, <1>5

\* While neither its log nor its deque changes a window gains no calls, and once
\* it is over nobody joins those who wait with a time of it.
LEMMA WindowKept ==
  ASSUME TypeOK, [Next]_vars, NEW p \in Providers, NEW x \in 0..MaxNow,
         stamps'[p] = stamps[p], sent'[p] = sent[p], Counted(p, x)
  PROVE  Counted(p, x)'
<1>1. /\ Stamped(p, x)' = Stamped(p, x) /\ Within(p, x)' = Within(p, x)
      /\ Popped(p)' = Popped(p)
  BY DEF Stamped, Within, Popped
<1>2. CASE \A i \in Stamped(p, x) : i > Popped(p)
  BY <1>1, <1>2 DEF Counted
<1>3. CASE ~(\A i \in Stamped(p, x) : i > Popped(p))
  <2>1. /\ now > x + Window[p] /\ Cardinality(Within(p, x)) <= MaxCalls[p]
        /\ Cardinality(Stamped(p, x)) + Cardinality(Waiting(p, x))
             < MaxCalls[p] + Cardinality(Threads)
    BY <1>3 DEF Counted
  <2>2. Waiting(p, x)' \subseteq Waiting(p, x)
    BY <2>1, WaitingOver
  <2>3. /\ Cardinality(Waiting(p, x)') <= Cardinality(Waiting(p, x))
        /\ Cardinality(Waiting(p, x)') \in Nat
    BY <2>2, WindowFinite, FS_Subset, FS_CardinalityType
  <2>4. now' > x + Window[p]
    <3>1. Window[p] \in Nat
      BY RouteAssumption
    <3>2. QED
      BY <2>1, <3>1, ClockRuns
  <2>5. MaxCalls[p] \in Nat
    BY RouteAssumption
  <2>6. Cardinality(Stamped(p, x)) + Cardinality(Waiting(p, x)')
          < MaxCalls[p] + Cardinality(Threads)
    BY <2>1, <2>3, <2>5, WindowFinite
  <2>7. /\ Cardinality(Within(p, x)') <= MaxCalls[p]
        /\ Cardinality(Stamped(p, x)') + Cardinality(Waiting(p, x)')
             < MaxCalls[p] + Cardinality(Threads)
    BY <1>1, <2>1, <2>6
  <2>8. QED
    BY <2>4, <2>7 DEF Counted
<1>4. QED
  BY <1>2, <1>3

\* A call that passes: its time is in the window only if its thread was one of
\* those who wait, and a window whose call is popped is over.
LEMMA WindowRate ==
  ASSUME TypeOK, LimitInv, [Next]_vars, NEW t \in Threads, NEW p \in Providers,
         RatePrecheck(t, p), NEW x \in 0..MaxNow, Counted(p, x)
  PROVE  Counted(p, x)'
<1> DEFINE at == call[t].at
           L == Len(sent[p])
           S == Stamped(p, x)
           N == Cardinality(Threads)
<1>1. PICK n \in 0..Len(stamps[p]), grown \in {0, 1} :
        /\ \A i \in 1..n : stamps[p][i] + Window[p] < at
        /\ Len(stamps'[p]) = Len(stamps[p]) - n + grown
        /\ Len(sent'[p]) = L + grown
        /\ \A i \in 1..L : sent'[p][i] = sent[p][i]
        /\ grown = 1 => sent'[p][L + 1] = [read |-> at, passed |-> now]
  BY RateEffect
<1>2. /\ L \in Nat /\ Len(stamps[p]) \in Nat /\ MaxCalls[p] \in Nat
      /\ Window[p] \in Nat
      /\ \A i \in 1..L : sent[p][i].read \in 0..MaxNow /\ sent[p][i].passed \in 0..MaxNow
  BY LogType DEF TypeOK
<1>3. at \in 0..MaxNow /\ at \in Int /\ at <= now /\ now \in Int /\ now' = now /\ x \in Int
  BY RouteAssumption
     DEF TypeOK, ThreadType, Locals, ReadingType, ClockType, RatePrecheck
<1>4. Popped(p) \in Nat /\ Popped(p) = L - Len(stamps[p]) /\ Popped(p)' = Popped(p) + n
  <2>1. /\ Popped(p) \in Nat /\ Popped(p) = Len(sent[p]) - Len(stamps[p])
        /\ Popped(p)' = Len(sent'[p]) - Len(stamps'[p])
    BY DEF LimitInv, Popped
  <2>2. QED
    BY <1>1, <1>2, <2>1
<1>5. t \in Threads \ Waiting(p, x)'
  <2>1. Conclude(t, "throttled") \/ Passes(t, "fetch")
    BY DEF RatePrecheck
  <2>2. pc'[t] # "limit"
    BY <2>1, ConcludeType DEF Outcomes, Messages, Passes, TypeOK, ThreadType
  <2>3. QED
    BY <2>2 DEF Waiting
<1>6. /\ S \in SUBSET (1..L) /\ IsFiniteSet(S) /\ Cardinality(S) \in Nat
      /\ IsFiniteSet(Waiting(p, x)) /\ Cardinality(Waiting(p, x)) \in Nat
      /\ Cardinality(Within(p, x)) <= Cardinality(S) /\ Cardinality(Within(p, x)) \in Nat
      /\ N \in Nat /\ IsFiniteSet(Threads)
  BY WindowFinite, RouteAssumption DEF Stamped
<1> DEFINE Inside(i) == sent'[p][i].read \in x..(x + Window[p])
<1>14. Stamped(p, x)' = {i \in 1..(L + grown) : Inside(i)} /\ S = {i \in 1..L : Inside(i)}
  BY <1>1 DEF Stamped
<1>15. grown = 1 => (Inside(L + 1) <=> at \in x..(x + Window[p]))
  BY <1>1
<1>17. L \in Nat
  BY <1>2
<1> HIDE DEF Inside, L
<1>16. 1..(L + grown) = IF grown = 0 THEN 1..L ELSE (1..L) \cup {L + 1}
  <2>1. CASE grown = 0
    BY <1>17, <2>1
  <2>2. CASE grown = 1
    BY <1>17, <2>2
  <2>3. QED
    BY <2>1, <2>2
<1>7. grown = 0 \/ at \notin x..(x + Window[p]) => Stamped(p, x)' = S
  BY <1>14, <1>15, <1>16
<1>8. grown = 1 /\ at \in x..(x + Window[p]) => Stamped(p, x)' = S \cup {L + 1}
  BY <1>14, <1>15, <1>16
<1>9. now > x + Window[p] => Within(p, x)' = Within(p, x)
  <2> SUFFICES ASSUME now > x + Window[p] PROVE Within(p, x)' = Within(p, x)
    OBVIOUS
  <2>1. CASE Stamped(p, x)' = S
    BY <1>1, <1>6, <2>1 DEF Within
  <2>2. CASE grown = 1 /\ Stamped(p, x)' = S \cup {L + 1}
    <3>1. sent'[p][L + 1].passed = now
      BY <1>1, <2>2
    <3>2. ~(now <= x + Window[p])
      BY <1>2, <1>3
    <3>3. QED
      BY <1>1, <1>6, <2>2, <3>1, <3>2 DEF Within
  <2>3. QED
    BY <1>7, <1>8, <2>1, <2>2
<1> HIDE DEF at, S, N
<1>10. CASE \A i \in S : i > Popped(p) + n
  <2>1. \A i \in Stamped(p, x)' : i > Popped(p) + n
    <3>1. L + 1 > Popped(p) + n
      BY <1>1, <1>2, <1>4
    <3>2. QED
      BY <1>7, <1>8, <1>10, <3>1
  <2>2. QED
    BY <1>4, <2>1 DEF Counted
<1>11. CASE /\ \A i \in S : i > Popped(p)
            /\ ~(\A i \in S : i > Popped(p) + n)
  <2>1. PICK i \in S : ~(i > Popped(p) + n)
    BY <1>11
  <2>2. i \in 1..L /\ i - Popped(p) \in 1..n
    <3>1. i \in 1..L /\ i > Popped(p) /\ ~(i > Popped(p) + n)
      BY <1>6, <1>11, <2>1
    <3>2. QED
      <4>1. n \in Nat /\ Popped(p) \in Nat /\ i \in Nat
        BY <1>2, <1>4, <3>1
      <4>2. i - Popped(p) > 0 /\ i - Popped(p) <= n /\ i - Popped(p) \in Int
        BY <3>1, <4>1
      <4>3. QED
        BY <3>1, <4>1, <4>2
  <2>3. stamps[p][i - Popped(p)] = sent[p][i].read
    <3>1. i - Popped(p) \in 1..Len(stamps[p])
      BY <1>1, <1>2, <2>2
    <3>2. Popped(p) + (i - Popped(p)) = i
      BY <1>4, <2>2
    <3>3. QED
      BY <3>1, <3>2 DEF LimitInv
  <2>4. PICK r \in Int : r = sent[p][i].read
    BY <1>2, <2>2
  <2>12. r + Window[p] < at
    <3>1. stamps[p][i - Popped(p)] + Window[p] < at
      BY <1>1, <2>2 DEF at
    <3>2. QED
      BY <2>3, <2>4, <3>1
  <2>13. x <= r
    <3>1. sent[p][i].read \in x..(x + Window[p])
      BY <2>1 DEF S, Stamped
    <3>2. QED
      BY <1>2, <1>3, <2>4, <3>1
  <2>5. x + Window[p] < at /\ now > x + Window[p]
    <3>1. Window[p] \in Int
      BY <1>2
    <3>2. QED
      BY <1>3, <2>12, <2>13, <3>1
  <2>6. Stamped(p, x)' = S
    BY <1>2, <1>3, <1>7, <2>5
  <2>7. Cardinality(S) <= MaxCalls[p]
    BY <1>11, DequeBounds DEF S
  <2>8. Waiting(p, x)' \subseteq Threads \ {t}
    BY <1>5 DEF Waiting
  <2>9. Cardinality(Waiting(p, x)') <= N - 1 /\ Cardinality(Waiting(p, x)') \in Nat
    <3>1. IsFiniteSet(Threads \ {t}) /\ Cardinality(Threads \ {t}) = N - 1
      BY <1>6, FS_RemoveElement DEF N
    <3>2. QED
      BY <3>1, <2>8, FS_Subset, FS_CardinalityType
  <2>10. /\ Cardinality(Within(p, x)) <= MaxCalls[p]
         /\ Cardinality(S) + Cardinality(Waiting(p, x)') < MaxCalls[p] + N
    BY <1>2, <1>6, <2>7, <2>9
  <2>11. QED
    BY <1>3, <1>9, <2>5, <2>6, <2>10 DEF Counted, N
<1>12. CASE ~(\A i \in S : i > Popped(p))
  <2>1. /\ now > x + Window[p] /\ Cardinality(Within(p, x)) <= MaxCalls[p]
        /\ Cardinality(S) + Cardinality(Waiting(p, x)) < MaxCalls[p] + N
    BY <1>12 DEF Counted, S, N
  <2>2. Waiting(p, x)' \subseteq Waiting(p, x) \ {t}
    BY <1>5, <2>1, WaitingOver
  <2>3. Cardinality(Stamped(p, x)') + Cardinality(Waiting(p, x)')
          <= Cardinality(S) + Cardinality(Waiting(p, x))
    <3>1. CASE grown = 1 /\ at \in x..(x + Window[p])
      <4>1. t \in Waiting(p, x)
        BY <3>1 DEF Waiting, RatePrecheck, at
      <4>2. /\ Cardinality(Waiting(p, x) \ {t}) = Cardinality(Waiting(p, x)) - 1
            /\ IsFiniteSet(Waiting(p, x) \ {t})
        BY <1>6, <4>1, FS_RemoveElement
      <4>3. /\ Cardinality(Waiting(p, x)') <= Cardinality(Waiting(p, x)) - 1
            /\ Cardinality(Waiting(p, x)') \in Nat
        BY <2>2, <4>2, FS_Subset, FS_CardinalityType
      <4>4. L + 1 \notin S
        BY <1>2, <1>6
      <4>5. Cardinality(Stamped(p, x)') = Cardinality(S) + 1
        BY <1>6, <1>8, <3>1, <4>4, FS_AddElement
      <4>6. QED
        BY <1>6, <4>3, <4>5
    <3>2. CASE ~(grown = 1 /\ at \in x..(x + Window[p]))
      <4>1. Stamped(p, x)' = S
        BY <1>7, <3>2
      <4>2. /\ Cardinality(Waiting(p, x)') <= Cardinality(Waiting(p, x))
            /\ Cardinality(Waiting(p, x)') \in Nat
        BY <1>6, <2>2, FS_Subset, FS_CardinalityType
      <4>3. QED
        BY <1>6, <4>1, <4>2
    <3>3. QED
      BY <3>1, <3>2
  <2>4. /\ Cardinality(Stamped(p, x)') \in Nat
        /\ Cardinality(Waiting(p, x)') \in Nat
    <3>1. IsFiniteSet(S \cup {L + 1})
      BY <1>6, FS_AddElement
    <3>2. IsFiniteSet(Stamped(p, x)') /\ IsFiniteSet(Waiting(p, x)')
      BY <1>6, <1>7, <1>8, <2>2, <3>1, FS_Subset
    <3>3. QED
      BY <3>2, FS_CardinalityType
  <2>5. Cardinality(Stamped(p, x)') + Cardinality(Waiting(p, x)')
          < MaxCalls[p] + N
    BY <1>2, <1>6, <2>1, <2>3, <2>4
  <2>6. QED
    BY <1>3, <1>9, <2>1, <2>5 DEF Counted, N
<1>13. QED
  BY <1>10, <1>11, <1>12

\* The limiter: its log and deque, and what a window holds.
LEMMA LimiterStep ==
  ASSUME TypeOK, LimitInv, WindowInv, [Next]_vars
  PROVE  LimiterType' /\ LimitInv' /\ WindowInv'
<1>1. CASE UNCHANGED <<stamps, sent>>
  <2>1. LimiterType' /\ LimitInv'
    BY <1>1 DEF TypeOK, LimiterType, LimitInv, Popped
  <2>2. WindowInv'
    BY <1>1, WindowKept DEF WindowInv
  <2>3. QED
    BY <2>1, <2>2
<1>2. ASSUME NEW t \in Threads, NEW p \in Providers, RatePrecheck(t, p)
      PROVE  LimiterType' /\ LimitInv' /\ WindowInv'
  <2>1. /\ LimiterType'
        /\ \A q \in Providers \ {p} : stamps'[q] = stamps[q] /\ sent'[q] = sent[q]
    BY <1>2, RateEffect
  <2>2. WindowInv'
    <3> SUFFICES ASSUME NEW q \in Providers, NEW x \in 0..MaxNow, MaxCalls[q] > 0
                 PROVE  Counted(q, x)'
      BY DEF WindowInv
    <3>1. Counted(q, x)
      BY DEF WindowInv
    <3>2. CASE q = p
      BY <1>2, <3>1, <3>2, WindowRate
    <3>3. CASE q # p
      BY <2>1, <3>1, <3>3, WindowKept
    <3>4. QED
      BY <3>2, <3>3
  <2>3. ASSUME NEW q \in Providers, q # p
        PROVE  /\ Popped(q)' \in Nat
               /\ \A i \in 1..Len(stamps'[q]) :
                    stamps'[q][i] = sent'[q][Popped(q)' + i].read
    <3>1. Popped(q)' = Popped(q)
      BY <2>1, <2>3 DEF Popped
    <3>2. QED
      BY <2>1, <2>3, <3>1 DEF LimitInv
  <2>4. /\ Popped(p)' \in Nat
        /\ \A i \in 1..Len(stamps'[p]) :
             stamps'[p][i] = sent'[p][Popped(p)' + i].read
    <3> DEFINE D == Len(stamps[p])
               L == Len(sent[p])
    <3>1. PICK n \in 0..D, grown \in {0, 1} :
            /\ Len(stamps'[p]) = D - n + grown
            /\ \A i \in 1..(D - n) : stamps'[p][i] = stamps[p][n + i]
            /\ Len(sent'[p]) = L + grown
            /\ \A i \in 1..L : sent'[p][i] = sent[p][i]
            /\ grown = 1 =>
                 /\ stamps'[p][D - n + 1] = call[t].at
                 /\ sent'[p][L + 1] = [read |-> call[t].at, passed |-> now]
      BY <1>2, RateEffect
    <3>2. D \in Nat /\ L \in Nat
      BY LogType DEF TypeOK
    <3> HIDE DEF D, L
    <3>3. /\ Popped(p) \in Nat /\ Popped(p) = L - D /\ Popped(p)' = Popped(p) + n
          /\ \A i \in 1..D : stamps[p][i] = sent[p][Popped(p) + i].read
      <4>1. /\ Popped(p) \in Nat /\ Popped(p) = L - D
            /\ Popped(p)' = Len(sent'[p]) - Len(stamps'[p])
            /\ \A i \in 1..D : stamps[p][i] = sent[p][Popped(p) + i].read
        BY DEF LimitInv, Popped, D, L
      <4>2. QED
        BY <3>1, <3>2, <4>1
    <3>4. ASSUME NEW i \in 1..(D - n)
          PROVE  stamps'[p][i] = sent'[p][Popped(p)' + i].read
      <4>1. n + i \in 1..D /\ Popped(p) + (n + i) \in 1..L
        BY <3>1, <3>2, <3>3
      <4>2. Popped(p) + (n + i) = Popped(p)' + i
        BY <3>3
      <4>3. QED
        BY <3>1, <3>3, <4>1, <4>2
    <3>5. ASSUME grown = 1
          PROVE  stamps'[p][D - n + 1] = sent'[p][Popped(p)' + (D - n + 1)].read
      <4>1. Popped(p)' + (D - n + 1) = L + 1
        BY <3>1, <3>2, <3>3
      <4>2. QED
        BY <3>1, <3>5, <4>1
    <3>6. \A i \in 1..Len(stamps'[p]) : i \in 1..(D - n) \/ (grown = 1 /\ i = D - n + 1)
      BY <3>1, <3>2
    <3>7. QED
      BY <3>3, <3>4, <3>5, <3>6
  <2>5. LimitInv'
    BY <2>3, <2>4 DEF LimitInv
  <2>6. QED
    BY <2>1, <2>2, <2>5
<1>3. QED
  BY <1>1, <1>2, Frames

\* The pool.
LEMMA PoolStep == ASSUME TypeOK, [Next]_vars PROVE PoolType'
<1>1. CASE UNCHANGED pool
  BY <1>1 DEF TypeOK, PoolType
<1>2. ASSUME NEW t \in Threads, NEW p \in Providers, FetchClient(t, p)
      PROVE  PoolType'
  <2>1. PoolKey[p] \in PoolKeys /\ PoolType
    BY DEF PoolKeys, TypeOK
  <2> DEFINE next(k) == IF Evicted(k) = {} THEN Used(k) ELSE Tail(Used(k))
  <2>2. next(PoolKey[p]) \in Seq(PoolKeys) /\ Len(next(PoolKey[p])) <= MaxPool
    BY <2>1, PoolNext
  <2>3. pool' = pool \/ pool' = next(PoolKey[p])
    BY <1>2 DEF FetchClient
  <2> HIDE DEF next
  <2>4. QED
    BY <2>1, <2>2, <2>3 DEF PoolType
<1>3. QED
  BY <1>1, <1>2, Frames

\* An outcome ends the call of its thread and leaves the others' alone.
LEMMA ConcludeEnds ==
  ASSUME TypeOK, NEW t \in Threads, NEW out \in Outcomes, Conclude(t, out),
         NEW u \in Threads, NEW q \in Providers, Under(u, q)'
  PROVE  u # t /\ Under(u, q)
<1>1. /\ pc'[t] \in {"route", "answered"}
      /\ \A v \in Threads \ {t} : pc'[v] = pc[v] /\ call'[v] = call[v]
  BY ConcludeType DEF TypeOK
<1>2. QED
  BY <1>1 DEF Under, Current

\* Where a call to the endpoint is under way.
Labels == {"rate", "limit", "fetch", "http", "record"}

\* With a breaker a call gets under way it and nowhere else.
LEMMA UnderStep ==
  ASSUME TypeOK, [Next]_vars,
         ~ \E t \in Threads, p \in Providers : CircuitPrecheck(t, p),
         NEW u \in Threads, NEW q \in Providers, Threshold[q] > 0, Under(u, q)'
  PROVE  Under(u, q)
<1> USE DEF TypeOK
<1>10. ASSUME NEW t \in Threads, NEW l, l \notin Labels, pc' = [pc EXCEPT ![t] = l],
              \A v \in Threads \ {t} : call'[v] = call[v]
       PROVE  Under(u, q)
  BY <1>10 DEF Under, Current, ThreadType, Labels
<1>11. ASSUME NEW t \in Threads, NEW p \in Providers, Under(t, p),
              \E l : Passes(t, l) \/ ReadsClock(t, l)
       PROVE  Under(u, q)
  <2>1. /\ \A v \in Threads \ {t} : call'[v] = call[v] /\ pc'[v] = pc[v]
        /\ call'[t].turn = call[t].turn /\ call'[t].primary = call[t].primary
    BY <1>11 DEF Passes, ReadsClock, ThreadType, Locals
  <2>2. QED
    BY <1>11, <2>1 DEF Under, Current
<1>1. ASSUME NEW t \in Threads, NEW p \in Primaries, RunChat(t, p)
      PROVE  Under(u, q)
  <2>1. pc' = [pc EXCEPT ![t] = "route"] /\ (u # t => call'[u] = call[u])
    BY <1>1 DEF RunChat, ThreadType
  <2>2. QED
    BY <2>1 DEF Under, Current, ThreadType
<1>2. ASSUME NEW t \in Threads, Return(t) PROVE Under(u, q)
  <2>1. pc' = [pc EXCEPT ![t] = "idle"] /\ (u # t => call'[u] = call[u])
    BY <1>2 DEF Return, ThreadType
  <2>2. QED
    BY <2>1 DEF Under, Current, ThreadType
<1>3. ASSUME NEW t \in Threads, NEW p \in Providers, NoCall(t, p)
      PROVE  Under(u, q)
  <2>1. Route[p] \in {"ok", "unset", "unknown"}
    BY RouteAssumption
  <2>2. PICK out \in Outcomes : Conclude(t, out)
    BY <1>3, <2>1 DEF NoCall, Outcomes, Messages
  <2>3. QED
    BY <2>2, ConcludeEnds
<1>4. ASSUME NEW t \in Threads, NEW p \in Providers, RatePrecheck(t, p)
      PROVE  Under(u, q)
  <2>1. CASE Conclude(t, "throttled")
    BY <2>1, ConcludeEnds DEF Outcomes, Messages
  <2>2. CASE Passes(t, "fetch")
    BY <1>4, <2>2, <1>11 DEF RatePrecheck, Under
  <2>3. QED
    BY <1>4, <2>1, <2>2 DEF RatePrecheck
<1>12. ASSUME NEW t \in Threads, NEW p \in Providers, AskLimiter(t, p)
       PROVE  Under(u, q)
  BY <1>11, <1>12 DEF AskLimiter, Under
<1>13. ASSUME NEW t \in Threads, NEW p \in Providers, AskCircuit(t, p)
       PROVE  Under(u, q)
  <2>1. /\ \A v \in Threads \ {t} : call'[v] = call[v] /\ pc'[v] = pc[v]
        /\ call'[t].turn = call[t].turn /\ call'[t].primary = call[t].primary
    BY <1>13 DEF AskCircuit, Passes, ReadsClock, ThreadType, Locals
  <2>2. CASE Threshold[p] = 0
    <3>1. Current(t)' = p
      BY <1>13, <2>1 DEF AskCircuit, Turn, Current
    <3>2. u # t
      BY <2>2, <3>1 DEF Under
    <3>3. QED
      BY <2>1, <3>2 DEF Under, Current
  <2>3. CASE ReadsClock(t, "circuit")
    BY <1>10, <2>1, <2>3 DEF ReadsClock, Labels
  <2>4. QED
    BY <1>13, <2>2, <2>3 DEF AskCircuit
<1>5. ASSUME NEW t \in Threads, NEW p \in Providers, PromptRaises(t, p)
      PROVE  Under(u, q)
  BY <1>5 DEF PromptRaises, Under, Current, ThreadType
<1>6. ASSUME NEW t \in Threads, NEW p \in Providers, FetchClient(t, p)
      PROVE  Under(u, q)
  <2>1. call'[u].turn = call[u].turn /\ call'[u].primary = call[u].primary
    BY <1>6, FetchCalls
  <2>2. pc' = [pc EXCEPT ![t] = "http"] /\ pc[t] = "fetch"
    BY <1>6 DEF FetchClient
  <2>3. QED
    BY <2>1, <2>2 DEF Under, Current, ThreadType
<1>7. ASSUME NEW t \in Threads, NEW p \in Providers, NEW out \in Replies,
             HttpReply(t, p, out)
      PROVE  Under(u, q)
  <2>1. CASE Conclude(t, out)
    BY <2>1, ConcludeEnds DEF Outcomes
  <2>2. CASE ~Conclude(t, out)
    <3>1. /\ Under(t, p)
          /\ \A v \in Threads \ {t} : call'[v] = call[v] /\ pc'[v] = pc[v]
          /\ call'[t].turn = call[t].turn /\ call'[t].primary = call[t].primary
      <4>1. Under(t, p)
        BY <1>7 DEF HttpReply, Under
      <4> DEFINE held == [call[t] EXCEPT !.out = out, !.at = now,
                                         !.client = "none", !.since = {}]
      <4>2. pc' = [pc EXCEPT ![t] = "record"] /\ call' = [call EXCEPT ![t] = held]
        BY <1>7, <2>2 DEF HttpReply
      <4>3. held.turn = call[t].turn /\ held.primary = call[t].primary
        BY DEF ThreadType, Locals
      <4> HIDE DEF held
      <4>4. QED
        BY <4>1, <4>2, <4>3 DEF ThreadType
    <3>2. QED
      BY <3>1 DEF Under, Current
  <2>3. QED
    BY <2>1, <2>2
<1>14. ASSUME NEW t \in Threads, NEW p \in Providers, RecordReply(t, p)
       PROVE  Under(u, q)
  BY <1>14, ConcludeEnds DEF RecordReply, ReadingType, Outcomes
<1>8. CASE Tick \/ UNCHANGED vars
  BY <1>8 DEF Tick, vars, Under, Current
<1>9. QED
  BY <1>1, <1>2, <1>3, <1>4, <1>5, <1>6, <1>7, <1>8, <1>12, <1>13, <1>14
     DEF Next, Attempt

\* A thread comes to the limiter through its provider's breaker, if that has one.
LEMMA ToRate ==
  ASSUME TypeOK, [Next]_vars, NEW t \in Threads, pc[t] # "rate", pc'[t] = "rate"
  PROVE  LET p == Current(t) IN
         Threshold[p] = 0 \/ (CircuitPrecheck(t, p) /\ ~(openUntil[p] > call[t].at))
<1> USE DEF TypeOK
<1> DEFINE Goal == LET p == Current(t) IN
             Threshold[p] = 0 \/ (CircuitPrecheck(t, p) /\ ~(openUntil[p] > call[t].at))
<1>1. ASSUME NEW u \in Threads, NEW l, pc' = [pc EXCEPT ![u] = l]
      PROVE  l = "rate" /\ u = t
  BY <1>1 DEF ThreadType
<1>2. ASSUME NEW u \in Threads, NEW out \in Outcomes, Conclude(u, out)
      PROVE  FALSE
  BY <1>2, ConcludeType
<1>3. ASSUME NEW u \in Threads, NEW p \in Providers, Attempt(u, p)
      PROVE  Goal
  <2>1. CASE NoCall(u, p)
    <3>1. Route[p] \in {"ok", "unset", "unknown"}
      BY RouteAssumption
    <3>2. PICK out \in Outcomes : Conclude(u, out)
      BY <2>1, <3>1 DEF NoCall, Outcomes, Messages
    <3>3. QED
      BY <3>2, <1>2
  <2>2. CASE AskCircuit(u, p)
    BY <1>1, <2>2 DEF AskCircuit, Turn, Passes, ReadsClock
  <2>3. CASE CircuitPrecheck(u, p)
    <3>1. Current(u) = p /\ ~(openUntil[p] > call[u].at) /\ Passes(u, "rate")
      BY <1>2, <2>3 DEF CircuitPrecheck, Outcomes, Messages
    <3>2. u = t
      BY <1>1, <3>1 DEF Passes
    <3>3. QED
      BY <2>3, <3>1, <3>2
  <2>4. CASE AskLimiter(u, p)
    BY <1>1, <2>4 DEF AskLimiter, Passes, ReadsClock
  <2>5. CASE RatePrecheck(u, p)
    <3>1. Conclude(u, "throttled") \/ Passes(u, "fetch")
      BY <2>5 DEF RatePrecheck
    <3>2. QED
      BY <1>1, <1>2, <3>1 DEF Passes, Outcomes, Messages
  <2>6. CASE PromptRaises(u, p)
    BY <1>1, <2>6 DEF PromptRaises
  <2>7. CASE FetchClient(u, p)
    BY <1>1, <2>7 DEF FetchClient
  <2>8. CASE \E out \in Replies : HttpReply(u, p, out)
    BY <1>1, <1>2, <2>8 DEF HttpReply, Outcomes
  <2>9. CASE RecordReply(u, p)
    BY <1>2, <2>9 DEF RecordReply, ReadingType, Outcomes
  <2>10. QED
    BY <1>3, <2>1, <2>2, <2>3, <2>4, <2>5, <2>6, <2>7, <2>8, <2>9 DEF Attempt
<1>4. ASSUME NEW u \in Threads, NEW p \in Primaries, RunChat(u, p)
      PROVE  FALSE
  BY <1>1, <1>4 DEF RunChat
<1>5. ASSUME NEW u \in Threads, Return(u) PROVE FALSE
  BY <1>1, <1>5 DEF Return
<1>6. CASE Tick \/ UNCHANGED vars
  BY <1>6 DEF Tick, vars
<1>7. QED
  BY <1>3, <1>4, <1>5, <1>6 DEF Next

\* A breaker that was opened stays open, and only older calls are out.
LEMMA BreakerStep == ASSUME TypeOK, BreakerInv, [Next]_vars PROVE BreakerInv'
<1> USE DEF circuit, ghosts
<1>1. now \in Int /\ now' \in Int /\ now <= now'
  BY ClockRuns
<1>2. ASSUME UNCHANGED <<circuit, ghosts>>,
             ~ \E t \in Threads, p \in Providers : CircuitPrecheck(t, p)
      PROVE  BreakerInv'
  <2>1. \A p \in Providers : shut[p] \in Int
    BY DEF TypeOK, CircuitType
  <2>2. ASSUME NEW p \in Providers, Threshold[p] > 0, ~pardoned[p], shut[p] > now'
        PROVE  /\ openUntil[p] = shut[p]
               /\ \A t \in Threads : Under(t, p) => t \in early[p]
    BY <1>1, <2>1, <2>2 DEF BreakerInv
  <2>3. \A p \in Providers, t \in Threads :
          Threshold[p] > 0 /\ Under(t, p)' => Under(t, p)
    BY <1>2, UnderStep
  <2>4. QED
    BY <1>2, <2>2, <2>3 DEF BreakerInv
<1>3. ASSUME NEW t \in Threads, NEW p \in Providers, CircuitPrecheck(t, p)
      PROVE  BreakerInv'
  <2>1. /\ now' = now /\ shut' = shut /\ pardoned' = pardoned
        /\ Current(t) = p /\ pc[t] = "circuit"
    BY <1>3 DEF CircuitPrecheck
  <2>2. CASE Conclude(t, "refused") /\ UNCHANGED <<openUntil, early>>
    <3>1. \A u \in Threads, q \in Providers : Under(u, q)' => Under(u, q)
      BY <2>2, ConcludeEnds DEF Outcomes, Messages
    <3>2. QED
      BY <2>1, <2>2, <3>1 DEF BreakerInv
  <2>3. CASE /\ ~(openUntil[p] > call[t].at)
             /\ openUntil' = [openUntil EXCEPT ![p] = 0]
             /\ early' = [early EXCEPT ![p] = @ \ {t}]
             /\ Passes(t, "rate")
    <3>1. Threshold[p] = 0 \/ pardoned[p] \/ ~(shut[p] > now)
      <4>1. /\ call[t].at \in Int /\ call[t].at <= now /\ openUntil[p] \in Nat
            /\ Threshold[p] \in Nat
        BY RouteAssumption DEF TypeOK, ThreadType, Locals, ReadingType, CircuitType
      <4>2. ~(openUntil[p] > now)
        BY <1>1, <2>3, <4>1
      <4>3. QED
        BY <4>1, <4>2 DEF BreakerInv
    <3>5. /\ pc' = [pc EXCEPT ![t] = "rate"]
          /\ \A u \in Threads : call'[u].turn = call[u].turn
                                /\ call'[u].primary = call[u].primary
      BY <2>3 DEF Passes, TypeOK, ThreadType, Locals
    <3>2. ASSUME NEW q \in Providers, q # p
          PROVE  /\ openUntil'[q] = openUntil[q] /\ early'[q] = early[q]
                 /\ \A u \in Threads : Under(u, q)' => Under(u, q)
      <4>1. openUntil'[q] = openUntil[q] /\ early'[q] = early[q]
        BY <2>3, <3>2 DEF TypeOK, CircuitType
      <4>2. ASSUME NEW u \in Threads, Under(u, q)' PROVE Under(u, q)
        BY <2>1, <3>2, <3>5, <4>2 DEF Under, Current, TypeOK, ThreadType
      <4>3. QED
        BY <4>1, <4>2
    <3>3. ASSUME NEW q \in Providers, Threshold[q] > 0, ~pardoned[q], shut[q] > now
          PROVE  /\ openUntil'[q] = shut[q]
                 /\ \A u \in Threads : Under(u, q)' => u \in early'[q]
      <4>1. q # p
        BY <3>1, <3>3
      <4>2. /\ openUntil[q] = shut[q]
            /\ \A u \in Threads : Under(u, q) => u \in early[q]
        BY <3>3 DEF BreakerInv
      <4>3. QED
        BY <3>2, <4>1, <4>2
    <3>4. QED
      BY <2>1, <3>3 DEF BreakerInv
  <2>4. QED
    BY <1>3, <2>2, <2>3 DEF CircuitPrecheck
<1>4. ASSUME NEW t \in Threads, NEW p \in Providers, NEW out \in Replies,
             NEW at, at = call[t].at, Under(t, p),
             CircuitRecord(p, out, at), Remember(t, p, out), Conclude(t, out),
             UNCHANGED now
      PROVE  BreakerInv'
  <2>1. \A u \in Threads, q \in Providers :
          Under(u, q)' => u # t /\ Under(u, q)
    BY <1>4, ConcludeEnds DEF Outcomes
  <2>2. ASSUME NEW q \in Providers, q # p
        PROVE  /\ openUntil'[q] = openUntil[q] /\ shut'[q] = shut[q]
               /\ early'[q] = early[q] /\ pardoned'[q] = pardoned[q]
    BY <1>4, <2>2 DEF CircuitRecord, Remember, TypeOK, CircuitType
  <2>3. Threshold[p] > 0 /\ ~pardoned'[p] /\ shut'[p] > now =>
          /\ openUntil'[p] = shut'[p]
          /\ \A u \in Threads : Under(u, p)' => u \in early'[p]
    <3>1. CASE Opens(p, out)
      <4>1. /\ openUntil'[p] = at + OpenSeconds[p]
            /\ shut'[p] = at + OpenSeconds[p]
            /\ early'[p] = Out(t, p)
        BY <1>4, <3>1 DEF CircuitRecord, Remember, Opens, TypeOK, CircuitType
      <4>2. \A u \in Threads : Under(u, p)' => u \in Out(t, p)
        BY <2>1 DEF Out, Under
      <4>3. QED
        BY <4>1, <4>2
    <3>2. CASE out \in SoftFailures /\ ~Opens(p, out)
      <4>1. UNCHANGED <<openUntil, shut, early, pardoned>>
        BY <1>4, <3>2 DEF CircuitRecord, Remember
      <4>2. QED
        BY <2>1, <4>1 DEF BreakerInv
    <3>3. CASE out \notin SoftFailures
      <4>1. /\ shut' = shut
            /\ pardoned'[p] = (pardoned[p] \/ t \in early[p])
        BY <1>4, <3>3 DEF Remember, TypeOK, CircuitType
      <4>2. QED
        BY <1>4, <4>1 DEF BreakerInv
    <3>4. QED
      BY <3>1, <3>2, <3>3
  <2>4. QED
    BY <1>4, <2>1, <2>2, <2>3 DEF BreakerInv
<1>5. ASSUME NEW t \in Threads, NEW p \in Providers, RecordReply(t, p)
      PROVE  BreakerInv'
  <2>1. /\ call[t].out \in Replies /\ Under(t, p)
        /\ CircuitRecord(p, call[t].out, call[t].at)
        /\ Remember(t, p, call[t].out) /\ Conclude(t, call[t].out)
        /\ UNCHANGED now
    BY <1>5 DEF RecordReply, Under, TypeOK, ReadingType
  <2>2. QED
    BY <1>4, <2>1
<1>6. QED
  BY <1>2, <1>3, <1>5, Frames
-----------------------------------------------------------------------------
(* The theorems                                                             *)

\* The invariant is inductive.
LEMMA Invariance == Spec => []IInv
<1>1. IInv /\ [Next]_vars => IInv'
  <2> SUFFICES ASSUME IInv, [Next]_vars PROVE IInv'
    OBVIOUS
  <2>1. TypeOK'
    BY ClockStep, CircuitStep, LimiterStep, PoolStep, ThreadStep, ReadingStep
       DEF IInv, TypeOK
  <2>2. OpeningsArePaid' /\ BreakerInv'
    BY PaidStep, BreakerStep DEF IInv
  <2>3. LimitInv' /\ WindowInv'
    BY LimiterStep DEF IInv
  <2>4. QED
    BY <2>1, <2>2, <2>3 DEF IInv
<1>2. QED
  BY InitInv, <1>1, PTL DEF Spec

\* Whatever the providers, their chains and limits, however many threads: the
\* variables of ProviderRoute keep their types, a deque never outgrows its
\* limit nor the pool its maximum.
THEOREM RouteTypeCorrect == Spec => []TypeOK
<1>1. IInv => TypeOK
  BY DEF IInv
<1>2. QED
  BY Invariance, <1>1, PTL

\* model_circuit_record counts each failed call once between two usable
\* answers, and an opening costs exactly the threshold.
THEOREM OpeningsPaid == Spec => []OpeningsArePaid
<1>1. IInv => OpeningsArePaid
  BY DEF IInv
<1>2. QED
  BY Invariance, <1>1, PTL

\* model_rate_precheck lets at most its limit of calls that read the clock in a
\* window pass in that window, and at most one more of them later for each other
\* thread.
THEOREM RateHolds == Spec => []RateWindow
<1>1. IInv => RateWindow
  <2> SUFFICES ASSUME IInv, NEW p \in Providers, MaxCalls[p] > 0,
                      NEW n \in 1..Len(sent[p]), NEW x, x = sent[p][n].read
               PROVE  /\ Cardinality(Within(p, x)) <= MaxCalls[p]
                      /\ Cardinality(Stamped(p, x))
                           < MaxCalls[p] + Cardinality(Threads)
    BY DEF RateWindow
  <2>1. x \in 0..MaxNow /\ MaxCalls[p] \in Nat
    BY LogType DEF IInv, TypeOK
  <2>2. /\ Cardinality(Within(p, x)) <= Cardinality(Stamped(p, x))
        /\ Cardinality(Stamped(p, x)) \in Nat /\ Cardinality(Within(p, x)) \in Nat
        /\ Cardinality(Waiting(p, x)) \in Nat /\ Cardinality(Threads) \in Nat
    BY <2>1, WindowFinite DEF IInv
  <2>3. Cardinality(Threads) > 0
    BY <2>2, RouteAssumption, FS_EmptySet
  <2>4. CASE \A i \in Stamped(p, x) : i > Popped(p)
    <3>1. Cardinality(Stamped(p, x)) <= MaxCalls[p]
      BY <2>1, <2>4, DequeBounds DEF IInv
    <3>2. QED
      BY <2>1, <2>2, <2>3, <3>1
  <2>5. CASE /\ Cardinality(Within(p, x)) <= MaxCalls[p]
             /\ Cardinality(Stamped(p, x)) + Cardinality(Waiting(p, x))
                  < MaxCalls[p] + Cardinality(Threads)
    BY <2>1, <2>2, <2>5
  <2>6. QED
    BY <2>1, <2>4, <2>5 DEF IInv, WindowInv, Counted
<1>2. QED
  BY Invariance, <1>1, PTL

\* model_circuit_precheck lets no call pass while an opening lasts, unless a
\* call that was out when the circuit opened has succeeded since.
THEOREM BreakerHolds == Spec => RefusedWhileOpen
<1> DEFINE Holds == \A t \in Threads :
             LET p == Current(t) IN
             pc[t] # "rate" /\ pc'[t] = "rate" =>
               Threshold[p] = 0 \/ shut[p] <= now \/ pardoned[p]
<1>1. IInv /\ [Next]_vars => Holds
  <2> SUFFICES ASSUME IInv, [Next]_vars, NEW t \in Threads, NEW p, p = Current(t),
                      pc[t] # "rate", pc'[t] = "rate", Threshold[p] # 0, ~pardoned[p]
               PROVE  shut[p] <= now
    OBVIOUS
  <2>1. /\ p \in Providers /\ shut[p] \in Int /\ openUntil[p] \in Int
        /\ now \in Int /\ Threshold[p] > 0
        /\ call[t].at \in Int /\ call[t].at <= now
    <3>1. p \in Providers
      BY CurrentType DEF IInv, TypeOK
    <3>2. Threshold[p] \in Nat
      BY <3>1, RouteAssumption
    <3>3. QED
      BY <3>1, <3>2 DEF IInv, TypeOK, CircuitType, ClockType, ThreadType, Locals,
                        ReadingType
  <2>2. ~(openUntil[p] > call[t].at)
    BY <2>1, ToRate DEF IInv
  <2>3. ~(openUntil[p] > now)
    BY <2>1, <2>2
  <2>4. QED
    BY <2>1, <2>3 DEF IInv, BreakerInv
<1>2. QED
  BY Invariance, <1>1, PTL DEF Spec, RefusedWhileOpen
-----------------------------------------------------------------------------
(* The failover sequence                                                    *)

Busy == {"route", "circuit", "rate", "limit", "fetch", "http", "record"}

\* The providers at the first n places of the sequence of p.
Upto(p, n) == {Candidates(p)[i] : i \in 1..n}

\* A request under way has spent what comes before its place.
SpentInv ==
  \A t \in Threads : pc[t] \in Busy =>
    call[t].spent = Upto(call[t].primary, call[t].turn - 1)

\* A set of places has a first one.
LEMMA Least ==
  ASSUME NEW T \in SUBSET Nat, T # {}
  PROVE  \E i \in T : \A j \in T : i <= j
<1> DEFINE R == OpToRel(<, Nat)
<1>1. IsWellFoundedOn(R, Nat)
  BY NatLessThanWellFounded
<1>2. \A a, b \in Nat : a < b => <<a, b>> \in R
  BY DEF OpToRel
<1> HIDE DEF R
<1>3. PICK i \in T : \A j \in T : ~(<<j, i>> \in R)
  BY <1>1, WFMin
<1>4. ASSUME NEW j \in T PROVE i <= j
  <2>1. i \in Nat /\ j \in Nat
    OBVIOUS
  <2>2. ~(j < i)
    BY <1>2, <1>3, <2>1
  <2>3. QED
    BY <2>1, <2>2
<1>5. QED
  BY <1>4

\* What is skipped was seen before.
LEMMA NothingNew ==
  ASSUME NEW p \in Providers, NEW n \in 1..Len(Candidates(p)),
         NEW m \in n..Len(Candidates(p)),
         \A i \in Turns(p) : ~(n < i /\ i <= m)
  PROVE  Upto(p, m) = Upto(p, n)
<1> DEFINE C == Candidates(p)
           D == {j \in 1..m : C[j] \notin Upto(p, n)}
<1>0. Len(C) \in Nat
  BY CandidateType
<1>1. ASSUME D # {} PROVE FALSE
  <2>0. D \in SUBSET Nat
    BY <1>0
  <2>1. PICK d \in D : \A e \in D : d <= e
    <3> HIDE DEF D
    <3>1. QED
      BY <1>1, <2>0, Least
  <2>2. d \in 1..m /\ C[d] \notin Upto(p, n)
    OBVIOUS
  <2>3. d > n
    BY <2>2 DEF Upto
  <2>4. d \in 1..Len(C) /\ d \notin Turns(p)
    BY <1>0, <2>2, <2>3
  <2>5. PICK j \in 1..(d - 1) : C[j] = C[d]
    BY <2>4 DEF Turns
  <2>6. j \in D /\ ~(d <= j)
    BY <2>2, <2>5
  <2>7. QED
    BY <2>1, <2>6
<1>2. Upto(p, m) \subseteq Upto(p, n)
  BY <1>1 DEF Upto
<1>3. Upto(p, n) \subseteq Upto(p, m)
  BY <1>0 DEF Upto
<1>4. QED
  BY <1>2, <1>3

\* The outcome of an attempt: on to the next place, or an answer.
LEMMA ConcludeSpent ==
  ASSUME ThreadType, SpentInv, NEW t \in Threads, pc[t] \in Busy,
         NEW out \in Outcomes, Conclude(t, out)
  PROVE  LET d == call'[t] IN
         \/ pc'[t] = "route" /\ d.spent = Upto(d.primary, d.turn - 1)
         \/ /\ pc'[t] = "answered" /\ d.out = out /\ d.spent = Upto(d.primary, d.turn)
            /\ out \in SoftFailures => d.spent = Upto(d.primary, Len(Candidates(d.primary)))
<1> DEFINE c == call[t]
           p == c.primary
           tried == [c EXCEPT !.out = out, !.spent = @ \cup {Current(t)},
                              !.client = "none", !.since = {}, !.at = 0]
<1>1. /\ c \in Locals /\ p \in Providers /\ c.turn \in Turns(p)
      /\ Candidates(p) \in Seq(Providers) /\ Len(Candidates(p)) \in Nat
      /\ c.turn \in 1..Len(Candidates(p))
  <2>1. c \in Locals /\ p \in Providers /\ c.turn \in Turns(p)
    BY DEF ThreadType, Locals
  <2>2. Candidates(p) \in Seq(Providers) /\ Len(Candidates(p)) \in Nat
    BY <2>1, CandidateType
  <2>3. c.turn \in 1..Len(Candidates(p))
    BY <2>1 DEF Turns
  <2>4. QED
    BY <2>1, <2>2, <2>3
<1>2. /\ tried \in Locals /\ tried.primary = p /\ tried.turn = c.turn /\ tried.out = out
      /\ tried.spent = c.spent \cup {Current(t)}
  <2>1. Current(t) \in Providers
    BY CurrentType
  <2>2. c.spent \cup {Current(t)} \in SUBSET Providers
    BY <1>1, <2>1 DEF Locals
  <2>3. 0 \in 0..MaxNow
    BY RouteAssumption
  <2>4. QED
    BY <1>1, <2>2, <2>3 DEF Locals
<1>3. tried.spent = Upto(p, c.turn)
  <2>1. c.spent = Upto(p, c.turn - 1) /\ Current(t) = Candidates(p)[c.turn]
    BY DEF SpentInv, Current
  <2>2. Upto(p, c.turn) = Upto(p, c.turn - 1) \cup {Candidates(p)[c.turn]}
    BY <1>1 DEF Upto
  <2>3. QED
    BY <1>2, <2>1, <2>2
<1> HIDE DEF tried
<1>4. CASE out \in SoftFailures /\ Later(t) # {}
  <2>1. PICK i \in Later(t) :
          /\ \A j \in Later(t) : i <= j
          /\ pc' = [pc EXCEPT ![t] = "route"]
          /\ call' = [call EXCEPT ![t] = [tried EXCEPT !.turn = i]]
    BY <1>4 DEF Conclude, tried
  <2>2. i \in Turns(p) /\ i \in 1..Len(Candidates(p)) /\ i > c.turn
    BY DEF Later, Turns
  <2>3. /\ pc'[t] = "route" /\ call'[t].turn = i /\ call'[t].primary = p
        /\ call'[t].spent = tried.spent
    BY <1>2, <2>1 DEF ThreadType, Locals
  <2>4. \A j \in Turns(p) : ~(c.turn < j /\ j <= i - 1)
    BY <1>1, <2>1, <2>2 DEF Later, Turns
  <2>5. i - 1 \in c.turn..Len(Candidates(p))
    BY <1>1, <2>2
  <2>6. Upto(p, i - 1) = Upto(p, c.turn)
    BY <1>1, <2>4, <2>5, NothingNew
  <2>7. QED
    BY <1>3, <2>3, <2>6
<1>5. CASE ~(out \in SoftFailures /\ Later(t) # {})
  <2>1. pc' = [pc EXCEPT ![t] = "answered"] /\ call' = [call EXCEPT ![t] = tried]
    BY <1>5 DEF Conclude, tried
  <2>2. pc'[t] = "answered" /\ call'[t] = tried
    BY <2>1 DEF ThreadType
  <2>3. ASSUME out \in SoftFailures PROVE Upto(p, Len(Candidates(p))) = Upto(p, c.turn)
    <3>1. \A j \in Turns(p) : ~(c.turn < j /\ j <= Len(Candidates(p)))
      BY <1>1, <1>5, <2>3 DEF Later, Turns
    <3>2. Len(Candidates(p)) \in c.turn..Len(Candidates(p))
      BY <1>1
    <3>3. QED
      BY <1>1, <3>1, <3>2, NothingNew
  <2>4. QED
    BY <1>2, <1>3, <2>2, <2>3
<1>6. QED
  BY <1>4, <1>5

\* Every step is an attempt's end, a start, a return, or leaves the place of
\* every thread and what it spent.
LEMMA AttemptEnds ==
  ASSUME ThreadType, ReadingType, [Next]_vars
  PROVE  \/ \E t \in Threads, out \in Outcomes : pc[t] \in Busy /\ Conclude(t, out)
         \/ \E t \in Threads, p \in Primaries : RunChat(t, p)
         \/ \A t \in Threads :
              /\ pc'[t] = pc[t] \/ pc'[t] = "idle" \/ pc'[t] = "raised"
                 \/ (pc[t] \in Busy /\ pc'[t] \in Busy)
              /\ \/ pc'[t] = "idle"
                 \/ /\ call'[t].turn = call[t].turn /\ call'[t].primary = call[t].primary
                    /\ call'[t].spent = call[t].spent
                    /\ call'[t].out = call[t].out \/ pc'[t] = "record"
<1> USE DEF ThreadType, Busy
<1> DEFINE Moves == \A t \in Threads :
              /\ pc'[t] = pc[t] \/ pc'[t] = "idle" \/ pc'[t] = "raised"
                 \/ (pc[t] \in Busy /\ pc'[t] \in Busy)
              /\ \/ pc'[t] = "idle"
                 \/ /\ call'[t].turn = call[t].turn /\ call'[t].primary = call[t].primary
                    /\ call'[t].spent = call[t].spent
                    /\ call'[t].out = call[t].out \/ pc'[t] = "record"
           Ends == \E t \in Threads, out \in Outcomes : pc[t] \in Busy /\ Conclude(t, out)
<1>1. ASSUME NEW t \in Threads, NEW p \in Providers, NoCall(t, p)
      PROVE  Ends
  <2>1. Route[p] \in {"ok", "unset", "unknown"}
    BY RouteAssumption
  <2>2. QED
    BY <1>1, <2>1 DEF NoCall, Turn, Outcomes, Messages
<1>2. ASSUME NEW t \in Threads, pc[t] \in Busy, NEW l \in Busy,
             Passes(t, l) \/ ReadsClock(t, l)
      PROVE  Moves
  BY <1>2, Stands
<1>3. ASSUME NEW t \in Threads, NEW p \in Providers,
             \/ AskCircuit(t, p) \/ CircuitPrecheck(t, p)
             \/ AskLimiter(t, p) \/ RatePrecheck(t, p)
      PROVE  Ends \/ Moves
  <2>1. /\ pc[t] \in Busy
        /\ \/ Conclude(t, "refused") \/ Conclude(t, "throttled")
           \/ \E l \in Busy : Passes(t, l) \/ ReadsClock(t, l)
    BY <1>3 DEF AskCircuit, CircuitPrecheck, AskLimiter, RatePrecheck, Turn
  <2>2. "refused" \in Outcomes /\ "throttled" \in Outcomes
    BY DEF Outcomes, Messages
  <2> HIDE DEF Moves
  <2>3. QED
    BY <1>2, <2>1, <2>2
<1>4. ASSUME NEW t \in Threads, NEW p \in Providers, PromptRaises(t, p)
      PROVE  Moves
  BY <1>4 DEF PromptRaises
<1>5. ASSUME NEW t \in Threads, NEW p \in Providers, FetchClient(t, p)
      PROVE  Moves
  <2>1. /\ pc[t] \in Busy /\ pc' = [pc EXCEPT ![t] = "http"]
        /\ \A u \in Threads :
             /\ call'[u].turn = call[u].turn /\ call'[u].primary = call[u].primary
             /\ call'[u].spent = call[u].spent /\ call'[u].out = call[u].out
    BY <1>5, FetchCalls DEF FetchClient
  <2>2. QED
    BY <2>1
<1>6. ASSUME NEW t \in Threads, NEW p \in Providers, NEW out \in Replies,
             HttpReply(t, p, out)
      PROVE  Ends \/ Moves
  <2>1. pc[t] \in Busy /\ out \in Outcomes
    BY <1>6 DEF HttpReply, Outcomes
  <2>2. CASE ~Conclude(t, out)
    BY <1>6, <2>1, <2>2, Held
  <2>3. QED
    BY <2>1, <2>2
<1>7. ASSUME NEW t \in Threads, NEW p \in Providers, RecordReply(t, p)
      PROVE  Ends
  BY <1>7 DEF RecordReply, ReadingType, Outcomes
<1>8. ASSUME NEW t \in Threads, Return(t)
      PROVE  Moves
  BY <1>8 DEF Return
<1>9. Tick \/ UNCHANGED vars => Moves
  BY DEF Tick, vars
<1>10. QED
  BY <1>1, <1>3, <1>4, <1>5, <1>6, <1>7, <1>8, <1>9 DEF Next, Attempt

\* What a place says of the locals.
SpentAt(l, c) ==
  /\ l \in Busy => c.spent = Upto(c.primary, c.turn - 1)
  /\ l = "answered" =>
       /\ c.spent = Upto(c.primary, c.turn)
       /\ c.out \notin {"usable", "stub", "unknown"} =>
            c.spent = Upto(c.primary, Len(Candidates(c.primary)))

\* Place and spending stay together.
LEMMA SpentStep ==
  ASSUME TypeOK, SpentInv, FailsOnlyAtTheEnd, [Next]_vars
  PROVE  SpentInv' /\ FailsOnlyAtTheEnd'
<1>1. \A t \in Threads : SpentAt(pc[t], call[t])
  BY DEF SpentAt, SpentInv, FailsOnlyAtTheEnd, Upto
<1>2. ASSUME \A t \in Threads : SpentAt(pc'[t], call'[t])
      PROVE  SpentInv' /\ FailsOnlyAtTheEnd'
  BY <1>2 DEF SpentAt, SpentInv, FailsOnlyAtTheEnd, Upto, Candidates
<1>3. ASSUME NEW t \in Threads, NEW out \in Outcomes, pc[t] \in Busy, Conclude(t, out),
             NEW u \in Threads
      PROVE  SpentAt(pc'[u], call'[u])
  <2>1. out \notin {"usable", "stub", "unknown"} => out \in SoftFailures
    BY DEF Outcomes, Replies, Messages, SoftFailures
  <2>2. CASE u = t
    BY <1>3, <2>1, <2>2, ConcludeSpent DEF TypeOK, SpentAt, Busy
  <2>3. CASE u # t
    BY <1>1, <1>3, <2>3, ConcludeType DEF TypeOK
  <2>4. QED
    BY <2>2, <2>3
<1>4. ASSUME NEW t \in Threads, NEW p \in Primaries, RunChat(t, p), NEW u \in Threads
      PROVE  SpentAt(pc'[u], call'[u])
  <2>1. CASE u = t
    <3>1. Idle \in Locals
      BY IdleType
    <3>2. /\ pc'[t] = "route" /\ call'[t].spent = {} /\ call'[t].turn - 1 = 0
      BY <1>4, <3>1 DEF RunChat, TypeOK, ThreadType, Idle
    <3>3. \A q : Upto(q, 0) = {}
      BY DEF Upto
    <3>4. QED
      BY <2>1, <3>2, <3>3 DEF SpentAt
  <2>2. CASE u # t
    <3>1. pc'[u] = pc[u] /\ call'[u] = call[u]
      BY <1>4, <2>2 DEF RunChat, TypeOK, ThreadType
    <3>2. QED
      BY <1>1, <3>1
  <2>3. QED
    BY <2>1, <2>2
<1>5. ASSUME NEW t \in Threads,
             /\ pc'[t] = pc[t] \/ pc'[t] = "idle" \/ pc'[t] = "raised"
                \/ (pc[t] \in Busy /\ pc'[t] \in Busy)
             /\ \/ pc'[t] = "idle"
                \/ /\ call'[t].turn = call[t].turn /\ call'[t].primary = call[t].primary
                   /\ call'[t].spent = call[t].spent
                   /\ call'[t].out = call[t].out \/ pc'[t] = "record"
      PROVE  SpentAt(pc'[t], call'[t])
  BY <1>1, <1>5 DEF SpentAt, Busy
<1>6. \A t \in Threads : SpentAt(pc'[t], call'[t])
  BY <1>3, <1>4, <1>5, AttemptEnds DEF TypeOK
<1>7. QED
  BY <1>2, <1>6

\* _dispatch_chat_with_failover gives a failure for its answer only after every
\* provider of the sequence was tried, whatever breaker, limiter and the other
\* threads do to single attempts.
THEOREM FailsLast == Spec => []FailsOnlyAtTheEnd
<1>1. Init => SpentInv /\ FailsOnlyAtTheEnd
  BY DEF Init, SpentInv, FailsOnlyAtTheEnd, Busy
<1>2. QED
  BY <1>1, SpentStep, RouteTypeCorrect, PTL DEF Spec
-----------------------------------------------------------------------------
(* The client pool                                                          *)

PoolDistinct == \A i, j \in 1..Len(pool) : pool[i] = pool[j] => i = j

\* Key k is in s, and every key after it in S.
Behind(s, k, S) ==
  \E i \in 1..Len(s) : s[i] = k /\ \A j \in (i + 1)..Len(s) : s[j] \in S

\* An open client's key is in the pool, and what was fetched after it is what
\* stands behind it.
PoolInv ==
  /\ PoolDistinct
  /\ \A t \in Threads :
       /\ IsFiniteSet(call[t].since)
       /\ call[t].client = "open" /\ PoolKey[Current(t)] # NoPool =>
            Behind(pool, PoolKey[Current(t)], call[t].since)

\* The pool without the key fetched, in its order.
LEMMA RestOrder ==
  ASSUME PoolType, PoolDistinct, NEW k \in PoolKeys
  PROVE  \E r \in Seq(PoolKeys) :
           /\ Used(k) = Append(r, k) /\ Len(r) \in Nat /\ Len(r) <= Len(pool)
           /\ \A i \in 1..Len(r) : r[i] # k
           /\ \A i, j \in 1..Len(r) : r[i] = r[j] => i = j
           /\ \A i \in 1..Len(pool) : pool[i] # k =>
                \E h \in 1..Len(r) :
                  /\ r[h] = pool[i]
                  /\ \A j \in (h + 1)..Len(r) :
                       \E g \in (i + 1)..Len(pool) : r[j] = pool[g]
<1>1. pool \in Seq(PoolKeys) /\ Len(pool) \in Nat
  BY LenProperties DEF PoolType
<1> DEFINE at == {i \in 1..Len(pool) : pool[i] = k}
           n == CHOOSE i \in at : TRUE
           a == SubSeq(pool, 1, n - 1)
           b == SubSeq(pool, n + 1, Len(pool))
           r == a \o b
<1>2. CASE at = {}
  <2>1. Used(k) = Append(pool, k)
    BY <1>2 DEF Used
  <2>2. \A i \in 1..Len(pool) : pool[i] # k
    BY <1>2
  <2>3. \A i \in 1..Len(pool) :
          /\ pool[i] = pool[i]
          /\ \A j \in (i + 1)..Len(pool) : \E g \in (i + 1)..Len(pool) : pool[j] = pool[g]
    OBVIOUS
  <2>4. \A i \in 1..Len(pool) : \E h \in 1..Len(pool) :
          /\ pool[h] = pool[i]
          /\ \A j \in (h + 1)..Len(pool) :
               \E g \in (i + 1)..Len(pool) : pool[j] = pool[g]
    BY <2>3
  <2>5. Len(pool) <= Len(pool)
    BY <1>1
  <2>6. \A i, j \in 1..Len(pool) : pool[i] = pool[j] => i = j
    BY DEF PoolDistinct
  <2> USE <1>1
  <2>7. WITNESS pool \in Seq(PoolKeys)
  <2>8. QED
    BY <1>1, <2>1, <2>2, <2>4, <2>5, <2>6
<1>3. CASE at # {}
  <2>1. n \in 1..Len(pool) /\ pool[n] = k
    BY <1>3
  <2>2. Used(k) = Append(r, k)
    BY <1>3 DEF Used
  <2> HIDE DEF n
  <2>3. \A i \in 1..Len(pool) : pool[i] \in PoolKeys
    BY <1>1, ElementOfSeq
  <2>4. /\ a \in Seq(PoolKeys) /\ Len(a) = n - 1
        /\ \A i \in 1..(n - 1) : a[i] = pool[i]
    BY <1>1, <2>1, <2>3, SubSeqProperties
  <2>5. /\ b \in Seq(PoolKeys) /\ Len(b) = Len(pool) - n
        /\ \A i \in 1..(Len(pool) - n) : b[i] = pool[n + i]
    BY <1>1, <2>1, <2>3, SubSeqProperties
  <2> HIDE DEF a, b
  <2>6. /\ r \in Seq(PoolKeys) /\ Len(r) = Len(a) + Len(b)
        /\ \A i \in 1..(Len(a) + Len(b)) : r[i] = IF i <= Len(a) THEN a[i] ELSE b[i - Len(a)]
    BY <2>4, <2>5, ConcatProperties
  <2> HIDE DEF r
  <2>7. Len(r) = Len(pool) - 1
    BY <1>1, <2>1, <2>4, <2>5, <2>6
  <2>8. \A i \in 1..Len(r) : r[i] = IF i < n THEN pool[i] ELSE pool[i + 1]
    <3>1. ASSUME NEW i \in 1..Len(r), i < n PROVE r[i] = pool[i]
      BY <1>1, <2>1, <2>4, <2>5, <2>6, <2>7, <3>1
    <3>2. ASSUME NEW i \in 1..Len(r), ~(i < n) PROVE r[i] = pool[i + 1]
      <4>1. /\ r[i] = b[i - (n - 1)] /\ i - (n - 1) \in 1..(Len(pool) - n)
            /\ n + (i - (n - 1)) = i + 1
        BY <1>1, <2>1, <2>4, <2>5, <2>6, <2>7, <3>2
      <4>2. b[i - (n - 1)] = pool[n + (i - (n - 1))]
        BY <2>5, <4>1
      <4>3. QED
        BY <4>1, <4>2
    <3>3. QED
      BY <3>1, <3>2
  <2> DEFINE from(i) == IF i < n THEN i ELSE i + 1
  <2>9. \A i \in 1..Len(r) :
          from(i) \in 1..Len(pool) /\ from(i) # n /\ r[i] = pool[from(i)]
    BY <1>1, <2>1, <2>7, <2>8
  <2>10. \A i, j \in 1..Len(r) : (from(i) = from(j) => i = j) /\ (i < j => from(i) < from(j))
    BY <1>1, <2>1, <2>7
  <2>11. \A i \in 1..Len(r) : r[i] # k
    BY <2>1, <2>9 DEF PoolDistinct
  <2>12. \A i, j \in 1..Len(r) : r[i] = r[j] => i = j
    BY <2>9, <2>10 DEF PoolDistinct
  <2>13. ASSUME NEW i \in 1..Len(pool), pool[i] # k
         PROVE  \E h \in 1..Len(r) :
                  /\ r[h] = pool[i]
                  /\ \A j \in (h + 1)..Len(r) :
                       \E g \in (i + 1)..Len(pool) : r[j] = pool[g]
    <3>1. PICK h \in 1..Len(r) : from(h) = i
      <4>1. i # n
        BY <2>1, <2>13
      <4>2. CASE i < n
        BY <1>1, <2>1, <2>7, <4>2
      <4>3. CASE i > n
        <5>1. i - 1 \in 1..Len(r) /\ from(i - 1) = i
          BY <1>1, <2>1, <2>7, <4>3
        <5>2. QED
          BY <5>1
      <4>4. QED
        BY <2>1, <4>1, <4>2, <4>3
    <3>2. r[h] = pool[i]
      BY <2>9, <3>1
    <3>3. ASSUME NEW j \in (h + 1)..Len(r)
          PROVE  \E g \in (i + 1)..Len(pool) : r[j] = pool[g]
      <4>1. j \in 1..Len(r) /\ h < j
        BY <1>1, <2>7
      <4>2. from(j) \in (i + 1)..Len(pool) /\ r[j] = pool[from(j)]
        <5>1. from(j) \in 1..Len(pool) /\ r[j] = pool[from(j)]
          BY <2>9, <4>1
        <5>2. from(h) < from(j)
          BY <2>10, <4>1
        <5>3. QED
          BY <1>1, <3>1, <5>1, <5>2
      <4>3. QED
        BY <4>2
    <3>4. QED
      BY <3>2, <3>3
  <2>14. Len(r) \in Nat /\ Len(r) <= Len(pool)
    BY <1>1, <2>1, <2>7
  <2>15. QED
    BY <2>2, <2>6, <2>11, <2>12, <2>13, <2>14
<1>4. QED
  BY <1>2, <1>3

\* The pool after a fetch: the key is last, the others keep their order, and
\* who is evicted has as many keys behind it as the pool has room.
LEMMA NextOrder ==
  ASSUME PoolType, PoolDistinct, NEW k \in PoolKeys,
         pool' = IF Evicted(k) = {} THEN Used(k) ELSE Tail(Used(k))
  PROVE  /\ PoolDistinct'
         /\ \A S : Behind(pool', k, S)
         /\ k \notin Evicted(k)
         /\ \A h, S : h # k /\ Behind(pool, h, S) =>
              /\ h \notin Evicted(k) => Behind(pool', h, S \cup {k})
              /\ h \in Evicted(k) /\ IsFiniteSet(S) =>
                   Cardinality((S \cup {k}) \ {h}) >= MaxPool
<1> DEFINE U == Used(k)
<1>1. PICK r \in Seq(PoolKeys) :
        /\ U = Append(r, k) /\ Len(r) \in Nat /\ Len(r) <= Len(pool)
        /\ \A i \in 1..Len(r) : r[i] # k
        /\ \A i, j \in 1..Len(r) : r[i] = r[j] => i = j
        /\ \A i \in 1..Len(pool) : pool[i] # k =>
             \E h \in 1..Len(r) :
               /\ r[h] = pool[i]
               /\ \A j \in (h + 1)..Len(r) :
                    \E g \in (i + 1)..Len(pool) : r[j] = pool[g]
  BY RestOrder
<1>m. MaxPool \in Nat \ {0} /\ Len(pool) <= MaxPool
  BY RouteAssumption DEF PoolType
<1>2. /\ U \in Seq(PoolKeys) /\ Len(U) = Len(r) + 1 /\ Len(U) \in Nat /\ U # <<>>
      /\ U[Len(U)] = k /\ \A i \in 1..Len(r) : U[i] = r[i]
  BY <1>1, AppendProperties
<1> HIDE DEF U
<1>3. \A i, j \in 1..Len(U) : U[i] = U[j] => i = j
  <2>1. ASSUME NEW i \in 1..Len(U), NEW j \in 1..Len(U), U[i] = U[j] PROVE i = j
    <3>1. i \in 1..Len(r) \/ i = Len(U)
      BY <1>1, <1>2
    <3>2. j \in 1..Len(r) \/ j = Len(U)
      BY <1>1, <1>2
    <3>3. QED
      BY <1>1, <1>2, <2>1, <3>1, <3>2
  <2>2. QED
    BY <2>1
<1>4. ASSUME NEW h, NEW S, h # k, Behind(pool, h, S)
      PROVE  Behind(U, h, S \cup {k})
  <2>1. PICK i \in 1..Len(pool) : pool[i] = h /\ \A j \in (i + 1)..Len(pool) : pool[j] \in S
    BY <1>4 DEF Behind
  <2>2. PICK g \in 1..Len(r) :
          /\ r[g] = h
          /\ \A j \in (g + 1)..Len(r) : \E f \in (i + 1)..Len(pool) : r[j] = pool[f]
    BY <1>1, <1>4, <2>1
  <2>3. g \in 1..Len(U) /\ U[g] = h
    BY <1>1, <1>2, <2>2
  <2>4. ASSUME NEW j \in (g + 1)..Len(U) PROVE U[j] \in S \cup {k}
    <3>1. j \in (g + 1)..Len(r) \/ j = Len(U)
      <4>1. Len(U) = Len(r) + 1 /\ Len(r) \in Nat
        BY <1>1, <1>2
      <4>2. QED
        BY <4>1
    <3>2. CASE j \in (g + 1)..Len(r)
      <4>1. j \in 1..Len(r) /\ r[j] \in S
        BY <1>1, <2>1, <2>2, <3>2
      <4>2. QED
        BY <1>2, <4>1
    <3>3. QED
      BY <1>2, <3>1, <3>2
  <2>5. QED
    BY <2>3, <2>4 DEF Behind
<1>5. CASE Evicted(k) = {}
  <2>1. pool' = U
    BY <1>5 DEF U
  <2>2. PoolDistinct'
    BY <1>3, <2>1 DEF PoolDistinct
  <2>3. ASSUME NEW S PROVE Behind(pool', k, S)
    <3>1. Len(U) \in 1..Len(U) /\ \A j \in (Len(U) + 1)..Len(U) : FALSE
      BY <1>1, <1>2
    <3>2. QED
      BY <1>2, <2>1, <3>1 DEF Behind
  <2>4. ASSUME NEW h, NEW S, h # k, Behind(pool, h, S) PROVE Behind(pool', h, S \cup {k})
    BY <1>4, <2>1, <2>4
  <2>5. QED
    BY <1>5, <2>2, <2>3, <2>4
<1>6. CASE Evicted(k) # {}
  <2>1. /\ Len(U) > MaxPool /\ Evicted(k) = {Head(U)}
    BY <1>6 DEF Evicted, U
  <2>2. Len(U) = MaxPool + 1
    BY <1>1, <1>2, <1>m, <2>1
  <2> DEFINE V == Tail(U)
  <2>3. /\ V \in Seq(PoolKeys) /\ Len(V) = MaxPool /\ Head(U) = U[1]
        /\ \A i \in 1..Len(V) : V[i] = U[i + 1]
    BY <1>2, <1>m, <2>2, HeadTailProperties
  <2>4. pool' = V
    BY <1>6 DEF U
  <2> HIDE DEF V
  <2>5. PoolDistinct'
    <3>1. ASSUME NEW i \in 1..Len(V), NEW j \in 1..Len(V), V[i] = V[j] PROVE i = j
      <4>1. i + 1 \in 1..Len(U) /\ j + 1 \in 1..Len(U) /\ U[i + 1] = U[j + 1]
        BY <1>m, <2>2, <2>3, <3>1
      <4>2. i + 1 = j + 1
        BY <1>3, <4>1
      <4>3. QED
        BY <1>m, <2>3, <4>2
    <3>2. QED
      BY <2>4, <3>1 DEF PoolDistinct
  <2>6. ASSUME NEW S PROVE Behind(pool', k, S)
    <3>1. Len(V) \in 1..Len(V) /\ V[Len(V)] = k /\ \A j \in (Len(V) + 1)..Len(V) : FALSE
      BY <1>2, <1>m, <2>2, <2>3
    <3>2. QED
      BY <2>4, <3>1 DEF Behind
  <2>7. k # U[1]
    <3>1. 1 \in 1..Len(U) /\ Len(U) \in 1..Len(U) /\ 1 # Len(U)
      BY <1>m, <2>2
    <3>2. QED
      BY <1>2, <1>3, <3>1
  <2>8. ASSUME NEW h, NEW S, h # k, Behind(pool, h, S)
        PROVE  /\ h # U[1] => Behind(pool', h, S \cup {k})
               /\ h = U[1] /\ IsFiniteSet(S) => Cardinality((S \cup {k}) \ {h}) >= MaxPool
    <3>1. PICK i \in 1..Len(U) :
            U[i] = h /\ \A j \in (i + 1)..Len(U) : U[j] \in S \cup {k}
      BY <1>4, <2>8 DEF Behind
    <3>2. ASSUME h # U[1] PROVE Behind(pool', h, S \cup {k})
      <4>1. i - 1 \in 1..Len(V) /\ V[i - 1] = h
        <5>1. i # 1
          BY <3>1, <3>2
        <5>2. i - 1 \in 1..Len(V) /\ (i - 1) + 1 = i
          BY <1>m, <2>2, <2>3, <5>1
        <5>3. QED
          BY <2>3, <3>1, <5>2
      <4>2. ASSUME NEW j \in ((i - 1) + 1)..Len(V) PROVE V[j] \in S \cup {k}
        <5>1. j \in 1..Len(V) /\ j + 1 \in (i + 1)..Len(U)
          BY <1>m, <2>2, <2>3, <4>1
        <5>2. QED
          BY <2>3, <3>1, <5>1
      <4>3. QED
        BY <2>4, <4>1, <4>2 DEF Behind
    <3>3. ASSUME h = U[1], IsFiniteSet(S)
          PROVE  Cardinality((S \cup {k}) \ {h}) >= MaxPool
      <4>1. i = 1
        <5>1. 1 \in 1..Len(U)
          BY <1>m, <2>2
        <5>2. QED
          BY <1>3, <3>1, <3>3, <5>1
      <4> DEFINE T == (S \cup {k}) \ {h}
                 f == [j \in 1..MaxPool |-> U[j + 1]]
      <4>2. \A j \in 1..MaxPool : U[j + 1] \in T
        <5>1. ASSUME NEW j \in 1..MaxPool PROVE U[j + 1] \in T
          <6>1. j + 1 \in (1 + 1)..Len(U) /\ j + 1 \in 1..Len(U) /\ 1 \in 1..Len(U) /\ j + 1 # 1
            BY <1>m, <2>2
          <6>2. U[j + 1] \in S \cup {k}
            BY <3>1, <4>1, <6>1
          <6>3. U[j + 1] # h
            BY <1>3, <3>3, <6>1
          <6>4. QED
            BY <6>2, <6>3
        <5>2. QED
          BY <5>1
      <4>3. f \in Injection(1..MaxPool, T)
        <5>1. f \in [1..MaxPool -> T]
          BY <4>2
        <5>2. ASSUME NEW x \in 1..MaxPool, NEW y \in 1..MaxPool, f[x] = f[y] PROVE x = y
          <6>1. x + 1 \in 1..Len(U) /\ y + 1 \in 1..Len(U) /\ U[x + 1] = U[y + 1]
            BY <1>m, <2>2, <5>2
          <6>2. x + 1 = y + 1
            BY <1>3, <6>1
          <6>3. QED
            BY <1>m, <6>2
        <5>3. QED
          BY <5>1, <5>2 DEF Injection, IsInjective
      <4>4. IsFiniteSet(T)
        <5>1. IsFiniteSet(S \cup {k})
          BY <3>3, FS_AddElement
        <5>2. QED
          BY <5>1, FS_Subset
      <4>5. IsFiniteSet(1..MaxPool) /\ Cardinality(1..MaxPool) = MaxPool
        BY <1>m, FS_Interval
      <4> HIDE DEF T, f
      <4>6. Cardinality(1..MaxPool) <= Cardinality(T)
        BY <4>3, <4>4, <4>5, FS_Injection
      <4>7. Cardinality(T) \in Nat
        BY <4>4, FS_CardinalityType
      <4>8. QED
        BY <1>m, <4>5, <4>6, <4>7 DEF T
    <3>4. QED
      BY <3>2, <3>3
  <2>9. QED
    BY <2>1, <2>3, <2>5, <2>6, <2>7, <2>8
<1>7. QED
  BY <1>5, <1>6

\* Only a fetch changes the pool or hands out and closes clients.
LEMMA ClientFrame ==
  ASSUME TypeOK, [Next]_vars, NEW u \in Threads,
         \A t \in Threads, p \in Providers : ~FetchClient(t, p)
  PROVE  /\ UNCHANGED pool
         /\ \/ /\ call'[u].client = call[u].client /\ call'[u].since = call[u].since
               /\ call'[u].turn = call[u].turn /\ call'[u].primary = call[u].primary
            \/ call'[u].client = "none" /\ call'[u].since = {}
<1> DEFINE Goal ==
             \/ /\ call'[u].client = call[u].client /\ call'[u].since = call[u].since
                /\ call'[u].turn = call[u].turn /\ call'[u].primary = call[u].primary
             \/ call'[u].client = "none" /\ call'[u].since = {}
<1>1. UNCHANGED pool
  BY Frames
<1>2. /\ ThreadType /\ ReadingType /\ call \in [Threads -> Locals]
      /\ Idle \in Locals /\ Idle.client = "none" /\ Idle.since = {}
  BY IdleType DEF TypeOK, ThreadType, Idle
<1>3. ASSUME NEW t \in Threads, NEW out \in Outcomes, Conclude(t, out)
      PROVE  Goal
  <2> DEFINE tried == [call[t] EXCEPT !.out = out, !.spent = @ \cup {Current(t)},
                                      !.client = "none", !.since = {}, !.at = 0]
  <2>1. /\ tried.client = "none" /\ tried.since = {}
        /\ \A i : /\ [tried EXCEPT !.turn = i].client = "none"
                  /\ [tried EXCEPT !.turn = i].since = {}
    BY <1>2 DEF Locals
  <2> HIDE DEF tried
  <2>2. \/ \E i \in Later(t) : call' = [call EXCEPT ![t] = [tried EXCEPT !.turn = i]]
        \/ call' = [call EXCEPT ![t] = tried]
    BY <1>3 DEF Conclude, tried
  <2>3. CASE u = t
    <3>1. call'[u] = tried \/ \E i : call'[u] = [tried EXCEPT !.turn = i]
      BY <1>2, <2>2, <2>3
    <3>2. QED
      BY <2>1, <3>1
  <2>4. CASE u # t
    BY <1>2, <2>2, <2>4
  <2>5. QED
    BY <2>3, <2>4
<1>4. ASSUME NEW t \in Threads, NEW p \in Primaries, RunChat(t, p)
      PROVE  Goal
  <2> DEFINE fresh == [Idle EXCEPT !.primary = p]
  <2>1. fresh.client = "none" /\ fresh.since = {}
    BY <1>2 DEF Locals
  <2> HIDE DEF fresh
  <2>2. call' = [call EXCEPT ![t] = fresh]
    BY <1>4 DEF RunChat, fresh
  <2>3. QED
    BY <1>2, <2>1, <2>2
<1>5. ASSUME NEW t \in Threads, NEW p \in Providers, NoCall(t, p) PROVE Goal
  <2>1. Route[p] \in {"ok", "unset", "unknown"}
    BY RouteAssumption
  <2>2. PICK out \in Outcomes : Conclude(t, out)
    BY <1>5, <2>1 DEF NoCall, Outcomes, Messages
  <2>3. QED
    BY <2>2, <1>3
<1>6. ASSUME NEW t \in Threads, NEW p \in Providers,
             \/ AskCircuit(t, p) \/ CircuitPrecheck(t, p)
             \/ AskLimiter(t, p) \/ RatePrecheck(t, p)
      PROVE  Goal
  <2>1. \/ Conclude(t, "refused") \/ Conclude(t, "throttled")
        \/ \E l : Passes(t, l) \/ ReadsClock(t, l)
    BY <1>6 DEF AskCircuit, CircuitPrecheck, AskLimiter, RatePrecheck
  <2>2. ASSUME NEW l, Passes(t, l) \/ ReadsClock(t, l) PROVE Goal
    BY <1>2, <2>2, Stands
  <2>3. "refused" \in Outcomes /\ "throttled" \in Outcomes
    BY DEF Outcomes, Messages
  <2> HIDE DEF Goal
  <2>4. QED
    BY <1>3, <2>1, <2>2, <2>3
<1>7. ASSUME NEW t \in Threads, NEW p \in Providers, NEW out \in Replies,
             HttpReply(t, p, out)
      PROVE  Goal
  <2>1. CASE ~Conclude(t, out)
    BY <1>2, <1>7, <2>1, Held
  <2>2. CASE Conclude(t, out)
    BY <1>3, <2>2 DEF Outcomes
  <2>3. QED
    BY <2>1, <2>2
<1>8. ASSUME NEW t \in Threads, NEW p \in Providers, RecordReply(t, p)
      PROVE  Goal
  BY <1>2, <1>3, <1>8 DEF RecordReply, ReadingType, Outcomes
<1>9. ASSUME NEW t \in Threads, Return(t) PROVE Goal
  BY <1>2, <1>9 DEF Return
<1>10. ASSUME \/ \E t \in Threads, p \in Providers : PromptRaises(t, p)
              \/ Tick \/ UNCHANGED vars
       PROVE  Goal
  BY <1>10 DEF PromptRaises, Tick, vars
<1>11. QED
  <2> HIDE DEF Goal
  <2>1. Goal
    BY <1>4, <1>5, <1>6, <1>7, <1>8, <1>9, <1>10 DEF Next, Attempt
  <2>2. QED
    BY <1>1, <2>1 DEF Goal

Key(c) == PoolKey[Candidates(c.primary)[c.turn]]

\* What the pool says of a client.
ClientAt(c, s) ==
  /\ IsFiniteSet(c.since)
  /\ c.client = "open" /\ Key(c) # NoPool => Behind(s, Key(c), c.since)
  /\ c.client = "closed" => Cardinality(c.since \ {Key(c)}) >= MaxPool

\* A fetch puts its key behind those of all open clients, and closes the one
\* with all others behind it.
LEMMA FetchStep ==
  ASSUME TypeOK, PoolDistinct, \A u \in Threads : ClientAt(call[u], pool),
         NEW t \in Threads, NEW p \in Providers, FetchClient(t, p), NEW u \in Threads
  PROVE  PoolDistinct' /\ ClientAt(call'[u], pool')
<1> DEFINE k == PoolKey[p]
           c == call[u]
           d == call'[u]
<1>1. /\ k \in PoolKeys /\ Current(t) = p /\ PoolType /\ Key(call[t]) = k
      /\ c \in Locals /\ ClientAt(c, pool) /\ call \in [Threads -> Locals]
      /\ \A v \in Threads : Key(call[v]) = PoolKey[Current(v)]
  BY DEF FetchClient, PoolKeys, Key, Current, TypeOK, ThreadType
<1>2. d.turn = c.turn /\ d.primary = c.primary /\ Key(d) = Key(c)
  <2>1. d.turn = c.turn /\ d.primary = c.primary
    BY FetchCalls DEF TypeOK
  <2>2. QED
    BY <2>1 DEF Key
<1>3. CASE k = NoPool
  <2>1. pool' = pool /\ call' = [call EXCEPT ![t] = [call[t] EXCEPT !.client = "open"]]
    BY <1>3 DEF FetchClient
  <2>2. PoolDistinct'
    BY <2>1 DEF PoolDistinct
  <2>3. CASE u = t
    <3>1. d.client = "open" /\ d.since = c.since /\ Key(d) = NoPool
      BY <1>1, <1>2, <1>3, <2>1, <2>3 DEF Locals
    <3>2. QED
      BY <1>1, <2>2, <3>1 DEF ClientAt
  <2>4. CASE u # t
    BY <1>1, <2>1, <2>2, <2>4
  <2>5. QED
    BY <2>3, <2>4
<1>4. CASE k # NoPool
  <2>1. /\ pool' = IF Evicted(k) = {} THEN Used(k) ELSE Tail(Used(k))
        /\ d = IF u = t THEN [c EXCEPT !.client = "open"]
               ELSE IF u # t /\ c.client = "open" /\ Key(c) # NoPool
               THEN [c EXCEPT !.since = @ \cup {k},
                              !.client = IF Key(c) \in Evicted(k) THEN "closed" ELSE "open"]
               ELSE c
    <3> DEFINE Mine(v) == [call[v] EXCEPT !.client = "open"]
               Seen(v) == [call[v] EXCEPT
                             !.since = @ \cup {k},
                             !.client = IF PoolKey[Current(v)] \in Evicted(k)
                                        THEN "closed" ELSE "open"]
    <3>1. /\ pool' = IF Evicted(k) = {} THEN Used(k) ELSE Tail(Used(k))
          /\ call' = [v \in Threads |->
                        IF v = t THEN Mine(v)
                        ELSE IF v # t /\ call[v].client = "open"
                                /\ PoolKey[Current(v)] # NoPool
                        THEN Seen(v) ELSE call[v]]
      BY <1>4 DEF FetchClient
    <3> HIDE DEF Mine, Seen
    <3>2. d = IF u = t THEN Mine(u)
              ELSE IF u # t /\ c.client = "open" /\ PoolKey[Current(u)] # NoPool
              THEN Seen(u) ELSE c
      BY <3>1
    <3>3. Mine(u) = [c EXCEPT !.client = "open"]
      BY DEF Mine
    <3>4. Seen(u) = [c EXCEPT !.since = @ \cup {k},
                              !.client = IF Key(c) \in Evicted(k) THEN "closed" ELSE "open"]
      BY <1>1 DEF Seen
    <3>5. Key(c) = PoolKey[Current(u)]
      BY <1>1
    <3>6. QED
      BY <3>1, <3>2, <3>3, <3>4, <3>5
  <2>2. /\ PoolDistinct'
        /\ \A S : Behind(pool', k, S)
        /\ k \notin Evicted(k)
        /\ \A h, S : h # k /\ Behind(pool, h, S) =>
             /\ h \notin Evicted(k) => Behind(pool', h, S \cup {k})
             /\ h \in Evicted(k) /\ IsFiniteSet(S) =>
                  Cardinality((S \cup {k}) \ {h}) >= MaxPool
    BY <1>1, <2>1, NextOrder
  <2>3. CASE u = t
    <3>1. d.client = "open" /\ d.since = c.since /\ Key(d) = k
      BY <1>1, <1>2, <2>1, <2>3 DEF Locals
    <3>2. QED
      BY <1>1, <2>2, <3>1 DEF ClientAt
  <2>4. CASE u # t /\ c.client = "open" /\ Key(c) # NoPool
    <3>1. /\ d.since = c.since \cup {k}
          /\ d.client = IF Key(c) \in Evicted(k) THEN "closed" ELSE "open"
      BY <1>1, <2>1, <2>4 DEF Locals
    <3>2. IsFiniteSet(c.since) /\ Behind(pool, Key(c), c.since)
      BY <1>1, <2>4 DEF ClientAt
    <3>3. IsFiniteSet(d.since)
      BY <3>1, <3>2, FS_AddElement
    <3>4. Key(c) # k =>
            /\ Key(c) \notin Evicted(k) => Behind(pool', Key(c), c.since \cup {k})
            /\ Key(c) \in Evicted(k) =>
                 Cardinality((c.since \cup {k}) \ {Key(c)}) >= MaxPool
      BY <2>2, <3>2
    <3>5. CASE Key(c) = k
      <4>1. d.client = "open" /\ Behind(pool', k, d.since)
        BY <2>2, <3>1, <3>5
      <4>2. Key(d) = k
        BY <1>2, <3>5
      <4>3. QED
        BY <2>2, <3>3, <4>1, <4>2 DEF ClientAt
    <3>6. CASE Key(c) # k /\ Key(c) \in Evicted(k)
      <4>1. Cardinality(d.since \ {Key(c)}) >= MaxPool
        BY <3>1, <3>6, <3>4
      <4>2. d.client = "closed"
        BY <3>1, <3>6
      <4>3. QED
        BY <1>2, <2>2, <3>3, <4>1, <4>2 DEF ClientAt
    <3>7. CASE Key(c) # k /\ Key(c) \notin Evicted(k)
      <4>1. Behind(pool', Key(c), d.since)
        BY <3>1, <3>7, <3>4
      <4>2. d.client = "open"
        BY <3>1, <3>7
      <4>3. QED
        BY <1>2, <2>2, <3>3, <4>1, <4>2 DEF ClientAt
    <3>8. QED
      BY <3>5, <3>6, <3>7
  <2>5. CASE u # t /\ ~(c.client = "open" /\ Key(c) # NoPool)
    <3>1. d = c
      BY <2>1, <2>5
    <3>2. QED
      BY <1>1, <2>2, <2>5, <3>1 DEF ClientAt
  <2>6. QED
    BY <2>3, <2>4, <2>5
<1>5. QED
  BY <1>3, <1>4

\* The invariant of the pool is inductive.
LEMMA ClientStep ==
  ASSUME TypeOK, PoolInv, ClosedOnlyWhenOldest, [Next]_vars
  PROVE  PoolInv' /\ ClosedOnlyWhenOldest'
<1>1. PoolDistinct /\ \A u \in Threads : ClientAt(call[u], pool)
  BY DEF PoolInv, ClosedOnlyWhenOldest, ClientAt, Key, Current
<1>2. ASSUME PoolDistinct', \A u \in Threads : ClientAt(call'[u], pool')
      PROVE  PoolInv' /\ ClosedOnlyWhenOldest'
  BY <1>2 DEF PoolInv, ClosedOnlyWhenOldest, ClientAt, Key, Current, Candidates, Behind
<1>3. CASE \E t \in Threads, p \in Providers : FetchClient(t, p)
  <2>1. PoolDistinct'
    BY <1>1, <1>3, FetchStep
  <2>2. \A u \in Threads : ClientAt(call'[u], pool')
    BY <1>1, <1>3, FetchStep
  <2>3. QED
    BY <1>2, <2>1, <2>2
<1>4. CASE ~ \E t \in Threads, p \in Providers : FetchClient(t, p)
  <2>1. pool' = pool
    BY <1>4, Frames
  <2>2. PoolDistinct'
    BY <1>1, <2>1 DEF PoolDistinct
  <2>3. IsFiniteSet({})
    BY FS_EmptySet
  <2>4. \A u \in Threads : ClientAt(call'[u], pool')
    <3>1. ASSUME NEW u \in Threads PROVE ClientAt(call'[u], pool')
      <4>1. CASE call'[u].client = "none" /\ call'[u].since = {}
        BY <2>3, <4>1 DEF ClientAt
      <4>2. CASE /\ call'[u].client = call[u].client /\ call'[u].since = call[u].since
                 /\ call'[u].turn = call[u].turn /\ call'[u].primary = call[u].primary
        <5>1. Key(call'[u]) = Key(call[u])
          BY <4>2 DEF Key
        <5>2. ClientAt(call[u], pool)
          BY <1>1
        <5>3. QED
          BY <2>1, <4>2, <5>1, <5>2 DEF ClientAt
      <4>3. QED
        BY <1>4, <4>1, <4>2, ClientFrame
    <3>2. QED
      BY <3>1
  <2>5. QED
    BY <1>2, <2>2, <2>4
<1>5. QED
  BY <1>3, <1>4

\* get_pooled_httpx_client closes a client under its user only when so many
\* other keys were fetched since that the pool had no room left for it.
THEOREM ClosedWhenOldest == Spec => []ClosedOnlyWhenOldest
<1>1. Init => PoolInv /\ ClosedOnlyWhenOldest
  <2> SUFFICES ASSUME Init PROVE PoolInv /\ ClosedOnlyWhenOldest
    OBVIOUS
  <2>1. /\ Len(pool) = 0
        /\ \A t \in Threads : call[t].client = "none" /\ call[t].since = {}
    BY DEF Init, Idle
  <2>2. PoolDistinct
    BY <2>1 DEF PoolDistinct
  <2>3. IsFiniteSet({})
    BY FS_EmptySet
  <2>4. ASSUME NEW t \in Threads
        PROVE  IsFiniteSet(call[t].since) /\ call[t].client \notin {"open", "closed"}
    BY <2>1, <2>3
  <2>5. QED
    BY <2>2, <2>4 DEF PoolInv, ClosedOnlyWhenOldest
<1>2. QED
  BY <1>1, ClientStep, RouteTypeCorrect, PTL DEF Spec
-----------------------------------------------------------------------------
(* The prompt cache                                                         *)

KeysOf(c) == {c[i].key : i \in 1..Len(c)}
Distinct(c) == \A i, j \in 1..Len(c) : c[i].key = c[j].key => i = j

Entries == [key : PromptKeys, expires : Nat]
Places == Between \cup {"none", "store", "done", "failed"}

CacheType ==
  /\ now \in Nat
  /\ deployed \in Deployments
  /\ cache \in Seq(Entries) /\ Distinct(cache)
  /\ place \in [Threads -> Places]
  /\ key \in [Threads -> PromptKeys \cup {"none"}]
  /\ \A t \in Threads : place[t] \in Between \cup {"store"} => key[t] \in PromptKeys
  /\ raced \in [Threads -> BOOLEAN]

\* Only a thread that builds its prompt is inside the cache.
PlaceInv ==
  \A t \in Threads : pc[t] = "fetch" \/ place[t] \in {"none", "failed"}

\* What a thread is about to use is there, or another thread removed entries.
RaceInv ==
  \A t \in Threads :
    /\ place[t] \in {"touch", "order"} => key[t] \in KeysOf(cache) \/ raced[t]
    /\ place[t] = "pop" => cache # <<>> \/ raced[t]
    /\ place[t] = "failed" => raced[t]

\* Keys that a thread has stored and will move before it checks the size, and
\* threads that will check it before they leave.
Fresh == {key[t] : t \in {u \in Threads : place[u] = "order"}}
Checking == {t \in Threads : place[t] \in {"evict", "pop"}}

\* Every key beyond max_entries is somebody's who has still to evict.
RoomInv == Cardinality(KeysOf(cache) \ Fresh) <= MaxEntries + Cardinality(Checking)

CacheInv == CacheType /\ PlaceInv /\ RaceInv /\ RoomInv
-----------------------------------------------------------------------------
(* Sequences of entries                                                     *)

LEMMA KeysFinite ==
  ASSUME NEW S, NEW c \in Seq(S)
  PROVE  IsFiniteSet(KeysOf(c)) /\ Cardinality(KeysOf(c)) <= Len(c)
         /\ (Distinct(c) => Cardinality(KeysOf(c)) = Len(c))
<1> DEFINE f == [i \in 1..Len(c) |-> c[i].key]
<1>1. Len(c) \in Nat /\ IsFiniteSet(1..Len(c)) /\ Cardinality(1..Len(c)) = Len(c)
  <2>1. Len(c) \in Nat
    OBVIOUS
  <2>2. /\ IsFiniteSet(1..Len(c))
        /\ Cardinality(1..Len(c)) = IF 1 > Len(c) THEN 0 ELSE Len(c) - 1 + 1
    BY <2>1, FS_Interval, 1 \in Int, Len(c) \in Int
  <2>3. QED
    BY <2>1, <2>2
<1>2. f \in Surjection(1..Len(c), KeysOf(c))
  BY DEF Surjection, KeysOf
<1>3. IsFiniteSet(KeysOf(c)) /\ Cardinality(KeysOf(c)) <= Len(c)
  BY <1>1, <1>2, FS_Surjection
<1>4. ASSUME Distinct(c) PROVE Cardinality(KeysOf(c)) = Len(c)
  <2>1. f \in Injection(1..Len(c), KeysOf(c))
    <3>1. f \in [1..Len(c) -> KeysOf(c)]
      BY DEF KeysOf
    <3>2. \A i, j \in 1..Len(c) : f[i] = f[j] => i = j
      BY <1>4 DEF Distinct
    <3>3. QED
      BY <3>1, <3>2 DEF Injection, IsInjective
  <2>2. Len(c) <= Cardinality(KeysOf(c))
    BY <2>1, <1>1, <1>3, FS_Injection
  <2>3. QED
    BY <2>2, <1>1, <1>3, FS_CardinalityType
<1>5. QED
  BY <1>3, <1>4

LEMMA AppendedKeys ==
  ASSUME NEW S, NEW c \in Seq(S), NEW e \in S
  PROVE  /\ Append(c, e) \in Seq(S)
         /\ KeysOf(Append(c, e)) = KeysOf(c) \cup {e.key}
         /\ (Distinct(c) /\ e.key \notin KeysOf(c)) => Distinct(Append(c, e))
<1>1. /\ Append(c, e) \in Seq(S)
      /\ Len(c) \in Nat /\ Len(Append(c, e)) = Len(c) + 1
      /\ \A i \in 1..Len(c) : Append(c, e)[i] = c[i]
      /\ Append(c, e)[Len(c) + 1] = e
  BY AppendProperties
<1>2. 1..(Len(c) + 1) = 1..Len(c) \cup {Len(c) + 1}
  BY <1>1
<1>3. KeysOf(Append(c, e)) = KeysOf(c) \cup {e.key}
  BY <1>1, <1>2, Zenon DEF KeysOf
<1>4. (Distinct(c) /\ e.key \notin KeysOf(c)) => Distinct(Append(c, e))
  BY <1>1, <1>2 DEF KeysOf, Distinct
<1>5. QED
  BY <1>1, <1>3, <1>4

LEMMA TailKeys ==
  ASSUME NEW S, NEW c \in Seq(S), c # <<>>
  PROVE  /\ Tail(c) \in Seq(S)
         /\ KeysOf(Tail(c)) \subseteq KeysOf(c)
         /\ Distinct(c) => Distinct(Tail(c))
<1>1. /\ Tail(c) \in Seq(S) /\ Len(Tail(c)) = Len(c) - 1 /\ Len(c) \in Nat \ {0}
      /\ \A i \in 1..Len(Tail(c)) : Tail(c)[i] = c[i + 1] /\ i + 1 \in 1..Len(c)
  BY HeadTailProperties, EmptySeq
<1>2. QED
  BY <1>1 DEF KeysOf, Distinct

LEMMA RemovedKeys ==
  ASSUME CacheType, NEW k, InCache(k)
  PROVE  /\ At(k) \in 1..Len(cache) /\ cache[At(k)].key = k
         /\ cache[At(k)] \in Entries
         /\ Without(k) \in Seq(Entries)
         /\ KeysOf(Without(k)) = KeysOf(cache) \ {k}
         /\ Distinct(Without(k))
<1> DEFINE n == At(k)
           a == SubSeq(cache, 1, n - 1)
           b == SubSeq(cache, n + 1, Len(cache))
<1>1. n \in 1..Len(cache) /\ cache[n].key = k /\ cache \in Seq(Entries) /\ Len(cache) \in Nat
  BY DEF CacheType, InCache, At
<1>2. cache[n] \in Entries
  BY <1>1, ElementOfSeq
<1> HIDE DEF n
<1>3. /\ a \in Seq(Entries) /\ Len(a) = n - 1
      /\ \A i \in 1..(n - 1) : a[i] = cache[i]
  BY <1>1, SubSeqProperties, ElementOfSeq
<1>4. /\ b \in Seq(Entries) /\ Len(b) = Len(cache) - n
      /\ \A i \in 1..(Len(cache) - n) : b[i] = cache[n + i]
  BY <1>1, SubSeqProperties, ElementOfSeq
<1> DEFINE w == a \o b
<1>5. /\ w \in Seq(Entries) /\ Len(w) = Len(cache) - 1
      /\ \A i \in 1..Len(w) : w[i] = cache[IF i < n THEN i ELSE i + 1]
  <2> HIDE DEF a, b
  <2>1. /\ w \in Seq(Entries) /\ Len(w) = Len(a) + Len(b)
        /\ \A i \in 1..(Len(a) + Len(b)) : w[i] = IF i <= Len(a) THEN a[i] ELSE b[i - Len(a)]
    BY <1>3, <1>4, ConcatProperties
  <2>2. Len(w) = Len(cache) - 1
    BY <2>1, <1>1, <1>3, <1>4
  <2>3. ASSUME NEW i \in 1..Len(w) PROVE w[i] = cache[IF i < n THEN i ELSE i + 1]
    <3>1. CASE i < n
      BY <2>1, <2>2, <1>1, <1>3, <1>4, <3>1
    <3>2. CASE i >= n
      <4>1. i - (n - 1) \in 1..(Len(cache) - n) /\ ~(i <= n - 1)
        BY <3>2, <2>2, <1>1
      <4>2. w[i] = b[i - (n - 1)]
        BY <4>1, <2>1, <2>2, <1>1, <1>3, <1>4
      <4>3. b[i - (n - 1)] = cache[n + (i - (n - 1))]
        BY <4>1, <1>4
      <4>4. n + (i - (n - 1)) = i + 1
        BY <1>1
      <4>5. QED
        BY <4>2, <4>3, <4>4, <3>2, <1>1
    <3>3. QED
      BY <3>1, <3>2, <1>1
  <2>4. QED
    BY <2>1, <2>2, <2>3
<1>6. w = Without(k)
  BY DEF Without, n
<1> HIDE DEF w, a, b
<1>7. \A i \in 1..Len(w) : /\ (IF i < n THEN i ELSE i + 1) \in 1..Len(cache)
                           /\ (IF i < n THEN i ELSE i + 1) # n
  BY <1>1, <1>5
<1>8. \A j \in 1..Len(cache) : j # n =>
        \E i \in 1..Len(w) : w[i] = cache[j]
  <2> SUFFICES ASSUME NEW j \in 1..Len(cache), j # n
               PROVE  \E i \in 1..Len(w) : w[i] = cache[j]
    OBVIOUS
  <2>1. CASE j < n
    <3>1. j \in 1..Len(w) /\ w[j] = cache[j]
      BY <2>1, <1>1, <1>5
    <3>2. QED
      BY <3>1
  <2>2. CASE j > n
    <3>1. j - 1 \in 1..Len(w) /\ w[j - 1] = cache[j]
      BY <2>2, <1>1, <1>5
    <3>2. QED
      BY <3>1
  <2>3. QED
    BY <2>1, <2>2, <1>1
<1>9. Distinct(cache)
  BY DEF CacheType
<1>10. KeysOf(w) = KeysOf(cache) \ {k}
  <2>1. KeysOf(w) \subseteq KeysOf(cache) \ {k}
    <3> SUFFICES ASSUME NEW i \in 1..Len(w)
                 PROVE  w[i].key \in KeysOf(cache) /\ w[i].key # k
      BY DEF KeysOf
    <3>1. PICK j \in 1..Len(cache) : j # n /\ w[i] = cache[j]
      BY <1>5, <1>7
    <3>2. cache[j].key # cache[n].key
      BY <3>1, <1>9, <1>1 DEF Distinct
    <3>3. QED
      BY <3>1, <3>2, <1>1 DEF KeysOf
  <2>2. KeysOf(cache) \ {k} \subseteq KeysOf(w)
    BY <1>1, <1>8 DEF KeysOf
  <2>3. QED
    BY <2>1, <2>2
<1>11. Distinct(w)
  <2> SUFFICES ASSUME NEW i \in 1..Len(w), NEW j \in 1..Len(w), w[i].key = w[j].key
               PROVE  i = j
    BY DEF Distinct
  <2>1. (IF i < n THEN i ELSE i + 1) = (IF j < n THEN j ELSE j + 1)
    BY <1>5, <1>7, <1>9 DEF Distinct
  <2>2. QED
    BY <2>1, <1>1, <1>5
<1>12. QED
  BY <1>1, <1>2, <1>5, <1>6, <1>10, <1>11 DEF n

\* move_to_end keeps the keys.
LEMMA MovedKeys ==
  ASSUME CacheType, NEW k, InCache(k)
  PROVE  LET c == Append(Without(k), cache[At(k)])
         IN  c \in Seq(Entries) /\ KeysOf(c) = KeysOf(cache) /\ Distinct(c)
<1> DEFINE e == cache[At(k)]
           w == Without(k)
<1>1. /\ e \in Entries /\ e.key = k
      /\ w \in Seq(Entries)
      /\ KeysOf(w) = KeysOf(cache) \ {k} /\ Distinct(w)
  BY RemovedKeys
<1>2. k \in KeysOf(cache)
  BY DEF InCache, KeysOf
<1> HIDE DEF e, w
<1>3. /\ Append(w, e) \in Seq(Entries)
      /\ KeysOf(Append(w, e)) = KeysOf(w) \cup {e.key}
      /\ (Distinct(w) /\ e.key \notin KeysOf(w)) => Distinct(Append(w, e))
  BY <1>1, AppendedKeys
<1>4. Append(w, e) \in Seq(Entries) /\ KeysOf(Append(w, e)) = KeysOf(cache)
      /\ Distinct(Append(w, e))
  BY <1>1, <1>2, <1>3, Zenon
<1>5. QED
  BY <1>4 DEF e, w
-----------------------------------------------------------------------------
(* What the steps share                                                     *)

LEMMA NotEmpty == ASSUME NEW c, NEW k \in KeysOf(c) PROVE c # <<>>
<1> SUFFICES ASSUME c = <<>> PROVE FALSE
  OBVIOUS
<1>1. Len(c) = 0
  OBVIOUS
<1>2. QED
  BY <1>1 DEF KeysOf

LEMMA InKeys == ASSUME NEW k PROVE InCache(k) <=> k \in KeysOf(cache)
BY DEF InCache, KeysOf

\* A step that gives up no stored key and lets no thread leave before it has
\* checked the size keeps the bound.
LEMMA RoomKept ==
  ASSUME CacheType, RoomInv,
         KeysOf(cache') \ Fresh' \subseteq KeysOf(cache) \ Fresh,
         Checking \subseteq Checking'
  PROVE  RoomInv'
<1>1. /\ IsFiniteSet(KeysOf(cache) \ Fresh)
      /\ IsFiniteSet(Checking) /\ IsFiniteSet(Checking')
  <2>1. IsFiniteSet(KeysOf(cache))
    BY KeysFinite DEF CacheType
  <2>2. Checking \subseteq Threads /\ Checking' \subseteq Threads
    BY DEF Checking
  <2>3. QED
    BY <2>1, <2>2, PromptAssumption, RouteAssumption, FS_Subset, FS_Difference
<1>2. Cardinality(KeysOf(cache') \ Fresh') <= Cardinality(KeysOf(cache) \ Fresh)
  BY <1>1, FS_Subset
<1>3. Cardinality(Checking) <= Cardinality(Checking')
  BY <1>1, FS_Subset
<1>4. IsFiniteSet(KeysOf(cache') \ Fresh')
  BY <1>1, FS_Subset
<1>5. /\ Cardinality(KeysOf(cache') \ Fresh') \in Nat
      /\ Cardinality(KeysOf(cache) \ Fresh) \in Nat
      /\ Cardinality(Checking) \in Nat /\ Cardinality(Checking') \in Nat
  BY <1>1, <1>4, FS_CardinalityType
<1>6. QED
  BY <1>2, <1>3, <1>5, PromptAssumption, RouteAssumption DEF RoomInv

\* A cache within its limit needs nobody.
LEMMA RoomLeft ==
  ASSUME CacheType', Len(cache') <= MaxEntries
  PROVE  RoomInv'
<1>1. /\ IsFiniteSet(KeysOf(cache')) /\ Cardinality(KeysOf(cache')) <= Len(cache')
      /\ cache' \in Seq(Entries')
  BY KeysFinite DEF CacheType
<1>2. /\ IsFiniteSet(KeysOf(cache') \ Fresh')
      /\ Cardinality(KeysOf(cache') \ Fresh') <= Cardinality(KeysOf(cache'))
  BY <1>1, FS_Subset
<1>3. IsFiniteSet(Checking')
  <2>1. Checking' \subseteq Threads
    BY DEF Checking
  <2>2. QED
    BY <2>1, PromptAssumption, RouteAssumption, FS_Subset
<1>4. /\ Cardinality(KeysOf(cache') \ Fresh') \in Nat
      /\ Cardinality(KeysOf(cache')) \in Nat /\ Len(cache') \in Nat
      /\ Cardinality(Checking') \in Nat
  BY <1>1, <1>2, <1>3, FS_CardinalityType
<1>5. QED
  BY <1>1, <1>2, <1>4, PromptAssumption, RouteAssumption DEF RoomInv

\* Entries are typed by the deployment alone.
LEMMA SameEntries == ASSUME deployed' = deployed PROVE Entries' = Entries /\ PromptKeys' = PromptKeys
BY DEF Entries, PromptKeys
-----------------------------------------------------------------------------
(* One lemma for each operation on the cache                                *)

LEMMA LookUpStep ==
  ASSUME CacheInv, NEW t \in Threads, NEW k \in PromptKeys, LookUp(t, k),
         deployed' = deployed
  PROVE  CacheInv'
<1> USE DEF CacheInv
<1>1. /\ cache' = cache /\ now' = now /\ pc' = pc
      /\ key' = [key EXCEPT ![t] = k] /\ raced' = [raced EXCEPT ![t] = FALSE]
      /\ place[t] = "none" /\ pc[t] = "fetch"
  BY DEF LookUp, In, vars
<1>2. PICK l \in {"store", "expire", "touch"} :
        place' = [place EXCEPT ![t] = l] /\ (l = "touch" => InCache(k))
  BY DEF LookUp, GoTo
<1>3. CacheType'
  BY <1>1, <1>2, SameEntries DEF CacheType, Places, Between
<1>4. PlaceInv'
  BY <1>1, <1>2 DEF PlaceInv, CacheType
<1>5. RaceInv'
  BY <1>1, <1>2, InKeys DEF RaceInv, CacheType
<1>6. RoomInv'
  <2>1. Fresh' = Fresh /\ Checking' = Checking
    BY <1>1, <1>2 DEF Fresh, Checking, CacheType
  <2>2. QED
    BY <2>1, <1>1 DEF RoomInv
<1>7. QED
  BY <1>3, <1>4, <1>5, <1>6

LEMMA ExpireStep ==
  ASSUME CacheInv, NEW t \in Threads, Expire(t), deployed' = deployed
  PROVE  CacheInv'
<1> USE DEF CacheInv
<1>1. /\ now' = now /\ pc' = pc /\ key' = key
      /\ place' = [place EXCEPT ![t] = "store"]
      /\ place[t] = "expire" /\ pc[t] = "fetch"
  BY DEF Expire, In, GoTo, vars
<1>2. /\ cache' \in Seq(Entries) /\ Distinct(cache')
      /\ KeysOf(cache') \subseteq KeysOf(cache)
      /\ raced' \in [Threads -> BOOLEAN]
      /\ \/ cache' = cache /\ raced' = raced
         \/ \A u \in Threads : raced'[u] = (raced[u] \/ (u # t /\ place[u] \in Between))
  <2>1. CASE InCache(key[t])
    <3>1. cache' = Without(key[t]) /\ Removes(t)
      BY <2>1 DEF Expire
    <3>2. QED
      BY <2>1, <3>1, RemovedKeys DEF Removes, CacheType
  <2>2. CASE ~InCache(key[t])
    BY <2>2 DEF Expire, CacheType
  <2>3. QED
    BY <2>1, <2>2
<1>3. CacheType'
  BY <1>1, <1>2, SameEntries DEF CacheType, Places, Between
<1>4. PlaceInv'
  BY <1>1 DEF PlaceInv, CacheType
<1>5. RaceInv'
  BY <1>1, <1>2 DEF RaceInv, CacheType, Between
<1>6. RoomInv'
  <2>1. Fresh' = Fresh /\ Checking' = Checking
    BY <1>1 DEF Fresh, Checking, CacheType
  <2>2. QED
    BY <2>1, <1>2, RoomKept
<1>7. QED
  BY <1>3, <1>4, <1>5, <1>6

LEMMA TouchStep ==
  ASSUME CacheInv, NEW t \in Threads, Touch(t), deployed' = deployed
  PROVE  CacheInv'
<1> USE DEF CacheInv
<1>1. /\ now' = now /\ pc' = pc /\ key' = [key EXCEPT ![t] = "none"]
      /\ raced' = [raced EXCEPT ![t] = FALSE]
      /\ place' = [place EXCEPT ![t] = "done"]
      /\ place[t] = "touch" /\ pc[t] = "fetch" /\ InCache(key[t])
  BY DEF Touch, In, GoTo, Forgets, vars
<1>2. cache' \in Seq(Entries) /\ KeysOf(cache') = KeysOf(cache) /\ Distinct(cache')
  BY <1>1, MovedKeys DEF Touch
<1>3. CacheType'
  BY <1>1, <1>2, SameEntries DEF CacheType, Places, Between
<1>4. PlaceInv'
  BY <1>1 DEF PlaceInv, CacheType
<1>5. cache' # <<>>
  BY <1>1, <1>2, InKeys, NotEmpty
<1>6. RaceInv'
  BY <1>1, <1>2, <1>5 DEF RaceInv, CacheType
<1>7. RoomInv'
  <2>1. Fresh' = Fresh /\ Checking' = Checking
    BY <1>1 DEF Fresh, Checking, CacheType
  <2>2. QED
    BY <2>1, <1>2, RoomKept
<1>8. QED
  BY <1>3, <1>4, <1>6, <1>7

LEMMA StoreStep ==
  ASSUME CacheInv, NEW t \in Threads, Store(t), deployed' = deployed
  PROVE  CacheInv'
<1> USE DEF CacheInv
<1> DEFINE e == [key |-> key[t], expires |-> now + Ttl]
<1>1. /\ now' = now /\ pc' = pc /\ key' = key /\ raced' = raced
      /\ place' = [place EXCEPT ![t] = "order"]
      /\ place[t] = "store" /\ pc[t] = "fetch"
      /\ cache' = IF InCache(key[t]) THEN [cache EXCEPT ![At(key[t])] = e]
                  ELSE Append(cache, e)
  BY DEF Store, In, GoTo, vars
<1>2. e \in Entries /\ e.key = key[t]
  BY <1>1, PromptAssumption DEF CacheType, Entries
<1> HIDE DEF e
<1>3. cache' \in Seq(Entries) /\ KeysOf(cache') = KeysOf(cache) \cup {key[t]}
      /\ Distinct(cache')
  <2>1. CASE InCache(key[t])
    <3>1. /\ At(key[t]) \in 1..Len(cache) /\ cache[At(key[t])].key = key[t]
          /\ cache \in Seq(Entries) /\ Distinct(cache)
      BY <2>1, RemovedKeys DEF CacheType
    <3>2. /\ cache' \in Seq(Entries) /\ Len(cache') = Len(cache)
          /\ \A i \in 1..Len(cache) : cache'[i].key = cache[i].key
      BY <3>1, <2>1, <1>1, <1>2
    <3>3. KeysOf(cache') = KeysOf(cache) /\ Distinct(cache')
      BY <3>1, <3>2 DEF KeysOf, Distinct
    <3>4. QED
      BY <2>1, <3>2, <3>3, InKeys
  <2>2. CASE ~InCache(key[t])
    BY <2>2, <1>1, <1>2, AppendedKeys, InKeys DEF CacheType
  <2>3. QED
    BY <2>1, <2>2
<1>4. CacheType'
  BY <1>1, <1>3, SameEntries DEF CacheType, Places, Between
<1>5. PlaceInv'
  BY <1>1 DEF PlaceInv, CacheType
<1>6. cache' # <<>>
  BY <1>3, NotEmpty
<1>7. RaceInv'
  BY <1>1, <1>3, <1>6 DEF RaceInv, CacheType
<1>8. RoomInv'
  <2>1. Checking' = Checking
    BY <1>1 DEF Checking, CacheType
  <2>2. Fresh' = Fresh \cup {key[t]}
    BY <1>1 DEF Fresh, CacheType
  <2>3. QED
    BY <2>1, <2>2, <1>3, RoomKept
<1>9. QED
  BY <1>4, <1>5, <1>7, <1>8

LEMMA MoveStep ==
  ASSUME CacheInv, NEW t \in Threads, MoveToEnd(t), deployed' = deployed
  PROVE  CacheInv'
<1> USE DEF CacheInv
<1>1. /\ now' = now /\ pc' = pc /\ key' = key /\ raced' = raced
      /\ place' = [place EXCEPT ![t] = "evict"]
      /\ place[t] = "order" /\ pc[t] = "fetch" /\ InCache(key[t])
  BY DEF MoveToEnd, In, GoTo, vars
<1>2. cache' \in Seq(Entries) /\ KeysOf(cache') = KeysOf(cache) /\ Distinct(cache')
  BY <1>1, MovedKeys DEF MoveToEnd
<1>3. CacheType'
  BY <1>1, <1>2, SameEntries DEF CacheType, Places, Between
<1>4. PlaceInv'
  BY <1>1 DEF PlaceInv, CacheType
<1>5. cache' # <<>>
  BY <1>1, <1>2, InKeys, NotEmpty
<1>6. RaceInv'
  BY <1>1, <1>2, <1>5 DEF RaceInv, CacheType
<1>7. RoomInv'
  <2> DEFINE A == KeysOf(cache) \ Fresh
             B == KeysOf(cache') \ Fresh'
  <2>1. Checking' = Checking \cup {t} /\ t \notin Checking
    BY <1>1 DEF Checking, CacheType
  <2>2. B \subseteq A \cup {key[t]}
    <3>1. Fresh \subseteq Fresh' \cup {key[t]}
      BY <1>1 DEF Fresh, CacheType
    <3>2. QED
      BY <3>1, <1>2
  <2>3. IsFiniteSet(A) /\ IsFiniteSet(Checking)
    <3>1. IsFiniteSet(KeysOf(cache))
      BY KeysFinite DEF CacheType
    <3>2. Checking \subseteq Threads
      BY DEF Checking
    <3>3. QED
      BY <3>1, <3>2, PromptAssumption, RouteAssumption, FS_Subset, FS_Difference
  <2>4. Cardinality(A) <= MaxEntries + Cardinality(Checking)
    BY DEF RoomInv
  <2> HIDE DEF A, B
  <2>5. /\ IsFiniteSet(A \cup {key[t]}) /\ Cardinality(A) \in Nat
        /\ Cardinality(A \cup {key[t]}) <= Cardinality(A) + 1
    <3>1. Cardinality(A) \in Nat
      BY <2>3, FS_CardinalityType
    <3>2. /\ IsFiniteSet(A \cup {key[t]})
          /\ Cardinality(A \cup {key[t]}) =
               IF key[t] \in A THEN Cardinality(A) ELSE Cardinality(A) + 1
      BY <2>3, FS_AddElement
    <3>3. QED
      BY <3>1, <3>2
  <2>6. IsFiniteSet(B) /\ Cardinality(B) <= Cardinality(A \cup {key[t]})
    BY <2>2, <2>5, FS_Subset
  <2>7. Cardinality(Checking') = Cardinality(Checking) + 1 /\ Cardinality(Checking) \in Nat
    BY <2>1, <2>3, FS_AddElement, FS_CardinalityType
  <2>8. Cardinality(B) \in Nat /\ Cardinality(A \cup {key[t]}) \in Nat
    BY <2>5, <2>6, FS_CardinalityType
  <2>9. Cardinality(B) <= MaxEntries + Cardinality(Checking')
    BY <2>4, <2>5, <2>6, <2>7, <2>8, PromptAssumption
  <2>10. QED
    BY <2>9 DEF RoomInv, B
<1>8. QED
  BY <1>3, <1>4, <1>6, <1>7

LEMMA CheckStep ==
  ASSUME CacheInv, NEW t \in Threads, CheckSize(t), deployed' = deployed
  PROVE  CacheInv'
<1> USE DEF CacheInv
<1>1. /\ now' = now /\ pc' = pc /\ cache' = cache
      /\ place[t] = "evict" /\ pc[t] = "fetch"
  BY DEF CheckSize, In, vars
<1>2. CASE Len(cache) > MaxEntries
  <2>1. key' = key /\ raced' = raced /\ place' = [place EXCEPT ![t] = "pop"]
    BY <1>2 DEF CheckSize, GoTo
  <2>2. CacheType'
    BY <1>1, <2>1, SameEntries DEF CacheType, Places, Between
  <2>3. PlaceInv'
    BY <1>1, <2>1 DEF PlaceInv, CacheType
  <2>4. cache # <<>>
    BY <1>2, PromptAssumption
  <2>5. RaceInv'
    BY <1>1, <2>1, <2>4 DEF RaceInv, CacheType
  <2>6. Fresh' = Fresh /\ Checking' = Checking
    BY <1>1, <2>1 DEF Fresh, Checking, CacheType
  <2>7. QED
    BY <2>2, <2>3, <2>5, <2>6, <1>1, RoomKept
<1>3. CASE ~(Len(cache) > MaxEntries)
  <2>1. /\ key' = [key EXCEPT ![t] = "none"] /\ raced' = [raced EXCEPT ![t] = FALSE]
        /\ place' = [place EXCEPT ![t] = "done"]
    BY <1>3 DEF CheckSize, GoTo, Forgets
  <2>2. CacheType'
    BY <1>1, <2>1, SameEntries DEF CacheType, Places, Between
  <2>3. PlaceInv'
    BY <1>1, <2>1 DEF PlaceInv, CacheType
  <2>4. RaceInv'
    BY <1>1, <2>1 DEF RaceInv, CacheType
  <2>5. Len(cache') <= MaxEntries
    BY <1>1, <1>3, PromptAssumption DEF CacheType
  <2>6. QED
    BY <2>2, <2>3, <2>4, <2>5, RoomLeft
<1>4. QED
  BY <1>2, <1>3

LEMMA PopStep ==
  ASSUME CacheInv, NEW t \in Threads, PopOldest(t), deployed' = deployed
  PROVE  CacheInv'
<1> USE DEF CacheInv
<1>1. /\ now' = now /\ pc' = pc /\ key' = key
      /\ place' = [place EXCEPT ![t] = "evict"]
      /\ place[t] = "pop" /\ pc[t] = "fetch" /\ cache # <<>>
      /\ raced' = [u \in Threads |-> raced[u] \/ (u # t /\ place[u] \in Between)]
  BY DEF PopOldest, In, GoTo, Removes, vars
<1>2. cache' \in Seq(Entries) /\ KeysOf(cache') \subseteq KeysOf(cache) /\ Distinct(cache')
  BY <1>1, TailKeys DEF PopOldest, CacheType
<1>3. CacheType'
  BY <1>1, <1>2, SameEntries DEF CacheType, Places, Between
<1>4. PlaceInv'
  BY <1>1 DEF PlaceInv, CacheType
<1>5. RaceInv'
  BY <1>1 DEF RaceInv, CacheType, Between
<1>6. Fresh' = Fresh /\ Checking' = Checking
  BY <1>1 DEF Fresh, Checking, CacheType
<1>7. QED
  BY <1>2, <1>3, <1>4, <1>5, <1>6, RoomKept

LEMMA MissingStep ==
  ASSUME TypeOK, CacheInv, NEW t \in Threads, NEW p \in Providers, KeyMissing(t, p),
         deployed' = deployed
  PROVE  CacheInv'
<1> USE DEF CacheInv
<1>1. /\ now' = now /\ key' = key /\ raced' = raced /\ cache' = cache
      /\ place' = [place EXCEPT ![t] = "failed"]
      /\ pc' = [pc EXCEPT ![t] = "raised"]
      /\ \/ place[t] \in {"touch", "order"} /\ ~InCache(key[t])
         \/ place[t] = "pop" /\ cache = <<>>
  BY DEF KeyMissing, PromptRaises, GoTo
<1>2. CacheType'
  BY <1>1, SameEntries DEF CacheType, Places, Between
<1>3. PlaceInv'
  BY <1>1 DEF PlaceInv, CacheType
<1>4. RaceInv'
  BY <1>1, InKeys DEF RaceInv, CacheType
<1>5. RoomInv'
  <2>1. CASE place[t] = "pop" /\ cache = <<>>
    <3>1. Len(cache') <= MaxEntries
      BY <2>1, <1>1, PromptAssumption
    <3>2. QED
      BY <3>1, <1>2, RoomLeft
  <2>2. CASE place[t] \in {"touch", "order"} /\ ~InCache(key[t])
    <3>1. Checking' = Checking
      BY <2>2, <1>1 DEF Checking, CacheType
    <3>2. Fresh \subseteq Fresh' \cup {key[t]} /\ key[t] \notin KeysOf(cache)
      BY <2>2, <1>1, InKeys DEF Fresh, CacheType
    <3>3. KeysOf(cache') \ Fresh' \subseteq KeysOf(cache) \ Fresh
      BY <3>2, <1>1
    <3>4. QED
      BY <3>1, <3>3, RoomKept
  <2>3. QED
    BY <2>1, <2>2, <1>1
<1>6. QED
  BY <1>2, <1>3, <1>4, <1>5

\* Steps outside the cache: one thread is at rest, or nobody moves in it.
LEMMA RestStep ==
  ASSUME CacheInv, NEW t \in Threads, deployed' = deployed, cache' = cache,
         now' \in Nat, place[t] \in {"none", "done", "failed"},
         place' = [place EXCEPT ![t] = "none"],
         key' = key \/ key' = [key EXCEPT ![t] = "none"],
         raced' = raced \/ raced' = [raced EXCEPT ![t] = FALSE],
         \A u \in Threads \ {t} : pc'[u] = pc[u]
  PROVE  CacheInv'
<1> USE DEF CacheInv
<1>1. CacheType'
  BY SameEntries DEF CacheType, Places, Between
<1>2. PlaceInv'
  BY DEF PlaceInv, CacheType
<1>3. RaceInv'
  BY DEF RaceInv, CacheType
<1>4. Fresh' = Fresh /\ Checking' = Checking
  BY DEF Fresh, Checking, CacheType
<1>5. QED
  BY <1>1, <1>2, <1>3, <1>4, RoomKept

LEMMA StillStep ==
  ASSUME CacheInv, deployed' = deployed, now' \in Nat, UNCHANGED cacheVars,
         \A t \in Threads : pc[t] = "fetch" => pc'[t] = "fetch"
  PROVE  CacheInv'
<1> USE DEF CacheInv, cacheVars
<1>1. CacheType'
  BY SameEntries DEF CacheType
<1>2. PlaceInv' /\ RaceInv' /\ RoomInv'
  BY DEF PlaceInv, RaceInv, RoomInv, Fresh, Checking
<1>3. QED
  BY <1>1, <1>2

\* The steps of routing that are not those of the cache, nor from the prompt
\* on to the endpoint.
LEMMA ElsewhereStep ==
  ASSUME TypeOK, CacheInv, Elsewhere, deployed' = deployed
  PROVE  CacheInv'
<1>1. UNCHANGED cacheVars /\ now \in Nat
  BY DEF Elsewhere, TypeOK, CacheInv, CacheType
<1>2. pc \in [Threads -> {"idle", "route", "circuit", "rate", "limit", "fetch", "http",
                         "record", "answered", "raised"}]
  BY DEF TypeOK, ThreadType
<1>3. now' \in Nat /\ \A t \in Threads : pc[t] = "fetch" => pc'[t] = "fetch"
  <2>1. CASE \E t \in Threads, p \in deployed.named : RunChat(t, p)
    BY <2>1, <1>1, <1>2 DEF RunChat
  <2>2. ASSUME NEW t \in Threads, NEW p \in Providers,
               \/ NoCall(t, p) \/ AskCircuit(t, p) \/ CircuitPrecheck(t, p)
               \/ AskLimiter(t, p) \/ RatePrecheck(t, p)
               \/ (\E out \in Replies : HttpReply(t, p, out)) \/ RecordReply(t, p)
        PROVE  now' \in Nat /\ \A u \in Threads : pc[u] = "fetch" => pc'[u] = "fetch"
    <3>1. pc[t] # "fetch" /\ now' = now
      BY <2>2 DEF NoCall, AskCircuit, CircuitPrecheck, AskLimiter, RatePrecheck,
                  HttpReply, RecordReply, Turn
    <3>2. \E l : pc' = [pc EXCEPT ![t] = l]
      <4>1. ASSUME NEW out, Conclude(t, out) PROVE \E l : pc' = [pc EXCEPT ![t] = l]
        BY <4>1 DEF Conclude
      <4>2. CASE NoCall(t, p)
        BY <4>1, <4>2 DEF NoCall
      <4>3. CASE AskCircuit(t, p) \/ AskLimiter(t, p)
        BY <4>3 DEF AskCircuit, AskLimiter, Passes, ReadsClock
      <4>4. CASE CircuitPrecheck(t, p)
        BY <4>1, <4>4 DEF CircuitPrecheck, Passes
      <4>5. CASE RatePrecheck(t, p)
        BY <4>1, <4>5 DEF RatePrecheck, Passes
      <4>6. CASE (\E out \in Replies : HttpReply(t, p, out)) \/ RecordReply(t, p)
        BY <4>1, <4>6 DEF HttpReply, RecordReply
      <4>7. QED
        BY <2>2, <4>2, <4>3, <4>4, <4>5, <4>6
    <3>3. QED
      BY <3>1, <3>2, <1>1, <1>2
  <2>3. CASE Tick
    BY <2>3, <1>1 DEF Tick
  <2>4. QED
    BY <2>1, <2>2, <2>3 DEF Elsewhere
<1>4. QED
  BY <1>1, <1>3, StillStep
-----------------------------------------------------------------------------
(* The invariant                                                            *)

LEMMA CacheInit == PromptInit => CacheInv
<1> SUFFICES ASSUME PromptInit PROVE CacheInv
  OBVIOUS
<1>1. Len(cache) = 0 /\ cache \in Seq(Entries)
  BY DEF PromptInit
<1>2. CacheType /\ PlaceInv /\ RaceInv
  BY <1>1 DEF CacheType, PlaceInv, RaceInv, PromptInit, Init, Places, Between, Distinct
<1>3. RoomInv
  <2>1. KeysOf(cache) \ Fresh = {}
    BY <1>1 DEF KeysOf
  <2>2. Checking = {}
    BY DEF Checking, PromptInit
  <2>3. Cardinality({}) = 0
    BY FS_EmptySet
  <2>4. QED
    BY <2>1, <2>2, <2>3, PromptAssumption DEF RoomInv
<1>4. QED
  BY <1>2, <1>3 DEF CacheInv

LEMMA CacheNext ==
  ASSUME TypeOK, CacheInv, [PromptNext]_promptVars
  PROVE  CacheInv'
<1>1. deployed' = deployed /\ now \in Nat
  BY DEF PromptNext, promptVars, CacheInv, CacheType
<1>2. CASE UNCHANGED promptVars
  BY <1>1, <1>2, StillStep DEF promptVars, vars
<1>3. ASSUME NEW t \in Threads, CacheStep(t) PROVE CacheInv'
  BY <1>1, <1>3, LookUpStep, ExpireStep, TouchStep, StoreStep, MoveStep, CheckStep, PopStep
     DEF CacheStep
<1>4. ASSUME NEW t \in Threads, Leave(t) PROVE CacheInv'
  <2>1. /\ place[t] \in {"none", "failed"} /\ now' = now
        /\ \A u \in Threads \ {t} : pc'[u] = pc[u]
        /\ cache' = cache /\ place' = [place EXCEPT ![t] = "none"]
        /\ key' = [key EXCEPT ![t] = "none"] /\ raced' = [raced EXCEPT ![t] = FALSE]
    BY <1>4 DEF Leave, Return, GoTo, Forgets, CacheInv, PlaceInv, TypeOK, ThreadType
  <2>2. QED
    BY <2>1, <1>1, RestStep
<1>5. ASSUME NEW t \in Threads, NEW p \in Providers, KeyMissing(t, p) PROVE CacheInv'
  BY <1>1, <1>5, MissingStep
<1>6. ASSUME NEW t \in Threads, NEW p \in Providers, StrategyRaises(t, p) \/ Send(t, p)
      PROVE CacheInv'
  <2>1. /\ place[t] \in {"none", "done"} /\ now' = now
        /\ \A u \in Threads \ {t} : pc'[u] = pc[u]
        /\ cache' = cache /\ place' = [place EXCEPT ![t] = "none"]
        /\ key' = key /\ raced' = raced
    BY <1>6 DEF StrategyRaises, PromptRaises, Send, FetchClient, GoTo, TypeOK, ThreadType
  <2>2. QED
    BY <2>1, <1>1, RestStep
<1>7. CASE Elsewhere
  BY <1>1, <1>7, ElsewhereStep
<1>8. QED
  BY <1>2, <1>3, <1>4, <1>5, <1>6, <1>7 DEF PromptNext

\* Whatever the cache does between limiter and client, each step is one of
\* routing or none of its variables change.
LEMMA RouteStep ==
  ASSUME deployed \in Deployments, [PromptNext]_promptVars
  PROVE  [Next]_vars /\ deployed' \in Deployments
<1>1. deployed.named \subseteq Primaries
  BY PromptAssumption
<1>2. CASE UNCHANGED promptVars
  BY <1>2 DEF promptVars
<1>3. ASSUME NEW t \in Threads, CacheStep(t) PROVE UNCHANGED vars
  BY <1>3 DEF CacheStep, LookUp, Expire, Touch, Store, MoveToEnd, CheckSize, PopOldest
<1>4. ASSUME NEW t \in Threads, Leave(t) PROVE Next
  BY <1>4 DEF Leave, Next
<1>5. ASSUME NEW t \in Threads, NEW p \in Providers,
             KeyMissing(t, p) \/ StrategyRaises(t, p) \/ Send(t, p)
      PROVE  Next
  BY <1>5 DEF KeyMissing, StrategyRaises, Send, Attempt, Next
<1>6. ASSUME Elsewhere PROVE Next
  <2>1. CASE \E t \in Threads, p \in deployed.named : RunChat(t, p)
    BY <2>1, <1>1 DEF Next
  <2>2. ASSUME NEW t \in Threads, NEW p \in Providers,
               \/ NoCall(t, p) \/ AskCircuit(t, p) \/ CircuitPrecheck(t, p)
               \/ AskLimiter(t, p) \/ RatePrecheck(t, p)
               \/ (\E out \in Replies : HttpReply(t, p, out)) \/ RecordReply(t, p)
        PROVE  Attempt(t, p)
    BY <2>2 DEF Attempt
  <2>3. CASE Tick
    BY <2>3 DEF Next
  <2>4. QED
    BY <2>1, <2>2, <2>3, <1>6 DEF Elsewhere, Next
<1>7. QED
  BY <1>2, <1>3, <1>4, <1>5, <1>6 DEF PromptNext, promptVars
-----------------------------------------------------------------------------
(* The theorems                                                             *)

\* Routing with the prompt cache implements routing without it: a request that
\* waits in the cache is one that has not fetched its client, and a KeyError is
\* an exception of the prompt.  Every theorem about ProviderRoute holds here.
THEOREM ImplementsRoute == PromptSpec => Spec
<1>1. PromptInit => Init /\ deployed \in Deployments
  BY DEF PromptInit
<1>2. deployed \in Deployments /\ [PromptNext]_promptVars => [Next]_vars
  BY RouteStep
<1>3. deployed \in Deployments /\ [PromptNext]_promptVars => (deployed \in Deployments)'
  BY RouteStep
<1>4. QED
  BY <1>1, <1>2, <1>3, PTL DEF PromptSpec, Spec

\* The invariant of the cache, on top of the types of routing.
LEMMA CacheInvariance == PromptSpec => []CacheInv
<1>1. PromptSpec => []TypeOK
  BY ImplementsRoute, RouteTypeCorrect, PTL
<1>2. TypeOK /\ CacheInv /\ [PromptNext]_promptVars => CacheInv'
  BY CacheNext
<1>3. QED
  BY <1>1, <1>2, CacheInit, PTL DEF PromptSpec

\* PromptCache's KeyError needs two threads: whoever is about to move or pop an
\* entry saw it there, so another thread has removed one since.
THEOREM RaisesOnlyByRace == PromptSpec => []RaisesOnlyRaced
<1>1. CacheInv => RaisesOnlyRaced
  BY DEF CacheInv, RaceInv, RaisesOnlyRaced
<1>2. QED
  BY <1>1, CacheInvariance, PTL

\* The cache comes to rest within max_entries: each entry beyond it belongs to
\* a thread that has still to check the size.
THEOREM CacheKeepsBound == PromptSpec => []CacheBounded
<1>1. CacheInv => CacheBounded
  <2> SUFFICES ASSUME CacheInv,
                      \A t \in Threads : place[t] \notin {"order", "evict", "pop"}
               PROVE  Len(cache) <= MaxEntries
    BY DEF CacheBounded
  <2>1. Fresh = {} /\ Checking = {}
    BY DEF Fresh, Checking
  <2>2. Cardinality(KeysOf(cache)) <= MaxEntries + Cardinality({})
    BY <2>1 DEF CacheInv, RoomInv
  <2>3. Cardinality({}) = 0
    BY FS_EmptySet
  <2>4. Cardinality(KeysOf(cache)) = Len(cache)
    BY KeysFinite DEF CacheInv, CacheType
  <2>5. QED
    BY <2>2, <2>3, <2>4, PromptAssumption
<1>2. QED
  BY <1>1, CacheInvariance, PTL
=============================================================================
