--------------------------- MODULE CommandsProofs ---------------------------
(***************************************************************************)
(* The gates hold for any number of threads, sessions and requests: what a  *)
(* thread is about to log and to do was admitted by them, whatever the      *)
(* others do in between, because neither the policies nor the command of a  *)
(* request change once the gates have looked at them.  The rate limit is    *)
(* overshot by no more than one message of each other thread.               *)
(***************************************************************************)
EXTENDS Commands, FiniteSetTheorems, WellFoundedInduction, TLAPS

\* A request on its way has a command and, past the lookup, a session.
BusyInv ==
  \A t \in Threads :
    /\ pc[t] # "idle" => command[t] \in Command
    /\ pc[t] \in {"check", "append", "effect", "promote"} => target[t] \in Sessions

\* What is admitted and not yet answered went through the gates.
GateInv ==
  \A t \in Threads : pc[t] \in {"append", "effect"} =>
    /\ command[t].intent \in MemoryIntents =>
         setup.memory /\ ~ResourceRefuses(command[t].intent)
    /\ (command[t].intent \in Checked /\ setup.guard) =>
         Guarded \notin Scanned(command[t])

IInv == TypeOK /\ BusyInv /\ GateInv /\ WritesAllowed /\ GuardHolds
-----------------------------------------------------------------------------
(* Proofs                                                                   *)

\* Writes pass the resource gate only where they are allowed and need no
\* approval.
LEMMA WritePassed ==
  ASSUME TypeOK, NEW i \in MemoryIntents, i # "read", ~ResourceRefuses(i)
  PROVE  setup.write = "allow" /\ ~setup.writeApproval
BY CommandsAssumption DEF TypeOK, Setup, ResourceRefuses, RequiresApproval,
   IsAllowed, Operation

LEMMA InitInv == Init => IInv
<1> SUFFICES ASSUME Init PROVE IInv
  OBVIOUS
<1> USE CommandsAssumption DEF Init
<1>1. TypeOK
  BY DEF TypeOK, Places, NoCommand
<1>2. BusyInv /\ GateInv
  BY DEF BusyInv, GateInv
<1>3. WritesAllowed /\ GuardHolds
  BY DEF WritesAllowed, GuardHolds
<1>4. QED
  BY <1>1, <1>2, <1>3 DEF IInv

\* A step that neither logs nor writes, and leaves the other threads alone,
\* disturbs the invariants of its own thread only.
LEMMA ReceiveInv ==
  ASSUME IInv, NEW t \in Threads, NEW input \in Inputs[setup], Receive(t, input)
  PROVE  IInv'
<1> USE DEF IInv, Receive, Goto
<1>0. input \in Input
  BY CommandsAssumption DEF TypeOK, Input
<1>1. command'[t] \in Command
  BY <1>0 DEF TypeOK, Input, Command, Intent, Words
<1>2. TypeOK'
  BY <1>1 DEF TypeOK, Places, store
<1>3. BusyInv' /\ GateInv'
  BY <1>1 DEF BusyInv, GateInv, TypeOK, store, ResourceRefuses, IsAllowed,
     RequiresApproval
<1>4. WritesAllowed' /\ GuardHolds'
  BY DEF WritesAllowed, GuardHolds, store
<1>5. QED
  BY <1>2, <1>3, <1>4

LEMMA FindInv ==
  ASSUME IInv, NEW t \in Threads, FindSession(t)
  PROVE  IInv'
<1> USE DEF IInv, FindSession, Goto, Loaded
<1>1. TypeOK'
  <2>1. PICK s \in live : Loaded(t, s)
    OBVIOUS
  <2>2. /\ target' \in [Threads -> Sessions \cup {NoSession}]
        /\ snap' \in [Threads -> Seq(Message)]
    BY <2>1 DEF TypeOK
  <2>3. /\ pc' \in {[pc EXCEPT ![t] = "append"], [pc EXCEPT ![t] = "check"]}
        /\ stamp' \in {[stamp EXCEPT ![t] = clock], stamp}
    OBVIOUS
  <2>4. stamp' \in [Threads -> Nat] /\ pc' \in [Threads -> Places]
    BY SMTT(60), <2>3 DEF TypeOK, Places
  <2>5. QED
    BY <2>2, <2>4 DEF TypeOK, store
<1>2. BusyInv'
  BY DEF BusyInv, TypeOK
<1>3. GateInv'
  BY DEF GateInv, TypeOK, MemoryIntents, Checked, ResourceRefuses, IsAllowed,
     RequiresApproval
<1>4. WritesAllowed' /\ GuardHolds'
  BY DEF WritesAllowed, GuardHolds, store
<1>5. QED
  BY <1>1, <1>2, <1>3, <1>4

\* A response touches its own thread only.
LEMMA RespondInv ==
  ASSUME TypeOK, BusyInv, GateInv, NEW t \in Threads, Respond(t), UNCHANGED setup
  PROVE  /\ pc' \in [Threads -> Places]
         /\ command' \in [Threads -> Command \cup {NoCommand}]
         /\ target' \in [Threads -> Sessions \cup {NoSession}]
         /\ snap' \in [Threads -> Seq(Message)]
         /\ stamp' \in [Threads -> Nat]
         /\ BusyInv' /\ GateInv'
<1> USE DEF Respond, Goto, TypeOK
<1>1. /\ pc' \in [Threads -> Places]
      /\ command' \in [Threads -> Command \cup {NoCommand}]
      /\ target' \in [Threads -> Sessions \cup {NoSession}]
      /\ snap' \in [Threads -> Seq(Message)]
      /\ stamp' \in [Threads -> Nat]
  BY DEF Places
<1>2. BusyInv'
  BY DEF BusyInv
<1>3. GateInv'
  BY DEF GateInv, ResourceRefuses, IsAllowed, RequiresApproval
<1>4. QED
  BY <1>1, <1>2, <1>3

LEMMA CreateInv ==
  ASSUME IInv, NEW t \in Threads, NEW s \in Sessions, CreateSession(t, s)
  PROVE  IInv'
<1> USE DEF IInv, CreateSession
<1>1. WritesAllowed' /\ GuardHolds'
  BY DEF WritesAllowed, GuardHolds
<1>2. CASE command[t].intent = "archive"
  BY <1>1, <1>2, RespondInv DEF TypeOK
<1>3. CASE command[t].intent # "archive"
  <2> USE <1>3 DEF Loaded, Goto
  <2>1. TypeOK'
    BY DEF TypeOK, Places
  <2>2. BusyInv'
    BY DEF BusyInv, TypeOK
  <2>3. GateInv'
    BY DEF GateInv, TypeOK, ResourceRefuses, IsAllowed, RequiresApproval
  <2>4. QED
    BY <1>1, <2>1, <2>2, <2>3
<1>4. QED
  BY <1>2, <1>3

LEMMA RefuseInv ==
  ASSUME IInv, NEW t \in Threads, Refuse(t) \/ Answer(t)
  PROVE  IInv'
<1> USE DEF IInv, Refuse, Answer, store
<1>1. TypeOK' /\ BusyInv' /\ GateInv'
  BY RespondInv DEF TypeOK
<1>2. WritesAllowed' /\ GuardHolds'
  BY DEF WritesAllowed, GuardHolds
<1>3. QED
  BY <1>1, <1>2

LEMMA AdmitInv ==
  ASSUME IInv, NEW t \in Threads, Admit(t)
  PROVE  IInv'
<1> USE DEF IInv, Admit, Goto, store
<1>1. TypeOK'
  BY DEF TypeOK, Places
<1>2. BusyInv'
  BY DEF BusyInv, TypeOK
<1>3. GateInv'
  <2> SUFFICES ASSUME NEW u \in Threads, pc'[u] \in {"append", "effect"}
               PROVE  /\ command[u].intent \in MemoryIntents =>
                           setup.memory /\ ~ResourceRefuses(command[u].intent)
                      /\ (command[u].intent \in Checked /\ setup.guard) =>
                           Guarded \notin Scanned(command[u])
    BY DEF GateInv, ResourceRefuses, IsAllowed, RequiresApproval
  <2>1. CASE u = t
    BY <2>1 DEF Admitted, Disabled, PolicyRefuses
  <2>2. CASE u # t
    BY <2>2 DEF GateInv, TypeOK
  <2>3. QED
    BY <2>1, <2>2
<1>4. WritesAllowed' /\ GuardHolds'
  BY DEF WritesAllowed, GuardHolds
<1>5. QED
  BY <1>1, <1>2, <1>3, <1>4

LEMMA AppendInv ==
  ASSUME IInv, NEW t \in Threads, AppendMessage(t)
  PROVE  IInv'
<1> USE DEF IInv, AppendMessage, Goto, local
<1> DEFINE s == target[t]
           m == [by |-> command[t].intent, text |-> Logged(command[t]), at |-> stamp[t]]
<1>1. s \in Sessions /\ command[t] \in Command
  BY DEF BusyInv
<1>2. m \in Message
  BY <1>1 DEF Message, Command, Logged, TypeOK
<1>3. /\ log[s] \in Seq(Message)
      /\ log'[s] = Append(log[s], m)
      /\ \A r \in Sessions : r # s => log'[r] = log[r]
  BY <1>1 DEF TypeOK
<1>4. log'[s] \in Seq(Message)
  BY <1>2, <1>3
<1>5. TypeOK'
  BY <1>3, <1>4 DEF TypeOK, Places
<1>6. BusyInv' /\ GateInv'
  BY DEF BusyInv, GateInv, TypeOK, ResourceRefuses, IsAllowed, RequiresApproval
<1>7. (setup.guard /\ m.by \in {"chat", "delegate"}) => Guarded \notin m.text
  BY <1>1 DEF GateInv, Checked, Scanned
<1>8. GuardHolds'
  <2> SUFFICES ASSUME setup.guard, NEW r \in Sessions, NEW n \in 1..Len(log'[r]),
                      log'[r][n].by \in {"chat", "delegate"}
               PROVE  Guarded \notin log'[r][n].text
    BY DEF GuardHolds
  <2>1. CASE r = s /\ n = Len(log[s]) + 1
    BY <1>3, <1>7, <2>1
  <2>2. CASE r = s /\ n # Len(log[s]) + 1
    <3>1. n \in 1..Len(log[s]) /\ log'[s][n] = log[s][n]
      BY <1>2, <1>3, <2>2
    <3>2. QED
      BY <1>1, <2>2, <3>1 DEF GuardHolds
  <2>3. CASE r # s
    BY <1>3, <2>3 DEF GuardHolds
  <2>4. QED
    BY <2>1, <2>2, <2>3
<1>9. WritesAllowed'
  BY DEF WritesAllowed
<1>10. QED
  BY <1>5, <1>6, <1>8, <1>9

LEMMA IngestInv ==
  ASSUME IInv, NEW t \in Threads, Ingest(t)
  PROVE  IInv'
<1> USE DEF IInv, Ingest, Effect
<1> DEFINE m == [kind |-> IF command[t].intent = "remember" THEN "claim" ELSE "record",
                 text |-> command[t].text]
<1>1. command[t] \in Command
  BY DEF BusyInv
<1>2. m \in Item /\ memory' = memory \cup {m}
  BY <1>1 DEF Item, Command
<1>3. TypeOK' /\ BusyInv' /\ GateInv'
  BY <1>2, RespondInv DEF TypeOK
<1>4. setup.memory /\ setup.write = "allow" /\ ~setup.writeApproval
  BY WritePassed DEF GateInv, MemoryIntents
<1>5. WritesAllowed'
  BY <1>4 DEF WritesAllowed
<1>6. (setup.guard /\ m.kind = "claim") => Guarded \notin m.text
  BY DEF GateInv, Checked, Scanned
<1>7. GuardHolds'
  BY <1>2, <1>6 DEF GuardHolds
<1>8. QED
  BY <1>3, <1>5, <1>7

\* What only takes from memory keeps the gates.
LEMMA ShrinkInv ==
  ASSUME IInv, NEW t \in Threads, Forget(t) \/ Remove(t)
  PROVE  IInv'
<1> USE DEF IInv, Forget, Remove
<1>1. memory' \subseteq memory
  OBVIOUS
<1>2. TypeOK' /\ BusyInv' /\ GateInv'
  BY <1>1, RespondInv DEF TypeOK
<1>3. WritesAllowed' /\ GuardHolds'
  BY <1>1 DEF WritesAllowed, GuardHolds
<1>4. QED
  BY <1>2, <1>3

LEMMA ArchiveInv ==
  ASSUME IInv, NEW t \in Threads, Archive(t)
  PROVE  IInv'
<1> USE DEF IInv, Archive, Effect, Goto
<1>1. target[t] \in Sessions
  BY DEF BusyInv
<1>2. TypeOK'
  BY <1>1 DEF TypeOK, Places
<1>3. BusyInv' /\ GateInv'
  BY DEF BusyInv, GateInv, TypeOK, ResourceRefuses, IsAllowed, RequiresApproval
<1>4. WritesAllowed' /\ GuardHolds'
  BY DEF WritesAllowed, GuardHolds
<1>5. QED
  BY <1>2, <1>3, <1>4

LEMMA PromoteInv ==
  ASSUME IInv, NEW t \in Threads, Promote(t)
  PROVE  IInv'
<1> USE DEF IInv, Promote
<1>1. CASE setup.memory /\ setup.promote /\ IsAllowed("write")
  <2>1. PICK text \in SUBSET TextOf(snap[t]) :
          memory' = memory \cup {[kind |-> "archive", text |-> text]}
    BY <1>1
  <2>2. \A n \in 1..Len(snap[t]) : snap[t][n] \in Message
    BY DEF TypeOK
  <2>3. text \subseteq Marks
    BY <2>2 DEF TextOf, Message
  <2>4. memory' \subseteq Item
    BY <2>1, <2>3 DEF TypeOK, Item
  <2>5. TypeOK' /\ BusyInv' /\ GateInv'
    BY <2>4, RespondInv DEF TypeOK
  <2>6. WritesAllowed' /\ GuardHolds'
    BY <1>1, <2>1 DEF WritesAllowed, GuardHolds, IsAllowed
  <2>7. QED
    BY <2>5, <2>6
<1>2. CASE ~(setup.memory /\ setup.promote /\ IsAllowed("write"))
  <2>1. UNCHANGED <<setup, log, memory>>
    BY <1>2
  <2>2. TypeOK' /\ BusyInv' /\ GateInv'
    BY <2>1, RespondInv DEF TypeOK
  <2>3. WritesAllowed' /\ GuardHolds'
    BY <2>1 DEF WritesAllowed, GuardHolds
  <2>4. QED
    BY <2>2, <2>3
<1>3. QED
  BY <1>1, <1>2

LEMMA TickInv == ASSUME IInv, Tick \/ UNCHANGED vars PROVE IInv'
<1> USE DEF IInv, Tick, vars, store, local
<1>1. TypeOK'
  BY DEF TypeOK
<1>2. BusyInv' /\ GateInv'
  BY DEF BusyInv, GateInv, ResourceRefuses, IsAllowed, RequiresApproval
<1>3. WritesAllowed' /\ GuardHolds'
  BY DEF WritesAllowed, GuardHolds
<1>4. QED
  BY <1>1, <1>2, <1>3

LEMMA NextInv == IInv /\ [Next]_vars => IInv'
<1> SUFFICES ASSUME IInv, [Next]_vars PROVE IInv'
  OBVIOUS
<1>1. CASE Tick \/ UNCHANGED vars
  BY <1>1, TickInv
<1>2. ASSUME NEW t \in Threads, NEW input \in Inputs[setup], Receive(t, input)
      PROVE  IInv'
  BY <1>2, ReceiveInv
<1>3. ASSUME NEW t \in Threads, Step(t)
      PROVE  IInv'
  BY <1>3, FindInv, CreateInv, RefuseInv, AdmitInv, AppendInv, IngestInv,
     ShrinkInv, ArchiveInv, PromoteInv DEF Step
<1>4. QED
  BY <1>1, <1>2, <1>3 DEF Next

\* Whatever the threads interleave, the types and the verdicts of the gates
\* hold.
THEOREM Invariance == Spec => []IInv
BY InitInv, NextInv, PTL DEF Spec

\* Every variable keeps its type.
THEOREM TypeCorrect == Spec => []TypeOK
BY Invariance, PTL DEF IInv

\* Gate 5: nothing is written to memory that the resource policy refuses or
\* wants approved, promotions excepted, which only need the permission.
THEOREM WritesAreAllowed == Spec => []WritesAllowed
BY Invariance, PTL DEF IInv

\* Gate 1: guarded text reaches neither the chat nor the claims.
THEOREM GuardsHold == Spec => []GuardHolds
BY Invariance, PTL DEF IInv
-----------------------------------------------------------------------------
(* The rate limit                                                           *)

\* Messages of a sequence within a minute before a time.
Within(messages, time) ==
  {n \in 1..Len(messages) : time - messages[n].at <= Minute}
\* ... and those of its first k.
Before(messages, k, time) == {n \in 1..k : time - messages[n].at <= Minute}

\* Where a session's messages may have come from: message n was logged by
\* thread who[n], which had loaded seen[n] messages by then, all of its own
\* earlier ones among them, and too few within a minute to be refused.
Explains(s, who, seen) ==
  /\ \A n \in 1..Len(log[s]) : seen[n] < n
  /\ \A m, n \in 1..Len(log[s]) : m < n /\ who[m] = who[n] => m <= seen[n]
  /\ \A n \in 1..Len(log[s]) : setup.rpm > 0 /\ log[s][n].by \in Checked =>
       Cardinality(Before(log[s], seen[n], log[s][n].at)) < setup.rpm

\* A thread between the load and its append holds the beginning of the log,
\* all of its own messages among it, and was not refused either.
Holds(t, who) ==
  pc[t] \in {"check", "append"} =>
    /\ Len(snap[t]) <= Len(log[target[t]])
    /\ \A n \in 1..Len(snap[t]) : snap[t][n] = log[target[t]][n]
    /\ \A n \in 1..Len(log[target[t]]) : who[n] = t => n <= Len(snap[t])
    /\ (pc[t] = "append" /\ setup.rpm > 0 /\ command[t].intent \in Checked) =>
         Cardinality(Within(snap[t], stamp[t])) < setup.rpm

RateInv ==
  \A s \in Sessions :
    \E who \in [1..Len(log[s]) -> Threads], seen \in [1..Len(log[s]) -> 0..Len(log[s])] :
      /\ Explains(s, who, seen)
      /\ \A t \in Threads : target[t] = s => Holds(t, who)

\* What a step that logs nothing may do to a thread.
Settled(t) ==
  \/ pc'[t] \notin {"check", "append"}
  \/ /\ pc'[t] = pc[t] /\ target'[t] = target[t] /\ snap'[t] = snap[t]
     /\ stamp'[t] = stamp[t] /\ command'[t] = command[t]
  \/ /\ snap'[t] = log[target'[t]]
     /\ pc'[t] = "append" => command'[t].intent \notin Checked
  \/ /\ pc[t] = "check" /\ target'[t] = target[t] /\ snap'[t] = snap[t]
     /\ command'[t] = command[t]
     /\ (setup.rpm > 0 /\ command[t].intent \in Checked) =>
          Cardinality(Within(snap[t], stamp'[t])) < setup.rpm

LEMMA SettledRate ==
  ASSUME TypeOK, RateInv, log' = log, setup' = setup,
         \A t \in Threads : Settled(t)
  PROVE  RateInv'
<1> SUFFICES ASSUME NEW s \in Sessions
             PROVE  \E who \in [1..Len(log[s]) -> Threads],
                       seen \in [1..Len(log[s]) -> 0..Len(log[s])] :
                      /\ Explains(s, who, seen)'
                      /\ \A t \in Threads : target'[t] = s => Holds(t, who)'
  BY DEF RateInv
<1>1. PICK who \in [1..Len(log[s]) -> Threads],
           seen \in [1..Len(log[s]) -> 0..Len(log[s])] :
        /\ Explains(s, who, seen)
        /\ \A t \in Threads : target[t] = s => Holds(t, who)
  BY DEF RateInv
<1>2. Explains(s, who, seen)'
  BY <1>1 DEF Explains, Before
<1>3. ASSUME NEW t \in Threads, target'[t] = s PROVE Holds(t, who)'
  <2>1. CASE pc'[t] \notin {"check", "append"}
    BY <2>1 DEF Holds
  <2>2. CASE /\ pc'[t] = pc[t] /\ target'[t] = target[t] /\ snap'[t] = snap[t]
             /\ stamp'[t] = stamp[t] /\ command'[t] = command[t]
    BY <1>1, <1>3, <2>2 DEF Holds, Within
  <2>3. CASE /\ snap'[t] = log[target'[t]]
             /\ pc'[t] = "append" => command'[t].intent \notin Checked
    <3>1. Len(log[s]) \in Nat
      BY DEF TypeOK
    <3>2. QED
      BY <1>3, <2>3, <3>1 DEF Holds
  <2>4. CASE /\ pc[t] = "check" /\ target'[t] = target[t] /\ snap'[t] = snap[t]
             /\ command'[t] = command[t]
             /\ (setup.rpm > 0 /\ command[t].intent \in Checked) =>
                  Cardinality(Within(snap[t], stamp'[t])) < setup.rpm
    <3>1. Within(snap'[t], stamp'[t]) = Within(snap[t], stamp'[t])
      BY <2>4
    <3>2. Within(snap[t], stamp[t])' = Within(snap[t], stamp'[t])
      BY <2>4 DEF Within
    <3>3. Holds(t, who)
      BY <1>1, <1>3, <2>4
    <3>4. QED
      BY <2>4, <3>2, <3>3 DEF Holds
  <2>5. QED
    BY <2>1, <2>2, <2>3, <2>4 DEF Settled
<1>4. QED
  BY <1>1, <1>2, <1>3

\* Sets of positions.
LEMMA PositionsFinite ==
  ASSUME NEW k \in Nat, NEW S, S \subseteq 1..k
  PROVE  IsFiniteSet(S) /\ Cardinality(S) \in Nat
<1>1. IsFiniteSet(1..k)
  BY FS_Interval
<1>2. QED
  BY <1>1, FS_Subset, FS_CardinalityType

\* An append.
LEMMA AppendRate ==
  ASSUME IInv, RateInv, NEW t \in Threads, AppendMessage(t)
  PROVE  RateInv'
<1>s. PICK s : s = target[t]
  OBVIOUS
<1>m. PICK m : m = [by |-> command[t].intent, text |-> Logged(command[t]),
                    at |-> stamp[t]]
  OBVIOUS
<1>l. PICK L : L = Len(log[s])
  OBVIOUS
<1>0. TypeOK /\ pc[t] = "append" /\ pc' = [pc EXCEPT ![t] = "effect"]
      /\ UNCHANGED <<setup, command, target, snap, stamp>>
  BY DEF IInv, AppendMessage, Goto, local
<1>1. s \in Sessions /\ command[t] \in Command
  BY <1>0, <1>s DEF IInv, BusyInv
<1>2. m \in Message
  BY <1>0, <1>1, <1>m DEF Message, Command, Logged, TypeOK
<1>3. /\ log[s] \in Seq(Message) /\ L \in Nat
      /\ log'[s] = Append(log[s], m)
      /\ \A r \in Sessions : r # s => log'[r] = log[r]
  BY <1>0, <1>1, <1>l, <1>m, <1>s DEF TypeOK, AppendMessage
<1>4. /\ Len(log'[s]) = L + 1 /\ log'[s][L + 1] = m
      /\ \A n \in 1..L : log'[s][n] = log[s][n]
  BY <1>2, <1>3, <1>l
<1>5. ASSUME NEW u \in Threads
      PROVE  /\ pc'[u] = (IF u = t THEN "effect" ELSE pc[u])
             /\ pc[u] \in {"check", "append"} => target[u] \in Sessions
             /\ snap[u] \in Seq(Message) /\ Len(snap[u]) \in Nat
  <2>1. pc'[u] = (IF u = t THEN "effect" ELSE pc[u])
    BY <1>0 DEF TypeOK
  <2>2. pc[u] \in {"check", "append"} => target[u] \in Sessions
    BY DEF IInv, BusyInv
  <2>3. snap[u] \in Seq(Message)
    BY <1>0 DEF TypeOK
  <2>4. QED
    BY <2>1, <2>2, <2>3
\* Sessions other than s.
<1>6. ASSUME NEW r \in Sessions, r # s
      PROVE  \E who \in [1..Len(log'[r]) -> Threads],
                seen \in [1..Len(log'[r]) -> 0..Len(log'[r])] :
               /\ Explains(r, who, seen)'
               /\ \A u \in Threads : target'[u] = r => Holds(u, who)'
  <2>1. PICK who \in [1..Len(log[r]) -> Threads],
             seen \in [1..Len(log[r]) -> 0..Len(log[r])] :
          /\ Explains(r, who, seen)
          /\ \A u \in Threads : target[u] = r => Holds(u, who)
    BY DEF RateInv
  <2>2. log'[r] = log[r]
    BY <1>3, <1>6
  <2>3. Explains(r, who, seen)'
    BY <1>0, <2>1, <2>2 DEF Explains, Before
  <2>4. ASSUME NEW u \in Threads, target'[u] = r PROVE Holds(u, who)'
    <3>1. Holds(u, who) /\ target[u] = r /\ u # t
      BY <1>0, <1>6, <1>s, <2>1, <2>4
    <3>2. pc'[u] = pc[u] /\ log'[target'[u]] = log[target[u]]
      BY <1>0, <1>5, <2>2, <2>4, <3>1
    <3>3. QED
      BY <1>0, <3>1, <3>2 DEF Holds, Within
  <2>5. QED
    BY <2>1, <2>2, <2>3, <2>4
\* The session itself.
<1>7. \E who \in [1..Len(log'[s]) -> Threads],
         seen \in [1..Len(log'[s]) -> 0..Len(log'[s])] :
        /\ Explains(s, who, seen)'
        /\ \A u \in Threads : target'[u] = s => Holds(u, who)'
  <2>1. PICK who \in [1..L -> Threads], seen \in [1..L -> 0..L] :
          /\ Explains(s, who, seen)
          /\ \A u \in Threads : target[u] = s => Holds(u, who)
    BY <1>1, <1>l DEF RateInv
  <2>2. Holds(t, who)
    BY <1>s, <2>1
  <2>k. PICK K : K = Len(snap[t])
    OBVIOUS
  <2>w. PICK who1 : who1 = [n \in 1..(L + 1) |-> IF n = L + 1 THEN t ELSE who[n]]
    OBVIOUS
  <2>e. PICK seen1 : seen1 = [n \in 1..(L + 1) |-> IF n = L + 1 THEN K ELSE seen[n]]
    OBVIOUS
  <2>3. /\ K \in Nat /\ K <= L
        /\ \A n \in 1..K : snap[t][n] = log[s][n]
        /\ \A n \in 1..L : who[n] = t => n <= K
        /\ (setup.rpm > 0 /\ command[t].intent \in Checked) =>
             Cardinality(Within(snap[t], stamp[t])) < setup.rpm
    BY <1>0, <1>5, <1>l, <1>s, <2>2, <2>k DEF Holds
  <2>4. /\ who1 \in [1..(L + 1) -> Threads]
        /\ seen1 \in [1..(L + 1) -> 0..(L + 1)]
        /\ who1[L + 1] = t /\ seen1[L + 1] = K
        /\ \A n \in 1..L : who1[n] = who[n] /\ seen1[n] = seen[n]
    BY <1>3, <2>3, <2>w, <2>e
  <2>5. \A n \in 1..(L + 1) : n \in 1..L \/ n = L + 1
    BY <1>3
  <2>6. /\ \A n \in 1..L : seen[n] < n /\ seen[n] \in 0..L
        /\ \A i, n \in 1..L : i < n /\ who[i] = who[n] => i <= seen[n]
        /\ \A n \in 1..L : setup.rpm > 0 /\ log[s][n].by \in Checked =>
             Cardinality(Before(log[s], seen[n], log[s][n].at)) < setup.rpm
    BY <1>l, <2>1 DEF Explains
  <2>7. \A n \in 1..(L + 1) : seen1[n] < n
    BY <1>3, <2>3, <2>4, <2>5, <2>6
  <2>8. ASSUME NEW i \in 1..(L + 1), NEW n \in 1..(L + 1), i < n, who1[i] = who1[n]
        PROVE  i <= seen1[n]
    <3>1. i \in 1..L
      BY <1>3, <2>8
    <3>2. QED
      BY <2>3, <2>4, <2>5, <2>6, <2>8, <3>1
  <2>9. ASSUME NEW n \in 1..(L + 1), setup.rpm > 0, log'[s][n].by \in Checked
        PROVE  Cardinality(Before(log'[s], seen1[n], log'[s][n].at)) < setup.rpm
    <3>1. CASE n \in 1..L
      <4>1. \A i \in 1..seen[n] : log'[s][i] = log[s][i]
        BY <1>3, <1>4, <2>6, <3>1
      <4>2. Before(log'[s], seen1[n], log'[s][n].at)
              = Before(log[s], seen[n], log[s][n].at)
        BY <1>4, <2>4, <3>1, <4>1 DEF Before
      <4>3. QED
        BY <1>4, <2>6, <2>9, <3>1, <4>2
    <3>2. CASE n = L + 1
      <4>1. \A i \in 1..K : log'[s][i] = snap[t][i]
        BY <1>3, <1>4, <2>3
      <4>2. log'[s][n].at = stamp[t] /\ log'[s][n].by = command[t].intent
        BY <1>4, <1>m, <3>2
      <4>3. Before(log'[s], seen1[n], log'[s][n].at) = Within(snap[t], stamp[t])
        BY <2>4, <2>k, <3>2, <4>1, <4>2 DEF Before, Within
      <4>4. QED
        BY <2>3, <2>9, <4>2, <4>3
    <3>3. QED
      BY <2>5, <3>1, <3>2
  <2>10. Explains(s, who1, seen1)'
    BY <1>0, <1>4, <2>7, <2>8, <2>9 DEF Explains
  <2>11. ASSUME NEW u \in Threads, target'[u] = s PROVE Holds(u, who1)'
    <3>1. CASE u = t
      BY <1>0, <1>5, <3>1 DEF Holds
    <3>2. CASE u # t
      <4>1. Holds(u, who) /\ Len(snap[u]) \in Nat /\ target[u] = s
        BY <1>0, <1>5, <2>1, <2>11
      <4>2. pc[u] \in {"check", "append"} =>
              /\ Len(snap[u]) <= L + 1
              /\ \A n \in 1..Len(snap[u]) : snap[u][n] = log'[s][n]
              /\ \A n \in 1..(L + 1) : who1[n] = u => n <= Len(snap[u])
        <5> HAVE pc[u] \in {"check", "append"}
        <5>1. /\ Len(snap[u]) <= L
              /\ \A n \in 1..Len(snap[u]) : snap[u][n] = log[s][n]
              /\ \A n \in 1..L : who[n] = u => n <= Len(snap[u])
          BY <1>l, <4>1 DEF Holds
        <5>2. \A n \in 1..Len(snap[u]) : n \in 1..L
          BY <1>3, <4>1, <5>1
        <5>3. Len(snap[u]) <= L + 1
          BY <1>3, <4>1, <5>1
        <5>4. \A n \in 1..(L + 1) : who1[n] = u => n <= Len(snap[u])
          BY <2>4, <2>5, <3>2, <5>1
        <5>5. QED
          BY <1>4, <5>1, <5>2, <5>3, <5>4
      <4>3. QED
        BY <1>0, <1>4, <1>5, <3>2, <4>1, <4>2 DEF Holds, Within
    <3>3. QED
      BY <3>1, <3>2
  <2>12. QED
    BY <1>4, <2>4, <2>10, <2>11
<1>8. QED
  BY <1>0, <1>6, <1>7 DEF RateInv

\* What is in force when a thread's message passes the gates.
LEMMA AdmitRate ==
  ASSUME TypeOK, NEW t \in Threads, Admit(t)
  PROVE  (setup.rpm > 0 /\ command[t].intent \in Checked) =>
           Cardinality(Within(snap[t], stamp'[t])) < setup.rpm
<1>1. /\ Len(snap[t]) \in Nat /\ setup.rpm \in Nat
      /\ stamp'[t] = clock
  BY CommandsAssumption DEF TypeOK, Admit, Setup
<1>2. Within(snap[t], clock) = Recent(snap[t])
  BY DEF Within, Recent
<1>3. Cardinality(Recent(snap[t])) \in Nat
  BY <1>1, PositionsFinite DEF Recent
<1>4. command[t].intent \in Checked => ~TooMany(snap[t])
  BY DEF Admit, Admitted, PolicyRefuses
<1>5. QED
  BY <1>1, <1>2, <1>3, <1>4 DEF TooMany

LEMMA RateStep ==
  ASSUME IInv, RateInv, [Next]_vars
  PROVE  RateInv'
<1>0. TypeOK
  BY DEF IInv
<1>1. ASSUME NEW t \in Threads, log' = log, setup' = setup, Settled(t),
             \A u \in Threads \ {t} :
               /\ pc'[u] = pc[u] /\ target'[u] = target[u]
               /\ snap'[u] = snap[u]
               /\ stamp'[u] = stamp[u] /\ command'[u] = command[u]
      PROVE  RateInv'
  BY <1>0, <1>1, SettledRate DEF Settled
<1>2. ASSUME log' = log, setup' = setup, pc' = pc, UNCHANGED local
      PROVE  RateInv'
  BY <1>0, <1>2, SettledRate DEF Settled, local
<1>3. ASSUME NEW t \in Threads, Respond(t), log' = log, setup' = setup
      PROVE  RateInv'
  <2>1. pc'[t] \notin {"check", "append"}
    BY <1>0, <1>3 DEF Respond, Goto, TypeOK
  <2>2. QED
    BY <1>0, <1>1, <1>3, <2>1 DEF Respond, Goto, TypeOK, Settled
<1>4. ASSUME NEW t \in Threads, NEW input \in Inputs[setup], Receive(t, input)
      PROVE  RateInv'
  <2>1. pc'[t] = "find"
    BY <1>0, <1>4 DEF Receive, Goto, TypeOK
  <2>2. QED
    BY <1>0, <1>1, <1>4, <2>1 DEF Receive, Goto, TypeOK, Settled, store
<1>5. ASSUME NEW t \in Threads, FindSession(t) PROVE RateInv'
  <2>1. PICK s \in live : Loaded(t, s)
    BY <1>5 DEF FindSession
  <2>2. target'[t] = s /\ snap'[t] = log[s]
    BY <1>0, <2>1 DEF Loaded, TypeOK
  <2>3. command[t].intent # "archive" => pc'[t] = "check"
    BY <1>0, <1>5 DEF FindSession, Goto, TypeOK
  <2>4. Settled(t)
    BY <1>5, <2>2, <2>3 DEF Settled, FindSession, Checked
  <2>5. \A u \in Threads \ {t} :
          /\ pc'[u] = pc[u] /\ target'[u] = target[u] /\ snap'[u] = snap[u]
          /\ stamp'[u] = stamp[u] /\ command'[u] = command[u]
    BY <1>0, <1>5, <2>1 DEF Loaded, FindSession, Goto, TypeOK
  <2>6. QED
    BY <1>1, <1>5, <2>4, <2>5 DEF FindSession, store
<1>6. ASSUME NEW t \in Threads, NEW s \in Sessions, CreateSession(t, s)
      PROVE  RateInv'
  <2>1. log' = log /\ setup' = setup
    BY <1>6 DEF CreateSession
  <2>2. CASE command[t].intent = "archive"
    BY <1>3, <1>6, <2>1, <2>2 DEF CreateSession
  <2>3. CASE command[t].intent # "archive"
    <3>1. Loaded(t, s) /\ Goto(t, "check") /\ UNCHANGED <<command, stamp>>
      BY <1>6, <2>3 DEF CreateSession
    <3>2. target'[t] = s /\ snap'[t] = log[s] /\ pc'[t] = "check"
      BY <1>0, <3>1 DEF Loaded, Goto, TypeOK
    <3>3. QED
      BY <1>0, <1>1, <2>1, <3>1, <3>2 DEF Settled, Loaded, Goto, TypeOK
  <2>4. QED
    BY <2>2, <2>3
<1>7. ASSUME NEW t \in Threads, Admit(t) PROVE RateInv'
  <2>1. /\ pc[t] = "check" /\ UNCHANGED <<command, target, snap>>
        /\ log' = log /\ setup' = setup
    BY <1>7 DEF Admit, store
  <2>2. Settled(t)
    BY <1>0, <1>7, <2>1, AdmitRate DEF Settled
  <2>3. QED
    BY <1>0, <1>1, <1>7, <2>1, <2>2 DEF Admit, Goto, TypeOK
<1>8. ASSUME NEW t \in Threads, Archive(t) PROVE RateInv'
  <2>1. pc'[t] = "promote"
    BY <1>0, <1>8 DEF Archive, Goto, TypeOK
  <2>2. QED
    BY <1>0, <1>1, <1>8, <2>1 DEF Archive, Goto, TypeOK, Settled
<1>9. ASSUME NEW t \in Threads, Step(t) PROVE RateInv'
  BY <1>3, <1>5, <1>6, <1>7, <1>8, <1>9, AppendRate
  DEF Step, Refuse, Answer, Ingest, Forget, Remove, Promote, store
<1>10. CASE Tick \/ UNCHANGED vars
  BY <1>2, <1>10 DEF Tick, vars, store
<1>11. QED
  BY <1>4, <1>9, <1>10 DEF Next

\* A finite set of positions has one that has seen most.
LEMMA LastSeen ==
  ASSUME NEW L \in Nat, NEW W \in SUBSET (1..L), W # {},
         NEW seen \in [1..L -> 0..L]
  PROVE  \E n \in W : \A i \in W : seen[i] <= seen[n]
<1> DEFINE R == {L - seen[n] : n \in W}
<1>0. \A n \in W : L - seen[n] \in Nat
  <2>1. \A n \in W : seen[n] \in 0..L
    OBVIOUS
  <2>2. QED
    BY <2>1
<1>1. R \in SUBSET Nat /\ R # {}
  BY <1>0
<1>2. PICK d \in R : \A e \in R : <<e, d>> \notin OpToRel(<, Nat)
  BY <1>1, NatLessThanWellFounded, WFMin
<1>3. PICK n \in W : d = L - seen[n]
  BY <1>2
<1>4. ASSUME NEW i \in W PROVE seen[i] <= seen[n]
  <2>1. L - seen[i] \in R /\ L - seen[i] \in Nat /\ d \in Nat
    BY <1>1, <1>2
  <2>2. ~(L - seen[i] < d)
    BY <1>2, <2>1 DEF OpToRel
  <2>3. seen[i] \in Int /\ seen[n] \in Int
    OBVIOUS
  <2>4. QED
    BY <1>3, <2>2, <2>3
<1>5. QED
  BY <1>4

\* What the invariant says of any minute.
LEMMA RateBound ==
  ASSUME TypeOK, RateInv, setup.rpm > 0, NEW s \in Sessions, NEW now \in 0..clock
  PROVE  Cardinality({n \in 1..Len(log[s]) :
           log[s][n].by \in Checked /\ now - log[s][n].at \in 0..Minute})
           <= setup.rpm - 1 + Cardinality(Threads)
<1> DEFINE L == Len(log[s])
           W == {n \in 1..L :
                   log[s][n].by \in Checked /\ now - log[s][n].at \in 0..Minute}
<1>1. PICK who \in [1..L -> Threads], seen \in [1..L -> 0..L] : Explains(s, who, seen)
  BY DEF RateInv
<1>2. /\ L \in Nat /\ setup.rpm \in Nat /\ now \in Int /\ Minute \in Nat
      /\ \A n \in 1..L : log[s][n].at \in Nat
  <2>1. log[s] \in Seq(Message)
    BY DEF TypeOK
  <2>2. \A n \in 1..L : log[s][n] \in Message
    BY <2>1
  <2>3. \A n \in 1..L : log[s][n].at \in Nat
    BY <2>2 DEF Message
  <2>4. QED
    BY <2>1, <2>3, CommandsAssumption DEF TypeOK, Setup
<1>3. IsFiniteSet(Threads) /\ Cardinality(Threads) \in Nat
  BY CommandsAssumption, FS_CardinalityType
<1>4. W \subseteq 1..L
  OBVIOUS
<1>5. CASE W = {}
  <2>1. Cardinality(W) = 0
    BY <1>5, FS_EmptySet
  <2>2. QED
    BY <1>2, <1>3, <2>1
<1>6. CASE W # {}
  <2>1. PICK n \in W : \A i \in W : seen[i] <= seen[n]
    BY <1>2, <1>4, <1>6, LastSeen
  <2> DEFINE Early == {i \in W : i <= seen[n]}
             Late == {i \in W : ~(i <= seen[n])}
  <2>2. /\ n \in 1..L /\ seen[n] \in 0..L /\ log[s][n].by \in Checked
        /\ now - log[s][n].at \in 0..Minute
    BY <2>1
  <2>3. Early \subseteq Before(log[s], seen[n], log[s][n].at)
    <3> SUFFICES ASSUME NEW i \in Early
                 PROVE  /\ i \in 1..seen[n]
                        /\ log[s][n].at - log[s][i].at <= Minute
      BY DEF Before
    <3>1. i \in 1..L /\ i <= seen[n] /\ now - log[s][i].at \in 0..Minute
      OBVIOUS
    <3>2. log[s][i].at \in Nat /\ log[s][n].at \in Nat
      BY <1>2, <2>2, <3>1
    <3>3. /\ now - log[s][i].at <= Minute /\ now - log[s][n].at >= 0
          /\ i >= 1 /\ i \in Int /\ seen[n] \in Int
      BY <1>2, <2>2, <3>1, <3>2
    <3>4. \A a, b \in Nat : now - b <= Minute /\ now - a >= 0 => a - b <= Minute
      <4>1. now \in Int /\ Minute \in Nat
        BY <1>2
      <4>2. QED
        BY ONLY <4>1
    <3>6. log[s][n].at - log[s][i].at <= Minute
      BY <3>2, <3>3, <3>4
    <3>5. QED
      BY <3>1, <3>3, <3>6
  <2>4. Cardinality(Before(log[s], seen[n], log[s][n].at)) < setup.rpm
    BY <1>1, <2>2 DEF Explains
  <2>5. /\ IsFiniteSet(Before(log[s], seen[n], log[s][n].at))
        /\ Cardinality(Before(log[s], seen[n], log[s][n].at)) \in Nat
    <3>1. Before(log[s], seen[n], log[s][n].at) \subseteq 1..seen[n]
      BY DEF Before
    <3>2. seen[n] \in Nat
      BY <1>2, <2>2
    <3>3. QED
      BY <3>1, <3>2, PositionsFinite
  <2>6. /\ IsFiniteSet(Early) /\ Cardinality(Early) \in Nat
        /\ Cardinality(Early) <= Cardinality(Before(log[s], seen[n], log[s][n].at))
    BY <2>3, <2>5, FS_Subset, FS_CardinalityType
  <2>7. Late \subseteq 1..L /\ IsFiniteSet(Late) /\ Cardinality(Late) \in Nat
    BY <1>2, <1>4, PositionsFinite
  <2>8. Cardinality(Late) <= Cardinality(Threads)
    <3> DEFINE f == [i \in Late |-> who[i]]
    <3>1. ASSUME NEW i \in Late, NEW j \in Late, f[i] = f[j] PROVE i = j
      <4>1. /\ who[i] = who[j] /\ i \in 1..L /\ j \in 1..L
            /\ seen[i] <= seen[n] /\ seen[j] <= seen[n]
            /\ ~(i <= seen[n]) /\ ~(j <= seen[n])
        BY <2>1, <3>1
      <4>2. seen[i] \in 0..L /\ seen[j] \in 0..L
        BY <4>1
      <4>3. (i < j => i <= seen[j]) /\ (j < i => j <= seen[i])
        BY <1>1, <4>1 DEF Explains
      <4>4. QED
        BY <1>2, <2>2, <4>1, <4>2, <4>3
    <3>2. f \in [Late -> Threads]
      BY <2>7
    <3>5. \A a, b \in Late : f[a] = f[b] => a = b
      BY <3>1
    <3> HIDE DEF f
    <3>6. DOMAIN f = Late
      BY <3>2
    <3>3. f \in Injection(Late, Threads)
      BY <3>2, <3>5, <3>6 DEF Injection, IsInjective
    <3>4. QED
      BY <1>3, <3>3, FS_Injection
  <2>9. W = Early \cup Late
    OBVIOUS
  <2>10. Early \cap Late = {}
    OBVIOUS
  <2> HIDE DEF Early, Late, W
  <2>11. Cardinality(W) = Cardinality(Early) + Cardinality(Late)
    <3>1. Cardinality(Early \cup Late)
            = Cardinality(Early) + Cardinality(Late) - Cardinality(Early \cap Late)
      BY <2>6, <2>7, FS_Union
    <3>2. Cardinality(Early \cap Late) = 0
      BY <2>10, FS_EmptySet
    <3>3. QED
      BY <2>6, <2>7, <2>9, <3>1, <3>2
  <2>12. Cardinality(Early) + Cardinality(Late)
           <= setup.rpm - 1 + Cardinality(Threads)
    BY <1>2, <1>3, <2>4, <2>5, <2>6, <2>7, <2>8
  <2>13. QED
    BY <2>11, <2>12 DEF W, L
<1>7. QED
  BY <1>5, <1>6

LEMMA RateInvariance == Spec => []RateInv
<1>1. Init => RateInv
  <2> SUFFICES ASSUME Init, NEW s \in Sessions
               PROVE  \E who \in [1..Len(log[s]) -> Threads],
                         seen \in [1..Len(log[s]) -> 0..Len(log[s])] :
                        /\ Explains(s, who, seen)
                        /\ \A t \in Threads : target[t] = s => Holds(t, who)
    BY DEF RateInv
  <2>1. log[s] = <<>> /\ Len(log[s]) = 0 /\ 1..Len(log[s]) = {}
    BY DEF Init
  <2>2. \A t \in Threads : target[t] # s
    BY CommandsAssumption DEF Init
  <2> DEFINE w == [n \in 1..Len(log[s]) |-> n]
  <2>3. /\ w \in [1..Len(log[s]) -> Threads]
        /\ w \in [1..Len(log[s]) -> 0..Len(log[s])]
    BY <2>1
  <2>4. Explains(s, w, w)
    BY <2>1 DEF Explains
  <2>5. QED
    BY <2>2, <2>3, <2>4
<1>2. IInv /\ RateInv /\ [Next]_vars => RateInv'
  BY RateStep
<1>3. QED
  BY <1>1, <1>2, Invariance, PTL DEF Spec

(***************************************************************************)
(* _enforce_security_policy counts the messages of the session as loaded:  *)
(* in any minute, whichever threads loaded it when, the counted commands of *)
(* a session are at most rpm - 1 + the number of threads.                  *)
(***************************************************************************)
THEOREM RateOvershootBounded == Spec => []RateOvershoot
<1>1. IInv /\ RateInv => RateOvershoot
  BY RateBound DEF IInv, RateOvershoot
<1>2. QED
  BY <1>1, RateInvariance, Invariance, PTL
=============================================================================
