------------------------- MODULE SessionManagerProofs -------------------------
(***************************************************************************)
(* For any number of threads, sessions and requests: how many live sessions *)
(* a race may leave, that no request touches what had ended before it came, *)
(* and, with one request at a time, that an archive row describes the whole *)
(* session and a written summary stays.                                     *)
(***************************************************************************)
EXTENDS SessionManager, TLAPS, FiniteSetTheorems, SequenceTheorems, WellFoundedInduction

\* Places of a thread at which it works on a session.
Working == {"append", "reply", "expired", "read", "set", "delete", "schedule", "spawn"}

\* Every session with a row was created: it has its place in the order, and
\* the ids of the order are the first ones.
OrderInv ==
  /\ \A i \in 1..Len(recent) : recent[i] \in 1..Len(recent)
  /\ \A s \in Sessions : status[s] # "none" => Known(s)
  /\ \A s \in Sessions : ~Known(s) => workers[s] = 0
  /\ \A t \in Threads, s \in Sessions :
       target[t] = s \/ s \in closed[t] => Known(s)

\* What the place of a thread says of its locals.
LocalInv ==
  \A t \in Threads :
    /\ pc[t] = "free" <=> kind[t] = "none"
    /\ pc[t] \in {"free", "find", "create"} <=> target[t] = NoSession
    /\ pc[t] = "find" => kind[t] \in {"message", "archive", "lookup"}
    /\ pc[t] = "create" => kind[t] \in {"message", "lookup"}
    /\ pc[t] = "append" => kind[t] \in {"message", "archive"}
    /\ pc[t] = "reply" => kind[t] = "message"
    /\ pc[t] = "expired" => kind[t] = "idle" /\ goal[t] = "idle"
    /\ pc[t] = "delete" => kind[t] = "destroy"
    /\ pc[t] \in {"schedule", "spawn"} => kind[t] = "archive"
    /\ pc[t] \in {"read", "set"} => goal[t] # "none"
    /\ pc[t] \in {"read", "set"} /\ kind[t] \in {"message", "lookup"} => goal[t] = "active"
    /\ pc[t] \in {"append", "read", "set"} /\ kind[t] = "archive" => goal[t] = "archived"
    /\ pc[t] \in {"read", "set"} /\ kind[t] = "destroy" => goal[t] = "destroyed"

\* Requests that overlap meet no idle session and revive none; a client that
\* waits has one request under way.
ModeInv ==
  /\ ~serial => /\ \A s \in Sessions : status[s] # "idle"
                /\ \A t \in Threads :
                     /\ kind[t] \notin {"idle", "update"}
                     /\ pc[t] \in {"read", "set"} => goal[t] \in Ended
  /\ serial => \A t, u \in Threads : pc[t] # "free" /\ pc[u] # "free" => t = u
  /\ serial => \A t \in Threads :
       pc[t] = "set" => Legal(status[target[t]], goal[t])

\* What had ended when a request came has not come back while it looks for a
\* session, nor ever if requests overlap.
ClosedInv ==
  \A t \in Threads : (serial => pc[t] = "find") =>
    \A s \in closed[t] : status[s] \notin Live

\* With one request at a time: an archived session takes no more messages.
RowInv ==
  serial =>
    /\ \A s \in Sessions : archive[s] # NoRow =>
         status[s] \in Ended /\ archive[s] = Len(messages[s])
    /\ \A t \in Threads :
         /\ pc[t] \in {"append", "reply", "read", "set"}
         /\ kind[t] \in {"message", "archive"}
         => status[target[t]] \in Live

\* ... and is summarised by one worker.
SummaryInv ==
  serial =>
    /\ \A s \in Sessions :
         /\ status[s] \in Live \/ summary[s] = "done" => workers[s] = 0
         /\ workers[s] <= 1
         /\ summary[s] # "none" => archive[s] # NoRow
    /\ \A t \in Threads : pc[t] \in {"schedule", "spawn"} =>
         /\ status[target[t]] \notin Live
         /\ workers[target[t]] = 0 /\ summary[target[t]] # "done"

ManagerInv ==
  /\ TypeOK /\ OrderInv /\ LocalInv /\ ModeInv
  /\ LiveBounded /\ ClosedInv /\ EndedSessionsRest
  /\ RowInv /\ SummaryInv

-----------------------------------------------------------------------------
(* The order of the sessions                                                *)

\* A set of positions has a last one.
LEMMA Greatest ==
  ASSUME NEW n \in Nat, NEW T \in SUBSET (1..n), T # {}
  PROVE  \E i \in T : \A j \in T : j <= i
<1> DEFINE D == {n - i : i \in T}
<1>0. \A i \in T : i \in 1..n /\ n - i \in Nat
  OBVIOUS
<1>1. D \subseteq Nat /\ D # {}
  BY <1>0
<1> DEFINE R == OpToRel(<, Nat)
<1>2. IsWellFoundedOn(R, Nat)
  BY NatLessThanWellFounded
<1>3. \A a, b \in Nat : a < b => <<a, b>> \in R
  BY DEF OpToRel
<1> HIDE DEF D, R
<1>4. PICK d \in D : \A e \in D : ~(<<e, d>> \in R)
  BY <1>1, <1>2, WFMin
<1>5. PICK i \in T : d = n - i
  BY DEF D
<1>6. ASSUME NEW j \in T PROVE j <= i
  <2>1. n - j \in D
    BY DEF D
  <2>2. ~(n - j < n - i)
    BY <1>1, <1>3, <1>4, <1>5, <2>1
  <2>3. QED
    BY <2>2
<1>7. QED
  BY <1>6

\* The lookup finds a live session if there is one.
LEMMA Found ==
  ASSUME recent \in Seq(Sessions), \A s \in Sessions : status[s] # "none" => Known(s)
  PROVE  /\ MostRecent \in LiveSessions \cup {NoSession}
         /\ MostRecent = NoSession <=> LiveSessions = {}
<1> DEFINE at == {i \in 1..Len(recent) : recent[i] \in LiveSessions}
           last == CHOOSE i \in at : \A j \in at : j <= i
<1>1. /\ MostRecent = IF at = {} THEN NoSession ELSE recent[last]
      /\ Len(recent) \in Nat /\ NoSession \notin LiveSessions
  BY ManagerAssumption DEF MostRecent, LastOf, LiveSessions
<1>2. at # {} => last \in at
  <2>1. at \in SUBSET (1..Len(recent))
    OBVIOUS
  <2>2. at # {} => \E i \in at : \A j \in at : j <= i
    BY <1>1, <2>1, Greatest
  <2>3. QED
    BY <2>2
<1>3. LiveSessions # {} => at # {}
  BY DEF LiveSessions, Known, Live, Log!Live
<1>4. QED
  BY <1>1, <1>2, <1>3

\* Moving a session to the end keeps the order's other members.
LEMMA MovedOrder ==
  ASSUME recent \in Seq(Sessions), NEW s \in Sessions
  PROVE  /\ Moved(s) \in Seq(Sessions)
         /\ Len(Moved(s)) = IF Known(s) THEN Len(recent) ELSE Len(recent) + 1
         /\ \A u : (\E i \in 1..Len(Moved(s)) : Moved(s)[i] = u) <=> Known(u) \/ u = s
<1> DEFINE r == IF Known(s) THEN Without(s) ELSE recent
<1>1. /\ r \in Seq(Sessions)
      /\ Len(r) = IF Known(s) THEN Len(recent) - 1 ELSE Len(recent)
      /\ \A i \in 1..Len(r) : Known(r[i])
      /\ \A j \in 1..Len(recent) : recent[j] = s \/ \E i \in 1..Len(r) : r[i] = recent[j]
  <2>1. CASE ~Known(s)
    BY <2>1 DEF Known
  <2>2. CASE Known(s)
    <3> DEFINE n == At(s)
               a == SubSeq(recent, 1, n - 1)
               b == SubSeq(recent, n + 1, Len(recent))
    <3>1. n \in 1..Len(recent) /\ recent[n] = s /\ Len(recent) \in Nat
      BY <2>2 DEF Known, At
    <3> HIDE DEF n
    <3>2. /\ a \in Seq(Sessions) /\ Len(a) = n - 1
          /\ \A i \in 1..(n - 1) : a[i] = recent[i]
      BY <3>1, SubSeqProperties, ElementOfSeq
    <3>3. /\ b \in Seq(Sessions) /\ Len(b) = Len(recent) - n
          /\ \A i \in 1..(Len(recent) - n) : b[i] = recent[n + i]
      BY <3>1, SubSeqProperties, ElementOfSeq
    <3>4. r = a \o b
      BY <2>2 DEF Without, n
    <3> HIDE DEF a, b, r
    <3>5. /\ r \in Seq(Sessions) /\ Len(r) = Len(a) + Len(b)
          /\ \A i \in 1..(Len(a) + Len(b)) : r[i] = IF i <= Len(a) THEN a[i] ELSE b[i - Len(a)]
      BY <3>2, <3>3, <3>4, ConcatProperties
    <3>6. Len(r) = Len(recent) - 1
      BY <3>1, <3>2, <3>3, <3>5
    <3>7. ASSUME NEW i \in 1..Len(r) PROVE Known(r[i])
      <4>1. CASE i <= n - 1
        <5>1. r[i] = recent[i] /\ i \in 1..Len(recent)
          BY <4>1, <3>1, <3>2, <3>3, <3>5, <3>6
        <5>2. QED
          BY <5>1 DEF Known
      <4>2. CASE ~(i <= n - 1)
        <5>1. i - (n - 1) \in 1..(Len(recent) - n) /\ i + 1 \in 1..Len(recent)
          BY <4>2, <3>1, <3>6
        <5>2. r[i] = b[i - (n - 1)]
          BY <4>2, <3>1, <3>2, <3>3, <3>5, <3>6
        <5>3. b[i - (n - 1)] = recent[n + (i - (n - 1))]
          BY <5>1, <3>3
        <5>4. n + (i - (n - 1)) = i + 1
          BY <3>1
        <5>5. QED
          BY <5>1, <5>2, <5>3, <5>4 DEF Known
      <4>3. QED
        BY <4>1, <4>2
    <3>8. ASSUME NEW j \in 1..Len(recent), recent[j] # s
          PROVE  \E i \in 1..Len(r) : r[i] = recent[j]
      <4>1. CASE j < n
        <5>1. j \in 1..Len(r) /\ r[j] = recent[j]
          BY <4>1, <3>1, <3>2, <3>3, <3>5, <3>6
        <5>2. QED
          BY <5>1
      <4>2. CASE j > n
        <5>1. j - 1 \in 1..Len(r) /\ ~(j - 1 <= n - 1) /\ j - n \in 1..(Len(recent) - n)
          BY <4>2, <3>1, <3>6
        <5>2. r[j - 1] = b[j - n]
          <6>1. (j - 1) - (n - 1) = j - n
            BY <3>1
          <6>2. r[j - 1] = b[(j - 1) - Len(a)]
            BY <5>1, <3>1, <3>2, <3>3, <3>5, <3>6
          <6>3. QED
            BY <6>1, <6>2, <3>2
        <5>3. b[j - n] = recent[n + (j - n)] /\ n + (j - n) = j
          BY <5>1, <3>1, <3>3
        <5>4. QED
          BY <5>1, <5>2, <5>3
      <4>3. QED
        BY <4>1, <4>2, <3>1, <3>8
    <3>9. QED
      BY <2>2, <3>5, <3>6, <3>7, <3>8
  <2>3. QED
    BY <2>1, <2>2
<1>2. /\ Moved(s) \in Seq(Sessions) /\ Len(r) \in Nat /\ Len(Moved(s)) = Len(r) + 1
      /\ \A i \in 1..Len(r) : Moved(s)[i] = r[i]
      /\ Moved(s)[Len(r) + 1] = s
  <2>1. Moved(s) = Append(r, s)
    BY DEF Moved
  <2>2. QED
    BY <1>1, <2>1, AppendProperties
<1> HIDE DEF r
<1>3. ASSUME NEW u PROVE (\E i \in 1..Len(Moved(s)) : Moved(s)[i] = u) <=> Known(u) \/ u = s
  <2>1. ASSUME NEW i \in 1..Len(Moved(s)), Moved(s)[i] = u PROVE Known(u) \/ u = s
    <3>1. i \in 1..Len(r) \/ i = Len(r) + 1
      BY <1>2
    <3>2. QED
      BY <1>1, <1>2, <2>1, <3>1
  <2>2. ASSUME Known(u), u # s PROVE \E i \in 1..Len(Moved(s)) : Moved(s)[i] = u
    <3>1. PICK i \in 1..Len(r) : r[i] = u
      BY <1>1, <2>2 DEF Known
    <3>2. i \in 1..Len(Moved(s)) /\ Moved(s)[i] = u
      BY <1>2, <3>1
    <3>3. QED
      BY <3>2
  <2>3. ASSUME u = s PROVE \E i \in 1..Len(Moved(s)) : Moved(s)[i] = u
    <3>1. Len(r) + 1 \in 1..Len(Moved(s))
      BY <1>2
    <3>2. QED
      BY <1>2, <2>3, <3>1
  <2>4. QED
    BY <2>1, <2>2, <2>3
<1>4. Len(recent) \in Nat
  OBVIOUS
<1>5. QED
  BY <1>1, <1>2, <1>3, <1>4

-----------------------------------------------------------------------------
(* Types                                                                    *)

Places == {"free", "find", "create", "append", "reply", "expired",
           "read", "set", "delete", "schedule", "spawn"}

LEMMA InitType == Init => TypeOK
BY ManagerAssumption DEF Init, TypeOK, Log!Init, Log!Statuses, Log!SummaryStates

\* What a finished request leaves has its type.
LEMMA DoneType ==
  ASSUME TypeOK, NEW t \in Threads, Done(t)
  PROVE  /\ pc' \in [Threads -> Places] /\ kind' \in [Threads -> Kinds \cup {"none", "lookup"}]
         /\ target' \in [Threads -> Sessions \cup {NoSession}]
         /\ goal' \in [Threads -> Log!Statuses \cup {"none"}]
BY DEF TypeOK, Done, Goto, Places

\* Every step keeps the types; Found and the order give those of a lookup.
LEMMA TypeStep ==
  ASSUME TypeOK, OrderInv, LocalInv, [Next]_vars
  PROVE  TypeOK'
<1> USE DEF Goto, setup, db, local
<1>t. TypeOK /\ (\A t \in Threads : target[t] \in Sessions \cup {NoSession})
  BY DEF TypeOK
<1>w. ASSUME NEW t \in Threads, pc[t] \in Working
      PROVE  target[t] \in Sessions /\ workers[target[t]] \in Nat
  BY <1>w, <1>t DEF LocalInv, Working, TypeOK
<1>d. ASSUME NEW t \in Threads, Done(t), UNCHANGED <<setup, db, recent, closed, requests>>,
             workers' \in [Sessions -> Nat]
      PROVE  TypeOK'
  BY <1>t, <1>d, DoneType DEF TypeOK, Places
<1>l. ASSUME NEW t \in Threads, NEW l \in Places, Goto(t, l), UNCHANGED <<setup, local>>
      PROVE  /\ serial' \in Serials /\ crashes' \in Crashes
             /\ pc' \in [Threads -> Places] /\ kind' \in [Threads -> Kinds \cup {"none", "lookup"}]
             /\ target' \in [Threads -> Sessions \cup {NoSession}]
             /\ goal' \in [Threads -> Log!Statuses \cup {"none"}]
  BY <1>t, <1>l DEF TypeOK, Places
<1>1. ASSUME NEW t \in Threads, NEW k \in Kinds, Receive(t, k) PROVE TypeOK'
  <2>1. \A g \in GoalsOf(k) : g \in Log!Statuses
    BY DEF GoalsOf, Log!Statuses, Log!Live
  <2>2. /\ UNCHANGED <<setup, db, recent, workers>> /\ requests' = requests + 1
        /\ kind' = [kind EXCEPT ![t] = k]
        /\ closed' = [closed EXCEPT ![t] = {s \in Sessions : status[s] \in Ended}]
    BY <1>1 DEF Receive
  <2>3. /\ kind' \in [Threads -> Kinds \cup {"none", "lookup"}]
        /\ closed' \in [Threads -> SUBSET Sessions] /\ requests' \in Nat
    BY <1>t, <2>2 DEF TypeOK
  <2>4. CASE /\ k \in {"message", "archive"} /\ pc' = [pc EXCEPT ![t] = "find"]
             /\ UNCHANGED <<target, goal>>
    BY <1>t, <2>2, <2>3, <2>4 DEF TypeOK
  <2>5. CASE /\ \E s \in Sessions, g \in GoalsOf(k) :
                  /\ target' = [target EXCEPT ![t] = s]
                  /\ goal' = [goal EXCEPT ![t] = g]
             /\ pc' = [pc EXCEPT ![t] = IF k = "idle" THEN "expired" ELSE "read"]
    BY <1>t, <2>1, <2>2, <2>3, <2>5 DEF TypeOK
  <2>6. QED
    BY <1>1, <2>4, <2>5 DEF Receive
<1>2. MostRecent \in Sessions \cup {NoSession}
  BY <1>t, Found DEF TypeOK, LiveSessions, OrderInv
<1>3. ASSUME NEW t \in Threads, FindForMessage(t) PROVE TypeOK'
  BY <1>3, <1>t, <1>2 DEF FindForMessage, TypeOK, Log!Statuses, Log!Live
<1>4. ASSUME NEW t \in Threads, FindForArchive(t) PROVE TypeOK'
  BY <1>4, <1>t, <1>2 DEF FindForArchive, TypeOK, Log!Statuses, Log!Live
<1>5. ASSUME NEW t \in Threads, FindForAnswer(t) PROVE TypeOK'
  <2>1. CASE Done(t)
    BY <2>1, <1>5, <1>t, <1>d DEF FindForAnswer, TypeOK
  <2>2. CASE ~Done(t)
    BY <2>2, <1>5, <1>t, <1>2 DEF FindForAnswer, TypeOK, Log!Statuses, Log!Live
  <2>3. QED
    BY <2>1, <2>2
<1>6. ASSUME NEW t \in Threads, NEW s \in Sessions, CreateSession(t, s) PROVE TypeOK'
  <2>1. recent' \in Seq(Sessions)
    BY <1>6, <1>t, MovedOrder DEF CreateSession, TypeOK
  <2>2. /\ status' \in [Sessions -> Log!Statuses \cup {"none"}]
        /\ messages' \in [Sessions -> Seq({0})]
        /\ UNCHANGED <<archive, summary, setup, workers, closed, requests>>
    BY <1>6, <1>t DEF CreateSession, Log!Create, TypeOK, Log!Statuses, Log!Live
  <2>3. CASE kind[t] = "message"
    BY <2>1, <2>2, <2>3, <1>6, <1>t DEF CreateSession, TypeOK
  <2>4. CASE kind[t] # "message"
    <3>1. Done(t)
      BY <2>4, <1>6 DEF CreateSession
    <3>2. QED
      BY <2>1, <2>2, <3>1, <1>t, DoneType DEF TypeOK, Places
  <2>5. QED
    BY <2>3, <2>4
<1>7. ASSUME NEW t \in Threads, AppendToSession(t) PROVE TypeOK'
  <2>0. target[t] \in Sessions
    BY <1>7, <1>w DEF AppendToSession, Working
  <2>1. recent' \in Seq(Sessions)
    BY <1>7, <1>t, <2>0, MovedOrder DEF AppendToSession, TypeOK
  <2>2. /\ messages' \in [Sessions -> Seq({0})]
        /\ UNCHANGED <<status, archive, summary, setup, workers, closed, requests>>
    <3>1. Append(messages[target[t]], 0) \in Seq({0})
      BY <1>7, <1>t, <2>0 DEF TypeOK
    <3>2. QED
      BY <1>7, <1>t, <2>0, <3>1 DEF AppendToSession, Log!AppendMessage, TypeOK
  <2>3. CASE Done(t)
    BY <2>1, <2>2, <2>3, <1>t, DoneType DEF TypeOK, Places
  <2>4. CASE ~Done(t)
    BY <2>1, <2>2, <2>4, <1>7, <1>t DEF AppendToSession, TypeOK
  <2>5. QED
    BY <2>3, <2>4
<1>8. ASSUME NEW t \in Threads, SessionGone(t) PROVE TypeOK'
  BY <1>8, <1>t, <1>d DEF SessionGone, TypeOK
<1>9. ASSUME NEW t \in Threads, CheckExpired(t) \/ ReadStatus(t) PROVE TypeOK'
  <2>1. CASE Done(t)
    BY <2>1, <1>9, <1>t, <1>d DEF CheckExpired, ReadStatus, TypeOK
  <2>2. CASE UNCHANGED <<setup, db, recent, local, workers, closed, requests>>
             /\ (Goto(t, "read") \/ Goto(t, "set"))
    BY <2>2, <1>t DEF TypeOK
  <2>3. QED
    BY <2>1, <2>2, <1>9 DEF CheckExpired, ReadStatus
<1>10. ASSUME NEW t \in Threads, SetStatus(t) PROVE TypeOK'
  <2>0. target[t] \in Sessions /\ goal[t] # "none"
    BY <1>10, <1>w DEF SetStatus, Working, LocalInv
  <2>1. /\ status' \in [Sessions -> Log!Statuses \cup {"none"}]
        /\ archive' \in [Sessions -> Nat \cup {NoRow}]
        /\ UNCHANGED <<messages, summary, setup, recent, workers, closed, requests>>
    <3>1. Len(messages[target[t]]) \in Nat /\ goal[t] \in Log!Statuses
      BY <1>10, <1>t, <2>0 DEF TypeOK
    <3>2. QED
      BY <1>10, <1>t, <2>0, <3>1 DEF SetStatus, Log!SetStatus, TypeOK
  <2>2. CASE Done(t)
    BY <2>1, <2>2, <1>t, DoneType DEF TypeOK, Places
  <2>3. CASE ~Done(t)
    BY <2>1, <2>3, <1>10, <1>t DEF SetStatus, AfterSet, TypeOK
  <2>4. QED
    BY <2>2, <2>3
<1>11. ASSUME NEW t \in Threads, DeleteSession(t) PROVE TypeOK'
  <2>1. /\ status' \in [Sessions -> Log!Statuses \cup {"none"}]
        /\ messages' \in [Sessions -> Seq({0})]
        /\ archive' \in [Sessions -> Nat \cup {NoRow}]
        /\ summary' \in [Sessions -> Log!SummaryStates \cup {"none"}]
        /\ UNCHANGED <<setup, recent, workers, closed, requests>> /\ Done(t)
    <3>1. target[t] \in Sessions /\ <<>> \in Seq({0})
      BY <1>11, <1>w DEF DeleteSession, Working
    <3>2. QED
      BY <1>11, <1>t, <3>1 DEF DeleteSession, Log!Delete, TypeOK
  <2>2. QED
    BY <2>1, <1>t, DoneType DEF TypeOK, Places
<1>12. ASSUME NEW t \in Threads, SchedulePending(t) PROVE TypeOK'
  BY <1>12, <1>t DEF SchedulePending, Log!UpdateSummary, Log!SummaryStates, TypeOK
<1>13. ASSUME NEW t \in Threads, SpawnWorker(t) PROVE TypeOK'
  <2>1. workers' \in [Sessions -> Nat]
    BY <1>13, <1>t, <1>w DEF SpawnWorker, Working, TypeOK
  <2>2. QED
    BY <1>13, <1>d, <2>1 DEF SpawnWorker
<1>14. ASSUME NEW s \in Sessions, WorkerEnds(s) PROVE TypeOK'
  BY <1>14, <1>t DEF WorkerEnds, Log!UpdateSummary, Log!SummaryStates, TypeOK
<1>15. ASSUME Crash PROVE TypeOK'
  <2>1. /\ status' \in [Sessions -> Log!Statuses \cup {"none"}]
        /\ UNCHANGED <<messages, archive, summary>>
    <3>1. CASE UNCHANGED db
      BY <3>1, <1>t DEF TypeOK
    <3>2. ASSUME NEW t \in Threads, Log!ArchiveTorn(target[t])
          PROVE  /\ status' \in [Sessions -> Log!Statuses \cup {"none"}]
                 /\ UNCHANGED <<messages, archive, summary>>
      BY <3>2, <1>t DEF Log!ArchiveTorn, TypeOK, Log!Statuses, Log!Live
    <3>3. QED
      BY <1>15, <3>1, <3>2 DEF Crash
  <2>2. QED
    BY <1>15, <1>t, <2>1 DEF Crash, TypeOK
<1>16. CASE UNCHANGED vars
  BY <1>16, <1>t DEF vars, TypeOK
<1>18. QED
  BY <1>1, <1>3, <1>4, <1>5, <1>6, <1>8, <1>9, <1>11, <1>12, <1>13, <1>14, <1>15,
     <1>7, <1>10, <1>16 DEF Next, Step

-----------------------------------------------------------------------------
(* What a step may change                                                   *)

\* A request's step leaves the other threads alone; the sessions it works on
\* are its target, or the one it creates.
LEMMA StepOfOne ==
  ASSUME TypeOK, NEW t \in Threads, Step(t) \/ \E k \in Kinds : Receive(t, k)
  PROVE  /\ UNCHANGED setup
         /\ \A u \in Threads \ {t} : /\ pc'[u] = pc[u] /\ kind'[u] = kind[u]
                                     /\ target'[u] = target[u] /\ goal'[u] = goal[u]
                                     /\ closed'[u] = closed[u]
<1> USE DEF Goto, Done, setup, local, TypeOK
<1>1. CASE \E k \in Kinds : Receive(t, k)
  BY <1>1 DEF Receive
<1>2. CASE FindForMessage(t) \/ FindForArchive(t) \/ FindForAnswer(t)
  BY <1>2 DEF FindForMessage, FindForArchive, FindForAnswer
<1>3. CASE \E s \in Sessions : CreateSession(t, s)
  BY <1>3 DEF CreateSession
<1>4. CASE AppendToSession(t) \/ SessionGone(t)
  BY <1>4 DEF AppendToSession, SessionGone
<1>5. CASE CheckExpired(t) \/ ReadStatus(t)
  BY <1>5 DEF CheckExpired, ReadStatus
<1>6. CASE SetStatus(t)
  BY <1>6 DEF SetStatus, AfterSet
<1>7. CASE DeleteSession(t) \/ SchedulePending(t) \/ SpawnWorker(t)
  BY <1>7 DEF DeleteSession, SchedulePending, SpawnWorker
<1>8. QED
  BY <1>1, <1>2, <1>3, <1>4, <1>5, <1>6, <1>7 DEF Step

\* Where a thread goes from each place, and what becomes of its locals.
LEMMA OwnLocals ==
  ASSUME TypeOK, OrderInv, LocalInv, NEW t \in Threads,
         Step(t) \/ \E k \in Kinds : Receive(t, k)
  PROVE  LET P == pc'[t]
             K == kind'[t]
             G == goal'[t]
         IN /\ P = "free" <=> K = "none"
            /\ P \in {"free", "find", "create"} <=> target'[t] = NoSession
            /\ P = "find" => K \in {"message", "archive", "lookup"}
            /\ P = "create" => K \in {"message", "lookup"}
            /\ P = "append" => K \in {"message", "archive"}
            /\ P = "reply" => K = "message"
            /\ P = "expired" => K = "idle" /\ G = "idle"
            /\ P = "delete" => K = "destroy"
            /\ P \in {"schedule", "spawn"} => K = "archive"
            /\ P \in {"read", "set"} => G # "none"
            /\ P \in {"read", "set"} /\ K \in {"message", "lookup"} => G = "active"
            /\ P \in {"append", "read", "set"} /\ K = "archive" => G = "archived"
            /\ P \in {"read", "set"} /\ K = "destroy" => G = "destroyed"
<1> USE DEF Goto, local, TypeOK
<1>n. NoSession \notin Sessions /\ Kinds \subseteq {"message", "archive", "idle", "update", "destroy"}
  BY ManagerAssumption
<1>d. ASSUME Done(t)
      PROVE  pc'[t] = "free" /\ kind'[t] = "none" /\ target'[t] = NoSession /\ goal'[t] = "none"
  BY <1>d DEF Done
<1>m. MostRecent \in Sessions \cup {NoSession}
  BY Found DEF OrderInv, LiveSessions
<1>1. CASE \E k \in Kinds : Receive(t, k)
  <2>1. PICK k \in Kinds : Receive(t, k)
    BY <1>1
  <2>2. CASE k \in {"message", "archive"}
    BY <1>n, <2>1, <2>2 DEF Receive, LocalInv
  <2>3. CASE k \in {"idle", "update", "destroy"}
    <3>1. PICK s \in Sessions, g \in GoalsOf(k) :
            /\ target' = [target EXCEPT ![t] = s]
            /\ goal' = [goal EXCEPT ![t] = g]
      BY <2>1, <2>3 DEF Receive
    <3>2. /\ g # "none" /\ (k = "idle" => g = "idle") /\ (k = "destroy" => g = "destroyed")
      BY <2>3, <3>1 DEF GoalsOf, Log!Statuses, Log!Live
    <3>3. /\ pc' = [pc EXCEPT ![t] = IF k = "idle" THEN "expired" ELSE "read"]
          /\ kind' = [kind EXCEPT ![t] = k]
      BY <2>1, <2>3 DEF Receive
    <3>4. QED
      BY <1>n, <2>3, <3>1, <3>2, <3>3
  <2>4. QED
    BY <1>n, <2>2, <2>3
<1>2. CASE FindForMessage(t)
  BY <1>2, <1>m, <1>n DEF FindForMessage, LocalInv
<1>3. CASE FindForArchive(t)
  BY <1>3, <1>m, <1>n DEF FindForArchive, LocalInv
<1>4. CASE FindForAnswer(t)
  BY <1>4, <1>m, <1>n, <1>d DEF FindForAnswer, LocalInv
<1>5. CASE \E s \in Sessions : CreateSession(t, s)
  BY <1>5, <1>n, <1>d DEF CreateSession, LocalInv
<1>6. CASE AppendToSession(t)
  BY <1>6, <1>n, <1>d DEF AppendToSession, LocalInv
<1>7. CASE SessionGone(t)
  BY <1>7, <1>n, <1>d DEF SessionGone
<1>8. CASE CheckExpired(t)
  BY <1>8, <1>n, <1>d DEF CheckExpired, LocalInv
<1>9. CASE ReadStatus(t)
  BY <1>9, <1>n, <1>d DEF ReadStatus, LocalInv
<1>10. CASE SetStatus(t)
  BY <1>10, <1>n, <1>d DEF SetStatus, AfterSet, LocalInv
<1>11. CASE DeleteSession(t) \/ SpawnWorker(t)
  BY <1>11, <1>n, <1>d DEF DeleteSession, SpawnWorker
<1>12. CASE SchedulePending(t)
  BY <1>12, <1>n DEF SchedulePending, LocalInv
<1>13. QED
  BY <1>1, <1>2, <1>3, <1>4, <1>5, <1>6, <1>7, <1>8, <1>9, <1>10, <1>11, <1>12 DEF Step

\* Steps that are no thread's: a worker's end, the crash, stuttering.
LEMMA OtherSteps ==
  ASSUME TypeOK, [Next]_vars
  PROVE  \/ \E t \in Threads : Step(t) \/ \E k \in Kinds : Receive(t, k)
         \/ \E s \in Sessions : WorkerEnds(s)
         \/ Crash
         \/ UNCHANGED vars
BY DEF Next

\* LocalInv is kept.
LEMMA LocalStep ==
  ASSUME TypeOK, OrderInv, LocalInv, [Next]_vars
  PROVE  LocalInv'
<1>1. ASSUME NEW t \in Threads, Step(t) \/ \E k \in Kinds : Receive(t, k)
      PROVE  LocalInv'
  BY <1>1, StepOfOne, OwnLocals DEF LocalInv
<1>2. ASSUME NEW s \in Sessions, WorkerEnds(s) PROVE LocalInv'
  BY <1>2 DEF WorkerEnds, LocalInv, local
<1>3. CASE Crash
  BY <1>3 DEF Crash, LocalInv
<1>4. CASE UNCHANGED vars
  BY <1>4 DEF vars, local, LocalInv
<1>5. QED
  BY <1>1, <1>2, <1>3, <1>4, OtherSteps

\* What happens to the order: it gets the new session, or moves a known one.
LEMMA OrderOf ==
  ASSUME TypeOK, OrderInv, LocalInv, NEW t \in Threads,
         Step(t) \/ \E k \in Kinds : Receive(t, k)
  PROVE  \/ UNCHANGED recent
         \/ \E s \in Sessions : /\ recent' = Moved(s)
                                /\ Known(s) \/ s = Len(recent) + 1
<1> USE DEF setup, db
<1>1. CASE \E s \in Sessions : CreateSession(t, s)
  BY <1>1 DEF CreateSession
<1>2. CASE AppendToSession(t)
  <2>1. target[t] \in Sessions
    BY <1>2 DEF AppendToSession, LocalInv, TypeOK
  <2>2. Known(target[t])
    BY <2>1 DEF OrderInv
  <2>3. QED
    BY <1>2, <2>1, <2>2 DEF AppendToSession
<1>3. CASE \E k \in Kinds : Receive(t, k)
  BY <1>3 DEF Receive
<1>4. CASE FindForMessage(t) \/ FindForArchive(t) \/ FindForAnswer(t)
  BY <1>4 DEF FindForMessage, FindForArchive, FindForAnswer
<1>5. CASE SessionGone(t) \/ CheckExpired(t) \/ ReadStatus(t) \/ SetStatus(t)
  BY <1>5 DEF SessionGone, CheckExpired, ReadStatus, SetStatus
<1>6. CASE DeleteSession(t) \/ SchedulePending(t) \/ SpawnWorker(t)
  BY <1>6 DEF DeleteSession, SchedulePending, SpawnWorker
<1>7. QED
  BY <1>1, <1>2, <1>3, <1>4, <1>5, <1>6 DEF Step

\* The ways a thread's step changes the status of a session.
LEMMA StatusOf ==
  ASSUME TypeOK, OrderInv, LocalInv, NEW t \in Threads, NEW s \in Sessions,
         Step(t) \/ \E k \in Kinds : Receive(t, k)
  PROVE  \/ status'[s] = status[s]
         \/ CreateSession(t, s) /\ status'[s] = "active" /\ ~Known(s)
         \/ SetStatus(t) /\ s = target[t] /\ status[s] # "none" /\ status'[s] = goal[t]
         \/ DeleteSession(t) /\ s = target[t] /\ status'[s] = "none"
<1> USE DEF setup, db
<1>t. /\ status \in [Sessions -> Log!Statuses \cup {"none"}] /\ workers \in [Sessions -> Nat]
      /\ target \in [Threads -> Sessions \cup {NoSession}] /\ recent \in Seq(Sessions)
      /\ kind \in [Threads -> Kinds \cup {"none", "lookup"}]
      /\ closed \in [Threads -> SUBSET Sessions]
  BY DEF TypeOK
<1>1. ASSUME NEW n \in Sessions, CreateSession(t, n)
      PROVE  status'[s] = status[s] \/ (n = s /\ status'[s] = "active" /\ ~Known(s))
  <2>1. n = Len(recent) + 1 /\ status' = [status EXCEPT ![n] = "active"]
    BY <1>t, <1>1 DEF CreateSession, Log!Create
  <2>2. ~Known(n)
    BY <2>1 DEF OrderInv, Known
  <2>3. QED
    BY <1>t, <2>1, <2>2
<1>2. CASE AppendToSession(t) \/ SchedulePending(t)
  BY <1>t, <1>2 DEF AppendToSession, Log!AppendMessage, SchedulePending, Log!UpdateSummary
<1>3. CASE \E k \in Kinds : Receive(t, k)
  BY <1>t, <1>3 DEF Receive
<1>4. CASE FindForMessage(t) \/ FindForArchive(t) \/ FindForAnswer(t)
  BY <1>t, <1>4 DEF FindForMessage, FindForArchive, FindForAnswer
<1>5. CASE SessionGone(t) \/ CheckExpired(t) \/ ReadStatus(t) \/ SpawnWorker(t)
  BY <1>t, <1>5 DEF SessionGone, CheckExpired, ReadStatus, SpawnWorker
<1>6. CASE SetStatus(t)
  <2>1. status' = [status EXCEPT ![target[t]] = goal[t]] /\ status[target[t]] # "none"
    BY <1>t, <1>6 DEF SetStatus, Log!SetStatus
  <2>2. QED
    BY <1>t, <1>6, <2>1
<1>7. CASE DeleteSession(t)
  <2>1. status' = [status EXCEPT ![target[t]] = "none"]
    BY <1>t, <1>7 DEF DeleteSession, Log!Delete
  <2>2. QED
    BY <1>t, <1>7, <2>1
<1>8. QED
  BY <1>t, <1>1, <1>2, <1>3, <1>4, <1>5, <1>6, <1>7 DEF Step

\* ... and a worker's end changes none, a crash may archive a session.
LEMMA StatusOfOthers ==
  ASSUME TypeOK, NEW s \in Sessions,
         (\E n \in Sessions : WorkerEnds(n)) \/ Crash \/ UNCHANGED vars
  PROVE  status'[s] = status[s] \/ (Crash /\ status[s] # "none" /\ status'[s] = "archived")
<1>t. /\ status \in [Sessions -> Log!Statuses \cup {"none"}] /\ workers \in [Sessions -> Nat]
      /\ target \in [Threads -> Sessions \cup {NoSession}] /\ recent \in Seq(Sessions)
      /\ kind \in [Threads -> Kinds \cup {"none", "lookup"}]
      /\ closed \in [Threads -> SUBSET Sessions]
  BY DEF TypeOK
<1>1. CASE \E n \in Sessions : WorkerEnds(n)
  BY <1>t, <1>1 DEF WorkerEnds, Log!UpdateSummary
<1>2. CASE Crash
  BY <1>t, <1>2 DEF Crash, Log!ArchiveTorn, db, TypeOK
<1>3. QED
  BY <1>t, <1>1, <1>2 DEF vars, db

\* The workers a step may start or end.
LEMMA WorkersOf ==
  ASSUME TypeOK, OrderInv, LocalInv, [Next]_vars, NEW s \in Sessions
  PROVE  \/ workers'[s] = workers[s]
         \/ \E t \in Threads : SpawnWorker(t) /\ s = target[t] /\ workers'[s] = workers[s] + 1
         \/ WorkerEnds(s) /\ workers[s] > 0 /\ workers'[s] = workers[s] - 1
         \/ workers'[s] = 0
<1>t. /\ status \in [Sessions -> Log!Statuses \cup {"none"}] /\ workers \in [Sessions -> Nat]
      /\ target \in [Threads -> Sessions \cup {NoSession}] /\ recent \in Seq(Sessions)
      /\ kind \in [Threads -> Kinds \cup {"none", "lookup"}]
      /\ closed \in [Threads -> SUBSET Sessions]
  BY DEF TypeOK
<1>1. ASSUME NEW t \in Threads, Step(t), ~SpawnWorker(t) PROVE workers'[s] = workers[s]
  BY <1>t, <1>1 DEF Step, FindForMessage, FindForArchive, FindForAnswer, CreateSession,
     AppendToSession, SessionGone, CheckExpired, ReadStatus, SetStatus, DeleteSession,
     SchedulePending
<1>2. ASSUME NEW t \in Threads, SpawnWorker(t)
      PROVE  workers'[s] = workers[s] \/ (s = target[t] /\ workers'[s] = workers[s] + 1)
  BY <1>t, <1>2 DEF SpawnWorker
<1>3. ASSUME NEW t \in Threads, NEW k \in Kinds, Receive(t, k) PROVE workers'[s] = workers[s]
  BY <1>t, <1>3 DEF Receive
<1>4. ASSUME NEW n \in Sessions, WorkerEnds(n)
      PROVE  workers'[s] = workers[s] \/ (s = n /\ workers[s] > 0 /\ workers'[s] = workers[s] - 1)
  BY <1>t, <1>4 DEF WorkerEnds
<1>5. Crash => workers'[s] = 0
  BY DEF Crash
<1>6. UNCHANGED vars => workers'[s] = workers[s]
  BY DEF vars
<1>7. QED
  BY <1>t, <1>1, <1>2, <1>3, <1>4, <1>5, <1>6 DEF Next

\* What a request takes for its target, and what had ended when it came.
LEMMA TargetOf ==
  ASSUME TypeOK, OrderInv, LocalInv, NEW t \in Threads, NEW s \in Sessions,
         Step(t) \/ \E k \in Kinds : Receive(t, k)
  PROVE  /\ target'[t] = s =>
              \/ target[t] = s /\ kind'[t] = kind[t]
              \/ CreateSession(t, s)
              \/ pc[t] = "find" /\ s \in LiveSessions
              \/ kind'[t] \in {"idle", "update", "destroy"} /\ status[s] # "none"
         /\ s \in closed'[t] =>
              s \in closed[t] \/ (status[s] \in Ended /\ \E k \in Kinds : Receive(t, k))
         /\ ~(\E k \in Kinds : Receive(t, k)) => closed'[t] = closed[t]
<1> USE DEF Goto, local
<1>t. /\ status \in [Sessions -> Log!Statuses \cup {"none"}] /\ workers \in [Sessions -> Nat]
      /\ target \in [Threads -> Sessions \cup {NoSession}] /\ recent \in Seq(Sessions)
      /\ kind \in [Threads -> Kinds \cup {"none", "lookup"}]
      /\ closed \in [Threads -> SUBSET Sessions]
  BY DEF TypeOK
<1>n. NoSession \notin Sessions
  BY ManagerAssumption
<1>m. MostRecent \in LiveSessions \cup {NoSession}
  BY <1>t, Found DEF OrderInv
<1>1. CASE \E k \in Kinds : Receive(t, k)
  <2>1. PICK k \in Kinds : Receive(t, k)
    BY <1>1
  <2>2. /\ kind'[t] = k /\ pc[t] = "free"
        /\ closed'[t] = {n \in Sessions : status[n] \in Ended}
    BY <1>t, <2>1 DEF Receive
  <2>3. CASE k \in {"message", "archive"}
    <3>1. target'[t] = target[t] /\ target[t] = NoSession
      BY <1>t, <2>1, <2>2, <2>3 DEF Receive, LocalInv
    <3>2. QED
      BY <1>n, <1>t, <2>1, <2>2, <3>1
  <2>4. CASE k \in {"idle", "update", "destroy"}
    BY <1>t, <1>n, <2>1, <2>2, <2>4 DEF Receive
  <2>5. QED
    BY <2>1, <2>3, <2>4, ManagerAssumption
<1>2. CASE FindForMessage(t)
  BY <1>t, <1>2, <1>m, <1>n DEF FindForMessage
<1>3. CASE FindForArchive(t)
  BY <1>t, <1>3, <1>m, <1>n DEF FindForArchive
<1>4. CASE FindForAnswer(t)
  BY <1>t, <1>4, <1>m, <1>n DEF FindForAnswer, Done
<1>5. CASE \E n \in Sessions : CreateSession(t, n)
  BY <1>t, <1>5, <1>n DEF CreateSession, Done, LocalInv
<1>6. CASE AppendToSession(t) \/ SessionGone(t)
  BY <1>t, <1>6, <1>n DEF AppendToSession, SessionGone, Done
<1>7. CASE CheckExpired(t) \/ ReadStatus(t)
  BY <1>t, <1>7, <1>n DEF CheckExpired, ReadStatus, Done
<1>8. CASE SetStatus(t)
  BY <1>t, <1>8, <1>n DEF SetStatus, AfterSet, Done
<1>9. CASE DeleteSession(t) \/ SchedulePending(t) \/ SpawnWorker(t)
  BY <1>t, <1>9, <1>n DEF DeleteSession, SchedulePending, SpawnWorker, Done
<1>10. QED
  BY <1>t, <1>1, <1>2, <1>3, <1>4, <1>5, <1>6, <1>7, <1>8, <1>9 DEF Step

-----------------------------------------------------------------------------
(* The strengthening, part by part                                          *)

\* OrderInv is kept.
LEMMA OrderStep ==
  ASSUME TypeOK, OrderInv, LocalInv, [Next]_vars
  PROVE  OrderInv'
<1>t. /\ recent \in Seq(Sessions) /\ Len(recent) \in Nat
      /\ target \in [Threads -> Sessions \cup {NoSession}]
      /\ closed \in [Threads -> SUBSET Sessions] /\ workers \in [Sessions -> Nat]
  BY DEF TypeOK
<1>1. /\ \A i \in 1..Len(recent') : recent'[i] \in 1..Len(recent')
      /\ \A s \in Sessions : Known(s) => Known(s)'
  <2>1. CASE UNCHANGED recent
    BY <2>1 DEF OrderInv, Known
  <2>2. ASSUME NEW s \in Sessions, recent' = Moved(s), Known(s) \/ s = Len(recent) + 1
        PROVE  /\ \A i \in 1..Len(recent') : recent'[i] \in 1..Len(recent')
               /\ \A u \in Sessions : Known(u) => Known(u)'
    <3>1. /\ Len(recent') = IF Known(s) THEN Len(recent) ELSE Len(recent) + 1
          /\ \A u : (\E i \in 1..Len(recent') : recent'[i] = u) <=> Known(u) \/ u = s
      BY <1>t, <2>2, MovedOrder
    <3>2. \A u : Known(u) => u \in 1..Len(recent)
      BY DEF OrderInv, Known
    <3>3. ASSUME NEW i \in 1..Len(recent') PROVE recent'[i] \in 1..Len(recent')
      <4>1. Known(recent'[i]) \/ recent'[i] = s
        BY <3>1
      <4>2. QED
        BY <1>t, <2>2, <3>1, <3>2, <4>1
    <3>4. \A u \in Sessions : Known(u) => Known(u)'
      BY <3>1 DEF Known
    <3>5. QED
      BY <3>3, <3>4
  <2>3. ASSUME NEW t \in Threads, Step(t) \/ \E k \in Kinds : Receive(t, k)
        PROVE  \/ UNCHANGED recent
               \/ \E s \in Sessions : recent' = Moved(s) /\ (Known(s) \/ s = Len(recent) + 1)
    BY <2>3, OrderOf
  <2>4. (\E s \in Sessions : WorkerEnds(s)) \/ Crash \/ UNCHANGED vars => UNCHANGED recent
    BY DEF WorkerEnds, Crash, vars
  <2>5. QED
    BY <2>1, <2>2, <2>3, <2>4, OtherSteps
\* A session that is created gets its place.
<1>2. ASSUME NEW t \in Threads, NEW s \in Sessions, CreateSession(t, s) PROVE Known(s)'
  <2>1. recent' = Moved(s)
    BY <1>2 DEF CreateSession
  <2>2. \E i \in 1..Len(recent') : recent'[i] = s
    BY <1>t, <2>1, MovedOrder
  <2>3. QED
    BY <2>2 DEF Known
<1>3. ASSUME NEW s \in Sessions, status'[s] # "none" PROVE Known(s)'
  <2>1. CASE status[s] # "none"
    BY <2>1, <1>1 DEF OrderInv
  <2>2. CASE status[s] = "none"
    <3>1. PICK t \in Threads : Step(t) \/ \E k \in Kinds : Receive(t, k)
      BY <1>3, <2>2, StatusOfOthers, OtherSteps
    <3>2. QED
      BY <1>2, <1>3, <2>2, <3>1, StatusOf
  <2>3. QED
    BY <2>1, <2>2
<1>4. ASSUME NEW s \in Sessions, ~Known(s)' PROVE workers'[s] = 0
  <2>1. ~Known(s) /\ workers[s] = 0
    BY <1>1, <1>4 DEF OrderInv
  <2>2. ASSUME NEW t \in Threads, SpawnWorker(t), s = target[t] PROVE FALSE
    BY <2>1, <2>2 DEF OrderInv
  <2>3. QED
    BY <2>1, <2>2, WorkersOf
<1>5. ASSUME NEW t \in Threads, NEW s \in Sessions, target'[t] = s \/ s \in closed'[t]
      PROVE  Known(s)'
  <2>1. CASE target[t] = s \/ s \in closed[t] \/ status[s] # "none"
    BY <2>1, <1>1 DEF OrderInv
  <2>2. CASE Step(t) \/ \E k \in Kinds : Receive(t, k)
    <3>1. s \in LiveSessions \/ status[s] \in Ended => status[s] # "none"
      BY DEF LiveSessions, Ended, Live, Log!Live
    <3>2. QED
      BY <1>2, <1>5, <2>1, <2>2, <3>1, TargetOf
  <2>3. ASSUME NEW u \in Threads, Step(u) \/ \E k \in Kinds : Receive(u, k), u # t
        PROVE  Known(s)'
    BY <1>5, <2>1, <2>3, StepOfOne
  <2>4. CASE (\E n \in Sessions : WorkerEnds(n)) \/ Crash \/ UNCHANGED vars
    <3>1. closed'[t] = closed[t] /\ (target'[t] = target[t] \/ target'[t] = NoSession)
      BY <2>4 DEF WorkerEnds, Crash, vars, local
    <3>2. QED
      BY <1>5, <2>1, <3>1, ManagerAssumption
  <2>5. QED
    BY <2>2, <2>3, <2>4, OtherSteps
<1>6. QED
  BY <1>1, <1>3, <1>4, <1>5 DEF OrderInv

\* Nothing chooses the mode again.
LEMMA Setup ==
  ASSUME TypeOK, [Next]_vars
  PROVE  serial' = serial /\ crashes' = crashes
<1>1. (\E s \in Sessions : WorkerEnds(s)) \/ Crash \/ UNCHANGED vars => UNCHANGED setup
  BY DEF WorkerEnds, Crash, vars
<1>2. QED
  BY <1>1, StepOfOne, OtherSteps DEF setup

\* A thread that takes a step has a request, unless it receives one.
LEMMA Busy ==
  ASSUME NEW t \in Threads, Step(t)
  PROVE  pc[t] # "free"
BY DEF Step, FindForMessage, FindForArchive, FindForAnswer, CreateSession,
   AppendToSession, SessionGone, CheckExpired, ReadStatus, SetStatus, DeleteSession,
   SchedulePending, SpawnWorker

\* With one request at a time, the thread that steps is the only one that
\* may hold one.
LEMMA Alone ==
  ASSUME ModeInv, serial, NEW t \in Threads, NEW u \in Threads \ {t},
         Step(t) \/ \E k \in Kinds : Receive(t, k)
  PROVE  pc[u] = "free"
<1>1. ASSUME Step(t) PROVE pc[u] = "free"
  BY <1>1, Busy DEF ModeInv
<1>2. ASSUME NEW k \in Kinds, Receive(t, k) PROVE pc[u] = "free"
  BY <1>2 DEF Receive
<1>3. QED
  BY <1>1, <1>2

\* The ways to update_status: reviving an idle session, an archive, a
\* direct call; a status is set only after it was read and validated.
LEMMA GoalOf ==
  ASSUME TypeOK, OrderInv, LocalInv, NEW t \in Threads,
         Step(t) \/ \E k \in Kinds : Receive(t, k)
  PROVE  /\ pc'[t] = "set" =>
              /\ ReadStatus(t) /\ Legal(status[target[t]], goal[t])
              /\ target'[t] = target[t] /\ goal'[t] = goal[t] /\ kind'[t] = kind[t]
         /\ pc'[t] = "read" =>
              \/ \E s \in Sessions : status[s] = "idle"
              \/ kind'[t] = "archive" \/ kind'[t] = "idle"
              \/ \E k \in Kinds : Receive(t, k)
<1> USE DEF Goto, local
<1>t. /\ kind \in [Threads -> Kinds \cup {"none", "lookup"}]
      /\ pc \in [Threads -> Places]
  BY DEF TypeOK, Places
<1>n. NoSession \notin Sessions
  BY ManagerAssumption
<1>m. MostRecent \in Sessions \cup {NoSession}
  BY Found DEF OrderInv, LiveSessions, TypeOK
<1>1. ASSUME NEW k \in Kinds, Receive(t, k) PROVE pc'[t] # "set"
  BY <1>t, <1>1 DEF Receive
<1>2. CASE FindForMessage(t) \/ FindForArchive(t)
  BY <1>2, <1>t, <1>m, <1>n DEF FindForMessage, FindForArchive
<1>3. CASE FindForAnswer(t)
  BY <1>3, <1>t, <1>m, <1>n DEF FindForAnswer, Done
<1>4. CASE \E n \in Sessions : CreateSession(t, n)
  BY <1>4, <1>t DEF CreateSession, Done
<1>5. CASE AppendToSession(t) \/ SessionGone(t)
  BY <1>5, <1>t DEF AppendToSession, SessionGone, Done
<1>6. CASE CheckExpired(t)
  BY <1>6, <1>t DEF CheckExpired, Done, LocalInv
<1>7. CASE ReadStatus(t)
  BY <1>7, <1>t DEF ReadStatus, Done
<1>8. CASE SetStatus(t)
  BY <1>8, <1>t DEF SetStatus, AfterSet, Done
<1>9. CASE DeleteSession(t) \/ SchedulePending(t) \/ SpawnWorker(t)
  BY <1>9, <1>t DEF DeleteSession, SchedulePending, SpawnWorker, Done
<1>10. QED
  BY <1>1, <1>2, <1>3, <1>4, <1>5, <1>6, <1>7, <1>8, <1>9 DEF Step

\* ModeInv is kept.
LEMMA ModeStep ==
  ASSUME TypeOK, OrderInv, LocalInv, ModeInv, [Next]_vars
  PROVE  ModeInv'
<1>s. serial' = serial
  BY Setup
<1>l. LocalInv'
  BY LocalStep
<1>t. pc \in [Threads -> Places]
  BY DEF TypeOK, Places
<1>0. ASSUME (\E n \in Sessions : WorkerEnds(n)) \/ Crash \/ UNCHANGED vars,
             NEW t \in Threads
      PROVE  \/ pc'[t] = "free" /\ kind'[t] = "none"
             \/ /\ UNCHANGED <<pc, kind, target, goal>>
                /\ \A s \in Sessions : status'[s] = status[s]
  <2>1. CASE \E n \in Sessions : WorkerEnds(n)
    BY <2>1 DEF WorkerEnds, Log!UpdateSummary, local
  <2>2. CASE Crash
    BY <2>2 DEF Crash
  <2>3. QED
    BY <1>0, <2>1, <2>2 DEF vars, db, local
<1>1. ASSUME ~serial, NEW s \in Sessions PROVE status'[s] # "idle"
  <2>1. status[s] # "idle"
    BY <1>1 DEF ModeInv
  <2>2. ASSUME NEW t \in Threads, SetStatus(t) PROVE goal[t] # "idle"
    BY <1>1, <2>2 DEF ModeInv, SetStatus, Ended
  <2>3. QED
    BY <2>1, <2>2, StatusOf, StatusOfOthers, OtherSteps
<1>2. ASSUME ~serial, NEW t \in Threads
      PROVE  /\ kind'[t] \notin {"idle", "update"}
             /\ pc'[t] \in {"read", "set"} => goal'[t] \in Ended
  <2>1. CASE Step(t) \/ \E k \in Kinds : Receive(t, k)
    <3>1. kind'[t] \notin {"idle", "update"}
      <4>1. ASSUME NEW k \in Kinds, Receive(t, k) PROVE kind'[t] \notin {"idle", "update"}
        BY <1>2, <4>1 DEF Receive, TypeOK
      <4>2. CASE Step(t)
        <5>1. kind'[t] \in {kind[t], "none", "lookup"}
          BY <4>2 DEF Step, FindForMessage, FindForArchive, FindForAnswer, CreateSession,
             AppendToSession, SessionGone, CheckExpired, ReadStatus, SetStatus, AfterSet,
             DeleteSession, SchedulePending, SpawnWorker, Done, local, TypeOK
        <5>2. QED
          BY <1>2, <5>1 DEF ModeInv
      <4>3. QED
        BY <2>1, <4>1, <4>2
    <3>2. CASE pc'[t] = "set"
      <4>1. pc[t] = "read" /\ goal'[t] = goal[t]
        BY <2>1, <3>2, GoalOf DEF ReadStatus
      <4>2. QED
        BY <1>2, <3>1, <4>1 DEF ModeInv
    <3>3. CASE pc'[t] = "read"
      <4>1. kind'[t] = "archive" \/ \E k \in Kinds : Receive(t, k)
        BY <1>2, <2>1, <3>1, <3>3, GoalOf DEF ModeInv
      <4>2. ASSUME NEW k \in Kinds, Receive(t, k) PROVE kind'[t] \in {"archive", "destroy"}
        BY <1>2, <1>t, <3>1, <3>3, <4>2, ManagerAssumption DEF Receive, TypeOK, Goto
      <4>3. QED
        BY <1>l, <3>3, <4>1, <4>2 DEF LocalInv, Ended
    <3>4. QED
      BY <3>1, <3>2, <3>3
  <2>2. ASSUME NEW u \in Threads, Step(u) \/ \E k \in Kinds : Receive(u, k), u # t
        PROVE  kind'[t] = kind[t] /\ pc'[t] = pc[t] /\ goal'[t] = goal[t]
    BY <2>2, StepOfOne
  <2>3. CASE (\E n \in Sessions : WorkerEnds(n)) \/ Crash \/ UNCHANGED vars
    BY <1>0, <1>2, <2>3 DEF ModeInv
  <2>4. QED
    BY <1>2, <2>1, <2>2, <2>3, OtherSteps DEF ModeInv
<1>3. ASSUME serial, NEW t \in Threads, NEW u \in Threads, pc'[t] # "free", pc'[u] # "free"
      PROVE  t = u
  <2>1. ASSUME NEW v \in Threads, Step(v) \/ \E k \in Kinds : Receive(v, k) PROVE t = u
    BY <1>3, <2>1, Alone, StepOfOne
  <2>2. CASE (\E n \in Sessions : WorkerEnds(n)) \/ Crash \/ UNCHANGED vars
    BY <1>0, <1>3, <2>2 DEF ModeInv
  <2>3. QED
    BY <2>1, <2>2, OtherSteps
<1>4. ASSUME serial, NEW t \in Threads, pc'[t] = "set"
      PROVE  Legal(status'[target'[t]], goal'[t])
  <2>1. CASE Step(t) \/ \E k \in Kinds : Receive(t, k)
    <3>1. /\ ReadStatus(t) /\ Legal(status[target[t]], goal[t])
          /\ target'[t] = target[t] /\ goal'[t] = goal[t]
      BY <1>4, <2>1, GoalOf
    <3>2. status' = status
      BY <3>1 DEF ReadStatus, db
    <3>3. QED
      BY <3>1, <3>2
  <2>2. ASSUME NEW u \in Threads, Step(u) \/ \E k \in Kinds : Receive(u, k), u # t
        PROVE  FALSE
    BY <1>4, <2>2, Alone, StepOfOne
  <2>3. CASE (\E n \in Sessions : WorkerEnds(n)) \/ Crash \/ UNCHANGED vars
    <3>1. /\ UNCHANGED <<pc, target, goal>>
          /\ \A s \in Sessions : status'[s] = status[s]
      BY <1>0, <1>4, <2>3
    <3>2. target[t] \in Sessions /\ pc[t] = "set"
      BY <1>4, <3>1 DEF LocalInv, TypeOK
    <3>3. QED
      BY <1>4, <3>1, <3>2 DEF ModeInv
  <2>4. QED
    BY <2>1, <2>2, <2>3, OtherSteps
<1>5. QED
  BY <1>s, <1>1, <1>2, <1>3, <1>4 DEF ModeInv

\* Whatever revives a session, it had not ended before: requests that overlap
\* ask for no other status, and a transition from an end is illegal.
LEMMA NoRevival ==
  ASSUME TypeOK, OrderInv, LocalInv, ModeInv, [Next]_vars, NEW s \in Sessions,
         status'[s] \in Live, status[s] \notin Live
  PROVE  \E t \in Threads : CreateSession(t, s) /\ ~Known(s)
<1>1. "archived" \notin Live /\ "none" \notin Live /\ \A e \in Ended : e \notin Live
  BY DEF Live, Log!Live, Ended
<1>2. PICK t \in Threads : Step(t) \/ \E k \in Kinds : Receive(t, k)
  BY <1>1, StatusOfOthers, OtherSteps
<1>3. ASSUME SetStatus(t), s = target[t], status[s] # "none", status'[s] = goal[t] PROVE FALSE
  <2>1. CASE ~serial
    BY <1>1, <1>3, <2>1 DEF ModeInv, SetStatus
  <2>2. CASE serial
    <3>1. Legal(status[s], goal[t])
      BY <1>3, <2>2 DEF ModeInv, SetStatus
    <3>2. status[s] \in Ended
      BY <1>3 DEF TypeOK, Log!Statuses, Live, Ended, Log!Live
    <3>3. QED
      BY <1>3, <3>1, <3>2 DEF Legal, ValidTransitions, Ended, Live, Log!Live
  <2>3. QED
    BY <2>1, <2>2
<1>4. QED
  BY <1>1, <1>2, <1>3, StatusOf

\* Who creates found no live session.
LEMMA CreatorsOf ==
  ASSUME TypeOK, OrderInv, LocalInv, [Next]_vars, NEW t \in Threads, pc'[t] = "create"
  PROVE  \/ pc[t] = "create" /\ \A s \in Sessions : ~CreateSession(t, s)
         \/ LiveSessions = {} /\ UNCHANGED db
<1> USE DEF Goto, local
<1>t. pc \in [Threads -> Places]
  BY DEF TypeOK, Places
<1>m. MostRecent = NoSession <=> LiveSessions = {}
  BY Found DEF OrderInv, TypeOK
<1>1. ASSUME NEW k \in Kinds, Receive(t, k) PROVE FALSE
  BY <1>t, <1>1 DEF Receive
<1>2. CASE FindForMessage(t) \/ FindForArchive(t)
  BY <1>2, <1>t, <1>m DEF FindForMessage, FindForArchive
<1>3. CASE FindForAnswer(t)
  BY <1>3, <1>t, <1>m DEF FindForAnswer, Done
<1>4. ASSUME NEW n \in Sessions, CreateSession(t, n) PROVE FALSE
  BY <1>4, <1>t DEF CreateSession, Done
<1>5. CASE AppendToSession(t) \/ SessionGone(t)
  BY <1>5, <1>t DEF AppendToSession, SessionGone, Done
<1>6. CASE CheckExpired(t) \/ ReadStatus(t)
  BY <1>6, <1>t DEF CheckExpired, ReadStatus, Done
<1>7. CASE SetStatus(t)
  BY <1>7, <1>t DEF SetStatus, AfterSet, Done
<1>8. CASE DeleteSession(t) \/ SchedulePending(t) \/ SpawnWorker(t)
  BY <1>8, <1>t DEF DeleteSession, SchedulePending, SpawnWorker, Done
<1>9. ASSUME NEW u \in Threads \ {t}, Step(u) \/ \E k \in Kinds : Receive(u, k)
      PROVE  pc[t] = "create"
  BY <1>9, StepOfOne
<1>10. (\E s \in Sessions : CreateSession(t, s)) => pc'[t] # "create"
  BY <1>4
<1>11. CASE (\E n \in Sessions : WorkerEnds(n)) \/ Crash \/ UNCHANGED vars
  BY <1>10, <1>11 DEF WorkerEnds, Crash, vars
<1>12. QED
  BY <1>1, <1>2, <1>3, <1>5, <1>6, <1>7, <1>8, <1>9, <1>10, <1>11, OtherSteps DEF Step

\* LiveBounded is kept: a creator found no live session, and its place is
\* taken by the session it creates.
LEMMA BoundStep ==
  ASSUME TypeOK, OrderInv, LocalInv, ModeInv, LiveBounded, [Next]_vars
  PROVE  LiveBounded'
<1> DEFINE C == {t \in Threads : pc[t] = "create"}
<1>f. /\ IsFiniteSet(LiveSessions) /\ IsFiniteSet(LiveSessions') /\ IsFiniteSet(C) /\ IsFiniteSet(C')
      /\ Cardinality(LiveSessions) \in Nat /\ Cardinality(LiveSessions') \in Nat
      /\ Cardinality(C) \in Nat /\ Cardinality(C') \in Nat /\ Cardinality(Threads) \in Nat
      /\ Cardinality(C) <= Cardinality(Threads) /\ Cardinality(C') <= Cardinality(Threads)
  <2>1. /\ LiveSessions \subseteq Sessions /\ LiveSessions' \subseteq Sessions
        /\ C \subseteq Threads /\ C' \subseteq Threads
    BY DEF LiveSessions
  <2>2. QED
    BY <2>1, FS_Subset, FS_CardinalityType, ManagerAssumption
<1>b. Cardinality(LiveSessions) + Cardinality(C) <= Cardinality(Threads)
  BY DEF LiveBounded
<1>1. CASE LiveSessions = {} /\ UNCHANGED db
  <2>1. LiveSessions' = {} /\ Cardinality({}) = 0
    BY <1>1, FS_EmptySet DEF LiveSessions, db
  <2>2. QED
    BY <1>f, <2>1 DEF LiveBounded
<1>2. CASE /\ ~(LiveSessions = {} /\ UNCHANGED db)
           /\ \E t \in Threads, s \in Sessions : CreateSession(t, s)
  <2>1. PICK t \in Threads, s \in Sessions : CreateSession(t, s)
    BY <1>2
  <2>2. s \notin LiveSessions /\ LiveSessions' = LiveSessions \cup {s}
    BY <2>1 DEF CreateSession, Log!Create, LiveSessions, Live, Log!Live, TypeOK
  <2>3. t \in C /\ C' \subseteq C \ {t}
    <3>1. t \in C
      BY <2>1 DEF CreateSession
    <3>2. C' \subseteq C /\ t \notin C'
      BY <1>2, <2>1, CreatorsOf
    <3>3. QED
      BY <3>1, <3>2
  <2>4. Cardinality(LiveSessions') = Cardinality(LiveSessions) + 1
    BY <1>f, <2>2, FS_AddElement
  <2>5. Cardinality(C \ {t}) = Cardinality(C) - 1 /\ IsFiniteSet(C \ {t})
    BY <1>f, <2>3, FS_RemoveElement
  <2>6. Cardinality(C') <= Cardinality(C \ {t})
    BY <2>3, <2>5, FS_Subset
  <2>7. QED
    BY <1>f, <1>b, <2>4, <2>5, <2>6 DEF LiveBounded
<1>3. CASE /\ ~(LiveSessions = {} /\ UNCHANGED db)
           /\ ~\E t \in Threads, s \in Sessions : CreateSession(t, s)
  <2>1. LiveSessions' \subseteq LiveSessions
    BY <1>3, NoRevival DEF LiveSessions
  <2>2. C' \subseteq C
    BY <1>3, CreatorsOf
  <2>3. Cardinality(LiveSessions') <= Cardinality(LiveSessions) /\ Cardinality(C') <= Cardinality(C)
    BY <1>f, <2>1, <2>2, FS_Subset
  <2>4. QED
    BY <1>f, <1>b, <2>3 DEF LiveBounded
<1>4. QED
  BY <1>1, <1>2, <1>3

\* ClosedInv is kept.
LEMMA ClosedStep ==
  ASSUME TypeOK, OrderInv, LocalInv, ModeInv, ClosedInv, [Next]_vars
  PROVE  ClosedInv'
<1>1. SUFFICES ASSUME NEW t \in Threads, NEW s \in Sessions, s \in closed'[t],
                      serial' => pc'[t] = "find", status'[s] \in Live
               PROVE  FALSE
  <2>1. closed' \in [Threads -> SUBSET Sessions]
    BY TypeStep DEF TypeOK
  <2>2. QED
    BY <1>1, <2>1 DEF ClosedInv, Live, Log!Live
<1>2. serial' = serial
  BY Setup
<1>e. \A e \in Ended : e \notin Live
  BY DEF Ended, Live, Log!Live
<1>3. s \in closed[t] \/ status[s] \in Ended
  <2>1. closed'[t] = closed[t] \/ (Step(t) \/ \E k \in Kinds : Receive(t, k))
    <3>1. CASE (\E n \in Sessions : WorkerEnds(n)) \/ Crash \/ UNCHANGED vars
      BY <3>1 DEF WorkerEnds, Crash, vars
    <3>2. QED
      BY <3>1, StepOfOne, OtherSteps
  <2>2. QED
    BY <1>1, <2>1, TargetOf
<1>4. status[s] \in Live
  <2>1. ASSUME NEW u \in Threads, CreateSession(u, s), ~Known(s) PROVE FALSE
    BY <1>3, <2>1 DEF OrderInv, Ended
  <2>2. QED
    BY <1>1, <2>1, NoRevival
<1>5. s \in closed[t]
  BY <1>3, <1>4, <1>e
<1>6. serial /\ pc[t] # "find"
  BY <1>4, <1>5 DEF ClosedInv
<1>7. pc'[t] = "find" /\ ~(\E k \in Kinds : Receive(t, k))
  <2>1. ASSUME NEW k \in Kinds, Receive(t, k) PROVE FALSE
    <3>1. closed'[t] = {n \in Sessions : status[n] \in Ended}
      BY <2>1 DEF Receive, TypeOK
    <3>2. QED
      BY <1>1, <1>4, <1>e, <3>1
  <2>2. QED
    BY <1>1, <1>2, <1>6, <2>1
<1>8. QED
  <2>1. ASSUME Step(t) PROVE pc'[t] # "find"
    BY <1>6, <2>1 DEF Step, FindForMessage, FindForArchive, FindForAnswer, CreateSession,
       AppendToSession, SessionGone, CheckExpired, ReadStatus, SetStatus, AfterSet,
       DeleteSession, SchedulePending, SpawnWorker, Done, Goto, local, TypeOK
  <2>2. (\E n \in Sessions : WorkerEnds(n)) \/ Crash \/ UNCHANGED vars =>
          pc'[t] = pc[t] \/ pc'[t] = "free"
    BY DEF WorkerEnds, Crash, vars
  <2>3. QED
    BY <1>6, <1>7, <2>1, <2>2, StepOfOne, OtherSteps

\* EndedSessionsRest is kept: the lookup finds live sessions only, and a new
\* session had not ended.
LEMMA RestStep ==
  ASSUME TypeOK, OrderInv, LocalInv, ModeInv, ClosedInv, EndedSessionsRest, [Next]_vars
  PROVE  EndedSessionsRest'
<1>1. SUFFICES ASSUME NEW t \in Threads, kind'[t] \in {"message", "archive"},
                      target'[t] \in closed'[t]
               PROVE  FALSE
  BY <1>1 DEF EndedSessionsRest
<1> DEFINE s == target'[t]
<1>2. s \in Sessions
  BY <1>1, TypeStep DEF TypeOK
<1>n. NoSession \notin Sessions
  BY ManagerAssumption
<1>3. CASE Step(t)
  <2>1. closed'[t] = closed[t]
    <3>1. ~(\E k \in Kinds : Receive(t, k))
      BY <1>3, Busy DEF Receive
    <3>2. QED
      BY <1>2, <1>3, <3>1, TargetOf
  <2>2. ~(target[t] = s /\ kind'[t] = kind[t])
    BY <1>1, <2>1 DEF EndedSessionsRest
  <2>3. ~CreateSession(t, s)
    <3>1. ASSUME CreateSession(t, s) PROVE ~Known(s)
      BY <3>1 DEF CreateSession, OrderInv, Known, TypeOK
    <3>2. QED
      BY <1>1, <1>2, <2>1, <3>1 DEF OrderInv
  <2>4. pc[t] = "find" /\ s \in LiveSessions
    BY <1>1, <1>2, <1>3, <2>2, <2>3, TargetOf
  <2>5. QED
    BY <1>1, <1>2, <2>1, <2>4 DEF ClosedInv, LiveSessions
<1>4. ASSUME NEW k \in Kinds, Receive(t, k) PROVE FALSE
  <2>1. target'[t] = NoSession
    BY <1>1, <1>4 DEF Receive, LocalInv, TypeOK
  <2>2. QED
    BY <1>2, <1>n, <2>1
<1>5. ASSUME NEW u \in Threads \ {t}, Step(u) \/ \E k \in Kinds : Receive(u, k) PROVE FALSE
  BY <1>1, <1>5, StepOfOne DEF EndedSessionsRest
<1>6. CASE (\E n \in Sessions : WorkerEnds(n)) \/ UNCHANGED vars
  BY <1>1, <1>6 DEF WorkerEnds, vars, local, EndedSessionsRest
<1>7. CASE Crash
  BY <1>1, <1>7 DEF Crash
<1>8. QED
  BY <1>3, <1>4, <1>5, <1>6, <1>7, OtherSteps

\* What a step does to the messages of a session and to its archive row.
LEMMA RowOf ==
  ASSUME TypeOK, OrderInv, LocalInv, [Next]_vars, NEW s \in Sessions
  PROVE  \/ archive'[s] = archive[s] /\ messages'[s] = messages[s]
         \/ /\ archive'[s] = archive[s]
            /\ \E t \in Threads : \/ AppendToSession(t) /\ s = target[t]
                                  \/ CreateSession(t, s) /\ status[s] = "none"
         \/ /\ archive'[s] = Len(messages[s]) /\ messages'[s] = messages[s]
            /\ status'[s] = "archived"
            /\ \E t \in Threads : SetStatus(t) /\ s = target[t] /\ goal[t] = "archived"
         \/ archive'[s] = NoRow /\ summary'[s] = "none"
<1> USE DEF db
<1>t. /\ archive \in [Sessions -> Nat \cup {NoRow}] /\ messages \in [Sessions -> Seq({0})]
      /\ status \in [Sessions -> Log!Statuses \cup {"none"}]
      /\ summary \in [Sessions -> Log!SummaryStates \cup {"none"}]
  BY DEF TypeOK
<1>1. ASSUME NEW t \in Threads, NEW n \in Sessions, CreateSession(t, n)
      PROVE  archive'[s] = archive[s] /\ (messages'[s] = messages[s] \/ (s = n /\ status[s] = "none"))
  BY <1>t, <1>1 DEF CreateSession, Log!Create
<1>2. ASSUME NEW t \in Threads, AppendToSession(t)
      PROVE  archive'[s] = archive[s] /\ (messages'[s] = messages[s] \/ s = target[t])
  BY <1>t, <1>2 DEF AppendToSession, Log!AppendMessage
<1>3. ASSUME NEW t \in Threads, SetStatus(t)
      PROVE  /\ messages'[s] = messages[s]
             /\ \/ archive'[s] = archive[s]
                \/ /\ archive'[s] = Len(messages[s]) /\ s = target[t]
                   /\ status'[s] = "archived" /\ goal[t] = "archived"
  BY <1>t, <1>3 DEF SetStatus, Log!SetStatus
<1>4. ASSUME NEW t \in Threads, DeleteSession(t)
      PROVE  \/ archive'[s] = NoRow /\ summary'[s] = "none"
             \/ archive'[s] = archive[s] /\ messages'[s] = messages[s]
  BY <1>t, <1>4 DEF DeleteSession, Log!Delete
<1>5. ASSUME NEW t \in Threads,
             \/ \E k \in Kinds : Receive(t, k)
             \/ FindForMessage(t) \/ FindForArchive(t) \/ FindForAnswer(t)
             \/ SessionGone(t) \/ CheckExpired(t) \/ ReadStatus(t)
             \/ SchedulePending(t) \/ SpawnWorker(t)
      PROVE  archive' = archive /\ messages' = messages
  BY <1>5 DEF Receive, FindForMessage, FindForArchive, FindForAnswer, SessionGone,
     CheckExpired, ReadStatus, SchedulePending, SpawnWorker, Log!UpdateSummary
<1>6. CASE (\E n \in Sessions : WorkerEnds(n)) \/ Crash \/ UNCHANGED vars
  BY <1>6 DEF WorkerEnds, Log!UpdateSummary, Crash, Log!ArchiveTorn, vars
<1>7. QED
  BY <1>1, <1>2, <1>3, <1>4, <1>5, <1>6, OtherSteps DEF Step

\* What a step does to the summary of a session.
LEMMA SummaryOf ==
  ASSUME TypeOK, OrderInv, LocalInv, [Next]_vars, NEW s \in Sessions
  PROVE  \/ summary'[s] = summary[s]
         \/ /\ archive[s] # NoRow /\ archive'[s] = archive[s]
            /\ \/ \E t \in Threads : SchedulePending(t) /\ s = target[t] /\ summary'[s] = "pending"
               \/ WorkerEnds(s)
         \/ archive'[s] = NoRow /\ summary'[s] = "none"
<1> USE DEF db
<1>t. /\ archive \in [Sessions -> Nat \cup {NoRow}]
      /\ summary \in [Sessions -> Log!SummaryStates \cup {"none"}]
  BY DEF TypeOK
<1>1. ASSUME NEW t \in Threads,
             \/ \E n \in Sessions : CreateSession(t, n)
             \/ AppendToSession(t) \/ SetStatus(t)
      PROVE  summary' = summary
  BY <1>1 DEF CreateSession, Log!Create, AppendToSession, Log!AppendMessage,
     SetStatus, Log!SetStatus
<1>2. ASSUME NEW t \in Threads,
             \/ \E k \in Kinds : Receive(t, k)
             \/ FindForMessage(t) \/ FindForArchive(t) \/ FindForAnswer(t)
             \/ SessionGone(t) \/ CheckExpired(t) \/ ReadStatus(t) \/ SpawnWorker(t)
      PROVE  summary' = summary
  BY <1>2 DEF Receive, FindForMessage, FindForArchive, FindForAnswer, SessionGone,
     CheckExpired, ReadStatus, SpawnWorker
<1>3. ASSUME NEW t \in Threads, DeleteSession(t)
      PROVE  summary'[s] = summary[s] \/ (archive'[s] = NoRow /\ summary'[s] = "none")
  BY <1>t, <1>3 DEF DeleteSession, Log!Delete
<1>4. ASSUME NEW t \in Threads, SchedulePending(t)
      PROVE  \/ summary'[s] = summary[s]
             \/ /\ archive[s] # NoRow /\ archive'[s] = archive[s]
                /\ s = target[t] /\ summary'[s] = "pending"
  BY <1>t, <1>4 DEF SchedulePending, Log!UpdateSummary
<1>5. ASSUME NEW n \in Sessions, WorkerEnds(n)
      PROVE  \/ summary'[s] = summary[s]
             \/ archive[s] # NoRow /\ archive'[s] = archive[s] /\ s = n
  BY <1>t, <1>5 DEF WorkerEnds, Log!UpdateSummary
<1>6. CASE Crash \/ UNCHANGED vars
  BY <1>6 DEF Crash, Log!ArchiveTorn, vars
<1>7. QED
  BY <1>1, <1>2, <1>3, <1>4, <1>5, <1>6, OtherSteps DEF Step

\* RowInv is kept: what is appended goes to a live session, which has no row.
LEMMA RowStep ==
  ASSUME TypeOK, OrderInv, LocalInv, ModeInv, RowInv, [Next]_vars
  PROVE  RowInv'
<1>1. SUFFICES ASSUME serial, serial' PROVE RowInv'
  BY Setup DEF RowInv
<1>e. /\ \A e \in Ended : e \notin Live
      /\ "archived" \in Ended /\ "none" \notin Live /\ "none" \notin Ended
      /\ "active" \in Live
      /\ \A st \in Log!Statuses : st \in Live \/ st \in Ended
  BY DEF Ended, Live, Log!Live, Log!Statuses
\* No session leaves its end, but by being deleted with its row.
<1>2. ASSUME NEW s \in Sessions, status[s] \in Ended
      PROVE  status'[s] \in Ended \/ archive'[s] = NoRow
  <2>1. ASSUME NEW t \in Threads, SetStatus(t), s = target[t], status'[s] = goal[t]
        PROVE  status'[s] \in Ended
    <3>1. Legal(status[s], goal[t])
      BY <1>1, <2>1 DEF ModeInv, SetStatus
    <3>2. QED
      BY <1>2, <2>1, <3>1 DEF Legal, ValidTransitions, Ended
  <2>2. ASSUME NEW t \in Threads, DeleteSession(t), s = target[t] PROVE archive'[s] = NoRow
    BY <2>2 DEF DeleteSession, Log!Delete, TypeOK
  <2>3. ASSUME NEW t \in Threads, ~Known(s) PROVE FALSE
    BY <1>2, <1>e, <2>3 DEF OrderInv
  <2>4. QED
    BY <1>2, <1>e, <2>1, <2>2, <2>3, StatusOf, StatusOfOthers, OtherSteps
<1>3. ASSUME NEW s \in Sessions, archive'[s] # NoRow
      PROVE  status'[s] \in Ended /\ archive'[s] = Len(messages'[s])
  <2>1. CASE archive'[s] = archive[s] /\ messages'[s] = messages[s]
    BY <1>1, <1>2, <1>3, <2>1 DEF RowInv
  <2>2. ASSUME archive'[s] = archive[s], NEW t \in Threads,
               \/ AppendToSession(t) /\ s = target[t]
               \/ CreateSession(t, s) /\ status[s] = "none"
        PROVE  FALSE
    <3>1. status[s] \in Ended
      BY <1>1, <1>3, <2>2 DEF RowInv
    <3>2. AppendToSession(t) /\ s = target[t]
      BY <1>e, <2>2, <3>1
    <3>3. status[s] \in Live
      <4>1. pc[t] \in {"append", "reply"}
        BY <3>2 DEF AppendToSession
      <4>2. kind[t] \in {"message", "archive"}
        BY <4>1 DEF LocalInv
      <4>3. QED
        BY <1>1, <3>2, <4>1, <4>2 DEF RowInv
    <3>4. QED
      BY <1>e, <3>1, <3>3
  <2>3. CASE archive'[s] = Len(messages[s]) /\ messages'[s] = messages[s] /\ status'[s] = "archived"
    BY <1>e, <2>3
  <2>4. QED
    BY <1>3, <2>1, <2>2, <2>3, RowOf
<1>4. ASSUME NEW t \in Threads, pc'[t] \in {"append", "reply", "read", "set"},
             kind'[t] \in {"message", "archive"}
      PROVE  status'[target'[t]] \in Live
  <2>0. target'[t] \in Sessions
    <3>1. target'[t] \in Sessions \cup {NoSession}
      BY TypeStep DEF TypeOK
    <3>2. QED
      BY <1>4, <3>1, LocalStep DEF LocalInv
  <2>1. CASE Step(t)
    <3>1. CASE SetStatus(t)
      <4>1. /\ pc'[t] = "append" /\ kind[t] = "message" /\ target'[t] = target[t]
            /\ goal[t] = "active"
        BY <1>4, <2>1, <3>1 DEF SetStatus, AfterSet, Goto, Done, local, TypeOK, LocalInv
      <4>2. status'[target[t]] = goal[t]
        BY <2>0, <3>1, <4>1 DEF SetStatus, Log!SetStatus, TypeOK
      <4>3. QED
        BY <1>e, <4>1, <4>2
    <3>2. CASE \E s \in Sessions : CreateSession(t, s)
      <4>1. PICK s \in Sessions : CreateSession(t, s)
        BY <3>2
      <4>2. target'[t] = s
        BY <1>4, <4>1 DEF CreateSession, Done, Goto, TypeOK
      <4>3. status'[s] = "active"
        BY <4>1 DEF CreateSession, Log!Create, TypeOK
      <4>4. QED
        BY <1>e, <4>2, <4>3
    <3>3. CASE ~SetStatus(t) /\ ~(\E s \in Sessions : CreateSession(t, s))
      <4>1. target'[t] \in LiveSessions \/
              (/\ target'[t] = target[t]
               /\ pc[t] \in {"append", "reply", "read", "set"}
               /\ kind[t] \in {"message", "archive"})
        <5>n. NoSession \notin Sessions /\ pc[t] \in Places /\ pc[t] # "free"
          BY <2>1, Busy, ManagerAssumption DEF TypeOK, Places
        <5>1. CASE pc[t] = "find"
          <6>1. target[t] = NoSession
            BY <5>1 DEF LocalInv
          <6>2. QED
            BY <1>4, <2>0, <2>1, <3>3, <5>n, <6>1, TargetOf
        <5>2. CASE pc[t] # "find"
          <6>1. target'[t] = target[t] /\ kind'[t] = kind[t]
            BY <1>4, <2>0, <2>1, <3>3, <5>2, <5>n, TargetOf
          <6>2. pc[t] \in {"append", "reply", "read", "set"}
            <7>1. ASSUME pc[t] \in {"schedule", "spawn"} PROVE pc'[t] \in {"spawn", "free"}
              BY <2>1, <7>1 DEF Step, FindForMessage, FindForArchive, FindForAnswer,
                 CreateSession, AppendToSession, SessionGone, CheckExpired, ReadStatus,
                 SetStatus, DeleteSession, SchedulePending, SpawnWorker, Done, Goto, TypeOK
            <7>2. pc[t] \notin {"free", "find", "create"}
              BY <2>0, <5>n, <6>1 DEF LocalInv
            <7>3. pc[t] \notin {"expired", "delete", "schedule", "spawn"}
              BY <1>4, <6>1, <7>1 DEF LocalInv
            <7>4. QED
              BY <5>n, <7>2, <7>3 DEF Places
          <6>3. QED
            BY <1>4, <6>1, <6>2
        <5>3. QED
          BY <5>1, <5>2
      <4>2. status[target'[t]] \in Live
        BY <1>1, <4>1 DEF RowInv, LiveSessions
      <4>3. status'[target'[t]] = status[target'[t]]
        <5>1. ~DeleteSession(t)
          BY <1>4 DEF DeleteSession, Done, Goto, TypeOK
        <5>2. QED
          BY <2>0, <2>1, <3>3, <5>1, StatusOf
      <4>4. QED
        BY <4>2, <4>3
    <3>4. QED
      BY <3>1, <3>2, <3>3
  <2>2. ASSUME NEW k \in Kinds, Receive(t, k) PROVE FALSE
    BY <1>4, <2>2 DEF Receive, Goto, TypeOK
  <2>3. ASSUME NEW u \in Threads \ {t}, Step(u) \/ \E k \in Kinds : Receive(u, k) PROVE FALSE
    BY <1>1, <1>4, <2>3, Alone, StepOfOne
  <2>4. CASE (\E n \in Sessions : WorkerEnds(n)) \/ UNCHANGED vars
    <3>1. UNCHANGED <<pc, kind, target, status>>
      BY <2>4 DEF WorkerEnds, Log!UpdateSummary, vars, local, db
    <3>2. QED
      BY <1>1, <1>4, <3>1 DEF RowInv
  <2>5. CASE Crash
    BY <1>4, <2>5 DEF Crash
  <2>6. QED
    BY <2>1, <2>2, <2>3, <2>4, <2>5, OtherSteps
<1>5. QED
  BY <1>3, <1>4 DEF RowInv

\* SummaryInv is kept: a session is archived once, from a live status, and
\* nothing writes a summary but the worker of that archive.
LEMMA SummaryStep ==
  ASSUME TypeOK, OrderInv, LocalInv, ModeInv, RowInv, SummaryInv, [Next]_vars
  PROVE  SummaryInv'
<1>1. SUFFICES ASSUME serial, serial' PROVE SummaryInv'
  BY Setup DEF SummaryInv
<1>e. /\ \A e \in Ended : e \notin Live
      /\ "done" # "none" /\ "pending" # "done" /\ "archived" \notin Live
  BY DEF Ended, Live, Log!Live
<1>i. /\ \A s \in Sessions :
           /\ status[s] \in Live \/ summary[s] = "done" => workers[s] = 0
           /\ workers[s] <= 1 /\ workers[s] \in Nat
           /\ summary[s] # "none" => archive[s] # NoRow
           /\ archive[s] # NoRow => status[s] \in Ended
      /\ \A t \in Threads : pc[t] \in {"schedule", "spawn"} =>
           /\ status[target[t]] \notin Live
           /\ workers[target[t]] = 0 /\ summary[target[t]] # "done"
           /\ target[t] \in Sessions /\ kind[t] = "archive"
  BY <1>1 DEF SummaryInv, RowInv, TypeOK, LocalInv
<1>2. ASSUME NEW t \in Threads, pc'[t] \in {"schedule", "spawn"}
      PROVE  /\ status'[target'[t]] \notin Live
             /\ workers'[target'[t]] = 0 /\ summary'[target'[t]] # "done"
  <2>1. CASE SetStatus(t)
    <3>1. /\ target'[t] = target[t] /\ kind[t] = "archive" /\ target[t] \in Sessions
          /\ workers' = workers /\ summary' = summary /\ status'[target[t]] = "archived"
      BY <1>2, <2>1 DEF SetStatus, AfterSet, Log!SetStatus, Done, Goto, local, LocalInv, TypeOK
    <3>2. status[target[t]] \in Live
      BY <1>1, <2>1, <3>1 DEF RowInv, SetStatus
    <3>3. QED
      BY <1>e, <1>i, <3>1, <3>2
  <2>2. CASE SchedulePending(t)
    <3>1. /\ target'[t] = target[t] /\ pc[t] = "schedule" /\ workers' = workers
          /\ summary'[target[t]] # "done" /\ status' = status
      BY <1>e, <1>i, <2>2 DEF SchedulePending, Log!UpdateSummary, local, TypeOK
    <3>2. QED
      BY <1>i, <3>1
  <2>3. ASSUME Step(t), ~SetStatus(t), ~SchedulePending(t) PROVE FALSE
    BY <1>2, <2>3 DEF Step, FindForMessage, FindForArchive, FindForAnswer, CreateSession,
       AppendToSession, SessionGone, CheckExpired, ReadStatus, DeleteSession, SpawnWorker,
       Done, Goto, local, TypeOK
  <2>4. ASSUME NEW k \in Kinds, Receive(t, k) PROVE FALSE
    BY <1>2, <2>4 DEF Receive, Goto, TypeOK
  <2>5. ASSUME NEW u \in Threads \ {t}, Step(u) \/ \E k \in Kinds : Receive(u, k) PROVE FALSE
    BY <1>1, <1>2, <2>5, Alone, StepOfOne
  <2>6. ASSUME NEW s \in Sessions, WorkerEnds(s)
        PROVE  /\ status'[target'[t]] \notin Live
               /\ workers'[target'[t]] = 0 /\ summary'[target'[t]] # "done"
    <3>1. UNCHANGED <<pc, target>> /\ workers[s] > 0
      BY <2>6 DEF WorkerEnds, local
    <3>2. pc[t] \in {"schedule", "spawn"} /\ target[t] # s
      BY <1>i, <1>2, <3>1
    <3>3. /\ workers'[target[t]] = workers[target[t]] /\ status' = status
          /\ summary'[target[t]] = summary[target[t]]
      BY <1>i, <2>6, <3>2 DEF WorkerEnds, Log!UpdateSummary, TypeOK
    <3>4. QED
      BY <1>i, <3>1, <3>2, <3>3
  <2>7. CASE Crash
    BY <1>2, <2>7 DEF Crash
  <2>8. CASE UNCHANGED vars
    BY <1>i, <1>2, <2>8 DEF vars, local, db
  <2>9. QED
    BY <2>1, <2>2, <2>3, <2>4, <2>5, <2>6, <2>7, <2>8, OtherSteps
<1>3. ASSUME NEW s \in Sessions PROVE workers'[s] <= 1 /\ workers'[s] \in Nat
  <2>1. ASSUME NEW t \in Threads, SpawnWorker(t), s = target[t] PROVE workers[s] = 0
    BY <1>i, <2>1 DEF SpawnWorker
  <2>2. QED
    BY <1>i, <2>1, WorkersOf
<1>4. ASSUME NEW s \in Sessions, status'[s] \in Live PROVE workers'[s] = 0
  <2>1. workers[s] = 0
    <3>1. CASE status[s] \in Live
      BY <1>i, <3>1
    <3>2. CASE status[s] \notin Live
      BY <1>4, <3>2, NoRevival DEF OrderInv
    <3>3. QED
      BY <3>1, <3>2
  <2>2. ASSUME NEW t \in Threads, SpawnWorker(t), s = target[t] PROVE FALSE
    <3>1. status'[s] = status[s] /\ pc[t] = "spawn"
      BY <2>2 DEF SpawnWorker, db
    <3>2. QED
      BY <1>4, <1>i, <2>2, <3>1
  <2>3. QED
    BY <2>1, <2>2, WorkersOf
<1>5. ASSUME NEW s \in Sessions, summary'[s] = "done" PROVE workers'[s] = 0
  <2>1. CASE summary[s] = "done"
    <3>1. ASSUME NEW t \in Threads, SpawnWorker(t), s = target[t] PROVE FALSE
      BY <1>i, <2>1, <3>1 DEF SpawnWorker
    <3>2. QED
      BY <1>i, <2>1, <3>1, WorkersOf
  <2>2. CASE WorkerEnds(s)
    <3>1. workers[s] > 0 /\ workers'[s] = workers[s] - 1
      BY <2>2 DEF WorkerEnds, TypeOK
    <3>2. QED
      BY <1>i, <3>1
  <2>3. QED
    BY <1>5, <1>e, <2>1, <2>2, SummaryOf
<1>6. ASSUME NEW s \in Sessions, summary'[s] # "none" PROVE archive'[s] # NoRow
  <2>1. archive[s] # NoRow
    BY <1>i, <1>6, SummaryOf
  <2>2. Len(messages[s]) # NoRow
    BY ManagerAssumption DEF TypeOK
  <2>3. QED
    BY <1>6, <2>1, <2>2, RowOf
<1>7. QED
  BY <1>2, <1>3, <1>4, <1>5, <1>6 DEF SummaryInv

\* SummaryStays at every step: who announces a summary found none, and the
\* worker that writes it is the only one.
LEMMA StaysStep ==
  ASSUME ManagerInv, [Next]_vars
  PROVE  serial => \A s \in Sessions :
           summary[s] = "done" /\ archive'[s] # NoRow => summary'[s] = "done"
<1>1. SUFFICES ASSUME serial, NEW s \in Sessions, summary[s] = "done", archive'[s] # NoRow
               PROVE  summary'[s] = "done"
  OBVIOUS
<1>2. workers[s] = 0
  BY <1>1 DEF ManagerInv, SummaryInv
<1>3. ~WorkerEnds(s)
  BY <1>2 DEF WorkerEnds
<1>4. ASSUME NEW t \in Threads, SchedulePending(t), s = target[t] PROVE FALSE
  BY <1>1, <1>4 DEF SchedulePending, ManagerInv, SummaryInv
<1>5. QED
  BY <1>1, <1>3, <1>4, SummaryOf DEF ManagerInv

-----------------------------------------------------------------------------
(* The theorems                                                             *)

\* The strengthening holds at the start, where nothing is stored.
LEMMA InitInv == Init => ManagerInv
<1> SUFFICES ASSUME Init PROVE ManagerInv
  OBVIOUS
<1>1. TypeOK
  BY InitType
<1>2. NoSession \notin Sessions /\ Len(<<>>) = 0
  BY ManagerAssumption
<1>3. /\ status = [s \in Sessions |-> "none"] /\ messages = [s \in Sessions |-> <<>>]
      /\ archive = [s \in Sessions |-> NoRow] /\ summary = [s \in Sessions |-> "none"]
      /\ recent = <<>> /\ workers = [s \in Sessions |-> 0]
      /\ pc = [t \in Threads |-> "free"] /\ kind = [t \in Threads |-> "none"]
      /\ target = [t \in Threads |-> NoSession] /\ closed = [t \in Threads |-> {}]
  BY DEF Init, Log!Init
<1>4. OrderInv /\ LocalInv /\ ModeInv /\ ClosedInv /\ EndedSessionsRest
  BY <1>2, <1>3 DEF OrderInv, Known, LocalInv, ModeInv, ClosedInv, EndedSessionsRest
<1>5. RowInv /\ SummaryInv
  BY <1>2, <1>3 DEF RowInv, SummaryInv
<1>6. LiveBounded
  <2>1. LiveSessions = {} /\ {t \in Threads : pc[t] = "create"} = {}
    BY <1>3 DEF LiveSessions, Live, Log!Live
  <2>2. Cardinality({}) = 0 /\ Cardinality(Threads) \in Nat
    BY FS_EmptySet, FS_CardinalityType, ManagerAssumption
  <2>3. QED
    BY <2>1, <2>2 DEF LiveBounded
<1>7. QED
  BY <1>1, <1>4, <1>5, <1>6 DEF ManagerInv

\* ... and every step keeps it.
LEMMA InvStep == ManagerInv /\ [Next]_vars => ManagerInv'
BY TypeStep, OrderStep, LocalStep, ModeStep, BoundStep, ClosedStep, RestStep, RowStep,
   SummaryStep DEF ManagerInv

LEMMA InvAlways == Spec => []ManagerInv
BY InitInv, InvStep, PTL DEF Spec

\* The variables of the session manager keep their types, for any number of
\* threads, sessions and requests.
THEOREM ManagerTypeCorrect == Spec => []TypeOK
<1>1. ManagerInv => TypeOK
  BY DEF ManagerInv
<1>2. QED
  BY <1>1, InvAlways, PTL

\* However many messages race in get_or_create_session, they leave no more
\* live sessions than there are request threads.
THEOREM SessionsBounded == Spec => []LiveBounded
<1>1. ManagerInv => LiveBounded
  BY DEF ManagerInv
<1>2. QED
  BY <1>1, InvAlways, PTL

\* No request is given a session that had ended before it came, whatever the
\* order in which commands and messages overlap, and across crashes.
THEOREM EndedRest == Spec => []EndedSessionsRest
<1>1. ManagerInv => EndedSessionsRest
  BY DEF ManagerInv
<1>2. QED
  BY <1>1, InvAlways, PTL

\* With one request at a time an archive row counts every message of its
\* session, also after a crash between its two commits.
THEOREM ArchivesComplete == Spec => []ArchiveIsComplete
<1>1. ManagerInv => ArchiveIsComplete
  BY DEF ManagerInv, RowInv, ArchiveIsComplete
<1>2. QED
  BY <1>1, InvAlways, PTL

\* With one request at a time a summary that was written is not announced or
\* written again.
THEOREM SummariesStay == Spec => SummaryStays
<1>1. ManagerInv /\ [Next]_vars =>
        [serial => \A s \in Sessions :
           (summary[s] = "done" /\ archive'[s] # NoRow)
             => summary'[s] = "done"]_vars
  BY StaysStep
<1>2. QED
  BY <1>1, InvAlways, PTL DEF Spec, SummaryStays
=============================================================================
