------------------------- MODULE SessionStoreProofs -------------------------
(***************************************************************************)
(* With one worker process the lock covers the whole load-change-save of   *)
(* every operation: no acknowledged message is lost, whatever crashes, and *)
(* the store is the atomic one of SessionLog, an archive torn by a crash   *)
(* excepted.                                                               *)
(***************************************************************************)
EXTENDS SessionStore, SequenceTheorems, TLAPS

OneProcess == \A t, u \in Threads : ProcOf[t] = ProcOf[u]

Goal == Statuses \cup SummaryStates \cup {"none"}

\* A thread between load and its last commit holds its process's lock ...
HoldInv ==
  \A t \in Threads : pc[t] \in {"save", "archive"} => lock[ProcOf[t]] = t

\* ... which keeps its copy equal to the row.
FreshInv ==
  \A t \in Threads :
    /\ pc[t] \in {"save", "archive"} => copyMessages[t] = messages[sid[t]]
    /\ pc[t] = "save" => copyStatus[t] = status[sid[t]]
    /\ pc[t] = "archive" => status[sid[t]] = "archived"

\* What the pending step of a call knows about its arguments.
CallInv ==
  \A t \in Threads :
    /\ pc[t] # "idle" => msg[t] \in 1..MaxCalls /\ op[t] \in Ops
    /\ op[t] = "set_status" => goal[t] \in Statuses
    /\ op[t] = "summary" => goal[t] \in SummaryStates
    /\ (pc[t] = "save" /\ op[t] = "create") => copyStatus[t] = "none"
    /\ (pc[t] = "save" /\ op[t] # "create") => copyStatus[t] # "none"
    /\ pc[t] = "archive" => goal[t] = "archived" /\ copyStatus[t] # "none"

\* A session without a row has no messages.
EmptyInv == \A s \in Sessions : status[s] = "none" => messages[s] = <<>>

IInv == TypeOK /\ HoldInv /\ FreshInv /\ CallInv /\ EmptyInv /\ AckedKept
-----------------------------------------------------------------------------
(* Proofs                                                                   *)

\* The range of a sequence that got one more element.
LEMMA AppendedRange ==
  ASSUME NEW q \in Seq(Nat), NEW x \in Nat
  PROVE  {Append(q, x)[i] : i \in 1..Len(Append(q, x))}
           = {q[i] : i \in 1..Len(q)} \cup {x}
<1>1. /\ Len(Append(q, x)) = Len(q) + 1
      /\ Append(q, x)[Len(q) + 1] = x
      /\ \A i \in 1..Len(q) : Append(q, x)[i] = q[i]
  OBVIOUS
<1>2. Len(q) \in Nat
  OBVIOUS
<1>3. 1..(Len(q) + 1) = (1..Len(q)) \cup {Len(q) + 1}
  BY <1>2
<1>4. QED
  BY <1>1, <1>2, <1>3

\* The same for the messages of a session.
LEMMA StoredAppend ==
  ASSUME TypeOK, NEW s \in Sessions, NEW m \in Nat,
         messages'[s] = Append(messages[s], m)
  PROVE  Stored(s)' = Stored(s) \cup {m}
<1>1. messages[s] \in Seq(Nat)
  BY DEF TypeOK
<1>2. QED
  BY <1>1, AppendedRange DEF Stored

\* The inductive invariant holds initially.
LEMMA InitInv == Init => IInv
<1> SUFFICES ASSUME Init PROVE IInv
  OBVIOUS
<1> USE StoreAssumption DEF Init
<1>1. TypeOK
  BY DEF TypeOK
<1>2. HoldInv /\ FreshInv /\ CallInv
  BY DEF HoldInv, FreshInv, CallInv
<1>3. EmptyInv /\ AckedKept
  BY DEF EmptyInv, AckedKept
<1>4. QED
  BY <1>1, <1>2, <1>3 DEF IInv

\* Types.
LEMMA TypeStep == TypeOK /\ CallInv /\ [Next]_vars => TypeOK'
<1> SUFFICES ASSUME TypeOK, CallInv, [Next]_vars PROVE TypeOK'
  OBVIOUS
<1> USE StoreAssumption
        DEF TypeOK, CallInv, Statuses, SummaryStates, Live, db, args, copy
<1>1. ASSUME NEW t \in Threads, Load(t) PROVE TypeOK'
  BY <1>1 DEF Load, LockFree, Acquire, Goto
<1>2. ASSUME NEW t \in Threads, Refuse(t) PROVE TypeOK'
  BY <1>2 DEF Refuse, Goto
<1>3. ASSUME NEW t \in Threads, SaveCreated(t) PROVE TypeOK'
  BY <1>3 DEF SaveCreated, Release, Goto
<1>4. ASSUME NEW t \in Threads, SaveAppended(t) PROVE TypeOK'
  BY <1>4 DEF SaveAppended, Release, Goto
<1>5. ASSUME NEW t \in Threads, SaveStatus(t) PROVE TypeOK'
  <2> USE <1>5 DEF SaveStatus, Goto
  <2>1. goal[t] \in Statuses /\ sid[t] \in Sessions
    OBVIOUS
  <2>2. status' \in [Sessions -> Statuses \cup {"none"}]
    BY <2>1
  <2>3. messages' \in [Sessions -> Seq(Nat)]
    OBVIOUS
  <2>4. lock' = lock \/ lock' = [lock EXCEPT ![ProcOf[t]] = NoThread]
    BY DEF Release
  <2>5. lock' \in [Procs -> Threads \cup {NoThread}]
    BY <2>4
  <2>6. pc' = [pc EXCEPT ![t] = "archive"] \/ pc' = [pc EXCEPT ![t] = "idle"]
    OBVIOUS
  <2>7. pc' \in [Threads -> {"idle", "enter", "save", "archive"}]
    BY <2>6
  <2>8. QED
    BY <2>2, <2>3, <2>5, <2>7
<1>6. ASSUME NEW t \in Threads, WriteArchive(t) PROVE TypeOK'
  BY <1>6 DEF WriteArchive, Release, Goto
<1>7. ASSUME NEW t \in Threads, UpdateSummary(t) PROVE TypeOK'
  BY <1>7 DEF UpdateSummary, Goto
<1>8. ASSUME NEW t \in Threads, DeleteRows(t) PROVE TypeOK'
  BY <1>8 DEF DeleteRows, Goto
<1>9. ASSUME NEW t \in Threads, NEW o \in Ops, NEW s \in Sessions,
            NEW g \in Goal, Call(t, o, s, g) PROVE TypeOK'
  BY <1>9 DEF Call, Goto, Goals, Goal
<1>10. ASSUME NEW p \in Procs, Crash(p) PROVE TypeOK'
  BY <1>10 DEF Crash
<1>11. CASE UNCHANGED vars
  BY <1>11 DEF vars
<1>12. QED
  BY <1>1, <1>2, <1>3, <1>4, <1>5, <1>6, <1>7, <1>8, <1>9, <1>10, <1>11 DEF
        Next, Step, Goal

\* The arguments of a call stay what it was called with.
LEMMA CallStep == TypeOK /\ CallInv /\ [Next]_vars => CallInv'
<1> SUFFICES ASSUME TypeOK, CallInv, [Next]_vars PROVE CallInv'
  OBVIOUS
<1> USE StoreAssumption DEF TypeOK, CallInv, db, args, copy
<1>1. ASSUME NEW t \in Threads, Load(t) PROVE CallInv'
  BY <1>1 DEF Load, LockFree, Acquire, Goto
<1>2. ASSUME NEW t \in Threads, Refuse(t) PROVE CallInv'
  BY <1>2 DEF Refuse, Goto
<1>3. ASSUME NEW t \in Threads, SaveCreated(t) PROVE CallInv'
  BY <1>3 DEF SaveCreated, Release, Goto
<1>4. ASSUME NEW t \in Threads, SaveAppended(t) PROVE CallInv'
  BY <1>4 DEF SaveAppended, Release, Goto
<1>5. ASSUME NEW t \in Threads, SaveStatus(t) PROVE CallInv'
  BY <1>5 DEF SaveStatus, Release, Goto
<1>6. ASSUME NEW t \in Threads, WriteArchive(t) PROVE CallInv'
  BY <1>6 DEF WriteArchive, Release, Goto
<1>7. ASSUME NEW t \in Threads, UpdateSummary(t) PROVE CallInv'
  BY <1>7 DEF UpdateSummary, Goto
<1>8. ASSUME NEW t \in Threads, DeleteRows(t) PROVE CallInv'
  BY <1>8 DEF DeleteRows, Goto
<1>9. ASSUME NEW t \in Threads, NEW o \in Ops, NEW s \in Sessions,
            NEW g \in Goal, Call(t, o, s, g) PROVE CallInv'
  BY <1>9 DEF Call, Goto, Goals, Goal
<1>10. ASSUME NEW p \in Procs, Crash(p) PROVE CallInv'
  BY <1>10 DEF Crash
<1>11. CASE UNCHANGED vars
  BY <1>11 DEF vars
<1>12. QED
  BY <1>1, <1>2, <1>3, <1>4, <1>5, <1>6, <1>7, <1>8, <1>9, <1>10, <1>11 DEF
        Next, Step, Goal

\* The lock is only taken when free and only released by its holder.
LEMMA HoldStep ==
  ASSUME OneProcess PROVE TypeOK /\ HoldInv /\ [Next]_vars => HoldInv'
<1> SUFFICES ASSUME TypeOK, HoldInv, [Next]_vars PROVE HoldInv'
  OBVIOUS
<1> USE StoreAssumption DEF OneProcess, TypeOK, HoldInv, db, args, copy
<1>1. ASSUME NEW t \in Threads, Load(t) PROVE HoldInv'
  BY <1>1 DEF Load, LockFree, Acquire, Goto
<1>2. ASSUME NEW t \in Threads, Refuse(t) PROVE HoldInv'
  BY <1>2 DEF Refuse, Goto
<1>3. ASSUME NEW t \in Threads, SaveCreated(t) PROVE HoldInv'
  BY <1>3 DEF SaveCreated, Release, Goto
<1>4. ASSUME NEW t \in Threads, SaveAppended(t) PROVE HoldInv'
  BY <1>4 DEF SaveAppended, Release, Goto
<1>5. ASSUME NEW t \in Threads, SaveStatus(t) PROVE HoldInv'
  BY <1>5 DEF SaveStatus, Release, Goto
<1>6. ASSUME NEW t \in Threads, WriteArchive(t) PROVE HoldInv'
  BY <1>6 DEF WriteArchive, Release, Goto
<1>7. ASSUME NEW t \in Threads, UpdateSummary(t) PROVE HoldInv'
  BY <1>7 DEF UpdateSummary, Goto
<1>8. ASSUME NEW t \in Threads, DeleteRows(t) PROVE HoldInv'
  BY <1>8 DEF DeleteRows, Goto
<1>9. ASSUME NEW t \in Threads, NEW o \in Ops, NEW s \in Sessions,
            NEW g \in Goal, Call(t, o, s, g) PROVE HoldInv'
  BY <1>9 DEF Call, Goto, Goals, Goal
<1>10. ASSUME NEW p \in Procs, Crash(p) PROVE HoldInv'
  BY <1>10 DEF Crash
<1>11. CASE UNCHANGED vars
  BY <1>11 DEF vars
<1>12. QED
  BY <1>1, <1>2, <1>3, <1>4, <1>5, <1>6, <1>7, <1>8, <1>9, <1>10, <1>11 DEF
        Next, Step, Goal

\* Nobody writes a row that another thread has loaded.
LEMMA FreshStep ==
  ASSUME OneProcess
  PROVE  TypeOK /\ HoldInv /\ CallInv /\ FreshInv /\ [Next]_vars => FreshInv'
<1> SUFFICES ASSUME TypeOK, HoldInv, CallInv, FreshInv, [Next]_vars
             PROVE  FreshInv'
  OBVIOUS
<1> USE StoreAssumption
        DEF OneProcess, TypeOK, HoldInv, CallInv, FreshInv, db, args, copy
<1>1. ASSUME NEW t \in Threads, Load(t) PROVE FreshInv'
  BY <1>1 DEF Load, LockFree, Acquire, Goto, LockFree
<1>2. ASSUME NEW t \in Threads, Refuse(t) PROVE FreshInv'
  BY <1>2 DEF Refuse, Goto, LockFree
<1>3. ASSUME NEW t \in Threads, SaveCreated(t) PROVE FreshInv'
  BY <1>3 DEF SaveCreated, Release, Goto, LockFree
<1>4. ASSUME NEW t \in Threads, SaveAppended(t) PROVE FreshInv'
  BY <1>4 DEF SaveAppended, Release, Goto, LockFree
<1>5. ASSUME NEW t \in Threads, SaveStatus(t) PROVE FreshInv'
  BY <1>5 DEF SaveStatus, Release, Goto, LockFree
<1>6. ASSUME NEW t \in Threads, WriteArchive(t) PROVE FreshInv'
  BY <1>6 DEF WriteArchive, Release, Goto, LockFree
<1>7. ASSUME NEW t \in Threads, UpdateSummary(t) PROVE FreshInv'
  BY <1>7 DEF UpdateSummary, Goto, LockFree
<1>8. ASSUME NEW t \in Threads, DeleteRows(t) PROVE FreshInv'
  BY <1>8 DEF DeleteRows, Goto, LockFree
<1>9. ASSUME NEW t \in Threads, NEW o \in Ops, NEW s \in Sessions,
            NEW g \in Goal, Call(t, o, s, g) PROVE FreshInv'
  BY <1>9 DEF Call, Goto, Goals, Goal, LockFree
<1>10. ASSUME NEW p \in Procs, Crash(p) PROVE FreshInv'
  BY <1>10 DEF Crash, LockFree
<1>11. CASE UNCHANGED vars
  BY <1>11 DEF vars, LockFree
<1>12. QED
  BY <1>1, <1>2, <1>3, <1>4, <1>5, <1>6, <1>7, <1>8, <1>9, <1>10, <1>11 DEF
        Next, Step, Goal

\* A row is written by operations that loaded or created one.
LEMMA EmptyStep ==
  TypeOK /\ CallInv /\ EmptyInv /\ [Next]_vars => EmptyInv'
<1> SUFFICES ASSUME TypeOK, CallInv, EmptyInv, [Next]_vars
             PROVE  EmptyInv'
  OBVIOUS
<1> USE StoreAssumption
        DEF TypeOK, CallInv, EmptyInv, Statuses, Live, db, args, copy
<1>1. ASSUME NEW t \in Threads, Load(t) PROVE EmptyInv'
  BY <1>1 DEF Load, LockFree, Acquire, Goto
<1>2. ASSUME NEW t \in Threads, Refuse(t) PROVE EmptyInv'
  BY <1>2 DEF Refuse, Goto
<1>3. ASSUME NEW t \in Threads, SaveCreated(t) PROVE EmptyInv'
  BY <1>3 DEF SaveCreated, Release, Goto
<1>4. ASSUME NEW t \in Threads, SaveAppended(t) PROVE EmptyInv'
  BY <1>4 DEF SaveAppended, Release, Goto
<1>5. ASSUME NEW t \in Threads, SaveStatus(t) PROVE EmptyInv'
  BY <1>5 DEF SaveStatus, Release, Goto
<1>6. ASSUME NEW t \in Threads, WriteArchive(t) PROVE EmptyInv'
  BY <1>6 DEF WriteArchive, Release, Goto
<1>7. ASSUME NEW t \in Threads, UpdateSummary(t) PROVE EmptyInv'
  BY <1>7 DEF UpdateSummary, Goto
<1>8. ASSUME NEW t \in Threads, DeleteRows(t) PROVE EmptyInv'
  BY <1>8 DEF DeleteRows, Goto
<1>9. ASSUME NEW t \in Threads, NEW o \in Ops, NEW s \in Sessions,
            NEW g \in Goal, Call(t, o, s, g) PROVE EmptyInv'
  BY <1>9 DEF Call, Goto, Goals, Goal
<1>10. ASSUME NEW p \in Procs, Crash(p) PROVE EmptyInv'
  BY <1>10 DEF Crash
<1>11. CASE UNCHANGED vars
  BY <1>11 DEF vars
<1>12. QED
  BY <1>1, <1>2, <1>3, <1>4, <1>5, <1>6, <1>7, <1>8, <1>9, <1>10, <1>11 DEF
        Next, Step, Goal

\* append_message adds its message to what the row holds.
LEMMA AckedAppend ==
  ASSUME TypeOK, FreshInv, AckedKept, NEW t \in Threads, SaveAppended(t)
  PROVE  AckedKept'
<1>1. sid[t] \in Sessions /\ msg[t] \in Nat /\ copyMessages[t] = messages[sid[t]]
  BY DEF TypeOK, FreshInv, SaveAppended
<1>2. /\ messages'[sid[t]] = Append(messages[sid[t]], msg[t])
      /\ acked'[sid[t]] = acked[sid[t]] \cup {msg[t]}
      /\ \A s \in Sessions \ {sid[t]} :
            messages'[s] = messages[s] /\ acked'[s] = acked[s]
  BY <1>1 DEF SaveAppended, TypeOK
<1>3. \A s \in Sessions : s = sid[t] => Stored(s)' = Stored(s) \cup {msg[t]}
  BY <1>1, <1>2, StoredAppend
<1>4. \A s \in Sessions \ {sid[t]} : Stored(s)' = Stored(s)
  BY <1>2 DEF Stored
<1>5. QED
  BY <1>1, <1>2, <1>3, <1>4 DEF AckedKept

\* A save keeps every acknowledged message of the row it replaces.
LEMMA AckedStep ==
  TypeOK /\ FreshInv /\ CallInv /\ EmptyInv /\ AckedKept /\ [Next]_vars => AckedKept'
<1> SUFFICES ASSUME TypeOK, FreshInv, CallInv, EmptyInv, AckedKept, [Next]_vars
             PROVE  AckedKept'
  OBVIOUS
<1> USE StoreAssumption
        DEF TypeOK, FreshInv, CallInv, EmptyInv, AckedKept, db, args, copy
<1>1. ASSUME NEW t \in Threads, Load(t) PROVE AckedKept'
  BY <1>1 DEF Load, LockFree, Acquire, Goto, Stored
<1>2. ASSUME NEW t \in Threads, Refuse(t) PROVE AckedKept'
  BY <1>2 DEF Refuse, Goto, Stored
<1>3. ASSUME NEW t \in Threads, SaveCreated(t) PROVE AckedKept'
  <2> USE <1>3 DEF SaveCreated, Release, Goto
  <2>1. acked[sid[t]] = {}
    BY DEF Stored
  <2>2. QED
    BY <2>1 DEF Stored
<1>4. ASSUME NEW t \in Threads, SaveAppended(t) PROVE AckedKept'
  BY <1>4, AckedAppend
<1>5. ASSUME NEW t \in Threads, SaveStatus(t) PROVE AckedKept'
  <2>1. copyMessages[t] = messages[sid[t]] /\ acked' = acked
    BY <1>5 DEF SaveStatus
  <2>2. messages' = messages
    BY <1>5, <2>1 DEF SaveStatus
  <2>3. QED
    BY <2>1, <2>2 DEF Stored
<1>6. ASSUME NEW t \in Threads, WriteArchive(t) PROVE AckedKept'
  BY <1>6 DEF WriteArchive, Release, Goto, Stored
<1>7. ASSUME NEW t \in Threads, UpdateSummary(t) PROVE AckedKept'
  BY <1>7 DEF UpdateSummary, Goto, Stored
<1>8. ASSUME NEW t \in Threads, DeleteRows(t) PROVE AckedKept'
  BY <1>8 DEF DeleteRows, Goto, Stored
<1>9. ASSUME NEW t \in Threads, NEW o \in Ops, NEW s \in Sessions,
            NEW g \in Goal, Call(t, o, s, g) PROVE AckedKept'
  BY <1>9 DEF Call, Goto, Goals, Goal, Stored
<1>10. ASSUME NEW p \in Procs, Crash(p) PROVE AckedKept'
  BY <1>10 DEF Crash, Stored
<1>11. CASE UNCHANGED vars
  BY <1>11 DEF vars, Stored
<1>12. QED
  BY <1>1, <1>2, <1>3, <1>4, <1>5, <1>6, <1>7, <1>8, <1>9, <1>10, <1>11 DEF
        Next, Step, Goal

LEMMA Inductive ==
  ASSUME OneProcess PROVE IInv /\ [Next]_vars => IInv'
BY TypeStep, CallStep, HoldStep, FreshStep, EmptyStep, AckedStep DEF IInv

\* The inductive invariant holds in every reachable state.
THEOREM Invariant == ASSUME OneProcess PROVE Spec => []IInv
<1>1. IInv /\ [Next]_vars => IInv'
  BY Inductive
<1>2. QED
  BY InitInv, <1>1, PTL DEF Spec

\* The types need no assumption on the processes.
THEOREM StoreTypeCorrect == Spec => []TypeOK
<1>1. Init => TypeOK /\ CallInv
  BY InitInv DEF IInv
<1>2. TypeOK /\ CallInv /\ [Next]_vars => (TypeOK /\ CallInv)'
  BY TypeStep, CallStep
<1>3. QED
  BY <1>1, <1>2, PTL DEF Spec

\* With one worker process every message whose append returned is kept until
\* its session is deleted, wherever the process dies.
THEOREM AckedMessagesKept == ASSUME OneProcess PROVE Spec => []AckedKept
<1>1. IInv => AckedKept
  BY DEF IInv
<1>2. QED
  BY Invariant, <1>1, PTL

-----------------------------------------------------------------------------
(* The store implements the atomic one                                      *)

\* Nobody is between the two commits of set_status.
Quiet == \A t \in Threads : pc[t] # "archive"

\* Then the status callers can see is the stored one.
LEMMA QuietStatus == TypeOK /\ Quiet => VisibleStatus = status
BY DEF TypeOK, Quiet, VisibleStatus, Archiving

LEMMA QuietStatusNext == TypeOK' /\ Quiet' => VisibleStatus' = status'
BY DEF TypeOK, Quiet, VisibleStatus, Archiving

\* A thread with the lock, or that sees it free, finds the table quiet.
LEMMA LockQuiet ==
  ASSUME OneProcess, HoldInv, TypeOK, NEW t \in Threads,
         LockFree(t) \/ pc[t] = "save"
  PROVE  Quiet
BY StoreAssumption DEF OneProcess, HoldInv, TypeOK, LockFree, Quiet

\* While one thread archives, its session still shows the status it loaded.
LEMMA ArchivingStatus ==
  ASSUME TypeOK, NEW t \in Threads, pc[t] = "archive",
         \A u \in Threads : pc[u] = "archive" => u = t
  PROVE  VisibleStatus = [status EXCEPT ![sid[t]] = copyStatus[t]]
<1> USE DEF TypeOK
<1>1. Archiving(sid[t]) = {t}
  BY DEF Archiving
<1>2. Archiver(sid[t]) = t
  BY <1>1 DEF Archiver
<1>3. \A s \in Sessions \ {sid[t]} : Archiving(s) = {}
  BY DEF Archiving
<1>4. \A s \in Sessions :
        VisibleStatus[s] = IF s = sid[t] THEN copyStatus[t] ELSE status[s]
  BY <1>1, <1>2, <1>3 DEF VisibleStatus
<1>5. QED
  BY <1>4 DEF VisibleStatus

\* Once its session is archived, only that session's status becomes visible.
LEMMA ArchivedVisible ==
  ASSUME NEW f, NEW A, NEW B, NEW x \in A, NEW c \in B,
         f \in [A -> B], f[x] = "archived"
  PROVE  f = [[f EXCEPT ![x] = c] EXCEPT ![x] = "archived"]
OBVIOUS

\* Steps that leave the database as it is and move no thread into or out of
\* the second commit.
LEMMA Stutter ==
  ASSUME TypeOK, UNCHANGED db,
         \A u \in Threads : /\ (pc'[u] = "archive") = (pc[u] = "archive")
                            /\ pc[u] = "archive" =>
                                 /\ sid'[u] = sid[u]
                                 /\ copyStatus'[u] = copyStatus[u]
  PROVE  UNCHANGED Log!vars
<1>1. \A s \in Sessions : Archiving(s)' = Archiving(s)
  BY DEF Archiving
<1>2. \A s \in Sessions : Archiver(s)' = Archiver(s)
  BY <1>1 DEF Archiver
<1>3. \A s \in Sessions : Archiving(s) # {} =>
        copyStatus'[Archiver(s)] = copyStatus[Archiver(s)]
  <2>1. \A s \in Sessions : Archiving(s) # {} => Archiver(s) \in Archiving(s)
    BY DEF Archiver
  <2>2. QED
    BY <2>1 DEF Archiving
<1>4. VisibleStatus' = VisibleStatus
  BY <1>1, <1>2, <1>3 DEF VisibleStatus, db
<1>5. QED
  BY <1>4 DEF Log!vars, db

\* Every step of the store is an atomic operation or changes nothing that
\* its callers can see.
LEMMA StepSimulation ==
  ASSUME OneProcess, IInv, [Next]_vars
  PROVE  [Log!Next]_(Log!vars)
<1> USE StoreAssumption DEF IInv, TypeOK, args, copy
<1> DEFINE Sim == [Log!Next]_(Log!vars)
<1>0. TypeOK'
  BY TypeStep
<1>1. ASSUME NEW t \in Threads, Load(t) PROVE Sim
  BY <1>1, Stutter DEF Load, Goto
<1>2. ASSUME NEW t \in Threads, Refuse(t) PROVE Sim
  BY <1>2, Stutter DEF Refuse, Goto
<1>3. ASSUME NEW t \in Threads, SaveCreated(t) PROVE Sim
  <2>1. Quiet /\ Quiet'
    BY <1>3, LockQuiet DEF SaveCreated, Goto, Quiet
  <2>2. VisibleStatus = status
    BY <2>1, QuietStatus
  <2>3. VisibleStatus' = status'
    BY <1>0, <2>1, QuietStatusNext
  <2>4. status[sid[t]] = "none"
    BY <1>3 DEF SaveCreated, FreshInv, CallInv
  <2>5. Log!Create(sid[t])
    BY <1>3, <2>2, <2>3, <2>4 DEF SaveCreated, Log!Create
  <2>6. QED
    BY <2>5 DEF Log!Next
<1>4. ASSUME NEW t \in Threads, SaveAppended(t) PROVE Sim
  <2>1. Quiet /\ Quiet'
    BY <1>4, LockQuiet DEF SaveAppended, Goto, Quiet
  <2>2. /\ status[sid[t]] # "none" /\ msg[t] \in 1..MaxCalls
        /\ copyStatus[t] = status[sid[t]] /\ copyMessages[t] = messages[sid[t]]
    BY <1>4 DEF SaveAppended, FreshInv, CallInv
  <2>3. status' = status
    BY <1>4, <2>2 DEF SaveAppended
  <2>4. VisibleStatus = status
    BY <2>1, QuietStatus
  <2>5. VisibleStatus' = status
    BY <1>0, <2>1, <2>3, QuietStatusNext
  <2>6. Log!AppendMessage(sid[t], msg[t])
    BY <1>4, <2>2, <2>4, <2>5 DEF SaveAppended, Log!AppendMessage
  <2>7. QED
    BY <2>2, <2>6 DEF Log!Next
<1>5. ASSUME NEW t \in Threads, SaveStatus(t) PROVE Sim
  <2>1. Quiet /\ VisibleStatus = status
    BY <1>5, LockQuiet, QuietStatus DEF SaveStatus
  <2>2. /\ status[sid[t]] # "none" /\ goal[t] \in Statuses
        /\ copyStatus[t] = status[sid[t]] /\ copyMessages[t] = messages[sid[t]]
    BY <1>5 DEF SaveStatus, FreshInv, CallInv
  <2>3. messages' = messages
    BY <1>5, <2>2 DEF SaveStatus
  <2>4. CASE goal[t] = "archived"
    <3>1. /\ TypeOK' /\ pc'[t] = "archive" /\ sid' = sid
          /\ copyStatus' = copyStatus
          /\ status' = [status EXCEPT ![sid[t]] = "archived"]
      BY <1>5, <2>4, TypeStep DEF SaveStatus, Goto
    <3>2. \A u \in Threads : pc'[u] = "archive" => u = t
      BY <1>5, <2>1, <2>4 DEF SaveStatus, Goto, Quiet
    <3>3. \A s \in Sessions : Archiving(s)' = IF s = sid[t] THEN {t} ELSE {}
      BY <3>1, <3>2 DEF Archiving
    <3>4. \A s \in Sessions :
            VisibleStatus'[s] = IF s = sid[t] THEN copyStatus[t] ELSE status'[s]
      <4>1. \A s \in Sessions : s = sid[t] => Archiver(s)' = t
        BY <3>3 DEF Archiver
      <4>2. ASSUME NEW s \in Sessions, s = sid[t]
            PROVE  VisibleStatus'[s] = copyStatus[t]
        <5>1. Archiving(s)' # {} /\ Archiver(s)' = t
          BY <3>3, <4>1, <4>2
        <5>2. QED
          BY <3>1, <5>1 DEF VisibleStatus
      <4>3. ASSUME NEW s \in Sessions, s # sid[t]
            PROVE  VisibleStatus'[s] = status'[s]
        BY <3>3, <4>3 DEF VisibleStatus
      <4>4. QED
        BY <4>2, <4>3
    <3>5. \A s \in Sessions : VisibleStatus'[s] = status[s]
      BY <2>2, <3>1, <3>4
    <3>6. VisibleStatus' = status
      BY <3>5 DEF VisibleStatus
    <3>7. QED
      BY <1>5, <2>1, <2>3, <3>6 DEF SaveStatus, Log!vars
  <2>5. CASE goal[t] # "archived"
    <3>1. Quiet'
      BY <1>5, <2>1, <2>5 DEF SaveStatus, Goto, Quiet
    <3>2. VisibleStatus' = status'
      BY <1>0, <3>1, QuietStatusNext
    <3>3. Log!SetStatus(sid[t], goal[t])
      BY <1>5, <2>1, <2>2, <2>3, <2>5, <3>2 DEF SaveStatus, Log!SetStatus
    <3>4. QED
      BY <2>2, <3>3 DEF Log!Next, Log!Statuses, Log!Live, Statuses, Live
  <2>6. QED
    BY <2>4, <2>5
<1>6. ASSUME NEW t \in Threads, WriteArchive(t) PROVE Sim
  <2>1. /\ pc[t] = "archive"
        /\ \A u \in Threads : pc[u] = "archive" => u = t
    BY <1>6 DEF WriteArchive, HoldInv, OneProcess
  <2>2. /\ copyMessages[t] = messages[sid[t]] /\ status[sid[t]] = "archived"
        /\ copyStatus[t] # "none"
    BY <2>1 DEF FreshInv, CallInv
  <2>3. VisibleStatus = [status EXCEPT ![sid[t]] = copyStatus[t]]
    BY <2>1, ArchivingStatus
  <2>4. Quiet'
    BY <1>6, <2>1 DEF WriteArchive, Goto, Quiet
  <2>5. VisibleStatus' = status
    BY <1>0, <1>6, <2>4, QuietStatusNext DEF WriteArchive
  <2>6. /\ VisibleStatus[sid[t]] # "none"
        /\ VisibleStatus' = [VisibleStatus EXCEPT ![sid[t]] = "archived"]
    <3>1. /\ status \in [Sessions -> Statuses \cup {"none"}]
          /\ sid[t] \in Sessions
          /\ copyStatus[t] \in Statuses \cup {"none"}
      OBVIOUS
    <3>2. VisibleStatus[sid[t]] = copyStatus[t]
      BY <2>3, <3>1
    <3>3. status = [VisibleStatus EXCEPT ![sid[t]] = "archived"]
      BY <2>2, <2>3, <3>1, ArchivedVisible
    <3>4. QED
      BY <2>2, <2>5, <3>2, <3>3
  <2>7. Log!SetStatus(sid[t], "archived")
    BY <1>6, <2>2, <2>6 DEF WriteArchive, Log!SetStatus
  <2>8. QED
    BY <2>7 DEF Log!Next, Log!Statuses
<1>7. ASSUME NEW t \in Threads, UpdateSummary(t) PROVE Sim
  <2>1. Quiet /\ Quiet'
    BY <1>7, LockQuiet DEF UpdateSummary, Goto, Quiet
  <2>2. VisibleStatus = status
    BY <2>1, QuietStatus
  <2>3. VisibleStatus' = status
    BY <1>0, <1>7, <2>1, QuietStatusNext DEF UpdateSummary
  <2>4. goal[t] \in SummaryStates
    BY <1>7 DEF UpdateSummary, CallInv
  <2>5. Log!UpdateSummary(sid[t], goal[t])
    BY <1>7, <2>2, <2>3 DEF UpdateSummary, Log!UpdateSummary
  <2>6. QED
    BY <2>4, <2>5 DEF Log!Next, Log!SummaryStates, SummaryStates
<1>8. ASSUME NEW t \in Threads, DeleteRows(t) PROVE Sim
  <2>1. Quiet /\ Quiet'
    BY <1>8, LockQuiet DEF DeleteRows, Goto, Quiet
  <2>2. VisibleStatus = status
    BY <2>1, QuietStatus
  <2>3. VisibleStatus' = status'
    BY <1>0, <2>1, QuietStatusNext
  <2>4. Log!Delete(sid[t])
    BY <1>8, <2>2, <2>3 DEF DeleteRows, Log!Delete
  <2>5. QED
    BY <2>4 DEF Log!Next
<1>9. ASSUME NEW t \in Threads, NEW o \in Ops, NEW s \in Sessions,
             NEW g \in Goal, Call(t, o, s, g) PROVE Sim
  BY <1>9, Stutter DEF Call, Goto
<1>10. ASSUME NEW p \in Procs, Crash(p) PROVE Sim
  <2>1. \A u \in Threads : pc'[u] = "idle"
    BY <1>10 DEF Crash, OneProcess
  <2>2. Quiet' /\ VisibleStatus' = status
    BY <1>0, <1>10, <2>1, QuietStatusNext DEF Crash, db, Quiet
  <2>3. CASE Quiet
    BY <1>10, <2>2, <2>3, QuietStatus DEF Crash, db, Log!vars
  <2>4. ASSUME NEW t \in Threads, pc[t] = "archive" PROVE Sim
    <3>1. \A u \in Threads : pc[u] = "archive" => u = t
      BY <2>4 DEF HoldInv, OneProcess
    <3>2. VisibleStatus = [status EXCEPT ![sid[t]] = copyStatus[t]]
      BY <2>4, <3>1, ArchivingStatus
    <3>3. status[sid[t]] = "archived" /\ copyStatus[t] # "none"
      BY <2>4 DEF FreshInv, CallInv
    <3>4. /\ VisibleStatus[sid[t]] # "none"
          /\ VisibleStatus' = [VisibleStatus EXCEPT ![sid[t]] = "archived"]
      <4>1. /\ status \in [Sessions -> Statuses \cup {"none"}]
            /\ sid[t] \in Sessions
            /\ copyStatus[t] \in Statuses \cup {"none"}
        OBVIOUS
      <4>2. VisibleStatus[sid[t]] = copyStatus[t]
        BY <3>2, <4>1
      <4>3. status[sid[t]] = "archived"
        BY <3>3
      <4>4. status = [VisibleStatus EXCEPT ![sid[t]] = "archived"]
        BY <3>2, <4>1, <4>3, ArchivedVisible
      <4>5. QED
        BY <2>2, <3>3, <4>2, <4>4
    <3>5. Log!ArchiveTorn(sid[t])
      BY <1>10, <3>4 DEF Crash, db, Log!ArchiveTorn
    <3>6. QED
      BY <3>5 DEF Log!Next
  <2>5. QED
    BY <2>3, <2>4 DEF Quiet
<1>11. CASE UNCHANGED vars
  BY <1>11, Stutter DEF vars
<1>12. QED
  BY <1>1, <1>2, <1>3, <1>4, <1>5, <1>6, <1>7, <1>8, <1>9, <1>10, <1>11
        DEF Next, Step, Goal

\* One worker process: however its threads interleave and wherever it dies,
\* the store is atomic to its callers, a torn archive excepted.
THEOREM StoreImplementsLog == ASSUME OneProcess PROVE Spec => ImplementsLog
<1>1. Init => Log!Init
  BY QuietStatus, InitInv DEF Init, IInv, Quiet, Log!Init
<1>2. IInv /\ [Next]_vars => [Log!Next]_(Log!vars)
  BY StepSimulation
<1>3. QED
  BY Invariant, <1>1, <1>2, PTL DEF Spec, Log!Spec, ImplementsLog
=============================================================================
