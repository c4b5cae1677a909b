---------------------------- MODULE SessionStore ----------------------------
(***************************************************************************)
(* SqliteSessionStore under the threads of one or more worker processes.   *)
(* An operation takes the store's threading.Lock, loads the JSON payload   *)
(* of the session (no transaction is open after a SELECT), changes the     *)
(* copy and writes it back whole; archiving writes a second table with a   *)
(* commit of its own.  The lock belongs to a process, the file to all.     *)
(***************************************************************************)
EXTENDS Naturals, Sequences

CONSTANTS
  Procs,      \* worker processes
  Threads,    \* threads that use the store
  ProcOf,     \* the process of each thread
  Sessions,   \* session ids
  Ops,        \* operations the threads call
  Crashes,    \* processes may die and restart
  MaxCalls,   \* bound: operations called in a behaviour
  NoThread,
  NoRow       \* no row in session_archives

ASSUME StoreAssumption ==
  /\ ProcOf \in [Threads -> Procs]
  /\ NoThread \notin Threads
  /\ NoRow \notin Nat
  /\ Crashes \in BOOLEAN
  /\ MaxCalls \in Nat
  /\ Ops \subseteq {"create", "append", "set_status", "summary", "delete"}

VARIABLES
  status,     \* sessions.payload: the status, "none" without a row
  messages,   \* sessions.payload: the messages
  archive,    \* session_archives.message_count, or NoRow
  summary,    \* session_archives.llm_summary_status
  lock,       \* holder of each process's SqliteSessionStore._lock
  pc,         \* where each thread's call stands
  op,         \* the operation each thread calls,
  sid,        \* on which session,
  goal,       \* with which status,
  msg,        \* with which message
  copyStatus,   \* the Session object the operation works on: its status
  copyMessages, \* ... and its messages
  acked,      \* history: messages whose append_message returned, per session
  calls       \* operations called so far; numbers the messages

db == <<status, messages, archive, summary>>
args == <<op, sid, goal, msg>>
copy == <<copyStatus, copyMessages>>
vars == <<db, lock, pc, args, copy, acked, calls>>

Live == {"active", "idle"}
Statuses == Live \cup {"archived", "destroyed"}
SummaryStates == {"pending", "done", "skipped", "failed"}

Init ==
  /\ status = [s \in Sessions |-> "none"]
  /\ messages = [s \in Sessions |-> <<>>]
  /\ archive = [s \in Sessions |-> NoRow]
  /\ summary = [s \in Sessions |-> "none"]
  /\ lock = [p \in Procs |-> NoThread]
  /\ pc = [t \in Threads |-> "idle"]
  /\ op = [t \in Threads |-> "none"]
  /\ sid \in [Threads -> Sessions]
  /\ goal = [t \in Threads |-> "none"]
  /\ msg = [t \in Threads |-> 0]
  /\ copyStatus = [t \in Threads |-> "none"]
  /\ copyMessages = [t \in Threads |-> <<>>]
  /\ acked = [s \in Sessions |-> {}]
  /\ calls = 0

Goto(t, l) == pc' = [pc EXCEPT ![t] = l]
LockFree(t) == lock[ProcOf[t]] = NoThread
Acquire(t) == lock' = [lock EXCEPT ![ProcOf[t]] = t]
Release(t) == lock' = [lock EXCEPT ![ProcOf[t]] = NoThread]

\* What a call may ask for as status.
Goals(o) == IF o = "set_status" THEN Statuses
            ELSE IF o = "summary" THEN SummaryStates ELSE {"none"}

Call(t, o, s, g) ==
  /\ pc[t] = "idle"
  /\ calls < MaxCalls
  /\ calls' = calls + 1
  /\ g \in Goals(o)
  /\ op' = [op EXCEPT ![t] = o]
  /\ sid' = [sid EXCEPT ![t] = s]
  /\ goal' = [goal EXCEPT ![t] = g]
  /\ msg' = [msg EXCEPT ![t] = calls + 1]
  /\ Goto(t, "enter")
  /\ UNCHANGED <<db, lock, copy, acked>>

-----------------------------------------------------------------------------
(* Load, change, save                                                       *)

\* Mutation: the payload is loaded before the lock is taken.
LoadUnlocked(t) ==
  /\ pc[t] = "enter"
  /\ LockFree(t)
  /\ \/ op[t] \in {"append", "set_status"} /\ status[sid[t]] # "none"
     \/ op[t] = "create" /\ status[sid[t]] = "none"
  /\ copyStatus' = [copyStatus EXCEPT ![t] = status[sid[t]]]
  /\ copyMessages' = [copyMessages EXCEPT ![t] = messages[sid[t]]]
  /\ Goto(t, "save")
  /\ UNCHANGED <<db, lock, args, acked, calls>>

\* _load_payload under the lock.  append_message and set_status want a row,
\* create_session none.
Load(t) ==
  /\ pc[t] = "enter"
  /\ LockFree(t)
  /\ \/ op[t] \in {"append", "set_status"} /\ status[sid[t]] # "none"
     \/ op[t] = "create" /\ status[sid[t]] = "none"
  /\ Acquire(t)
  /\ copyStatus' = [copyStatus EXCEPT ![t] = status[sid[t]]]
  /\ copyMessages' = [copyMessages EXCEPT ![t] = messages[sid[t]]]
  /\ Goto(t, "save")
  /\ UNCHANGED <<db, args, acked, calls>>

\* Mutation: the error is raised between acquire() and release().
RefuseLocked(t) ==
  /\ pc[t] = "enter"
  /\ LockFree(t)
  /\ \/ op[t] \in {"append", "set_status"} /\ status[sid[t]] = "none"
     \/ op[t] = "create" /\ status[sid[t]] # "none"
  /\ Acquire(t)
  /\ Goto(t, "idle")
  /\ UNCHANGED <<db, args, copy, acked, calls>>

\* KeyError, ValueError: nothing is written.
Refuse(t) ==
  /\ pc[t] = "enter"
  /\ LockFree(t)
  /\ \/ op[t] \in {"append", "set_status"} /\ status[sid[t]] = "none"
     \/ op[t] = "create" /\ status[sid[t]] # "none"
  /\ Goto(t, "idle")
  /\ UNCHANGED <<db, lock, args, copy, acked, calls>>

\* _save_payload writes the whole copy and commits; the call returns unless
\* an archive row is still to be written.
SaveCreated(t) ==
  /\ pc[t] = "save" /\ op[t] = "create"
  /\ status' = [status EXCEPT ![sid[t]] = "active"]
  /\ messages' = [messages EXCEPT ![sid[t]] = <<>>]
  /\ Release(t)
  /\ Goto(t, "idle")
  /\ UNCHANGED <<archive, summary, args, copy, acked, calls>>

SaveAppended(t) ==
  /\ pc[t] = "save" /\ op[t] = "append"
  /\ status' = [status EXCEPT ![sid[t]] = copyStatus[t]]
  /\ messages' = [messages EXCEPT ![sid[t]] = Append(copyMessages[t], msg[t])]
  /\ acked' = [acked EXCEPT ![sid[t]] = acked[sid[t]] \cup {msg[t]}]
  /\ Release(t)
  /\ Goto(t, "idle")
  /\ UNCHANGED <<archive, summary, args, copy, calls>>

\* Mutation: the archive row is written after the lock is released.
ArchiveByCommitOrder(t) ==
  /\ pc[t] = "save" /\ op[t] = "set_status"
  /\ status' = [status EXCEPT ![sid[t]] = goal[t]]
  /\ messages' = [messages EXCEPT ![sid[t]] = copyMessages[t]]
  /\ Goto(t, IF goal[t] = "archived" THEN "archive" ELSE "idle")
  /\ Release(t)
  /\ UNCHANGED <<archive, summary, args, copy, acked, calls>>

SaveStatus(t) ==
  /\ pc[t] = "save" /\ op[t] = "set_status"
  /\ status' = [status EXCEPT ![sid[t]] = goal[t]]
  /\ messages' = [messages EXCEPT ![sid[t]] = copyMessages[t]]
  /\ IF goal[t] = "archived"
     THEN /\ Goto(t, "archive")
          /\ UNCHANGED lock
     ELSE Goto(t, "idle") /\ Release(t)
  /\ UNCHANGED <<archive, summary, args, copy, acked, calls>>

\* _upsert_archive_row: a second transaction; an existing row keeps its
\* LLM summary.
WriteArchive(t) ==
  /\ pc[t] = "archive"
  /\ archive' = [archive EXCEPT ![sid[t]] = Len(copyMessages[t])]
  /\ Release(t)
  /\ Goto(t, "idle")
  /\ UNCHANGED <<status, messages, summary, args, copy, acked, calls>>

-----------------------------------------------------------------------------
(* The operations that load nothing: one transaction under the lock         *)

UpdateSummary(t) ==
  /\ pc[t] = "enter" /\ op[t] = "summary"
  /\ LockFree(t)
  /\ summary' = IF archive[sid[t]] # NoRow
                THEN [summary EXCEPT ![sid[t]] = goal[t]] ELSE summary
  /\ Goto(t, "idle")
  /\ UNCHANGED <<status, messages, archive, lock, args, copy, acked, calls>>

DeleteRows(t) ==
  /\ pc[t] = "enter" /\ op[t] = "delete"
  /\ LockFree(t)
  /\ status' = [status EXCEPT ![sid[t]] = "none"]
  /\ messages' = [messages EXCEPT ![sid[t]] = <<>>]
  /\ archive' = [archive EXCEPT ![sid[t]] = NoRow]
  /\ summary' = [summary EXCEPT ![sid[t]] = "none"]
  /\ acked' = [acked EXCEPT ![sid[t]] = {}]
  /\ Goto(t, "idle")
  /\ UNCHANGED <<lock, args, copy, calls>>

\* A worker dies between two of its steps; what it committed stays.
Crash(p) ==
  /\ Crashes
  /\ \E t \in Threads : ProcOf[t] = p /\ pc[t] # "idle"
  /\ pc' = [t \in Threads |-> IF ProcOf[t] = p THEN "idle" ELSE pc[t]]
  /\ lock' = [lock EXCEPT ![p] = NoThread]
  /\ UNCHANGED <<db, args, copy, acked, calls>>

Step(t) ==
  \/ Load(t) \/ Refuse(t)
  \/ SaveCreated(t) \/ SaveAppended(t) \/ SaveStatus(t) \/ WriteArchive(t)
  \/ UpdateSummary(t) \/ DeleteRows(t)

Next ==
  \/ \E t \in Threads :
       \/ Step(t)
       \/ \E o \in Ops, s \in Sessions,
             g \in Statuses \cup SummaryStates \cup {"none"} :
            Call(t, o, s, g)
  \/ \E p \in Procs : Crash(p)

Spec == Init /\ [][Next]_vars
FairSpec == Spec /\ \A t \in Threads : WF_vars(Step(t))

-----------------------------------------------------------------------------
(* Properties                                                               *)

\* Every variable keeps its type.
TypeOK ==
  /\ status \in [Sessions -> Statuses \cup {"none"}]
  /\ messages \in [Sessions -> Seq(Nat)]
  /\ archive \in [Sessions -> Nat \cup {NoRow}]
  /\ summary \in [Sessions -> SummaryStates \cup {"none"}]
  /\ lock \in [Procs -> Threads \cup {NoThread}]
  /\ pc \in [Threads -> {"idle", "enter", "save", "archive"}]
  /\ op \in [Threads -> Ops \cup {"none"}]
  /\ sid \in [Threads -> Sessions]
  /\ goal \in [Threads -> Statuses \cup SummaryStates \cup {"none"}]
  /\ msg \in [Threads -> Nat]
  /\ copyStatus \in [Threads -> Statuses \cup {"none"}]
  /\ copyMessages \in [Threads -> Seq(Nat)]
  /\ acked \in [Sessions -> SUBSET Nat]
  /\ calls \in Nat

\* Messages of a session, as a set.
Stored(s) == {messages[s][i] : i \in 1..Len(messages[s])}

\* A message whose append returned stays in the session until the session is
\* deleted: the store is the conversation a restart recovers (README.md).
AckedKept == \A s \in Sessions : acked[s] \subseteq Stored(s)

\* A call ends: no step leaves the lock held.
CallsReturn == \A t \in Threads : pc[t] # "idle" ~> pc[t] = "idle"

\* Archiving takes effect with its second commit: until then the abstract
\* store has the status the operation loaded, which only the thread that
\* holds the lock could tell from the row.
Archiving(s) == {t \in Threads : pc[t] = "archive" /\ sid[t] = s}
Archiver(s) == CHOOSE t \in Archiving(s) : TRUE
VisibleStatus ==
  [s \in Sessions |-> IF Archiving(s) = {} THEN status[s]
                      ELSE copyStatus[Archiver(s)]]

Log == INSTANCE SessionLog
         WITH status <- VisibleStatus, Messages <- 1..MaxCalls

\* The store implements atomic operations, but for an archive torn by a crash.
ImplementsLog == Log!Spec
=============================================================================
