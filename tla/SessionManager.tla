--------------------------- MODULE SessionManager ---------------------------
(***************************************************************************)
(* The sessions of one (user, channel) key as SessionManagerImpl and the   *)
(* core's session commands drive them, on the atomic operations of the     *)
(* store (SessionLog).  Each step of a thread is one call of the store:    *)
(* what a step read may have changed when the next one acts on it.  A      *)
(* daemon thread per archived session writes the LLM summary.              *)
(***************************************************************************)
EXTENDS Naturals, Sequences, FiniteSets

CONSTANTS
  Sessions,    \* bound: session ids, 1..n in the order of their creation
  Threads,     \* request threads
  Kinds,       \* chat messages, /archive, and direct calls of
               \* mark_idle_if_expired, update_status, trigger_destroy
  Summarises,  \* archive_llm_summary is configured
  Serials,     \* a behaviour's client waits for an answer before it goes on
  Crashes,     \* a behaviour's process may die and restart
  MaxRequests, \* bound: requests received in a behaviour
  NoSession,
  NoRow        \* no row in session_archives

ASSUME ManagerAssumption ==
  /\ Kinds \subseteq {"message", "archive", "idle", "update", "destroy"}
  /\ Summarises \in BOOLEAN
  /\ Serials \subseteq BOOLEAN /\ Crashes \subseteq BOOLEAN
  /\ MaxRequests \in Nat
  /\ Sessions \subseteq Nat
  /\ IsFiniteSet(Sessions) /\ IsFiniteSet(Threads)
  /\ NoSession \notin Sessions
  /\ NoRow \notin Nat

VARIABLES
  serial,    \* whether this behaviour's client sends one request at a time
  crashes,   \* whether this behaviour's process may die
  status, messages, archive, summary,  \* the store (SessionLog)
  recent,    \* session ids by stats.last_active_at, the latest last
  pc,        \* where each thread's request stands
  kind,      \* its request
  target,    \* the session it works on
  goal,      \* the status update_status is asked for
  workers,   \* _run_archive_llm_worker threads running for each session
  closed,    \* history: sessions that had ended when each request was received
  requests   \* requests received so far (bounded by MaxRequests)

db == <<status, messages, archive, summary>>
local == <<kind, target, goal>>
setup == <<serial, crashes>>
vars == <<setup, db, recent, pc, local, workers, closed, requests>>

Log == INSTANCE SessionLog WITH Messages <- {0}, Crashes <- TRUE

Live == Log!Live
Ended == {"archived", "destroyed"}
\* Mutation: an archived session is still a candidate.
NotDestroyed == {s \in Sessions : status[s] \in Live \cup {"archived"}}

LiveSessions == {s \in Sessions : status[s] \in Live}

\* _VALID_TRANSITIONS; the same status again is no transition.
ValidTransitions ==
  {<<"active", "idle">>, <<"active", "archived">>, <<"active", "destroyed">>,
   <<"idle", "active">>, <<"idle", "archived">>, <<"idle", "destroyed">>,
   <<"archived", "destroyed">>}
Legal(from, to) == from = to \/ <<from, to>> \in ValidTransitions

Init ==
  /\ serial \in Serials
  /\ crashes \in Crashes
  /\ Log!Init
  /\ recent = <<>>
  /\ pc = [t \in Threads |-> "free"]
  /\ kind = [t \in Threads |-> "none"]
  /\ target = [t \in Threads |-> NoSession]
  /\ goal = [t \in Threads |-> "none"]
  /\ workers = [s \in Sessions |-> 0]
  /\ closed = [t \in Threads |-> {}]
  /\ requests = 0

Goto(t, l) == pc' = [pc EXCEPT ![t] = l]

\* The request is over, answered or raised; its locals are gone.
Done(t) ==
  /\ Goto(t, "free")
  /\ kind' = [kind EXCEPT ![t] = "none"]
  /\ target' = [target EXCEPT ![t] = NoSession]
  /\ goal' = [goal EXCEPT ![t] = "none"]

\* What is active moves to the end of the order.
Known(s) == \E i \in 1..Len(recent) : recent[i] = s
At(s) == CHOOSE i \in 1..Len(recent) : recent[i] = s
Without(s) ==
  SubSeq(recent, 1, At(s) - 1) \o SubSeq(recent, At(s) + 1, Len(recent))
Moved(s) == Append(IF Known(s) THEN Without(s) ELSE recent, s)

LastOf(S) ==
  LET at == {i \in 1..Len(recent) : recent[i] \in S}
  IN IF at = {} THEN NoSession ELSE recent[CHOOSE i \in at : \A j \in at : j <= i]

\* Mutation: sessions are found by their last message.
LatestWithMessage == LastOf({s \in LiveSessions : messages[s] # <<>>})

\* find_session_for_user: the live session active last.
MostRecent == LastOf(LiveSessions)

\* What a direct call on a session asks update_status for.
GoalsOf(k) == IF k = "idle" THEN {"idle"}
              ELSE IF k = "destroy" THEN {"destroyed"} ELSE Log!Statuses

\* A request is received; a direct call comes with the id of a session.
\* mark_idle_if_expired and update_status have no caller among the handlers:
\* nothing overlaps them.
Receive(t, k) ==
  /\ pc[t] = "free"
  /\ requests < MaxRequests
  /\ IF serial THEN \A u \in Threads : pc[u] = "free"
               ELSE k \notin {"idle", "update"}
  /\ requests' = requests + 1
  /\ kind' = [kind EXCEPT ![t] = k]
  /\ closed' = [closed EXCEPT ![t] = {s \in Sessions : status[s] \in Ended}]
  /\ \/ /\ k \in {"message", "archive"}
        /\ Goto(t, "find")
        /\ UNCHANGED <<target, goal>>
     \/ /\ k \in {"idle", "update", "destroy"}
        /\ \E s \in Sessions, g \in GoalsOf(k) :
             /\ status[s] # "none"
             /\ target' = [target EXCEPT ![t] = s]
             /\ goal' = [goal EXCEPT ![t] = g]
        /\ Goto(t, IF k = "idle" THEN "expired" ELSE "read")
  /\ UNCHANGED <<setup, db, recent, workers>>

-----------------------------------------------------------------------------
(* get_or_create_session and the lookup of /archive                         *)

FindForMessage(t) ==
  /\ pc[t] = "find" /\ kind[t] = "message"
  /\ target' = [target EXCEPT ![t] = MostRecent]
  /\ \/ MostRecent = NoSession /\ Goto(t, "create") /\ UNCHANGED goal
     \/ /\ MostRecent # NoSession
        /\ status[MostRecent] # "idle"
        /\ Goto(t, "append") /\ UNCHANGED goal
     \/ /\ MostRecent # NoSession
        /\ status[MostRecent] = "idle"
        /\ goal' = [goal EXCEPT ![t] = "active"]
        /\ Goto(t, "read")
  /\ UNCHANGED <<setup, db, recent, kind, workers, closed, requests>>

\* Nothing to archive: _handle_archive_command still calls
\* get_or_create_session, for the session of its answer.
FindForArchive(t) ==
  /\ pc[t] = "find" /\ kind[t] = "archive"
  /\ target' = [target EXCEPT ![t] = MostRecent]
  /\ \/ /\ MostRecent = NoSession
        /\ kind' = [kind EXCEPT ![t] = "lookup"]
        /\ UNCHANGED <<pc, goal>>
     \/ /\ MostRecent # NoSession
        /\ goal' = [goal EXCEPT ![t] = "archived"]
        /\ Goto(t, "append")
        /\ UNCHANGED kind
  /\ UNCHANGED <<setup, db, recent, workers, closed, requests>>

FindForAnswer(t) ==
  /\ pc[t] = "find" /\ kind[t] = "lookup"
  /\ \/ /\ MostRecent = NoSession
        /\ Goto(t, "create")
        /\ UNCHANGED local
     \/ /\ MostRecent # NoSession
        /\ status[MostRecent] # "idle"
        /\ Done(t)
     \/ /\ MostRecent # NoSession
        /\ status[MostRecent] = "idle"
        /\ target' = [target EXCEPT ![t] = MostRecent]
        /\ goal' = [goal EXCEPT ![t] = "active"]
        /\ Goto(t, "read")
        /\ UNCHANGED kind
  /\ UNCHANGED <<setup, db, recent, workers, closed, requests>>

CreateSession(t, s) ==
  /\ pc[t] = "create"
  /\ s = Len(recent) + 1
  /\ Log!Create(s)
  /\ recent' = Moved(s)
  /\ IF kind[t] = "message"
     THEN /\ target' = [target EXCEPT ![t] = s]
          /\ Goto(t, "append")
          /\ UNCHANGED <<kind, goal>>
     ELSE Done(t)
  /\ UNCHANGED <<setup, workers, closed, requests>>

-----------------------------------------------------------------------------
(* Messages                                                                 *)

\* A message of the request: the user's, the assistant's (or a tool's), or
\* the "/archive" the command records.
AppendToSession(t) ==
  /\ pc[t] \in {"append", "reply"}
  /\ Log!AppendMessage(target[t], 0)
  /\ recent' = Moved(target[t])
  /\ \/ pc[t] = "reply" /\ Done(t)
     \/ /\ pc[t] = "append"
        /\ Goto(t, IF kind[t] = "archive" THEN "read" ELSE "reply")
        /\ UNCHANGED local
  /\ UNCHANGED <<setup, workers, closed, requests>>

\* KeyError: the session was deleted meanwhile.
SessionGone(t) ==
  /\ pc[t] \in {"append", "reply", "read", "set", "expired"}
  /\ status[target[t]] = "none"
  /\ Done(t)
  /\ UNCHANGED <<setup, db, recent, workers, closed, requests>>

-----------------------------------------------------------------------------
(* update_status: read, validate, set                                       *)

\* mark_idle_if_expired reads first, and only an ACTIVE session that timed
\* out goes on to update_status.
CheckExpired(t) ==
  /\ pc[t] = "expired"
  /\ status[target[t]] # "none"
  /\ \/ status[target[t]] = "active" /\ Goto(t, "read") /\ UNCHANGED local
     \/ Done(t)
  /\ UNCHANGED <<setup, db, recent, workers, closed, requests>>

\* The transition is validated against the status read here; an illegal one
\* raises InvalidSessionTransition.
ReadStatus(t) ==
  /\ pc[t] = "read"
  /\ status[target[t]] # "none"
  /\ \/ Legal(status[target[t]], goal[t]) /\ Goto(t, "set") /\ UNCHANGED local
     \/ ~Legal(status[target[t]], goal[t]) /\ Done(t)
  /\ UNCHANGED <<setup, db, recent, workers, closed, requests>>

\* Mutation: destroying a session summarises it too.
SummaryOfDestroyed(t) ==
  \/ kind[t] = "message" /\ Goto(t, "append") /\ UNCHANGED local
  \/ /\ kind[t] \in {"archive", "destroy"}
     /\ Goto(t, "schedule")
     /\ UNCHANGED local
  \/ kind[t] \in {"lookup", "idle", "update"} /\ Done(t)

AfterSet(t) ==
  \/ kind[t] = "message" /\ Goto(t, "append") /\ UNCHANGED local
  \/ /\ kind[t] = "archive" /\ Summarises
     /\ Goto(t, "schedule")
     /\ UNCHANGED local
  \* No summariser, or promoting the session to long-term memory raised.
  \/ kind[t] = "archive" /\ Done(t)
  \/ kind[t] \in {"lookup", "idle", "update"} /\ Done(t)
  \/ kind[t] = "destroy" /\ Done(t)
  \/ kind[t] = "destroy" /\ Goto(t, "delete") /\ UNCHANGED local

SetStatus(t) ==
  /\ pc[t] = "set"
  /\ Log!SetStatus(target[t], goal[t])
  /\ AfterSet(t)
  /\ UNCHANGED <<setup, recent, workers, closed, requests>>

\* trigger_destroy(physical_delete=True).
DeleteSession(t) ==
  /\ pc[t] = "delete"
  /\ Log!Delete(target[t])
  /\ Done(t)
  /\ UNCHANGED <<setup, recent, workers, closed, requests>>

-----------------------------------------------------------------------------
(* The LLM summary                                                          *)

\* _schedule_archive_llm_summary: "pending", then the daemon thread.
SchedulePending(t) ==
  /\ pc[t] = "schedule"
  /\ Log!UpdateSummary(target[t], "pending")
  /\ Goto(t, "spawn")
  /\ UNCHANGED <<setup, recent, local, workers, closed, requests>>

SpawnWorker(t) ==
  /\ pc[t] = "spawn"
  /\ workers' = [workers EXCEPT ![target[t]] = @ + 1]
  /\ Done(t)
  /\ UNCHANGED <<setup, db, recent, closed, requests>>

\* Mutation: an exception of the summariser is not reported.
WorkerSilent(s) ==
  /\ workers[s] > 0
  /\ \/ UNCHANGED summary
     \/ \E st \in {"done", "skipped"} : Log!UpdateSummary(s, st)
  /\ workers' = [workers EXCEPT ![s] = @ - 1]
  /\ UNCHANGED <<setup, status, messages, archive, recent, pc, local, closed,
                 requests>>

WorkerEnds(s) ==
  /\ workers[s] > 0
  /\ \E st \in {"done", "skipped", "failed"} : Log!UpdateSummary(s, st)
  /\ workers' = [workers EXCEPT ![s] = @ - 1]
  /\ UNCHANGED <<setup, recent, pc, local, closed, requests>>

\* Requests and daemon threads die with the process, which may have been
\* between the two commits of an archive.
Crash ==
  /\ crashes
  /\ \/ \E t \in Threads : pc[t] # "free"
     \/ \E s \in Sessions : workers[s] > 0
  /\ pc' = [t \in Threads |-> "free"]
  /\ kind' = [t \in Threads |-> "none"]
  /\ target' = [t \in Threads |-> NoSession]
  /\ goal' = [t \in Threads |-> "none"]
  /\ workers' = [s \in Sessions |-> 0]
  /\ \/ UNCHANGED db
     \/ \E t \in Threads :
          pc[t] = "set" /\ goal[t] = "archived" /\ Log!ArchiveTorn(target[t])
  /\ UNCHANGED <<setup, recent, closed, requests>>

Step(t) ==
  \/ FindForMessage(t) \/ FindForArchive(t) \/ FindForAnswer(t)
  \/ \E s \in Sessions : CreateSession(t, s)
  \/ AppendToSession(t) \/ SessionGone(t)
  \/ CheckExpired(t) \/ ReadStatus(t) \/ SetStatus(t) \/ DeleteSession(t)
  \/ SchedulePending(t) \/ SpawnWorker(t)

Next ==
  \/ \E t \in Threads : Step(t) \/ \E k \in Kinds : Receive(t, k)
  \/ \E s \in Sessions : WorkerEnds(s)
  \/ Crash

Spec == Init /\ [][Next]_vars
FairSpec ==
  /\ Spec
  /\ \A t \in Threads : WF_vars(Step(t))
  /\ \A s \in Sessions : WF_vars(WorkerEnds(s))

-----------------------------------------------------------------------------
(* Properties                                                               *)

\* Every variable keeps its type.
TypeOK ==
  /\ serial \in Serials /\ crashes \in Crashes
  /\ status \in [Sessions -> Log!Statuses \cup {"none"}]
  /\ messages \in [Sessions -> Seq({0})]
  /\ archive \in [Sessions -> Nat \cup {NoRow}]
  /\ summary \in [Sessions -> Log!SummaryStates \cup {"none"}]
  /\ recent \in Seq(Sessions)
  /\ pc \in [Threads -> {"free", "find", "create", "append", "reply", "expired",
                         "read", "set", "delete", "schedule", "spawn"}]
  /\ kind \in [Threads -> Kinds \cup {"none", "lookup"}]
  /\ target \in [Threads -> Sessions \cup {NoSession}]
  /\ goal \in [Threads -> Log!Statuses \cup {"none"}]
  /\ workers \in [Sessions -> Nat]
  /\ closed \in [Threads -> SUBSET Sessions]
  /\ requests \in Nat

\* Concurrent requests create no more sessions than there are threads: each
\* of them saw no live session before it created one.
LiveBounded ==
  Cardinality(LiveSessions) + Cardinality({t \in Threads : pc[t] = "create"})
    <= Cardinality(Threads)

\* A request never works on a session that had ended when it was received:
\* what is appended to an ended session comes from requests under way then.
EndedSessionsRest ==
  \A t \in Threads :
    kind[t] \in {"message", "archive"} => target[t] \notin closed[t]

\* With one request at a time the archive row describes the whole session,
\* also where a crash tore the archiving or a transition was asked for again.
ArchiveIsComplete ==
  serial => \A s \in Sessions :
              archive[s] # NoRow => archive[s] = Len(messages[s])

\* ... and a summary that was written stays: nobody announces it again.
SummaryStays ==
  [][serial => \A s \in Sessions :
       (summary[s] = "done" /\ archive'[s] # NoRow)
         => summary'[s] = "done"]_vars

\* An announced summary is written, skipped or given up, unless the process
\* dies (nothing in the code takes it up again).
SummarySettles ==
  \A s \in Sessions :
    (~crashes /\ summary[s] = "pending") ~> summary[s] # "pending"
=============================================================================
