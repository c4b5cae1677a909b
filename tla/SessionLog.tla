----------------------------- MODULE SessionLog -----------------------------
(***************************************************************************)
(* What a SessionStore promises its callers: every operation on a session  *)
(* is one atomic change of its row and of its archive row.  SessionStore   *)
(* shows the SQLite store to implement this; SessionManager is built on    *)
(* these operations.                                                       *)
(***************************************************************************)
EXTENDS Naturals, Sequences

CONSTANTS
  Sessions,   \* session ids (uuid4)
  Messages,   \* message ids
  NoRow,      \* no row in session_archives
  Crashes     \* the process may die

VARIABLES
  status,     \* status of each stored session, "none" without a row
  messages,   \* its messages
  archive,    \* message_count of its archive row, or NoRow
  summary     \* llm_summary_status of its archive row

vars == <<status, messages, archive, summary>>

Live == {"active", "idle"}
Statuses == Live \cup {"archived", "destroyed"}
SummaryStates == {"pending", "done", "skipped", "failed"}

Init ==
  /\ status = [s \in Sessions |-> "none"]
  /\ messages = [s \in Sessions |-> <<>>]
  /\ archive = [s \in Sessions |-> NoRow]
  /\ summary = [s \in Sessions |-> "none"]

\* create_session: a new row, always ACTIVE and empty.
Create(s) ==
  /\ status[s] = "none"
  /\ status' = [status EXCEPT ![s] = "active"]
  /\ messages' = [messages EXCEPT ![s] = <<>>]
  /\ UNCHANGED <<archive, summary>>

\* append_message, whatever the status of the session.
AppendMessage(s, m) ==
  /\ status[s] # "none"
  /\ messages' = [messages EXCEPT ![s] = Append(messages[s], m)]
  /\ UNCHANGED <<status, archive, summary>>

\* set_status, which does not look at the status it replaces; ARCHIVED also
\* writes the archive row.
SetStatus(s, st) ==
  /\ status[s] # "none"
  /\ status' = [status EXCEPT ![s] = st]
  /\ archive' = IF st = "archived"
                THEN [archive EXCEPT ![s] = Len(messages[s])] ELSE archive
  /\ UNCHANGED <<messages, summary>>

\* A process that dies while it archives may leave the status without its
\* archive row: the one operation that is not all or nothing.
ArchiveTorn(s) ==
  /\ Crashes
  /\ status[s] # "none"
  /\ status' = [status EXCEPT ![s] = "archived"]
  /\ UNCHANGED <<messages, archive, summary>>

\* update_archive_llm_summary: an UPDATE, without effect when no row is there.
UpdateSummary(s, st) ==
  /\ summary' = IF archive[s] # NoRow
                THEN [summary EXCEPT ![s] = st] ELSE summary
  /\ UNCHANGED <<status, messages, archive>>

\* delete_session: the row and its archive row.
Delete(s) ==
  /\ status' = [status EXCEPT ![s] = "none"]
  /\ messages' = [messages EXCEPT ![s] = <<>>]
  /\ archive' = [archive EXCEPT ![s] = NoRow]
  /\ summary' = [summary EXCEPT ![s] = "none"]

Next ==
  \E s \in Sessions :
    \/ Create(s) \/ Delete(s) \/ ArchiveTorn(s)
    \/ \E m \in Messages : AppendMessage(s, m)
    \/ \E st \in Statuses : SetStatus(s, st)
    \/ \E st \in SummaryStates : UpdateSummary(s, st)

Spec == Init /\ [][Next]_vars
=============================================================================
