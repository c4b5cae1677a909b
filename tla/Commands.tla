------------------------------ MODULE Commands ------------------------------
(***************************************************************************)
(* Requests of one user through the gates of the core: the intent the port  *)
(* parses, the security policy (gate 1) and the resource policy of          *)
(* long-term memory (gate 5), the message that is logged and the effect on  *)
(* memory.  Threads handle requests of the user at the same time; gates     *)
(* look at the session as it was loaded, messages go to the stored row.     *)
(*                                                                          *)
(* A text is a set of the marks its content carries: Guarded for a guard    *)
(* pattern, Long for more than input_max_chars.  What follows a chat        *)
(* message is Turn's and AgentLoop's; races between lookup and creation of  *)
(* a session are SessionManager's.                                          *)
(***************************************************************************)
EXTENDS Integers, FiniteSets, Sequences

CONSTANTS
  Threads,     \* request threads
  Guarded,     \* mark: contains a guard pattern
  Long,        \* mark: longer than input_max_chars
  Setups,      \* settings a behaviour may have
  Inputs,      \* what a user may send, by settings:
               \* sets of [word, complete, text, blocks, listed]
  Minute,      \* one minute of the clock
  Sessions,    \* ids of sessions, in the order they are created
  MaxClock,    \* bound: ticks, by settings
  MaxRequests, \* bound: requests
  NoSession

Modes == {"allow", "deny"}
Setup == [guard : BOOLEAN, maxChars : BOOLEAN, rpm : Nat, memory : BOOLEAN,
          read : Modes, write : Modes, readApproval : BOOLEAN,
          writeApproval : BOOLEAN, promote : BOOLEAN, allowlist : BOOLEAN]

\* "put" is /preference set and /fact add, "remove" their delete, "read"
\* their get and list.
Words == {"chat", "remember", "forget", "put", "remove", "read", "delegate", "archive"}

\* A word is complete with the arguments its command needs; blocks are the
\* content blocks sent along, listed tells targets of the allowlist.
Marks == {Guarded, Long}
Input == [word : Words, complete : BOOLEAN, text : SUBSET Marks,
          blocks : SUBSET Marks, listed : BOOLEAN]

ASSUME CommandsAssumption ==
  /\ IsFiniteSet(Threads)
  /\ Setups \subseteq Setup
  /\ Inputs \in [Setups -> SUBSET Input]
  /\ Minute \in Nat
  /\ MaxClock \in [Setups -> Nat]
  /\ MaxRequests \in Nat
  /\ Sessions \subseteq Nat
  /\ NoSession \notin Sessions

VARIABLES
  setup,    \* policies in force, fixed at start
  clock,
  log,      \* user messages of each session: [by, text, at]
  live,     \* sessions that are ACTIVE
  memory,   \* items of long-term memory: [kind, text]
  pc,       \* where each thread stands
  command,  \* what it handles: [intent, text, blocks, listed]
  target,   \* the session it works with
  snap,     \* that session's user messages when it was loaded
  stamp,    \* the time of its message
  requests  \* requests so far (bounded by MaxRequests)

store == <<log, live, memory>>
local == <<command, target, snap, stamp>>
vars == <<setup, clock, store, pc, local, requests>>

-----------------------------------------------------------------------------
(* Intents                                                                  *)

\* parse_user_intent: what is not a complete command is a chat message.
Intent(word, complete) == IF complete THEN word ELSE "chat"

MemoryIntents == {"remember", "forget", "put", "remove", "read"}
\* Intents whose handler enforces the security policy.
Checked == {"chat", "remember", "forget", "delegate"}

Command == [intent : Words, text : SUBSET Marks, blocks : SUBSET Marks, listed : BOOLEAN]
NoCommand == [intent |-> "none", text |-> {}, blocks |-> {}, listed |-> FALSE]

\* The text that is logged: the whole payload, or the word /archive.
Logged(c) == IF c.intent = "archive" THEN {} ELSE c.text \cup c.blocks

\* The text that is scanned: all of a chat or delegate payload, of the memory
\* commands the argument only.
Scanned(c) == IF c.intent \in {"remember", "forget"} THEN c.text ELSE Logged(c)

-----------------------------------------------------------------------------
(* The gates                                                                *)

Operation(intent) == IF intent = "read" THEN "read" ELSE "write"

\* ResourceAccessEvaluator.is_allowed
IsAllowed(operation) ==
  (IF operation = "read" THEN setup.read ELSE setup.write) = "allow"

\* requires_approval: of an operation that is allowed only.
RequiresApproval(operation) ==
  /\ IsAllowed(operation)
  /\ IF operation = "read" THEN setup.readApproval ELSE setup.writeApproval

\* Mutation: what needs an approval is let through.
ApprovalIgnored(intent) ==
  intent \in MemoryIntents /\ ~IsAllowed(Operation(intent))

ResourceRefuses(intent) ==
  /\ intent \in MemoryIntents
  /\ ~IsAllowed(Operation(intent)) \/ RequiresApproval(Operation(intent))

\* Mutation: messages exactly one minute old are not counted.
RecentShort(messages) ==
  {n \in 1..Len(messages) : clock - messages[n].at < Minute}

Recent(messages) ==
  {n \in 1..Len(messages) : clock - messages[n].at <= Minute}

TooMany(messages) ==
  setup.rpm > 0 /\ Cardinality(Recent(messages)) >= setup.rpm

\* Mutation: commands are trusted.
OnlyChats(c, messages) ==
  /\ c.intent = "chat"
  /\ \/ setup.guard /\ Guarded \in Scanned(c)
     \/ setup.maxChars /\ Long \in Scanned(c)
     \/ TooMany(messages)

\* _enforce_security_policy with the session's messages as loaded.
PolicyRefuses(c, messages) ==
  /\ c.intent \in Checked
  /\ \/ setup.guard /\ Guarded \in Scanned(c)
     \/ setup.maxChars /\ Long \in Scanned(c)
     \/ TooMany(messages)

\* The optional guard model may refuse what no pattern matches.
GuardModelRefuses(c) == c.intent \in Checked /\ setup.guard

TargetRefused(c) == c.intent = "delegate" /\ setup.allowlist /\ ~c.listed

\* A memory command without memory is answered, and nothing else.
Disabled(c) == c.intent \in MemoryIntents /\ ~setup.memory

Admitted(c, messages) ==
  /\ ~Disabled(c)
  /\ ~ResourceRefuses(c.intent)
  /\ ~PolicyRefuses(c, messages)
  /\ ~TargetRefused(c)

-----------------------------------------------------------------------------
(* Steps                                                                    *)

Init ==
  /\ setup \in Setups
  /\ clock = 0
  /\ log = [s \in Sessions |-> <<>>]
  /\ live = {}
  /\ memory = {}
  /\ pc = [t \in Threads |-> "idle"]
  /\ command = [t \in Threads |-> NoCommand]
  /\ target = [t \in Threads |-> NoSession]
  /\ snap = [t \in Threads |-> <<>>]
  /\ stamp = [t \in Threads |-> 0]
  /\ requests = 0

Goto(t, l) == pc' = [pc EXCEPT ![t] = l]

\* The response is returned and the request's locals are gone.
Respond(t) ==
  /\ Goto(t, "idle")
  /\ command' = [command EXCEPT ![t] = NoCommand]
  /\ target' = [target EXCEPT ![t] = NoSession]
  /\ snap' = [snap EXCEPT ![t] = <<>>]
  /\ stamp' = [stamp EXCEPT ![t] = 0]

Receive(t, input) ==
  /\ pc[t] = "idle"
  /\ requests < MaxRequests
  /\ requests' = requests + 1
  /\ command' = [command EXCEPT ![t] =
                   [intent |-> Intent(input.word, input.complete),
                    text |-> input.text, blocks |-> input.blocks,
                    listed |-> input.listed]]
  /\ Goto(t, "find")
  /\ UNCHANGED <<setup, clock, store, target, snap, stamp>>

Loaded(t, s) ==
  /\ target' = [target EXCEPT ![t] = s]
  /\ snap' = [snap EXCEPT ![t] = log[s]]

\* /archive logs its line whatever the policies say.
FindSession(t) ==
  /\ pc[t] = "find"
  /\ \E s \in live :
       /\ Loaded(t, s)
       /\ IF command[t].intent = "archive"
          THEN Goto(t, "append") /\ stamp' = [stamp EXCEPT ![t] = clock]
          ELSE Goto(t, "check") /\ UNCHANGED stamp
  /\ UNCHANGED <<setup, clock, store, command, requests>>

\* No live session: a new one; there is nothing in it to archive.
CreateSession(t, s) ==
  /\ pc[t] = "find"
  /\ live = {}
  /\ log[s] = <<>> /\ \A u \in Threads : target[u] # s
  /\ live' = {s}
  /\ IF command[t].intent = "archive" THEN Respond(t)
     ELSE Loaded(t, s) /\ Goto(t, "check") /\ UNCHANGED <<command, stamp>>
  /\ UNCHANGED <<setup, clock, log, memory, requests>>

Refuse(t) ==
  /\ pc[t] = "check"
  /\ ~Admitted(command[t], snap[t]) \/ GuardModelRefuses(command[t])
  /\ Respond(t)
  /\ UNCHANGED <<setup, clock, store, requests>>

\* The gates are passed; the message gets its time.
Admit(t) ==
  /\ pc[t] = "check"
  /\ Admitted(command[t], snap[t])
  /\ stamp' = [stamp EXCEPT ![t] = clock]
  /\ Goto(t, "append")
  /\ UNCHANGED <<setup, clock, store, command, target, snap, requests>>

AppendMessage(t) ==
  /\ pc[t] = "append"
  /\ log' = [log EXCEPT ![target[t]] =
               Append(@, [by |-> command[t].intent, text |-> Logged(command[t]),
                          at |-> stamp[t]])]
  /\ Goto(t, "effect")
  /\ UNCHANGED <<setup, clock, live, memory, local, requests>>

Effect(t, intents) == pc[t] = "effect" /\ command[t].intent \in intents

\* The loop runs, the delegate event goes out, or a record is read.
Answer(t) ==
  /\ Effect(t, {"chat", "delegate", "read"})
  /\ Respond(t)
  /\ UNCHANGED <<setup, clock, store, requests>>

\* ingest_record with the argument of /remember, /fact add or /preference set.
Ingest(t) ==
  /\ Effect(t, {"remember", "put"})
  /\ memory' = memory \cup
       {[kind |-> IF command[t].intent = "remember" THEN "claim" ELSE "record",
         text |-> command[t].text]}
  /\ Respond(t)
  /\ UNCHANGED <<setup, clock, log, live, requests>>

\* tombstone_by_phrase: items of every kind whose text has the phrase, up to
\* a limit.
Forget(t) ==
  /\ Effect(t, {"forget"})
  /\ \E found \in SUBSET {m \in memory : command[t].text \subseteq m.text} :
       memory' = memory \ found
  /\ Respond(t)
  /\ UNCHANGED <<setup, clock, log, live, requests>>

\* delete_preference, delete_fact: the record found, if there is one.
Remove(t) ==
  /\ Effect(t, {"remove"})
  /\ \/ memory' = memory \ {[kind |-> "record", text |-> command[t].text]}
     \/ UNCHANGED memory
  /\ Respond(t)
  /\ UNCHANGED <<setup, clock, log, live, requests>>

\* trigger_archive, and the session read back.
Archive(t) ==
  /\ Effect(t, {"archive"})
  /\ live' = live \ {target[t]}
  /\ snap' = [snap EXCEPT ![t] = log[target[t]]]
  /\ Goto(t, "promote")
  /\ UNCHANGED <<setup, clock, log, memory, command, target, stamp, requests>>

TextOf(messages) == UNION {messages[n].text : n \in 1..Len(messages)}

\* The archived dialogue, cut to archive_chunk_max_chars, becomes an item.
\* Promotion asks whether memory may be written, not whether that needs an
\* approval.
Promote(t) ==
  /\ pc[t] = "promote"
  /\ IF setup.memory /\ setup.promote /\ IsAllowed("write")
     THEN \E text \in SUBSET TextOf(snap[t]) :
            memory' = memory \cup {[kind |-> "archive", text |-> text]}
     ELSE UNCHANGED memory
  /\ Respond(t)
  /\ UNCHANGED <<setup, clock, log, live, requests>>

Tick ==
  /\ clock < MaxClock[setup]
  /\ clock' = clock + 1
  /\ UNCHANGED <<setup, store, pc, local, requests>>

Step(t) ==
  \/ FindSession(t) \/ (\E s \in Sessions : CreateSession(t, s))
  \/ Refuse(t) \/ Admit(t) \/ AppendMessage(t) \/ Answer(t)
  \/ Ingest(t) \/ Forget(t) \/ Remove(t) \/ Archive(t) \/ Promote(t)

Next ==
  \/ Tick
  \/ \E t \in Threads : Step(t) \/ \E input \in Inputs[setup] : Receive(t, input)

Spec == Init /\ [][Next]_vars

-----------------------------------------------------------------------------
(* Properties                                                               *)

Message == [by : Words, text : SUBSET Marks, at : Nat]
Item == [kind : {"claim", "record", "archive"}, text : SUBSET Marks]
Places == {"idle", "find", "check", "append", "effect", "promote"}

TypeOK ==
  /\ setup \in Setups
  /\ clock \in Nat
  /\ log \in [Sessions -> Seq(Message)]
  /\ live \subseteq Sessions
  /\ memory \subseteq Item
  /\ pc \in [Threads -> Places]
  /\ command \in [Threads -> Command \cup {NoCommand}]
  /\ target \in [Threads -> Sessions \cup {NoSession}]
  /\ snap \in [Threads -> Seq(Message)]
  /\ stamp \in [Threads -> Nat]
  /\ requests \in Nat

\* How far max_requests_per_minute can be overshot: the count is taken from
\* the session as loaded, so threads that loaded it before each other's
\* messages are all admitted, but no more than one each.  In any minute, of
\* a session, the commands that are counted log at most that many messages.
RateOvershoot ==
  setup.rpm > 0 =>
    \A s \in Sessions, now \in 0..clock :
      Cardinality({n \in 1..Len(log[s]) :
                     log[s][n].by \in Checked /\ now - log[s][n].at \in 0..Minute})
        <= setup.rpm - 1 + Cardinality(Threads)

\* Gate 5 holds whatever the interleaving: what is in memory got there with
\* memory on and writes allowed, and where writes need an approval, which no
\* command can get, only the promotion of an archived session wrote.
WritesAllowed ==
  memory # {} =>
    /\ setup.memory
    /\ setup.write = "allow"
    /\ setup.writeApproval => \A m \in memory : m.kind = "archive"

\* Gate 1 holds for what it scans: with the guard on, no chat or delegate
\* message of a session and no remembered claim contains a guard pattern.
\* Records, archives and the blocks sent along with a memory command may.
GuardHolds ==
  setup.guard =>
    /\ \A s \in Sessions : \A n \in 1..Len(log[s]) :
         log[s][n].by \in {"chat", "delegate"} => Guarded \notin log[s][n].text
    /\ \A m \in memory : m.kind = "claim" => Guarded \notin m.text
=============================================================================
