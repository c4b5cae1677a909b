------------------------------ MODULE AgentPort ------------------------------
(***************************************************************************)
(* GenericAgentPort.handle for one (user, channel) key, called by the      *)
(* request threads of one or more worker processes.  What the core does    *)
(* with a request is its outcome (AgentLoop looks inside); the port's own  *)
(* state is what waits for the user: at most one confirmation and one      *)
(* device request per key, in a dict of the process (pending_state_backend *)
(* memory) or in a table all workers share (sqlite_shared).                *)
(***************************************************************************)
EXTENDS Naturals, FiniteSets

CONSTANTS
  Procs,        \* worker processes
  Threads,      \* request threads
  ProcOf,       \* the process of each thread
  Backends,     \* settings of pending_state_backend a behaviour may run with
  Overlaps,     \* clients send their next input before the last is answered
  Ids,          \* bound: ids of confirmations and device requests, 1..n
  MaxInputs,    \* bound: inputs handled in a behaviour
  Crashes,      \* processes may die and restart
  NoThread

ASSUME PortAssumption ==
  /\ ProcOf \in [Threads -> Procs]
  /\ Backends \subseteq {"memory", "sqlite_shared"}
  /\ Overlaps \subseteq BOOLEAN /\ Crashes \in BOOLEAN
  /\ MaxInputs \in Nat
  /\ NoThread \notin Threads
  /\ Ids \subseteq Nat /\ 0 \notin Ids

\* Where a process keeps its pending state.
Db == "db"
Places == Procs \cup {Db}

VARIABLES
  backend,   \* pending_state_backend, fixed when the worker starts
  overlap,   \* whether this behaviour's client overlaps its inputs
  confirm,   \* _pending_confirmation: id waiting at each place, 0 for none
  device,    \* _pending_device_request, likewise
  lock,      \* holder of each process's _state_lock
  pc,        \* where each thread's handle call stands
  input,     \* the PortInput each thread handles
  taken,     \* the pending id the thread popped (0 for None)
  asked,     \* ids drawn for confirmations so far (uuid4)
  requested, \* ids drawn for device requests so far
  shown,     \* history: ids carried by an emitted event
  ran,       \* history: how often the tool of each confirmation was run
  accepted,  \* history: how often a result of each device request was taken
  inputs     \* inputs handled so far (bounded by MaxInputs)

vars == <<backend, overlap, confirm, device, lock, pc, input, taken, asked,
          requested, shown, ran, accepted, inputs>>
setup == <<backend, overlap>>
ids == <<asked, requested>>
history == <<shown, ran, accepted>>

Shared == backend = "sqlite_shared"
PlaceOf(t) == IF Shared THEN Db ELSE ProcOf[t]

\* A user message or system command is an answer when something waits: text
\* that is neither yes nor /confirm <id> yes is a denial.
Inputs == [kind : {"user", "system", "device"},
           answer : {"approve", "deny"}, id : Ids \cup {0}]
NoInput == [kind |-> "user", answer |-> "deny", id |-> 0]

\* What clients can send: they know the ids they were shown, and answer
\* without an id ("yes") only when they take one question at a time.
Sendable(i) ==
  /\ i.id \in shown \cup {0}
  /\ i.kind = "device" => i.answer = "deny"
  /\ (i.answer = "approve" /\ i.id = 0) => ~overlap

Init ==
  /\ backend \in Backends
  /\ overlap \in Overlaps
  /\ confirm = [p \in Places |-> 0]
  /\ device = [p \in Places |-> 0]
  /\ lock = [p \in Procs |-> NoThread]
  /\ pc = [t \in Threads |-> "idle"]
  /\ input = [t \in Threads |-> NoInput]
  /\ taken = [t \in Threads |-> 0]
  /\ asked = {}
  /\ requested = {}
  /\ shown = {}
  /\ ran = [i \in Ids |-> 0]
  /\ accepted = [i \in Ids |-> 0]
  /\ inputs = 0

LockFree(t) == lock[ProcOf[t]] = NoThread
Goto(t, l) == pc' = [pc EXCEPT ![t] = l]

\* A request arrives on a free thread.
Receive(t, i) ==
  /\ pc[t] = "idle"
  /\ inputs < MaxInputs
  /\ overlap \/ \A u \in Threads : pc[u] = "idle"
  /\ Sendable(i)
  /\ input' = [input EXCEPT ![t] = i]
  /\ inputs' = inputs + 1
  /\ Goto(t, "pop_confirm")
  /\ UNCHANGED <<setup, confirm, device, lock, taken, ids, history>>

-----------------------------------------------------------------------------
(* Taking what waits                                                        *)

\* The dict's pop under the lock is one step.
PopConfirmMemory(t) ==
  /\ ~Shared
  /\ pc[t] = "pop_confirm"
  /\ LockFree(t)
  /\ taken' = [taken EXCEPT ![t] = confirm[PlaceOf(t)]]
  /\ confirm' = [confirm EXCEPT ![PlaceOf(t)] = 0]
  /\ Goto(t, IF confirm[PlaceOf(t)] # 0 THEN "answer" ELSE "pop_device")
  /\ UNCHANGED <<setup, device, lock, input, ids, history, inputs>>

\* Mutation: the SELECT is done outside the lock.
SelectUnlocked(t) ==
  /\ Shared
  /\ pc[t] = "pop_confirm"
  /\ LockFree(t)
  /\ taken' = [taken EXCEPT ![t] = confirm[Db]]
  /\ Goto(t, "delete_confirm")
  /\ UNCHANGED <<setup, confirm, device, lock, input, ids, history, inputs>>

\* The table's pop is a SELECT, then a DELETE with its commit; the lock keeps
\* out the threads of this process only.
SelectConfirm(t) ==
  /\ Shared
  /\ pc[t] = "pop_confirm"
  /\ LockFree(t)
  /\ lock' = [lock EXCEPT ![ProcOf[t]] = t]
  /\ taken' = [taken EXCEPT ![t] = confirm[Db]]
  /\ Goto(t, "delete_confirm")
  /\ UNCHANGED <<setup, confirm, device, input, ids, history, inputs>>

\* Mutation: the lock is not released.
DeleteKeepsLock(t) ==
  /\ pc[t] = "delete_confirm"
  /\ confirm' = [confirm EXCEPT ![Db] = 0]
  /\ Goto(t, IF taken[t] # 0 THEN "answer" ELSE "pop_device")
  /\ UNCHANGED <<setup, device, lock, input, taken, ids, history, inputs>>

DeleteConfirm(t) ==
  /\ pc[t] = "delete_confirm"
  /\ confirm' = [confirm EXCEPT ![Db] = 0]
  /\ lock' = [lock EXCEPT ![ProcOf[t]] = NoThread]
  /\ Goto(t, IF taken[t] # 0 THEN "answer" ELSE "pop_device")
  /\ UNCHANGED <<setup, device, input, taken, ids, history, inputs>>

PopDeviceMemory(t) ==
  /\ ~Shared
  /\ pc[t] = "pop_device"
  /\ LockFree(t)
  /\ taken' = [taken EXCEPT ![t] = device[PlaceOf(t)]]
  /\ device' = [device EXCEPT ![PlaceOf(t)] = 0]
  /\ Goto(t, IF device[PlaceOf(t)] # 0 THEN "result" ELSE "message")
  /\ UNCHANGED <<setup, confirm, lock, input, ids, history, inputs>>

SelectDevice(t) ==
  /\ Shared
  /\ pc[t] = "pop_device"
  /\ LockFree(t)
  /\ lock' = [lock EXCEPT ![ProcOf[t]] = t]
  /\ taken' = [taken EXCEPT ![t] = device[Db]]
  /\ Goto(t, "delete_device")
  /\ UNCHANGED <<setup, confirm, device, input, ids, history, inputs>>

DeleteDevice(t) ==
  /\ pc[t] = "delete_device"
  /\ device' = [device EXCEPT ![Db] = 0]
  /\ lock' = [lock EXCEPT ![ProcOf[t]] = NoThread]
  /\ Goto(t, IF taken[t] # 0 THEN "result" ELSE "message")
  /\ UNCHANGED <<setup, confirm, input, taken, ids, history, inputs>>

-----------------------------------------------------------------------------
(* Acting on it                                                             *)

\* Mutation: the id of the answer is not compared.
AnyIdApproves(i, expected) == i.kind # "device" /\ i.answer = "approve"

\* _parse_confirmation_command and _confirmation_decision: a bare yes fits
\* any confirmation, an id must be the popped one.
Approves(i, expected) ==
  /\ i.kind # "device"
  /\ i.answer = "approve"
  /\ i.id \in {0, expected}

Finish(t) ==
  /\ Goto(t, "idle")
  /\ taken' = [taken EXCEPT ![t] = 0]
  /\ input' = [input EXCEPT ![t] = NoInput]

\* _confirm_and_run: the core runs the approved call; whatever it answers,
\* a device request included, only becomes events.
ConfirmAndRun(t) ==
  /\ pc[t] = "answer"
  /\ Approves(input[t], taken[t])
  /\ ran' = [ran EXCEPT ![taken[t]] = ran[taken[t]] + 1]
  /\ Finish(t)
  /\ UNCHANGED <<setup, confirm, device, lock, ids, shown, accepted, inputs>>

\* The core raises before the approved call is run.
ApprovalFails(t) ==
  /\ pc[t] = "answer"
  /\ Approves(input[t], taken[t])
  /\ Finish(t)
  /\ UNCHANGED <<setup, confirm, device, lock, ids, history, inputs>>

Deny(t) ==
  /\ pc[t] = "answer"
  /\ ~Approves(input[t], taken[t])
  /\ Finish(t)
  /\ UNCHANGED <<setup, confirm, device, lock, ids, history, inputs>>

\* A device_result input must carry the popped id ...
AcceptDeviceResult(t) ==
  /\ pc[t] = "result"
  /\ input[t].kind = "device" /\ input[t].id = taken[t]
  /\ accepted' = [accepted EXCEPT ![taken[t]] = accepted[taken[t]] + 1]
  /\ Finish(t)
  /\ UNCHANGED <<setup, confirm, device, lock, ids, shown, ran, inputs>>

\* ... and anything else is refused, the device request staying popped.
RejectDeviceResult(t) ==
  /\ pc[t] = "result"
  /\ ~(input[t].kind = "device" /\ input[t].id = taken[t])
  /\ Finish(t)
  /\ UNCHANGED <<setup, confirm, device, lock, ids, history, inputs>>

\* Nothing waited: only a user message goes to the core.
RejectInput(t) ==
  /\ pc[t] = "message"
  /\ input[t].kind # "user"
  /\ Finish(t)
  /\ UNCHANGED <<setup, confirm, device, lock, ids, history, inputs>>

\* core.handle answered with a reply or an error: events only.
CoreReplies(t) ==
  /\ pc[t] = "message"
  /\ input[t].kind = "user"
  /\ Finish(t)
  /\ UNCHANGED <<setup, confirm, device, lock, ids, history, inputs>>

\* core.handle wants a confirmation: an id is drawn and stored (replacing
\* what waited) before the event that shows it is emitted.
PutConfirm(t, id) ==
  /\ pc[t] = "message"
  /\ input[t].kind = "user"
  /\ LockFree(t)
  /\ id \notin asked \cup requested
  /\ asked' = asked \cup {id}
  /\ confirm' = [confirm EXCEPT ![PlaceOf(t)] = id]
  /\ taken' = [taken EXCEPT ![t] = id]
  /\ Goto(t, "emit")
  /\ UNCHANGED <<setup, device, lock, input, requested, history, inputs>>

PutDevice(t, id) ==
  /\ pc[t] = "message"
  /\ input[t].kind = "user"
  /\ LockFree(t)
  /\ id \notin asked \cup requested
  /\ requested' = requested \cup {id}
  /\ device' = [device EXCEPT ![PlaceOf(t)] = id]
  /\ taken' = [taken EXCEPT ![t] = id]
  /\ Goto(t, "emit")
  /\ UNCHANGED <<setup, confirm, lock, input, asked, history, inputs>>

\* The ConfirmationEvent or DeviceRequestEvent reaches the client.
Emit(t) ==
  /\ pc[t] = "emit"
  /\ shown' = shown \cup {taken[t]}
  /\ Finish(t)
  /\ UNCHANGED <<setup, confirm, device, lock, ids, ran, accepted, inputs>>

\* Mutation: the schema is created anew at start-up.
RestartDropsTable(p) ==
  /\ Crashes
  /\ \E t \in Threads : ProcOf[t] = p /\ pc[t] # "idle"
  /\ confirm' = [q \in Places |-> IF q \in {p, Db} THEN 0 ELSE confirm[q]]
  /\ device' = [q \in Places |-> IF q \in {p, Db} THEN 0 ELSE device[q]]
  /\ lock' = [lock EXCEPT ![p] = NoThread]
  /\ pc' = [t \in Threads |-> IF ProcOf[t] = p THEN "idle" ELSE pc[t]]
  /\ input' = [t \in Threads |-> IF ProcOf[t] = p THEN NoInput ELSE input[t]]
  /\ taken' = [t \in Threads |-> IF ProcOf[t] = p THEN 0 ELSE taken[t]]
  /\ UNCHANGED <<setup, ids, history, inputs>>

\* A worker dies and restarts: its threads and its dicts are gone; the table
\* stays.
Crash(p) ==
  /\ Crashes
  /\ \E t \in Threads : ProcOf[t] = p /\ pc[t] # "idle"
  /\ confirm' = [confirm EXCEPT ![p] = 0]
  /\ device' = [device EXCEPT ![p] = 0]
  /\ lock' = [lock EXCEPT ![p] = NoThread]
  /\ pc' = [t \in Threads |-> IF ProcOf[t] = p THEN "idle" ELSE pc[t]]
  /\ input' = [t \in Threads |-> IF ProcOf[t] = p THEN NoInput ELSE input[t]]
  /\ taken' = [t \in Threads |-> IF ProcOf[t] = p THEN 0 ELSE taken[t]]
  /\ UNCHANGED <<setup, ids, history, inputs>>

Step(t) ==
  \/ PopConfirmMemory(t) \/ SelectConfirm(t) \/ DeleteConfirm(t)
  \/ PopDeviceMemory(t) \/ SelectDevice(t) \/ DeleteDevice(t)
  \/ ConfirmAndRun(t) \/ ApprovalFails(t) \/ Deny(t)
  \/ AcceptDeviceResult(t) \/ RejectDeviceResult(t)
  \/ RejectInput(t) \/ CoreReplies(t) \/ Emit(t)
  \/ \E id \in Ids : PutConfirm(t, id) \/ PutDevice(t, id)

Next ==
  \/ \E t \in Threads : Step(t) \/ \E i \in Inputs : Receive(t, i)
  \/ \E p \in Procs : Crash(p)

Spec == Init /\ [][Next]_vars
FairSpec == Spec /\ \A t \in Threads : WF_vars(Step(t))

-----------------------------------------------------------------------------
(* Properties                                                               *)

Labels == {"idle", "pop_confirm", "delete_confirm", "answer", "pop_device",
           "delete_device", "result", "message", "emit"}

\* Every variable keeps its type.
TypeOK ==
  /\ backend \in Backends
  /\ overlap \in Overlaps
  /\ confirm \in [Places -> Ids \cup {0}]
  /\ device \in [Places -> Ids \cup {0}]
  /\ lock \in [Procs -> Threads \cup {NoThread}]
  /\ pc \in [Threads -> Labels]
  /\ input \in [Threads -> Inputs]
  /\ taken \in [Threads -> Ids \cup {0}]
  /\ asked \in SUBSET Ids
  /\ requested \in SUBSET Ids
  /\ shown \in SUBSET Ids
  /\ ran \in [Ids -> Nat]
  /\ accepted \in [Ids -> Nat]
  /\ inputs \in Nat

\* One approval, one run: README.md offers sqlite_shared for several workers.
ApprovedAtMostOnce == \A i \in Ids : ran[i] <= 1

\* The design emits a question, then takes its answer: a device request is
\* answered at most once, after its id reached a client, and a confirmation
\* that is answered by id is run only if it was shown.  (A crash between the
\* put and the emit leaves a question nobody saw, which a bare "yes" of the
\* same key approves: hence the condition.)
ShownBeforeAnswered ==
  \A i \in Ids :
    /\ (overlap /\ ran[i] > 0) => i \in shown
    /\ accepted[i] > 0 => i \in shown
    /\ accepted[i] <= 1

\* For a client that takes one question at a time, what waits at a place
\* stops waiting only because an input took it or the process died whose dict
\* held it: it is never replaced, nor deleted unread, nor lost by a restart
\* on the shared table.
NothingLost ==
  [][~overlap => \A p \in Places :
       LET died == p \in Procs /\ \A t \in Threads : ProcOf[t] = p => pc'[t] = "idle"
       IN /\ (confirm[p] # 0 /\ confirm'[p] # confirm[p]) =>
               \/ died
               \/ \E t \in Threads : pc'[t] = "answer" /\ taken'[t] = confirm[p]
          /\ (device[p] # 0 /\ device'[p] # device[p]) =>
               \/ died
               \/ \E t \in Threads : pc'[t] = "result" /\ taken'[t] = device[p]
    ]_vars

\* Every input is handled to the end: no step leaves the port's lock held.
EveryInputHandled == \A t \in Threads : pc[t] # "idle" ~> pc[t] = "idle"

\* Where each confirmation stands, for the abstract protocol.
Phase(i) ==
  IF ran[i] > 0 THEN "ran"
  ELSE IF \E p \in Places : confirm[p] = i THEN "waiting"
  ELSE IF \E t \in Threads : pc[t] = "answer" /\ taken[t] = i THEN "taken"
  ELSE IF i \in asked THEN "closed"
  ELSE "unused"

Protocol == INSTANCE Confirmation
              WITH phase <- [i \in Ids |-> Phase(i)], runs <- ran

\* The port implements the abstract confirmation protocol.
ImplementsProtocol == Protocol!Spec
=============================================================================
