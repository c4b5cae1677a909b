------------------------------ MODULE AgentLoop ------------------------------
(***************************************************************************)
(* One conversation driven by the core: a request enters through one of    *)
(* the three entry points of AgentCoreImpl (a user message, an approved    *)
(* tool call, a device result), the loop alternates model and tool steps,  *)
(* and a response goes back to the port, which remembers at most one       *)
(* pending confirmation and one pending device request.                    *)
(*                                                                         *)
(* The session's messages are a sequence of [role, id] records; the id of  *)
(* a tool call is the position of the assistant message that announced it  *)
(* (the code draws a uuid).  What the model is shown is the set of         *)
(* positions of the log its context contains.                              *)
(***************************************************************************)
EXTENDS Naturals, Sequences, FiniteSets

CONSTANTS
  Tools,            \* tool names a model may ask for
  Args,             \* argument values; a call is a name with its arguments
  Allowlist,        \* kernel_config.tool_allowlist
  ConfirmRequired,  \* kernel_config.tool_confirmation_required
  RiskForced,       \* tools at or above the policy's tool_confirmation_level
  MemoryTools,      \* {"search_memory"}
  MemoryReadAllowed,\* resource_access of long_term_memory for "read"
  DeviceTools,      \* tools with a device route
  SessionLimits,    \* values of limits.max_loops sessions were created with
  CoreMaxLoops,     \* kernel_config.core_max_loops
  MaxToolCalls,     \* kernel_config.max_tool_calls_per_run
  Failures,         \* subset of {"model", "tool", "crash"} that may happen
  MaxTurns,         \* bound: requests handled in a behaviour
  NoCall            \* "None" where the code has no tool call

ASSUME ToolsAssumption ==
  /\ Allowlist \subseteq Tools
  /\ DeviceTools \subseteq Tools
  /\ NoCall \notin [name : Tools, args : Args]
ASSUME LimitsAssumption ==
  /\ SessionLimits \subseteq Nat
  /\ CoreMaxLoops \in Nat
  /\ MaxToolCalls \in Nat
  /\ MaxTurns \in Nat
ASSUME MemoryAssumption == MemoryReadAllowed \in BOOLEAN

VARIABLES
  maxLoops,  \* session.config.limits.max_loops, stored with the session
  log,       \* session.messages as the store holds them
  pc,        \* where the request being handled stands
  entry,     \* the entry point of the request being handled
  snap,      \* length of the session snapshot the request works with
  call,      \* the tool call being handled
  stage,     \* "direct" before _run_loop, "loop" inside it
  loops,     \* iterations of _run_loop completed by a tool call
  toolCalls, \* tool_calls
  lastFp,    \* last_tool_fp
  streak,    \* repeat_streak
  context,   \* positions of the log the next model call is shown
  executed,  \* history: the calls whose handler was entered in this request
  response,  \* reason of the last AgentResponse
  pending,   \* what the port waits for
  turns      \* requests handled so far (bounded by MaxTurns)

counters == <<stage, loops, toolCalls, lastFp, streak>>
request == <<entry, snap, call, context, counters>>
vars == <<maxLoops, log, pc, request, executed, response, pending, turns>>

Call == [name : Tools, args : Args]

Roles == {"user", "assistant", "calls", "tool"}
Message == [role : Roles, id : Nat]

Entries == {"none", "user", "approved", "device"}

Reasons == {"none", "ok", "confirmation_required", "device_request",
            "tool_call_missing", "tool_policy_denied",
            "resource_access_denied", "repeated_tool_call", "max_tool_calls",
            "max_loops", "unsupported_output_kind", "security_blocked",
            "confirmation_denied", "device_result_invalid", "raised"}

NoPending == [kind |-> "none", call |-> NoCall, id |-> 0]
Pending == [kind : {"none", "confirm", "device"},
            call : Call \cup {NoCall}, id : Nat]

-----------------------------------------------------------------------------
(* Governance and policy                                                    *)

MaxLoops == IF maxLoops < CoreMaxLoops THEN maxLoops ELSE CoreMaxLoops

\* Mutation: the call is counted after the comparison.
LooseBudget == stage = "loop" /\ toolCalls > MaxToolCalls + 1

\* tool_call_budget_decision: exceeded only above the limit, and only calls
\* made inside the loop are counted.
OverBudget == stage = "loop" /\ toolCalls > MaxToolCalls

\* Only _handle passes bypass_tool_confirmation=False; after an approval and
\* after a device result the whole loop runs with the gate lifted.
Bypass == entry \in {"approved", "device"}

\* Mutation: the risk level is not consulted.
ListedOnly == ~Bypass /\ call.name \in ConfirmRequired

\* decide_tool_policy and _should_force_confirmation_by_risk.
NeedsConfirmation == ~Bypass /\ call.name \in ConfirmRequired \cup RiskForced

MemoryDenied(c) == c.name \in MemoryTools /\ ~MemoryReadAllowed

PolicyAllows ==
  call.name \in Allowlist /\ ~MemoryDenied(call) /\ ~NeedsConfirmation

\* Mutation: the confirmation is asked for before the allowlist is looked at.
ConfirmationFirst ==
  IF NeedsConfirmation THEN "confirmation_required"
  ELSE IF call.name \notin Allowlist THEN "tool_policy_denied"
  ELSE "resource_access_denied"

\* The reason with which the policy chain ends the step, in code order.
PolicyReason ==
  IF call.name \notin Allowlist THEN "tool_policy_denied"
  ELSE IF MemoryDenied(call) THEN "resource_access_denied"
  ELSE "confirmation_required"

\* The step of an over-budget call is computed, then its response replaced.
StepReason(reason) == IF OverBudget THEN "max_tool_calls" ELSE reason

\* Context.messages is the snapshot; Context.current is one more message.
ContextOf(prefix, current) == (1..prefix) \cup {current}

-----------------------------------------------------------------------------
(* Responses: the end of a request, with what the port does with it         *)

\* Mutation: the device answer gets a fresh tool_call_id.
CallIdDropped(reason, c, id) ==
  IF entry = "user" /\ reason = "confirmation_required"
  THEN [kind |-> "confirm", call |-> c, id |-> 0]
  ELSE IF entry = "user" /\ reason = "device_request"
  THEN [kind |-> "device", call |-> c, id |-> 0]
  ELSE NoPending

\* Mutation: the pending device request is stored without its id.
CallIdNone(reason, c, id) ==
  IF entry = "user" /\ reason = "confirmation_required"
  THEN [kind |-> "confirm", call |-> c, id |-> 0]
  ELSE IF entry = "user" /\ reason = "device_request"
  THEN [kind |-> "device", call |-> c, id |-> NoCall]
  ELSE NoPending

\* GenericAgentPort.handle turns the response of core.handle into a pending
\* confirmation or device request; the approved and the device entry points
\* only turn it into events.
PortPending(reason, c, id) ==
  IF entry = "user" /\ reason = "confirmation_required"
  THEN [kind |-> "confirm", call |-> c, id |-> 0]
  ELSE IF entry = "user" /\ reason = "device_request"
  THEN [kind |-> "device", call |-> c, id |-> id]
  ELSE NoPending

Respond(reason, c, id) ==
  /\ pc' = "idle"
  /\ response' = reason
  /\ pending' = PortPending(reason, c, id)
  /\ UNCHANGED <<maxLoops, request, turns>>

-----------------------------------------------------------------------------
(* Entry points                                                             *)

\* The locals an entry point starts with; the snapshot is the session that
\* get_or_create_session returned, and it is not refreshed by the messages
\* appended later (append_message reloads and saves the stored row).
BeginRequest(e, st, c) ==
  /\ pc = "idle"
  /\ turns < MaxTurns
  /\ turns' = turns + 1
  /\ executed' = <<>>
  /\ entry' = e /\ call' = c /\ stage' = st
  /\ loops' = 0 /\ toolCalls' = 0 /\ lastFp' = NoCall /\ streak' = 0
  /\ snap' = Len(log)
  /\ UNCHANGED maxLoops

\* A chat message: session looked up, security policy passed, user message
\* appended, initial context built from the snapshot taken before it.
HandleUserMessage ==
  /\ BeginRequest("user", "loop", NoCall)
  /\ pending.kind = "none"
  /\ log' = Append(log, [role |-> "user", id |-> 0])
  /\ context' = ContextOf(Len(log), Len(log) + 1)
  /\ pc' = "model"
  /\ response' = "none"
  /\ UNCHANGED pending

\* _enforce_security_policy answers before anything is written.
HandleUserBlocked ==
  /\ BeginRequest("user", "direct", NoCall)
  /\ pending.kind = "none"
  /\ response' = "security_blocked"
  /\ UNCHANGED <<log, pc, context, pending>>

\* The user approves: the pending call goes through the policy outside the
\* loop with the confirmation gate lifted, and nothing is appended for it.
HandleConfirmationApproved ==
  /\ BeginRequest("approved", "direct", pending.call)
  /\ pending.kind = "confirm"
  /\ pending' = NoPending
  /\ context' = 1..Len(log)
  /\ pc' = "policy"
  /\ response' = "none"
  /\ UNCHANGED log

\* Anything but an approval denies the pending call, which is forgotten.
HandleConfirmationDenied ==
  /\ BeginRequest("none", "direct", NoCall)
  /\ pending.kind = "confirm"
  /\ pending' = NoPending
  /\ response' = "confirmation_denied"
  /\ UNCHANGED <<log, pc, context>>

\* The device answers: a tool message with the announced id is appended and
\* the loop runs with the confirmation gate lifted.
HandleDeviceResult ==
  /\ BeginRequest("device", "loop", NoCall)
  /\ pending.kind = "device"
  /\ pending' = NoPending
  /\ log' = Append(log, [role |-> "tool", id |-> pending.id])
  /\ context' = ContextOf(Len(log), Len(log) + 1)
  /\ pc' = "model"
  /\ response' = "none"

\* A wrong id or any other kind of input: the pending request is already
\* popped and is forgotten.
HandleDeviceRejected ==
  /\ BeginRequest("none", "direct", NoCall)
  /\ pending.kind = "device"
  /\ pending' = NoPending
  /\ response' = "device_result_invalid"
  /\ UNCHANGED <<log, pc, context>>

-----------------------------------------------------------------------------
(* The loop                                                                 *)

NextIteration == pc = "model" /\ loops < MaxLoops

ModelText ==
  /\ NextIteration
  /\ log' = Append(log, [role |-> "assistant", id |-> 0])
  /\ Respond("ok", NoCall, 0)
  /\ UNCHANGED executed

ModelUnsupported ==
  /\ NextIteration
  /\ Respond("unsupported_output_kind", NoCall, 0)
  /\ UNCHANGED <<log, executed>>

\* kind == "tool_call" with no tool call: counted against the budget.
ModelMissingCall ==
  /\ NextIteration
  /\ Respond(IF toolCalls + 1 > MaxToolCalls
             THEN "max_tool_calls" ELSE "tool_call_missing", NoCall, 0)
  /\ UNCHANGED <<log, executed>>

\* Mutation: the fingerprint covers the call id, so no two calls are alike.
CallIdInFingerprint(c) == 1

\* Fingerprint of this call against the previous iteration's.
Streak(c) == IF c = lastFp THEN streak + 1 ELSE 1

ModelRepeatedCall(c) ==
  /\ NextIteration
  /\ Streak(c) >= 2
  /\ Respond("repeated_tool_call", NoCall, 0)
  /\ UNCHANGED <<log, executed>>

ModelToolCall(c) ==
  /\ NextIteration
  /\ Streak(c) < 2
  /\ loops' = loops + 1
  /\ lastFp' = c
  /\ streak' = Streak(c)
  /\ toolCalls' = toolCalls + 1
  /\ call' = c
  /\ pc' = "policy"
  /\ UNCHANGED <<maxLoops, log, entry, snap, context, stage, executed,
                 response, pending, turns>>

\* model.run raises: the exception leaves handle.
ModelRaises ==
  /\ "model" \in Failures
  /\ NextIteration
  /\ Respond("raised", NoCall, 0)
  /\ UNCHANGED <<log, executed>>

\* Mutation: the range of the for loop and its exit disagree by one.
OneLoopMore ==
  /\ pc = "model"
  /\ loops > MaxLoops
  /\ Respond("max_loops", NoCall, 0)
  /\ UNCHANGED <<log, executed>>

LoopsExhausted ==
  /\ pc = "model"
  /\ loops >= MaxLoops
  /\ Respond("max_loops", NoCall, 0)
  /\ UNCHANGED <<log, executed>>

-----------------------------------------------------------------------------
(* One tool call                                                            *)

PolicyRefuses ==
  /\ pc = "policy"
  /\ ~PolicyAllows
  /\ Respond(StepReason(PolicyReason), call, 0)
  /\ UNCHANGED <<log, executed>>

\* assistant(tool_calls) is appended, then the handler is entered.
StartTool ==
  /\ pc = "policy"
  /\ PolicyAllows
  /\ call.name \notin DeviceTools
  /\ log' = Append(log, [role |-> "calls", id |-> Len(log) + 1])
  /\ executed' = Append(executed, call)
  /\ pc' = "tool"
  /\ UNCHANGED <<maxLoops, request, response, pending, turns>>

\* The handler returned: the tool message is appended and, within budget, the
\* loop goes on with a context rebuilt from the snapshot and this result.
FinishTool ==
  /\ pc = "tool"
  /\ log' = Append(log, [role |-> "tool", id |-> Len(log)])
  /\ UNCHANGED executed
  /\ \/ /\ OverBudget
        /\ Respond("max_tool_calls", NoCall, 0)
     \/ /\ ~OverBudget
        /\ stage' = "loop"
        /\ context' = ContextOf(snap, Len(log) + 1)
        /\ pc' = "model"
        /\ UNCHANGED <<maxLoops, entry, snap, call, loops, toolCalls, lastFp,
                       streak, response, pending, turns>>

\* tools.execute has no try around it.
ToolRaises ==
  /\ "tool" \in Failures
  /\ pc = "tool"
  /\ Respond("raised", NoCall, 0)
  /\ UNCHANGED <<log, executed>>

\* A routed tool: assistant(tool_calls) first ...
StartDevice ==
  /\ pc = "policy"
  /\ PolicyAllows
  /\ call.name \in DeviceTools
  /\ log' = Append(log, [role |-> "calls", id |-> Len(log) + 1])
  /\ pc' = "device"
  /\ UNCHANGED <<maxLoops, request, executed, response, pending, turns>>

\* Mutation: the request is not written as a tool message.
RequestNotLogged ==
  /\ pc = "device"
  /\ Respond(StepReason("device_request"), call, Len(log))
  /\ UNCHANGED <<log, executed>>

\* ... then a tool message carrying the request, and the response.
FinishDevice ==
  /\ pc = "device"
  /\ log' = Append(log, [role |-> "tool", id |-> Len(log)])
  /\ Respond(StepReason("device_request"), call, Len(log))
  /\ UNCHANGED executed

-----------------------------------------------------------------------------
\* The process dies: the rows stay, the request and the port's in-memory
\* pending state are gone.
Crash ==
  /\ "crash" \in Failures
  /\ pc # "idle" \/ pending # NoPending
  /\ pc' = "idle"
  /\ response' = "raised"
  /\ pending' = NoPending
  /\ UNCHANGED <<maxLoops, log, request, executed, turns>>

Init ==
  /\ maxLoops \in SessionLimits
  /\ log = <<>>
  /\ pc = "idle"
  /\ entry = "none" /\ snap = 0 /\ call = NoCall /\ context = {}
  /\ stage = "direct" /\ loops = 0 /\ toolCalls = 0
  /\ lastFp = NoCall /\ streak = 0
  /\ executed = <<>>
  /\ response = "none"
  /\ pending = NoPending
  /\ turns = 0

Entry ==
  \/ HandleUserMessage \/ HandleUserBlocked
  \/ HandleConfirmationApproved \/ HandleConfirmationDenied
  \/ HandleDeviceResult \/ HandleDeviceRejected

LoopStep ==
  \/ ModelText \/ ModelUnsupported \/ ModelMissingCall \/ ModelRaises
  \/ \E c \in Call : ModelRepeatedCall(c) \/ ModelToolCall(c)
  \/ LoopsExhausted
  \/ PolicyRefuses \/ StartTool \/ FinishTool \/ ToolRaises
  \/ StartDevice \/ FinishDevice

Next == Entry \/ LoopStep \/ Crash

Spec == Init /\ [][Next]_vars

\* The loop is a plain for loop on its own thread: while the model and the
\* tool handlers return or raise, it takes its next step.
FairSpec == Spec /\ WF_vars(LoopStep)

-----------------------------------------------------------------------------
(* Properties                                                               *)

\* Every variable keeps its type (the shapes the code's dataclasses declare).
TypeOK ==
  /\ maxLoops \in Nat
  /\ log \in Seq(Message)
  /\ pc \in {"idle", "model", "policy", "tool", "device"}
  /\ entry \in Entries
  /\ snap \in Nat
  /\ call \in Call \cup {NoCall}
  /\ context \in SUBSET Nat
  /\ stage \in {"direct", "loop"}
  /\ loops \in Nat
  /\ toolCalls \in Nat
  /\ lastFp \in Call \cup {NoCall}
  /\ streak \in Nat
  /\ executed \in Seq(Call)
  /\ response \in Reasons
  /\ pending \in Pending
  /\ turns \in Nat

\* _run_loop enters the handler before it looks at the budget decision, so a
\* run may execute one call more than max_tool_calls_per_run, and a request
\* that starts from an approval one more again - never more than that.
BudgetOvershoot ==
  Len(executed) <= MaxToolCalls + 1 + (IF entry = "approved" THEN 1 ELSE 0)

\* In a request that starts from a user message neither a tool that needs
\* confirmation is run, nor is its device request handed to the port.
ConfirmationGate ==
  /\ entry = "user" =>
       \A i \in 1..Len(executed) :
          executed[i].name \notin ConfirmRequired \cup RiskForced
  /\ pending.kind = "device" =>
       pending.call.name \notin ConfirmRequired \cup RiskForced

\* README.md says the tools of tool_confirmation_required need a human
\* confirmation: whatever is run without being in the approved position of
\* its request is not one of them.
OnlyConfirmedToolsRun ==
  \A i \in 1..Len(executed) :
     executed[i].name \in ConfirmRequired => entry = "approved" /\ i = 1

\* The call the user is asked about is one the policy will let through once
\* the confirmation gate is lifted: a refused tool is never offered.
PendingIsRunnable ==
  pending.kind = "confirm" =>
    /\ pending.call.name \in Allowlist
    /\ ~MemoryDenied(pending.call)
    /\ pending.call.name \in ConfirmRequired \cup RiskForced

\* Inside the loop no call is executed twice in a row; only the call that an
\* approval runs before the loop escapes the fingerprint comparison.
NoRepeatInLoop ==
  \A i \in 1..(Len(executed) - 1) :
     executed[i] = executed[i + 1] => entry = "approved" /\ i = 1

\* Every tool message of the session answers an assistant message that is
\* before it in the log, across requests, device round trips and crashes
\* (an OpenAI-compatible endpoint refuses an orphan tool message).
ToolMessagesPaired ==
  \A k \in 1..Len(log) :
     log[k].role = "tool" =>
       /\ log[k].id \in 1..(k - 1)
       /\ log[log[k].id] = [role |-> "calls", id |-> log[k].id]

\* A request that was answered, and not cut short by an exception or a crash,
\* leaves none of its assistant(tool_calls) messages without a tool message:
\* the early returns of the budget and of the device path included.
CallsAnswered ==
  (pc = "idle" /\ response # "raised") =>
    \A k \in (snap + 1)..Len(log) :
       log[k].role = "calls" =>
         \E j \in (k + 1)..Len(log) : log[j] = [role |-> "tool", id |-> k]

\* Every request is answered while the model and the tools return or raise.
EveryRequestAnswered == pc # "idle" ~> pc = "idle"
=============================================================================
