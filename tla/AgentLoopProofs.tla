--------------------------- MODULE AgentLoopProofs ---------------------------
(***************************************************************************)
(* What AgentLoop promises for every tool set, policy and limit.  The      *)
(* invariants are made inductive by saying, for each place the request can *)
(* be in, how the calls executed so far relate to the loop's counters.     *)
(***************************************************************************)
EXTENDS AgentLoop, TLAPS

Base == IF entry = "approved" THEN 1 ELSE 0

\* What holds of the locals while a request is being handled.
BusyInv ==
  /\ pc # "idle" => /\ pending.kind = "none"
                    /\ entry # "none"
  /\ pc \in {"policy", "tool", "device"} => call \in Call
  /\ pending.kind # "none" => pending.call \in Call
  /\ pc = "model" => stage = "loop"
  /\ (pc # "idle" /\ stage = "direct") =>
        /\ entry = "approved"
        /\ toolCalls = 0
        /\ lastFp = NoCall

\* Each iteration that lets the loop continue executed exactly one call.
BudgetInv ==
  /\ BudgetOvershoot
  /\ pc = "model" =>
       /\ Len(executed) = Base + toolCalls
       /\ toolCalls <= MaxToolCalls
  /\ (pc = "policy" /\ stage = "loop") =>
       /\ Len(executed) + 1 = Base + toolCalls
       /\ toolCalls <= MaxToolCalls + 1
  /\ (pc = "policy" /\ stage = "direct") => executed = <<>>
  /\ (pc = "tool" /\ stage = "loop") =>
       /\ Len(executed) = Base + toolCalls
       /\ toolCalls <= MaxToolCalls + 1
  /\ (pc = "tool" /\ stage = "direct") => Len(executed) = 1

\* The fingerprint kept by the loop is the last call the loop executed.
RepeatInv ==
  /\ NoRepeatInLoop
  /\ lastFp # NoCall => streak >= 1
  /\ pc = "model" =>
       (Len(executed) > Base => lastFp = executed[Len(executed)])
  /\ (pc = "policy" /\ stage = "loop") =>
       /\ lastFp = call
       /\ Len(executed) > Base => executed[Len(executed)] # call
  /\ (pc = "tool" /\ stage = "loop") =>
       lastFp = executed[Len(executed)]

GateInv ==
  /\ ConfirmationGate
  /\ PendingIsRunnable
  /\ (pc = "device" /\ ~Bypass) =>
       call.name \notin ConfirmRequired \cup RiskForced

PairInv ==
  /\ ToolMessagesPaired
  /\ pc \in {"tool", "device"} =>
       /\ Len(log) > 0
       /\ log[Len(log)] = [role |-> "calls", id |-> Len(log)]
  /\ pending.kind = "device" =>
       /\ pending.id \in 1..Len(log)
       /\ log[pending.id] = [role |-> "calls", id |-> pending.id]

\* A call of this request is answered, half done, or was given up by a raise.
CallsInv ==
  \A k \in (snap + 1)..Len(log) :
    log[k].role = "calls" =>
      \/ \E j \in (k + 1)..Len(log) : log[j] = [role |-> "tool", id |-> k]
      \/ pc \in {"tool", "device"} /\ k = Len(log)
      \/ pc = "idle" /\ response = "raised"

IInv ==
  /\ TypeOK /\ BusyInv /\ BudgetInv /\ RepeatInv /\ GateInv /\ PairInv
  /\ CallsInv
-----------------------------------------------------------------------------
(* Proofs                                                                   *)

\* The inductive invariant holds initially.
LEMMA InitInv == Init => IInv
<1> SUFFICES ASSUME Init PROVE IInv
  OBVIOUS
<1> USE LimitsAssumption DEF Init
<1>1. TypeOK
  BY DEF TypeOK, Entries, NoPending, Pending, Reasons
<1>2. BusyInv
  BY DEF BusyInv, NoPending
<1>3. BudgetInv
  BY DEF BudgetInv, BudgetOvershoot, Base
<1>4. RepeatInv
  BY DEF RepeatInv, NoRepeatInLoop, Base
<1>5. GateInv
  BY DEF GateInv, ConfirmationGate, PendingIsRunnable, NoPending
<1>6. PairInv
  BY DEF PairInv, ToolMessagesPaired, NoPending
<1>7. CallsInv
  BY DEF CallsInv
<1>8. QED
  BY <1>1, <1>2, <1>3, <1>4, <1>5, <1>6, <1>7 DEF IInv

\* Types, given that a call is being handled where the code has one.
LEMMA TypeStep == TypeOK /\ BusyInv /\ [Next]_vars => TypeOK'
<1> SUFFICES ASSUME TypeOK, BusyInv, [Next]_vars PROVE TypeOK'
  OBVIOUS
<1> USE LimitsAssumption, ToolsAssumption DEF TypeOK, BusyInv
<1>1. CASE HandleUserMessage
  BY <1>1 DEF HandleUserMessage, BeginRequest, ContextOf, request, counters,
        Entries, Message, Roles, Pending, Reasons
<1>2. CASE HandleUserBlocked
  BY <1>2 DEF HandleUserBlocked, BeginRequest, request, counters, Entries,
        Message, Roles, Pending, Reasons
<1>3. CASE HandleConfirmationApproved
  BY <1>3 DEF HandleConfirmationApproved, BeginRequest, NoPending, request,
        counters, Entries, Message, Roles, Pending, Reasons
<1>4. CASE HandleConfirmationDenied
  BY <1>4 DEF HandleConfirmationDenied, BeginRequest, NoPending, request,
        counters, Entries, Message, Roles, Pending, Reasons
<1>5. CASE HandleDeviceResult
  BY <1>5 DEF HandleDeviceResult, BeginRequest, NoPending, ContextOf,
        request, counters, Entries, Message, Roles, Pending, Reasons
<1>6. CASE HandleDeviceRejected
  BY <1>6 DEF HandleDeviceRejected, BeginRequest, NoPending, request,
        counters, Entries, Message, Roles, Pending, Reasons
<1>7. CASE ModelText
  BY <1>7 DEF ModelText, NextIteration, Respond, PortPending, NoPending,
        request, counters, Entries, Message, Roles, Pending, Reasons
<1>8. CASE ModelUnsupported
  BY <1>8 DEF ModelUnsupported, NextIteration, Respond, PortPending,
        NoPending, request, counters, Entries, Message, Roles, Pending,
        Reasons
<1>9. CASE ModelMissingCall
  BY <1>9 DEF ModelMissingCall, NextIteration, Respond, PortPending,
        NoPending, request, counters, Entries, Message, Roles, Pending,
        Reasons
<1>10. CASE ModelRaises
  BY <1>10 DEF ModelRaises, NextIteration, Respond, PortPending, NoPending,
        request, counters, Entries, Message, Roles, Pending, Reasons
<1>11. ASSUME NEW c \in Call, ModelRepeatedCall(c) PROVE TypeOK'
  BY <1>11 DEF ModelRepeatedCall, NextIteration, Respond, PortPending,
        NoPending, request, counters, Entries, Message, Roles, Pending,
        Reasons
<1>12. ASSUME NEW c \in Call, ModelToolCall(c) PROVE TypeOK'
  BY <1>12 DEF ModelToolCall, NextIteration, Streak, request, counters,
        Entries, Message, Roles, Pending, Reasons
<1>13. CASE LoopsExhausted
  BY <1>13 DEF LoopsExhausted, Respond, PortPending, NoPending, request,
        counters, Entries, Message, Roles, Pending, Reasons
<1>14. CASE PolicyRefuses
  BY <1>14 DEF PolicyRefuses, Respond, PortPending, NoPending, StepReason,
        PolicyReason, request, counters, Entries, Message, Roles, Pending,
        Reasons
<1>15. CASE StartTool
  BY <1>15 DEF StartTool, request, counters, Entries, Message, Roles,
        Pending, Reasons
<1>16. CASE FinishTool
  <2> USE <1>16 DEF FinishTool, Message, Roles, Pending, Reasons, Entries
  <2>1. CASE OverBudget /\ Respond("max_tool_calls", NoCall, 0)
    BY <2>1 DEF Respond, PortPending, NoPending, request, counters
  <2>2. CASE ~OverBudget /\ stage' = "loop"
             /\ UNCHANGED <<entry, snap, call, loops, toolCalls, lastFp, streak,
                            response, pending, turns>>
             /\ context' = ContextOf(snap, Len(log) + 1) /\ pc' = "model"
    BY <2>2 DEF ContextOf, OverBudget
  <2>3. QED
    BY <2>1, <2>2
<1>17. CASE ToolRaises
  BY <1>17 DEF ToolRaises, Respond, PortPending, NoPending, request,
        counters, Entries, Message, Roles, Pending, Reasons
<1>18. CASE StartDevice
  BY <1>18 DEF StartDevice, request, counters, Entries, Message, Roles,
        Pending, Reasons
<1>19. CASE FinishDevice
  BY <1>19 DEF FinishDevice, Respond, PortPending, NoPending, StepReason,
        request, counters, Entries, Message, Roles, Pending, Reasons
<1>20. CASE Crash
  BY <1>20 DEF Crash, NoPending, request, counters, Entries, Message, Roles,
        Pending, Reasons
<1>21. CASE UNCHANGED vars
  BY <1>21 DEF vars, request, counters, Entries, Message, Roles, Pending,
        Reasons
<1>22. QED
  BY <1>1, <1>2, <1>3, <1>4, <1>5, <1>6, <1>7, <1>8, <1>9, <1>10, <1>11,
        <1>12, <1>13, <1>14, <1>15, <1>16, <1>17, <1>18, <1>19, <1>20, <1>21
        DEF Next, Entry, LoopStep

\* The locals of a request.
LEMMA BusyStep == TypeOK /\ BusyInv /\ [Next]_vars => BusyInv'
<1> SUFFICES ASSUME TypeOK, BusyInv, [Next]_vars PROVE BusyInv'
  OBVIOUS
<1> USE LimitsAssumption, ToolsAssumption DEF TypeOK, BusyInv
<1>1. CASE HandleUserMessage
  BY <1>1 DEF HandleUserMessage, BeginRequest, ContextOf, request, counters,
        Pending, Entries
<1>2. CASE HandleUserBlocked
  BY <1>2 DEF HandleUserBlocked, BeginRequest, request, counters, Pending,
        Entries
<1>3. CASE HandleConfirmationApproved
  BY <1>3 DEF HandleConfirmationApproved, BeginRequest, NoPending, request,
        counters, Pending, Entries
<1>4. CASE HandleConfirmationDenied
  BY <1>4 DEF HandleConfirmationDenied, BeginRequest, NoPending, request,
        counters, Pending, Entries
<1>5. CASE HandleDeviceResult
  BY <1>5 DEF HandleDeviceResult, BeginRequest, NoPending, ContextOf,
        request, counters, Pending, Entries
<1>6. CASE HandleDeviceRejected
  BY <1>6 DEF HandleDeviceRejected, BeginRequest, NoPending, request,
        counters, Pending, Entries
<1>7. CASE ModelText
  BY <1>7 DEF ModelText, NextIteration, Respond, PortPending, NoPending,
        request, counters, Pending, Entries
<1>8. CASE ModelUnsupported
  BY <1>8 DEF ModelUnsupported, NextIteration, Respond, PortPending,
        NoPending, request, counters, Pending, Entries
<1>9. CASE ModelMissingCall
  BY <1>9 DEF ModelMissingCall, NextIteration, Respond, PortPending,
        NoPending, request, counters, Pending, Entries
<1>10. CASE ModelRaises
  BY <1>10 DEF ModelRaises, NextIteration, Respond, PortPending, NoPending,
        request, counters, Pending, Entries
<1>11. ASSUME NEW c \in Call, ModelRepeatedCall(c) PROVE BusyInv'
  BY <1>11 DEF ModelRepeatedCall, NextIteration, Respond, PortPending,
        NoPending, request, counters, Pending, Entries
<1>12. ASSUME NEW c \in Call, ModelToolCall(c) PROVE BusyInv'
  BY <1>12 DEF ModelToolCall, NextIteration, Streak, request, counters,
        Pending, Entries
<1>13. CASE LoopsExhausted
  BY <1>13 DEF LoopsExhausted, Respond, PortPending, NoPending, request,
        counters, Pending, Entries
<1>14. CASE PolicyRefuses
  BY <1>14 DEF PolicyRefuses, Respond, PortPending, NoPending, StepReason,
        PolicyReason, request, counters, Pending, Entries
<1>15. CASE StartTool
  BY <1>15 DEF StartTool, request, counters, Pending, Entries
<1>16. CASE FinishTool
  BY <1>16 DEF FinishTool, Respond, PortPending, NoPending, ContextOf,
        request, counters, Pending, Entries
<1>17. CASE ToolRaises
  BY <1>17 DEF ToolRaises, Respond, PortPending, NoPending, request,
        counters, Pending, Entries
<1>18. CASE StartDevice
  BY <1>18 DEF StartDevice, request, counters, Pending, Entries
<1>19. CASE FinishDevice
  BY <1>19 DEF FinishDevice, Respond, PortPending, NoPending, StepReason,
        request, counters, Pending, Entries
<1>20. CASE Crash
  BY <1>20 DEF Crash, NoPending, request, counters, Pending, Entries
<1>21. CASE UNCHANGED vars
  BY <1>21 DEF vars, request, counters, Pending, Entries
<1>22. QED
  BY <1>1, <1>2, <1>3, <1>4, <1>5, <1>6, <1>7, <1>8, <1>9, <1>10, <1>11,
        <1>12, <1>13, <1>14, <1>15, <1>16, <1>17, <1>18, <1>19, <1>20, <1>21
        DEF Next, Entry, LoopStep

\* The budget: counters and executed calls move together.
LEMMA BudgetStep == TypeOK /\ BusyInv /\ BudgetInv /\ [Next]_vars => BudgetInv'
<1> SUFFICES ASSUME TypeOK, BusyInv, BudgetInv, [Next]_vars PROVE BudgetInv'
  OBVIOUS
<1> USE LimitsAssumption, ToolsAssumption
        DEF TypeOK, BusyInv, BudgetInv, Base, BudgetOvershoot, OverBudget
<1>1. CASE HandleUserMessage
  BY <1>1 DEF HandleUserMessage, BeginRequest, ContextOf, request, counters
<1>2. CASE HandleUserBlocked
  BY <1>2 DEF HandleUserBlocked, BeginRequest, request, counters
<1>3. CASE HandleConfirmationApproved
  BY <1>3 DEF HandleConfirmationApproved, BeginRequest, NoPending, request,
        counters
<1>4. CASE HandleConfirmationDenied
  BY <1>4 DEF HandleConfirmationDenied, BeginRequest, NoPending, request,
        counters
<1>5. CASE HandleDeviceResult
  BY <1>5 DEF HandleDeviceResult, BeginRequest, NoPending, ContextOf,
        request, counters
<1>6. CASE HandleDeviceRejected
  BY <1>6 DEF HandleDeviceRejected, BeginRequest, NoPending, request,
        counters
<1>7. CASE ModelText
  BY <1>7 DEF ModelText, NextIteration, Respond, PortPending, NoPending,
        request, counters
<1>8. CASE ModelUnsupported
  BY <1>8 DEF ModelUnsupported, NextIteration, Respond, PortPending,
        NoPending, request, counters
<1>9. CASE ModelMissingCall
  BY <1>9 DEF ModelMissingCall, NextIteration, Respond, PortPending,
        NoPending, request, counters
<1>10. CASE ModelRaises
  BY <1>10 DEF ModelRaises, NextIteration, Respond, PortPending, NoPending,
        request, counters
<1>11. ASSUME NEW c \in Call, ModelRepeatedCall(c) PROVE BudgetInv'
  BY <1>11 DEF ModelRepeatedCall, NextIteration, Respond, PortPending,
        NoPending, request, counters
<1>12. ASSUME NEW c \in Call, ModelToolCall(c) PROVE BudgetInv'
  BY <1>12 DEF ModelToolCall, NextIteration, Streak, request, counters
<1>13. CASE LoopsExhausted
  BY <1>13 DEF LoopsExhausted, Respond, PortPending, NoPending, request,
        counters
<1>14. CASE PolicyRefuses
  BY <1>14 DEF PolicyRefuses, Respond, PortPending, NoPending, StepReason,
        PolicyReason, request, counters
<1>15. CASE StartTool
  BY <1>15 DEF StartTool, request, counters
<1>16. CASE FinishTool
  <2> USE <1>16 DEF FinishTool, Base
  <2>1. CASE OverBudget /\ Respond("max_tool_calls", NoCall, 0)
    BY <2>1 DEF Respond, PortPending, NoPending, request, counters
  <2>2. CASE ~OverBudget /\ stage' = "loop"
             /\ UNCHANGED <<entry, snap, call, loops, toolCalls, lastFp, streak,
                            response, pending, turns>>
             /\ context' = ContextOf(snap, Len(log) + 1) /\ pc' = "model"
    <3>1. CASE stage = "loop"
      BY <2>2, <3>1
    <3>2. CASE stage = "direct"
      BY <2>2, <3>2
    <3>3. QED
      BY <3>1, <3>2
  <2>3. QED
    BY <2>1, <2>2
<1>17. CASE ToolRaises
  BY <1>17 DEF ToolRaises, Respond, PortPending, NoPending, request,
        counters
<1>18. CASE StartDevice
  BY <1>18 DEF StartDevice, request, counters
<1>19. CASE FinishDevice
  BY <1>19 DEF FinishDevice, Respond, PortPending, NoPending, StepReason,
        request, counters
<1>20. CASE Crash
  BY <1>20 DEF Crash, NoPending, request, counters
<1>21. CASE UNCHANGED vars
  BY <1>21 DEF vars, request, counters
<1>22. QED
  BY <1>1, <1>2, <1>3, <1>4, <1>5, <1>6, <1>7, <1>8, <1>9, <1>10, <1>11,
        <1>12, <1>13, <1>14, <1>15, <1>16, <1>17, <1>18, <1>19, <1>20, <1>21
        DEF Next, Entry, LoopStep

\* The fingerprint: it is compared with the last call executed.
LEMMA RepeatStep ==
  TypeOK /\ BusyInv /\ BudgetInv /\ RepeatInv /\ [Next]_vars => RepeatInv'
<1> SUFFICES ASSUME TypeOK, BusyInv, BudgetInv, RepeatInv, [Next]_vars
             PROVE  RepeatInv'
  OBVIOUS
<1> USE LimitsAssumption, ToolsAssumption
        DEF TypeOK, BusyInv, BudgetInv, RepeatInv, Base, NoRepeatInLoop
<1>1. CASE HandleUserMessage
  BY <1>1 DEF HandleUserMessage, BeginRequest, ContextOf, request, counters,
        OverBudget
<1>2. CASE HandleUserBlocked
  BY <1>2 DEF HandleUserBlocked, BeginRequest, request, counters, OverBudget
<1>3. CASE HandleConfirmationApproved
  BY <1>3 DEF HandleConfirmationApproved, BeginRequest, NoPending, request,
        counters, OverBudget
<1>4. CASE HandleConfirmationDenied
  BY <1>4 DEF HandleConfirmationDenied, BeginRequest, NoPending, request,
        counters, OverBudget
<1>5. CASE HandleDeviceResult
  BY <1>5 DEF HandleDeviceResult, BeginRequest, NoPending, ContextOf,
        request, counters, OverBudget
<1>6. CASE HandleDeviceRejected
  BY <1>6 DEF HandleDeviceRejected, BeginRequest, NoPending, request,
        counters, OverBudget
<1>7. CASE ModelText
  BY <1>7 DEF ModelText, NextIteration, Respond, PortPending, NoPending,
        request, counters, OverBudget
<1>8. CASE ModelUnsupported
  BY <1>8 DEF ModelUnsupported, NextIteration, Respond, PortPending,
        NoPending, request, counters, OverBudget
<1>9. CASE ModelMissingCall
  BY <1>9 DEF ModelMissingCall, NextIteration, Respond, PortPending,
        NoPending, request, counters, OverBudget
<1>10. CASE ModelRaises
  BY <1>10 DEF ModelRaises, NextIteration, Respond, PortPending, NoPending,
        request, counters, OverBudget
<1>11. ASSUME NEW c \in Call, ModelRepeatedCall(c) PROVE RepeatInv'
  BY <1>11 DEF ModelRepeatedCall, NextIteration, Respond, PortPending,
        NoPending, request, counters, OverBudget
<1>12. ASSUME NEW c \in Call, ModelToolCall(c) PROVE RepeatInv'
  <2> USE <1>12 DEF ModelToolCall, NextIteration, Streak
  <2>1. c # lastFp
    <3>1. CASE lastFp = NoCall
      BY <3>1 DEF Call
    <3>2. CASE lastFp # NoCall
      BY <3>2
    <3>3. QED
      BY <3>1, <3>2
  <2>2. NoRepeatInLoop'
    OBVIOUS
  <2>3. lastFp' = call' /\ streak' >= 1 /\ pc' = "policy" /\ stage' = "loop"
    OBVIOUS
  <2>4. (Len(executed) > Base => executed[Len(executed)] # call)'
    BY <2>1
  <2>5. QED
    BY <2>2, <2>3, <2>4
<1>13. CASE LoopsExhausted
  BY <1>13 DEF LoopsExhausted, Respond, PortPending, NoPending, request,
        counters, OverBudget
<1>14. CASE PolicyRefuses
  BY <1>14 DEF PolicyRefuses, Respond, PortPending, NoPending, StepReason,
        PolicyReason, request, counters, OverBudget
<1>15. CASE StartTool
  BY <1>15 DEF StartTool, request, counters, OverBudget
<1>16. CASE FinishTool
  BY <1>16 DEF FinishTool, Respond, PortPending, NoPending, ContextOf,
        request, counters, OverBudget
<1>17. CASE ToolRaises
  BY <1>17 DEF ToolRaises, Respond, PortPending, NoPending, request,
        counters, OverBudget
<1>18. CASE StartDevice
  BY <1>18 DEF StartDevice, request, counters, OverBudget
<1>19. CASE FinishDevice
  BY <1>19 DEF FinishDevice, Respond, PortPending, NoPending, StepReason,
        request, counters, OverBudget
<1>20. CASE Crash
  BY <1>20 DEF Crash, NoPending, request, counters, OverBudget
<1>21. CASE UNCHANGED vars
  BY <1>21 DEF vars, request, counters, OverBudget
<1>22. QED
  BY <1>1, <1>2, <1>3, <1>4, <1>5, <1>6, <1>7, <1>8, <1>9, <1>10, <1>11,
        <1>12, <1>13, <1>14, <1>15, <1>16, <1>17, <1>18, <1>19, <1>20, <1>21
        DEF Next, Entry, LoopStep

\* The confirmation gate.
LEMMA GateStep == TypeOK /\ BusyInv /\ GateInv /\ [Next]_vars => GateInv'
<1> SUFFICES ASSUME TypeOK, BusyInv, GateInv, [Next]_vars PROVE GateInv'
  OBVIOUS
<1> USE LimitsAssumption, ToolsAssumption
        DEF TypeOK, BusyInv, GateInv, ConfirmationGate, PendingIsRunnable
<1>1. CASE HandleUserMessage
  BY <1>1 DEF HandleUserMessage, BeginRequest, ContextOf, request, counters,
        Bypass, PolicyAllows, NeedsConfirmation
<1>2. CASE HandleUserBlocked
  BY <1>2 DEF HandleUserBlocked, BeginRequest, request, counters, Bypass,
        PolicyAllows, NeedsConfirmation
<1>3. CASE HandleConfirmationApproved
  BY <1>3 DEF HandleConfirmationApproved, BeginRequest, NoPending, request,
        counters, Bypass, PolicyAllows, NeedsConfirmation
<1>4. CASE HandleConfirmationDenied
  BY <1>4 DEF HandleConfirmationDenied, BeginRequest, NoPending, request,
        counters, Bypass, PolicyAllows, NeedsConfirmation
<1>5. CASE HandleDeviceResult
  BY <1>5 DEF HandleDeviceResult, BeginRequest, NoPending, ContextOf,
        request, counters, Bypass, PolicyAllows, NeedsConfirmation
<1>6. CASE HandleDeviceRejected
  BY <1>6 DEF HandleDeviceRejected, BeginRequest, NoPending, request,
        counters, Bypass, PolicyAllows, NeedsConfirmation
<1>7. CASE ModelText
  BY <1>7 DEF ModelText, NextIteration, Respond, PortPending, NoPending,
        request, counters, Bypass, PolicyAllows, NeedsConfirmation
<1>8. CASE ModelUnsupported
  BY <1>8 DEF ModelUnsupported, NextIteration, Respond, PortPending,
        NoPending, request, counters, Bypass, PolicyAllows,
        NeedsConfirmation
<1>9. CASE ModelMissingCall
  BY <1>9 DEF ModelMissingCall, NextIteration, Respond, PortPending,
        NoPending, request, counters, Bypass, PolicyAllows,
        NeedsConfirmation
<1>10. CASE ModelRaises
  BY <1>10 DEF ModelRaises, NextIteration, Respond, PortPending, NoPending,
        request, counters, Bypass, PolicyAllows, NeedsConfirmation
<1>11. ASSUME NEW c \in Call, ModelRepeatedCall(c) PROVE GateInv'
  BY <1>11 DEF ModelRepeatedCall, NextIteration, Respond, PortPending,
        NoPending, request, counters, Bypass, PolicyAllows,
        NeedsConfirmation
<1>12. ASSUME NEW c \in Call, ModelToolCall(c) PROVE GateInv'
  BY <1>12 DEF ModelToolCall, NextIteration, Streak, request, counters,
        Bypass, PolicyAllows, NeedsConfirmation
<1>13. CASE LoopsExhausted
  BY <1>13 DEF LoopsExhausted, Respond, PortPending, NoPending, request,
        counters, Bypass, PolicyAllows, NeedsConfirmation
<1>14. CASE PolicyRefuses
  BY <1>14 DEF PolicyRefuses, Respond, PortPending, NoPending, StepReason,
        PolicyReason, request, counters, Bypass, PolicyAllows,
        NeedsConfirmation
<1>15. CASE StartTool
  BY <1>15 DEF StartTool, request, counters, Bypass, PolicyAllows,
        NeedsConfirmation
<1>16. CASE FinishTool
  BY <1>16 DEF FinishTool, Respond, PortPending, NoPending, ContextOf,
        request, counters, Bypass, PolicyAllows, NeedsConfirmation
<1>17. CASE ToolRaises
  BY <1>17 DEF ToolRaises, Respond, PortPending, NoPending, request,
        counters, Bypass, PolicyAllows, NeedsConfirmation
<1>18. CASE StartDevice
  BY <1>18 DEF StartDevice, request, counters, Bypass, PolicyAllows,
        NeedsConfirmation
<1>19. CASE FinishDevice
  BY <1>19 DEF FinishDevice, Respond, PortPending, NoPending, StepReason,
        request, counters, Bypass, PolicyAllows, NeedsConfirmation
<1>20. CASE Crash
  BY <1>20 DEF Crash, NoPending, request, counters, Bypass, PolicyAllows,
        NeedsConfirmation
<1>21. CASE UNCHANGED vars
  BY <1>21 DEF vars, request, counters, Bypass, PolicyAllows,
        NeedsConfirmation
<1>22. QED
  BY <1>1, <1>2, <1>3, <1>4, <1>5, <1>6, <1>7, <1>8, <1>9, <1>10, <1>11,
        <1>12, <1>13, <1>14, <1>15, <1>16, <1>17, <1>18, <1>19, <1>20, <1>21
        DEF Next, Entry, LoopStep

\* Tool messages.
LEMMA PairStep == TypeOK /\ BusyInv /\ PairInv /\ [Next]_vars => PairInv'
<1> SUFFICES ASSUME TypeOK, BusyInv, PairInv, [Next]_vars PROVE PairInv'
  OBVIOUS
<1> USE LimitsAssumption, ToolsAssumption
        DEF TypeOK, BusyInv, PairInv, ToolMessagesPaired, Message
<1>1. CASE HandleUserMessage
  BY <1>1 DEF HandleUserMessage, BeginRequest, ContextOf, request, counters
<1>2. CASE HandleUserBlocked
  BY <1>2 DEF HandleUserBlocked, BeginRequest, request, counters
<1>3. CASE HandleConfirmationApproved
  BY <1>3 DEF HandleConfirmationApproved, BeginRequest, NoPending, request,
        counters
<1>4. CASE HandleConfirmationDenied
  BY <1>4 DEF HandleConfirmationDenied, BeginRequest, NoPending, request,
        counters
<1>5. CASE HandleDeviceResult
  BY <1>5 DEF HandleDeviceResult, BeginRequest, NoPending, ContextOf,
        request, counters
<1>6. CASE HandleDeviceRejected
  BY <1>6 DEF HandleDeviceRejected, BeginRequest, NoPending, request,
        counters
<1>7. CASE ModelText
  BY SMTT(60), <1>7 DEF ModelText, NextIteration, Respond, PortPending, NoPending,
        request, counters
<1>8. CASE ModelUnsupported
  BY <1>8 DEF ModelUnsupported, NextIteration, Respond, PortPending,
        NoPending, request, counters
<1>9. CASE ModelMissingCall
  BY <1>9 DEF ModelMissingCall, NextIteration, Respond, PortPending,
        NoPending, request, counters
<1>10. CASE ModelRaises
  BY <1>10 DEF ModelRaises, NextIteration, Respond, PortPending, NoPending,
        request, counters
<1>11. ASSUME NEW c \in Call, ModelRepeatedCall(c) PROVE PairInv'
  BY <1>11 DEF ModelRepeatedCall, NextIteration, Respond, PortPending,
        NoPending, request, counters
<1>12. ASSUME NEW c \in Call, ModelToolCall(c) PROVE PairInv'
  BY <1>12 DEF ModelToolCall, NextIteration, Streak, request, counters
<1>13. CASE LoopsExhausted
  BY <1>13 DEF LoopsExhausted, Respond, PortPending, NoPending, request,
        counters
<1>14. CASE PolicyRefuses
  BY <1>14 DEF PolicyRefuses, Respond, PortPending, NoPending, StepReason,
        PolicyReason, request, counters
<1>15. CASE StartTool
  BY SMTT(60), <1>15 DEF StartTool, request, counters
<1>16. CASE FinishTool
  BY SMTT(60), <1>16 DEF FinishTool, Respond, PortPending, NoPending, ContextOf,
        request, counters
<1>17. CASE ToolRaises
  BY <1>17 DEF ToolRaises, Respond, PortPending, NoPending, request,
        counters
<1>18. CASE StartDevice
  BY <1>18 DEF StartDevice, request, counters
<1>19. CASE FinishDevice
  BY <1>19 DEF FinishDevice, Respond, PortPending, NoPending, StepReason,
        request, counters
<1>20. CASE Crash
  BY <1>20 DEF Crash, NoPending, request, counters
<1>21. CASE UNCHANGED vars
  BY <1>21 DEF vars, request, counters
<1>22. QED
  BY <1>1, <1>2, <1>3, <1>4, <1>5, <1>6, <1>7, <1>8, <1>9, <1>10, <1>11,
        <1>12, <1>13, <1>14, <1>15, <1>16, <1>17, <1>18, <1>19, <1>20, <1>21
        DEF Next, Entry, LoopStep

\* Calls and their answers: the log is kept, begun anew, or grows by one.
LEMMA CallsStep == TypeOK /\ BusyInv /\ CallsInv /\ [Next]_vars => CallsInv'
<1> SUFFICES ASSUME TypeOK, BusyInv, CallsInv, [Next]_vars PROVE CallsInv'
  OBVIOUS
<1>t. log \in Seq(Message) /\ Len(log) \in Nat /\ snap \in Nat
  BY DEF TypeOK
<1>a. ASSUME NEW m \in Message, log' = Append(log, m)
      PROVE  /\ Len(log') = Len(log) + 1 /\ log'[Len(log) + 1] = m
             /\ \A i \in 1..Len(log) : log'[i] = log[i]
  BY <1>t, <1>a
\* Nothing is appended, and no call is left half done but by an exception.
<1>1. ASSUME UNCHANGED <<log, snap>>,
             \/ pc' = "idle" /\ response' = "raised"
             \/ pc \notin {"idle", "tool", "device"}
             \/ UNCHANGED <<pc, response>>
      PROVE  CallsInv'
  BY <1>t, <1>1 DEF CallsInv
<1>2. ASSUME snap' = Len(log),
             \/ log' = log
             \/ \E m \in Message : log' = Append(log, m) /\ m.role # "calls"
      PROVE  CallsInv'
  <2>1. CASE log' = log
    <3>1. \A k \in (snap' + 1)..Len(log') : FALSE
      BY <1>t, <1>2, <2>1
    <3>2. QED
      BY <3>1 DEF CallsInv
  <2>2. ASSUME NEW m \in Message, log' = Append(log, m), m.role # "calls"
        PROVE  CallsInv'
    <3>1. \A k \in (snap' + 1)..Len(log') : log'[k] = m
      BY <1>t, <1>a, <1>2, <2>2
    <3>2. QED
      BY <2>2, <3>1 DEF CallsInv
  <2>3. QED
    BY <1>2, <2>1, <2>2
<1>3. ASSUME snap' = snap, pc \notin {"idle", "tool", "device"},
             NEW m \in Message, log' = Append(log, m),
             m.role # "calls" \/ pc' \in {"tool", "device"}
      PROVE  CallsInv'
  <2>1. ASSUME NEW k \in (snap' + 1)..Len(log'), log'[k].role = "calls"
        PROVE  \/ \E j \in (k + 1)..Len(log') : log'[j] = [role |-> "tool", id |-> k]
               \/ pc' \in {"tool", "device"} /\ k = Len(log')
    <3>1. CASE k = Len(log) + 1
      BY <1>a, <1>3, <2>1, <3>1
    <3>2. CASE k # Len(log) + 1
      <4>1. k \in (snap + 1)..Len(log) /\ log[k].role = "calls"
        BY <1>t, <1>a, <1>3, <2>1, <3>2
      <4>2. PICK j \in (k + 1)..Len(log) : log[j] = [role |-> "tool", id |-> k]
        BY <1>3, <4>1 DEF CallsInv
      <4>3. j \in (k + 1)..Len(log') /\ log'[j] = log[j]
        BY <1>t, <1>a, <1>3, <4>1, <4>2
      <4>4. QED
        BY <4>2, <4>3
    <3>3. QED
      BY <3>1, <3>2
  <2>2. QED
    BY <2>1 DEF CallsInv
\* The half done call is the last message, and gets its answer.
<1>4. ASSUME snap' = snap, pc \in {"tool", "device"},
             log' = Append(log, [role |-> "tool", id |-> Len(log)])
      PROVE  CallsInv'
  <2>0. [role |-> "tool", id |-> Len(log)] \in Message
    BY <1>t DEF Message, Roles
  <2>1. ASSUME NEW k \in (snap' + 1)..Len(log'), log'[k].role = "calls"
        PROVE  \E j \in (k + 1)..Len(log') : log'[j] = [role |-> "tool", id |-> k]
    <3>1. k \in (snap + 1)..Len(log) /\ log[k].role = "calls"
      <4>1. k # Len(log) + 1
        BY <1>a, <1>4, <2>0, <2>1
      <4>2. QED
        BY <1>t, <1>a, <1>4, <2>0, <2>1, <4>1
    <3>2. CASE k = Len(log)
      BY <1>t, <1>a, <1>4, <2>0, <3>2
    <3>3. CASE k # Len(log)
      <4>1. PICK j \in (k + 1)..Len(log) : log[j] = [role |-> "tool", id |-> k]
        BY <1>4, <3>1, <3>3 DEF CallsInv
      <4>2. j \in (k + 1)..Len(log') /\ log'[j] = log[j]
        BY <1>t, <1>a, <1>4, <2>0, <3>1, <4>1
      <4>3. QED
        BY <4>1, <4>2
    <3>4. QED
      BY <3>2, <3>3
  <2>2. QED
    BY <2>1 DEF CallsInv
<1>5. CASE Entry
  <2>1. snap' = Len(log)
    BY <1>5 DEF Entry, HandleUserMessage, HandleUserBlocked, HandleConfirmationApproved,
       HandleConfirmationDenied, HandleDeviceResult, HandleDeviceRejected, BeginRequest
  <2>2. CASE HandleUserMessage
    BY <1>2, <2>1, <2>2 DEF HandleUserMessage, Message, Roles
  <2>3. CASE HandleDeviceResult
    BY <1>2, <2>1, <2>3 DEF HandleDeviceResult, Message, Roles, TypeOK, Pending
  <2>4. CASE ~HandleUserMessage /\ ~HandleDeviceResult
    BY <1>2, <1>5, <2>1, <2>4 DEF Entry, HandleUserBlocked, HandleConfirmationApproved,
       HandleConfirmationDenied, HandleDeviceRejected
  <2>5. QED
    BY <2>2, <2>3, <2>4
<1>6. CASE ModelText
  BY <1>3, <1>6 DEF ModelText, NextIteration, Respond, request, Message, Roles
<1>7. CASE \/ ModelUnsupported \/ ModelMissingCall \/ LoopsExhausted \/ PolicyRefuses
           \/ ModelRaises \/ \E c \in Call : ModelRepeatedCall(c)
  BY <1>1, <1>7 DEF ModelUnsupported, ModelMissingCall, ModelRaises, LoopsExhausted,
     PolicyRefuses, ModelRepeatedCall, NextIteration, Respond, request
<1>8. CASE \E c \in Call : ModelToolCall(c)
  BY <1>1, <1>8 DEF ModelToolCall, NextIteration
<1>9. CASE StartTool \/ StartDevice
  BY <1>t, <1>3, <1>9 DEF StartTool, StartDevice, request, Message, Roles
<1>10. CASE FinishTool \/ FinishDevice
  BY <1>4, <1>10 DEF FinishTool, FinishDevice, Respond, request
<1>11. CASE ToolRaises \/ Crash
  BY <1>1, <1>11 DEF ToolRaises, Crash, Respond, request
<1>12. CASE UNCHANGED vars
  BY <1>1, <1>12 DEF vars, request
<1>13. QED
  BY <1>5, <1>6, <1>7, <1>8, <1>9, <1>10, <1>11, <1>12 DEF Next, LoopStep

\* All parts together are inductive.
LEMMA Inductive == IInv /\ [Next]_vars => IInv'
  BY TypeStep, BusyStep, BudgetStep, RepeatStep, GateStep, PairStep,
     CallsStep DEF IInv

\* The inductive invariant holds in every reachable state.
THEOREM Invariant == Spec => []IInv
<1>1. QED
  BY InitInv, Inductive, PTL DEF Spec

\* Every variable keeps the type the code's dataclasses declare.
THEOREM TypeCorrect == Spec => []TypeOK
<1>1. IInv => TypeOK
  BY DEF IInv
<1>2. QED
  BY Invariant, <1>1, PTL

\* However the model answers, a run executes at most one call above
\* max_tool_calls_per_run, and an approved request one more.
THEOREM BudgetBound == Spec => []BudgetOvershoot
<1>1. IInv => BudgetOvershoot
  BY DEF IInv, BudgetInv
<1>2. QED
  BY Invariant, <1>1, PTL

\* A request that starts from a user message never runs, nor routes to a
\* device, a tool that needs confirmation.
THEOREM GateHolds == Spec => []ConfirmationGate
<1>1. IInv => ConfirmationGate
  BY DEF IInv, GateInv
<1>2. QED
  BY Invariant, <1>1, PTL

\* The user is only asked about calls that the policy will then let through.
THEOREM OffersAreRunnable == Spec => []PendingIsRunnable
<1>1. IInv => PendingIsRunnable
  BY DEF IInv, GateInv
<1>2. QED
  BY Invariant, <1>1, PTL

\* The fingerprint comparison of _run_loop keeps identical calls from being
\* executed twice in a row inside the loop.
THEOREM NoRepeat == Spec => []NoRepeatInLoop
<1>1. IInv => NoRepeatInLoop
  BY DEF IInv, RepeatInv
<1>2. QED
  BY Invariant, <1>1, PTL

\* No tool message is ever an orphan in the stored session, whatever raises
\* and whenever the process dies.
THEOREM Pairing == Spec => []ToolMessagesPaired
<1>1. IInv => ToolMessagesPaired
  BY DEF IInv, PairInv
<1>2. QED
  BY Invariant, <1>1, PTL

\* A request that ended without an exception left no announced call without
\* its tool message, so the next request's prompt is well formed.
THEOREM Answered == Spec => []CallsAnswered
<1>1. IInv => CallsAnswered
  BY DEF IInv, CallsInv, CallsAnswered
<1>2. QED
  BY Invariant, <1>1, PTL
=============================================================================
