-------------------------------- MODULE Turn --------------------------------
(***************************************************************************)
(* Chat requests of one session from the user's message to the reply: the   *)
(* context the assembly builds (ContextWindow) with what the long-term      *)
(* memory holds on the question (Retrieval), the model call it is sent with *)
(* (ModelStream), the tool the model asks for (ToolRoute), and the messages *)
(* the session is left with.  Gates, confirmations and devices are          *)
(* AgentLoop's: every tool here may run.                                    *)
(*                                                                          *)
(* get_or_create_session hands out the session as loaded; append_message    *)
(* writes to the stored row.  All contexts of a request are built from the  *)
(* first (snap), while the second (stored) grows.                           *)
(***************************************************************************)
EXTENDS ContextWindow, Retrieval, ModelStream, ToolRoute

CONSTANTS
  Limits,      \* settings of a session: [tail, msgMax, budget, toolMax,
               \* turnMax, maxHistory, toolFirst, outMax]
  Questions,   \* what a user may send: [form, size, body, intent]
  OutputSizes, \* lengths of what a tool returns
  Marker,      \* length of the truncation marker
  ReplySize,   \* length of a reply, an error or a redaction
  Images,      \* whether images may be read
  Histories,   \* what a session may hold when a behaviour begins
  Policies,    \* retrieval settings: [enabled, fts, rerank, rerankMax, topK,
               \* remote]; enabled also stands for the read gate of the memory
  Memories,    \* what the memory may hold on a question
  Setups,      \* which of these settings a behaviour combines
  MaxLoops,    \* governance.max_loops
  MaxRequests, \* bound: requests in a behaviour
  NoQuestion

ASSUME TurnAssumption ==
  /\ Limits \subseteq [tail : Nat, msgMax : Nat, budget : Nat, toolMax : Nat,
                       turnMax : Nat, maxHistory : Nat, toolFirst : BOOLEAN,
                       outMax : Nat]
  /\ Questions \subseteq [form : {"text", "image"}, size : Nat, body : Bodies,
                          intent : {"chat", "help", "tool"}]
  /\ {"reply", "call", "tool", "none"} \subseteq Bodies
  /\ OutputSizes \subseteq Nat /\ Marker \in Nat /\ ReplySize \in Nat
  /\ Histories \subseteq Seq(Messages)

\* sync_fts_for_memory_id deletes a memory's row before it inserts one.
ASSUME RecallAssumption ==
  /\ Policies \subseteq [enabled : BOOLEAN, fts : BOOLEAN, rerank : BOOLEAN,
                         rerankMax : Nat, topK : Nat,
                         remote : {"off", "on", "approval"}]
  /\ \A mem \in Memories :
       /\ mem.fts \in Seq(DOMAIN mem.rows)
       /\ \A i, j \in 1..Len(mem.fts) : mem.fts[i] = mem.fts[j] => i = j
       /\ mem.chunks \in Seq([memory : DOMAIN mem.rows, sim : Int])
       /\ mem.remote \in Seq(ToSet(mem.remote))
       /\ \A m \in DOMAIN mem.rows : IsFiniteSet(mem.rows[m].words)

VARIABLES
  lim,        \* the session's limits, fixed when it is created
  images,     \* resource_access: multimodal_image_url may be read
  policy,     \* MemoryPolicyConfig
  stored,     \* the stored session's messages
  snap,       \* messages of the session object of this request
  window,     \* Context.messages
  current,    \* Context.current, as a user message
  memory,     \* what the long-term memory held when the context was built
  block,      \* Context.memory_context_block: the memories it shows
  phase,      \* Context.meta["phase"]
  question,   \* what the request asks
  payload,    \* messages of the last payload sent in this request
  loops,      \* iterations of the loop so far
  pc,         \* where the request stands
  requests    \* requests so far (bounded by MaxRequests)

turnVars == <<lim, images, policy, stored, snap, window, current, memory, block,
              phase, question, payload, loops, pc, requests>>
vars == <<turnVars, streamVars, routeVars>>
settings == <<lim, images, policy>>
recall == <<memory, block>>
asked == <<question, requests>>

UserMessage(q) ==
  [role |-> "user", form |-> q.form, call |-> 0, size |-> q.size, body |-> q.body]
AssistantText(n) ==
  [role |-> "assistant", form |-> "text", call |-> 0, size |-> n, body |-> "reply"]
CallMessage(id) ==
  [role |-> "assistant", form |-> "call", call |-> id, size |-> 4, body |-> "call"]
ResultMessage(id, n) ==
  [role |-> "tool", form |-> "result", call |-> id, size |-> n, body |-> "tool"]
\* Context.current is text: of an image question, the text that came with it.
CurrentText(size, body) ==
  [role |-> "user", form |-> "text", call |-> 0, size |-> size, body |-> body]

Init ==
  /\ StreamInit
  /\ RouteInit
  /\ lim \in Limits
  /\ images \in Images
  /\ stored \in Histories
  /\ policy \in Policies
  /\ <<lim, images, policy, wire, transport, stored>> \in Setups
  /\ snap = <<>>
  /\ window = <<>>
  /\ current = CurrentText(0, "none")
  /\ memory = NoMemory
  /\ block = <<>>
  /\ phase = "none"
  /\ question = NoQuestion
  /\ payload = <<>>
  /\ loops = 0
  /\ pc = "idle"
  /\ requests = 0

-----------------------------------------------------------------------------
(* The request                                                              *)

\* _handle: the session as it was, the message appended to the stored row,
\* the initial context.
Start(q) ==
  /\ pc = "idle"
  /\ requests < MaxRequests
  /\ requests' = requests + 1
  /\ question' = q
  /\ snap' = stored
  /\ stored' = Append(stored, UserMessage(q))
  /\ window' = Window(stored, lim)
  /\ current' = CurrentText(q.size, q.body)
  /\ phase' = "user_turn"
  /\ loops' = 0
  /\ pc' = IF policy.enabled THEN "recall" ELSE "loop"
  /\ UNCHANGED <<settings, recall, payload, streamVars, routeVars>>

Forgets == memory' = NoMemory /\ block' = <<>>

\* The request's locals are gone.
Ends ==
  /\ pc' = "idle"
  /\ snap' = <<>>
  /\ window' = <<>>
  /\ current' = CurrentText(0, "none")
  /\ Forgets
  /\ phase' = "none"
  /\ question' = NoQuestion
  /\ payload' = <<>>
  /\ loops' = 0

\* retrieve_for_context, tabulated.
Retrieved == [pol \in Policies |-> [mem \in Memories |-> Retrieve(mem, pol)]]

\* _build_memory_context_block.
BuildBlock ==
  /\ pc = "recall"
  /\ \E mem \in Memories : memory' = mem /\ block' = Retrieved[policy][mem]
  /\ pc' = "context"
  /\ UNCHANGED <<settings, stored, snap, window, current, phase, asked, payload,
                 loops, streamVars, routeVars>>

\* Every retrieval embeds the question: a provider that raises ends the request
\* with its message logged.
EmbeddingRaises ==
  /\ pc = "recall"
  /\ Ends
  /\ UNCHANGED <<settings, stored, requests, streamVars, routeVars>>

\* The context is built.  Nothing tells apart what its block says from here on.
RunLoop ==
  /\ pc = "context"
  /\ Forgets
  /\ pc' = "loop"
  /\ UNCHANGED <<settings, stored, snap, window, current, phase, asked, payload,
                 loops, streamVars, routeVars>>

\* Mutation: a run that used up its loops waits for one more output.
OneMoreLoop ==
  /\ pc = "loop"
  /\ loops > MaxLoops
  /\ Ends
  /\ UNCHANGED <<settings, stored, requests, streamVars, routeVars>>

LoopsExhausted ==
  /\ pc = "loop"
  /\ loops = MaxLoops
  /\ Ends
  /\ UNCHANGED <<settings, stored, requests, streamVars, routeVars>>

\* _build_text_response: the reply is logged, the request over.
Reply ==
  /\ stored' = Append(stored, AssistantText(ReplySize))
  /\ Ends
  /\ UNCHANGED <<settings, requests>>

\* step_execute_tool: the call is logged, then execute looks for the tool.
CallTool(name) ==
  /\ stored' = Append(stored, CallMessage(Len(stored) + 1))
  /\ Route(name)
  /\ pc' = "tool"
  /\ UNCHANGED <<settings, snap, window, current, recall, phase, asked, payload>>

-----------------------------------------------------------------------------
(* The model                                                                *)

InLoop == pc = "loop" /\ loops < MaxLoops

\* Only the first context of a request has its intent; a later one chats.
Intent == IF phase = "user_turn" THEN question.intent ELSE "chat"

\* /help, /summary: text without a model call.
CommandReplies ==
  /\ InLoop
  /\ Intent = "help"
  /\ Reply
  /\ UNCHANGED <<streamVars, routeVars>>

\* /tool: a call without a model call.
CommandCalls(name) ==
  /\ InLoop
  /\ Intent = "tool"
  /\ loops' = loops + 1
  /\ CallTool(name)
  /\ UNCHANGED streamVars

\* prompt_strategy tool_first: the tool's result is the reply.
ToolFirstReply ==
  /\ InLoop
  /\ lim.toolFirst
  /\ phase = "post_tool"
  /\ Reply
  /\ UNCHANGED <<streamVars, routeVars>>

\* What comes after the history: Context.current, or the image message the
\* session object ends with.
Current ==
  IF snap # <<>> /\ IsImage(Last(snap)) THEN Blocks(Last(snap), images) ELSE current

Payload(history) == Append(DropTrailing(history, current), Current)

\* run_openai_compatible_chat_impl renders the payload; system prompt and
\* memory block, which precede its messages, are left out.
SendToModel ==
  /\ InLoop
  /\ Intent = "chat"
  /\ ~(lim.toolFirst /\ phase = "post_tool")
  /\ loops' = loops + 1
  /\ \E history \in {History(window, lim.maxHistory, images)} :
       payload' = Payload(history)
  /\ pc' = "model"
  /\ UNCHANGED <<settings, stored, snap, window, current, recall, phase, asked,
                 streamVars, routeVars>>

OnTheWire ==
  /\ pc = "model"
  /\ StreamStep
  /\ UNCHANGED <<turnVars, routeVars>>

\* An answer in words, or the failure text of the last provider.
ModelReplies ==
  /\ pc = "model"
  /\ Answered
  /\ output.kind # "tool_call"
  /\ TakeOutput
  /\ Reply
  /\ UNCHANGED routeVars

ModelCalls ==
  /\ pc = "model"
  /\ Answered
  /\ output.kind = "tool_call"
  /\ TakeOutput
  /\ CallTool(output.call.name)
  /\ UNCHANGED loops

-----------------------------------------------------------------------------
(* The tool                                                                 *)

AtTheTool ==
  /\ pc = "tool"
  /\ RouteStep
  /\ UNCHANGED <<turnVars, streamVars>>

\* A handler raises: the request is over, its call stays unanswered.
ToolRaises ==
  /\ pc = "tool"
  /\ LocalRaises
  /\ Ends
  /\ UNCHANGED <<settings, stored, requests, streamVars>>

\* _sanitize_tool_result_for_guard: cut to the limit, then scanned; what
\* matches a pattern is replaced by a fixed text.
Sanitized(n) ==
  {IF lim.outMax > 0 /\ n > lim.outMax THEN lim.outMax + Marker ELSE n, ReplySize}

OutputSize == IF result.kind \in {"ok", "local"} THEN OutputSizes ELSE {ReplySize}

\* The result is sanitized and logged, and the next context built: from the
\* same session object as the first.
ToolAnswers ==
  /\ pc = "tool"
  /\ hop = "done"
  /\ \E n \in OutputSize : \E m \in Sanitized(n) :
       /\ stored' = Append(stored, ResultMessage(Last(stored).call, m))
       /\ current' = CurrentText(m, "tool")
  /\ window' = Window(snap, lim)
  /\ phase' = "post_tool"
  /\ pc' = "loop"
  /\ TakeResult
  /\ UNCHANGED <<settings, snap, recall, asked, payload, loops, streamVars>>

Step ==
  \/ BuildBlock \/ EmbeddingRaises \/ RunLoop
  \/ LoopsExhausted \/ CommandReplies \/ ToolFirstReply
  \/ \E name \in ToolNames : CommandCalls(name)
  \/ SendToModel \/ OnTheWire \/ ModelReplies \/ ModelCalls
  \/ AtTheTool \/ ToolRaises \/ ToolAnswers

Next == Step \/ \E q \in Questions : Start(q)

Spec == Init /\ [][Next]_vars
FairSpec == Spec /\ WF_vars(Step)

-----------------------------------------------------------------------------
(* Properties                                                               *)

\* Whatever the tail, the clipping, the folding, the trim and the history
\* limit cut away, a tool message in a payload follows the assistant message
\* that announced its call: endpoints refuse the request otherwise.
ToolMessagesAnswerCalls ==
  \A n \in 1..Len(payload) :
    payload[n].role = "tool" =>
      \E i \in 1..(n - 1) :
        /\ payload[i].role = "assistant"
        /\ payload[i].call = payload[n].call

\* A context keeps within its token budget, a newest message that exceeds it
\* by itself excepted, and is never empty when the session was not.
ContextFits ==
  /\ lim.budget > 0 => TotalTokens(window) <= lim.budget \/ Len(window) = 1
  /\ (pc # "idle" /\ snap # <<>>) => window # <<>>

\* A local memory is left out of a context only for better ones: whatever comes
\* no later in either search and has as many words of the question as one that
\* is shown, is shown too; and what was found is left out only when the places
\* are taken.
RecallBest == pc = "context" =>
  LET fts == IF policy.fts THEN FtsHits(memory) ELSE <<>>
      vec == VectorHits(memory)
      found == {m \in ToSet(fts) \cup ToSet(vec) : Qualifies(memory, m, fts)}
      ahead(s, b, a) ==
        Contains(s, a) => \E i \in 1..Len(s) : s[i] = b /\ Position(s, b) <= Position(s, a)
      words(m) == Cardinality(memory.rows[m].words)
      local == ToSet(block) \ (ToSet(memory.remote) \cup {"policy"})
  IN /\ Len(block) <= policy.topK /\ local \subseteq found
     /\ \A a \in local, b \in found :
          ahead(fts, b, a) /\ ahead(vec, b, a) /\ words(b) >= words(a)
            => Contains(block, b)
     /\ Cardinality(found \cap ToSet(block)) < policy.topK /\ policy.topK <= policy.rerankMax
          => found \subseteq ToSet(block)

\* The comment in run_openai_compatible_chat_impl: the session, and so the
\* end of context.messages, already holds this turn's user message.  Every
\* payload of a request then shows the model what the user asked.
ContextHoldsQuestion ==
  payload # <<>> =>
    \E n \in 1..Len(payload) :
      payload[n].role = "user" /\ payload[n].body = question.body

\* Every request ends: streams, failover, servers and loops are all bounded.
TurnEnds == pc # "idle" ~> pc = "idle"
=============================================================================
