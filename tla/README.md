# A TLA+ model of POM-AGENT

POM-AGENT is a Python agent runtime: a *port* turns HTTP or CLI input into
calls of a *core*, the core alternates model calls and tool calls, sessions are
kept in SQLite, and a long-term memory with embeddings is searched and fed
beside it. This directory holds TLA+ modules translated from that code, the TLC
configurations that check them, and TLAPS proofs about eight of them. Paths below
are relative to the repository; `PROJECT.json` maps each definition to the lines
it stands for.

    tlc -config StoreThreads.cfg MCSessionStore     # a run
    tlapm SessionStoreProofs.tla                    # the proofs of a module

## 1. The system

| Component | State it keeps | Operations | Module |
|---|---|---|---|
| Agent loop (`core/agent_core.py`, `core/policies/`) | locals of one request: loop and call counters, last fingerprint, context | `_handle`, `handle_confirmation_approved`, `handle_device_result`, `_run_loop`, policy chain, `step_execute_tool`, `step_device_request` | `AgentLoop` |
| Commands and security policy (`core/agent_core.py`, `core/resource_access.py`, `core/user_intent.py`) | none of its own: it reads the session as loaded and what the memory holds | guard, length and rate checks, `/remember`, `/forget`, `/preference`, `/fact`, `/archive`, delegation, access evaluator | `Commands` |
| One chat request, end to end | the session object of the request beside the stored row, the context, the payload | context, model call, tool, reply | `Turn`, composed of the next four |
| Context assembly (`modules/assembly/`) | none | initial context, context after a tool result, tail window, clipping, three-tier trim, history of a payload | `ContextWindow` |
| Retrieval (`core/memory/rrf.py`, `rerank_lexical.py`, `fts_query.py`, searches of the memory) | none | two limited searches, fusion, filter, rerank, remote service | `Retrieval` |
| Model answers (`modules/model/openai_*.py`) | the pieces of a stream | merge of deltas, parse, failover of one answer | `ModelStream` |
| Tools and MCP bridges (`modules/tools/`, `infra/mcp_*_bridge.py`) | a future, a thread, servers asked so far | `execute`, stdio and HTTP bridges, timeouts, next server | `ToolRoute` |
| Port (`port/agent_port.py`) | per (user, channel) key: a pending confirmation, a pending device request, in dicts or in a shared table; a lock per process | `handle`, pops, puts, emits | `AgentPort`, `Confirmation` |
| Session store (`infra/sqlite_session_store.py`) | rows of `sessions` (one JSON payload each) and `session_archives`; a `threading.Lock` per process | create, append, set status, archive row, LLM summary, delete | `SessionStore`, `SessionLog` |
| Session manager, archive summary (`core/session/`, `_handle_archive_command`) | none of its own: it reads, decides, writes through the store; one daemon thread per summary | find or create, append, update status, idle, destroy, archive, summarise | `SessionManager` |
| Long-term memory (`core/memory/orchestrator.py`, `infra/sqlite_dual_memory_store.py`) | rows of `memory_items` with an embedding status, FTS rows, chunks with vectors; an in-memory queue | ingest, embed, forget, purge, preferences, facts, re-index, retrieve; a worker thread | `MemoryStore` |
| Providers (`modules/model/impl.py`, `infra/model_provider_*.py`, pool, prompt cache) | circuit and rate windows, clients, cached prompts | failover, circuit, rate limit, eviction, prompt cache | `ProviderRoute`, `PromptRoute` |
| Config, composition, codecs, tool handlers, HTTP layer | little or none | I/O, parsing, wiring | not modelled (section 8) |

How they interact. The HTTP runtime keeps one port per process and handles each
request on its own thread; several workers may share the SQLite files. A
request thread calls `port.handle`, which pops what is pending, then calls one
of the core's three entry points; the core calls the session manager, the
manager the store; the core's response comes back to the port, which may store
a new pending entry and then emits events. `/archive` starts a daemon thread
that writes a summary into the archive row later. Commands such as `/remember`
and `/forget` call the memory orchestrator from the same request threads; its
worker thread embeds what they put into its queue. A chat request builds its
context from the session object it loaded and from what a retrieval finds, sends
it through failover, breaker, limiter, prompt cache and pool, and passes a tool
call on to a handler or to MCP servers, one after the other.

What is hard there, and what would make each component correct:

* **loop** - counters compared after the fact, a confirmation gate that is
  lifted for a whole loop, messages written in pairs around a call that may
  raise. Correct: bounded execution, nothing gated runs unasked from a chat
  message, a stored history an endpoint accepts, every request answered.
* **commands** - each passes its own selection of gates, the rate is counted on
  a session loaded earlier, and what a command logs reaches the memory again by
  an archive. Correct: no write a gate refuses, no guarded text where the guard
  scans, a bounded overshoot.
* **turn** - what the model is shown is the result of five cuts of a snapshot.
  Correct: payloads an endpoint accepts and that fit, a recall that leaves out
  only what is worse, a streamed answer that means what the whole one means,
  the answer of the server that was asked last, an end.
* **port** - two threads or two workers answering one question, a restart with
  the table in place, every input popping before it is known to be an answer.
  Correct: an approved tool runs at most once and only after it was shown,
  nothing waiting disappears unread.
* **store** - read-modify-write of a whole payload, two commits for one archive,
  a lock that another process does not see. Correct: operations atomic to their
  callers, acknowledged messages kept.
* **manager** - look up, then act, with another request in between. Correct:
  few live sessions, a truthful archive row, summaries that come to an end.
* **memory** - one row, its FTS row and its chunks are written by commits of
  their own, on two threads, with deletions in between; a queue that dies with
  the process. Correct: what was remembered is found and what was forgotten is
  not, a deletion cleans up, an embedding status tells the truth, one row per
  preference.
* **providers** - a breaker and a limiter that are asked before a slow call and
  told after it, by several threads; a failure recognised by words in its text;
  a pool that closes the client it used least recently, in use or not; a cache
  without lock. Correct: openings that were earned and are respected, windows
  that hold, a chain that is tried to its end, clients closed only under real
  pressure, a cache that fails only in a race.

`PROJECT.json` lists the hazards one by one at their lines, with the properties
that cover them and, where a property covers only part of one, what it leaves.

## 2. Modules and their correspondence to the code

Every module keeps the source's names. Operators introduced by a comment
"Mutation:" are not part of the model: each is the form a plausible bug would
give the operator it precedes, used to show that a property notices it.

**AgentLoop** - one conversation. `pc` says where the request stands: `idle`
between requests, `model` at the top of the `for` loop, `policy` in
`_handle_tool_call_with_policy`, `tool` inside the handler, `device` between
the two messages of `step_device_request`. Each entry point is an action
(`HandleUserMessage`, `HandleUserBlocked`, `HandleConfirmationApproved`,
`HandleConfirmationDenied`, `HandleDeviceResult`, `HandleDeviceRejected`); each
outcome of a model call is one (`ModelText`, `ModelToolCall`,
`ModelRepeatedCall`, ...). The session's messages are `[role, id]` records; a
tool call's id is the position of the message that announced it. `snap` is the
length of the session object the request started with: the store appends to the
stored row, not to that object, so a context consists of `1..snap` and one more
message (`ContextOf`). The port appears here as `pending`, what one key waits
for; its races are AgentPort's. What the assembly then cuts from `1..snap` is
Turn's.

**Commands** - the requests of one user on several threads, from `_handle`'s
parse to the answer: `Receive` (intent and payload), `FindSession` and
`CreateSession` (the session as loaded), `Refuse` or `Admit` (the five gates in
their order, as predicates named for the functions: `PolicyRefuses`,
`GuardModelRefuses`, `TargetRefused`, `ResourceRefuses`, `Disabled`),
`AppendMessage` (a call of its own, later than the check), then the effect -
`Ingest`, `Forget`, `Remove`, `Archive`, `Promote` - and `Answer`. Of a text the
model keeps whether a guard pattern is in it and whether it is too long; a
message keeps which command logged it and when. `/archive` is handled before
the session's own checks, so its steps skip them. The memory is the set of what
was written, each with its kind; how it is kept is MemoryStore's.

**Turn** - one session, one request at a time, over the four modules below. A
request is `Start`, `BuildBlock` (or `EmbeddingRaises`: the query's embedding is
not guarded), `RunLoop`, then per loop an intent command, the `toolFirst` mode,
or `SendToModel` and the steps of the stream, then a tool with the steps of its
route and `ToolAnswers`, which logs the sanitized result and rebuilds the window
from `snap`. Gates, confirmations and device requests are AgentLoop's and left
out here: every tool may run.

**ContextWindow** - pure: messages have a role, a form, a call id, a length and a
body; `Window` is the tail cut, the clip and the three tiers of
`token_budget.py` (collapse old tool results, fold old plain turns, trim),
`History` what `model/impl.py` makes of it for a payload (`maxHistory`, image
blocks, `Sanitize`), `DropTrailing` the removal of a duplicate question. The
tiers are functions over the tuples a tail can be, memoised by TLC. Lengths are
scaled: four characters make a token, the JSON around a call is eight long.

**Selection** - the loops that walk a list and append what they keep to another,
as a closed form over the positions that are kept (`Selected`, by their `Rank`);
`Among` keeps the elements of a set.

**Retrieval** - pure: both searches with their limits (`FtsHits` in table order,
`VectorHits` over the first `ScanLimit` chunks), `Fused` by reciprocal ranks in
integers (`Unit` clears the denominators), `Qualifies` (tombstoned, pending, of
another channel), the limit on candidates, the stable lexical rerank, the top-k
and what the remote service adds. Its three stable sorts are one closed form by
the `Place` each element takes (`Descending`), which TurnProofs can reason about.

**ModelStream** - one model answer of a request as an endpoint sends it: whole,
or in pieces of text and of tool calls that interleave in any order, of which
the first of a call carries id and name; `MergeDelta` is the accumulator,
`Parse` the reading of a message, `AttemptFails` and `NextProvider` the
failover, `heard` what the listener was shown.

**ToolRoute** - one tool call: the deny list, a local handler, the allowlist of
MCP names, then the servers in their order. A stdio server is a thread
(`Initialised`, `ServerRuns`, `ServerAnswers`, `RunnerRaises`) beside a future
with a timeout (`FutureExpires`, `Collect`); an HTTP server a streamed post, and
a plain one when the stream held nothing. `ran` counts the executions on each
server, `result` says which server's answer the call got.

**AgentPort** - one key, request threads of one or more processes. `handle` is
cut where another thread can come in: the pop of the confirmation (one step for
a dict, `SelectConfirm` and `DeleteConfirm` for the table), the pop of the
device request, the decision, the core call, the put, the emit. The core is the
choice among the responses the port tells apart. `backend` is the setting
`pending_state_backend`, `overlap` whether the clients send a request before the
answer to the last one; both are fixed when a behaviour starts.

**Confirmation** - the abstract specification of the port's confirmations:
asked, taken by one input, run at most once after having been taken.

**SessionLog** - the abstract specification of the store: each operation one
atomic change. `ArchiveTorn` is the only promise less than that.

**SessionStore** - the store step by step: `Load` takes the lock and copies the
payload, the `Save...` actions write the whole copy back and commit,
`WriteArchive` is the second transaction. No transaction is open after a
SELECT in Python's `sqlite3`, so another *process* may write between load and
save. `VisibleStatus` is the refinement mapping: an archive takes effect with
its second commit.

**SessionManager** - built on SessionLog's operations; each step of a thread is
one call of the store. `recent` orders the sessions by `last_active_at`.
`kind = "lookup"` is the `get_or_create_session` that `_handle_archive_command`
makes for its answer when nothing was there to archive. Requests of kind
`idle`, `update` and `destroy` are direct calls of `mark_idle_if_expired`,
`update_status` and `trigger_destroy`, which the tests make and no handler does.
`serial` says whether a behaviour's client waits for each answer.

**MemoryStore** - one user's memory. A method of `SqliteDualMemoryStore` is one
transaction under one lock, so it is one step; an operation of
`MemoryOrchestrator` is as many steps as it makes calls. `pc[a]` names the call
a thread makes next: `lookup`, `tombstone`, `insert`, `fts`, `put` for the
commands, `reindex` and `mark` for `reindex_user_memories`, `read`, `clear`,
`chunk`, `ready`, `failed` for `_embed_one_sync` (by the worker, or by the
request itself when `embedding_async` is off), `vectors`, `rows` and `answer` for
`retrieve_for_context`. A body is its kind (note, fact) or the key of its
preference; `Like` says which keys' bodies the LIKE pattern made of a key
matches. `policy` holds the settings that count here and every limit: of the two
searches (`hits`, `chunks`; 40 each in the code, the second also cut by
`vector_max_candidates`), of the candidates read and of the answer, of `/forget`
(20), of a re-indexing (500) and of a purge (10000). A query without ORDER BY
returns any rows it may (`Some`). Of a query text, the model keeps whether its
words match, of a channel the rows it may see (`Views`). The order in which
candidates are read and which of them the rerank keeps are free here and
Retrieval's there, as is the remote retriever, whose snippets come after the
local ones and take no place from them. `/archive` shows as its two ingests in a
row. The history variables record what the properties
except: `acked` (returned ingests), `torn`, `again`, `contended`, `lost`.

**ProviderRoute** - chat requests on several threads. `pc[t]` names what
`run_openai_compatible_chat_impl` does next for the candidate the thread stands
at: `route` (stub, route and key), `circuit` (the breaker's precheck), `rate` and
`limit` (the limiter's), `fetch` (build the prompt, fetch a client), `http` (the
call), `record` (`model_circuit_record`). Breaker, limiter and record read the
clock before they take their lock, so each is two steps: `AskCircuit`,
`AskLimiter` and `HttpReply` leave the time read in `call[t].at`,
`CircuitPrecheck`, `RatePrecheck` and `RecordReply` are the critical sections,
with any steps of other threads, and of the clock, in between. The pool's fetch
is one critical section. `Conclude` is the loop of
`_dispatch_chat_with_failover`: what it makes of an outcome is decided by
`SoftFailures`, the outcomes whose text holds one of the markers. An answer of
the endpoint is `usable` or `failed` by the same test, whatever it says, streamed
or not. A client that is closed while in use is marked; the call may then fail
or not. History variables: `sent` (calls admitted by the limiter, with the time
each had read and the time it passed), `failed`,
`opened`, `shut`, `early`, `pardoned` (what the breaker's promise refers to),
and in `call` the candidates `spent` and the keys fetched `since`.

**PromptRoute** - ProviderRoute with the prompt cache between breaker and client:
the cache is an `OrderedDict` without lock, so each operation on it is a step
(`LookUp`, `Expire`, `Touch`; `Store`, `MoveToEnd`, `CheckSize`, `PopOldest`) and
each may find that another thread has removed the entry (`KeyMissing`). `raced`
records whether that happened between two operations of a thread.

**MCAgentPort**, **MCSessionStore**, **MCMemoryStore**, **MCProviderRoute**,
**MCTurn**, **MCCommands** - name processes, threads, patterns, providers,
messages and settings for TLC. **AgentLoopProofs**, **AgentPortProofs**,
**SessionStoreProofs**, **SessionManagerProofs**, **MemoryStoreProofs**,
**RouteProofs** (of ProviderRoute and PromptRoute), **TurnProofs** (of Turn and
the modules it composes), **CommandsProofs** - section 6.

## 3. Runs

| Run | Checks | Shows |
|---|---|---|
| `loop_safety` | BudgetOvershoot, ConfirmationGate, PendingIsRunnable, NoRepeatInLoop, ToolMessagesPaired, CallsAnswered, EveryRequestAnswered | three requests, all kinds of tool, exceptions and crashes |
| `loop_bypass` (violation) | OnlyConfirmedToolsRun | the gate stays lifted after an approval |
| `turn` | ToolMessagesAnswerCalls, ContextFits, StreamAgrees, AnsweredByLast, RecallBest, TurnEnds | chat requests over sessions, limits, memories, streams and servers that fail |
| `turn_stale` (violation) | ContextHoldsQuestion | after a tool call the payload holds no question |
| `commands` | RateOvershoot, WritesAllowed, GuardHolds | every command on two threads under seven policies |
| `port_threads` | ShownBeforeAnswered, NothingLost, ImplementsProtocol, EveryInputHandled | two threads, both backends, clients with and without overlap, restarts |
| `port_shared` (violation) | ApprovedAtMostOnce | two workers run one confirmation twice |
| `store_threads` | AckedKept, ImplementsLog, CallsReturn | two threads, deaths anywhere |
| `manager_threads` | ArchiveIsComplete, EndedSessionsRest, LiveBounded, SummaryStays, SummarySettles | one request at a time and two overlapping, all operations, crashes |
| `memory_threads` | RetrievalFaithful, LeftoversExplained, ReadyMeansEmbedded, PreferenceUnique, PendingIsOnItsWay | two request threads and the worker, both settings of `embedding_async`, limits that bite and limits that do not, two channels, a provider that raises, crashes |
| `memory_forget` (violation) | ForgottenLeavesNothing | a `/forget` during an embedding leaves its chunks behind |
| `provider_threads` | OpeningsArePaid, RateWindow, FailsOnlyAtTheEnd, ClosedOnlyWhenOldest, RefusedWhileOpen, RaisesOnlyRaced, CacheBounded | two threads, seven providers that fail over to each other, two of them behind breaker and limiter, a pool and a cache that evict |

A violation run checks a sentence of the documentation or of a comment that the
code does not keep; `PROJECT.json` quotes it. Type invariants are stated in every
module that is proved about and proved there, not run.

**Bounds.**

* *loop*: `MaxTurns = 3` requests: enough for a message, the approval or device
  result it leads to, and a request after that, so every pairing across requests
  occurs; `MaxToolCalls = 2` with a session of four loops lets the overshoot, the
  repeat and the approval before it meet. Two argument values make two calls of
  one tool different. `SessionLimits = {2, 4}` because the two limits of a run
  hide each other: under 2 loops a run ends before it can exceed a budget of 2
  calls, under 4 the budget ends it first. A session keeps the limit it was
  created with (`maxLoops` never changes).
* *turn*: two requests of two loops, so a second request sees what a tool call of
  the first has left; histories of up to five messages with every form; six
  settings, each of which makes one cut bite; two attempts, two servers, three
  memories (one more than the search's limit can all hold). `AllSetups` combines
  each cut with a wire and each wire, bridge and retrieval with a plain context:
  the parts meet in `payload` and `result` only.
* *commands*: four requests on two interchangeable threads in two minutes
  (`Minute = 1`), so that a window can be full, half and empty; limits of one and
  two; three sessions, as an archive begins a new one.
* *port*: two ids and four inputs: two questions are asked and answered by
  overlapping requests, and a stale id is at hand.
* *store*: four calls on one session: create, two operations that overlap, and
  one that observes; sessions do not interact in the store except by the lock.
* *manager*: three sessions in order of creation, four requests: create, archive,
  create again, and a request that overlaps.
* *memory*: two rows of two chunks and three requests on two interchangeable
  threads: insert, delete and retrieve or re-index while the worker embeds; with
  one chunk per body, a body half embedded would not exist, and with one row
  neither a replaced preference nor a wrong match would. Two keys, one of which
  (`t_`) is a pattern for the other (`th`). Four policies: one that
  queues embeddings and re-indexes the newest row, one that embeds at once with
  limits no two rows reach, and two with a word search of one row, a vector
  search of two chunks, and one candidate or one place in the answer, so that
  each limit cuts a match off. One channel sees both rows, one the first. A
  re-indexing of both rows is embedded at once here; one that queues both is left
  to the proofs, which hold for every limit.
* *providers*: three requests on two interchangeable threads: one call out, one
  that opens the breaker, one that meets it open; a clock from 0 to 2 and windows
  of one second, so that a stamp is inside, at the edge of and outside its
  window, and a thread may wait for a lock from one window to the next;
  thresholds of one and two; three pooled keys for a pool of two (48 in the
  code); two prompts for a cache of one with a time to live of one. The
  sessions of a behaviour name one provider, or `c` and `d`, and meet others
  through its chain: `a` and `b`, behind breaker and limiter, fail over to each
  other, `c`, `d` and `a` compete for the pool, and `c` alone has prompts.

Every run sets `CHECK_DEADLOCK FALSE` because a behaviour stops when its bound on
requests is used up.

**Fairness.** Weak fairness of a thread's steps only (`LoopStep`, `Step(t)`,
`WorkerEnds(s)`, Turn's `Step`): a thread that can go on is scheduled. It stands
on the code's own assumption that model, tools and summariser return or raise,
and says nothing of clients, which may stay silent. TurnEnds assumes besides
that a stdio server's `initialize` ends: it has no timeout of its own, and where
it hangs the request hangs (section 4). Locks are not assumed fair beyond that;
as the number of inputs is bounded, starvation by an endless stream of other
threads' requests is out of sight, and the liveness properties speak of locks
left held and steps left out. `EveryInputHandled`, `CallsReturn` and
`EveryRequestAnswered` are checked with crashes (a crash ends a call too),
`SummarySettles` without: nothing restarts a summary after one. MemoryStore
states no liveness: the code itself lets a pending row wait for ever after a
restart, and PendingIsOnItsWay says what holds at every moment instead.

## 4. Findings

Four, each with its run: the gate lifted for the rest of an approved loop
(`loop_bypass`), a confirmation executed by two workers (`port_shared`), a model
that no longer sees the question once it has called a tool (`turn_stale`), chunks
of a forgotten memory that nothing removes (`memory_forget`).

The observations below are of the same sort and came up while modelling. Unless
one says otherwise the models contain the behaviour; no run is spent on them.

*Loop, commands and turn*

* `README.md:182` calls `max_tool_calls_per_run` an upper limit; a run executes
  one call more, because the handler is entered before the decision
  (`src/core/agent_core.py:797-804`). BudgetOvershoot states, and TLAPS proves,
  the limit that does hold.
* `src/core/policies/loop_policy.py:63` announces detection of consecutive
  repeats; the call an approval runs is not fingerprinted, so the loop may
  execute it again (hence the exception in NoRepeatInLoop).
* An exception of a handler leaves an assistant(tool_calls) message without its
  tool message in the stored session; `step_device_request` writes a tool message
  when the device is asked and `handle_device_result` a second one.
* What the stale snapshot means (`src/modules/assembly/interface.py:14` describes
  `apply_tool_result` as appending to the context; it rebuilds it from the
  snapshot): payloads after a tool call lack the question and every earlier
  result of the request; the image of the current request never reaches the
  model as history; and if the snapshot ends with an image message, that message
  takes the place of the current question or tool result.
* Clipping turns a long tool result into plain text, which `Sanitize` then drops:
  the payload keeps an assistant message whose tool_calls nothing answers.
  ToolMessagesAnswerCalls speaks of the other direction, which does hold.
* A reply that is blank is a failure only when it was streamed; a stream that
  fails has already emitted its deltas when the next candidate starts to emit its
  own (`src/modules/model/impl.py:391`), and a stream that ends cleanly without
  `[DONE]` is taken as complete (the model assumes that all pieces arrive then).
  A first tool call without name is read differently from a stream than from a
  whole answer (the model assumes that no endpoint sends one).
* The rate check counts messages of the session as loaded: requests that overlap
  are all admitted (RateOvershoot states by how many), and `/archive` begins a
  session with an empty window.
* `/preference` and `/fact` pass no guard; a guarded text they stored cannot be
  removed by a `/forget` that quotes it, as that is scanned. Content blocks sent
  along with `/remember` are logged unscanned. Where writes need an approval, a
  chat message still reaches the memory when its session is archived
  (WritesAllowed excepts it). The memory block of a chat asks for `read` only and
  not whether reading needs an approval (`src/modules/assembly/impl.py:185`).

*Port*

* `README.md:150-151` says a device request is emitted after an approval; the
  response of an approved call, or of a device answer, becomes reply and error
  events only (`src/port/agent_port.py:338`).
* `docs/design/架构设计ver0.5.md:494` has `emit(confirmation)` before the approval;
  a confirmation is stored first. An overlapping bare "yes", or one after a crash
  between the put and the emit, may approve what was not shown:
  ShownBeforeAnswered speaks of clients that overlap and answer with ids.
* The WebSocket handler calls the blocking port inside the event loop (not
  modelled: the model has one thread per request).

*Store, manager and memory*

* With two workers on one file an acknowledged message is lost
  (`src/infra/sqlite_session_store.py:143`; `README.md:173-175` recommends the
  store for several workers): `AckedKept` fails as soon as `ProcOf` maps two
  threads to two processes. The proofs say exactly this: `OneProcess` is their
  assumption.
* `src/infra/sqlite_session_store.py:162` says a session that enters ARCHIVED is
  written to the archive table; the status is committed before that row is
  (line 156), and a crash in between leaves an archived session without it
  (`ArchiveTorn`, which ImplementsLog permits).
* `src/core/session/session.py:33-34` lets ARCHIVED become DESTROYED only; the
  transition is validated on a session read earlier, so an expiry check that
  overlaps `/archive` writes IDLE over it.
* `docs/guides/系统测试流程.md:100` has the requests of one user share a session (同一
  `user_id` 下多次请求共享会话); two first messages that overlap each find none and
  create two (`src/core/session/session_manager.py:190`). LiveBounded states how
  many there may be.
* When promoting an archived session to memory raises, the session stays
  archived and its answer and summary are lost (`src/core/agent_core.py:358`).
* `set_preference` finds the row to replace with LIKE, in which `_` and `%` of a
  key are wildcards: setting the key `t_` may tombstone the row of `th`
  (`src/infra/sqlite_dual_memory_store.py:330`). PreferenceUnique therefore
  speaks of keys that are no pattern for others.
* Two embeddings of one row that meet (re-indexing a row that is queued) may end
  in the second one's primary-key error; with a crash at the wrong moment a row
  is `ready` without its chunks. ReadyMeansEmbedded excepts such rows.
* Every chat embeds its question outside any `try`: a raising embedding provider
  fails the request after its message was logged (`Turn!EmbeddingRaises`).
* `src/core/memory/rrf.py:14` takes lists by descending relevance; `fts_search` has
  no ORDER BY, and `search_cosine` looks at the first `max_scan` chunks only,
  leftovers of deleted rows among them. `\W+` makes one token of a Chinese
  sentence. Local snippets that fill `top_k` leave no room for remote ones, and
  duplicate remote ids stay. RecallBest states what is promised all the same.

*Providers and tools*

* `src/infra/model_provider_rate_limit.py:58` announces an error once the limit of
  a window is reached; the time is read before the lock is taken (line 63), and a
  thread that waits meanwhile appends its earlier time to a deque emptied for a
  later one. RateWindow states what holds: the limit, for the calls that also pass
  within the window, and one call more per other thread for those that pass later.
* `src/platform_layer/resources/config/model_providers.yaml:35` says an open
  circuit refuses new requests for open_seconds; the success of a call that was
  out when it opened sets `open_until` to 0 (`src/infra/model_provider_circuit.py:92`).
  RefusedWhileOpen states what holds.
* `src/modules/model/impl.py:412` says errors come back as text, not as an
  exception; the prompt is built outside the `try`, and a cached prompt that
  another thread popped between lookup and `move_to_end` raises a KeyError
  (`src/infra/prompt_cache.py:28`): neither breaker nor chain sees it, and a rate
  slot is spent. `Expire` may also remove an entry that was renewed meanwhile.
* The message of an unknown vendor prefix holds no marker
  (`src/modules/model/openai_provider_route.py:128`): the chain is not tried, and
  FailsOnlyAtTheEnd excepts it. A healthy answer that quotes a marker, on the
  other hand, counts as a failure.
* `src/infra/mcp_stdio_bridge.py:7` says a timeout is controlled by
  `timeout_seconds`; `initialize` has none, and the outer timeout gives up on the
  future inside an executor whose exit waits for the thread: a hanging server
  hangs the request, and a success that comes late is discarded after the wait.
* An HTTP stream whose result is null is followed by a post to the same server,
  and an error or a timeout by the next server: the tool may run twice, or on two
  servers (`ran`; AnsweredByLast says whose answer counts).

## 5. Refinement

* `Confirmation` <- `AgentPort`: checked in `port_threads`, proved for any number of
  threads of one process (PortImplementsProtocol).
* `SessionLog` <- `SessionStore`: checked in `store_threads`, proved for any number
  of threads of one process (StoreImplementsLog). `SessionManager` is built on
  `SessionLog`, so its results rest on this and are about one worker.
* `ProviderRoute` <- `PromptRoute`: proved (ImplementsRoute), so that what is
  proved of breaker, limiter and pool holds with the cache between them.

With two processes the first two do not hold: `port_shared` is the counterexample
for the port, the lost message above for the store.

## 6. What is proved

For every value of the constants, with TLAPS (no theorem depends on a bound of
a run).

*AgentLoopProofs*: TypeCorrect, BudgetBound, GateHolds, OffersAreRunnable,
NoRepeat, Pairing, Answered, from the module's assumptions on its constants (allowlist and
device tools are tools, `NoCall` is no call, limits are natural numbers). None
of the invariants is inductive alone. `IInv` adds: what each `pc` implies about
`stage`, `entry` and `call` (BusyInv); how many calls were executed for the
value of `toolCalls` at each `pc` (BudgetInv: the off-by-one lives here, and at
`model` the count is never over budget); that the last executed call is the last
fingerprint, and that a call on its way through the policy is not the one
executed before it (RepeatInv); that a device step of an ungated request is not
about a tool that needs confirmation (GateInv); that the log ends with the
announcing message while a tool or device step is half done, and that a pending
device id is such a message (PairInv); that a call of this request is answered,
half done at the end of the log, or given up by a raise (CallsInv).

*AgentPortProofs*: PortTypeCorrect and NothingWaitingIsLost for any deployment;
ApprovalsRunOnce, AnsweredOnceShown and PortImplementsProtocol under
`OneProcess`, all threads in one process, on either store. `PortInv` says: a
thread between SELECT and DELETE holds the lock and what it read is still there
(LockInv: the only part that needs one process, and where two workers break it);
a confirmation is at one place, or in the hands of one thread, or was run, never
two of these (ConfirmInv), and so for device requests (DeviceInv); an input
carries no id but one its client was shown (ShownInv). For the refinement each
step is a pop (Take), an approval, a put (Ask, closing what it replaces), a loss
or a denial (Close), or a stutter. NothingWaitingIsLost needs no such
assumption: a client that waits for its answer has one thread at work in the
whole deployment, and past a pop that found nothing, nothing waits where that
thread will put (AloneInv).

*SessionStoreProofs*: StoreTypeCorrect for any deployment; AckedMessagesKept and
StoreImplementsLog under `OneProcess`. The invariant behind them: a thread that
is between load and commit holds the lock (HoldInv), so its copy still equals the
row (FreshInv); its arguments fit its operation and what it found when it loaded
(CallInv); a session without a row has no messages (EmptyInv). Without
`OneProcess` FreshInv fails. The refinement is proved step by step; while one
thread is between the two commits of an archive the abstract status is the one it
loaded, and because of the lock there is at most one such thread
(ArchivingStatus, QuietStatus, Stutter).

*SessionManagerProofs*: ManagerTypeCorrect, SessionsBounded, EndedRest,
ArchivesComplete and SummariesStay, for any number of threads, sessions and requests,
from ManagerAssumption. The lookup is a CHOOSE over positions, so that there is a
last one is proved first (Greatest, a minimal counterexample; Found), and that
moving a session to the end loses none (MovedOrder). The inductive invariant
adds: every session with a row has its place in the order, so a new one never
takes the place of an old one (OrderInv); what a place of a thread says of its
request (LocalInv); overlapping requests meet no idle session, and with one
request at a time what ReadStatus validated still holds when SetStatus writes
(ModeInv). From these no step revives an ended session (NoRevival) and a thread
about to create has seen none alive (CreatorsOf); the count of LiveBounded is then
inductive: a creator gives its place to the session it creates. ClosedInv carries
EndedSessionsRest through the lookup. For a client that waits, an archived session
takes no message (RowInv) and has one worker, started after the last status
change (SummaryInv). With overlapping requests ArchiveIsComplete is not claimed.

*MemoryStoreProofs*: MemoryTypeCorrect, RetrievalIsFaithful, OnlyTornLeftovers,
PendingTracked, PreferencesReplace and ReadyRowsEmbedded, for any number of
threads, rows, chunks and requests and any `Like`, from MemoryAssumption. What a
step does to the rows is proved first (ItemStep, RowsStep: rows are inserted
once and never come back). The inductive invariant adds: a row in a thread's
hands, or queued, was inserted (MidInv); only a re-indexing thread re-indexes
(OpInv), so what reaches the queue from it acknowledges nothing; a row about to
get chunks is live or was deleted in that window (EmbedInv); what ingest_record
has indexed keeps its FTS row until it is deleted (FtsInv), for without it a
retrieval's word search could miss an acknowledged row; and what a retrieval
under way holds (RetrInv): everything deleted before it began is still deleted,
and each row it must return is among its FTS hits, then still to be read or
found, then in the answer - or the list that should have held it is as long as
its limit. RetrievalFaithful names these limits because a match is missed there
for good: nothing ranks the rows of `fts_search`, so which 40 it returns is the
database's choice. Each part has a step lemma with one step per action.
PreferencesReplace needs that of an uncontended key at most one thread is inside
set_preference, that the row it is about to tombstone is the only live one, and
that none is live when it inserts (SetInv), which holds because a lookup by a
key whose pattern matches no other finds the row there is. ReadyRowsEmbedded
needs that a row outside `again` is embedded once: it is in one place of the
queue or in one thread's hands, never both (EmbedOnceInv, with the queue a
sequence without repetition), and that the chunks of a row in a thread's hands
are just those before its next one.

*RouteProofs*, of ProviderRoute: RouteTypeCorrect, OpeningsPaid, RateHolds, BreakerHolds,
FailsLast and ClosedWhenOldest,
for any threads, providers, chains, thresholds, limits and windows, from
RouteAssumption. The invariant adds: until an opening is over or pardoned,
`open_until` is what it set and every call under way was under way then
(BreakerInv: this is why only an older call can close it early); the deque is
the end of the log of admitted calls (LimitInv); and the calls of a window are all
in the deque, which the limit bounds, until a thread that has read a later time
pops one of them (WindowInv): from then on only threads that read their time in
the window and still wait for the lock can add to it, and the popping thread is
not one of them. Stamps need not be in order for this, as deque and log are
appended to together.
OpeningsArePaid is inductive given that a count is below its threshold.
FailsLast needs that a request has spent just the providers before its place
(SpentInv): a place the loop skips holds a provider seen before, or the least
such place would have been a candidate. ClosedWhenOldest needs that the keys
of the pool differ and that all that stands behind an open client's key was
fetched since (PoolInv), so that the key evicted from the head has MaxPool
others behind it.

*RouteProofs*, of PromptRoute: ImplementsRoute, RaisesOnlyByRace and
CacheKeepsBound, for any threads, keys and cache sizes. The invariant: the keys
of the cache differ (CacheType), a thread stands between two operations only
while it builds a prompt (PlaceInv), what an unraced thread looked up or wrote
is still there (RaceInv), and the entries over the limit, those not counted that
a thread has stored and not yet moved, are no more than the threads that will
check the size before they leave (RoomInv: why a skipped eviction leaves the
bound).

*CommandsProofs*: TypeCorrect, WritesAreAllowed, GuardsHold and
RateOvershootBounded, for any inputs,
policies and threads. The invariant carries the verdict of the gates from
`Admit` to the effect: a thread past the check holds a command the gates admit
under the setup that never changes, and a promotion holds texts of messages that
were logged under it. The rate bound speaks of the past - who appended when, having
loaded what - which no variable records, so its invariant (RateInv) says that there is a
history: every message has a thread that had loaded a beginning of the session
with all its own earlier messages in it and, within a minute, too few to be
refused. Of the messages of a minute take the one whose thread had loaded most
(LastSeen): fewer than rpm of them were in what it loaded, and those that were
not are one per thread at most, since a second one of the same thread would have
loaded more.

*TurnProofs*: LastServerAnswers, StreamBuildsAnswer, PayloadsArePaired,
ContextsFit and BestIsRecalled, for any session, limits, question, memory,
retrieval policy, number of servers and providers and any answer of an endpoint,
from WindowAssumption, StreamAssumption, RetrievalAssumption, TurnAssumption and
RecallAssumption, which type these constants; the last also says that memory_fts
holds one row of a memory. A step of the turn is a step of its route, of its
stream, or leaves both alone (Parts), so that each has an invariant of its own.
RouteInv: servers are asked in order, those behind have not run the call, and
the place of the one at hand tells how often it has. StreamInv: what was heard
and what is still to come make up the text of the answer, and so, slot by slot,
for each call: before its first piece a slot is empty, after it the slot's
arguments and those to come are the call's. The rest is about functions of a
session. A selection in closed form numbers the positions it keeps by rank
(Ranks, SelectedAt), so that what came before still comes before: the message
that announced a kept tool result is kept, and stands before it (SanitizePairs,
HistoryPairs); what follows the history is the user's (PayloadPairs). Each tier
leaves messages, at least one of them, and the last one cuts to the budget or to
one message (TiersFit, WindowFits); the rounds of the fold are a function
defined by recursion on numbers, whose existence and values come from a minimal
counterexample (Least, Iterates), as the library's induction theorems cannot be
instantiated. TurnInv carries the types through the request. BestIsRecalled
needs no more of the state than that a block was retrieved under a policy that
is on (RecallInv); the rest is the retrieval as a function, list by list: a sort
puts each element at a place of its own and what is ahead before it (Places,
DescendingKeeps); a filter and a limit keep the order (AmongKeeps, FirstsOrder);
who is no later in both searches has no smaller score (Shares, ShareGrows) and,
at equal scores, no later place in the fusion (FusedKeeps); so what is ahead of
a candidate is one (CandidatesKeep), what has as many words besides stays ahead
in the rerank (RerankedKeeps), and fits if the other does (LocalKeeps).

Only model-checked: the liveness properties (EveryRequestAnswered, EveryInputHandled,
CallsReturn, SummarySettles, TurnEnds - liveness and fairness are out of TLAPS's
reach here). Every invariant and every action property of a passing run is stated
by a theorem.

## 7. Plan

Done: the modules above, the eight proof modules. What a continuation would take,
in this order:

1. **Chunking** (`core/memory/chunking.py`) as a function against its reference
   definition, so that MemoryStore's number of chunks is no longer given.
2. The validation of the configuration loaders, which would turn the modules'
   assumptions on their constants into results.
3. The HTTP runtime's event loop beside its worker threads: the WebSocket handler
   that blocks it, the SSE queue between emitter and client.

## 8. Not modelled, and why

Tool handlers, device backends, the URL guard and the HTTP layer are I/O on the
outside world; a handler is "returns or raises". `session_json_codec.py`, message
formatting and the wording of isolation zones and prompts are sequential string
work that no property is about; what of it decides control - lengths, forms, the
markers of a failure, the pieces of a stream - is in the modules that use it.
Configuration and composition run once at start and yield the modules' constants.
The older long-term memory store is superseded by the dual store and not wired.
`save_session` of the store has no caller; `list_archives_for_user` and the
lookups change nothing (what a lookup sees is part of the manager's steps).
