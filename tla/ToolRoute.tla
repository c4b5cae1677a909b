----------------------------- MODULE ToolRoute -----------------------------
(***************************************************************************)
(* ToolModuleImpl.execute for one tool call: the network policy, a local    *)
(* handler, or the MCP bridge, which asks its servers one after the other   *)
(* until one answers without an error.  A stdio server is started, asked    *)
(* and stopped on a thread of its own; an HTTP server may be asked on a     *)
(* streaming endpoint first.  What a server did before it failed stays      *)
(* done.                                                                    *)
(***************************************************************************)
EXTENDS Naturals, Sequences

CONSTANTS
  ToolNames,     \* names the model may call
  DenyNames,     \* network_policy.deny_tool_names
  LocalTools,    \* names with a local handler
  McpAllowlist,  \* network_policy.mcp_tool_allowlist, enforced
  Servers,       \* number of MCP servers configured, tried in this order
  Transports,    \* what bridge a behaviour has
  NoResult

ASSUME RouteAssumption ==
  /\ DenyNames \cup LocalTools \cup McpAllowlist \subseteq ToolNames
  /\ Servers \in Nat \ {0}
  /\ Transports \subseteq {"none", "stdio", "http", "http_stream"}

VARIABLES
  transport,  \* the bridge, fixed at start: none, stdio, HTTP, HTTP streaming
  hop,        \* where the call stands
  server,     \* the server asked
  expired,    \* future.result timed out; the executor waits for its thread
  ran,        \* history: how often each server has run the tool
  result      \* [kind, from]: what execute returns, and whose answer it is

routeVars == <<transport, hop, server, expired, ran, result>>

ServerIds == 1..Servers
Result(kind, from) == [kind |-> kind, from |-> from]

RouteInit ==
  /\ transport \in Transports
  /\ hop = "none"
  /\ server = 0
  /\ expired = FALSE
  /\ ran = [s \in ServerIds |-> 0]
  /\ result = NoResult

\* A server is asked: started, or sent a request.
Asked(s) ==
  /\ server' = s
  /\ expired' = FALSE
  /\ hop' = CASE transport = "stdio" -> "connect"
              [] transport = "http" -> "post"
              [] transport = "http_stream" -> "stream"

Returned(r) ==
  /\ hop' = "done"
  /\ result' = r

\* execute: denied names first, then local handlers, then the allowlist.
Route(name) ==
  /\ hop = "none"
  /\ \/ /\ name \in DenyNames
        /\ Returned(Result("denied", 0))
        /\ UNCHANGED <<server, expired>>
     \/ /\ name \in LocalTools \ DenyNames
        /\ hop' = "local"
        /\ UNCHANGED <<server, expired, result>>
     \/ /\ name \notin DenyNames \cup LocalTools
        /\ transport = "none"
        /\ Returned(Result("unknown", 0))
        /\ UNCHANGED <<server, expired>>
     \/ /\ name \notin DenyNames \cup LocalTools \cup McpAllowlist
        /\ transport # "none"
        /\ Returned(Result("denied", 0))
        /\ UNCHANGED <<server, expired>>
     \/ /\ name \in McpAllowlist \ (DenyNames \cup LocalTools)
        /\ transport # "none"
        /\ Asked(1)
        /\ UNCHANGED result
  /\ UNCHANGED <<transport, ran>>

LocalReturns ==
  /\ hop = "local"
  /\ Returned(Result("local", 0))
  /\ UNCHANGED <<transport, server, expired, ran>>

\* A success ends the search; an error goes on to the next server, and the
\* last one's error is the answer.
Succeeded ==
  /\ Returned(Result("ok", server))
  /\ UNCHANGED <<server, expired>>

\* Mutation: an error ends the search as well.
FailsAtOnce ==
  /\ Returned(Result("error", server))
  /\ UNCHANGED <<server, expired>>

Failed ==
  \/ server < Servers /\ Asked(server + 1) /\ UNCHANGED result
  \/ /\ server = Servers
     /\ Returned(Result("error", server))
     /\ UNCHANGED <<server, expired>>

Runs == ran' = [ran EXCEPT ![server] = @ + 1]

-----------------------------------------------------------------------------
(* A stdio server                                                           *)

\* initialize has no timeout of its own.
Initialised ==
  /\ hop = "connect"
  /\ hop' = "call"
  /\ UNCHANGED <<transport, server, expired, ran, result>>

ServerRuns ==
  /\ hop = "call"
  /\ Runs
  /\ hop' = "running"
  /\ UNCHANGED <<transport, server, expired, result>>

ServerAnswers ==
  /\ hop = "running"
  /\ hop' = "answered"
  /\ UNCHANGED <<transport, server, expired, ran, result>>

\* The process does not start or dies, the server reports an error of the
\* protocol, or wait_for times the call out, run or not.
RunnerRaises ==
  /\ hop \in {"connect", "call", "running"}
  /\ hop' = "raised"
  /\ UNCHANGED <<transport, server, expired, ran, result>>

\* future.result(timeout + 15) gives up, but leaving the executor waits for
\* its thread all the same.
FutureExpires ==
  /\ hop \in {"connect", "call", "running"}
  /\ ~expired
  /\ expired' = TRUE
  /\ UNCHANGED <<transport, hop, server, ran, result>>

\* The thread has ended: an answer that came too late is an error.
Collect ==
  /\ hop \in {"answered", "raised"}
  /\ IF hop = "answered" /\ ~expired THEN Succeeded ELSE Failed
  /\ UNCHANGED <<transport, ran>>

-----------------------------------------------------------------------------
(* An HTTP server                                                           *)

StreamAnswers ==
  /\ hop = "stream"
  /\ Runs
  /\ Succeeded
  /\ UNCHANGED transport

\* The stream ends without output, or its result is null: the tool is posted
\* to the other endpoint of the same server.
StreamEmpty ==
  /\ hop = "stream"
  /\ Runs
  /\ hop' = "post"
  /\ UNCHANGED <<transport, server, expired, result>>

PostAnswers ==
  /\ hop = "post"
  /\ Runs
  /\ Succeeded
  /\ UNCHANGED transport

\* No connection, a timeout, a status or a body that raises, or an output
\* that says mcp_error: the server may have run the tool.
HttpFails ==
  /\ hop \in {"stream", "post"}
  /\ Runs \/ UNCHANGED ran
  /\ Failed
  /\ UNCHANGED transport

-----------------------------------------------------------------------------

\* execute has returned; the loop takes the result.
TakeResult ==
  /\ hop = "done"
  /\ hop' = "none"
  /\ server' = 0
  /\ expired' = FALSE
  /\ ran' = [s \in ServerIds |-> 0]
  /\ result' = NoResult
  /\ UNCHANGED transport

\* A handler's exception leaves execute.
LocalRaises ==
  /\ hop = "local"
  /\ hop' = "none"
  /\ UNCHANGED <<transport, server, expired, ran, result>>

RouteStep ==
  \/ LocalReturns
  \/ Initialised \/ ServerRuns \/ ServerAnswers \/ RunnerRaises
  \/ FutureExpires \/ Collect
  \/ StreamAnswers \/ StreamEmpty \/ PostAnswers \/ HttpFails

-----------------------------------------------------------------------------
(* Properties                                                               *)

\* Whose answer a result is: a success is the answer of the last server
\* asked, which ran the tool, and no later one ran it; an error means that
\* every server was asked; a refused, unknown or local call ran nowhere.  A
\* failed call may have run on several servers, but on each at most once, or
\* twice where a stream is followed by a post.
AnsweredByLast ==
  hop = "done" =>
    /\ \A s \in ServerIds :
         /\ ran[s] <= (IF transport = "http_stream" THEN 2 ELSE 1)
         /\ ran[s] > 0 => s <= server
    /\ result.kind = "ok" => result.from = server /\ ran[server] > 0
    /\ result.kind = "error" => server = Servers
    /\ result.kind \in {"denied", "unknown", "local"} =>
         \A s \in ServerIds : ran[s] = 0
=============================================================================
