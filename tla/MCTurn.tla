------------------------------- MODULE MCTurn -------------------------------
(* Instances of Turn: lengths are scaled down (4 characters are one token,  *)
(* the JSON around a call is 8 long), so that two or three messages exceed  *)
(* a limit.                                                                 *)
EXTENDS Turn

Lim == [tail |-> 20, msgMax |-> 0, budget |-> 0, toolMax |-> 0, turnMax |-> 0,
        maxHistory |-> 10, toolFirst |-> FALSE, outMax |-> 0]

Short == [Lim EXCEPT !.tail = 3]                       \* cuts pairs apart
Recent == [Lim EXCEPT !.maxHistory = 2, !.outMax = 16]
Clipping == [Lim EXCEPT !.msgMax = 16]                 \* clips results
Tiers == [Lim EXCEPT !.budget = 9, !.toolMax = 4, !.turnMax = 12]
Tight == [Lim EXCEPT !.budget = 5]
First == [Lim EXCEPT !.toolFirst = TRUE]

AllLimits == {Short, Recent, Clipping, Tiers, Tight, First}
DefaultLimits == {Lim}

Question(form, size, body, intent) ==
  [form |-> form, size |-> size, body |-> body, intent |-> intent]
Hi == Question("text", 4, "hi", "chat")
Long == Question("text", 24, "long", "chat")
Photo == Question("image", 4, "photo", "chat")
Help == Question("text", 4, "hi", "help")
Tool == Question("text", 4, "hi", "tool")

AllQuestions == {Hi, Long, Photo, Help, Tool}
TwoQuestions == {Hi, Photo}

C(id, name, args) == [id |-> id, name |-> name, args |-> args]
Words == [text |-> <<"a", "b">>, calls |-> <<>>]
NoWords == [text |-> <<" ">>, calls |-> <<>>]
OneCall == [text |-> <<"a">>, calls |-> <<C("x", "mcp", <<"{", "}">>)>>]
TwoCalls == [text |-> <<>>,
             calls |-> <<C("", "echo", <<"{", "}">>), C("y", "mcp", <<"{}">>)>>]
CallOf(name) == [text |-> <<>>, calls |-> <<C("x", name, <<"{}">>)>>]

AllAnswers == {Words, NoWords, OneCall, TwoCalls, CallOf("rm"), CallOf("other")}
TwoAnswers == {Words, CallOf("echo")}

W(listens, tools, toolStream) ==
  [listens |-> listens, stream |-> TRUE, tools |-> tools, toolStream |-> toolStream]
Unheard == W(FALSE, TRUE, TRUE)
AllWires == {Unheard, W(TRUE, TRUE, FALSE), W(TRUE, TRUE, TRUE), W(TRUE, FALSE, FALSE)}

\* Sessions with two plain turns, and with a long tool result and an image
\* whose request had no reply.
PlainTurns == <<UserMessage(Hi), AssistantText(8), UserMessage(Long), AssistantText(8)>>
Mixed == <<UserMessage(Hi), CallMessage(2), ResultMessage(2, 24), AssistantText(8),
           UserMessage(Photo)>>
AllHistories == {<<>>, PlainTurns, Mixed}

\* Retrieval with a rerank of two candidates, without one but with a remote
\* service, and by vectors only beside a service that needs approval.
Pol == [enabled |-> FALSE, fts |-> TRUE, rerank |-> TRUE, rerankMax |-> 2, topK |-> 1,
        remote |-> "off"]
Rerank == [Pol EXCEPT !.enabled = TRUE]
Plain == [Rerank EXCEPT !.rerank = FALSE, !.topK = 2, !.remote = "on"]
Vectors == [Rerank EXCEPT !.fts = FALSE, !.topK = 2, !.remote = "approval"]
Recalling == {Rerank, Plain, Vectors}
NoRecall == {Pol}
AllPolicies == {Pol} \cup Recalling

\* Three memories: each with some of the question's two words, of which the
\* search takes one; the last not embedded yet, deleted, or of another channel.
Row(words) == [words |-> words, pending |-> FALSE, live |-> TRUE, channel |-> TRUE]
Ch(m, sim) == [memory |-> m, sim |-> sim]
LastRows == {Row({}), [Row({1}) EXCEPT !.pending = TRUE], [Row({1, 2}) EXCEPT !.live = FALSE],
             [Row({1, 2}) EXCEPT !.channel = FALSE], Row({2})}
ChunkTables ==
  {<<Ch("m1", 1), Ch("m2", 2), Ch("m3", 3)>>,
   <<Ch("m2", 1), Ch("m1", 2), Ch("m2", 2), Ch("m3", 1), Ch("m3", 3)>>,
   <<Ch("m3", 2), Ch("m1", 2)>>}
SomeMemories ==
  {[rows |-> [m1 |-> Row(v), m2 |-> Row(w), m3 |-> last],
    fts |-> <<"m2", "m1", "m3">>, chunks |-> c, remote |-> <<"m4", "m1", "m4">>] :
     v \in {{1}, {1, 2}}, w \in {{}, {2}}, last \in LastRows, c \in ChunkTables}

\* Every way to cut a context, with a local tool; every wire, every bridge
\* and every retrieval.
AllSetups ==
  {<<l, TRUE, Pol, Unheard, "none", h>> :
      l \in {Short, Clipping, Tiers, Tight}, h \in {PlainTurns, Mixed}}
    \cup {<<Recent, FALSE, Pol, Unheard, "none", h>> : h \in AllHistories}
    \cup {<<First, TRUE, Pol, w, "none", <<>>>> : w \in AllWires}
    \cup {<<First, TRUE, Pol, Unheard, b, <<>>>> : b \in {"stdio", "http", "http_stream"}}
    \cup {<<First, TRUE, p, Unheard, "none", <<>>>> : p \in Recalling}
OneSetup == {<<Lim, TRUE, Pol, Unheard, "none", <<>>>>}
=============================================================================
