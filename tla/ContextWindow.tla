--------------------------- MODULE ContextWindow ---------------------------
(***************************************************************************)
(* Which messages of a session, and how much of each, reach an endpoint:    *)
(* the assembly's window (tail, clip, three-tier token budget) and the      *)
(* model module's history in the wire format.                               *)
(*                                                                          *)
(* A message is [role, form, call, size, body].  form is "text" (one text   *)
(* part), "image" (a user message with an image part), "call" (openai_v1    *)
(* assistant with tool_calls) or "result" (openai_v1 tool message); call    *)
(* is the tool call's id, 0 for none; size is the length of the text; body  *)
(* stands for the content.                                                  *)
(***************************************************************************)
EXTENDS Integers, SequencesExt, Selection

CONSTANTS
  Envelope,       \* length of the JSON around the text of a call or a result
  Tier2Prefix,    \* length of the words a folded turn starts with
  CharsPerToken,  \* 4 in the heuristic counter
  Bodies          \* contents that a property or a comparison tells apart

ASSUME WindowAssumption ==
  /\ Envelope \in Nat
  /\ Tier2Prefix \in Nat
  /\ CharsPerToken \in Nat \ {0}
  /\ "summary" \in Bodies

Roles == {"user", "assistant", "system", "tool"}
Forms == {"text", "image", "omitted", "call", "result"}
Messages == [role : Roles, form : Forms, call : Nat, size : Nat, body : Bodies]

\* render_message_plain_text: a dict part is rendered as JSON.
RenderLen(m) == m.size + (IF m.form \in {"call", "result"} THEN Envelope ELSE 0)

\* approximate_message_tokens
Tokens(m) == IF RenderLen(m) = 0 THEN 0
             ELSE Max({1, RenderLen(m) \div CharsPerToken})

TotalTokens(ms) ==
  LET sum[n \in 0..Len(ms)] == IF n = 0 THEN 0 ELSE sum[n - 1] + Tokens(ms[n])
  IN sum[Len(ms)]

LastOf(ms, n) == SubSeq(ms, Max({1, Len(ms) - n + 1}), Len(ms))

-----------------------------------------------------------------------------
(* The assembly's window                                                    *)

TailMessages(ms, tail) == LastOf(ms, Max({1, Min({200, tail})}))

\* clip_message_for_context: what is too long becomes one plain text part of
\* exactly max characters, whatever it was; multimodal messages stay.
Clip(m, max) ==
  IF max <= 0 \/ m.form = "image" \/ RenderLen(m) <= max THEN m
  ELSE [m EXCEPT !.form = "text", !.call = 0, !.size = max]

\* Tier 1: the body of a tool message, inside its JSON.
Shorten(m, max) ==
  IF m.form = "result" /\ m.size > max THEN [m EXCEPT !.size = max] ELSE m

PlainPair(ms, i) ==
  /\ ms[i].role = "user" /\ ms[i + 1].role = "assistant"
  /\ ms[i].form = "text" /\ ms[i + 1].form = "text"

\* Tier 2, one round: the first plain user and assistant pair becomes one
\* user message.
CollapseFirst(ms, max) ==
  LET pairs == {i \in 1..(Len(ms) - 1) : PlainPair(ms, i)}
      i == Min(pairs)
      merged == [ms[i] EXCEPT !.body = "summary",
                   !.size = Min({max, Tier2Prefix + ms[i].size + ms[i + 1].size})]
  IN IF pairs = {} THEN ms
     ELSE SubSeq(ms, 1, i - 1) \o <<merged>> \o SubSeq(ms, i + 2, Len(ms))

\* Rounds until the tokens fit or no pair is left, max_iter at most.
Collapse(budget, max) ==
  [ms \in Seq(Messages) |-> IF TotalTokens(ms) <= budget THEN ms
                            ELSE CollapseFirst(ms, max)]
CollapseEarly(ms, budget, max) ==
  LET maxIter == Max({1, 2 * Len(ms)})
      after[n \in 0..maxIter] ==
        IF n = 0 THEN ms ELSE Collapse(budget, max)[after[n - 1]]
  IN after[maxIter]

\* Mutation: the message that exceeds the budget is still kept.
TrimOneMore(ms, budget) ==
  LET over == {k \in 1..Len(ms) :
                 TotalTokens(SubSeq(ms, k, Len(ms))) > budget}
  IN IF over = {} THEN ms ELSE SubSeq(ms, Max(over), Len(ms))

\* Tier 3: the newest messages whose tokens fit; the newest one alone if it
\* does not fit by itself.
Trim(ms, budget) ==
  LET fits == {k \in 1..(Len(ms) + 1) :
                 TotalTokens(SubSeq(ms, k, Len(ms))) <= budget}
  IN IF ms # <<>> /\ Tokens(Last(ms)) > budget THEN <<Last(ms)>>
     ELSE SubSeq(ms, Min(fits), Len(ms))

\* A tier whose limit is 0 is skipped; a tier that suffices is the last.
Tier3(lim) ==
  [ms \in Seq(Messages) |-> IF TotalTokens(ms) <= lim.budget THEN ms
                            ELSE Trim(ms, lim.budget)]
Tier2(lim) ==
  [ms \in Seq(Messages) |->
     IF lim.turnMax = 0 THEN Tier3(lim)[ms]
     ELSE Tier3(lim)[CollapseEarly(ms, lim.budget, lim.turnMax)]]
ThreeTier(lim) ==
  [ms \in Seq(Messages) |->
     IF lim.budget = 0 \/ TotalTokens(ms) <= lim.budget THEN ms
     ELSE IF lim.toolMax = 0 THEN Tier2(lim)[ms]
     ELSE Tier2(lim)[[i \in 1..Len(ms) |-> Shorten(ms[i], lim.toolMax)]]]

ClipAll(lim) ==
  [ms \in Seq(Messages) |-> [i \in 1..Len(ms) |-> Clip(ms[i], lim.msgMax)]]

Window(ms, lim) == ThreeTier(lim)[ClipAll(lim)[TailMessages(ms, lim.tail)]]

-----------------------------------------------------------------------------
(* The history in the wire format                                           *)

IsImage(m) == m.role = "user" /\ m.form = "image"

\* apply_user_parts_preprocessing: an image that may not be read, or whose
\* URL is refused, is replaced by words; the message keeps its blocks.
Blocks(m, imagesAllowed) ==
  IF IsImage(m) /\ ~imagesAllowed THEN [m EXCEPT !.form = "omitted"] ELSE m

\* Mutation: every tool message is kept.
KeepAllTools ==
  [history \in Seq(Messages) |->
     SelectSeq(history, LAMBDA m : m.role = "tool" => m.call # 0)]

\* _sanitize_openai_history_messages: a tool message stays if an assistant
\* message before it announced its call; one without an id goes.
Sanitize ==
  [history \in Seq(Messages) |->
     LET announced(n) == {history[i].call : i \in {j \in 1..(n - 1) :
                            history[j].role = "assistant" /\ history[j].call # 0}}
     IN Selected(history, {n \in 1..Len(history) :
          history[n].role = "tool" => history[n].call \in announced(n)})]

\* _render_history_messages_for_model_plain: a trailing image message is
\* taken for the current one and dropped; empty messages are not sent.  The
\* zones _isolate_history_plain_messages puts around texts are not counted.
History(window, maxHistory, imagesAllowed) ==
  LET recent == IF maxHistory > 0 THEN LastOf(window, maxHistory) ELSE window
      past == IF recent # <<>> /\ IsImage(Last(recent)) THEN Front(recent) ELSE recent
      full == {i \in 1..Len(past) : past[i].form = "text" => past[i].size > 0}
      sent == Selected(past, full)
  IN Sanitize[[i \in 1..Len(sent) |-> Blocks(sent[i], imagesAllowed)]]

\* _drop_trailing_user_if_matches_current
DropTrailing(history, current) ==
  IF history # <<>> /\ current.size > 0
     /\ Last(history).role = "user" /\ Last(history).form = "text"
     /\ Last(history).body = current.body /\ Last(history).size = current.size
  THEN Front(history)
  ELSE history
=============================================================================
