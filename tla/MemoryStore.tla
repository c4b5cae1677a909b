----------------------------- MODULE MemoryStore -----------------------------
(***************************************************************************)
(* The long-term memory of one user: MemoryOrchestrator on request threads *)
(* and its embedding worker, over SqliteDualMemoryStore.  Every method of  *)
(* the store is one commit under one lock, hence one step; an operation of *)
(* the orchestrator is several.  A row goes through insert_item, its FTS   *)
(* row and, now or by way of the queue, its chunks.                        *)
(***************************************************************************)
EXTENDS Naturals, Sequences, FiniteSets

CONSTANTS
  Threads,     \* request threads
  Worker,      \* the thread of _worker_loop
  Policies,    \* policies and limits to consider
  Views,       \* sets of rows that a channel may see
  Ops,         \* operations the threads call
  Keys,        \* keys of preferences
  Like,        \* keys whose bodies match the LIKE pattern made of a key
  MaxItems,    \* bound: rows inserted
  Parts,       \* chunks of a body
  Failing,     \* the embedding provider may raise
  Crashes,     \* the process may die and restart
  MaxRequests  \* bound: operations called

Positive == Nat \ {0}

ASSUME MemoryAssumption ==
  /\ Worker \notin Threads
  /\ Policies \subseteq
       [async : BOOLEAN, forgotten : Positive, purged : Positive,
        listed : Positive, hits : Positive, chunks : Positive,
        candidates : Positive, top : Positive]
  /\ Views \subseteq SUBSET (1..MaxItems)
  /\ Like \in [Keys -> SUBSET Keys] /\ \A k \in Keys : k \in Like[k]
  /\ {"note", "fact"} \cap Keys = {}
  /\ MaxItems \in Nat /\ Parts \in Nat \ {0} /\ MaxRequests \in Nat
  /\ Failing \in BOOLEAN /\ Crashes \in BOOLEAN

VARIABLES
  policy,     \* MemoryPolicyConfig and the limits of the store's queries
  item,       \* rows of memory_items, numbered as they are inserted
  embedding,  \* their embedding_status
  about,      \* a preference's key, or the kind of the row
  fts,        \* ids with a row in memory_fts
  chunks,     \* the chunks of each id in memory_vectors
  queue,      \* the orchestrator's in-memory queue
  pc, call,   \* where each thread stands, and its locals
  acked,      \* history: ids whose ingest_record has returned
  torn,       \* history: ids tombstoned while they were being embedded
  again,      \* history: ids re-indexed while an embedding was outstanding
  contended,  \* history: keys set by two overlapping calls
  lost,       \* history: pending ids whose embedding raised or died
  requests    \* operations called so far (bounded by MaxRequests)

tables == <<item, embedding, about, fts, chunks>>
ghosts == <<acked, torn, again, contended, lost>>
vars == <<policy, tables, queue, pc, call, ghosts, requests>>

Actors == Threads \cup {Worker}
Ids == 1..MaxItems
Live == {id \in Ids : item[id] = "live"}
Rows == {id \in Ids : item[id] \in {"live", "tombstone"}}

\* Locals of a thread that does nothing.
Idle == [op |-> "none", key |-> "note", mid |-> 0, part |-> 1,
         todo |-> {}, hits |-> {}, found |-> {}, view |-> {}, must |-> {},
         never |-> {}]

Init ==
  /\ policy \in Policies
  /\ item = [id \in Ids |-> "none"]
  /\ embedding = [id \in Ids |-> "none"]
  /\ about = [id \in Ids |-> "note"]
  /\ fts = {}
  /\ chunks = [id \in Ids |-> {}]
  /\ queue = <<>>
  /\ pc = [a \in Actors |-> "free"]
  /\ call = [a \in Actors |-> Idle]
  /\ acked = {} /\ torn = {} /\ again = {} /\ contended = {} /\ lost = {}
  /\ requests = 0

Goto(a, l) == pc' = [pc EXCEPT ![a] = l]
Done(a) == Goto(a, "free") /\ call' = [call EXCEPT ![a] = Idle]

\* ORDER BY created_at DESC LIMIT 1.
Newest(S) == {id \in S : \A j \in S : j <= id}
\* SELECT ... LIMIT n, in an order of the database's own.
Some(S, n) ==
  {T \in SUBSET S :
     \/ T = S /\ Cardinality(S) <= n
     \/ Cardinality(T) = n}
\* fetchone(); 0 stands for None.
OrNone(S) == IF S = {} THEN {0} ELSE S

Called(op) ==
  /\ op \in Ops
  /\ requests < MaxRequests
  /\ requests' = requests + 1

\* A request whose gates have let it pass calls the orchestrator.
Start(t, op, l, key) ==
  /\ pc[t] = "free"
  /\ Called(op)
  /\ call' = [call EXCEPT ![t] = [Idle EXCEPT !.op = op, !.key = key]]
  /\ Goto(t, l)
  /\ UNCHANGED <<policy, tables, queue, acked, torn, again, lost>>

-----------------------------------------------------------------------------
(* The commands of the core                                                 *)

Remember(t) == Start(t, "ingest", "insert", "note") /\ UNCHANGED contended
AddFact(t) == Start(t, "ingest", "insert", "fact") /\ UNCHANGED contended

\* /archive promotes the dialogue and then a link to the session.
PromoteArchivedSession(t) ==
  Start(t, "promote", "insert", "note") /\ UNCHANGED contended

SetPreference(t, k) ==
  /\ Start(t, "set", "lookup", k)
  /\ contended' = IF \E u \in Threads : call[u].op = "set" /\ call[u].key = k
                   THEN contended \cup {k} ELSE contended

DeletePreference(t, k) ==
  Start(t, "delete", "lookup", k) /\ UNCHANGED contended

DeleteFact(t) == Start(t, "delete", "lookup", "fact") /\ UNCHANGED contended

\* list_active_memory_ids_for_user: the latest n.
Latest(n) == {id \in Live : Cardinality({j \in Live : j > id}) < n}

ReindexUserMemories(t) ==
  /\ pc[t] = "free"
  /\ Called("reindex")
  /\ call' = [call EXCEPT ![t] =
       [Idle EXCEPT !.op = "reindex", !.todo = Latest(policy.listed)]]
  /\ Goto(t, "reindex")
  /\ UNCHANGED <<policy, tables, queue, ghosts>>

-----------------------------------------------------------------------------
(* Tombstones                                                               *)

Embeds(a, id) == pc[a] \in {"clear", "chunk"} /\ call[a].mid = id

\* One commit: the rows, their FTS rows and their chunks.
Tombstone(S) ==
  /\ item' = [id \in Ids |-> IF id \in S \cap Rows THEN "tombstone"
                             ELSE item[id]]
  /\ fts' = fts \ S
  /\ chunks' = [id \in Ids |-> IF id \in S THEN {} ELSE chunks[id]]
  /\ torn' = torn \cup {id \in S : \E a \in Actors : Embeds(a, id)}
  /\ UNCHANGED <<embedding, about>>

\* /forget tombstones the live rows that contain the phrase, up to a limit.
ForgetPhrase(t) ==
  /\ pc[t] = "free"
  /\ Called("forget")
  /\ \E S \in SUBSET Live :
       /\ S # {} /\ Cardinality(S) <= policy.forgotten
       /\ Tombstone(S)
  /\ UNCHANGED <<policy, queue, pc, call, acked, again, contended, lost>>

\* Only the rows: their FTS rows and chunks went with the tombstone.
PurgeTombstonedRows(t) ==
  /\ pc[t] = "free"
  /\ Called("purge")
  /\ \E S \in Some({id \in Ids : item[id] = "tombstone"}, policy.purged) :
       /\ S # {}
       /\ item' = [id \in Ids |-> IF id \in S THEN "purged" ELSE item[id]]
  /\ UNCHANGED <<policy, embedding, about, fts, chunks, queue, pc, call,
                 ghosts>>

\* Mutation: rows whose embedding is pending are not looked at.
ReadyMatches(t) ==
  IF call[t].key = "fact"
  THEN {0} \cup {id \in Live : about[id] = "fact"}
  ELSE OrNone(Newest({id \in Live : /\ about[id] \in Like[call[t].key]
                                    /\ embedding[id] = "ready"}))

\* get_preference_row: the newest live row LIKE "key=%"; get_fact_row: one
\* with the prefix.
Matches(t) ==
  IF call[t].key = "fact"
  THEN {0} \cup {id \in Live : about[id] = "fact"}
  ELSE OrNone(Newest({id \in Live : about[id] \in Like[call[t].key]}))

LookUp(t) ==
  /\ pc[t] = "lookup"
  /\ \E id \in Matches(t) :
       \/ /\ id # 0
          /\ call' = [call EXCEPT ![t].mid = id]
          /\ Goto(t, "tombstone")
       \/ id = 0 /\ call[t].op = "set" /\ Goto(t, "insert") /\ UNCHANGED call
       \/ id = 0 /\ call[t].op = "delete" /\ Done(t)
  /\ UNCHANGED <<policy, tables, queue, ghosts, requests>>

\* The row found may have been tombstoned, or purged, by another thread.
TombstoneItem(t) ==
  /\ pc[t] = "tombstone"
  /\ Tombstone({call[t].mid})
  /\ IF call[t].op = "set"
     THEN call' = [call EXCEPT ![t].mid = 0] /\ Goto(t, "insert")
     ELSE Done(t)
  /\ UNCHANGED <<policy, queue, acked, again, contended, lost, requests>>

-----------------------------------------------------------------------------
(* ingest_record                                                            *)

InsertItem(t) ==
  /\ pc[t] = "insert"
  /\ \E id \in Ids :
       /\ \A i \in Ids : item[i] # "none" <=> i < id
       /\ item' = [item EXCEPT ![id] = "live"]
       /\ embedding' = [embedding EXCEPT ![id] = "pending"]
       /\ about' = [about EXCEPT ![id] = call[t].key]
       /\ call' = [call EXCEPT ![t].mid = id]
  /\ Goto(t, "fts")
  /\ UNCHANGED <<policy, fts, chunks, queue, ghosts, requests>>

\* Mutation: the FTS row is written from the record, not from the table.
SyncUnconditional(t) ==
  /\ pc[t] = "fts"
  /\ fts' = fts \cup {call[t].mid}
  /\ Goto(t, IF policy.async THEN "put" ELSE "read")
  /\ UNCHANGED <<policy, item, embedding, about, chunks, queue, call, ghosts,
                 requests>>

\* sync_fts_for_memory_id reads the row again, in the same transaction.
SyncFts(t) ==
  /\ pc[t] = "fts"
  /\ fts' = (fts \ {call[t].mid}) \cup ({call[t].mid} \cap Live)
  /\ Goto(t, IF policy.async THEN "put" ELSE "read")
  /\ UNCHANGED <<policy, item, embedding, about, chunks, queue, call, ghosts,
                 requests>>

\* What a thread was asked to do with one row is done: /archive has a second
\* record to ingest, a re-indexing goes on, anything else returns.
Return(t) ==
  \/ /\ call[t].op = "promote"
     /\ call' = [call EXCEPT ![t] = [Idle EXCEPT !.op = "ingest"]]
     /\ Goto(t, "insert")
  \/ /\ call[t].op = "reindex"
     /\ call' = [call EXCEPT ![t] = [@ EXCEPT !.mid = 0, !.part = 1]]
     /\ Goto(t, "reindex")
  \/ call[t].op \notin {"promote", "reindex"} /\ Done(t)

\* ingest_record returns the id.
Acknowledge(t) ==
  acked' = IF call[t].op \in {"ingest", "promote", "set"}
           THEN acked \cup {call[t].mid} ELSE acked

Put(t) ==
  /\ pc[t] = "put"
  /\ queue' = Append(queue, call[t].mid)
  /\ Return(t)
  /\ Acknowledge(t)
  /\ UNCHANGED <<policy, tables, torn, again, contended, lost, requests>>

-----------------------------------------------------------------------------
(* reindex_user_memories                                                    *)

\* The next id of the list, newest first; a row that was tombstoned since is
\* skipped.
ReindexNext(t) ==
  /\ pc[t] = "reindex" /\ call[t].todo # {}
  /\ \E id \in Newest(call[t].todo) :
        \/ /\ id \in Live
           /\ call' = [call EXCEPT ![t] =
                [@ EXCEPT !.todo = call[t].todo \ {id}, !.mid = id]]
           /\ Goto(t, "mark")
        \/ /\ id \notin Live
           /\ call' = [call EXCEPT ![t].todo = @ \ {id}]
           /\ UNCHANGED pc
  /\ UNCHANGED <<policy, tables, queue, ghosts, requests>>

SetStatus(id, st) ==
  embedding' = IF id \in Rows THEN [embedding EXCEPT ![id] = st] ELSE embedding

\* Another embedding of the row is queued or under way.
Outstanding(t, id) ==
  \/ \E i \in DOMAIN queue : queue[i] = id
  \/ \E a \in Actors \ {t} : pc[a] # "tombstone" /\ call[a].mid = id

MarkPending(t) ==
  /\ pc[t] = "mark"
  /\ SetStatus(call[t].mid, "pending")
  /\ again' = IF Outstanding(t, call[t].mid) THEN again \cup {call[t].mid}
              ELSE again
  /\ Goto(t, IF policy.async THEN "put" ELSE "read")
  /\ UNCHANGED <<policy, item, about, fts, chunks, queue, call, acked, torn,
                 contended, lost, requests>>

\* flush_embedding_queue, beside the worker on the same queue.
FlushQueue(t) ==
  /\ pc[t] = "reindex" /\ call[t].todo = {}
  /\ \/ /\ policy.async /\ queue # <<>>
        /\ call' = [call EXCEPT ![t].mid = Head(queue)]
        /\ queue' = Tail(queue)
        /\ Goto(t, "read")
     \/ /\ ~policy.async \/ queue = <<>>
        /\ Done(t)
        /\ UNCHANGED queue
  /\ UNCHANGED <<policy, tables, ghosts, requests>>

-----------------------------------------------------------------------------
(* _embed_one_sync, by the worker or a request thread                       *)

TakeFromQueue ==
  /\ pc[Worker] = "free"
  /\ queue # <<>>
  /\ call' = [call EXCEPT ![Worker] = [@ EXCEPT !.op = "worker",
                                              !.mid = Head(queue)]]
  /\ queue' = Tail(queue)
  /\ Goto(Worker, "read")
  /\ UNCHANGED <<policy, tables, ghosts, requests>>

ReadRow(a) ==
  /\ pc[a] = "read"
  /\ \/ call[a].mid \in Live /\ Goto(a, "clear") /\ UNCHANGED <<call, acked>>
     \/ call[a].mid \notin Live /\ Return(a) /\ Acknowledge(a)
  /\ UNCHANGED <<policy, tables, queue, torn, again, contended, lost,
                 requests>>

ClearMemory(a) ==
  /\ pc[a] = "clear"
  /\ chunks' = [chunks EXCEPT ![call[a].mid] = {}]
  /\ Goto(a, "chunk")
  /\ UNCHANGED <<policy, item, embedding, about, fts, queue, call, ghosts,
                 requests>>

\* Mutation: the range of the chunks is one too long.
InsertOneMore(a) ==
  /\ pc[a] = "chunk"
  /\ call[a].part \notin chunks[call[a].mid]
  /\ chunks' = [chunks EXCEPT ![call[a].mid] = @ \cup {call[a].part}]
  /\ IF call[a].part > Parts
     THEN Goto(a, "ready") /\ UNCHANGED call
     ELSE call' = [call EXCEPT ![a].part = @ + 1] /\ UNCHANGED pc
  /\ UNCHANGED <<policy, item, embedding, about, fts, queue, ghosts,
                 requests>>

InsertChunk(a) ==
  /\ pc[a] = "chunk"
  /\ call[a].part \notin chunks[call[a].mid]
  /\ chunks' = [chunks EXCEPT ![call[a].mid] = @ \cup {call[a].part}]
  /\ IF call[a].part = Parts
     THEN Goto(a, "ready") /\ UNCHANGED call
     ELSE call' = [call EXCEPT ![a].part = @ + 1] /\ UNCHANGED pc
  /\ UNCHANGED <<policy, item, embedding, about, fts, queue, ghosts,
                 requests>>

SetReady(a) ==
  /\ pc[a] = "ready"
  /\ SetStatus(call[a].mid, "ready")
  /\ Return(a)
  /\ Acknowledge(a)
  /\ UNCHANGED <<policy, item, about, fts, chunks, queue, torn, again,
                 contended,
                 lost, requests>>

\* Mutation: the worker goes on with what it has.
RestSkipped(a) ==
  /\ pc[a] = "chunk"
  /\ Failing \/ call[a].part \in chunks[call[a].mid]
  /\ \/ a = Worker /\ Goto(a, "ready") /\ UNCHANGED <<call, lost>>
     \/ a # Worker /\ Done(a) /\ lost' = lost \cup {call[a].mid}
  /\ UNCHANGED <<policy, tables, queue, acked, torn, again, contended,
                 requests>>

\* The provider raises, or the chunk is there already (its id is the primary
\* key) because another thread embeds the same row: an exception that ends a
\* request, and that only the worker handles.
EmbeddingRaises(a) ==
  /\ pc[a] = "chunk"
  /\ Failing \/ call[a].part \in chunks[call[a].mid]
  /\ \/ a = Worker /\ Goto(a, "failed") /\ UNCHANGED <<call, lost>>
     \/ a # Worker /\ Done(a) /\ lost' = lost \cup {call[a].mid}
  /\ UNCHANGED <<policy, tables, queue, acked, torn, again, contended,
                 requests>>

\* Mutation: the worker swallows the exception.
LeavePending ==
  /\ pc[Worker] = "failed"
  /\ Done(Worker)
  /\ UNCHANGED <<policy, tables, queue, ghosts, requests>>

SetFailed ==
  /\ pc[Worker] = "failed"
  /\ SetStatus(call[Worker].mid, "failed")
  /\ Done(Worker)
  /\ UNCHANGED <<policy, item, about, fts, chunks, queue, ghosts, requests>>

-----------------------------------------------------------------------------
(* retrieve_for_context                                                     *)

\* The words of the query match every body, or none of them: then fts_search
\* finds nothing and only vectors do.  The channel of the request may see some
\* of the rows.
FtsSearch(t) ==
  /\ pc[t] = "free"
  /\ Called("retrieve")
  /\ \E view \in Views, words \in BOOLEAN :
       \E hits \in Some(IF words THEN fts \cap Live ELSE {}, policy.hits) :
         call' = [call EXCEPT ![t] =
           [Idle EXCEPT !.op = "retrieve",
                        !.hits = hits,
                        !.view = view,
                        !.must = IF words THEN acked \cap Live \cap view
                                 ELSE {},
                        !.never = {id \in Ids :
                                     item[id] \in {"tombstone", "purged"}}]]
  /\ Goto(t, "vectors")
  /\ UNCHANGED <<policy, tables, queue, ghosts>>

\* search_cosine looks at chunks of the user, whatever their rows, and
\* returns the best.
SearchCosine(t) ==
  /\ pc[t] = "vectors"
  /\ \/ /\ \E V \in Some({c \in Ids \X (1..Parts) : c[2] \in chunks[c[1]]},
                         policy.chunks) :
             call' = [call EXCEPT ![t].todo =
                        call[t].hits \cup {v[1] : v \in V}]
        /\ Goto(t, "rows")
     \/ Failing /\ Done(t)
  /\ UNCHANGED <<policy, tables, queue, ghosts, requests>>

\* Mutation: candidates are trusted.
AnyCandidate(t, id) ==
  /\ id \in call[t].view
  /\ embedding[id] # "pending" \/ id \in call[t].hits

\* Which candidates become snippets when their rows are read.
Qualifies(t, id) ==
  /\ id \in Live
  /\ id \in call[t].view
  /\ embedding[id] # "pending" \/ id \in call[t].hits

\* The rows are read one by one, in the order of their fused rank.
ReadCandidate(t, id) ==
  /\ pc[t] = "rows" /\ id \in call[t].todo
  /\ Cardinality(call[t].found) < policy.candidates
  /\ call' = [call EXCEPT ![t] =
       [@ EXCEPT !.todo = call[t].todo \ {id},
                 !.found = IF Qualifies(t, id) THEN call[t].found \cup {id}
                           ELSE call[t].found]]
  /\ UNCHANGED <<policy, tables, queue, pc, ghosts, requests>>

\* The rerank orders the snippets and keeps retrieve_top_k of them.
Rerank(t) ==
  /\ pc[t] = "rows"
  /\ call[t].todo = {} \/ Cardinality(call[t].found) >= policy.candidates
  /\ \E kept \in Some(call[t].found, policy.top) :
       call' = [call EXCEPT ![t].found = kept]
  /\ Goto(t, "answer")
  /\ UNCHANGED <<policy, tables, queue, ghosts, requests>>

Answer(t) ==
  /\ pc[t] = "answer"
  /\ Done(t)
  /\ UNCHANGED <<policy, tables, queue, ghosts, requests>>

\* Threads, their locals and the queue die with the process; each method of
\* the store is one transaction.
Crash ==
  /\ Crashes
  /\ queue # <<>> \/ \E a \in Actors : pc[a] # "free"
  /\ pc' = [a \in Actors |-> "free"]
  /\ call' = [a \in Actors |-> Idle]
  /\ queue' = <<>>
  /\ lost' = lost \cup {id \in Live : embedding[id] = "pending"}
  /\ UNCHANGED <<policy, tables, acked, torn, again, contended, requests>>

Receive(t) ==
  \/ Remember(t) \/ AddFact(t) \/ PromoteArchivedSession(t)
  \/ \E k \in Keys : SetPreference(t, k) \/ DeletePreference(t, k)
  \/ DeleteFact(t) \/ ReindexUserMemories(t) \/ ForgetPhrase(t)
  \/ PurgeTombstonedRows(t) \/ FtsSearch(t)

Embed(a) ==
  \/ ReadRow(a) \/ ClearMemory(a) \/ InsertChunk(a) \/ SetReady(a)
  \/ EmbeddingRaises(a)

Step(t) ==
  \/ LookUp(t) \/ TombstoneItem(t)
  \/ InsertItem(t) \/ SyncFts(t) \/ Put(t)
  \/ ReindexNext(t) \/ MarkPending(t) \/ FlushQueue(t)
  \/ Embed(t)
  \/ SearchCosine(t) \/ \E id \in Ids : ReadCandidate(t, id)
  \/ Rerank(t) \/ Answer(t)

WorkerStep == TakeFromQueue \/ Embed(Worker) \/ SetFailed

Next ==
  \/ \E t \in Threads : Receive(t) \/ Step(t)
  \/ WorkerStep
  \/ Crash

Spec == Init /\ [][Next]_vars

-----------------------------------------------------------------------------
(* Properties                                                               *)

Labels == {"free", "lookup", "tombstone", "insert", "fts", "put", "reindex",
           "mark", "read", "clear", "chunk", "ready", "failed", "vectors",
           "rows", "answer"}

Locals ==
  [op : Ops \cup {"none", "ingest", "worker"}, key : Keys \cup {"note", "fact"},
   mid : Ids \cup {0}, part : 1..Parts, todo : SUBSET Ids, hits : SUBSET Ids,
   found : SUBSET Ids, view : SUBSET Ids, must : SUBSET Ids,
   never : SUBSET Ids]

Indexing == {"fts", "put", "read", "clear", "chunk", "ready", "failed"}

\* Every variable keeps its type.
TypeOK ==
  /\ policy \in Policies
  /\ item \in [Ids -> {"none", "live", "tombstone", "purged"}]
  /\ embedding \in [Ids -> {"none", "pending", "ready", "failed"}]
  /\ about \in [Ids -> Keys \cup {"note", "fact"}]
  /\ fts \subseteq Ids
  /\ chunks \in [Ids -> SUBSET (1..Parts)]
  /\ queue \in Seq(Ids)
  /\ pc \in [Actors -> Labels]
  /\ call \in [Actors -> Locals]
  /\ acked \cup torn \cup again \cup lost \subseteq Ids
  /\ contended \subseteq Keys
  /\ requests \in Nat

\* The answer is as long as the policy lets it be.
FullAnswer(t) ==
  \/ Cardinality(call[t].found) >= policy.candidates
  \/ Cardinality(call[t].found) >= policy.top

\* The word search was cut off before the row.
CutOff(t, id) ==
  Cardinality(call[t].hits) = policy.hits /\ id \notin call[t].hits

\* A retrieval returns, within its limit, rows that its channel may see and
\* that were not deleted when it began.  An acknowledged one that its words
\* match is missing only if it was deleted meanwhile, if the word search was
\* full without it, or if the answer is full - whatever the embedding of the
\* row is about to do.
RetrievalFaithful ==
  \A t \in Threads :
    pc[t] = "answer" =>
      /\ Cardinality(call[t].found) <= policy.top
      /\ call[t].found \subseteq call[t].view \ call[t].never
      /\ \A id \in (call[t].must \cap Live) \ call[t].found :
           CutOff(t, id) \/ FullAnswer(t)

\* A deleted memory has no FTS row, and chunks only if it was deleted between
\* the read and the last write of an embedding.
LeftoversExplained ==
  \A id \in Ids \ Live :
    /\ id \notin fts
    /\ chunks[id] # {} => id \in torn

\* A row called ready has all its chunks, unless two embeddings of it met.
ReadyMeansEmbedded ==
  \A id \in Live \ again :
    embedding[id] = "ready" => chunks[id] = 1..Parts

\* set_preference replaces: calls that do not overlap leave one live row of a
\* key (of a key that is no pattern for others).
PreferenceUnique ==
  \A k \in Keys \ contended :
    Like[k] = {k} => Cardinality({id \in Live : about[id] = k}) <= 1

\* A pending row is queued, or a thread is about to queue, embed or give it
\* up, unless the exception went to a request or the process died.
PendingIsOnItsWay ==
  \A id \in Live \ lost :
    embedding[id] = "pending" =>
      \/ \E i \in DOMAIN queue : queue[i] = id
      \/ \E a \in Actors : call[a].mid = id /\ pc[a] \in Indexing

\* ports.py and the change log say vectors and FTS rows were cleaned when a
\* row was tombstoned: a purge may delete the row alone.  When nothing is
\* under way, no deleted memory has left a chunk.
ForgottenLeavesNothing ==
  (queue = <<>> /\ \A a \in Actors : pc[a] = "free") =>
    \A id \in Ids \ Live : chunks[id] = {} /\ id \notin fts
=============================================================================
