-------------------------- MODULE MemoryStoreProofs --------------------------
(***************************************************************************)
(* Whatever the number of threads, rows and requests: a retrieval is       *)
(* faithful, a deletion leaves nothing but what an embedding under way     *)
(* puts back, a pending row is on its way, a ready one has its chunks, and *)
(* a preference has one row.                                               *)
(***************************************************************************)
EXTENDS MemoryStore, SequenceTheorems, FiniteSetTheorems, TLAPS

Dead == {id \in Ids : item[id] \in {"tombstone", "purged"}}

\* A row at hand, or queued, was inserted ...
MidInv ==
  /\ \A a \in Actors :
       pc[a] \in Indexing \cup {"tombstone", "mark"} =>
         call[a].mid \in Live \cup Dead
  /\ \A i \in DOMAIN queue : queue[i] \in Live \cup Dead

\* ... and who re-indexes.
OpInv ==
  \A a \in Actors : pc[a] \in {"reindex", "mark"} => call[a].op = "reindex"

\* A row about to get chunks is live, or was deleted under the embedding.
EmbedInv ==
  \A a \in Actors :
    pc[a] \in {"clear", "chunk"} => call[a].mid \in Live \cup torn

\* What ingest_record has indexed stays indexed until it is deleted.
FtsInv ==
  /\ acked \subseteq fts \cup Dead
  /\ \A a \in Actors :
       (/\ pc[a] \in Indexing \ {"fts"}
        /\ call[a].op \in {"ingest", "promote", "set"})
         => call[a].mid \in fts \cup Dead

\* What a retrieval under way holds, and where a row is that it must find.
RetrInv ==
  \A t \in Threads :
    pc[t] \in {"vectors", "rows", "answer"} =>
      /\ call[t].never \subseteq Dead
      /\ call[t].hits \subseteq Live \cup Dead
      /\ call[t].found \subseteq call[t].view \ call[t].never
      /\ call[t].must \subseteq call[t].view
      /\ pc[t] = "answer" => Cardinality(call[t].found) <= policy.top
      /\ \A id \in call[t].must \ Dead :
           \/ CutOff(t, id)
           \/ pc[t] = "vectors" /\ id \in call[t].hits
           \/ pc[t] = "rows" /\ id \in call[t].todo \cap call[t].hits
           \/ pc[t] \in {"rows", "answer"} /\ id \in call[t].found
           \/ pc[t] = "answer" /\ FullAnswer(t)

IInv ==
  /\ TypeOK /\ MidInv /\ OpInv /\ EmbedInv /\ FtsInv /\ RetrInv
  /\ LeftoversExplained /\ PendingIsOnItsWay
-----------------------------------------------------------------------------
(* Proofs                                                                   *)

\* Locals at rest.
LEMMA IdleType == Idle \in Locals
BY MemoryAssumption DEF Idle, Locals, Ids

\* Locals of which one call changes some.
LEMMA LocalsType ==
  ASSUME NEW r \in Locals
  PROVE  /\ \A m \in Ids \cup {0} :
              /\ [r EXCEPT !.mid = m] \in Locals
              /\ [r EXCEPT !.mid = m, !.part = 1] \in Locals
              /\ [r EXCEPT !.op = "worker", !.mid = m] \in Locals
         /\ \A n \in 1..Parts : [r EXCEPT !.part = n] \in Locals
         /\ \A S \in SUBSET Ids :
              /\ [r EXCEPT !.todo = S] \in Locals
              /\ [r EXCEPT !.found = S] \in Locals
              /\ \A m \in Ids : [r EXCEPT !.todo = S, !.mid = m] \in Locals
              /\ \A F \in SUBSET Ids :
                   [r EXCEPT !.todo = S, !.found = F] \in Locals
<1>1. 1 \in 1..Parts
  BY MemoryAssumption
<1>2. QED
  BY <1>1 DEF Locals

\* The inductive invariant holds initially.
LEMMA InitInv == Init => IInv
<1> SUFFICES ASSUME Init PROVE IInv
  OBVIOUS
<1> USE MemoryAssumption DEF Init
<1>1. TypeOK
  BY IdleType DEF TypeOK, Labels
<1>2. MidInv /\ OpInv /\ EmbedInv /\ RetrInv
  BY DEF MidInv, OpInv, EmbedInv, RetrInv, Indexing, Actors
<1>3. FtsInv
  BY DEF FtsInv, Indexing
<1>4. LeftoversExplained /\ PendingIsOnItsWay
  BY DEF LeftoversExplained, PendingIsOnItsWay, Live
<1>5. QED
  BY <1>1, <1>2, <1>3, <1>4 DEF IInv

\* The last thing a call on a row does to the locals.
LEMMA ReturnType ==
  ASSUME TypeOK, NEW a \in Actors, Return(a)
  PROVE  pc' \in [Actors -> Labels] /\ call' \in [Actors -> Locals]
<1> USE MemoryAssumption, IdleType DEF TypeOK, Goto, Done, Labels
<1>1. CASE call[a].op = "promote"
  <2>1. [Idle EXCEPT !.op = "ingest"] \in Locals
    BY DEF Locals, Idle
  <2>2. QED
    BY <1>1, <2>1 DEF Return
<1>2. CASE call[a].op = "reindex"
  <2>1. call[a] \in Locals
    OBVIOUS
  <2>0. 0 \in Ids \cup {0}
    OBVIOUS
  <2>2. [call[a] EXCEPT !.mid = 0, !.part = 1] \in Locals
    BY ONLY <2>0, <2>1, LocalsType
  <2>4. call' = [call EXCEPT ![a] = [call[a] EXCEPT !.mid = 0, !.part = 1]]
    BY <1>2 DEF Return
  <2>3. QED
    BY <1>2, <2>2, <2>4 DEF Return
<1>3. CASE call[a].op \notin {"promote", "reindex"}
  BY SMTT(60), <1>3 DEF Return
<1>4. QED
  BY <1>1, <1>2, <1>3

\* Types.
LEMMA TypeStep ==
  TypeOK /\ MidInv /\ [Next]_vars => TypeOK'
<1> SUFFICES ASSUME TypeOK, MidInv, [Next]_vars PROVE TypeOK'
  OBVIOUS
<1>a. pc \in [Actors -> Labels] /\ call \in [Actors -> Locals]
  BY DEF TypeOK
<1> USE <1>a, IdleType DEF Goto, Labels, tables, ghosts
<1> DEFINE ControlOK == /\ pc' \in [Actors -> Labels]
                        /\ call' \in [Actors -> Locals]
<1>b. \A a \in Actors : pc[a] \in Indexing \cup {"tombstone", "mark"} =>
                          call[a].mid \in Ids
  BY DEF MidInv, Live, Dead
<1>0. \A a \in Actors : call[a] \in Locals /\ call[a].mid \in Ids \cup {0}
                        /\ call[a].part \in 1..Parts
                        /\ call[a].key \in Keys \cup {"note", "fact"}
  BY DEF Locals
<1>1. ASSUME NEW t \in Threads, NEW o, NEW l \in Labels,
             NEW k \in Keys \cup {"note", "fact"},
             Start(t, o, l, k), contended' \subseteq Keys
      PROVE  TypeOK'
  <2>1. o \in Ops
    BY <1>1 DEF TypeOK, Start, Called
  <2>2. [Idle EXCEPT !.op = o, !.key = k] \in Locals
    BY <2>1 DEF Locals, Idle
  <2>3. ControlOK
    BY <1>1, <2>2 DEF Start
  <2>4. QED
    BY <1>1, <2>3 DEF TypeOK, Start, Called
<1>2. ASSUME NEW t \in Threads, Receive(t) PROVE TypeOK'
  <2>1. CASE Remember(t) \/ AddFact(t) \/ PromoteArchivedSession(t)
    BY <1>1, <2>1 DEF TypeOK, Remember, AddFact, PromoteArchivedSession
  <2>2. ASSUME NEW k \in Keys, SetPreference(t, k) PROVE TypeOK'
    BY <1>1, <2>2 DEF TypeOK, SetPreference
  <2>3. ASSUME NEW k \in Keys, DeletePreference(t, k) PROVE TypeOK'
    BY <1>1, <2>3 DEF TypeOK, DeletePreference
  <2>4. CASE DeleteFact(t)
    BY <1>1, <2>4 DEF TypeOK, DeleteFact
  <2>5. CASE ReindexUserMemories(t)
    <3>1. [Idle EXCEPT !.op = "reindex", !.todo = Latest(policy.listed)]
            \in Locals
      BY <2>5 DEF ReindexUserMemories, Called, Locals, Idle, Latest, Live
    <3>2. ControlOK
      BY <2>5, <3>1 DEF ReindexUserMemories
    <3>3. QED
      BY <2>5, <3>2 DEF TypeOK, ReindexUserMemories, Called
  <2>6. CASE ForgetPhrase(t)
    BY <2>6 DEF TypeOK, ForgetPhrase, Tombstone, Called, Rows, Live
  <2>7. CASE PurgeTombstonedRows(t)
    BY <2>7 DEF TypeOK, PurgeTombstonedRows, Called
  <2>8. CASE FtsSearch(t)
    <3>0. "retrieve" \in Ops /\ Live \subseteq Ids /\ acked \subseteq Ids
      BY <2>8 DEF TypeOK, FtsSearch, Called, Live
    <3>1. ASSUME NEW w \in BOOLEAN, NEW view \in Views,
                 NEW hits \in Some(IF w THEN fts \cap Live ELSE {}, policy.hits)
          PROVE  [Idle EXCEPT !.op = "retrieve",
                    !.hits = hits,
                    !.view = view,
                    !.must = IF w THEN acked \cap Live \cap view ELSE {},
                    !.never = {id \in Ids :
                                 item[id] \in {"tombstone", "purged"}}]
                 \in Locals
      <4>1. hits \subseteq Ids /\ view \subseteq Ids
        BY <3>0, MemoryAssumption DEF Some, Ids
      <4>2. QED
        BY <3>0, <4>1, IdleType DEF Locals, Idle
    <3>2. PICK r \in Locals : call' = [call EXCEPT ![t] = r]
      BY <2>8, <3>1, Zenon DEF FtsSearch
    <3>3. ControlOK
      BY <2>8, <3>2 DEF FtsSearch
    <3>4. QED
      BY <2>8, <3>3 DEF TypeOK, FtsSearch, Called
  <2>9. QED
    BY <1>2, <2>1, <2>2, <2>3, <2>4, <2>5, <2>6, <2>7, <2>8 DEF TypeOK, Receive
<1>3. ASSUME NEW t \in Threads, LookUp(t) PROVE TypeOK'
  <2>1. Matches(t) \subseteq Ids \cup {0}
    BY DEF TypeOK, Matches, OrNone, Newest, Live
  <2>2. \A id \in Matches(t) : [call[t] EXCEPT !.mid = id] \in Locals
    BY <1>0, <2>1, LocalsType DEF Actors
  <2>3. ControlOK
    BY <1>3, <2>2 DEF LookUp, Done
  <2>4. QED
    BY <1>3, <2>3 DEF TypeOK, LookUp
<1>4. ASSUME NEW t \in Threads, TombstoneItem(t) PROVE TypeOK'
  <2>1. [call[t] EXCEPT !.mid = 0] \in Locals
    BY <1>0, LocalsType DEF Actors
  <2>2. ControlOK
    BY <1>4, <2>1 DEF TombstoneItem, Done
  <2>3. call[t].mid \in Ids
    BY <1>b, <1>4 DEF TombstoneItem, Actors
  <2>4. QED
    BY <1>4, <2>2, <2>3 DEF TypeOK, TombstoneItem, Tombstone, Rows
<1>5. ASSUME NEW t \in Threads, InsertItem(t) PROVE TypeOK'
  <2>1. \A id \in Ids : [call[t] EXCEPT !.mid = id] \in Locals
    BY <1>0, LocalsType DEF Actors
  <2>2. ControlOK
    BY <1>5, <2>1 DEF InsertItem
  <2>3. call[t].key \in Keys \cup {"note", "fact"}
    BY <1>0 DEF TypeOK, Actors
  <2>4. QED
    BY <1>5, <2>2, <2>3 DEF TypeOK, InsertItem
<1>6. ASSUME NEW t \in Threads, SyncFts(t) PROVE TypeOK'
  BY <1>6 DEF TypeOK, SyncFts, Live
<1>7. ASSUME NEW t \in Threads, Put(t) PROVE TypeOK'
  <2>1. ControlOK
    BY <1>7, ReturnType DEF Put, Actors
  <2>2. call[t].mid \in Ids
    BY <1>b, <1>7 DEF Put, Actors, Indexing
  <2>3. queue' \in Seq(Ids)
    BY <1>7, <2>2 DEF TypeOK, Put
  <2>4. QED
    BY <1>7, <2>1, <2>2, <2>3 DEF TypeOK, Put, Acknowledge
<1>8. ASSUME NEW t \in Threads, ReindexNext(t) PROVE TypeOK'
  <2>1. call[t].todo \subseteq Ids
    BY <1>0 DEF TypeOK, Locals, Actors
  <2>2. \A id \in call[t].todo :
          /\ [call[t] EXCEPT !.todo = @ \ {id}] \in Locals
          /\ [call[t] EXCEPT !.todo = @ \ {id}, !.mid = id] \in Locals
    BY <1>0, <2>1, LocalsType DEF Actors
  <2>5. PICK id \in Newest(call[t].todo) :
          \/ /\ call' = [call EXCEPT ![t] =
                  [@ EXCEPT !.todo = call[t].todo \ {id}, !.mid = id]]
             /\ pc' = [pc EXCEPT ![t] = "mark"]
          \/ /\ call' = [call EXCEPT ![t].todo = @ \ {id}]
             /\ pc' = pc
    BY <1>8 DEF ReindexNext
  <2>6. id \in call[t].todo
    BY <2>5 DEF Newest
  <2>3. ControlOK
    BY <2>2, <2>5, <2>6
  <2>4. QED
    BY <1>8, <2>3 DEF TypeOK, ReindexNext
<1>9. ASSUME NEW t \in Threads, MarkPending(t) PROVE TypeOK'
  <2>1. call[t].mid \in Ids
    BY <1>b, <1>9 DEF MarkPending, Actors
  <2>2. QED
    BY <1>9, <2>1 DEF TypeOK, MarkPending, SetStatus
<1>10. ASSUME NEW t \in Threads, FlushQueue(t) PROVE TypeOK'
  <2>1. queue # <<>> => Head(queue) \in Ids /\ Tail(queue) \in Seq(Ids)
    BY DEF TypeOK
  <2>2. queue # <<>> => [call[t] EXCEPT !.mid = Head(queue)] \in Locals
    BY <1>0, <2>1, LocalsType DEF Actors
  <2>3. ControlOK
    BY <1>10, <2>2 DEF FlushQueue, Done
  <2>4. QED
    BY <1>10, <2>1, <2>3 DEF TypeOK, FlushQueue
<1>11. CASE TakeFromQueue
  <2>1. Head(queue) \in Ids /\ Tail(queue) \in Seq(Ids)
    BY <1>11 DEF TypeOK, TakeFromQueue
  <2>2. ControlOK
    BY <1>0, <1>11, <2>1, LocalsType DEF TakeFromQueue, Actors
  <2>3. QED
    BY <1>11, <2>1, <2>2 DEF TypeOK, TakeFromQueue
<1>12. ASSUME NEW a \in Actors, Embed(a) PROVE TypeOK'
  <2>1. pc[a] \in Indexing => call[a].mid \in Ids
    BY <1>b
  <2>2. CASE ReadRow(a)
    <3>1. ControlOK
      BY <2>2, ReturnType DEF ReadRow
    <3>2. QED
      BY <2>1, <2>2, <3>1 DEF TypeOK, ReadRow, Acknowledge, Indexing
  <2>3. CASE ClearMemory(a)
    BY <2>1, <2>3 DEF TypeOK, ClearMemory, Indexing
  <2>4. CASE InsertChunk(a)
    <3>1. call[a].part \in 1..Parts
      BY <1>0
    <3>2. call[a].part # Parts => call[a].part + 1 \in 1..Parts
      BY <3>1, MemoryAssumption
    <3>3. call[a].part # Parts => [call[a] EXCEPT !.part = @ + 1] \in Locals
      BY <1>0, <3>2, LocalsType
    <3>4. ControlOK
      BY <2>4, <3>3 DEF InsertChunk
    <3>5. chunks' \in [Ids -> SUBSET (1..Parts)]
      BY <2>4, <3>1 DEF TypeOK, InsertChunk
    <3>6. QED
      BY <2>4, <3>4, <3>5 DEF TypeOK, InsertChunk
  <2>5. CASE SetReady(a)
    <3>1. ControlOK
      BY <2>5, ReturnType DEF SetReady
    <3>2. QED
      BY <2>1, <2>5, <3>1 DEF TypeOK, SetReady, SetStatus, Acknowledge,
         Indexing
  <2>6. CASE EmbeddingRaises(a)
    BY <2>1, <2>6 DEF TypeOK, EmbeddingRaises, Done, Indexing
  <2>7. QED
    BY <1>12, <2>2, <2>3, <2>4, <2>5, <2>6 DEF TypeOK, Embed
<1>13. CASE SetFailed
  BY <1>13 DEF TypeOK, SetFailed, SetStatus, Done, Actors
<1>14. ASSUME NEW t \in Threads, SearchCosine(t) PROVE TypeOK'
  <2>1. ASSUME NEW V \in Some({c \in Ids \X (1..Parts) :
                                 c[2] \in chunks[c[1]]}, policy.chunks)
        PROVE  [call[t] EXCEPT !.todo = call[t].hits \cup {v[1] : v \in V}]
                 \in Locals
    <3>1. call[t] \in Locals /\ call[t].hits \subseteq Ids
      BY <1>0 DEF Locals, Actors
    <3>2. {v[1] : v \in V} \subseteq Ids
      BY DEF Some
    <3>3. QED
      BY <3>1, <3>2, LocalsType
  <2>2. ControlOK
    BY <1>14, <2>1 DEF SearchCosine, Done
  <2>3. QED
    BY <1>14, <2>2 DEF TypeOK, SearchCosine
<1>15. ASSUME NEW t \in Threads, NEW id \in Ids, ReadCandidate(t, id)
       PROVE  TypeOK'
  <2>1. call[t].todo \in SUBSET Ids /\ call[t].found \in SUBSET Ids
    BY <1>0 DEF TypeOK, Locals, Actors
  <2>2. [call[t] EXCEPT !.todo = @ \ {id},
                   !.found = IF Qualifies(t, id) THEN @ \cup {id} ELSE @]
          \in Locals
    BY <1>0, <2>1, LocalsType DEF Actors
  <2>5. call' = [call EXCEPT ![t] =
          [@ EXCEPT !.todo = call[t].todo \ {id},
                    !.found = IF Qualifies(t, id) THEN call[t].found \cup {id}
                              ELSE call[t].found]]
    BY <1>15 DEF ReadCandidate
  <2>3. ControlOK
    BY <1>15, <2>2, <2>5 DEF ReadCandidate
  <2>4. QED
    BY <1>15, <2>3 DEF TypeOK, ReadCandidate
<1>16. ASSUME NEW t \in Threads, Answer(t) PROVE TypeOK'
  BY <1>16 DEF TypeOK, Answer, Done
<1>20. ASSUME NEW t \in Threads, Rerank(t) PROVE TypeOK'
  <2>1. call[t] \in Locals /\ call[t].found \subseteq Ids
    BY <1>0 DEF Locals, Actors
  <2>2. \A kept \in Some(call[t].found, policy.top) :
          [call[t] EXCEPT !.found = kept] \in Locals
    BY <2>1, LocalsType DEF Some
  <2>3. ControlOK
    BY <1>20, <2>2 DEF Rerank
  <2>4. QED
    BY <1>20, <2>3 DEF TypeOK, Rerank
<1>17. CASE Crash
  BY <1>17 DEF TypeOK, Crash, Live
<1>18. CASE UNCHANGED vars
  BY <1>18 DEF TypeOK, vars
<1>19. QED
  BY <1>2, <1>3, <1>4, <1>5, <1>6, <1>7, <1>8, <1>9, <1>10, <1>11, <1>12,
     <1>13, <1>14, <1>15, <1>16, <1>17, <1>18, <1>20
  DEF Next, Step, WorkerStep, Actors

\* What a step does to the rows.
LEMMA ItemStep ==
  ASSUME TypeOK, MidInv, [Next]_vars
  PROVE  \/ item' = item
         \/ \E S \in SUBSET (Live \cup Dead) : Tombstone(S)
         \/ \E t \in Threads : PurgeTombstonedRows(t) \/ InsertItem(t)
<1> USE DEF tables
<1>1. CASE UNCHANGED vars
  BY <1>1 DEF vars
<1>2. CASE Crash \/ WorkerStep
  BY <1>2 DEF Crash, WorkerStep, TakeFromQueue, SetFailed, Embed, ReadRow,
     ClearMemory, InsertChunk, SetReady, EmbeddingRaises
<1>3. ASSUME NEW t \in Threads, Receive(t)
      PROVE  \/ item' = item \/ \E S \in SUBSET Live : Tombstone(S)
             \/ PurgeTombstonedRows(t)
  BY <1>3 DEF Receive, Start, Remember, AddFact, PromoteArchivedSession,
     SetPreference, DeletePreference, DeleteFact, ReindexUserMemories,
     ForgetPhrase, FtsSearch
<1>4. ASSUME NEW t \in Threads, Step(t)
      PROVE  \/ item' = item \/ TombstoneItem(t) \/ InsertItem(t)
  BY <1>4 DEF Step, LookUp, SyncFts, Put, ReindexNext,
     MarkPending, FlushQueue, Embed, ReadRow, ClearMemory, InsertChunk,
     SetReady, EmbeddingRaises, SearchCosine, ReadCandidate, Rerank,
     Answer
<1>5. ASSUME NEW t \in Threads, TombstoneItem(t)
      PROVE  \E S \in SUBSET (Live \cup Dead) : Tombstone(S)
  <2>1. {call[t].mid} \in SUBSET (Live \cup Dead) /\ Tombstone({call[t].mid})
    BY <1>5 DEF TombstoneItem, MidInv, Actors
  <2>2. QED
    BY <2>1
<1>6. ASSUME NEW S \in SUBSET Live, Tombstone(S)
      PROVE  \E T \in SUBSET (Live \cup Dead) : Tombstone(T)
  BY <1>6
<1>7. QED
  BY <1>1, <1>2, <1>3, <1>4, <1>5, <1>6 DEF Next

\* A purge moves rows among the deleted ones.
LEMMA PurgedRows ==
  ASSUME TypeOK, NEW t, PurgeTombstonedRows(t)
  PROVE  Live' = Live /\ Dead' = Dead
<1>1. PICK S \in SUBSET {id \in Ids : item[id] = "tombstone"} :
        item' = [id \in Ids |-> IF id \in S THEN "purged" ELSE item[id]]
  BY DEF PurgeTombstonedRows, Some
<1>2. QED
  BY <1>1 DEF TypeOK, Live, Dead

\* Rows are inserted once and never come back.
LEMMA RowsStep ==
  ASSUME TypeOK, MidInv, [Next]_vars
  PROVE  /\ Dead \subseteq Dead' /\ Live \subseteq Live' \cup Dead'
         /\ \A id \in Live' : id \in Live \/ item[id] = "none"
<1> USE DEF TypeOK, Live, Dead
<1>1. CASE item' = item
  BY <1>1 DEF Ids
<1>2. ASSUME NEW S, Tombstone(S)
      PROVE  /\ Dead \subseteq Dead' /\ Live \subseteq Live' \cup Dead'
             /\ \A id \in Live' : id \in Live
  BY <1>2 DEF Tombstone, Rows, Ids
<1>3. ASSUME NEW t, PurgeTombstonedRows(t)
      PROVE  /\ Dead \subseteq Dead' /\ Live \subseteq Live' \cup Dead'
             /\ \A id \in Live' : id \in Live
  BY <1>3 DEF PurgeTombstonedRows, Ids
<1>4. ASSUME NEW t, InsertItem(t)
      PROVE  /\ Dead \subseteq Dead' /\ Live \subseteq Live' \cup Dead'
             /\ \A id \in Live' : id \in Live \/ item[id] = "none"
  <2>1. PICK id \in Ids : /\ \A i \in Ids : item[i] # "none" <=> i < id
                          /\ item' = [item EXCEPT ![id] = "live"]
    BY <1>4 DEF InsertItem
  <2>2. item[id] = "none"
    BY <2>1, MemoryAssumption DEF Ids
  <2>3. QED
    BY <2>1, <2>2
<1>5. QED
  BY <1>1, <1>2, <1>3, <1>4, ItemStep

\* Every row at hand or queued was inserted.
LEMMA MidStep ==
  ASSUME TypeOK, MidInv, [Next]_vars
  PROVE  MidInv'
<1>a. pc \in [Actors -> Labels] /\ call \in [Actors -> Locals]
  BY DEF TypeOK
<1>b. Live \cup Dead \subseteq (Live \cup Dead)'
  BY RowsStep
<1>c. queue \in Seq(Ids)
  BY DEF TypeOK
<1> DEFINE HasRow == Indexing \cup {"tombstone", "mark"}
           Mids == \A a \in Actors :
                     pc'[a] \in HasRow => call'[a].mid \in (Live \cup Dead)'
           Queued == \A i \in DOMAIN queue' : queue'[i] \in (Live \cup Dead)'
<1>d. SUFFICES Mids /\ Queued
  BY DEF MidInv
<1>e. \A a \in Actors : pc[a] \in HasRow => call[a].mid \in (Live \cup Dead)'
  BY <1>b DEF MidInv
<1>f. queue' = queue => Queued
  BY <1>b DEF MidInv
<1>g. pc' = pc /\ call' = call => Mids
  BY <1>e
<1>k. ASSUME NEW t \in Actors, NEW l, Goto(t, l),
             \A b \in Actors \ {t} : call'[b] = call[b],
             l \in HasRow => call'[t].mid \in (Live \cup Dead)'
      PROVE  Mids
  BY <1>a, <1>e, <1>k DEF Goto
<1>h. ASSUME NEW t \in Actors, Done(t) PROVE Mids
  BY <1>a, <1>e, <1>h DEF Done, Goto, Indexing
<1>i. ASSUME NEW t \in Actors, Return(t) PROVE Mids
  BY <1>a, <1>e, <1>h, <1>i DEF Return, Goto, Indexing
<1> USE DEF Goto, Actors, Indexing
<1> HIDE DEF Queued
<1>1. ASSUME NEW t \in Threads, Receive(t) PROVE Mids /\ Queued
  <2>1. CASE ForgetPhrase(t) \/ PurgeTombstonedRows(t)
    BY <1>f, <1>g, <2>1 DEF ForgetPhrase, PurgeTombstonedRows
  <2>2. CASE ReindexUserMemories(t) \/ FtsSearch(t)
    BY <1>a, <1>e, <1>f, <2>2 DEF ReindexUserMemories, FtsSearch
  <2>3. ASSUME NEW o, NEW l \in {"insert", "lookup"}, NEW k, Start(t, o, l, k)
        PROVE  Mids /\ Queued
    BY <1>a, <1>e, <1>f, <2>3 DEF Start
  <2>4. QED
    BY <1>1, <2>1, <2>2, <2>3 DEF Receive, Remember, AddFact,
       PromoteArchivedSession, SetPreference, DeletePreference, DeleteFact
<1>2. ASSUME NEW t \in Threads, LookUp(t) PROVE Mids /\ Queued
  <2> SUFFICES Mids
    BY <1>2, <1>f DEF LookUp
  <2>1. \A id \in Matches(t) : id = 0 \/ id \in Live
    BY DEF Matches, OrNone, Newest
  <2>2. PICK id \in Matches(t) :
          \/ /\ id # 0
             /\ call' = [call EXCEPT ![t].mid = id]
             /\ Goto(t, "tombstone")
          \/ id = 0 /\ call[t].op = "set" /\ Goto(t, "insert") /\ UNCHANGED call
          \/ id = 0 /\ call[t].op = "delete" /\ Done(t)
    BY <1>2 DEF LookUp
  <2>3. id # 0 => id \in (Live \cup Dead)'
    BY <1>b, <2>1, <2>2
  <2>4. call[t] \in Locals
    BY <1>a
  <2>5. CASE id # 0
    <3>1. call'[t].mid = id /\ \A b \in Actors \ {t} : call'[b] = call[b]
      BY <1>a, <2>2, <2>4, <2>5 DEF Locals
    <3>2. pc' = [pc EXCEPT ![t] = "tombstone"]
      BY <2>2, <2>5
    <3>3. QED
      BY <1>a, <1>e, <2>3, <2>5, <3>1, <3>2
  <2>6. CASE id = 0
    <3>1. CASE Done(t)
      BY <1>h, <3>1
    <3>2. CASE pc' = [pc EXCEPT ![t] = "insert"] /\ call' = call
      BY <1>a, <1>e, <3>2
    <3>3. QED
      BY <2>2, <2>6, <3>1, <3>2
  <2>7. QED
    BY <2>5, <2>6
<1>3. ASSUME NEW t \in Threads, TombstoneItem(t) PROVE Mids /\ Queued
  BY <1>3, <1>a, <1>e, <1>f, <1>h DEF TombstoneItem
<1>4. ASSUME NEW t \in Threads, InsertItem(t) PROVE Mids /\ Queued
  <2>1. PICK id \in Ids : /\ item' = [item EXCEPT ![id] = "live"]
                          /\ call' = [call EXCEPT ![t].mid = id]
    BY <1>4 DEF InsertItem
  <2>2. id \in Live'
    BY <2>1 DEF TypeOK, Live
  <2>3. call'[t].mid = id
    BY <1>a, <2>1 DEF Locals
  <2>4. QED
    BY <1>4, <1>a, <1>e, <1>f, <2>1, <2>2, <2>3 DEF InsertItem
<1>5. ASSUME NEW t \in Threads, SyncFts(t) \/ MarkPending(t)
      PROVE  Mids /\ Queued
  BY <1>5, <1>a, <1>e, <1>f DEF SyncFts, MarkPending
<1>6. ASSUME NEW t \in Threads, Put(t) PROVE Mids /\ Queued
  <2>1. call[t].mid \in (Live \cup Dead)'
    BY <1>6, <1>e DEF Put
  <2>2. Queued
    BY <1>6, <1>b, <1>c, <2>1 DEF Put, MidInv, Queued
  <2>3. QED
    BY <1>6, <1>i, <2>2 DEF Put
<1>7. ASSUME NEW t \in Threads, ReindexNext(t) PROVE Mids /\ Queued
  <2>1. PICK id \in Newest(call[t].todo) :
          \/ /\ id \in Live
             /\ call' = [call EXCEPT ![t] =
                  [@ EXCEPT !.todo = call[t].todo \ {id}, !.mid = id]]
             /\ pc' = [pc EXCEPT ![t] = "mark"]
          \/ /\ call' = [call EXCEPT ![t].todo = @ \ {id}]
             /\ pc' = pc
    BY <1>7 DEF ReindexNext
  <2>2. id \in Live => id \in (Live \cup Dead)'
    BY <1>b
  <2>3. call[t] \in Locals
    BY <1>a
  <2>4. pc[t] = "reindex"
    BY <1>7 DEF ReindexNext
  <2>5. Mids
    <3>1. CASE id \in Live /\ pc' = [pc EXCEPT ![t] = "mark"]
                 /\ call' = [call EXCEPT ![t] =
                      [@ EXCEPT !.todo = call[t].todo \ {id}, !.mid = id]]
      <4>1. call'[t].mid = id /\ \A b \in Actors \ {t} : call'[b] = call[b]
        BY <1>a, <2>3, <3>1 DEF Locals
      <4>2. QED
        BY <1>k, <2>2, <3>1, <4>1
    <3>2. CASE pc' = pc /\ call' = [call EXCEPT ![t].todo = @ \ {id}]
      BY <1>a, <1>e, <2>4, <3>2
    <3>3. QED
      BY <2>1, <3>1, <3>2
  <2>6. QED
    BY <1>7, <1>f, <2>5 DEF ReindexNext
<1>8. ASSUME NEW a \in Actors, queue # <<>>, pc' = [pc EXCEPT ![a] = "read"],
             call'[a].mid = Head(queue), queue' = Tail(queue),
             \A b \in Actors \ {a} : call'[b] = call[b]
      PROVE  Mids /\ Queued
  <2>1. Len(queue) >= 1 /\ Head(queue) = queue[1]
    BY <1>8, <1>c
  <2>2. Head(queue) \in (Live \cup Dead)'
    BY <1>b, <1>c, <2>1 DEF MidInv
  <2>3. \A i \in DOMAIN Tail(queue) :
           i + 1 \in DOMAIN queue /\ Tail(queue)[i] = queue[i + 1]
    BY <1>8, <1>c
  <2>4. Queued
    BY <1>8, <1>b, <2>3 DEF MidInv, Queued
  <2>5. QED
    BY <1>8, <1>a, <1>e, <2>2, <2>4
<1>9. ASSUME NEW t \in Threads, FlushQueue(t) PROVE Mids /\ Queued
  <2>1. CASE queue # <<>> /\ queue' = Tail(queue)
    <3>1. /\ call' = [call EXCEPT ![t].mid = Head(queue)]
          /\ pc' = [pc EXCEPT ![t] = "read"]
      BY <1>9, <1>c, <2>1 DEF FlushQueue
    <3>2. call'[t].mid = Head(queue)
      BY <1>a, <3>1 DEF Locals
    <3>3. QED
      BY <1>8, <1>a, <2>1, <3>1, <3>2
  <2>2. CASE queue' = queue /\ Done(t)
    BY <1>f, <1>h, <2>2
  <2>3. QED
    BY <1>9, <2>1, <2>2 DEF FlushQueue
<1>10. CASE TakeFromQueue
  <2>1. call'[Worker].mid = Head(queue)
    BY <1>10, <1>a DEF TakeFromQueue, Locals
  <2>2. QED
    BY <1>10, <1>8, <1>a, <2>1 DEF TakeFromQueue
<1>11. ASSUME NEW a \in Actors, Embed(a) PROVE Mids /\ Queued
  <2>1. CASE ReadRow(a)
    BY <1>a, <1>e, <1>f, <1>i, <2>1 DEF ReadRow
  <2>2. CASE ClearMemory(a)
    BY <1>a, <1>e, <1>f, <2>2 DEF ClearMemory
  <2>3. CASE InsertChunk(a)
    <3>1. \A b \in Actors : call'[b].mid = call[b].mid
      BY <1>a, <2>3 DEF InsertChunk, Locals
    <3>2. QED
      BY <1>a, <1>e, <1>f, <2>3, <3>1 DEF InsertChunk
  <2>4. CASE SetReady(a)
    BY <1>f, <1>i, <2>4 DEF SetReady
  <2>5. CASE EmbeddingRaises(a)
    BY <1>a, <1>e, <1>f, <1>h, <2>5 DEF EmbeddingRaises
  <2>6. QED
    BY <1>11, <2>1, <2>2, <2>3, <2>4, <2>5 DEF Embed
<1>12. CASE SetFailed
  BY <1>12, <1>f, <1>h DEF SetFailed
<1>13. ASSUME NEW t \in Threads, SearchCosine(t) PROVE Mids /\ Queued
  BY <1>13, <1>a, <1>e, <1>f, <1>h DEF SearchCosine
<1>14. ASSUME NEW t \in Threads, NEW id \in Ids, ReadCandidate(t, id)
       PROVE  Mids /\ Queued
  <2>1. \A b \in Actors \ {t} : call'[b] = call[b]
    BY <1>14, <1>a DEF ReadCandidate
  <2>2. QED
    BY <1>14, <1>e, <1>f, <2>1 DEF ReadCandidate
<1>15. ASSUME NEW t \in Threads, Answer(t) PROVE Mids /\ Queued
  BY <1>15, <1>f, <1>h DEF Answer
<1>19. ASSUME NEW t \in Threads, Rerank(t) PROVE Mids /\ Queued
  <2>1. \A b \in Actors \ {t} : call'[b] = call[b]
    BY <1>19, <1>a DEF Rerank
  <2>2. QED
    BY <1>19, <1>f, <1>k, <2>1 DEF Rerank
<1>16. CASE Crash
  BY <1>16 DEF Crash, Queued
<1>17. CASE UNCHANGED vars
  BY <1>17, <1>f, <1>g DEF vars
<1>18. QED
  BY <1>1, <1>2, <1>3, <1>4, <1>5, <1>6, <1>7, <1>9, <1>10, <1>11, <1>12,
     <1>13, <1>14, <1>15, <1>16, <1>17, <1>19
  DEF Next, Step, WorkerStep

\* Only a re-indexing thread re-indexes.
LEMMA OpStep ==
  ASSUME TypeOK, OpInv, [Next]_vars
  PROVE  OpInv'
<1>a. pc \in [Actors -> Labels] /\ call \in [Actors -> Locals]
  BY DEF TypeOK
<1> DEFINE Ops1 == \A a \in Actors :
                     pc'[a] \in {"reindex", "mark"} => call'[a].op = "reindex"
<1>b. SUFFICES Ops1
  BY DEF OpInv
<1>c. \A a \in Actors : pc[a] \in {"reindex", "mark"} => call[a].op = "reindex"
  BY DEF OpInv
<1>d. pc' = pc /\ call' = call => Ops1
  BY <1>c
<1>e. ASSUME NEW t \in Actors, Done(t) PROVE Ops1
  BY <1>a, <1>c, <1>e DEF Done, Goto
<1>f. ASSUME NEW t \in Actors, Return(t) PROVE Ops1
  <2>1. CASE call[t].op = "promote"
    BY <1>a, <1>c, <1>f, <2>1 DEF Return, Goto
  <2>2. CASE call[t].op = "reindex"
    <3>1. /\ pc' = [pc EXCEPT ![t] = "reindex"]
          /\ call' = [call EXCEPT ![t] = [@ EXCEPT !.mid = 0, !.part = 1]]
      BY <1>f, <2>2 DEF Return, Goto
    <3>2. call'[t].op = "reindex"
      BY <1>a, <2>2, <3>1 DEF Locals
    <3>3. QED
      BY <1>a, <1>c, <3>1, <3>2
  <2>3. CASE call[t].op \notin {"promote", "reindex"}
    BY <1>e, <1>f, <2>3 DEF Return
  <2>4. QED
    BY <2>1, <2>2, <2>3
<1> USE DEF Goto, Actors
<1>1. ASSUME NEW t \in Threads, Receive(t) PROVE Ops1
  <2>1. CASE ForgetPhrase(t) \/ PurgeTombstonedRows(t)
    BY <1>d, <2>1 DEF ForgetPhrase, PurgeTombstonedRows
  <2>2. CASE ReindexUserMemories(t)
    BY <1>a, <1>c, <2>2 DEF ReindexUserMemories, Idle
  <2>3. CASE FtsSearch(t)
    BY <1>a, <1>c, <2>3 DEF FtsSearch
  <2>4. ASSUME NEW o, NEW l \in {"insert", "lookup"}, NEW k, Start(t, o, l, k)
        PROVE  Ops1
    BY <1>a, <1>c, <2>4 DEF Start
  <2>5. QED
    BY <1>1, <2>1, <2>2, <2>3, <2>4 DEF Receive, Remember, AddFact,
       PromoteArchivedSession, SetPreference, DeletePreference, DeleteFact
<1>2. ASSUME NEW t \in Threads, LookUp(t) PROVE Ops1
  BY <1>2, <1>a, <1>c, <1>e DEF LookUp
<1>3. ASSUME NEW t \in Threads, TombstoneItem(t) PROVE Ops1
  BY <1>3, <1>a, <1>c, <1>e DEF TombstoneItem
<1>4. ASSUME NEW t \in Threads, InsertItem(t) PROVE Ops1
  BY <1>4, <1>a, <1>c DEF InsertItem
<1>5. ASSUME NEW t \in Threads, SyncFts(t) \/ MarkPending(t) PROVE Ops1
  BY <1>5, <1>a, <1>c DEF SyncFts, MarkPending
<1>6. ASSUME NEW t \in Threads, Put(t) PROVE Ops1
  BY <1>6, <1>f DEF Put
<1>7. ASSUME NEW t \in Threads, ReindexNext(t) PROVE Ops1
  <2>1. PICK r \in Locals :
          /\ call' = [call EXCEPT ![t] = r] /\ r.op = call[t].op
    <3>1. call[t] \in Locals
      BY <1>a
    <3>2. PICK id \in Newest(call[t].todo) :
            \/ call' = [call EXCEPT ![t] =
                 [@ EXCEPT !.todo = call[t].todo \ {id}, !.mid = id]]
            \/ call' = [call EXCEPT ![t] =
                 [@ EXCEPT !.todo = call[t].todo \ {id}]]
      BY <1>7 DEF ReindexNext
    <3>3. id \in Ids /\ call[t].todo \ {id} \in SUBSET Ids
      BY <3>1, <3>2 DEF Newest, Locals
    <3>4. /\ [call[t] EXCEPT !.todo = call[t].todo \ {id}, !.mid = id]
               \in Locals
          /\ [call[t] EXCEPT !.todo = call[t].todo \ {id}] \in Locals
      BY <3>1, <3>3, LocalsType
    <3>5. QED
      BY <3>1, <3>2, <3>4 DEF Locals
  <2>2. pc[t] = "reindex" /\ pc' \in {pc, [pc EXCEPT ![t] = "mark"]}
    BY <1>7 DEF ReindexNext
  <2>3. QED
    BY <1>a, <1>c, <2>1, <2>2
<1>8. ASSUME NEW t \in Threads, FlushQueue(t) PROVE Ops1
  BY <1>8, <1>a, <1>c, <1>e DEF FlushQueue
<1>9. CASE TakeFromQueue
  BY <1>9, <1>a, <1>c DEF TakeFromQueue
<1>10. ASSUME NEW a \in Actors, Embed(a) PROVE Ops1
  <2>1. CASE ReadRow(a)
    BY <1>a, <1>c, <1>f, <2>1 DEF ReadRow
  <2>2. CASE ClearMemory(a)
    BY <1>a, <1>c, <2>2 DEF ClearMemory
  <2>3. CASE InsertChunk(a)
    BY <1>a, <1>c, <2>3 DEF InsertChunk
  <2>4. CASE SetReady(a)
    BY <1>f, <2>4 DEF SetReady
  <2>5. CASE EmbeddingRaises(a)
    BY <1>a, <1>c, <1>e, <2>5 DEF EmbeddingRaises
  <2>6. QED
    BY <1>10, <2>1, <2>2, <2>3, <2>4, <2>5 DEF Embed
<1>11. CASE SetFailed
  BY <1>11, <1>e DEF SetFailed
<1>12. ASSUME NEW t \in Threads, SearchCosine(t) PROVE Ops1
  BY <1>12, <1>a, <1>c, <1>e DEF SearchCosine
<1>13. ASSUME NEW t \in Threads, NEW id \in Ids, ReadCandidate(t, id)
       PROVE  Ops1
  BY <1>13, <1>a, <1>c DEF ReadCandidate
<1>14. ASSUME NEW t \in Threads, Answer(t) PROVE Ops1
  BY <1>14, <1>e DEF Answer
<1>18. ASSUME NEW t \in Threads, Rerank(t) PROVE Ops1
  BY <1>18, <1>a, <1>c DEF Rerank
<1>15. CASE Crash
  BY <1>15 DEF Crash
<1>16. CASE UNCHANGED vars
  BY <1>16, <1>d DEF vars
<1>17. QED
  BY <1>1, <1>2, <1>3, <1>4, <1>5, <1>6, <1>7, <1>8, <1>9, <1>10, <1>11, <1>12,
     <1>13, <1>14, <1>15, <1>16, <1>18
  DEF Next, Step, WorkerStep

\* A row under embedding is live, or was deleted there.
LEMMA EmbedStep ==
  ASSUME TypeOK, MidInv, EmbedInv, [Next]_vars
  PROVE  EmbedInv'
<1>a. pc \in [Actors -> Labels] /\ call \in [Actors -> Locals]
  BY DEF TypeOK
<1> USE DEF Goto, Actors, tables, ghosts
<1>1. ASSUME item' = item, torn' = torn,
             \A a \in Actors : pc'[a] \in {"clear", "chunk"} =>
               \/ pc[a] \in {"clear", "chunk"} /\ call'[a].mid = call[a].mid
               \/ call'[a].mid \in Live
      PROVE  EmbedInv'
  BY <1>1 DEF EmbedInv, Live
<1> DEFINE Others(t) == /\ pc'[t] \notin {"clear", "chunk"}
                        /\ \A a \in Actors \ {t} :
                             pc'[a] = pc[a] /\ call'[a] = call[a]
<1>d. ASSUME NEW t \in Actors, Done(t) PROVE Others(t)
  BY <1>a, <1>d DEF Done
<1>r. ASSUME NEW t \in Actors, Return(t) PROVE Others(t)
  BY <1>a, <1>d, <1>r DEF Return
<1>o. ASSUME NEW t \in Actors, Others(t), item' = item, torn' = torn
      PROVE  EmbedInv'
  BY <1>1, <1>o
<1>2. ASSUME NEW S, Tombstone(S), NEW t \in Threads, Others(t) \/
             (pc' = pc /\ call' = call)
      PROVE  EmbedInv'
  <2>1. ASSUME NEW a \in Actors, pc'[a] \in {"clear", "chunk"}
        PROVE  call'[a].mid \in Live' \cup torn'
    <3>1. /\ pc[a] \in {"clear", "chunk"} /\ call'[a] = call[a]
          /\ call[a].mid \in Live \cup torn /\ call[a].mid \in Ids
      BY <1>2, <2>1 DEF EmbedInv, Live, TypeOK
    <3>2. CASE call[a].mid \in S
      BY <1>2, <3>1, <3>2 DEF Tombstone, Embeds
    <3>3. CASE call[a].mid \notin S
      BY <1>2, <3>1, <3>3 DEF Tombstone, Live
    <3>4. QED
      BY <3>2, <3>3
  <2>2. QED
    BY <2>1 DEF EmbedInv
<1>3. ASSUME NEW t \in Threads, Receive(t) PROVE EmbedInv'
  <2>1. CASE ForgetPhrase(t)
    BY <1>2, <2>1 DEF ForgetPhrase
  <2>2. CASE PurgeTombstonedRows(t)
    BY <2>2, PurgedRows DEF PurgeTombstonedRows, EmbedInv
  <2>3. CASE ReindexUserMemories(t) \/ FtsSearch(t)
    BY <1>a, <1>o, <2>3 DEF ReindexUserMemories, FtsSearch
  <2>4. ASSUME NEW o, NEW l \in {"insert", "lookup"}, NEW k, Start(t, o, l, k)
        PROVE  EmbedInv'
    BY <1>a, <1>o, <2>4 DEF Start
  <2>5. QED
    BY <1>3, <2>1, <2>2, <2>3, <2>4 DEF Receive, Remember, AddFact,
       PromoteArchivedSession, SetPreference, DeletePreference, DeleteFact
<1>4. ASSUME NEW t \in Threads, LookUp(t) PROVE EmbedInv'
  BY <1>4, <1>a, <1>d, <1>o DEF LookUp
<1>5. ASSUME NEW t \in Threads, TombstoneItem(t) PROVE EmbedInv'
  BY <1>5, <1>a, <1>d, <1>2 DEF TombstoneItem
<1>6. ASSUME NEW t \in Threads, InsertItem(t) PROVE EmbedInv'
  <2>1. Others(t) /\ torn' = torn
    BY <1>6, <1>a DEF InsertItem
  <2>2. Live \subseteq Live'
    BY <1>6 DEF InsertItem, Live, TypeOK
  <2>3. QED
    BY <2>1, <2>2 DEF EmbedInv
<1>7. ASSUME NEW t \in Threads, SyncFts(t) \/ MarkPending(t) PROVE EmbedInv'
  BY <1>7, <1>a, <1>o DEF SyncFts, MarkPending
<1>8. ASSUME NEW t \in Threads, Put(t) PROVE EmbedInv'
  BY <1>8, <1>o, <1>r DEF Put
<1>9. ASSUME NEW t \in Threads, ReindexNext(t) PROVE EmbedInv'
  BY <1>9, <1>a, <1>o DEF ReindexNext
<1>10. ASSUME NEW t \in Threads, FlushQueue(t) PROVE EmbedInv'
  BY <1>10, <1>a, <1>d, <1>o DEF FlushQueue
<1>11. CASE TakeFromQueue
  BY <1>11, <1>a, <1>o DEF TakeFromQueue
<1>12. ASSUME NEW a \in Actors, Embed(a) PROVE EmbedInv'
  <2>1. CASE ReadRow(a)
    BY <1>1, <1>a, <1>o, <1>r, <2>1 DEF ReadRow
  <2>2. CASE ClearMemory(a)
    BY <1>1, <1>a, <2>2 DEF ClearMemory
  <2>3. CASE InsertChunk(a)
    <3>1. \A b \in Actors : call'[b].mid = call[b].mid
      BY <1>a, <2>3 DEF InsertChunk, Locals
    <3>2. QED
      BY <1>1, <1>a, <2>3, <3>1 DEF InsertChunk
  <2>4. CASE SetReady(a)
    BY <1>o, <1>r, <2>4 DEF SetReady
  <2>5. CASE EmbeddingRaises(a)
    BY <1>a, <1>d, <1>o, <2>5 DEF EmbeddingRaises
  <2>6. QED
    BY <1>12, <2>1, <2>2, <2>3, <2>4, <2>5 DEF Embed
<1>13. CASE SetFailed
  BY <1>13, <1>d, <1>o DEF SetFailed
<1>14. ASSUME NEW t \in Threads, SearchCosine(t) PROVE EmbedInv'
  BY <1>14, <1>a, <1>d, <1>o DEF SearchCosine
<1>15. ASSUME NEW t \in Threads, NEW id \in Ids, ReadCandidate(t, id)
       PROVE  EmbedInv'
  BY <1>15, <1>a, <1>o DEF ReadCandidate
<1>16. ASSUME NEW t \in Threads, Answer(t) PROVE EmbedInv'
  BY <1>16, <1>d, <1>o DEF Answer
<1>20. ASSUME NEW t \in Threads, Rerank(t) PROVE EmbedInv'
  BY <1>20, <1>a, <1>o DEF Rerank
<1>17. CASE Crash
  BY <1>17 DEF Crash, EmbedInv
<1>18. CASE UNCHANGED vars
  BY <1>18, <1>1 DEF vars
<1>19. QED
  BY <1>3, <1>4, <1>5, <1>6, <1>7, <1>8, <1>9, <1>10, <1>11, <1>12, <1>13,
     <1>14, <1>15, <1>16, <1>17, <1>18, <1>20
  DEF Next, Step, WorkerStep

\* Only an embedding under way puts something back.
LEMMA LeftoversStep ==
  ASSUME TypeOK, MidInv, EmbedInv, LeftoversExplained, [Next]_vars
  PROVE  LeftoversExplained'
<1> USE DEF tables, ghosts, Live
<1>1. ASSUME item' = item, fts' = fts, chunks' = chunks, torn' = torn
      PROVE  LeftoversExplained'
  BY <1>1 DEF LeftoversExplained
<1>2. ASSUME NEW S, Tombstone(S) PROVE LeftoversExplained'
  BY <1>2 DEF TypeOK, Tombstone, Rows, LeftoversExplained
<1>3. ASSUME NEW t \in Threads, PurgeTombstonedRows(t)
      PROVE  LeftoversExplained'
  <2>1. Live' = Live
    BY <1>3, PurgedRows
  <2>2. QED
    BY <1>3, <2>1 DEF PurgeTombstonedRows, LeftoversExplained
<1>4. ASSUME NEW t \in Threads, InsertItem(t) PROVE LeftoversExplained'
  BY <1>4 DEF TypeOK, InsertItem, LeftoversExplained
<1>5. ASSUME NEW t \in Threads, SyncFts(t) PROVE LeftoversExplained'
  BY <1>5 DEF TypeOK, SyncFts, LeftoversExplained
<1>6. ASSUME NEW a \in Actors, ClearMemory(a) PROVE LeftoversExplained'
  BY <1>6 DEF TypeOK, ClearMemory, LeftoversExplained
<1>7. ASSUME NEW a \in Actors, InsertChunk(a) PROVE LeftoversExplained'
  <2>1. call[a].mid \in Live \cup torn
    BY <1>7 DEF InsertChunk, EmbedInv
  <2>2. QED
    BY <1>7, <2>1 DEF TypeOK, InsertChunk, LeftoversExplained
<1>8. ASSUME NEW t \in Threads, Receive(t) PROVE LeftoversExplained'
  BY <1>1, <1>2, <1>3, <1>8 DEF Receive, Start, Remember, AddFact,
     PromoteArchivedSession, SetPreference, DeletePreference, DeleteFact,
     ReindexUserMemories, ForgetPhrase, FtsSearch
<1>9. ASSUME NEW a \in Actors, Embed(a) PROVE LeftoversExplained'
  BY <1>1, <1>6, <1>7, <1>9 DEF Embed, ReadRow, SetReady, EmbeddingRaises
<1>10. ASSUME NEW t \in Threads, Step(t) PROVE LeftoversExplained'
  BY <1>1, <1>2, <1>4, <1>5, <1>9, <1>10 DEF Step, Actors, LookUp,
     TombstoneItem, Put, ReindexNext, MarkPending, FlushQueue, SearchCosine,
     ReadCandidate, Rerank, Answer
<1>11. CASE WorkerStep
  BY <1>1, <1>9, <1>11 DEF WorkerStep, Actors, TakeFromQueue, SetFailed
<1>12. CASE Crash \/ UNCHANGED vars
  BY <1>1, <1>12 DEF Crash, vars
<1>13. QED
  BY <1>8, <1>10, <1>11, <1>12 DEF Next

\* What was indexed stays indexed until it is deleted.
LEMMA FtsStep ==
  ASSUME TypeOK, MidInv, OpInv, FtsInv, [Next]_vars
  PROVE  FtsInv'
<1>a. pc \in [Actors -> Labels] /\ call \in [Actors -> Locals]
  BY DEF TypeOK
<1> DEFINE Kept == fts \cup Dead
           Acks == {"ingest", "promote", "set"}
<1>b. Dead \subseteq Dead'
  BY RowsStep
<1>c. acked \subseteq Kept
  BY DEF FtsInv
<1>d. \A a \in Actors : pc[a] \in Indexing \ {"fts"} /\ call[a].op \in Acks =>
                          call[a].mid \in Kept
  BY DEF FtsInv
<1> USE DEF Goto, Actors, tables, ghosts
\* A step of one thread that leaves what is indexed.
<1>1. ASSUME NEW t \in Actors, fts \subseteq Kept',
             acked' \subseteq acked \cup Kept,
             pc'[t] \in Indexing \ {"fts"} /\ call'[t].op \in Acks =>
               call'[t].mid \in Kept',
             \A a \in Actors \ {t} : pc'[a] = pc[a] /\ call'[a] = call[a]
      PROVE  FtsInv'
  <2>1. Kept \subseteq Kept'
    BY <1>1, <1>b
  <2>2. \A a \in Actors :
          pc'[a] \in Indexing \ {"fts"} /\ call'[a].op \in Acks =>
            call'[a].mid \in Kept'
    BY <1>1, <1>d, <2>1
  <2>3. acked' \subseteq Kept'
    BY <1>1, <1>c, <2>1
  <2>4. QED
    BY <2>2, <2>3 DEF FtsInv
<1> DEFINE Leaves(t) == /\ pc'[t] \notin Indexing \ {"fts"}
                        /\ \A a \in Actors \ {t} :
                             pc'[a] = pc[a] /\ call'[a] = call[a]
<1>e. ASSUME NEW t \in Actors, Done(t) PROVE Leaves(t)
  BY <1>a, <1>e DEF Done, Indexing
<1>f. ASSUME NEW t \in Actors, Return(t) PROVE Leaves(t)
  BY <1>a, <1>e, <1>f DEF Return, Indexing
<1>g. ASSUME NEW t \in Actors, Leaves(t), fts' = fts, acked' = acked
      PROVE  FtsInv'
  BY <1>1, <1>g
<1>h. ASSUME NEW t \in Actors, pc[t] \in Indexing \ {"fts"}, Return(t),
             Acknowledge(t), fts' = fts
      PROVE  FtsInv'
  <2>1. acked' \subseteq acked \cup Kept
    BY <1>d, <1>h DEF Acknowledge
  <2>2. QED
    BY <1>1, <1>f, <1>h, <2>1
<1>i. ASSUME NEW S \in SUBSET (Live \cup Dead), Tombstone(S)
      PROVE  fts \subseteq Kept'
  BY <1>i DEF Tombstone, Live, Dead, Rows
<1>j. Threads \subseteq Actors /\ Worker \in Actors
  OBVIOUS
<1>2. ASSUME NEW t \in Threads, Receive(t) PROVE FtsInv'
  <2>1. CASE ForgetPhrase(t)
    <3>1. fts \subseteq Kept' /\ pc' = pc /\ call' = call /\ acked' = acked
      BY <1>i, <2>1 DEF ForgetPhrase
    <3>2. QED
      BY <1>b, <1>c, <1>d, <3>1 DEF FtsInv
  <2>2. CASE PurgeTombstonedRows(t)
    BY <1>b, <1>c, <1>d, <2>2 DEF PurgeTombstonedRows, FtsInv
  <2>3. CASE ReindexUserMemories(t) \/ FtsSearch(t)
    <3>1. /\ \E r : call' = [call EXCEPT ![t] = r]
          /\ \E l \in {"reindex", "vectors"} : pc' = [pc EXCEPT ![t] = l]
          /\ fts' = fts /\ acked' = acked
      BY <2>3 DEF ReindexUserMemories, FtsSearch
    <3>2. Leaves(t)
      BY <1>a, <3>1 DEF Indexing
    <3>3. QED
      BY <1>g, <1>j, <3>1, <3>2
  <2>4. ASSUME NEW o, NEW l \in {"insert", "lookup"}, NEW k, Start(t, o, l, k)
        PROVE  FtsInv'
    BY <1>a, <1>g, <1>j, <2>4 DEF Start, Indexing
  <2>5. QED
    BY <1>2, <2>1, <2>2, <2>3, <2>4 DEF Receive, Remember, AddFact,
       PromoteArchivedSession, SetPreference, DeletePreference, DeleteFact
<1>3. ASSUME NEW t \in Threads, LookUp(t) PROVE FtsInv'
  BY <1>3, <1>a, <1>e, <1>g, <1>j DEF LookUp, Indexing
<1>4. ASSUME NEW t \in Threads, TombstoneItem(t) PROVE FtsInv'
  <2>1. {call[t].mid} \in SUBSET (Live \cup Dead)
    BY <1>4 DEF TombstoneItem, MidInv
  <2>2. fts \subseteq Kept' /\ acked' = acked
    BY <1>4, <1>i, <2>1 DEF TombstoneItem
  <2>3. Leaves(t)
    BY <1>4, <1>a, <1>e DEF TombstoneItem, Indexing
  <2>4. QED
    BY <1>1, <1>j, <2>2, <2>3
<1>5. ASSUME NEW t \in Threads, InsertItem(t) PROVE FtsInv'
  BY <1>5, <1>a, <1>g, <1>j DEF InsertItem, Indexing
<1>6. ASSUME NEW t \in Threads, SyncFts(t) PROVE FtsInv'
  <2>1. call[t].mid \in Live \cup Dead /\ item' = item
    BY <1>6 DEF SyncFts, MidInv, Indexing
  <2>2. call[t].mid \in Kept' /\ fts \subseteq Kept'
    BY <1>6, <1>b, <2>1 DEF SyncFts
  <2>3. /\ acked' = acked /\ call' = call
        /\ \A a \in Actors \ {t} : pc'[a] = pc[a]
    BY <1>6, <1>a DEF SyncFts
  <2>4. QED
    BY <1>1, <1>j, <2>2, <2>3
<1>7. ASSUME NEW t \in Threads, Put(t) PROVE FtsInv'
  BY <1>7, <1>h, <1>j DEF Put, Indexing
<1>8. ASSUME NEW t \in Threads, ReindexNext(t) PROVE FtsInv'
  <2>1. Leaves(t)
    BY <1>8, <1>a DEF ReindexNext, Indexing
  <2>2. QED
    BY <1>8, <1>g, <1>j, <2>1 DEF ReindexNext
<1>9. ASSUME NEW t \in Threads, MarkPending(t) PROVE FtsInv'
  <2>1. call' = call /\ call[t].op = "reindex"
    BY <1>9 DEF MarkPending, OpInv
  <2>2. fts' = fts /\ acked' = acked /\ \A a \in Actors \ {t} : pc'[a] = pc[a]
    BY <1>9, <1>a DEF MarkPending
  <2>3. QED
    BY <1>1, <1>j, <2>1, <2>2
<1>10. ASSUME NEW t \in Threads, FlushQueue(t) PROVE FtsInv'
  <2>1. CASE call' = [call EXCEPT ![t].mid = Head(queue)]
             /\ pc' = [pc EXCEPT ![t] = "read"]
    <3>1. call'[t].op = "reindex"
      BY <1>10, <1>a, <2>1 DEF FlushQueue, OpInv, Locals
    <3>2. QED
      BY <1>10, <1>1, <1>a, <1>j, <2>1, <3>1 DEF FlushQueue
  <2>2. CASE Done(t)
    BY <1>10, <1>e, <1>g, <1>j, <2>2 DEF FlushQueue
  <2>3. QED
    BY <1>10, <2>1, <2>2 DEF FlushQueue
<1>11. CASE TakeFromQueue
  <2>1. call'[Worker].op = "worker"
    BY <1>11, <1>a DEF TakeFromQueue, Locals
  <2>2. QED
    BY <1>11, <1>1, <1>a, <2>1 DEF TakeFromQueue
<1>12. ASSUME NEW a \in Actors, Embed(a) PROVE FtsInv'
  <2>1. CASE ReadRow(a)
    <3>1. CASE /\ pc' = [pc EXCEPT ![a] = "clear"]
               /\ call' = call /\ acked' = acked
      BY <1>1, <1>a, <1>d, <1>b, <2>1, <3>1 DEF ReadRow, Indexing
    <3>2. CASE Return(a) /\ Acknowledge(a)
      BY <1>h, <2>1, <3>2 DEF ReadRow, Indexing
    <3>3. QED
      BY <2>1, <3>1, <3>2 DEF ReadRow
  <2>2. CASE ClearMemory(a)
    BY <1>1, <1>a, <1>b, <1>d, <2>2 DEF ClearMemory, Indexing
  <2>3. CASE InsertChunk(a)
    <3>1. call'[a].mid = call[a].mid /\ call'[a].op = call[a].op
      BY <1>a, <2>3 DEF InsertChunk, Locals
    <3>2. /\ fts' = fts /\ acked' = acked /\ pc[a] = "chunk"
          /\ \A b \in Actors \ {a} : pc'[b] = pc[b] /\ call'[b] = call[b]
      BY <1>a, <2>3 DEF InsertChunk
    <3>3. QED
      BY <1>1, <1>b, <1>d, <3>1, <3>2 DEF Indexing
  <2>4. CASE SetReady(a)
    BY <1>h, <2>4 DEF SetReady, Indexing
  <2>5. CASE EmbeddingRaises(a)
    <3>1. CASE Done(a)
      BY <1>e, <1>g, <2>5, <3>1 DEF EmbeddingRaises
    <3>2. CASE pc' = [pc EXCEPT ![a] = "failed"] /\ call' = call
      BY <1>1, <1>a, <1>b, <1>d, <2>5, <3>2 DEF EmbeddingRaises, Indexing
    <3>3. QED
      BY <2>5, <3>1, <3>2 DEF EmbeddingRaises
  <2>6. QED
    BY <1>12, <2>1, <2>2, <2>3, <2>4, <2>5 DEF Embed
<1>13. CASE SetFailed
  BY <1>13, <1>e, <1>g DEF SetFailed
<1>14. ASSUME NEW t \in Threads, SearchCosine(t) PROVE FtsInv'
  BY <1>14, <1>a, <1>e, <1>g, <1>j DEF SearchCosine, Indexing
<1>15. ASSUME NEW t \in Threads, NEW id \in Ids, ReadCandidate(t, id)
       PROVE  FtsInv'
  <2>1. Leaves(t)
    BY <1>15, <1>a DEF ReadCandidate, Indexing
  <2>2. QED
    BY <1>15, <1>g, <1>j, <2>1 DEF ReadCandidate
<1>16. ASSUME NEW t \in Threads, Answer(t) PROVE FtsInv'
  BY <1>16, <1>e, <1>g, <1>j DEF Answer
<1>20. ASSUME NEW t \in Threads, Rerank(t) PROVE FtsInv'
  <2>1. Leaves(t)
    BY <1>20, <1>a DEF Rerank, Indexing
  <2>2. QED
    BY <1>20, <1>g, <1>j, <2>1 DEF Rerank
<1>17. CASE Crash
  BY <1>17, <1>b, <1>c DEF Crash, FtsInv, Indexing
<1>18. CASE UNCHANGED vars
  BY <1>18, <1>b, <1>c, <1>d DEF vars, FtsInv
<1>19. QED
  BY <1>2, <1>3, <1>4, <1>5, <1>6, <1>7, <1>8, <1>9, <1>10, <1>11, <1>12,
     <1>13, <1>14, <1>15, <1>16, <1>17, <1>18, <1>20
  DEF Next, Step, WorkerStep

\* A pending row stays on its way.
LEMMA PendingStep ==
  ASSUME TypeOK, PendingIsOnItsWay, [Next]_vars
  PROVE  PendingIsOnItsWay'
<1>a. /\ pc \in [Actors -> Labels] /\ call \in [Actors -> Locals]
      /\ queue \in Seq(Ids) /\ embedding \in [Ids -> {"none", "pending",
                                                     "ready", "failed"}]
      /\ item \in [Ids -> {"none", "live", "tombstone", "purged"}]
  BY DEF TypeOK
<1> DEFINE Wants == {id \in Live \ lost : embedding[id] = "pending"}
           Moving == {a \in Actors : pc[a] \in Indexing}
           Way == {queue[i] : i \in DOMAIN queue}
                    \cup {call[a].mid : a \in Moving}
<1>b. Wants \subseteq Way
  BY DEF PendingIsOnItsWay
<1>c. SUFFICES Wants' \subseteq Way'
  BY DEF PendingIsOnItsWay
<1> USE DEF Goto, Actors, tables, ghosts
\* A step of one thread that leaves the queue and the table.
<1>1. ASSUME NEW t \in Actors, queue' = queue, Wants' \subseteq Wants,
             \A a \in Actors \ {t} : pc'[a] = pc[a] /\ call'[a] = call[a],
             pc[t] \in Indexing =>
               \/ pc'[t] \in Indexing /\ call'[t].mid = call[t].mid
               \/ call[t].mid \notin Wants' \/ call[t].mid \in Way'
      PROVE  Wants' \subseteq Way'
  <2>1. ASSUME NEW id \in Wants' PROVE id \in Way'
    <3>1. id \in Way
      BY <1>1, <1>b, <2>1
    <3>2. CASE \E i \in DOMAIN queue : id = queue[i]
      BY <1>1, <3>2
    <3>3. ASSUME NEW a \in Moving, id = call[a].mid PROVE id \in Way'
      BY <1>1, <2>1, <3>3
    <3>4. QED
      BY <3>1, <3>2, <3>3
  <2>2. QED
    BY <2>1
<1>2. item' = item /\ embedding' = embedding /\ lost \subseteq lost'
        => Wants' \subseteq Wants
  BY DEF Live
<1>d. ASSUME NEW t \in Actors, Done(t)
      PROVE  \A a \in Actors \ {t} : pc'[a] = pc[a] /\ call'[a] = call[a]
  BY <1>a, <1>d DEF Done
<1>r. ASSUME NEW t \in Actors, Return(t)
      PROVE  \A a \in Actors \ {t} : pc'[a] = pc[a] /\ call'[a] = call[a]
  BY <1>a, <1>d, <1>r DEF Return
<1>j. Threads \subseteq Actors /\ Worker \in Actors
  OBVIOUS
\* Rows are tombstoned by a thread that embeds none.
<1>3. ASSUME NEW S, Tombstone(S), lost' = lost PROVE Wants' \subseteq Wants
  BY <1>3, <1>a DEF Tombstone, Live
<1>4. ASSUME NEW t \in Threads, Receive(t) PROVE Wants' \subseteq Way'
  <2>1. CASE ForgetPhrase(t)
    BY <1>1, <1>3, <1>j, <2>1 DEF ForgetPhrase
  <2>2. CASE PurgeTombstonedRows(t)
    <3>1. Wants' \subseteq Wants
      BY <1>a, <2>2 DEF PurgeTombstonedRows, Live
    <3>2. QED
      BY <1>1, <1>j, <2>2, <3>1 DEF PurgeTombstonedRows
  <2>3. CASE ReindexUserMemories(t) \/ FtsSearch(t)
    <3>1. /\ \A a \in Actors \ {t} : pc'[a] = pc[a] /\ call'[a] = call[a]
          /\ pc[t] = "free" /\ queue' = queue
      BY <1>a, <2>3 DEF ReindexUserMemories, FtsSearch
    <3>2. Wants' \subseteq Wants
      BY <1>2, <2>3 DEF ReindexUserMemories, FtsSearch
    <3>3. QED
      BY <1>1, <1>j, <3>1, <3>2 DEF Indexing
  <2>4. ASSUME NEW o, NEW l, NEW k, Start(t, o, l, k)
        PROVE  Wants' \subseteq Way'
    BY <1>1, <1>2, <1>a, <1>j, <2>4 DEF Start, Indexing
  <2>5. QED
    BY <1>4, <2>1, <2>2, <2>3, <2>4 DEF Receive, Remember, AddFact,
       PromoteArchivedSession, SetPreference, DeletePreference, DeleteFact
<1>5. ASSUME NEW t \in Threads, LookUp(t) PROVE Wants' \subseteq Way'
  <2>1. \A a \in Actors \ {t} : pc'[a] = pc[a] /\ call'[a] = call[a]
    BY <1>5, <1>a, <1>d DEF LookUp
  <2>2. QED
    BY <1>5, <1>1, <1>2, <1>j, <2>1 DEF LookUp, Indexing
<1>6. ASSUME NEW t \in Threads, TombstoneItem(t) PROVE Wants' \subseteq Way'
  <2>1. \A a \in Actors \ {t} : pc'[a] = pc[a] /\ call'[a] = call[a]
    BY <1>6, <1>a, <1>d DEF TombstoneItem
  <2>2. QED
    BY <1>6, <1>1, <1>3, <1>j, <2>1 DEF TombstoneItem, Indexing
<1>7. ASSUME NEW t \in Threads, InsertItem(t) PROVE Wants' \subseteq Way'
  <2>1. PICK id \in Ids : /\ item' = [item EXCEPT ![id] = "live"]
                          /\ embedding' = [embedding EXCEPT ![id] = "pending"]
                          /\ call' = [call EXCEPT ![t].mid = id]
    BY <1>7 DEF InsertItem
  <2>2. /\ call'[t].mid = id /\ pc'[t] = "fts" /\ pc[t] = "insert"
        /\ \A a \in Actors \ {t} : pc'[a] = pc[a] /\ call'[a] = call[a]
        /\ queue' = queue /\ lost' = lost
    BY <1>7, <1>a, <2>1 DEF InsertItem, Locals
  <2>3. id \in Way'
    BY <2>2 DEF Indexing
  <2>4. Wants' \subseteq Wants \cup {id}
    BY <1>a, <2>1, <2>2 DEF Live
  <2>5. Way \subseteq Way'
    BY <2>2 DEF Indexing
  <2>6. QED
    BY <1>b, <2>3, <2>4, <2>5
<1>8. ASSUME NEW t \in Threads, SyncFts(t) PROVE Wants' \subseteq Way'
  BY <1>8, <1>1, <1>2, <1>a, <1>j DEF SyncFts, Indexing
<1>9. ASSUME NEW t \in Threads, Put(t) PROVE Wants' \subseteq Way'
  <2>1. /\ queue' = Append(queue, call[t].mid) /\ Wants' \subseteq Wants
        /\ \A a \in Actors \ {t} : pc'[a] = pc[a] /\ call'[a] = call[a]
    BY <1>9, <1>2, <1>j, <1>r DEF Put
  <2>2. /\ \A i \in DOMAIN queue : i \in DOMAIN queue' /\ queue'[i] = queue[i]
        /\ Len(queue) + 1 \in DOMAIN queue'
        /\ queue'[Len(queue) + 1] = call[t].mid
    BY <1>a, <2>1, AppendProperties
  <2>3. \A i \in DOMAIN queue : queue[i] \in Way'
    BY <2>2
  <2>4. call[t].mid \in Way'
    BY <2>2
  <2>5. \A a \in Moving : call[a].mid \in Way'
    BY <2>1, <2>4
  <2>6. QED
    BY <1>b, <2>1, <2>3, <2>5
<1>10. ASSUME NEW t \in Threads, ReindexNext(t) PROVE Wants' \subseteq Way'
  <2>1. \A a \in Actors \ {t} : pc'[a] = pc[a] /\ call'[a] = call[a]
    BY <1>10, <1>a DEF ReindexNext
  <2>2. QED
    BY <1>10, <1>1, <1>2, <1>j, <2>1 DEF ReindexNext, Indexing
<1>11. ASSUME NEW t \in Threads, MarkPending(t) PROVE Wants' \subseteq Way'
  <2>1. /\ call' = call /\ pc'[t] \in Indexing /\ pc[t] \notin Indexing
        /\ \A a \in Actors \ {t} : pc'[a] = pc[a]
        /\ queue' = queue
    BY <1>11, <1>a DEF MarkPending, Indexing
  <2>2. Way \subseteq Way' /\ call[t].mid \in Way'
    BY <2>1
  <2>3. Wants' \subseteq Wants \cup {call[t].mid}
    BY <1>11, <1>a DEF MarkPending, SetStatus, Live
  <2>4. QED
    BY <1>b, <2>2, <2>3
<1>12. ASSUME NEW a \in Actors, queue # <<>>, queue' = Tail(queue),
              call'[a].mid = Head(queue),
              pc'[a] = "read", pc[a] \notin Indexing,
              \A b \in Actors \ {a} : pc'[b] = pc[b] /\ call'[b] = call[b]
       PROVE  Way \subseteq Way'
  <2>1. ASSUME NEW i \in DOMAIN queue PROVE queue[i] \in Way'
    <3>1. CASE i = 1
      <4>1. queue[i] = call'[a].mid
        BY <1>12, <1>a, <3>1
      <4>2. QED
        BY <1>12, <4>1 DEF Indexing
    <3>2. CASE i # 1
      <4>1. i - 1 \in DOMAIN queue' /\ queue'[i - 1] = queue[i]
        BY <1>12, <1>a, <2>1, <3>2
      <4>2. QED
        BY <4>1
    <3>3. QED
      BY <3>1, <3>2
  <2>2. ASSUME NEW b \in Moving PROVE call[b].mid \in Way'
    BY <1>12, <2>2
  <2>3. QED
    BY <2>1, <2>2
<1>13. ASSUME NEW t \in Threads, FlushQueue(t) PROVE Wants' \subseteq Way'
  <2>1. Wants' \subseteq Wants
    BY <1>13, <1>2 DEF FlushQueue
  <2>2. CASE /\ queue # <<>> /\ queue' = Tail(queue)
             /\ call' = [call EXCEPT ![t].mid = Head(queue)]
             /\ pc' = [pc EXCEPT ![t] = "read"]
    <3>1. /\ call'[t].mid = Head(queue) /\ pc'[t] = "read" /\ pc[t] = "reindex"
          /\ \A b \in Actors \ {t} : pc'[b] = pc[b] /\ call'[b] = call[b]
      BY <1>13, <1>a, <2>2 DEF FlushQueue, Locals
    <3>2. Way \subseteq Way'
      BY <1>12, <1>j, <2>2, <3>1 DEF Indexing
    <3>3. QED
      BY <1>b, <2>1, <3>2
  <2>3. CASE Done(t) /\ queue' = queue
    BY <1>13, <1>1, <1>d, <1>j, <2>1, <2>3 DEF FlushQueue, Indexing
  <2>4. QED
    BY <1>13, <2>2, <2>3 DEF FlushQueue
<1>14. CASE TakeFromQueue
  <2>1. /\ call'[Worker].mid = Head(queue)
        /\ pc'[Worker] = "read" /\ pc[Worker] = "free"
        /\ \A b \in Actors \ {Worker} : pc'[b] = pc[b] /\ call'[b] = call[b]
    BY <1>14, <1>a DEF TakeFromQueue, Locals
  <2>2. Way \subseteq Way'
    BY <1>12, <1>14, <1>j, <2>1 DEF TakeFromQueue, Indexing
  <2>3. QED
    BY <1>14, <1>2, <1>b, <2>2 DEF TakeFromQueue
<1>15. ASSUME NEW a \in Actors, Embed(a) PROVE Wants' \subseteq Way'
  <2>1. CASE ReadRow(a)
    <3>1. Wants' \subseteq Wants /\ queue' = queue
      BY <1>2, <2>1 DEF ReadRow
    <3>2. CASE pc' = [pc EXCEPT ![a] = "clear"] /\ call' = call
      BY <1>1, <1>a, <3>1, <3>2 DEF Indexing
    <3>3. CASE call[a].mid \notin Live /\ Return(a)
      BY <1>1, <1>r, <3>1, <3>3
    <3>4. QED
      BY <2>1, <3>2, <3>3 DEF ReadRow
  <2>2. CASE ClearMemory(a)
    BY <1>1, <1>2, <1>a, <2>2 DEF ClearMemory, Indexing
  <2>3. CASE InsertChunk(a)
    <3>1. call'[a].mid = call[a].mid /\ pc'[a] \in Indexing
      BY <1>a, <2>3 DEF InsertChunk, Locals, Indexing
    <3>2. \A b \in Actors \ {a} : pc'[b] = pc[b] /\ call'[b] = call[b]
      BY <1>a, <2>3 DEF InsertChunk
    <3>3. QED
      BY <1>1, <1>2, <2>3, <3>1, <3>2 DEF InsertChunk
  <2>4. CASE SetReady(a)
    <3>1. Wants' \subseteq Wants \ {call[a].mid}
      BY <1>a, <2>4 DEF SetReady, SetStatus, Live, Rows
    <3>2. QED
      BY <1>1, <1>r, <2>4, <3>1 DEF SetReady
  <2>5. CASE EmbeddingRaises(a)
    <3>1. CASE pc' = [pc EXCEPT ![a] = "failed"] /\ UNCHANGED <<call, lost>>
      BY <1>1, <1>2, <1>a, <2>5, <3>1 DEF EmbeddingRaises, Indexing
    <3>2. CASE Done(a) /\ lost' = lost \cup {call[a].mid}
      <4>1. Wants' \subseteq Wants \ {call[a].mid}
        BY <2>5, <3>2 DEF EmbeddingRaises, Live
      <4>2. QED
        BY <1>1, <1>d, <2>5, <3>2, <4>1 DEF EmbeddingRaises
    <3>3. QED
      BY <2>5, <3>1, <3>2 DEF EmbeddingRaises
  <2>6. QED
    BY <1>15, <2>1, <2>2, <2>3, <2>4, <2>5 DEF Embed
<1>16. CASE SetFailed
  <2>1. Wants' \subseteq Wants \ {call[Worker].mid}
    BY <1>16, <1>a DEF SetFailed, SetStatus, Live, Rows
  <2>2. QED
    BY <1>16, <1>1, <1>d, <2>1 DEF SetFailed
<1>17. ASSUME NEW t \in Threads, SearchCosine(t) PROVE Wants' \subseteq Way'
  <2>1. \A a \in Actors \ {t} : pc'[a] = pc[a] /\ call'[a] = call[a]
    BY <1>17, <1>a, <1>d DEF SearchCosine
  <2>2. QED
    BY <1>17, <1>1, <1>2, <1>j, <2>1 DEF SearchCosine, Indexing
<1>18. ASSUME NEW t \in Threads, NEW id \in Ids, ReadCandidate(t, id)
       PROVE  Wants' \subseteq Way'
  <2>1. \A a \in Actors \ {t} : pc'[a] = pc[a] /\ call'[a] = call[a]
    BY <1>18, <1>a DEF ReadCandidate
  <2>2. QED
    BY <1>18, <1>1, <1>2, <1>j, <2>1 DEF ReadCandidate, Indexing
<1>19. ASSUME NEW t \in Threads, Answer(t) PROVE Wants' \subseteq Way'
  BY <1>19, <1>1, <1>2, <1>d, <1>j DEF Answer, Indexing
<1>23. ASSUME NEW t \in Threads, Rerank(t) PROVE Wants' \subseteq Way'
  <2>1. \A a \in Actors \ {t} : pc'[a] = pc[a] /\ call'[a] = call[a]
    BY <1>23, <1>a DEF Rerank
  <2>2. QED
    BY <1>23, <1>1, <1>2, <1>j, <2>1 DEF Rerank, Indexing
<1>20. CASE Crash
  <2>1. Wants' = {}
    BY <1>20 DEF Crash, Live
  <2>2. QED
    BY <2>1
<1>21. CASE UNCHANGED vars
  BY <1>21, <1>b DEF vars, Live
<1>22. QED
  BY <1>4, <1>5, <1>6, <1>7, <1>8, <1>9, <1>10, <1>11, <1>13, <1>14, <1>15,
     <1>16, <1>17, <1>18, <1>19, <1>20, <1>21, <1>23
  DEF Next, Step, WorkerStep

\* No step changes the policy.
LEMMA PolicyStep == [Next]_vars => policy' = policy
<1>1. ASSUME NEW a, Embed(a) PROVE policy' = policy
  BY <1>1 DEF Embed, ReadRow, ClearMemory, InsertChunk, SetReady,
     EmbeddingRaises
<1>2. ASSUME NEW t, Receive(t) PROVE policy' = policy
  BY <1>2 DEF Receive, Start, Remember, AddFact, PromoteArchivedSession,
     SetPreference, DeletePreference, DeleteFact, ReindexUserMemories,
     ForgetPhrase, PurgeTombstonedRows, FtsSearch
<1>3. ASSUME NEW t, Step(t) PROVE policy' = policy
  BY <1>1, <1>3 DEF Step, LookUp, TombstoneItem, InsertItem, SyncFts, Put,
     ReindexNext, MarkPending, FlushQueue, SearchCosine, ReadCandidate, Rerank,
     Answer
<1>4. CASE WorkerStep \/ Crash \/ UNCHANGED vars
  BY <1>1, <1>4 DEF WorkerStep, TakeFromQueue, SetFailed, Crash, vars
<1>5. QED
  BY <1>2, <1>3, <1>4 DEF Next

\* A retrieval under way holds what it must and nothing it must not.
LEMMA RetrStep ==
  ASSUME TypeOK, MidInv, FtsInv, RetrInv, [Next]_vars
  PROVE  RetrInv'
<1>a. pc \in [Actors -> Labels] /\ call \in [Actors -> Locals]
  BY DEF TypeOK
<1> DEFINE
      Under(l) == l \in {"vectors", "rows", "answer"}
      Good(t) ==
        /\ call[t].never \subseteq Dead
        /\ call[t].hits \subseteq Live \cup Dead
        /\ call[t].found \subseteq call[t].view \ call[t].never
        /\ call[t].must \subseteq call[t].view
        /\ pc[t] = "answer" => Cardinality(call[t].found) <= policy.top
        /\ \A id \in call[t].must \ Dead :
             \/ CutOff(t, id)
             \/ pc[t] = "vectors" /\ id \in call[t].hits
             \/ pc[t] = "rows" /\ id \in call[t].todo \cap call[t].hits
             \/ pc[t] \in {"rows", "answer"} /\ id \in call[t].found
             \/ pc[t] = "answer" /\ FullAnswer(t)
<1>b. Dead \subseteq Dead' /\ Live \cup Dead \subseteq (Live \cup Dead)'
  BY RowsStep
<1>c. \A t \in Threads : Under(pc[t]) => Good(t)
  BY DEF RetrInv
<1>p. policy' = policy
  BY PolicyStep
<1>d. ASSUME NEW t \in Threads, pc'[t] = pc[t], call'[t] = call[t],
             Under(pc[t])
      PROVE  Good(t)'
  BY <1>b, <1>c, <1>d, <1>p DEF CutOff, FullAnswer
<1> USE DEF Goto, Actors, tables, ghosts
<1>1. ASSUME NEW t \in Actors,
             t \in Threads /\ Under(pc'[t]) => Good(t)',
             \A a \in Actors \ {t} : pc'[a] = pc[a] /\ call'[a] = call[a]
      PROVE  RetrInv'
  BY <1>1, <1>d DEF RetrInv
<1> HIDE DEF Good
<1> DEFINE Leaves(t) == /\ ~Under(pc'[t])
                        /\ \A a \in Actors \ {t} :
                             pc'[a] = pc[a] /\ call'[a] = call[a]
<1>e. ASSUME NEW t \in Actors, Done(t) PROVE Leaves(t)
  BY <1>a, <1>e DEF Done
<1>f. ASSUME NEW t \in Actors, Return(t) PROVE Leaves(t)
  BY <1>a, <1>e, <1>f DEF Return
<1>g. ASSUME NEW t \in Actors, Leaves(t) PROVE RetrInv'
  BY <1>1, <1>g
<1>j. Threads \subseteq Actors /\ Worker \in Actors
  OBVIOUS
<1>k. ASSUME pc' = pc, call' = call PROVE RetrInv'
  BY <1>d, <1>k DEF RetrInv, Good
<1>2. ASSUME NEW t \in Threads, FtsSearch(t) PROVE RetrInv'
  <2>0. PICK view \in Views, words \in BOOLEAN :
          \E hits \in Some(IF words THEN fts \cap Live ELSE {}, policy.hits) :
            call' = [call EXCEPT ![t] =
              [Idle EXCEPT !.op = "retrieve",
                           !.hits = hits,
                           !.view = view,
                           !.must = IF words THEN acked \cap Live \cap view
                                    ELSE {},
                           !.never = {id \in Ids :
                                        item[id] \in {"tombstone", "purged"}}]]
    BY <1>2 DEF FtsSearch
  <2>1. PICK hits \in Some(IF words THEN fts \cap Live ELSE {}, policy.hits) :
          call' = [call EXCEPT ![t] =
            [Idle EXCEPT !.op = "retrieve",
                         !.hits = hits,
                         !.view = view,
                         !.must = IF words THEN acked \cap Live \cap view
                                  ELSE {},
                         !.never = {id \in Ids :
                                      item[id] \in {"tombstone", "purged"}}]]
    BY <2>0
  <2>2. /\ call'[t].hits = hits /\ call'[t].view = view
        /\ call'[t].must = IF words THEN acked \cap Live \cap view ELSE {}
        /\ call'[t].never = Dead
        /\ call'[t].found = {}
    BY <1>a, <2>1 DEF Idle, Dead
  <2>3. acked \cap Live \subseteq fts \cap Live
    BY DEF FtsInv, Live, Dead
  <2>4. pc'[t] = "vectors" /\ Dead' = Dead /\ Live' = Live
    BY <1>2, <1>a DEF FtsSearch, Dead, Live
  <2>5. /\ hits \subseteq Live
        /\ \A id \in call'[t].must :
             id \in hits \/ Cardinality(hits) = policy.hits
    BY <2>2, <2>3 DEF Some
  <2>6. Good(t)'
    BY <1>p, <2>2, <2>4, <2>5 DEF Good, CutOff
  <2>7. QED
    BY <1>2, <1>1, <1>a, <1>j, <2>6 DEF FtsSearch
<1>3. ASSUME NEW t \in Threads, SearchCosine(t) PROVE RetrInv'
  <2>1. CASE Done(t)
    BY <1>e, <1>g, <1>j, <2>1
  <2>2. CASE ~Done(t)
    <3>0. PICK S : /\ call' = [call EXCEPT ![t].todo = call[t].hits \cup S]
                   /\ pc' = [pc EXCEPT ![t] = "rows"]
      BY <1>3, <2>2 DEF SearchCosine
    <3>1. /\ call'[t].todo = call[t].hits \cup S
          /\ call'[t].hits = call[t].hits /\ call'[t].must = call[t].must
          /\ call'[t].never = call[t].never /\ call'[t].found = call[t].found
          /\ call'[t].view = call[t].view
      BY <1>a, <3>0 DEF Locals
    <3>2. Good(t) /\ pc[t] = "vectors" /\ pc'[t] = "rows"
      BY <1>3, <1>a, <1>c, <3>0 DEF SearchCosine
    <3>3. Good(t)'
      BY <1>b, <1>p, <3>1, <3>2 DEF Good, CutOff
    <3>4. QED
      BY <1>1, <1>a, <1>j, <3>0, <3>3
  <2>3. QED
    BY <2>1, <2>2
<1>4. ASSUME NEW t \in Threads, NEW id \in Ids, ReadCandidate(t, id)
      PROVE  RetrInv'
  <2>1. /\ pc[t] = "rows" /\ pc' = pc /\ Dead' = Dead /\ Live' = Live
        /\ call' = [call EXCEPT ![t] =
             [@ EXCEPT !.todo = call[t].todo \ {id},
                       !.found = IF Qualifies(t, id)
                                 THEN call[t].found \cup {id}
                                 ELSE call[t].found]]
    BY <1>4 DEF ReadCandidate, Dead, Live
  <2>2. /\ call'[t].todo = call[t].todo \ {id}
        /\ call'[t].found = IF Qualifies(t, id) THEN call[t].found \cup {id}
                            ELSE call[t].found
        /\ call'[t].hits = call[t].hits /\ call'[t].must = call[t].must
        /\ call'[t].never = call[t].never /\ call'[t].view = call[t].view
    BY <1>a, <2>1 DEF Locals
  <2>3. Good(t)
    BY <1>c, <2>1
  <2>4. Qualifies(t, id) => id \notin Dead /\ id \in call[t].view
    BY DEF Qualifies, Live, Dead
  <2>5. ~Qualifies(t, id) =>
          id \notin call[t].hits \/ id \in Dead \/ id \notin call[t].must
    BY <2>3 DEF Qualifies, Good
  <2>6. Good(t)'
    BY <1>p, <2>1, <2>2, <2>3, <2>4, <2>5 DEF Good, CutOff
  <2>7. QED
    BY <1>1, <1>a, <1>j, <2>1, <2>6
<1>12. ASSUME NEW t \in Threads, Rerank(t) PROVE RetrInv'
  <2>1. /\ pc[t] = "rows" /\ pc' = [pc EXCEPT ![t] = "answer"]
        /\ call[t].todo = {} \/ Cardinality(call[t].found) >= policy.candidates
        /\ Dead' = Dead /\ Live' = Live
    BY <1>12 DEF Rerank, Dead, Live
  <2>2. PICK kept \in Some(call[t].found, policy.top) :
          call' = [call EXCEPT ![t].found = kept]
    BY <1>12 DEF Rerank
  <2>3. /\ call'[t].found = kept
        /\ call'[t].hits = call[t].hits /\ call'[t].must = call[t].must
        /\ call'[t].never = call[t].never /\ call'[t].view = call[t].view
    BY <1>a, <2>2 DEF Locals
  <2>4. Good(t) /\ pc'[t] = "answer"
    BY <1>a, <1>c, <2>1
  <2>5. policy.top \in Nat
    BY MemoryAssumption DEF TypeOK, Positive
  <2>6. /\ kept \subseteq call[t].found /\ Cardinality(kept) <= policy.top
        /\ kept = call[t].found \/ Cardinality(kept) >= policy.top
    BY <2>5 DEF Some
  <2>7. ASSUME NEW id \in call[t].must \ Dead
        PROVE  CutOff(t, id)' \/ id \in kept \/ FullAnswer(t)'
    <3>1. CASE Cardinality(kept) >= policy.top
      BY <1>p, <2>3, <3>1 DEF FullAnswer
    <3>2. CASE kept = call[t].found
      BY <1>p, <2>1, <2>3, <2>4, <3>2 DEF Good, CutOff, FullAnswer
    <3>3. QED
      BY <2>6, <3>1, <3>2
  <2>8. Good(t)'
    BY <1>p, <2>1, <2>3, <2>4, <2>6, <2>7 DEF Good
  <2>9. QED
    BY <1>1, <1>a, <1>j, <2>1, <2>2, <2>8
<1>5. ASSUME NEW t \in Threads, Receive(t) PROVE RetrInv'
  <2>1. CASE ForgetPhrase(t) \/ PurgeTombstonedRows(t)
    BY <1>k, <2>1 DEF ForgetPhrase, PurgeTombstonedRows
  <2>2. CASE ReindexUserMemories(t)
    BY <1>a, <1>g, <1>j, <2>2 DEF ReindexUserMemories
  <2>3. ASSUME NEW o, NEW l \in {"insert", "lookup"}, NEW k, Start(t, o, l, k)
        PROVE  RetrInv'
    BY <1>a, <1>g, <1>j, <2>3 DEF Start
  <2>4. QED
    BY <1>2, <1>5, <2>1, <2>2, <2>3 DEF Receive, Remember, AddFact,
       PromoteArchivedSession, SetPreference, DeletePreference, DeleteFact
<1>6. ASSUME NEW a \in Actors, Embed(a) PROVE RetrInv'
  <2>1. CASE ReadRow(a) \/ SetReady(a)
    BY <1>a, <1>f, <1>g, <2>1 DEF ReadRow, SetReady
  <2>2. CASE ClearMemory(a) \/ InsertChunk(a)
    BY <1>a, <1>g, <2>2 DEF ClearMemory, InsertChunk
  <2>3. CASE EmbeddingRaises(a)
    BY <1>a, <1>e, <1>g, <2>3 DEF EmbeddingRaises
  <2>4. QED
    BY <1>6, <2>1, <2>2, <2>3 DEF Embed
<1>7. ASSUME NEW t \in Threads, Step(t) PROVE RetrInv'
  <2>1. CASE LookUp(t) \/ TombstoneItem(t)
    BY <1>a, <1>e, <1>g, <1>j, <2>1 DEF LookUp, TombstoneItem
  <2>2. CASE InsertItem(t) \/ SyncFts(t) \/ MarkPending(t)
    BY <1>a, <1>g, <1>j, <2>2 DEF InsertItem, SyncFts, MarkPending
  <2>3. CASE Put(t)
    BY <1>f, <1>g, <1>j, <2>3 DEF Put
  <2>4. CASE ReindexNext(t)
    BY <1>a, <1>g, <1>j, <2>4 DEF ReindexNext
  <2>5. CASE FlushQueue(t) \/ Answer(t)
    BY <1>a, <1>e, <1>g, <1>j, <2>5 DEF FlushQueue, Answer
  <2>6. QED
    BY <1>3, <1>4, <1>6, <1>7, <1>12, <2>1, <2>2, <2>3, <2>4, <2>5 DEF Step
<1>8. CASE WorkerStep
  BY <1>6, <1>8, <1>a, <1>e, <1>g DEF WorkerStep, TakeFromQueue, SetFailed
<1>9. CASE Crash
  BY <1>9 DEF Crash, RetrInv
<1>10. CASE UNCHANGED vars
  BY <1>10, <1>k DEF vars
<1>11. QED
  BY <1>5, <1>7, <1>8, <1>9, <1>10 DEF Next

\* The invariant is inductive.
LEMMA InvStep == IInv /\ [Next]_vars => IInv'
BY TypeStep, MidStep, OpStep, EmbedStep, FtsStep, RetrStep, LeftoversStep,
   PendingStep
DEF IInv

LEMMA Invariance == Spec => []IInv
BY InitInv, InvStep, PTL DEF Spec

(***************************************************************************)
(* Every variable keeps its type: among the locals of a thread, the        *)
(* numbers of chunks and of rows that _embed_one_sync and the retrieval go *)
(* through.                                                                *)
(***************************************************************************)
THEOREM MemoryTypeCorrect == Spec => []TypeOK
<1>1. IInv => TypeOK
  BY DEF IInv
<1>2. QED
  BY <1>1, Invariance, PTL

(***************************************************************************)
(* retrieve_for_context returns at most retrieve_top_k memories, of the     *)
(* channels its request may see and none deleted before it began; and one  *)
(* whose ingest_record had returned and whose words match is missing only  *)
(* if it is deleted meanwhile, if fts_search was cut off at its limit      *)
(* without it, or if as many were found as rerank_max_candidates or        *)
(* retrieve_top_k allow.  Under any policy, with any number of rows and of *)
(* threads that insert, delete, embed and re-index, and after any crash.   *)
(***************************************************************************)
THEOREM RetrievalIsFaithful == Spec => []RetrievalFaithful
<1>1. IInv => RetrievalFaithful
  BY DEF IInv, RetrInv, RetrievalFaithful, Live, Dead
<1>2. QED
  BY <1>1, Invariance, PTL

(***************************************************************************)
(* tombstone_item leaves no FTS row, and chunks appear under a deleted row *)
(* only if it was deleted while _embed_one_sync was between its read of    *)
(* the row and its last insert.                                            *)
(***************************************************************************)
THEOREM OnlyTornLeftovers == Spec => []LeftoversExplained
<1>1. IInv => LeftoversExplained
  BY DEF IInv
<1>2. QED
  BY <1>1, Invariance, PTL

(***************************************************************************)
(* A row is pending only while it is queued or in the hands of a thread    *)
(* that will embed it or mark it failed, unless its exception went to a    *)
(* request or the process died: _worker_loop drops none.                   *)
(***************************************************************************)
THEOREM PendingTracked == Spec => []PendingIsOnItsWay
<1>1. IInv => PendingIsOnItsWay
  BY DEF IInv
<1>2. QED
  BY <1>1, Invariance, PTL
-----------------------------------------------------------------------------
(* Preferences and the embedding of a row                                   *)

\* Who sets a preference, and who has a row to embed.
Sets(t, k) == call[t].op = "set" /\ call[t].key = k
Holds(a, id) == pc[a] \in Indexing /\ call[a].mid = id

\* Only set_preference and delete_preference carry a preference's key, and
\* the worker calls neither.
KeyInv ==
  /\ call[Worker].op \in {"none", "worker"}
  /\ \A a \in Actors :
       /\ call[a].op \notin {"set", "delete"} => call[a].key \notin Keys
       /\ pc[a] = "insert" => call[a].op # "delete"

\* A thread past the lookup of an uncontended key is the only one that sets
\* it, and has found the one row there is.
SetInv ==
  \A k \in Keys \ contended :
    /\ \A t, u \in Threads : Sets(t, k) /\ Sets(u, k) => t = u
    /\ Like[k] = {k} =>
         /\ \A i, j \in Live : about[i] = k /\ about[j] = k => i = j
         /\ \A t \in Threads : Sets(t, k) =>
              /\ pc[t] = "tombstone" =>
                   \A i \in Live : about[i] = k => i = call[t].mid
              /\ pc[t] = "insert" => \A i \in Live : about[i] # k

\* The next chunk is the first but for a thread that inserts them.
PartInv ==
  \A a \in Actors : pc[a] \notin {"chunk", "ready", "failed"} => call[a].part = 1

\* Unless it was re-indexed meanwhile, one embedding of a row is queued or
\* under way at a time, and the row is pending as long.
Once(id) ==
  /\ \A a, b \in Actors : Holds(a, id) /\ Holds(b, id) => a = b
  /\ \A i, j \in DOMAIN queue : queue[i] = id /\ queue[j] = id => i = j
  /\ \A a \in Actors, i \in DOMAIN queue : ~(Holds(a, id) /\ queue[i] = id)
  /\ (\E a \in Actors : Holds(a, id)) \/ (\E i \in DOMAIN queue : queue[i] = id)
       => embedding[id] = "pending"

\* Its chunks are those the embedding has inserted, all of them at the end.
Chunked(id) ==
  /\ \A a \in Actors : Holds(a, id) =>
       /\ pc[a] = "chunk" => chunks[id] = 1..(call[a].part - 1)
       /\ pc[a] = "ready" => chunks[id] = 1..Parts
  /\ embedding[id] = "ready" => chunks[id] = 1..Parts

EmbedOnceInv == \A id \in Live \ again : Once(id) /\ Chunked(id)

\* What a step may do to the locals that these invariants speak of.
Kept(a) == /\ call'[a].op = call[a].op /\ call'[a].key = call[a].key
           /\ call'[a].part = call[a].part
KeptMid(a) == Kept(a) /\ call'[a].mid = call[a].mid
Moves(a, l, m) == pc[a] = l /\ pc'[a] = m

Moved(a) ==
  \/ pc'[a] = pc[a] /\ KeptMid(a)
  \/ pc'[a] = "free" /\ call'[a] = Idle
  \/ /\ a \in Threads /\ pc[a] = "free"
     /\ pc'[a] \in {"insert", "lookup", "reindex", "vectors"}
     /\ call'[a].mid = 0 /\ call'[a].part = 1
     /\ call'[a].op \in {"set", "delete"} => pc'[a] = "lookup"
     /\ call'[a].op \notin {"set", "delete"} => call'[a].key \notin Keys
     /\ call'[a].op = "set" =>
          \E k \in Keys : call'[a].key = k /\ SetPreference(a, k)
  \/ /\ Moves(a, "lookup", "tombstone") /\ a \in Threads
     /\ Kept(a) /\ call'[a].mid \in Matches(a) \ {0}
  \/ Moves(a, "lookup", "insert") /\ a \in Threads /\ call[a].op = "set" /\ KeptMid(a) /\ 0 \in Matches(a)
  \/ /\ Moves(a, "tombstone", "insert") /\ call[a].op = "set"
     /\ Kept(a) /\ call'[a].mid = 0 /\ call[a].mid \notin Live'
  \/ Moves(a, "insert", "fts") /\ Kept(a)
  \/ pc[a] \in {"fts", "mark"} /\ pc'[a] \in {"put", "read"} /\ KeptMid(a)
  \/ /\ pc[a] \in {"put", "read", "ready"} /\ pc'[a] = "insert"
     /\ call[a].op = "promote" /\ call'[a] = [Idle EXCEPT !.op = "ingest"]
  \/ /\ pc[a] \in {"put", "read", "ready"} /\ pc'[a] = "reindex"
     /\ call[a].op = "reindex"
     /\ call'[a].op = "reindex" /\ call'[a].key = call[a].key
     /\ call'[a].mid = 0 /\ call'[a].part = 1
  \/ Moves(a, "reindex", "mark") /\ Kept(a)
  \/ Moves(a, "reindex", "read") /\ Kept(a)
  \/ /\ Moves(a, "free", "read") /\ a = Worker /\ call'[a].op = "worker"
     /\ call'[a].key = call[a].key /\ call'[a].part = call[a].part
  \/ Moves(a, "read", "clear") /\ KeptMid(a)
  \/ Moves(a, "clear", "chunk") /\ KeptMid(a)
  \/ /\ pc[a] = "chunk" /\ pc'[a] = "chunk"
     /\ call'[a].op = call[a].op /\ call'[a].key = call[a].key
     /\ call'[a].mid = call[a].mid
  \/ pc[a] = "chunk" /\ pc'[a] \in {"ready", "failed"} /\ KeptMid(a)
  \/ Moves(a, "vectors", "rows") /\ KeptMid(a)
  \/ Moves(a, "rows", "answer") /\ KeptMid(a)
\* Every step moves a thread in one of these ways.
LEMMA MoveStep ==
  ASSUME TypeOK, OpInv, [Next]_vars
  PROVE  \A a \in Actors : Moved(a)
<1>a. pc \in [Actors -> Labels] /\ call \in [Actors -> Locals]
  BY DEF TypeOK
<1>b. \A a \in Actors : call[a] \in Locals
  BY <1>a
<1> DEFINE All == \A a \in Actors : Moved(a)
<1>c. ASSUME NEW t \in Actors, \A b \in Actors \ {t} : pc'[b] = pc[b] /\ call'[b] = call[b],
             Moved(t)
      PROVE  All
  BY <1>c DEF Moved, KeptMid, Kept
<1>d. ASSUME NEW t \in Actors, Done(t) PROVE All
  BY <1>a, <1>c, <1>d DEF Done, Goto, Moved
<1>e. ASSUME NEW t \in Actors, pc[t] \in {"put", "read", "ready"}, Return(t)
      PROVE  All
  <2>1. CASE call[t].op = "promote"
    BY <1>a, <1>c, <1>e, <2>1 DEF Return, Goto, Moved
  <2>2. CASE call[t].op = "reindex"
    <3>1. /\ pc' = [pc EXCEPT ![t] = "reindex"]
          /\ call' = [call EXCEPT ![t] = [@ EXCEPT !.mid = 0, !.part = 1]]
      BY <1>e, <2>2 DEF Return, Goto
    <3>2. /\ call'[t].op = "reindex" /\ call'[t].key = call[t].key
          /\ call'[t].mid = 0 /\ call'[t].part = 1
      BY <1>a, <1>b, <2>2, <3>1 DEF Locals
    <3>3. Moved(t)
      BY <1>a, <1>e, <2>2, <3>1, <3>2 DEF Moved
    <3>4. QED
      BY <1>a, <1>c, <3>1, <3>3
  <2>3. CASE call[t].op \notin {"promote", "reindex"}
    BY <1>d, <1>e, <2>3 DEF Return
  <2>4. QED
    BY <2>1, <2>2, <2>3
<1>f. ASSUME NEW t \in Actors, NEW l, pc' = [pc EXCEPT ![t] = l], call' = call,
             Moved(t)
      PROVE  All
  BY <1>a, <1>c, <1>f
<1>g. ASSUME NEW t \in Actors, NEW r, pc' = pc, call' = [call EXCEPT ![t] = r],
             Moved(t)
      PROVE  All
  BY <1>a, <1>c, <1>g
<1>h. ASSUME NEW t \in Actors, NEW l, NEW r, pc' = [pc EXCEPT ![t] = l],
             call' = [call EXCEPT ![t] = r], Moved(t)
      PROVE  All
  BY <1>a, <1>c, <1>h
<1>i. pc' = pc /\ call' = call => All
  BY DEF Moved, KeptMid, Kept
<1> HIDE DEF All
<1> USE DEF Goto, Actors
<1>1. ASSUME NEW t \in Threads, Receive(t) PROVE All
  <2>1. CASE ForgetPhrase(t) \/ PurgeTombstonedRows(t)
    BY <1>i, <2>1 DEF ForgetPhrase, PurgeTombstonedRows
  <2>2. CASE ReindexUserMemories(t)
    <3> DEFINE r == [Idle EXCEPT !.op = "reindex",
                                !.todo = Latest(policy.listed)]
    <3>1. /\ pc[t] = "free" /\ call' = [call EXCEPT ![t] = r]
          /\ pc' = [pc EXCEPT ![t] = "reindex"]
      BY <2>2 DEF ReindexUserMemories
    <3>2. /\ call'[t].mid = 0 /\ call'[t].part = 1 /\ call'[t].op = "reindex"
          /\ call'[t].key = "note"
      BY <1>a, <3>1 DEF Idle
    <3>3. Moved(t)
      BY <1>a, <3>1, <3>2, MemoryAssumption DEF Moved
    <3>4. QED
      BY <1>h, <3>1, <3>3
  <2>3. CASE FtsSearch(t)
    <3>1. PICK H, V, M, N : call' = [call EXCEPT ![t] =
            [Idle EXCEPT !.op = "retrieve", !.hits = H, !.view = V,
                         !.must = M, !.never = N]]
      BY <2>3 DEF FtsSearch
    <3>2. pc[t] = "free" /\ pc' = [pc EXCEPT ![t] = "vectors"]
      BY <2>3 DEF FtsSearch
    <3>3. /\ call'[t].mid = 0 /\ call'[t].part = 1 /\ call'[t].op = "retrieve"
          /\ call'[t].key = "note"
      BY <1>a, <3>1 DEF Idle
    <3>4. Moved(t)
      BY <1>a, <3>2, <3>3, MemoryAssumption DEF Moved
    <3>5. QED
      BY <1>h, <3>1, <3>2, <3>4
  <2>4. ASSUME NEW o, NEW l \in {"insert", "lookup"}, NEW k, Start(t, o, l, k),
               o \in {"set", "delete"} => l = "lookup",
               o \notin {"set", "delete"} => k \notin Keys,
             o = "set" => k \in Keys /\ SetPreference(t, k)
        PROVE  All
    <3>1. /\ pc[t] = "free"
          /\ call' = [call EXCEPT ![t] = [Idle EXCEPT !.op = o, !.key = k]]
          /\ pc' = [pc EXCEPT ![t] = l]
      BY <2>4 DEF Start
    <3>2. /\ call'[t].mid = 0 /\ call'[t].part = 1 /\ call'[t].op = o
          /\ call'[t].key = k
      BY <1>a, <3>1 DEF Idle
    <3>3. Moved(t)
      BY <1>a, <2>4, <3>1, <3>2 DEF Moved
    <3>4. QED
      BY <1>h, <3>1, <3>3
  <2>5. "note" \notin Keys /\ "fact" \notin Keys
    BY MemoryAssumption
  <2>6. ASSUME NEW k \in Keys, SetPreference(t, k) PROVE All
    BY <2>4, <2>6 DEF SetPreference
  <2>7. QED
    BY <1>1, <2>1, <2>2, <2>3, <2>4, <2>5, <2>6 DEF Receive, Remember, AddFact,
       PromoteArchivedSession, DeletePreference, DeleteFact
<1>2. ASSUME NEW t \in Threads, LookUp(t) PROVE All
  <2>1. pc[t] = "lookup"
    BY <1>2 DEF LookUp
  <2>2. PICK id \in Matches(t) :
          \/ /\ id # 0
             /\ call' = [call EXCEPT ![t].mid = id]
             /\ Goto(t, "tombstone")
          \/ id = 0 /\ call[t].op = "set" /\ Goto(t, "insert") /\ UNCHANGED call
          \/ id = 0 /\ call[t].op = "delete" /\ Done(t)
    BY <1>2 DEF LookUp
  <2>3. CASE id # 0
    <3>1. /\ call' = [call EXCEPT ![t] = [call[t] EXCEPT !.mid = id]]
          /\ pc' = [pc EXCEPT ![t] = "tombstone"]
      BY <2>2, <2>3
    <3>2. Kept(t) /\ call'[t].mid = id
      BY <1>a, <1>b, <3>1 DEF Locals, Kept
    <3>3. Moved(t)
      BY <1>a, <2>1, <2>2, <2>3, <3>1, <3>2 DEF Moved, Moves
    <3>4. QED
      BY <1>h, <3>1, <3>3
  <2>4. CASE /\ id = 0 /\ call[t].op = "set" /\ Goto(t, "insert")
             /\ UNCHANGED call
    <3>1. Moved(t)
      BY <1>a, <2>1, <2>2, <2>4 DEF Moved, Moves, Kept, KeptMid
    <3>2. QED
      BY <1>f, <2>4, <3>1
  <2>5. QED
    BY <1>d, <2>2, <2>3, <2>4
<1>3. ASSUME NEW t \in Threads, TombstoneItem(t) PROVE All
  <2>1. CASE call[t].op = "set"
    <3>1. /\ pc[t] = "tombstone"
          /\ call' = [call EXCEPT ![t] = [call[t] EXCEPT !.mid = 0]]
          /\ pc' = [pc EXCEPT ![t] = "insert"]
      BY <1>3, <2>1 DEF TombstoneItem
    <3>2. Kept(t) /\ call'[t].mid = 0
      BY <1>a, <1>b, <3>1 DEF Locals, Kept
    <3>5. call[t].mid \notin Live'
      BY <1>3 DEF TombstoneItem, Tombstone, Live, Rows
    <3>3. Moved(t)
      BY <1>a, <2>1, <3>1, <3>2, <3>5 DEF Moved, Moves
    <3>4. QED
      BY <1>h, <3>1, <3>3
  <2>2. CASE call[t].op # "set"
    BY <1>d, <1>3, <2>2 DEF TombstoneItem
  <2>3. QED
    BY <2>1, <2>2
<1>4. ASSUME NEW t \in Threads, InsertItem(t) PROVE All
  <2>1. PICK id \in Ids : call' = [call EXCEPT ![t].mid = id]
    BY <1>4 DEF InsertItem
  <2>2. /\ pc[t] = "insert"
        /\ call' = [call EXCEPT ![t] = [call[t] EXCEPT !.mid = id]] /\ pc' = [pc EXCEPT ![t] = "fts"]
    BY <1>4, <2>1 DEF InsertItem
  <2>3. Kept(t)
    BY <1>a, <1>b, <2>2 DEF Locals, Kept
  <2>4. Moved(t)
    BY <1>a, <2>2, <2>3 DEF Moved, Moves
  <2>5. QED
    BY <1>h, <2>2, <2>4
<1>5. ASSUME NEW t \in Threads, SyncFts(t) \/ MarkPending(t) PROVE All
  <2>1. PICK l \in {"put", "read"} : /\ pc' = [pc EXCEPT ![t] = l]
                                     /\ call' = call /\ pc[t] \in {"fts", "mark"}
    BY <1>5 DEF SyncFts, MarkPending
  <2>2. Moved(t)
    BY <1>a, <2>1 DEF Moved, Kept, KeptMid
  <2>3. QED
    BY <1>f, <2>1, <2>2
<1>6. ASSUME NEW t \in Threads, Put(t) PROVE All
  BY <1>6, <1>e DEF Put
<1>7. ASSUME NEW t \in Threads, ReindexNext(t) PROVE All
  <2>1. PICK id \in Newest(call[t].todo) :
          \/ /\ call' = [call EXCEPT ![t] =
                  [@ EXCEPT !.todo = call[t].todo \ {id}, !.mid = id]]
             /\ pc' = [pc EXCEPT ![t] = "mark"]
          \/ /\ call' = [call EXCEPT ![t].todo = @ \ {id}]
             /\ pc' = pc
    BY <1>7 DEF ReindexNext
  <2>2. pc[t] = "reindex"
    BY <1>7 DEF ReindexNext
  <2>3. CASE /\ call' = [call EXCEPT ![t] =
                  [@ EXCEPT !.todo = call[t].todo \ {id}, !.mid = id]]
             /\ pc' = [pc EXCEPT ![t] = "mark"]
    <3>1. call' = [call EXCEPT ![t] = [call[t] EXCEPT !.todo = call[t].todo \ {id}, !.mid = id]]
      BY <2>3
    <3>2. Kept(t)
      BY <1>a, <1>b, <3>1 DEF Locals, Kept
    <3>3. Moved(t)
      BY <1>a, <2>2, <2>3, <3>2 DEF Moved, Moves
    <3>4. QED
      BY <1>h, <2>3, <3>1, <3>3
  <2>4. CASE /\ call' = [call EXCEPT ![t].todo = @ \ {id}]
             /\ pc' = pc
    <3>1. call' = [call EXCEPT ![t] = [call[t] EXCEPT !.todo = call[t].todo \ {id}]]
      BY <2>4
    <3>2. KeptMid(t)
      BY <1>a, <1>b, <3>1 DEF Locals, Kept, KeptMid
    <3>3. Moved(t)
      BY <2>4, <3>2 DEF Moved
    <3>4. QED
      BY <1>g, <2>4, <3>1, <3>3
  <2>5. QED
    BY <2>1, <2>3, <2>4
<1>8. ASSUME NEW t \in Threads, FlushQueue(t) PROVE All
  <2>1. CASE /\ policy.async /\ queue # <<>>
             /\ call' = [call EXCEPT ![t].mid = Head(queue)] /\ pc' = [pc EXCEPT ![t] = "read"]
    <3>1. /\ pc[t] = "reindex"
          /\ call' = [call EXCEPT ![t] = [call[t] EXCEPT !.mid = Head(queue)]]
      BY <1>8, <2>1 DEF FlushQueue
    <3>2. Kept(t)
      BY <1>a, <1>b, <3>1 DEF Locals, Kept
    <3>3. Moved(t)
      BY <1>a, <2>1, <3>1, <3>2 DEF Moved, Moves
    <3>4. QED
      BY <1>h, <2>1, <3>1, <3>3
  <2>2. QED
    BY <1>8, <1>d, <2>1 DEF FlushQueue
<1>9. CASE TakeFromQueue
  <2>1. /\ pc[Worker] = "free" /\ pc' = [pc EXCEPT ![Worker] = "read"]
        /\ call' = [call EXCEPT ![Worker] = [call[Worker] EXCEPT !.op = "worker", !.mid = Head(queue)]]
    BY <1>9 DEF TakeFromQueue
  <2>2. /\ call'[Worker].op = "worker" /\ call'[Worker].key = call[Worker].key
        /\ call'[Worker].part = call[Worker].part
    BY <1>a, <1>b, <2>1 DEF Locals
  <2>3. Moved(Worker)
    BY <1>a, <2>1, <2>2 DEF Moved, Moves
  <2>5. Worker \in Actors
    OBVIOUS
  <2>4. QED
    BY <1>h, <2>1, <2>3, <2>5 DEF All
<1>10. ASSUME NEW a \in Actors, Embed(a) PROVE All
  <2>1. CASE ReadRow(a)
    <3>1. CASE Goto(a, "clear") /\ UNCHANGED call
      <4>1. Moved(a)
        BY <1>a, <2>1, <3>1 DEF Moved, Moves, Kept, KeptMid, ReadRow
      <4>2. QED
        BY <1>f, <3>1, <4>1
    <3>2. QED
      BY <1>e, <2>1, <3>1 DEF ReadRow
  <2>2. CASE ClearMemory(a)
    <3>1. Moved(a)
      BY <1>a, <2>2 DEF Moved, Moves, Kept, KeptMid, ClearMemory
    <3>2. QED
      BY <1>f, <2>2, <3>1 DEF ClearMemory
  <2>3. CASE InsertChunk(a)
    <3>1. CASE call[a].part = Parts
      <4>1. Moved(a)
        BY <1>a, <2>3, <3>1 DEF Moved, Kept, KeptMid, InsertChunk
      <4>2. QED
        BY <1>f, <2>3, <3>1, <4>1 DEF InsertChunk
    <3>2. CASE call[a].part # Parts
      <4>1. /\ pc[a] = "chunk" /\ pc' = pc
            /\ call' = [call EXCEPT ![a] = [call[a] EXCEPT !.part = @ + 1]]
        BY <2>3, <3>2 DEF InsertChunk
      <4>2. /\ call'[a].op = call[a].op /\ call'[a].key = call[a].key
            /\ call'[a].mid = call[a].mid
        BY <1>a, <1>b, <4>1 DEF Locals
      <4>3. Moved(a)
        BY <4>1, <4>2 DEF Moved
      <4>4. QED
        BY <1>g, <4>1, <4>3
    <3>3. QED
      BY <3>1, <3>2
  <2>4. CASE SetReady(a)
    BY <1>e, <2>4 DEF SetReady
  <2>5. CASE EmbeddingRaises(a)
    <3>1. CASE Goto(a, "failed") /\ UNCHANGED call
      <4>1. Moved(a)
        BY <1>a, <2>5, <3>1 DEF Moved, Kept, KeptMid, EmbeddingRaises
      <4>2. QED
        BY <1>f, <3>1, <4>1
    <3>2. QED
      BY <1>d, <2>5, <3>1 DEF EmbeddingRaises
  <2>6. QED
    BY <1>10, <2>1, <2>2, <2>3, <2>4, <2>5 DEF Embed
<1>11. CASE SetFailed
  <2>1. Worker \in Actors /\ Done(Worker)
    BY <1>11 DEF SetFailed
  <2>2. QED
    BY <1>d, <2>1 DEF All
<1>12. ASSUME NEW t \in Threads, SearchCosine(t) PROVE All
  <2>1. CASE Done(t)
    BY <1>d, <2>1
  <2>2. CASE ~Done(t)
    <3>1. PICK S : /\ pc[t] = "vectors" /\ pc' = [pc EXCEPT ![t] = "rows"]
                   /\ call' = [call EXCEPT ![t] = [call[t] EXCEPT !.todo = S]]
      BY <1>12, <2>2 DEF SearchCosine
    <3>2. KeptMid(t)
      BY <1>a, <1>b, <3>1 DEF Locals, Kept, KeptMid
    <3>3. Moved(t)
      BY <1>a, <3>1, <3>2 DEF Moved, Moves
    <3>4. QED
      BY <1>h, <3>1, <3>3
  <2>3. QED
    BY <2>1, <2>2
<1>13. ASSUME NEW t \in Threads, NEW id \in Ids, ReadCandidate(t, id) PROVE All
  <2>1. PICK S, F : call' = [call EXCEPT ![t] = [call[t] EXCEPT !.todo = S, !.found = F]]
    BY <1>13 DEF ReadCandidate
  <2>2. KeptMid(t)
    BY <1>a, <1>b, <2>1 DEF Locals, Kept, KeptMid
  <2>3. pc' = pc
    BY <1>13 DEF ReadCandidate
  <2>4. Moved(t)
    BY <2>2, <2>3 DEF Moved
  <2>5. QED
    BY <1>g, <2>1, <2>3, <2>4
<1>14. ASSUME NEW t \in Threads, Answer(t) PROVE All
  BY <1>14, <1>d DEF Answer
<1>18. ASSUME NEW t \in Threads, Rerank(t) PROVE All
  <2>1. PICK F : call' = [call EXCEPT ![t] = [call[t] EXCEPT !.found = F]]
    BY <1>18 DEF Rerank
  <2>2. pc[t] = "rows" /\ pc' = [pc EXCEPT ![t] = "answer"]
    BY <1>18 DEF Rerank
  <2>3. KeptMid(t)
    BY <1>a, <1>b, <2>1 DEF Locals, Kept, KeptMid
  <2>4. Moved(t)
    BY <1>a, <2>2, <2>3 DEF Moved, Moves
  <2>5. QED
    BY <1>h, <2>1, <2>2, <2>4
<1>15. CASE Crash
  BY <1>15 DEF Crash, Moved, All
<1>16. CASE UNCHANGED vars
  <2>1. pc' = pc /\ call' = call
    BY <1>16 DEF vars
  <2>2. QED
    BY <1>i, <2>1 DEF All
<1>17. QED
  BY <1>1, <1>2, <1>3, <1>4, <1>5, <1>6, <1>7, <1>8, <1>9, <1>10, <1>11, <1>12,
     <1>13, <1>14, <1>15, <1>16, <1>18
  DEF Next, Step, WorkerStep, All

\* A call's key and op are what it was started with.
LEMMA KeyStep ==
  ASSUME TypeOK, OpInv, KeyInv, PartInv, [Next]_vars
  PROVE  KeyInv' /\ PartInv'
<1>1. \A a \in Actors : Moved(a)
  BY MoveStep
<1>2. /\ Idle.op = "none" /\ Idle.key = "note" /\ Idle.mid = 0 /\ Idle.part = 1
      /\ LET r == [Idle EXCEPT !.op = "ingest"]
         IN  r.op = "ingest" /\ r.key = "note" /\ r.mid = 0 /\ r.part = 1
  BY DEF Idle
<1>3. "note" \notin Keys /\ Worker \notin Threads /\ Worker \in Actors
  BY MemoryAssumption DEF Actors
<1>4. call'[Worker].op \in {"none", "worker"}
  BY <1>1, <1>2, <1>3 DEF Moved, Moves, Kept, KeptMid, KeyInv
<1>5. ASSUME NEW a \in Actors
      PROVE  /\ call'[a].op \notin {"set", "delete"} => call'[a].key \notin Keys
             /\ pc'[a] = "insert" => call'[a].op # "delete"
  <2>1. Moved(a)
    BY <1>1
  <2>2. /\ a = Worker => call[a].op \in {"none", "worker"}
        /\ call[a].op \notin {"set", "delete"} => call[a].key \notin Keys
        /\ pc[a] = "insert" => call[a].op # "delete"
    BY DEF KeyInv
  <2>3. pc'[a] = "insert" => call'[a].op # "delete"
    BY <1>2, <2>1, <2>2 DEF Moved, Moves, Kept, KeptMid
  <2>4. call'[a].op \notin {"set", "delete"} => call'[a].key \notin Keys
    BY <1>2, <1>3, <2>1, <2>2 DEF Moved, Moves, Kept, KeptMid
  <2>5. QED
    BY <2>3, <2>4
<1>6. ASSUME NEW a \in Actors
      PROVE  pc'[a] \notin {"chunk", "ready", "failed"} => call'[a].part = 1
  BY <1>1, <1>2 DEF Moved, Moves, Kept, KeptMid, PartInv
<1>7. QED
  BY <1>4, <1>5, <1>6 DEF KeyInv, PartInv

\* Only insert_item makes a row, and only it says what the row is about.
LEMMA NewRow ==
  ASSUME TypeOK, MidInv, [Next]_vars
  PROVE  \/ \A i \in Live' : i \in Live /\ about'[i] = about[i]
         \/ \E t \in Threads, n \in Ids :
              /\ pc[t] = "insert" /\ pc'[t] = "fts"
              /\ about'[n] = call[t].key
              /\ \A i \in Live' \ {n} : i \in Live /\ about'[i] = about[i]
<1>1. CASE \E t \in Threads : InsertItem(t)
  <2>1. PICK t \in Threads : InsertItem(t)
    BY <1>1
  <2>2. PICK n \in Ids : /\ item' = [item EXCEPT ![n] = "live"]
                         /\ about' = [about EXCEPT ![n] = call[t].key]
    BY <2>1 DEF InsertItem
  <2>3. pc[t] = "insert" /\ pc'[t] = "fts"
    BY <2>1 DEF InsertItem, Goto, TypeOK, Actors
  <2>4. about'[n] = call[t].key
    BY <2>2 DEF TypeOK
  <2>5. \A i \in Live' \ {n} : i \in Live /\ about'[i] = about[i]
    BY <2>2 DEF TypeOK, Live
  <2>6. QED
    BY <2>3, <2>4, <2>5
<1>2. CASE ~\E t \in Threads : InsertItem(t)
  <2>1. about' = about
    <3>1. ASSUME NEW a \in Actors, Embed(a) PROVE about' = about
      BY <3>1 DEF Embed, tables, ReadRow, ClearMemory, InsertChunk, SetReady,
         EmbeddingRaises
    <3>2. ASSUME NEW t \in Threads, Step(t) PROVE about' = about
      BY <1>2, <3>1, <3>2 DEF Step, Actors, tables, LookUp, TombstoneItem,
         Tombstone, SyncFts, Put, ReindexNext, MarkPending, FlushQueue,
         SearchCosine, ReadCandidate, Rerank,
     Answer
    <3>3. ASSUME NEW t \in Threads, Receive(t) PROVE about' = about
      BY <3>3 DEF Receive, tables, Start, Remember, AddFact, SetPreference,
         ForgetPhrase, Tombstone, FtsSearch, PromoteArchivedSession,
         DeletePreference, DeleteFact, ReindexUserMemories,
         PurgeTombstonedRows
    <3>4. CASE WorkerStep \/ Crash \/ UNCHANGED vars
      BY <3>1, <3>4 DEF WorkerStep, Crash, vars, Actors, tables,
         TakeFromQueue, SetFailed
    <3>5. QED
      BY <3>2, <3>3, <3>4 DEF Next
  <2>2. Live' \subseteq Live
    <3>1. CASE item' = item
      BY <3>1 DEF Live
    <3>2. ASSUME NEW S \in SUBSET (Live \cup Dead), Tombstone(S)
          PROVE  Live' \subseteq Live
      BY <3>2 DEF Tombstone, Live
    <3>3. ASSUME NEW t \in Threads, PurgeTombstonedRows(t)
          PROVE  Live' \subseteq Live
      BY <3>3 DEF PurgeTombstonedRows, Live
    <3>4. QED
      BY <1>2, <3>1, <3>2, <3>3, ItemStep
  <2>3. QED
    BY <2>1, <2>2
<1>3. QED
  BY <1>1, <1>2

\* Live rows about a key.
About(k) == {i \in Live : about[i] = k}

\* Preferences.
LEMMA SetStep ==
  ASSUME TypeOK, MidInv, OpInv, KeyInv, SetInv, [Next]_vars
  PROVE  SetInv'
<1>1. \A a \in Actors : Moved(a)
  BY MoveStep
<1>2. /\ Idle.op = "none"
      /\ LET r == [Idle EXCEPT !.op = "ingest"] IN r.op = "ingest"
  BY DEF Idle
<1>3. contended \subseteq contended'
  <2>1. ASSUME NEW t \in Threads, Receive(t)
        PROVE  contended \subseteq contended'
    <3>1. ASSUME NEW key \in Keys, SetPreference(t, key)
          PROVE  contended \subseteq contended'
      BY <3>1 DEF SetPreference
    <3>2. QED
      BY <2>1, <3>1 DEF Receive, ghosts, Remember, AddFact, ForgetPhrase,
         FtsSearch,
         PromoteArchivedSession, DeletePreference, DeleteFact,
         ReindexUserMemories, PurgeTombstonedRows
  <2>2. ASSUME NEW a \in Actors, Embed(a) PROVE contended' = contended
    BY <2>2 DEF Embed, ghosts, ReadRow, ClearMemory, InsertChunk, SetReady,
       EmbeddingRaises
  <2>3. ASSUME NEW t \in Threads, Step(t) PROVE contended' = contended
    BY <2>2, <2>3 DEF Step, Actors, ghosts, LookUp, TombstoneItem, InsertItem,
       SyncFts, Put, ReindexNext, MarkPending, FlushQueue, SearchCosine,
       ReadCandidate, Rerank, Answer
  <2>4. CASE WorkerStep \/ Crash \/ UNCHANGED vars
    BY <2>2, <2>4 DEF WorkerStep, Crash, vars, Actors, ghosts, TakeFromQueue,
       SetFailed
  <2>5. QED
    BY <2>1, <2>3, <2>4 DEF Next
<1> SUFFICES ASSUME NEW k \in Keys \ contended'
             PROVE  /\ \A t, u \in Threads : Sets(t, k)' /\ Sets(u, k)' => t = u
                    /\ Like[k] = {k} =>
                         /\ \A i, j \in About(k)' : i = j
                         /\ \A t \in Threads : Sets(t, k)' =>
                              /\ pc'[t] = "tombstone" =>
                                   \A i \in About(k)' : i = call'[t].mid
                              /\ pc'[t] = "insert" => About(k)' = {}
  BY DEF SetInv, About
<1>4. /\ \A t, u \in Threads : Sets(t, k) /\ Sets(u, k) => t = u
      /\ Like[k] = {k} =>
           /\ \A i, j \in About(k) : i = j
           /\ \A t \in Threads : Sets(t, k) =>
                /\ pc[t] = "tombstone" => \A i \in About(k) : i = call[t].mid
                /\ pc[t] = "insert" => About(k) = {}
  BY <1>3 DEF SetInv, About
<1>5. ASSUME NEW t \in Threads, Sets(t, k)'
      PROVE  Sets(t, k) \/ SetPreference(t, k)
  <2>1. Moved(t) /\ t # Worker
    BY <1>1, MemoryAssumption DEF Actors
  <2>2. call'[t].op = "set" /\ call'[t].key = k
    BY <1>5 DEF Sets
  <2>3. \/ call[t].op = call'[t].op /\ call[t].key = call'[t].key
        \/ \E key \in Keys : call'[t].key = key /\ SetPreference(t, key)
    BY <1>2, <2>1, <2>2 DEF Moved, Moves, KeptMid, Kept
  <2>4. QED
    BY <2>2, <2>3 DEF Sets
<1>6. ASSUME NEW t \in Threads, SetPreference(t, k), NEW u \in Threads
      PROVE  ~Sets(u, k) /\ (u # t => ~SetPreference(u, k))
  <2>1. ~Sets(u, k)
    BY <1>6 DEF SetPreference, Sets
  <2>2. u # t => pc'[u] = pc[u] /\ pc'[t] = "lookup" /\ pc[t] = "free"
    BY <1>6 DEF SetPreference, Start, Goto, TypeOK, Actors
  <2>3. SetPreference(u, k) => pc'[u] = "lookup" /\ pc[u] = "free"
    BY DEF SetPreference, Start, Goto, TypeOK, Actors
  <2>4. QED
    BY <2>1, <2>2, <2>3
<1>7. \A t, u \in Threads : Sets(t, k)' /\ Sets(u, k)' => t = u
  BY <1>4, <1>5, <1>6
<1>8. CASE Like[k] = {k}
  <2>0. k # "fact" /\ k # "note"
    BY MemoryAssumption
  <2>1. /\ \A i, j \in About(k) : i = j
        /\ \A t \in Threads : Sets(t, k) =>
             /\ pc[t] = "tombstone" => \A i \in About(k) : i = call[t].mid
             /\ pc[t] = "insert" => About(k) = {}
    BY <1>4, <1>8
  <2>2. \/ About(k)' \subseteq About(k)
        \/ /\ About(k) = {} /\ \A i, j \in About(k)' : i = j
           /\ \E u \in Threads :
                Sets(u, k) /\ pc[u] = "insert" /\ pc'[u] = "fts"
    <3>1. CASE \A i \in Live' : i \in Live /\ about'[i] = about[i]
      BY <3>1 DEF About
    <3>2. ASSUME NEW u \in Threads, NEW n \in Ids, n \in About(k)',
                 pc[u] = "insert" /\ pc'[u] = "fts",
                 about'[n] = call[u].key,
                 \A i \in Live' \ {n} : i \in Live /\ about'[i] = about[i]
          PROVE  /\ About(k) = {} /\ \A i, j \in About(k)' : i = j
                 /\ Sets(u, k)
      <4>1. call[u].key = k
        BY <3>2 DEF About
      <4>2. call[u].op \in {"set", "delete"} /\ call[u].op # "delete"
        BY <3>2, <4>1 DEF KeyInv, Actors
      <4>3. Sets(u, k)
        BY <4>1, <4>2 DEF Sets
      <4>4. About(k) = {}
        BY <2>1, <3>2, <4>3
      <4>5. About(k)' \subseteq {n}
        BY <3>2, <4>4 DEF About
      <4>6. QED
        BY <4>3, <4>4, <4>5
    <3>3. ASSUME NEW u \in Threads, NEW n \in Ids, n \notin About(k)',
                 \A i \in Live' \ {n} : i \in Live /\ about'[i] = about[i]
          PROVE  About(k)' \subseteq About(k)
      BY <3>3 DEF About
    <3>4. QED
      BY <3>1, <3>2, <3>3, NewRow
  <2>3. \A i, j \in About(k)' : i = j
    BY <2>1, <2>2
  <2>4. ASSUME NEW t \in Threads, Sets(t, k)', pc'[t] \in {"tombstone", "insert"}
        PROVE  About(k)' \subseteq About(k) /\ Sets(t, k)
    <3>1. pc'[t] \notin {"lookup", "fts"}
      BY <2>4
    <3>2. ~SetPreference(t, k)
      BY <3>1 DEF SetPreference, Start, Goto, TypeOK, Actors
    <3>3. Sets(t, k)
      BY <1>5, <2>4, <3>2
    <3>4. ASSUME NEW u \in Threads, Sets(u, k), pc'[u] = "fts" PROVE FALSE
      BY <1>4, <3>1, <3>3, <3>4
    <3>5. QED
      BY <2>2, <3>3, <3>4
  <2>5. ASSUME NEW t \in Threads, Sets(t, k)
        PROVE  Matches(t) = OrNone(Newest(About(k)))
    BY <1>8, <2>0, <2>5 DEF Matches, Sets, About
  <2>6. ASSUME NEW i \in About(k) PROVE Newest(About(k)) = {i}
    <3>1. i \in Ids /\ i <= i
      BY DEF About, Live, Ids
    <3>2. QED
      BY <2>1, <3>1 DEF Newest
  <2>7. ASSUME NEW t \in Threads, Sets(t, k)', pc'[t] = "tombstone",
               NEW i \in About(k)'
        PROVE  i = call'[t].mid
    <3>1. i \in About(k) /\ Sets(t, k)
      BY <2>4, <2>7
    <3>2. Moved(t) /\ t \in Actors
      BY <1>1 DEF Actors
    <3>3. \/ pc[t] = "tombstone" /\ call'[t].mid = call[t].mid
          \/ call'[t].mid \in Matches(t) \ {0}
      BY <1>2, <2>7, <3>2 DEF Moved, Moves, KeptMid
    <3>4. CASE pc[t] = "tombstone" /\ call'[t].mid = call[t].mid
      BY <2>1, <3>1, <3>4
    <3>5. CASE call'[t].mid \in Matches(t) \ {0}
      BY <2>5, <2>6, <3>1, <3>5 DEF OrNone
    <3>6. QED
      BY <3>3, <3>4, <3>5
  <2>8. ASSUME NEW t \in Threads, Sets(t, k)', pc'[t] = "insert",
               NEW i \in About(k)'
        PROVE  FALSE
    <3>1. i \in About(k) /\ Sets(t, k) /\ i \in Live' /\ i \in Ids
      BY <2>4, <2>8 DEF About, Live
    <3>2. Moved(t) /\ t \in Actors
      BY <1>1 DEF Actors
    <3>3. \/ pc[t] = "insert"
          \/ 0 \in Matches(t)
          \/ pc[t] = "tombstone" /\ call[t].mid \notin Live'
      <4>1. call'[t].op = "set" /\ call'[t] # [Idle EXCEPT !.op = "ingest"]
        BY <1>2, <2>8 DEF Sets
      <4>2. QED
        BY SMTT(60), <2>8, <3>2, <4>1 DEF Moved, Moves
    <3>4. CASE pc[t] = "insert"
      BY <2>1, <3>1, <3>4
    <3>5. CASE 0 \in Matches(t)
      <4>1. Matches(t) = {i}
        BY <2>5, <2>6, <3>1 DEF OrNone
      <4>2. i # 0
        BY <3>1, MemoryAssumption DEF Ids
      <4>3. QED
        BY <3>5, <4>1, <4>2
    <3>6. CASE pc[t] = "tombstone" /\ call[t].mid \notin Live'
      BY <2>1, <3>1, <3>6
    <3>7. QED
      BY <3>3, <3>4, <3>5, <3>6
  <2>9. QED
    BY <1>7, <2>3, <2>7, <2>8
<1>9. QED
  BY <1>7, <1>8

\* A step of one thread, or of none, that takes no row up.
LEMMA FrameStep ==
  ASSUME NEW id \in Live \ again, Once(id), Chunked(id), NEW t \in Actors,
         \A a \in Actors \ {t} : pc'[a] = pc[a] /\ call'[a] = call[a],
         Holds(t, id)' => Holds(t, id) /\ pc'[t] \notin {"chunk", "ready"},
         queue' = queue, embedding'[id] = embedding[id],
         chunks'[id] = chunks[id]
  PROVE  Once(id)' /\ Chunked(id)'
<1>1. \A a \in Actors : Holds(a, id)' => Holds(a, id)
  BY DEF Holds
<1>2. Once(id)'
  BY <1>1 DEF Once
<1>3. Chunked(id)'
  BY <1>1 DEF Chunked, Holds
<1>4. QED
  BY <1>2, <1>3

\* What is left of a thread's row when the thread is done with it.
LEMMA LeaveStep ==
  ASSUME TypeOK, NEW t \in Actors, Done(t) \/ Return(t)
  PROVE  /\ \A a \in Actors \ {t} : pc'[a] = pc[a] /\ call'[a] = call[a]
         /\ \A id : ~Holds(t, id)'
BY DEF TypeOK, Done, Return, Goto, Holds, Indexing

\* Receiving a request embeds nothing.
LEMMA ReceiveEmbeds ==
  ASSUME TypeOK, NEW t \in Threads, Receive(t), NEW id \in Live \ again,
         id \in Live', Once(id), Chunked(id)
  PROVE  Once(id)' /\ Chunked(id)'
<1> USE DEF tables, ghosts
<1>a. t \in Actors /\ pc \in [Actors -> Labels] /\ call \in [Actors -> Locals]
  BY DEF TypeOK, Actors
<1>b. id \in Ids /\ item[id] = "live"
  BY DEF Live
<1>1. ASSUME pc' = pc, call' = call, queue' = queue, embedding' = embedding,
             chunks'[id] = chunks[id]
      PROVE  Once(id)' /\ Chunked(id)'
  BY <1>1 DEF Once, Chunked, Holds
<1>2. ASSUME NEW l \in {"insert", "lookup", "reindex", "vectors"}, NEW r,
             Goto(t, l), call' = [call EXCEPT ![t] = r],
             queue' = queue, embedding' = embedding, chunks' = chunks
      PROVE  Once(id)' /\ Chunked(id)'
  <2>1. /\ \A a \in Actors \ {t} : pc'[a] = pc[a] /\ call'[a] = call[a]
        /\ ~Holds(t, id)'
    BY <1>a, <1>2 DEF Goto, Holds, Indexing
  <2>2. QED
    BY <1>a, <1>2, <2>1, FrameStep
<1>3. ASSUME NEW o, NEW l \in {"insert", "lookup"}, NEW k, Start(t, o, l, k)
      PROVE  Once(id)' /\ Chunked(id)'
  BY <1>2, <1>3 DEF Start
<1>4. CASE ForgetPhrase(t)
  <2>1. PICK S \in SUBSET Live : Tombstone(S)
    BY <1>4 DEF ForgetPhrase
  <2>2. id \notin S
    BY <1>b, <2>1 DEF Tombstone, Live, Rows
  <2>3. QED
    BY <1>b, <1>1, <1>4, <2>1, <2>2 DEF ForgetPhrase, Tombstone
<1>5. CASE PurgeTombstonedRows(t)
  BY <1>1, <1>5 DEF PurgeTombstonedRows
<1>6. CASE ReindexUserMemories(t)
  BY <1>2, <1>6 DEF ReindexUserMemories
<1>7. CASE FtsSearch(t)
  BY <1>2, <1>7 DEF FtsSearch
<1>8. CASE Remember(t) \/ AddFact(t) \/ PromoteArchivedSession(t) \/ DeleteFact(t)
  BY <1>3, <1>8 DEF Remember, AddFact, PromoteArchivedSession, DeleteFact
<1>9. ASSUME NEW k \in Keys, SetPreference(t, k) \/ DeletePreference(t, k)
      PROVE  Once(id)' /\ Chunked(id)'
  BY <1>3, <1>9 DEF SetPreference, DeletePreference
<1>10. QED
  BY <1>4, <1>5, <1>6, <1>7, <1>8, <1>9 DEF Receive

\* Nor do the steps before and after the embedding.
LEMMA StepEmbeds ==
  ASSUME TypeOK, MidInv, NEW t \in Threads, NEW id \in Live \ again,
         id \in Live', Once(id), Chunked(id),
         \/ LookUp(t) \/ TombstoneItem(t) \/ InsertItem(t) \/ SyncFts(t)
         \/ ReindexNext(t) \/ SearchCosine(t) \/ Rerank(t) \/ Answer(t)
         \/ \E i \in Ids : ReadCandidate(t, i)
  PROVE  Once(id)' /\ Chunked(id)'
<1> USE DEF tables, ghosts
<1>a. t \in Actors /\ pc \in [Actors -> Labels] /\ call \in [Actors -> Locals]
  BY DEF TypeOK, Actors
<1>b. id \in Ids /\ item[id] = "live"
  BY DEF Live
<1>c. \A a \in Actors : call[a] \in Locals
  BY <1>a
<1>1. ASSUME NEW l \in Labels \ Indexing, Goto(t, l),
             \A a \in Actors \ {t} : call'[a] = call[a], queue' = queue,
             embedding'[id] = embedding[id], chunks'[id] = chunks[id]
      PROVE  Once(id)' /\ Chunked(id)'
  <2>1. /\ \A a \in Actors \ {t} : pc'[a] = pc[a] /\ call'[a] = call[a]
        /\ ~Holds(t, id)'
    BY <1>a, <1>1 DEF Goto, Holds
  <2>2. QED
    BY <1>a, <1>1, <2>1, FrameStep
<1>2. ASSUME Done(t), queue' = queue, embedding'[id] = embedding[id],
             chunks'[id] = chunks[id]
      PROVE  Once(id)' /\ Chunked(id)'
  BY <1>a, <1>2, LeaveStep, FrameStep
<1>3. ASSUME pc' = pc, pc[t] \notin Indexing, queue' = queue,
             \A a \in Actors \ {t} : call'[a] = call[a],
             embedding' = embedding, chunks' = chunks
      PROVE  Once(id)' /\ Chunked(id)'
  <2>1. ~Holds(t, id)'
    BY <1>3 DEF Holds
  <2>2. QED
    BY <1>a, <1>3, <2>1, FrameStep
<1> USE DEF Labels, Indexing
<1>4. CASE LookUp(t)
  <2>1. \/ Goto(t, "tombstone") /\ \E i : call' = [call EXCEPT ![t].mid = i]
        \/ Goto(t, "insert") /\ UNCHANGED call
        \/ Done(t)
    BY <1>4 DEF LookUp
  <2>2. /\ queue' = queue /\ embedding' = embedding /\ chunks' = chunks
    BY <1>4 DEF LookUp
  <2>3. CASE Goto(t, "tombstone") /\ \E i : call' = [call EXCEPT ![t].mid = i]
    BY <1>1, <1>a, <2>2, <2>3
  <2>4. CASE Goto(t, "insert") /\ UNCHANGED call
    BY <1>1, <2>2, <2>4
  <2>5. QED
    BY <1>2, <2>1, <2>2, <2>3, <2>4
<1>5. CASE TombstoneItem(t)
  <2>1. call[t].mid # id
    BY <1>b, <1>5 DEF TombstoneItem, Tombstone, Live, Rows
  <2>2. queue' = queue /\ embedding' = embedding /\ chunks'[id] = chunks[id]
    BY <1>b, <1>5, <2>1 DEF TombstoneItem, Tombstone
  <2>3. CASE Done(t)
    BY <1>2, <2>2, <2>3
  <2>4. CASE Goto(t, "insert") /\ call' = [call EXCEPT ![t].mid = 0]
    BY <1>1, <1>a, <2>2, <2>4
  <2>5. QED
    BY <1>5, <2>3, <2>4 DEF TombstoneItem
<1>6. CASE InsertItem(t)
  <2>1. PICK n \in Ids : /\ \A i \in Ids : item[i] # "none" <=> i < n
                         /\ embedding' = [embedding EXCEPT ![n] = "pending"]
                         /\ call' = [call EXCEPT ![t].mid = n]
    BY <1>6 DEF InsertItem
  <2>2. item[n] = "none" /\ n # id
    BY <1>b, <2>1, MemoryAssumption DEF Ids
  <2>3. Goto(t, "fts") /\ queue' = queue /\ chunks' = chunks
    BY <1>6 DEF InsertItem
  <2>4. call'[t].mid = n /\ \A a \in Actors \ {t} : call'[a] = call[a]
    BY <1>a, <1>c, <2>1 DEF Locals
  <2>5. embedding'[id] = embedding[id] /\ ~Holds(t, id)'
    BY <2>1, <2>2, <2>4 DEF TypeOK, Holds
  <2>6. \A a \in Actors \ {t} : pc'[a] = pc[a]
    BY <1>a, <2>3 DEF Goto
  <2>7. QED
    BY <1>a, <2>3, <2>4, <2>5, <2>6, FrameStep
<1>7. CASE SyncFts(t)
  <2>1. PICK l \in {"put", "read"} : Goto(t, l)
    BY <1>7 DEF SyncFts
  <2>2. /\ pc[t] = "fts" /\ call' = call /\ queue' = queue
        /\ embedding' = embedding /\ chunks' = chunks
    BY <1>7 DEF SyncFts
  <2>3. /\ \A a \in Actors \ {t} : pc'[a] = pc[a]
        /\ Holds(t, id)' => Holds(t, id) /\ pc'[t] \notin {"chunk", "ready"}
    BY <1>a, <2>1, <2>2 DEF Goto, Holds
  <2>4. QED
    BY <1>a, <2>2, <2>3, FrameStep
<1>8. CASE ReindexNext(t)
  <2>1. /\ pc[t] = "reindex" /\ queue' = queue /\ embedding' = embedding
        /\ chunks' = chunks
    BY <1>8 DEF ReindexNext
  <2>2. /\ \A a \in Actors \ {t} : call'[a] = call[a]
        /\ Goto(t, "mark") \/ pc' = pc
    BY <1>a, <1>8 DEF ReindexNext
  <2>3. QED
    BY <1>1, <1>3, <2>1, <2>2
<1>9. CASE SearchCosine(t)
  <2>1. queue' = queue /\ embedding' = embedding /\ chunks' = chunks
    BY <1>9 DEF SearchCosine
  <2>2. CASE Done(t)
    BY <1>2, <2>1, <2>2
  <2>3. CASE ~Done(t)
    BY <1>1, <1>a, <1>9, <2>1, <2>3 DEF SearchCosine
  <2>4. QED
    BY <2>2, <2>3
<1>10. CASE Answer(t)
  BY <1>2, <1>10 DEF Answer
<1>11. ASSUME NEW i \in Ids, ReadCandidate(t, i)
       PROVE  Once(id)' /\ Chunked(id)'
  BY <1>3, <1>a, <1>11 DEF ReadCandidate
<1>12. CASE Rerank(t)
  BY <1>1, <1>a, <1>12 DEF Rerank
<1>13. QED
  BY <1>4, <1>5, <1>6, <1>7, <1>8, <1>9, <1>10, <1>11, <1>12

\* A row goes from a thread to the queue and from the queue to a thread.
LEMMA QueueEmbeds ==
  ASSUME TypeOK, NEW t \in Actors, NEW id \in Live \ again,
         id \notin again', Once(id), Chunked(id),
         Put(t) \/ MarkPending(t) \/ FlushQueue(t) \/ (t = Worker /\ TakeFromQueue)
  PROVE  Once(id)' /\ Chunked(id)'
<1> USE DEF tables, ghosts
<1>a. /\ pc \in [Actors -> Labels] /\ call \in [Actors -> Locals]
      /\ queue \in Seq(Ids)
  BY DEF TypeOK
<1>b. id \in Ids /\ item[id] = "live"
  BY DEF Live
<1>c. \A a \in Actors : call[a] \in Locals
  BY <1>a
<1>1. CASE Put(t)
  <2>1. /\ \A a \in Actors \ {t} : pc'[a] = pc[a] /\ call'[a] = call[a]
        /\ ~Holds(t, id)'
    BY <1>1, LeaveStep DEF Put
  <2>2. /\ queue' = Append(queue, call[t].mid) /\ embedding' = embedding
        /\ chunks' = chunks
    BY <1>1 DEF Put
  <2>3. Holds(t, call[t].mid)
    BY <1>1 DEF Put, Holds, Indexing
  <2>4. \A a \in Actors : Holds(a, id)' => Holds(a, id) /\ a # t
    BY <2>1 DEF Holds
  <2>5. /\ DOMAIN queue' = 1..(Len(queue) + 1) /\ DOMAIN queue = 1..Len(queue)
        /\ Len(queue) \in Nat
        /\ queue'[Len(queue) + 1] = call[t].mid
        /\ \A i \in 1..Len(queue) : queue'[i] = queue[i]
    BY <1>a, <2>2
  <2>6. \A i \in DOMAIN queue' :
          i \in DOMAIN queue \/ (i = Len(queue) + 1 /\ Holds(t, queue'[i]))
    BY <2>3, <2>5
  <2>7. Once(id)'
    <3>1. \A i, j \in DOMAIN queue' :
            queue'[i] = id /\ queue'[j] = id => i = j
      BY <2>5, <2>6 DEF Once
    <3>2. \A a \in Actors, i \in DOMAIN queue' : ~(Holds(a, id)' /\ queue'[i] = id)
      BY <2>4, <2>5, <2>6 DEF Once
    <3>3. (\E a \in Actors : Holds(a, id)') \/ (\E i \in DOMAIN queue' : queue'[i] = id)
             => embedding[id] = "pending"
      BY <2>4, <2>5, <2>6 DEF Once
    <3>4. QED
      BY <2>2, <2>4, <3>1, <3>2, <3>3 DEF Once
  <2>8. Chunked(id)'
    BY <2>1, <2>2, <2>4 DEF Chunked, Holds
  <2>9. QED
    BY <2>7, <2>8
<1>2. CASE MarkPending(t)
  <2>1. PICK l \in {"put", "read"} : Goto(t, l)
    BY <1>2 DEF MarkPending
  <2>2. pc[t] = "mark" /\ call' = call /\ queue' = queue /\ chunks' = chunks
    BY <1>2 DEF MarkPending
  <2>3. /\ \A a \in Actors \ {t} : pc'[a] = pc[a]
        /\ pc'[t] = l
    BY <1>a, <2>1 DEF Goto
  <2>4. CASE call[t].mid = id
    <3>1. ~Outstanding(t, id)
      BY <1>2, <2>4 DEF MarkPending
    <3>2. /\ \A i \in DOMAIN queue : queue[i] # id
          /\ \A a \in Actors \ {t} : ~Holds(a, id)
      BY <3>1 DEF Outstanding, Holds, Indexing
    <3>3. embedding'[id] = "pending"
      BY <1>2, <1>b, <2>4 DEF MarkPending, SetStatus, Rows, TypeOK
    <3>4. \A a \in Actors : Holds(a, id)' => a = t
      BY <2>2, <2>3, <3>2 DEF Holds
    <3>5. Once(id)'
      BY <2>2, <3>2, <3>3, <3>4 DEF Once
    <3>6. Chunked(id)'
      BY <2>1, <2>3, <3>3, <3>4 DEF Chunked
    <3>7. QED
      BY <3>5, <3>6
  <2>5. CASE call[t].mid # id
    <3>1. embedding'[id] = embedding[id]
      BY <1>2, <1>b, <2>5 DEF MarkPending, SetStatus, TypeOK
    <3>2. ~Holds(t, id)'
      BY <2>2, <2>5 DEF Holds
    <3>3. QED
      BY <2>2, <2>3, <3>1, <3>2, FrameStep
  <2>6. QED
    BY <2>4, <2>5
<1>3. ASSUME queue # <<>>, queue' = Tail(queue), call'[t].mid = Head(queue),
             pc[t] \notin Indexing, Goto(t, "read"),
             \A a \in Actors \ {t} : call'[a] = call[a],
             embedding' = embedding, chunks' = chunks
      PROVE  Once(id)' /\ Chunked(id)'
  <2>1. /\ Len(queue) \in Nat \ {0} /\ DOMAIN queue = 1..Len(queue)
        /\ DOMAIN queue' = 1..(Len(queue) - 1)
        /\ \A i \in 1..(Len(queue) - 1) : queue'[i] = queue[i + 1]
        /\ Head(queue) = queue[1]
    BY <1>a, <1>3
  <2>2. \A a \in Actors \ {t} : pc'[a] = pc[a] /\ call'[a] = call[a]
    BY <1>a, <1>3 DEF Goto
  <2>3. pc'[t] = "read"
    BY <1>a, <1>3 DEF Goto
  <2>4. \A a \in Actors : Holds(a, id)' =>
          \/ a # t /\ Holds(a, id)
          \/ a = t /\ queue[1] = id
    BY <1>3, <2>1, <2>2 DEF Holds
  <2>5. \A i \in DOMAIN queue' : /\ i + 1 \in DOMAIN queue /\ i + 1 # 1
                                 /\ queue'[i] = queue[i + 1]
    BY <2>1
  <2>6. 1 \in DOMAIN queue
    BY <2>1
  <2>7. Once(id)'
    <3>1. \A a, b \in Actors : Holds(a, id)' /\ Holds(b, id)' => a = b
      BY <2>4, <2>6 DEF Once
    <3>2. \A i, j \in DOMAIN queue' : queue'[i] = id /\ queue'[j] = id => i = j
      <4>1. ASSUME NEW i \in DOMAIN queue', NEW j \in DOMAIN queue',
                   queue'[i] = id, queue'[j] = id
            PROVE  i = j
        <5>1. i + 1 = j + 1
          BY <2>5, <4>1 DEF Once
        <5>2. i \in Nat /\ j \in Nat
          BY <2>1, <4>1
        <5>3. QED
          BY <5>1, <5>2
      <4>2. QED
        BY <4>1
    <3>3. \A a \in Actors, i \in DOMAIN queue' : ~(Holds(a, id)' /\ queue'[i] = id)
      BY <2>4, <2>5, <2>6 DEF Once
    <3>4. (\E a \in Actors : Holds(a, id)') \/ (\E i \in DOMAIN queue' : queue'[i] = id)
             => embedding[id] = "pending"
      BY <2>4, <2>5, <2>6 DEF Once
    <3>5. QED
      BY <1>3, <3>1, <3>2, <3>3, <3>4 DEF Once
  <2>8. Chunked(id)'
    BY <1>3, <2>2, <2>3, <2>4 DEF Chunked, Holds
  <2>9. QED
    BY <2>7, <2>8
<1>4. CASE FlushQueue(t)
  <2>1. embedding' = embedding /\ chunks' = chunks /\ pc[t] = "reindex"
    BY <1>4 DEF FlushQueue
  <2>2. CASE queue # <<>> /\ call' = [call EXCEPT ![t].mid = Head(queue)]
             /\ queue' = Tail(queue) /\ Goto(t, "read")
    <3>1. /\ call'[t].mid = Head(queue)
          /\ \A a \in Actors \ {t} : call'[a] = call[a]
      BY <1>a, <1>c, <2>2 DEF Locals
    <3>2. pc[t] \notin Indexing
      BY <2>1 DEF Indexing
    <3>3. QED
      BY <1>3, <2>1, <2>2, <3>1, <3>2
  <2>3. CASE Done(t) /\ queue' = queue
    BY <2>1, <2>3, LeaveStep, FrameStep
  <2>4. QED
    BY <1>4, <2>2, <2>3 DEF FlushQueue
<1>5. CASE t = Worker /\ TakeFromQueue
  <2>1. /\ embedding' = embedding /\ chunks' = chunks /\ pc[t] = "free"
        /\ queue # <<>> /\ queue' = Tail(queue) /\ Goto(t, "read")
        /\ call' = [call EXCEPT ![t] = [call[t] EXCEPT !.op = "worker", !.mid = Head(queue)]]
    BY <1>5 DEF TakeFromQueue
  <2>2. /\ call'[t].mid = Head(queue)
        /\ \A a \in Actors \ {t} : call'[a] = call[a]
    BY <1>a, <1>c, <2>1 DEF Locals
  <2>3. pc[t] \notin Indexing
    BY <2>1 DEF Indexing
  <2>4. QED
    BY <1>3, <2>1, <2>2, <2>3
<1>6. QED
  BY <1>1, <1>2, <1>4, <1>5

\* The embedding itself.
LEMMA EmbedEmbeds ==
  ASSUME TypeOK, PartInv, NEW t \in Actors, NEW id \in Live \ again,
         Once(id), Chunked(id), Embed(t) \/ (t = Worker /\ SetFailed)
  PROVE  Once(id)' /\ Chunked(id)'
<1> USE DEF tables, ghosts
<1>a. pc \in [Actors -> Labels] /\ call \in [Actors -> Locals]
  BY DEF TypeOK
<1>b. id \in Ids /\ item[id] = "live"
  BY DEF Live
<1>c. call[t] \in Locals /\ call[t].part \in 1..Parts
  BY <1>a DEF Locals
<1>d. embedding \in [Ids -> {"none", "pending", "ready", "failed"}]
      /\ chunks \in [Ids -> SUBSET (1..Parts)]
  BY DEF TypeOK
\* Another row's embedding.
<1>1. ASSUME call[t].mid # id, \A a \in Actors \ {t} : pc'[a] = pc[a] /\ call'[a] = call[a],
             ~Holds(t, id)', queue' = queue,
             embedding'[id] = embedding[id], chunks'[id] = chunks[id]
      PROVE  Once(id)' /\ Chunked(id)'
  BY <1>1, FrameStep
\* The thread that holds the row is the only one.
<1>2. ASSUME Holds(t, id)
      PROVE  /\ \A a \in Actors \ {t} : ~Holds(a, id)
             /\ \A i \in DOMAIN queue : queue[i] # id
             /\ embedding[id] = "pending"
  BY <1>2 DEF Once
<1>3. ASSUME Done(t) \/ Return(t), queue' = queue, embedding' = embedding,
             chunks' = chunks
      PROVE  Once(id)' /\ Chunked(id)'
  BY <1>3, LeaveStep, FrameStep
\* An embedding that ends, with status st.
<1>4. ASSUME NEW st \in {"ready", "failed"}, Done(t) \/ Return(t), queue' = queue,
             pc[t] \in Indexing, SetStatus(call[t].mid, st), chunks' = chunks,
             st = "ready" => pc[t] = "ready"
      PROVE  Once(id)' /\ Chunked(id)'
  <2>1. /\ \A a \in Actors \ {t} : pc'[a] = pc[a] /\ call'[a] = call[a]
        /\ ~Holds(t, id)'
    BY <1>4, LeaveStep
  <2>2. CASE call[t].mid = id
    <3>1. Holds(t, id)
      BY <1>4, <2>2 DEF Holds
    <3>2. /\ \A a \in Actors : ~Holds(a, id)'
          /\ \A i \in DOMAIN queue' : queue'[i] # id
      BY <1>2, <1>4, <2>1, <3>1 DEF Holds
    <3>3. embedding'[id] = st
      BY <1>b, <1>d, <1>4, <2>2 DEF SetStatus, Rows
    <3>4. st = "ready" => chunks'[id] = 1..Parts
      BY <1>4, <3>1 DEF Chunked
    <3>5. QED
      BY <3>2, <3>3, <3>4 DEF Once, Chunked
  <2>3. CASE call[t].mid # id
    <3>1. embedding'[id] = embedding[id]
      BY <1>b, <1>d, <1>4, <2>3 DEF SetStatus
    <3>2. QED
      BY <1>1, <1>4, <2>1, <2>3, <3>1
  <2>4. QED
    BY <2>2, <2>3
\* A step within the embedding of the row.
<1>5. ASSUME Holds(t, id), \A a \in Actors \ {t} : pc'[a] = pc[a] /\ call'[a] = call[a],
             call'[t].mid = id, pc'[t] \in Indexing, queue' = queue, embedding' = embedding,
             pc'[t] = "chunk" => chunks'[id] = 1..(call'[t].part - 1),
             pc'[t] = "ready" => chunks'[id] = 1..Parts
      PROVE  Once(id)' /\ Chunked(id)'
  <2>1. \A a \in Actors : Holds(a, id)' => a = t
    BY <1>2, <1>5 DEF Holds
  <2>2. Once(id)'
    BY <1>2, <1>5, <2>1 DEF Once
  <2>3. Chunked(id)'
    BY <1>2, <1>5, <2>1 DEF Chunked
  <2>4. QED
    BY <2>2, <2>3
<1>6. CASE ReadRow(t)
  <2>1. CASE Goto(t, "clear") /\ call' = call
    <3>1. /\ \A a \in Actors \ {t} : pc'[a] = pc[a]
          /\ Holds(t, id)' => Holds(t, id)
          /\ pc'[t] = "clear"
      BY <1>a, <1>6, <2>1 DEF Goto, Holds, ReadRow, Indexing
    <3>2. QED
      BY <1>6, <2>1, <3>1, FrameStep DEF ReadRow
  <2>2. QED
    BY <1>3, <1>6, <2>1 DEF ReadRow
<1>7. CASE ClearMemory(t)
  <2>1. /\ pc[t] = "clear" /\ call' = call /\ queue' = queue
        /\ embedding' = embedding
        /\ chunks' = [chunks EXCEPT ![call[t].mid] = {}]
    BY <1>7 DEF ClearMemory
  <2>2. \A a \in Actors \ {t} : pc'[a] = pc[a]
    BY <1>7 DEF ClearMemory, Goto, TypeOK
  <2>3. pc'[t] = "chunk"
    BY <1>7 DEF ClearMemory, Goto, TypeOK
  <2>4. CASE call[t].mid = id
    <3>1. Holds(t, id) /\ call[t].part = 1
      BY <2>1, <2>4 DEF Holds, Indexing, PartInv
    <3>2. chunks'[id] = 1..(call'[t].part - 1)
      BY <1>b, <1>d, <2>1, <2>4, <3>1
    <3>3. QED
      BY <1>5, <2>1, <2>2, <2>3, <2>4, <3>1, <3>2 DEF Indexing
  <2>5. CASE call[t].mid # id
    <3>1. chunks'[id] = chunks[id] /\ ~Holds(t, id)'
      BY <1>b, <1>d, <2>1, <2>5 DEF Holds
    <3>2. QED
      BY <1>1, <2>1, <2>2, <2>5, <3>1
  <2>6. QED
    BY <2>4, <2>5
<1>8. CASE InsertChunk(t)
  <2>1. /\ pc[t] = "chunk" /\ queue' = queue /\ embedding' = embedding
        /\ chunks' = [chunks EXCEPT ![call[t].mid] = @ \cup {call[t].part}]
    BY <1>8 DEF InsertChunk
  <2>2. /\ \A a \in Actors \ {t} : pc'[a] = pc[a] /\ call'[a] = call[a]
        /\ \/ call[t].part = Parts /\ pc'[t] = "ready" /\ call'[t] = call[t]
           \/ /\ pc'[t] = "chunk" /\ call'[t].mid = call[t].mid
              /\ call'[t].part = call[t].part + 1
    BY <1>a, <1>c, <1>8 DEF InsertChunk, Goto, Locals
  <2>3. CASE call[t].mid = id
    <3>1. Holds(t, id)
      BY <2>1, <2>3 DEF Holds, Indexing
    <3>2. chunks[id] = 1..(call[t].part - 1)
      BY <2>1, <3>1 DEF Chunked
    <3>3. chunks'[id] = 1..call[t].part
      BY <1>b, <1>c, <1>d, <2>1, <2>3, <3>2
    <3>4. /\ pc'[t] = "chunk" => chunks'[id] = 1..(call'[t].part - 1)
          /\ pc'[t] = "ready" => chunks'[id] = 1..Parts
      BY <1>c, <2>2, <3>3
    <3>5. QED
      BY <1>5, <2>1, <2>2, <2>3, <3>1, <3>4 DEF Indexing
  <2>4. CASE call[t].mid # id
    <3>1. chunks'[id] = chunks[id] /\ ~Holds(t, id)'
      BY <1>b, <1>d, <2>1, <2>2, <2>4 DEF Holds
    <3>2. QED
      BY <1>1, <2>1, <2>2, <2>4, <3>1
  <2>5. QED
    BY <2>3, <2>4
<1>9. CASE SetReady(t)
  BY <1>4, <1>9 DEF SetReady, Indexing
<1>10. CASE EmbeddingRaises(t)
  <2>1. /\ pc[t] = "chunk" /\ queue' = queue /\ embedding' = embedding
        /\ chunks' = chunks
    BY <1>10 DEF EmbeddingRaises
  <2>2. CASE Goto(t, "failed") /\ call' = call
    <3>1. /\ \A a \in Actors \ {t} : pc'[a] = pc[a]
          /\ Holds(t, id)' => Holds(t, id)
          /\ pc'[t] = "failed"
      BY <1>a, <2>1, <2>2 DEF Goto, Holds, Indexing
    <3>2. QED
      BY <2>1, <2>2, <3>1, FrameStep
  <2>3. QED
    BY <1>3, <1>10, <2>1, <2>2 DEF EmbeddingRaises
<1>11. CASE t = Worker /\ SetFailed
  BY <1>4, <1>11 DEF SetFailed, Indexing
<1>12. QED
  BY <1>6, <1>7, <1>8, <1>9, <1>10, <1>11 DEF Embed

\* Embeddings.
LEMMA EmbedOnceStep ==
  ASSUME TypeOK, MidInv, PartInv, EmbedOnceInv, [Next]_vars
  PROVE  EmbedOnceInv'
<1>1. SUFFICES ASSUME NEW id \in (Live \ again)'
               PROVE  Once(id)' /\ Chunked(id)'
  BY DEF EmbedOnceInv
<1>2. again \subseteq again'
  <2>1. ASSUME NEW a \in Actors, Embed(a) PROVE again' = again
    BY <2>1 DEF Embed, ghosts, ReadRow, ClearMemory, InsertChunk, SetReady,
       EmbeddingRaises
  <2>2. ASSUME NEW t \in Threads, Step(t) PROVE again \subseteq again'
    <3>1. CASE MarkPending(t)
      BY <3>1 DEF MarkPending
    <3>2. QED
      BY <2>1, <2>2, <3>1 DEF Step, Actors, ghosts, LookUp, TombstoneItem,
         InsertItem, SyncFts, Put, ReindexNext, FlushQueue, SearchCosine,
         ReadCandidate, Rerank, Answer
  <2>3. ASSUME NEW t \in Threads, Receive(t) PROVE again' = again
    BY <2>3 DEF Receive, ghosts, Start, Remember, AddFact, SetPreference,
       ForgetPhrase, FtsSearch, PromoteArchivedSession, DeletePreference,
       DeleteFact, ReindexUserMemories, PurgeTombstonedRows
  <2>4. CASE WorkerStep \/ Crash \/ UNCHANGED vars
    BY <2>1, <2>4 DEF WorkerStep, Crash, vars, Actors, ghosts, TakeFromQueue,
       SetFailed
  <2>5. QED
    BY <2>2, <2>3, <2>4 DEF Next
<1>3. CASE id \in Live
  <2>0. id \in Live \ again /\ id \in Live' /\ id \notin again'
    BY <1>1, <1>2, <1>3
  <2>1. Once(id) /\ Chunked(id)
    BY <2>0 DEF EmbedOnceInv
  <2>2. ASSUME NEW t \in Threads, Receive(t) PROVE Once(id)' /\ Chunked(id)'
    BY <2>0, <2>1, <2>2, ReceiveEmbeds
  <2>3. ASSUME NEW t \in Threads, Step(t) PROVE Once(id)' /\ Chunked(id)'
    <3>1. CASE Embed(t)
      BY <2>0, <2>1, <3>1, EmbedEmbeds DEF Actors
    <3>2. CASE Put(t) \/ MarkPending(t) \/ FlushQueue(t)
      BY <2>0, <2>1, <3>2, QueueEmbeds DEF Actors
    <3>3. QED
      BY <2>0, <2>1, <2>3, <3>1, <3>2, StepEmbeds DEF Step
  <2>4. CASE WorkerStep
    <3>1. Worker \in Actors
      BY DEF Actors
    <3>2. QED
      BY <2>0, <2>1, <2>4, <3>1, QueueEmbeds, EmbedEmbeds DEF WorkerStep
  <2>5. CASE Crash
    <3>1. /\ \A a \in Actors : ~Holds(a, id)'
          /\ queue' = <<>> /\ embedding' = embedding /\ chunks' = chunks
      BY <2>5 DEF Crash, Holds, Indexing, tables
    <3>2. QED
      BY <2>1, <3>1 DEF Once, Chunked
  <2>6. CASE UNCHANGED vars
    BY <2>1, <2>6 DEF vars, tables, Once, Chunked, Holds
  <2>7. QED
    BY <2>2, <2>3, <2>4, <2>5, <2>6 DEF Next
<1>4. CASE id \notin Live
  <2>1. id \in Ids /\ id \in Live'
    BY <1>1 DEF Live
  <2>2. item[id] = "none"
    BY <1>4, <2>1, RowsStep
  <2>3. /\ \A i \in DOMAIN queue : queue[i] # id
        /\ \A a \in Actors : ~Holds(a, id)
    BY <2>2 DEF MidInv, Holds, Live, Dead
  <2>4. PICK t \in Threads : InsertItem(t)
    <3>1. ASSUME NEW S, Tombstone(S) PROVE FALSE
      BY <1>4, <2>1, <3>1 DEF Tombstone, Live
    <3>2. ASSUME NEW t \in Threads, PurgeTombstonedRows(t) PROVE FALSE
      BY <1>4, <2>1, <3>2 DEF PurgeTombstonedRows, Live
    <3>3. item' # item
      BY <1>4, <2>1 DEF Live
    <3>4. QED
      BY <3>1, <3>2, <3>3, ItemStep
  <2>5. PICK n \in Ids : /\ item' = [item EXCEPT ![n] = "live"]
                         /\ embedding' = [embedding EXCEPT ![n] = "pending"]
                         /\ call' = [call EXCEPT ![t].mid = n]
    BY <2>4 DEF InsertItem
  <2>6. n = id /\ embedding'[id] = "pending"
    BY <1>4, <2>1, <2>5 DEF Live, TypeOK
  <2>7. /\ pc'[t] = "fts" /\ queue' = queue
        /\ \A a \in Actors \ {t} : pc'[a] = pc[a] /\ call'[a] = call[a]
    BY <2>4, <2>5 DEF InsertItem, Goto, TypeOK, Actors
  <2>8. \A a \in Actors : Holds(a, id)' => a = t
    BY <2>3, <2>7 DEF Holds
  <2>9. Once(id)' /\ Chunked(id)'
    BY <2>3, <2>6, <2>7, <2>8 DEF Once, Chunked
  <2>10. QED
    BY <2>9
<1>5. QED
  BY <1>3, <1>4
-----------------------------------------------------------------------------
(* Preferences and embeddings                                               *)

RowInv == KeyInv /\ PartInv /\ SetInv /\ EmbedOnceInv

LEMMA RowInvariance == Spec => []RowInv
<1>1. Init => RowInv
  <2> SUFFICES ASSUME Init PROVE RowInv
    OBVIOUS
  <2>1. \A a \in Actors : pc[a] = "free" /\ call[a] = Idle
    BY DEF Init
  <2>2. Live = {} /\ Worker \in Actors
    BY DEF Init, Live, Actors
  <2>3. Idle.op = "none" /\ Idle.key = "note" /\ Idle.part = 1
    BY DEF Idle
  <2>4. KeyInv /\ PartInv
    BY <2>1, <2>2, <2>3, MemoryAssumption DEF KeyInv, PartInv
  <2>5. SetInv
    BY <2>1, <2>2, <2>3 DEF SetInv, Sets, Actors
  <2>6. EmbedOnceInv
    BY <2>2 DEF EmbedOnceInv
  <2>7. QED
    BY <2>4, <2>5, <2>6 DEF RowInv
<1>2. IInv /\ RowInv /\ [Next]_vars => RowInv'
  BY KeyStep, SetStep, EmbedOnceStep DEF IInv, RowInv
<1>3. QED
  BY <1>1, <1>2, Invariance, PTL DEF Spec

(***************************************************************************)
(* set_preference replaces the row it finds: however many threads set,     *)
(* delete, forget, embed and re-index, and wherever the process dies, a    *)
(* key that no two overlapping calls have set, and whose pattern matches   *)
(* no other key, has at most one live row.                                 *)
(***************************************************************************)
THEOREM PreferencesReplace == Spec => []PreferenceUnique
<1>1. SetInv => PreferenceUnique
  <2> SUFFICES ASSUME SetInv, NEW k \in Keys \ contended, Like[k] = {k}
               PROVE  Cardinality(About(k)) <= 1
    BY DEF PreferenceUnique, About
  <2>1. \A i, j \in About(k) : i = j
    BY DEF SetInv, About
  <2>2. CASE About(k) = {}
    BY <2>2, FS_EmptySet
  <2>3. ASSUME NEW i \in About(k) PROVE Cardinality(About(k)) <= 1
    <3>1. About(k) = {i}
      BY <2>1
    <3>2. QED
      BY <3>1, FS_Singleton
  <2>4. QED
    BY <2>2, <2>3
<1>2. QED
  BY <1>1, RowInvariance, PTL DEF RowInv

(***************************************************************************)
(* set_embedding_status says ready of a live row only when all its chunks  *)
(* are there: no thread's clear_memory or insert_chunk meets another's     *)
(* embedding of the row unless reindex_user_memories took the row up while *)
(* an embedding of it was outstanding.                                     *)
(***************************************************************************)
THEOREM ReadyRowsEmbedded == Spec => []ReadyMeansEmbedded
<1>1. EmbedOnceInv => ReadyMeansEmbedded
  BY DEF EmbedOnceInv, Chunked, ReadyMeansEmbedded
<1>2. QED
  BY <1>1, RowInvariance, PTL DEF RowInv
=============================================================================
