----------------------------- MODULE PromptRoute -----------------------------
(***************************************************************************)
(* ProviderRoute with the prompt cache: between limiter and HTTP client an  *)
(* attempt builds its system prompt, and a prompt with active skills is     *)
(* looked up in an OrderedDict that all request threads share without a     *)
(* lock.  Each operation on the dict is atomic, their sequence is not.      *)
(* time.time of the cache and time.monotonic of circuit and limiter are one *)
(* clock here, now.                                                         *)
(***************************************************************************)
EXTENDS ProviderRoute

CONSTANTS
  Deployments, \* which providers the sessions of a behaviour name, and the
               \* cache keys of each provider's prompts: [named, prompts];
               \* no key without active skills or without a cache
  MaxEntries,  \* PromptCacheConfig.max_entries, at least 1
  Ttl          \* PromptCacheConfig.ttl_seconds, at least 1

ASSUME PromptAssumption ==
  /\ \A d \in Deployments :
       d.named \subseteq Primaries /\ DOMAIN d.prompts = Providers
  /\ MaxEntries \in Nat \ {0}
  /\ Ttl \in Nat \ {0}

VARIABLES
  deployed, \* the deployment, fixed at start
  cache,    \* the entries [key, expires], oldest first
  place,    \* where each thread stands in the cache
  key,      \* the key it looks for
  raced     \* history: another thread removed an entry meanwhile

cacheVars == <<cache, place, key, raced>>
promptVars == <<vars, deployed, cacheVars>>
PromptKeys == UNION {deployed.prompts[p] : p \in Providers}

InCache(k) == \E i \in 1..Len(cache) : cache[i].key = k
At(k) == CHOOSE i \in 1..Len(cache) : cache[i].key = k
Without(k) ==
  SubSeq(cache, 1, At(k) - 1) \o SubSeq(cache, At(k) + 1, Len(cache))

PromptInit ==
  /\ Init
  /\ deployed \in Deployments
  /\ cache = <<>>
  /\ place = [t \in Threads |-> "none"]
  /\ key = [t \in Threads |-> "none"]
  /\ raced = [t \in Threads |-> FALSE]

GoTo(t, l) == place' = [place EXCEPT ![t] = l]
\* The locals of get and set are gone.
Forgets(t) ==
  /\ key' = [key EXCEPT ![t] = "none"]
  /\ raced' = [raced EXCEPT ![t] = FALSE]
In(t, l) == pc[t] = "fetch" /\ place[t] = l

\* Places of a thread between two operations of one get or set.
Between == {"expire", "touch", "order", "evict", "pop"}

\* Thread t removes an entry: the others between two operations are raced.
Removes(t) ==
  raced' = [u \in Threads |-> raced[u] \/ (u # t /\ place[u] \in Between)]

-----------------------------------------------------------------------------
(* PromptCache.get                                                          *)

\* A miss, a hit, or an entry that has expired.
LookUp(t, k) ==
  /\ In(t, "none")
  /\ k \in deployed.prompts[Current(t)]
  /\ key' = [key EXCEPT ![t] = k]
  /\ raced' = [raced EXCEPT ![t] = FALSE]
  /\ GoTo(t, IF ~InCache(k) THEN "store"
             ELSE IF cache[At(k)].expires < now THEN "expire" ELSE "touch")
  /\ UNCHANGED <<vars, cache>>

\* Mutation: an expired entry is moved to the end after it was popped.
ExpireAndTouch(t) ==
  /\ In(t, "expire")
  /\ IF InCache(key[t]) THEN cache' = Without(key[t]) /\ Removes(t)
     ELSE UNCHANGED <<cache, raced>>
  /\ GoTo(t, "touch")
  /\ UNCHANGED <<vars, key>>

\* pop(key, None): the entry goes even if it was renewed meanwhile.
Expire(t) ==
  /\ In(t, "expire")
  /\ IF InCache(key[t]) THEN cache' = Without(key[t]) /\ Removes(t)
     ELSE UNCHANGED <<cache, raced>>
  /\ GoTo(t, "store")
  /\ UNCHANGED <<vars, key>>

\* move_to_end: the hit is the newest, and the cached prompt is used.
Touch(t) ==
  /\ In(t, "touch")
  /\ InCache(key[t])
  /\ cache' = Append(Without(key[t]), cache[At(key[t])])
  /\ GoTo(t, "done")
  /\ Forgets(t)
  /\ UNCHANGED vars

-----------------------------------------------------------------------------
(* PromptCache.set                                                          *)

\* A key that is there already keeps its position.
Store(t) ==
  LET entry == [key |-> key[t], expires |-> now + Ttl] IN
  /\ In(t, "store")
  /\ cache' = IF InCache(key[t]) THEN [cache EXCEPT ![At(key[t])] = entry]
              ELSE Append(cache, entry)
  /\ GoTo(t, "order")
  /\ UNCHANGED <<vars, key, raced>>

MoveToEnd(t) ==
  /\ In(t, "order")
  /\ InCache(key[t])
  /\ cache' = Append(Without(key[t]), cache[At(key[t])])
  /\ GoTo(t, "evict")
  /\ UNCHANGED <<vars, key, raced>>

\* Mutation: one entry too many is kept.
KeepsOneMore(t) ==
  /\ In(t, "evict")
  /\ IF Len(cache) > MaxEntries + 1
     THEN GoTo(t, "pop") /\ UNCHANGED <<key, raced>>
     ELSE GoTo(t, "done") /\ Forgets(t)
  /\ UNCHANGED <<vars, cache>>

\* The condition of _evict_if_needed's loop.
CheckSize(t) ==
  /\ In(t, "evict")
  /\ IF Len(cache) > MaxEntries
     THEN GoTo(t, "pop") /\ UNCHANGED <<key, raced>>
     ELSE GoTo(t, "done") /\ Forgets(t)
  /\ UNCHANGED <<vars, cache>>

\* popitem(last=False)
PopOldest(t) ==
  /\ In(t, "pop")
  /\ cache # <<>>
  /\ cache' = Tail(cache)
  /\ Removes(t)
  /\ GoTo(t, "evict")
  /\ UNCHANGED <<vars, key>>

\* move_to_end of a key that is gone, popitem of an empty dict: nothing
\* between the prompt and the port catches it.
KeyMissing(t, p) ==
  /\ \/ place[t] \in {"touch", "order"} /\ ~InCache(key[t])
     \/ place[t] = "pop" /\ cache = <<>>
  /\ PromptRaises(t, p)
  /\ GoTo(t, "failed")
  /\ UNCHANGED <<cache, key, raced>>

-----------------------------------------------------------------------------
(* The attempt                                                              *)

\* Anything else that raises while the prompt is built.
StrategyRaises(t, p) ==
  /\ place[t] \in {"none", "done"}
  /\ PromptRaises(t, p)
  /\ GoTo(t, "none")
  /\ UNCHANGED <<cache, key, raced>>

\* The prompt is there: without the cache, or from it.
Send(t, p) ==
  /\ \/ place[t] = "none" /\ deployed.prompts[p] = {}
     \/ place[t] = "done"
  /\ FetchClient(t, p)
  /\ GoTo(t, "none")
  /\ UNCHANGED <<cache, key, raced>>

Leave(t) ==
  /\ Return(t)
  /\ GoTo(t, "none")
  /\ Forgets(t)
  /\ UNCHANGED cache

CacheStep(t) ==
  \/ (\E k \in PromptKeys : LookUp(t, k)) \/ Expire(t) \/ Touch(t)
  \/ Store(t) \/ MoveToEnd(t) \/ CheckSize(t) \/ PopOldest(t)

Elsewhere ==
  /\ \/ \E t \in Threads, p \in deployed.named : RunChat(t, p)
     \/ \E t \in Threads : \E p \in Providers \cap {Current(t)} :
          \/ NoCall(t, p) \/ AskCircuit(t, p) \/ CircuitPrecheck(t, p)
          \/ AskLimiter(t, p) \/ RatePrecheck(t, p)
          \/ (\E out \in Replies : HttpReply(t, p, out)) \/ RecordReply(t, p)
     \/ Tick
  /\ UNCHANGED cacheVars

PromptNext ==
  /\ \/ \E t \in Threads : CacheStep(t) \/ Leave(t)
     \/ \E t \in Threads : \E p \in Providers \cap {Current(t)} :
          KeyMissing(t, p) \/ StrategyRaises(t, p) \/ Send(t, p)
     \/ Elsewhere
  /\ UNCHANGED deployed

PromptSpec == PromptInit /\ [][PromptNext]_promptVars

-----------------------------------------------------------------------------
(* Properties                                                               *)

\* A request is lost to the cache only by a race: a KeyError reaches a thread
\* only if another one removed an entry between two of its operations on the
\* dict.  A single thread's gets and sets, expired entries and a full cache
\* included, never raise.
RaisesOnlyRaced == \A t \in Threads : place[t] = "failed" => raced[t]

\* The cache has no lock and an exception may skip an eviction, yet whenever
\* no thread is inside a set, it holds at most max_entries prompts.
CacheBounded ==
  (\A t \in Threads : place[t] \notin {"order", "evict", "pop"}) =>
    Len(cache) <= MaxEntries
=============================================================================
