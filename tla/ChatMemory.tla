----------------------------- MODULE ChatMemory -----------------------------
(***************************************************************************)
(* What mcp-master keeps of a chat turn, and DELETE /memory/user/{id},     *)
(* which takes it away: the SQLite response cache of memory::minimal, the  *)
(* ingest queue, its worker and the vector store of memory::service, and   *)
(* the handlers chat, chat_stream and forget_memory of http_api.           *)
(***************************************************************************)
EXTENDS Integers, Sequences, FiniteSets

CONSTANTS
  Turns,          (* chat requests                                       *)
  Users,          (* the `sub` claims of callers                         *)
  Keys,           (* conversation_cache_key of the conversations         *)
  Erasures,       (* requests to forget a user                           *)
  QueueCapacity,  (* ingest_queue_capacity                               *)
  TTL,            (* RESPONSE_CACHE_TTL_MS, in ticks                     *)
  MaxNow,         (* bound: the clock stops here                         *)
  None            (* no turn, no user; the key of an uncacheable turn    *)

ASSUME MemoryAssumption ==
  /\ QueueCapacity \in Nat \ {0}
  /\ TTL \in Nat /\ MaxNow \in Nat
  /\ None \notin Turns \cup Users \cup Keys

VARIABLES
  now,      (* now_unix_ms()                                             *)
  turn,     (* the chat handlers                                         *)
  cache,    (* the table responses: key to turn and created_at           *)
  queue,    (* ingest_tx to ingest_rx                                    *)
  worker,   (* the interaction run_ingest_worker is embedding            *)
  points,   (* the turns of which the vector store holds points          *)
  erasure,  (* the forget_memory handlers                                *)
  served    (* history: the answers served from the cache                *)

vars == <<now, turn, cache, queue, worker, points, erasure, served>>

-----------------------------------------------------------------------------
(* Types                                                                   *)

\* running: retrieving memory, asking the model, using tools; remembering: in
\* ingest_tx.send; caching: about to store the response.
Stages == {"idle", "running", "remembering", "caching", "done"}

\* The key is None for chat_stream, which has no cache, and for a conversation
\* without text.
Turn == [stage : Stages, user : Users \cup {None}, key : Keys \cup {None},
         tools : BOOLEAN]

Row == [turn : Turns, created_at : Nat]

\* settled: the user's turns that had run to their end and were no longer on
\* their way to the store when this erasure began; before: all it knew of.
Erasure == [stage : {"idle", "deleting", "done", "failed"}, user : Users \cup {None},
            settled : SUBSET Turns, before : SUBSET Turns]

Serving == [by : Turns, answer : Turns, age : Int]

TypeOK ==
  /\ now \in Nat
  /\ turn \in [Turns -> Turn]
  /\ \A t \in Turns : turn[t].stage = "caching" => turn[t].key \in Keys
  /\ DOMAIN cache \subseteq Keys /\ \A k \in DOMAIN cache : cache[k] \in Row
  /\ queue \in Seq(Turns) /\ Len(queue) <= QueueCapacity
  /\ worker \in Turns \cup {None}
  /\ points \subseteq Turns
  /\ erasure \in [Erasures -> Erasure]
  /\ served \subseteq Serving

Init ==
  /\ now = 0
  /\ turn = [t \in Turns |-> [stage |-> "idle", user |-> None, key |-> None, tools |-> FALSE]]
  /\ cache = [k \in {} |-> None]
  /\ queue = <<>> /\ worker = None /\ points = {}
  /\ erasure = [e \in Erasures |-> [stage |-> "idle", user |-> None,
                                    settled |-> {}, before |-> {}]]
  /\ served = {}

Tick ==
  /\ now < MaxNow
  /\ now' = now + 1
  /\ UNCHANGED <<turn, cache, queue, worker, points, erasure, served>>

-----------------------------------------------------------------------------
(* The response cache: lookup_response, store_response, purge_expired      *)

\* DELETE of all rows but those of some keys.
Kept(keys) == [k \in DOMAIN cache \cap keys |-> cache[k]]

Fresh(k) == k \in DOMAIN cache /\ now - cache[k].created_at <= TTL

Stored(k, t) ==
  [j \in DOMAIN cache \cup {k} |->
     IF j = k THEN [turn |-> t, created_at |-> now] ELSE cache[j]]

\* run_cache_sweeper.
PurgeExpired ==
  /\ \E k \in DOMAIN cache : cache[k].created_at + TTL < now
  /\ cache' = Kept({k \in Keys : k \in DOMAIN cache /\ cache[k].created_at + TTL >= now})
  /\ UNCHANGED <<now, turn, queue, worker, points, erasure, served>>

-----------------------------------------------------------------------------
(* chat and chat_stream                                                    *)

GoTo(t, stage) == turn' = [turn EXCEPT ![t] = [@ EXCEPT !.stage = stage]]

\* A fresh row answers the turn.
Hit(t, u, k) ==
  /\ turn[t].stage = "idle" /\ Fresh(k)
  /\ turn' = [turn EXCEPT ![t] = [stage |-> "done", user |-> u, key |-> k, tools |-> FALSE]]
  /\ served' = served \cup
       {[by |-> t, answer |-> cache[k].turn, age |-> now - cache[k].created_at]}
  /\ UNCHANGED <<now, cache, queue, worker, points, erasure>>

\* No row, or a stale one, which is evicted.
Miss(t, u, k) ==
  /\ turn[t].stage = "idle" /\ ~Fresh(k)
  /\ turn' = [turn EXCEPT ![t] = [stage |-> "running", user |-> u, key |-> k, tools |-> FALSE]]
  /\ cache' = Kept(Keys \ {k})
  /\ UNCHANGED <<now, queue, worker, points, erasure, served>>

Uncacheable(t, u) ==
  /\ turn[t].stage = "idle"
  /\ turn' = [turn EXCEPT ![t] = [stage |-> "running", user |-> u, key |-> None, tools |-> FALSE]]
  /\ UNCHANGED <<now, cache, queue, worker, points, erasure, served>>

\* The orchestrator returned Ok, with or without a tool trace.
Answered(t, tools) ==
  /\ turn[t].stage = "running"
  /\ turn' = [turn EXCEPT ![t] = [@ EXCEPT !.stage = "remembering", !.tools = tools]]
  /\ UNCHANGED <<now, cache, queue, worker, points, erasure, served>>

\* The orchestrator returned Err, or the handler was dropped at an await by the
\* TimeoutLayer or a closed connection.
Failed(t) ==
  /\ turn[t].stage \in {"running", "remembering"}
  /\ GoTo(t, "done")
  /\ UNCHANGED <<now, cache, queue, worker, points, erasure, served>>

\* Faulty variant: an answer that rests on tools is cached as well.
RememberAndCacheAll(t) ==
  /\ turn[t].stage = "remembering" /\ Len(queue) < QueueCapacity
  /\ queue' = Append(queue, t)
  /\ GoTo(t, IF turn[t].key = None THEN "done" ELSE "caching")
  /\ UNCHANGED <<now, cache, worker, points, erasure, served>>

\* remember_interaction waits for room in the queue.
Remember(t) ==
  /\ turn[t].stage = "remembering" /\ Len(queue) < QueueCapacity
  /\ queue' = Append(queue, t)
  /\ GoTo(t, IF turn[t].tools \/ turn[t].key = None THEN "done" ELSE "caching")
  /\ UNCHANGED <<now, cache, worker, points, erasure, served>>

Cache(t) ==
  /\ turn[t].stage = "caching"
  /\ cache' = Stored(turn[t].key, t)
  /\ GoTo(t, "done")
  /\ UNCHANGED <<now, queue, worker, points, erasure, served>>

-----------------------------------------------------------------------------
(* run_ingest_worker                                                       *)

TakeJob ==
  /\ worker = None /\ queue # <<>>
  /\ worker' = Head(queue) /\ queue' = Tail(queue)
  /\ UNCHANGED <<now, turn, cache, points, erasure, served>>

\* upsert_points, all chunks in one request.
Ingest ==
  /\ worker # None
  /\ points' = points \cup {worker}
  /\ worker' = None
  /\ UNCHANGED <<now, turn, cache, queue, erasure, served>>

\* The embedder or the store answers with an error, which is logged.  A store that
\* has written the points all the same is the case above: a write that timed out here
\* is assumed to have landed by then, or never to land.
IngestFails ==
  /\ worker # None
  /\ worker' = None
  /\ UNCHANGED <<now, turn, cache, queue, points, erasure, served>>

-----------------------------------------------------------------------------
(* forget_memory                                                           *)

UsersTurns(u) == {t \in Turns : turn[t].user = u}
OnTheirWay == {t \in Turns : \/ turn[t].stage # "done"
                             \/ t = worker
                             \/ \E i \in 1..Len(queue) : queue[i] = t}

\* Faulty variant: the response cache is forgotten.
ForgetMemoryOnly(e, u) ==
  /\ erasure[e].stage = "idle"
  /\ erasure' = [erasure EXCEPT ![e] =
       [stage |-> "deleting", user |-> u, before |-> UsersTurns(u),
        settled |-> UsersTurns(u) \ OnTheirWay]]
  /\ UNCHANGED <<now, turn, cache, queue, worker, points, served>>

\* cache.clear() in the first poll of the handler.
ClearCache(e, u) ==
  /\ erasure[e].stage = "idle"
  /\ cache' = [k \in {} |-> None]
  /\ erasure' = [erasure EXCEPT ![e] =
       [stage |-> "deleting", user |-> u, before |-> UsersTurns(u),
        settled |-> UsersTurns(u) \ OnTheirWay]]
  /\ UNCHANGED <<now, turn, queue, worker, points, served>>

\* delete_by_user: the caller is told that the user is forgotten.
DeleteUser(e) ==
  /\ erasure[e].stage = "deleting"
  /\ points' = {t \in points : turn[t].user # erasure[e].user}
  /\ erasure' = [erasure EXCEPT ![e] = [@ EXCEPT !.stage = "done"]]
  /\ UNCHANGED <<now, turn, cache, queue, worker, served>>

\* An error of the cache or the store, or a dropped handler.
ForgetFails(e) ==
  /\ erasure[e].stage \in {"idle", "deleting"}
  /\ erasure' = [erasure EXCEPT ![e] = [@ EXCEPT !.stage = "failed"]]
  /\ UNCHANGED <<now, turn, cache, queue, worker, points, served>>

-----------------------------------------------------------------------------
TurnStep(t) ==
  \/ \E u \in Users, k \in Keys : Hit(t, u, k) \/ Miss(t, u, k)
  \/ \E u \in Users : Uncacheable(t, u)
  \/ \E tools \in BOOLEAN : Answered(t, tools)
  \/ Failed(t) \/ Remember(t) \/ Cache(t)

WorkerStep == TakeJob \/ Ingest \/ IngestFails

ErasureStep(e) ==
  \/ \E u \in Users : ClearCache(e, u)
  \/ DeleteUser(e) \/ ForgetFails(e)

Next ==
  \/ Tick \/ PurgeExpired
  \/ \E t \in Turns : TurnStep(t)
  \/ WorkerStep
  \/ \E e \in Erasures : ErasureStep(e)

Spec == Init /\ [][Next]_vars

-----------------------------------------------------------------------------
(* Properties                                                              *)

\* The cache never passes off old or live data as an answer: what it serves was
\* stored within the TTL by a turn of the same cache key that used no tool.
ServedIsFresh ==
  \A s \in served :
    /\ s.age <= TTL
    /\ ~turn[s.answer].tools
    /\ turn[s.answer].key = turn[s.by].key

\* Once a user has been told that they are forgotten, nothing of what was settled
\* when they asked is left, in the cache or in the store, or comes back later.
ErasureHolds ==
  \A e \in Erasures : erasure[e].stage = "done" =>
    /\ points \cap erasure[e].settled = {}
    /\ \A k \in DOMAIN cache : cache[k].turn \notin erasure[e].settled

-----------------------------------------------------------------------------
(* What the source says, and the code does not do                          *)

\* "so no cached answer outlives the erasure": a turn in flight stores its answer
\* after the cache was cleared.
NoAnswerOutlivesErasure ==
  \A e \in Erasures : erasure[e].stage = "done" =>
    \A k \in DOMAIN cache : cache[k].turn \notin erasure[e].before
=============================================================================
