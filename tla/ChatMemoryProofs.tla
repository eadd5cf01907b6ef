-------------------------- MODULE ChatMemoryProofs --------------------------
(***************************************************************************)
(* What erasure and the response cache promise, for every number of turns, *)
(* users, conversations and erasures, every queue capacity and every TTL.  *)
(***************************************************************************)
EXTENDS ChatMemory, TLAPS

\* A turn that is over, is in no queue and in no hand of the worker.
Settled(t) == turn[t].stage = "done" /\ t # worker /\ \A i \in 1..Len(queue) : queue[i] # t

\* A row was stored by a turn of its key that used no tool and has ended, and so
\* was every answer that was served.
CacheInv ==
  /\ \A t \in Turns : turn[t].stage = "caching" => ~turn[t].tools
  /\ \A k \in DOMAIN cache : /\ turn[cache[k].turn].stage = "done"
                             /\ ~turn[cache[k].turn].tools
                             /\ turn[cache[k].turn].key = k
                             /\ cache[k].created_at <= now
  /\ \A s \in served : turn[s.answer].stage = "done" /\ turn[s.by].stage = "done"

\* Between the clearing of the cache and the answer, and ever after, the settled
\* turns stay settled and out of the cache; after the deletion also out of the store.
ErasureInv ==
  \A e \in Erasures : erasure[e].stage \in {"deleting", "done"} =>
    \A t \in erasure[e].settled :
      /\ Settled(t) /\ turn[t].user = erasure[e].user
      /\ \A k \in DOMAIN cache : cache[k].turn # t
      /\ erasure[e].stage = "done" => t \notin points

IInv == TypeOK /\ CacheInv /\ ServedIsFresh /\ ErasureInv

-----------------------------------------------------------------------------
(* Type correctness                                                        *)

\* The cache stays a table from keys to rows when rows are kept or one is stored.
LEMMA CacheTypes ==
  ASSUME TypeOK
  PROVE  /\ \A keys : /\ DOMAIN Kept(keys) \subseteq DOMAIN cache
                      /\ \A k \in DOMAIN Kept(keys) : Kept(keys)[k] = cache[k]
         /\ \A k \in Keys, t \in Turns :
              /\ DOMAIN Stored(k, t) = DOMAIN cache \cup {k}
              /\ Stored(k, t)[k] = [turn |-> t, created_at |-> now]
              /\ \A j \in DOMAIN cache : j # k => Stored(k, t)[j] = cache[j]
              /\ [turn |-> t, created_at |-> now] \in Row
BY DEF Kept, Stored, TypeOK, Row

\* Taking the first of a queue leaves a shorter queue of the others.
LEMMA QueueTaken ==
  ASSUME NEW q \in Seq(Turns), q # <<>>
  PROVE  /\ Head(q) \in Turns /\ Tail(q) \in Seq(Turns) /\ Len(Tail(q)) = Len(q) - 1
         /\ Head(q) = q[1] /\ \A i \in 1..(Len(q) - 1) : Tail(q)[i] = q[i + 1]
OBVIOUS

\* Type correctness of the chat memory, initially.
LEMMA InitTypeOK == Init => TypeOK
BY MemoryAssumption DEF Init, TypeOK, Turn, Stages, Erasure

\* Type correctness of the chat memory, step by step.
LEMMA StepTypeOK == TypeOK /\ [Next]_vars => TypeOK'
<1> SUFFICES ASSUME TypeOK, [Next]_vars
             PROVE  TypeOK'
  OBVIOUS
<1> USE DEF TypeOK
<1>1. CASE Tick
  BY <1>1 DEF Tick
<1>2. CASE PurgeExpired
  <2>1. PICK keys : cache' = Kept(keys)
    BY <1>2 DEF PurgeExpired
  <2> QED
    BY <1>2, <2>1, CacheTypes DEF PurgeExpired
<1>3. ASSUME NEW t \in Turns, TurnStep(t)
      PROVE  TypeOK'
  <2>0. turn[t] \in Turn
    OBVIOUS
  <2>1. ASSUME NEW u \in Users, NEW k \in Keys, Hit(t, u, k)
        PROVE  TypeOK'
    <3>1. [by |-> t, answer |-> cache[k].turn, age |-> now - cache[k].created_at] \in Serving
      BY <2>1 DEF Hit, Fresh, Row, Serving
    <3>2. [stage |-> "done", user |-> u, key |-> k, tools |-> FALSE] \in Turn
      BY DEF Turn, Stages
    <3> QED
      BY <2>1, <3>1, <3>2 DEF Hit
  <2>2. ASSUME NEW u \in Users, NEW k \in Keys, Miss(t, u, k)
        PROVE  TypeOK'
    <3>1. [stage |-> "running", user |-> u, key |-> k, tools |-> FALSE] \in Turn
      BY DEF Turn, Stages
    <3>2. turn' \in [Turns -> Turn]
      BY <2>2, <3>1 DEF Miss
    <3>3. DOMAIN cache' \subseteq Keys /\ \A j \in DOMAIN cache' : cache'[j] \in Row
      BY <2>2, CacheTypes DEF Miss
    <3> QED
      BY <2>2, <3>2, <3>3 DEF Miss
  <2>3. ASSUME NEW u \in Users, Uncacheable(t, u)
        PROVE  TypeOK'
    <3>1. [stage |-> "running", user |-> u, key |-> None, tools |-> FALSE] \in Turn
      BY DEF Turn, Stages
    <3> QED
      BY <2>3, <3>1 DEF Uncacheable
  <2>4. ASSUME NEW tools \in BOOLEAN, Answered(t, tools)
        PROVE  TypeOK'
    <3>1. [turn[t] EXCEPT !.stage = "remembering", !.tools = tools] \in Turn
      BY <2>0 DEF Turn, Stages
    <3> QED
      BY <2>4, <3>1 DEF Answered
  <2>5. \A stage \in Stages : [turn[t] EXCEPT !.stage = stage] \in Turn
    BY <2>0 DEF Turn
  <2>6. CASE Failed(t)
    BY <2>5, <2>6 DEF Failed, GoTo, Stages
  <2>7. CASE Remember(t)
    <3>1. turn' \in [Turns -> Turn]
      BY <2>5, <2>7 DEF Remember, GoTo, Stages
    <3>2. queue' \in Seq(Turns) /\ Len(queue') <= QueueCapacity
      BY <2>7, MemoryAssumption DEF Remember
    <3>3. turn[t].key \in Keys \cup {None}
      BY <2>0 DEF Turn
    <3>4. \A x \in Turns : turn'[x].stage = "caching" => turn'[x].key \in Keys
      BY <2>0, <2>7, <3>3 DEF Remember, GoTo, Turn
    <3> QED
      BY <2>7, <3>1, <3>2, <3>4 DEF Remember
  <2>8. CASE Cache(t)
    <3>1. turn' \in [Turns -> Turn]
      BY <2>5, <2>8 DEF Cache, GoTo, Stages
    <3>2. DOMAIN cache' \subseteq Keys /\ \A j \in DOMAIN cache' : cache'[j] \in Row
      <4>1. PICK k \in Keys : cache' = Stored(k, t)
        BY <2>8 DEF Cache
      <4>2. /\ DOMAIN cache' = DOMAIN cache \cup {k} /\ cache'[k] \in Row
            /\ \A j \in DOMAIN cache : j # k => cache'[j] = cache[j]
        BY <4>1, CacheTypes
      <4> QED
        BY <4>2
    <3>3. \A x \in Turns : turn'[x].stage = "caching" => turn'[x].key \in Keys
      BY <2>0, <2>8 DEF Cache, GoTo, Turn
    <3> QED
      BY <2>8, <3>1, <3>2, <3>3 DEF Cache
  <2> QED
    BY <1>3, <2>1, <2>2, <2>3, <2>4, <2>6, <2>7, <2>8 DEF TurnStep
<1>4. CASE WorkerStep
  <2>1. CASE TakeJob
    <3>1. /\ Head(queue) \in Turns /\ Tail(queue) \in Seq(Turns)
          /\ Len(Tail(queue)) <= QueueCapacity
      <4>1. queue \in Seq(Turns) /\ queue # <<>> /\ Len(queue) \in Nat
        BY <2>1 DEF TakeJob
      <4> QED
        BY <4>1, QueueTaken, MemoryAssumption
    <3> QED
      BY <2>1, <3>1 DEF TakeJob
  <2>2. CASE Ingest \/ IngestFails
    BY <2>2 DEF Ingest, IngestFails
  <2> QED
    BY <1>4, <2>1, <2>2 DEF WorkerStep
<1>5. ASSUME NEW e \in Erasures, ErasureStep(e)
      PROVE  TypeOK'
  <2>1. ASSUME NEW u \in Users, ClearCache(e, u)
        PROVE  TypeOK'
    <3>1. [stage |-> "deleting", user |-> u, before |-> UsersTurns(u),
           settled |-> UsersTurns(u) \ OnTheirWay] \in Erasure
      BY DEF Erasure, UsersTurns
    <3> QED
      BY <2>1, <3>1 DEF ClearCache
  <2>2. CASE DeleteUser(e) \/ ForgetFails(e)
    <3>1. /\ [erasure[e] EXCEPT !.stage = "done"] \in Erasure
          /\ [erasure[e] EXCEPT !.stage = "failed"] \in Erasure
      BY DEF Erasure
    <3> QED
      BY <2>2, <3>1 DEF DeleteUser, ForgetFails
  <2> QED
    BY <1>5, <2>1, <2>2 DEF ErasureStep
<1>6. CASE UNCHANGED vars
  BY <1>6 DEF vars
<1> QED
  BY <1>1, <1>2, <1>3, <1>4, <1>5, <1>6 DEF Next

\* Every variable keeps its type, for every number of turns, users, conversations
\* and erasures.
THEOREM MemoryTypeCorrect == Spec => []TypeOK
<1>1. Init => TypeOK
  BY InitTypeOK
<1>2. TypeOK /\ [Next]_vars => TypeOK'
  BY StepTypeOK
<1> QED
  BY <1>1, <1>2, PTL DEF Spec

-----------------------------------------------------------------------------
(* The response cache                                                      *)

\* An empty cache has served nothing.
LEMMA InitCacheInv == Init => CacheInv /\ ServedIsFresh
BY DEF Init, CacheInv, ServedIsFresh

\* A finished turn is never touched again, so what a row or a served answer says
\* of its turn stays true; only store_response adds a row and only a hit serves.
LEMMA StepCacheInv ==
  TypeOK /\ TypeOK' /\ CacheInv /\ ServedIsFresh /\ [Next]_vars => (CacheInv /\ ServedIsFresh)'
<1> SUFFICES ASSUME TypeOK, TypeOK', CacheInv, ServedIsFresh, [Next]_vars
             PROVE  (CacheInv /\ ServedIsFresh)'
  OBVIOUS
<1>0. /\ \A k \in DOMAIN cache : cache[k] \in Row /\ cache[k].turn \in Turns
                                 /\ cache[k].created_at \in Nat /\ k \in Keys
      /\ \A s \in served : s.answer \in Turns /\ s.by \in Turns
      /\ now \in Nat
  BY DEF TypeOK, Row, Serving
<1>1. CASE Tick
  BY <1>0, <1>1 DEF Tick, CacheInv, ServedIsFresh
<1>2. CASE PurgeExpired
  <2>1. /\ DOMAIN cache' \subseteq DOMAIN cache
        /\ \A k \in DOMAIN cache' : cache'[k] = cache[k]
    BY <1>2, CacheTypes DEF PurgeExpired
  <2> QED
    BY <1>0, <1>2, <2>1 DEF PurgeExpired, CacheInv, ServedIsFresh
<1>3. ASSUME NEW t \in Turns, TurnStep(t)
      PROVE  (CacheInv /\ ServedIsFresh)'
  <2>0. turn \in [Turns -> Turn] /\ turn[t] \in Turn
    BY DEF TypeOK
  <2>a. turn[t].stage # "done" => /\ \A k \in DOMAIN cache : cache[k].turn # t
                                  /\ \A s \in served : s.answer # t /\ s.by # t
    BY DEF CacheInv
  <2>1. ASSUME NEW u \in Users, NEW k \in Keys, Hit(t, u, k)
        PROVE  (CacheInv /\ ServedIsFresh)'
    <3>1. /\ turn'[t].stage = "done" /\ turn'[t].key = k
          /\ \A x \in Turns : x # t => turn'[x] = turn[x]
          /\ k \in DOMAIN cache /\ now - cache[k].created_at <= TTL /\ cache[k].turn # t
          /\ cache' = cache /\ now' = now
      BY <2>0, <2>a, <2>1 DEF Hit, Fresh
    <3>2. served' = served \cup {[by |-> t, answer |-> cache[k].turn,
                                  age |-> now - cache[k].created_at]}
      BY <2>1 DEF Hit
    <3>3. CacheInv'
      BY <1>0, <2>a, <2>1, <3>1, <3>2 DEF CacheInv, Hit
    <3>4. ServedIsFresh'
      BY <1>0, <2>a, <2>1, <3>1, <3>2 DEF CacheInv, ServedIsFresh, Hit
    <3> QED
      BY <3>3, <3>4
  <2>2. ASSUME NEW u \in Users, NEW k \in Keys, Miss(t, u, k)
        PROVE  (CacheInv /\ ServedIsFresh)'
    <3>1. /\ turn[t].stage = "idle" /\ turn'[t].stage = "running"
          /\ \A x \in Turns : x # t => turn'[x] = turn[x]
          /\ served' = served /\ now' = now
      BY <2>0, <2>2 DEF Miss
    <3>2. /\ DOMAIN cache' \subseteq DOMAIN cache
          /\ \A j \in DOMAIN cache' : cache'[j] = cache[j]
      BY <2>2, CacheTypes DEF Miss
    <3> QED
      BY <1>0, <2>a, <3>1, <3>2 DEF CacheInv, ServedIsFresh
  <2>3. ASSUME \/ \E u \in Users : Uncacheable(t, u)
               \/ \E tools \in BOOLEAN : Answered(t, tools)
               \/ Failed(t) \/ Remember(t)
        PROVE  (CacheInv /\ ServedIsFresh)'
    <3>1. /\ turn[t].stage # "done"
          /\ \A x \in Turns : x # t => turn'[x] = turn[x]
          /\ turn'[t].stage = "caching" => ~turn'[t].tools
          /\ served' = served /\ now' = now /\ cache' = cache
      <4>1. CASE Failed(t)
        BY <2>0, <4>1 DEF Failed, GoTo, Turn
      <4>2. CASE Remember(t)
        BY <2>0, <4>2 DEF Remember, GoTo, Turn
      <4>3. CASE \E u \in Users : Uncacheable(t, u)
        BY <2>0, <4>3 DEF Uncacheable
      <4>4. CASE \E tools \in BOOLEAN : Answered(t, tools)
        BY <2>0, <4>4 DEF Answered
      <4> QED
        BY <2>3, <4>1, <4>2, <4>3, <4>4
    <3> QED
      BY <1>0, <2>a, <3>1 DEF CacheInv, ServedIsFresh
  <2>4. CASE Cache(t)
    <3>1. /\ turn[t].stage = "caching" /\ turn[t].key \in Keys /\ ~turn[t].tools
      BY <2>4 DEF Cache, TypeOK, CacheInv
    <3>2. /\ turn'[t].stage = "done" /\ turn'[t].key = turn[t].key
          /\ turn'[t].tools = turn[t].tools
          /\ \A x \in Turns : x # t => turn'[x] = turn[x]
          /\ served' = served /\ now' = now
      BY <2>0, <2>4 DEF Cache, GoTo, Turn
    <3>3. PICK k \in Keys : k = turn[t].key /\ cache' = Stored(k, t)
      BY <2>4, <3>1 DEF Cache
    <3>4. /\ DOMAIN cache' = DOMAIN cache \cup {k}
          /\ cache'[k].turn = t /\ cache'[k].created_at = now
          /\ \A j \in DOMAIN cache : j # k => cache'[j] = cache[j]
      <4>1. /\ DOMAIN cache' = DOMAIN cache \cup {k}
            /\ cache'[k] = [turn |-> t, created_at |-> now]
            /\ \A j \in DOMAIN cache : j # k => cache'[j] = cache[j]
        BY <3>3, CacheTypes
      <4> QED
        BY <4>1
    <3> QED
      BY <1>0, <2>a, <3>1, <3>2, <3>3, <3>4 DEF CacheInv, ServedIsFresh
  <2> QED
    BY <1>3, <2>1, <2>2, <2>3, <2>4 DEF TurnStep
<1>4. CASE WorkerStep
  BY <1>4 DEF WorkerStep, TakeJob, Ingest, IngestFails, CacheInv, ServedIsFresh
<1>5. ASSUME NEW e \in Erasures, ErasureStep(e)
      PROVE  (CacheInv /\ ServedIsFresh)'
  BY <1>5 DEF ErasureStep, ClearCache, DeleteUser, ForgetFails, CacheInv, ServedIsFresh
<1>6. CASE UNCHANGED vars
  BY <1>6 DEF vars, CacheInv, ServedIsFresh
<1> QED
  BY <1>1, <1>2, <1>3, <1>4, <1>5, <1>6 DEF Next

-----------------------------------------------------------------------------
(* The erasure                                                             *)

\* Nobody has asked to be forgotten yet.
LEMMA InitErasureInv == Init => ErasureInv
BY DEF Init, ErasureInv

\* What an erasure found settled stays settled: no step lets a finished turn back
\* into a handler, the queue, the worker, the cache or the store.
LEMMA SettledStep ==
  ASSUME TypeOK, CacheInv, [Next]_vars, NEW t \in Turns, Settled(t)
  PROVE  /\ Settled(t)' /\ turn'[t] = turn[t]
         /\ (\A k \in DOMAIN cache : cache[k].turn # t)
              => \A k \in DOMAIN cache' : cache'[k].turn # t
         /\ t \notin points => t \notin points'
<1>0. /\ turn \in [Turns -> Turn] /\ queue \in Seq(Turns)
      /\ turn[t].stage = "done" /\ t # worker /\ \A i \in 1..Len(queue) : queue[i] # t
  BY DEF TypeOK, Settled
<1>1. CASE UNCHANGED turn /\ UNCHANGED queue /\ UNCHANGED worker /\ UNCHANGED cache
           /\ (points' \subseteq points \cup {worker})
  BY <1>0, <1>1 DEF Settled
<1>2. CASE PurgeExpired
  <2>1. /\ DOMAIN cache' \subseteq DOMAIN cache
        /\ \A k \in DOMAIN cache' : cache'[k] = cache[k]
    BY <1>2, CacheTypes DEF PurgeExpired
  <2> QED
    BY <1>0, <1>2, <2>1 DEF PurgeExpired, Settled
<1>3. ASSUME NEW x \in Turns, TurnStep(x)
      PROVE  /\ Settled(t)' /\ turn'[t] = turn[t]
             /\ (\A k \in DOMAIN cache : cache[k].turn # t)
                  => \A k \in DOMAIN cache' : cache'[k].turn # t
             /\ t \notin points => t \notin points'
  <2>1. /\ x # t /\ turn'[t] = turn[t] /\ UNCHANGED worker /\ UNCHANGED points
    BY <1>0, <1>3 DEF TurnStep, Hit, Miss, Uncacheable, Answered, Failed, Remember, Cache, GoTo
  <2>2. queue' = queue \/ queue' = Append(queue, x)
    BY <1>3 DEF TurnStep, Hit, Miss, Uncacheable, Answered, Failed, Remember, Cache
  <2>3. Settled(t)'
    BY <1>0, <2>1, <2>2 DEF Settled
  <2>4. \A k \in DOMAIN cache' : (k \in DOMAIN cache /\ cache'[k] = cache[k])
                                   \/ cache'[k].turn = x
    <3>1. CASE UNCHANGED cache
      BY <3>1
    <3>2. ASSUME NEW u \in Users, NEW k \in Keys, Miss(x, u, k)
          PROVE  \A j \in DOMAIN cache' : j \in DOMAIN cache /\ cache'[j] = cache[j]
      BY <3>2, CacheTypes DEF Miss
    <3>3. CASE Cache(x)
      <4>1. PICK k \in Keys : cache' = Stored(k, x)
        BY <3>3 DEF Cache, TypeOK
      <4>2. /\ DOMAIN cache' = DOMAIN cache \cup {k}
            /\ cache'[k] = [turn |-> x, created_at |-> now]
            /\ \A j \in DOMAIN cache : j # k => cache'[j] = cache[j]
        BY <4>1, CacheTypes
      <4> QED
        BY <4>2
    <3>4. \/ UNCHANGED cache \/ Cache(x) \/ \E u \in Users, k \in Keys : Miss(x, u, k)
      BY <1>3 DEF TurnStep, Hit, Uncacheable, Answered, Failed, Remember
    <3> QED
      BY <3>1, <3>2, <3>3, <3>4
  <2> QED
    BY <2>1, <2>3, <2>4
<1>4. CASE WorkerStep
  <2>1. CASE TakeJob
    <3>1. queue # <<>> /\ worker' = Head(queue) /\ queue' = Tail(queue)
          /\ UNCHANGED turn /\ UNCHANGED cache /\ UNCHANGED points
      BY <2>1 DEF TakeJob
    <3>2. t # Head(queue) /\ \A i \in 1..Len(Tail(queue)) : Tail(queue)[i] # t
      BY <1>0, <3>1, QueueTaken
    <3> QED
      BY <1>0, <3>1, <3>2 DEF Settled
  <2>2. CASE Ingest \/ IngestFails
    <3>1. t # None
      BY MemoryAssumption
    <3> QED
      BY <1>0, <2>2, <3>1 DEF Ingest, IngestFails, Settled
  <2> QED
    BY <1>4, <2>1, <2>2 DEF WorkerStep
<1>5. ASSUME NEW e \in Erasures, ErasureStep(e)
      PROVE  /\ Settled(t)' /\ turn'[t] = turn[t]
             /\ (\A k \in DOMAIN cache : cache[k].turn # t)
                  => \A k \in DOMAIN cache' : cache'[k].turn # t
             /\ t \notin points => t \notin points'
  BY <1>0, <1>5 DEF ErasureStep, ClearCache, DeleteUser, ForgetFails, Settled
<1>6. CASE Tick \/ UNCHANGED vars
  BY <1>1, <1>6 DEF Tick, vars
<1> QED
  BY <1>2, <1>3, <1>4, <1>5, <1>6 DEF Next

\* The handler's own steps: clearing leaves no row at all, deleting no point of the
\* user, and every other step leaves the erasures alone.
LEMMA StepErasureInv ==
  TypeOK /\ TypeOK' /\ CacheInv /\ ErasureInv /\ [Next]_vars => ErasureInv'
<1> SUFFICES ASSUME TypeOK, TypeOK', CacheInv, ErasureInv, [Next]_vars,
                    NEW e \in Erasures, erasure'[e].stage \in {"deleting", "done"},
                    NEW t \in erasure'[e].settled
             PROVE  /\ Settled(t)' /\ turn'[t].user = erasure'[e].user
                    /\ \A k \in DOMAIN cache' : cache'[k].turn # t
                    /\ erasure'[e].stage = "done" => t \notin points'
  BY DEF ErasureInv
<1>0. erasure \in [Erasures -> Erasure] /\ erasure' \in [Erasures -> Erasure] /\ t \in Turns
  BY DEF TypeOK, Erasure
<1>1. CASE erasure'[e] = erasure[e]
  <2>1. /\ Settled(t) /\ turn[t].user = erasure[e].user
        /\ \A k \in DOMAIN cache : cache[k].turn # t
        /\ erasure[e].stage = "done" => t \notin points
    BY <1>1 DEF ErasureInv
  <2> QED
    BY <1>0, <1>1, <2>1, SettledStep
<1>2. ASSUME NEW u \in Users, ClearCache(e, u)
      PROVE  /\ Settled(t)' /\ turn'[t].user = erasure'[e].user
             /\ \A k \in DOMAIN cache' : cache'[k].turn # t
             /\ erasure'[e].stage = "done" => t \notin points'
  <2>1. /\ erasure'[e].stage = "deleting" /\ erasure'[e].user = u
        /\ t \in UsersTurns(u) \ OnTheirWay
        /\ cache' = [k \in {} |-> None]
        /\ UNCHANGED turn /\ UNCHANGED queue /\ UNCHANGED worker
    BY <1>0, <1>2 DEF ClearCache
  <2> QED
    BY <2>1 DEF UsersTurns, OnTheirWay, Settled
<1>3. CASE DeleteUser(e)
  <2>1. /\ erasure[e].stage = "deleting" /\ erasure'[e].settled = erasure[e].settled
        /\ erasure'[e].user = erasure[e].user
        /\ points' = {x \in points : turn[x].user # erasure[e].user}
        /\ UNCHANGED turn /\ UNCHANGED queue /\ UNCHANGED worker /\ UNCHANGED cache
    BY <1>0, <1>3 DEF DeleteUser, Erasure
  <2>2. /\ Settled(t) /\ turn[t].user = erasure[e].user
        /\ \A k \in DOMAIN cache : cache[k].turn # t
    BY <2>1 DEF ErasureInv
  <2> QED
    BY <2>1, <2>2 DEF Settled
<1>4. CASE ForgetFails(e)
  BY <1>0, <1>4 DEF ForgetFails, Erasure
<1>5. \/ erasure'[e] = erasure[e] \/ DeleteUser(e) \/ ForgetFails(e)
      \/ \E u \in Users : ClearCache(e, u)
  <2>1. ASSUME NEW f \in Erasures, ErasureStep(f), f # e
        PROVE  erasure'[e] = erasure[e]
    BY <1>0, <2>1 DEF ErasureStep, ClearCache, DeleteUser, ForgetFails
  <2>2. ASSUME ErasureStep(e)
        PROVE  DeleteUser(e) \/ ForgetFails(e) \/ \E u \in Users : ClearCache(e, u)
    BY <2>2 DEF ErasureStep
  <2>3. ASSUME NEW x \in Turns, TurnStep(x)
        PROVE  erasure'[e] = erasure[e]
    BY <2>3 DEF TurnStep, Hit, Miss, Uncacheable, Answered, Failed, Remember, Cache
  <2> QED
    BY <2>1, <2>2, <2>3 DEF Next, Tick, PurgeExpired, WorkerStep, TakeJob, Ingest,
       IngestFails, vars
<1> QED
  BY <1>1, <1>2, <1>3, <1>4, <1>5

\* The invariant of cache and erasure holds in every reachable state.
THEOREM MemoryInvariance == Spec => []IInv
<1>1. Init => IInv
  BY InitTypeOK, InitCacheInv, InitErasureInv DEF IInv
<1>2. IInv /\ [Next]_vars => IInv'
  BY StepTypeOK, StepCacheInv, StepErasureInv DEF IInv
<1> QED
  BY <1>1, <1>2, PTL DEF Spec

\* The cache serves only fresh, tool-free answers of the same cache key.
THEOREM ServedIsFreshHolds == Spec => []ServedIsFresh
<1>1. IInv => ServedIsFresh
  BY DEF IInv
<1> QED
  BY <1>1, MemoryInvariance, PTL

\* What was settled when a user asked to be forgotten is gone once they are told
\* so, and does not come back.
THEOREM ErasureHoldsAlways == Spec => []ErasureHolds
<1>1. IInv => ErasureHolds
  BY DEF IInv, ErasureInv, ErasureHolds
<1> QED
  BY <1>1, MemoryInvariance, PTL
=============================================================================
