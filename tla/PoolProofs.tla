----------------------------- MODULE PoolProofs -----------------------------
(***************************************************************************)
(* Proofs about McpPool, for any number of servers, callers and faults: a  *)
(* stale session is the pool's affair, to its callers the pool is          *)
(* ToolCall, and a tool is routed to a server that listed it.              *)
(***************************************************************************)
EXTENDS McpPool, FiniteSetTheorems, SequenceTheorems, TLAPS

\* One call: what it has written and what it knows, at every stage.
Progress(r) ==
  /\ r.stage \in {"idle", "waiting"} => r.sent = 0
  /\ r.stage \in {"first", "reopening"} => r.sent = 1
  /\ r.stage = "retry" => r.sent = 2
  /\ r.stage \in Holding \cup {"idle", "waiting"} => r.outcome = "none"
  /\ r.stage = "publishing" => r.outcome \in {"ok", "failed"}
  /\ r.outcome = "failed" => r.excused

\* The routing table is final before anyone calls.
CallsComeLater ==
  \A c \in Calls : call[c].stage \in Holding \cup {"waiting"} => startup = "ready"

\* A retry has a session that was opened for it, unless something has happened since.
RetryIsHealthy ==
  \A c \in Calls : call[c].stage = "retry" /\ ~call[c].excused => Healthy(c)

PoolInv ==
  /\ call \in [Calls -> Call]
  /\ \A c \in Calls : Progress(call[c])
  /\ CallsComeLater
  /\ RetryIsHealthy

-----------------------------------------------------------------------------
\* A call that has gone on and written.
LEMMA WrittenCall ==
  ASSUME NEW r \in Call, NEW stage \in Stages, NEW sent \in 0..2
  PROVE  LET w == [r EXCEPT !.stage = stage, !.sent = sent] IN
         /\ w \in Call /\ w.stage = stage /\ w.sent = sent
         /\ w.tool = r.tool /\ w.outcome = r.outcome /\ w.excused = r.excused
BY DEF Call

\* The invariant of the callers, initially.
LEMMA PoolInitInv == Init => PoolInv
BY DEF Init, PoolInv, Progress, CallsComeLater, RetryIsHealthy, Call, Stages, Holding, Attempting

\* A step that changes no call, no table and no session but to open one.
LEMMA WorldKeepsInv ==
  ASSUME PoolInv, UNCHANGED call,
         startup = "ready" => UNCHANGED <<startup, sessions, route>>,
         live \subseteq live',
         \A s : health[s] = "up" => health'[s] = "up"
  PROVE  PoolInv'
BY DEF PoolInv, Progress, CallsComeLater, RetryIsHealthy, Healthy, Server, Session, Holding, Attempting

\* A fault excuses whoever holds the session it hits.
LEMMA FaultKeepsInv ==
  ASSUME PoolInv, NEW s, call' = Excused(s), UNCHANGED pool,
         live \ {s} \subseteq live',
         \A x : x # s /\ health[x] = "up" => health'[x] = "up"
  PROVE  PoolInv'
<1> USE DEF PoolInv, pool
<1>1. call' \in [Calls -> Call]
  <2>1. \A c \in Calls : [call[c] EXCEPT !.excused = TRUE] \in Call
    BY DEF Call
  <2> HIDE DEF Call
  <2> QED
    BY <2>1 DEF Excused
<1>2. \A c \in Calls :
        /\ call'[c].stage = call[c].stage /\ call'[c].tool = call[c].tool
        /\ call'[c].sent = call[c].sent /\ call'[c].outcome = call[c].outcome
        /\ call[c].excused => call'[c].excused
        /\ call[c].stage \in Holding /\ Server(c) = s => call'[c].excused
  BY DEF Excused, Call, Server, Session
<1>3. \A c \in Calls : Progress(call'[c])
  BY <1>1, <1>2 DEF Progress
<1>4. CallsComeLater'
  BY <1>2 DEF CallsComeLater
<1>5. RetryIsHealthy'
  BY <1>2 DEF RetryIsHealthy, Healthy, Server, Session, Holding, Attempting
<1> QED
  BY <1>1, <1>3, <1>4, <1>5

\* A step of one call, which ends in a record that is in order.
LEMMA CallKeepsInv ==
  ASSUME PoolInv, NEW c \in Calls, NEW r \in Call,
         call' = [call EXCEPT ![c] = r],
         Progress(r),
         r.stage \in Holding \cup {"waiting"} => startup = "ready",
         r.stage = "retry" /\ ~r.excused => Healthy(c)' ,
         UNCHANGED <<health, pool>>, live \subseteq live'
  PROVE  PoolInv'
<1> USE DEF PoolInv, pool
<1>1. call' \in [Calls -> Call] /\ call'[c] = r /\ \A d \in Calls : d # c => call'[d] = call[d]
  OBVIOUS
<1>2. CallsComeLater'
  BY <1>1 DEF CallsComeLater
<1>3. RetryIsHealthy'
  BY <1>1 DEF RetryIsHealthy, Healthy, Server, Session
<1> QED
  BY <1>1, <1>2, <1>3

\* What Outcome makes of a call.
LEMMA OutcomeKeepsInv ==
  ASSUME PoolInv, NEW c \in Calls, NEW outcome \in {"ok", "failed"}, NEW excuse \in BOOLEAN,
         call[c].stage \in Holding,
         outcome = "failed" => call[c].excused \/ excuse,
         Outcome(c, outcome, excuse)
  PROVE  PoolInv'
<1> DEFINE r == [call[c] EXCEPT !.stage = "publishing", !.tool = None, !.outcome = outcome,
                                !.excused = call[c].excused \/ excuse]
<1>1. r \in Call /\ r.stage = "publishing" /\ r.outcome = outcome
      /\ r.excused = (call[c].excused \/ excuse)
  BY DEF PoolInv, Call, Stages
<1>2. call' = [call EXCEPT ![c] = r]
  BY DEF Outcome
<1>3. Progress(r)
  BY <1>1 DEF Progress, Holding, Attempting
<1>4. UNCHANGED <<health, pool, live>>
  BY DEF Outcome, world
<1> HIDE DEF r
<1> QED
  BY <1>1, <1>2, <1>3, <1>4, CallKeepsInv DEF Holding, Attempting

-----------------------------------------------------------------------------
(* Every step                                                              *)

\* connect, and the servers.
LEMMA WorldStepKeepsInv ==
  ASSUME PoolInv,
         \/ StartupStep
         \/ \E s \in Servers :
              \/ BreakSession(s) \/ ServerRecovers(s)
              \/ \E how \in {"down", "hung"} : ServerFails(s, how)
  PROVE  PoolInv'
<1>1. CASE OpenSession
  BY <1>1, WorldKeepsInv DEF OpenSession
<1>2. CASE AllTried
  BY <1>2, WorldKeepsInv DEF AllTried, world
<1>3. CASE ListTools
  BY <1>3, WorldKeepsInv DEF ListTools, world
<1>4. CASE BuildRoutingTable
  BY <1>4, WorldKeepsInv DEF BuildRoutingTable, world
<1>5. ASSUME NEW s \in Servers, BreakSession(s)
      PROVE  PoolInv'
  BY <1>5, FaultKeepsInv DEF BreakSession
<1>6. ASSUME NEW s \in Servers, ServerRecovers(s)
      PROVE  PoolInv'
  <2>1. \A x : health[x] = "up" => health'[x] = "up"
    BY <1>6 DEF ServerRecovers
  <2> QED
    BY <1>6, <2>1, WorldKeepsInv DEF ServerRecovers, pool
<1>7. ASSUME NEW s \in Servers, NEW how \in {"down", "hung"}, ServerFails(s, how)
      PROVE  PoolInv'
  <2>1. \A x : x # s /\ health[x] = "up" => health'[x] = "up"
    BY <1>7 DEF ServerFails
  <2> QED
    BY <1>7, <2>1, FaultKeepsInv DEF ServerFails
<1> QED
  BY <1>1, <1>2, <1>3, <1>4, <1>5, <1>6, <1>7 DEF StartupStep

\* An attempt that fails goes on to the reopen, or has an excuse.
LEMMA AttemptFailsKeepsInv ==
  ASSUME PoolInv, NEW c \in Calls, NEW excuse \in BOOLEAN, AttemptFails(c, excuse),
         Healthy(c) => excuse \/ call[c].stage = "first"
  PROVE  PoolInv'
<1> DEFINE r == [call[c] EXCEPT !.stage = "reopening", !.excused = call[c].excused \/ excuse]
<1>1. CASE call[c].stage = "first" /\ call' = [call EXCEPT ![c] = r] /\ UNCHANGED <<world, pool, queue>>
  <2>1. r \in Call /\ r.stage = "reopening" /\ r.sent = call[c].sent /\ r.outcome = call[c].outcome
    BY DEF PoolInv, Call, Stages, Holding
  <2>2. Progress(r) /\ startup = "ready"
    BY <1>1, <2>1 DEF PoolInv, CallsComeLater, Progress, Holding, Attempting
  <2> HIDE DEF r
  <2> QED
    BY <1>1, <2>1, <2>2, CallKeepsInv DEF world
<1>2. CASE call[c].stage = "retry" /\ Outcome(c, "failed", excuse)
  <2>1. call[c].excused \/ excuse
    BY <1>2 DEF PoolInv, RetryIsHealthy
  <2> QED
    BY <1>2, <2>1, OutcomeKeepsInv DEF Holding, Attempting
<1> QED
  BY <1>1, <1>2 DEF AttemptFails

\* A caller comes, leaves, or is refused.
LEMMA CallerKeepsInv ==
  ASSUME PoolInv, NEW c \in Calls,
         Refused(c) \/ (\E t \in Tools : Invoke(c, t)) \/ Acquire(c) \/ PublishToolCalled(c) \/ Drop(c)
  PROVE  PoolInv'
<1> USE DEF PoolInv, Call, Stages, Holding, Attempting, Progress, world
<1>1. CASE Refused(c)
  <2> DEFINE r == [call[c] EXCEPT !.stage = "returned", !.outcome = "refused"]
  <2>1. r \in Call /\ Progress(r) /\ r.stage = "returned"
    BY <1>1 DEF Refused
  <2>2. call' = [call EXCEPT ![c] = r] /\ UNCHANGED <<health, live, pool>>
    BY <1>1 DEF Refused
  <2> HIDE DEF r, PoolInv, Call, Progress
  <2> QED
    BY <1>1, <2>1, <2>2, CallKeepsInv DEF Refused
<1>2. ASSUME NEW t \in Tools, Invoke(c, t)
      PROVE  PoolInv'
  <2> DEFINE r == [call[c] EXCEPT !.stage = "waiting", !.tool = t]
  <2>1. r \in Call /\ Progress(r) /\ r.stage = "waiting"
    BY <1>2 DEF Invoke
  <2>2. call' = [call EXCEPT ![c] = r] /\ UNCHANGED <<health, live, pool>>
    BY <1>2 DEF Invoke
  <2> HIDE DEF r, PoolInv, Call, Progress
  <2> QED
    BY <1>2, <2>1, <2>2, CallKeepsInv DEF Invoke
<1>3. CASE Acquire(c)
  <2> DEFINE r == [call[c] EXCEPT !.stage = "first", !.sent = 1]
  <2>1. r \in Call /\ Progress(r) /\ r.stage = "first" /\ startup = "ready"
    <3>1. call[c] \in Call /\ call[c].outcome = "none" /\ startup = "ready"
      BY <1>3 DEF Acquire, CallsComeLater
    <3>2. 1 \in 0..2 /\ "first" \in Stages
      OBVIOUS
    <3>3. /\ r \in Call /\ r.stage = "first" /\ r.sent = 1 /\ r.outcome = "none"
          /\ r.excused = call[c].excused
      BY <3>1, <3>2, WrittenCall
    <3> HIDE DEF r
    <3> QED
      BY <3>1, <3>3
  <2>2. call' = [call EXCEPT ![c] = r] /\ UNCHANGED <<health, live, pool>>
    BY <1>3 DEF Acquire
  <2> HIDE DEF r, PoolInv, Call, Progress
  <2> QED
    BY <2>1, <2>2, CallKeepsInv
<1>4. CASE PublishToolCalled(c)
  <2> DEFINE r == [call[c] EXCEPT !.stage = "returned"]
  <2>1. r \in Call /\ Progress(r) /\ r.stage = "returned"
    BY <1>4 DEF PublishToolCalled
  <2>2. call' = [call EXCEPT ![c] = r] /\ UNCHANGED <<health, live, pool>>
    BY <1>4 DEF PublishToolCalled
  <2> HIDE DEF r, PoolInv, Call, Progress
  <2> QED
    BY <1>4, <2>1, <2>2, CallKeepsInv DEF PublishToolCalled
<1>5. CASE Drop(c)
  <2> DEFINE r == [call[c] EXCEPT !.stage = "dropped", !.tool = None]
  <2>1. r \in Call /\ Progress(r) /\ r.stage = "dropped"
    OBVIOUS
  <2>2. call' = [call EXCEPT ![c] = r]
    BY <1>5 DEF Drop
  <2>3. UNCHANGED <<health, pool, live>>
    BY <1>5 DEF Drop
  <2> HIDE DEF r, PoolInv, Call, Progress
  <2> QED
    BY <2>1, <2>2, <2>3, CallKeepsInv
<1> QED
  BY <1>1, <1>2, <1>3, <1>4, <1>5

\* What a call does while it holds the session.
LEMMA HolderKeepsInv ==
  ASSUME PoolInv, NEW c \in Calls,
         \/ Answered(c) \/ ToolErrs(c) \/ TransportError(c) \/ Misread(c) \/ TimedOut(c)
         \/ Reopened(c) \/ ReopenFails(c)
  PROVE  PoolInv'
<1>1. CASE Answered(c)
  BY <1>1, OutcomeKeepsInv DEF Answered, Holding
<1>2. CASE ToolErrs(c)
  BY <1>2, OutcomeKeepsInv DEF ToolErrs, Holding
<1>3. CASE TransportError(c)
  BY <1>3, AttemptFailsKeepsInv DEF TransportError, Healthy
<1>4. CASE Misread(c)
  BY <1>4, OutcomeKeepsInv DEF Misread, Holding, Attempting
<1>5. CASE TimedOut(c)
  <2>1. SlowServer(c) \in BOOLEAN /\ (Healthy(c) => SlowServer(c))
    BY DEF SlowServer, Healthy
  <2> QED
    BY <1>5, <2>1, AttemptFailsKeepsInv DEF TimedOut
<1>6. CASE Reopened(c)
  <2> DEFINE r == [call[c] EXCEPT !.stage = "retry", !.sent = call[c].sent + 1]
  <2>1. call[c].sent = 1 /\ call[c].outcome = "none" /\ startup = "ready"
    BY <1>6 DEF Reopened, PoolInv, Progress, CallsComeLater, Holding
  <2>2. r \in Call /\ r.stage = "retry" /\ r.sent = 2 /\ r.outcome = "none"
    <3>1. call[c] \in Call /\ call[c].sent + 1 = 2
      BY <2>1 DEF PoolInv
    <3>2. 2 \in 0..2 /\ "retry" \in Stages
      BY DEF Stages, Holding, Attempting
    <3> DEFINE w == [call[c] EXCEPT !.stage = "retry", !.sent = 2]
    <3>3. w \in Call /\ w.stage = "retry" /\ w.sent = 2 /\ w.outcome = "none"
      BY <2>1, <3>1, <3>2, WrittenCall DEF Call
    <3>4. r = w
      BY <3>1
    <3> QED
      BY <3>3, <3>4
  <2>3. Progress(r)
    BY <2>2 DEF Progress, Holding
  <2>4. call' = [call EXCEPT ![c] = r] /\ r.tool = call[c].tool
    BY <1>6 DEF Reopened, PoolInv, Call
  <2>5. Healthy(c)'
    BY <1>6, <2>2, <2>4 DEF Reopened, Healthy, Server, Session, pool, PoolInv
  <2> HIDE DEF r
  <2> QED
    BY <1>6, <2>1, <2>2, <2>3, <2>4, <2>5, CallKeepsInv DEF Reopened
<1>7. CASE ReopenFails(c)
  BY <1>7, OutcomeKeepsInv DEF ReopenFails, Holding
<1> QED
  BY <1>1, <1>2, <1>3, <1>4, <1>5, <1>6, <1>7

\* The invariant of the callers.
LEMMA PoolInvariance == Spec => []PoolInv
<1>1. PoolInv /\ [Next]_vars => PoolInv'
  <2> SUFFICES ASSUME PoolInv, [Next]_vars
               PROVE  PoolInv'
    OBVIOUS
  <2>1. CASE UNCHANGED vars
    BY <2>1, WorldKeepsInv DEF vars, world, pool
  <2> QED
    BY <2>1, WorldStepKeepsInv, CallerKeepsInv, HolderKeepsInv DEF Next, CallStep
<1> QED
  BY <1>1, PoolInitInv, PTL DEF Spec

\* A call fails for a reason of its own, never because an earlier one, or a restart
\* of the server, left a dead session behind.
THEOREM StaleSessionsAreHidden == Spec => []NoCallFailsOnStaleSession
<1>1. PoolInv => NoCallFailsOnStaleSession
  BY DEF PoolInv, Progress, NoCallFailsOnStaleSession
<1> QED
  BY <1>1, PoolInvariance, PTL

-----------------------------------------------------------------------------
(* The refinement                                                          *)

ResultOf(r) == IF r.stage = "returned" THEN r.outcome ELSE "none"

\* The three variables of ToolCall, as the pool has them.
PhaseOf == [c \in Calls |-> Phase(c)]
SentBy == [c \in Calls |-> call[c].sent]
ResultsOf == [c \in Calls |-> IF call[c].stage = "returned" THEN call[c].outcome ELSE "none"]

\* Its stages and phases.
LEMMA PhaseValues ==
  ASSUME NEW c \in Calls
  PROVE  /\ call[c].stage \in {"idle", "waiting"} => Phase(c) = "new"
         /\ call[c].stage \in {"first", "reopening", "retry", "publishing"} => Phase(c) = "written"
         /\ call[c].stage = "returned" => Phase(c) = "over"
         /\ call[c].stage = "dropped" => Phase(c) = "gone"
BY DEF Phase, Holding, Attempting

\* A step that keeps phase, requests and result of every call is a stutter.
LEMMA SamePhasesStutter ==
  ASSUME \A c \in Calls :
           /\ Phase(c)' = Phase(c) /\ call'[c].sent = call[c].sent
           /\ ResultOf(call'[c]) = ResultOf(call[c])
  PROVE  UNCHANGED <<PhaseOf, SentBy, ResultsOf>>
BY DEF PhaseOf, SentBy, ResultsOf, ResultOf

\* A step of one call leaves the others where they are.
LEMMA OneCallMoves ==
  ASSUME PoolInv, NEW c \in Calls, NEW r, call' = [call EXCEPT ![c] = r]
  PROVE  /\ call'[c] = r
         /\ PhaseOf' = [PhaseOf EXCEPT ![c] = Phase(c)']
         /\ SentBy' = [SentBy EXCEPT ![c] = r.sent]
         /\ ResultsOf' = [ResultsOf EXCEPT ![c] = ResultOf(r)]
<1>1. call'[c] = r /\ \A d \in Calls : d # c => call'[d] = call[d]
  BY DEF PoolInv
<1>2. \A d \in Calls : d # c => Phase(d)' = Phase(d)
  BY <1>1 DEF Phase
<1>3. PhaseOf' = [PhaseOf EXCEPT ![c] = Phase(c)']
  BY <1>2 DEF PhaseOf
<1>4. SentBy' = [SentBy EXCEPT ![c] = r.sent]
  <2>1. SentBy' = [d \in Calls |-> call'[d].sent] /\ SentBy = [d \in Calls |-> call[d].sent]
    BY DEF SentBy
  <2>2. \A d \in Calls : call'[d].sent = IF d = c THEN r.sent ELSE call[d].sent
    BY <1>1
  <2> QED
    BY <2>1, <2>2
<1>5. ResultsOf' = [ResultsOf EXCEPT ![c] = ResultOf(r)]
  <2>1. /\ ResultsOf' = [d \in Calls |-> ResultOf(call'[d])]
        /\ ResultsOf = [d \in Calls |-> ResultOf(call[d])]
    BY DEF ResultsOf, ResultOf
  <2>2. \A d \in Calls : ResultOf(call'[d]) = IF d = c THEN ResultOf(r) ELSE ResultOf(call[d])
    BY <1>1
  <2> QED
    BY <2>1, <2>2
<1> QED
  BY <1>1, <1>3, <1>4, <1>5

\* Nobody has called yet.
LEMMA PoolInitRefines == Init => Interface!Init
<1> SUFFICES ASSUME Init
             PROVE  Interface!Init
  OBVIOUS
<1>1. \A c \in Calls : call[c].stage = "idle" /\ call[c].sent = 0
  BY DEF Init
<1> QED
  BY <1>1, PhaseValues DEF Interface!Init

\* What the pool keeps to itself: faults, recoveries, the startup.
LEMMA WorldStepStutters ==
  ASSUME PoolInv,
         \/ StartupStep
         \/ \E s \in Servers :
              \/ BreakSession(s) \/ ServerRecovers(s)
              \/ \E how \in {"down", "hung"} : ServerFails(s, how)
  PROVE  UNCHANGED <<PhaseOf, SentBy, ResultsOf>>
<1>1. UNCHANGED call \/ \E s \in Servers : call' = Excused(s)
  BY DEF StartupStep, OpenSession, AllTried, ListTools, BuildRoutingTable, BreakSession,
         ServerRecovers, ServerFails
<1>2. CASE UNCHANGED call
  BY <1>2, SamePhasesStutter DEF Phase
<1>3. ASSUME NEW s \in Servers, call' = Excused(s)
      PROVE  UNCHANGED <<PhaseOf, SentBy, ResultsOf>>
  <2>1. \A c \in Calls :
          /\ call'[c].stage = call[c].stage
          /\ call'[c].sent = call[c].sent /\ call'[c].outcome = call[c].outcome
    BY <1>3 DEF Excused, PoolInv, Call
  <2> QED
    BY <2>1, SamePhasesStutter DEF Phase, ResultOf
<1> QED
  BY <1>1, <1>2, <1>3

\* The outcome is known, and not returned yet.
LEMMA OutcomeStutters ==
  ASSUME PoolInv, NEW c \in Calls, NEW outcome, NEW excuse,
         call[c].stage \in Holding, Outcome(c, outcome, excuse)
  PROVE  UNCHANGED <<PhaseOf, SentBy, ResultsOf>>
<1> DEFINE r == [call[c] EXCEPT !.stage = "publishing", !.tool = None, !.outcome = outcome,
                                !.excused = call[c].excused \/ excuse]
<1>1. call' = [call EXCEPT ![c] = r] /\ r.stage = "publishing" /\ r.sent = call[c].sent
  BY DEF Outcome, PoolInv, Call
<1> HIDE DEF r
<1>2. call'[c] = r /\ \A d \in Calls : d # c => call'[d] = call[d]
  BY <1>1 DEF PoolInv
<1>3. Phase(c)' = "written" /\ Phase(c) = "written"
  BY <1>1, <1>2 DEF Phase, Holding, Attempting
<1>4. \A d \in Calls : d # c => Phase(d)' = Phase(d)
  BY <1>2 DEF Phase
<1> QED
  BY <1>1, <1>2, <1>3, <1>4, SamePhasesStutter DEF ResultOf, Holding, Attempting

\* An attempt that fails is no news to the caller.
LEMMA AttemptFailsStutters ==
  ASSUME PoolInv, NEW c \in Calls, NEW excuse, AttemptFails(c, excuse)
  PROVE  UNCHANGED <<PhaseOf, SentBy, ResultsOf>>
<1> DEFINE r == [call[c] EXCEPT !.stage = "reopening", !.excused = call[c].excused \/ excuse]
<1>1. CASE call[c].stage = "first" /\ call' = [call EXCEPT ![c] = r]
  <2>1. r.stage = "reopening" /\ r.sent = call[c].sent
    BY DEF PoolInv, Call
  <2> HIDE DEF r
  <2>2. call'[c] = r /\ \A d \in Calls : d # c => call'[d] = call[d]
    BY <1>1 DEF PoolInv
  <2>3. Phase(c)' = "written" /\ Phase(c) = "written"
    BY <1>1, <2>1, <2>2 DEF Phase, Holding, Attempting
  <2>4. \A d \in Calls : d # c => Phase(d)' = Phase(d)
    BY <2>2 DEF Phase
  <2> QED
    BY <1>1, <2>1, <2>2, <2>3, <2>4, SamePhasesStutter DEF ResultOf
<1>2. CASE call[c].stage = "retry" /\ Outcome(c, "failed", excuse)
  BY <1>2, OutcomeStutters DEF Holding, Attempting
<1> QED
  BY <1>1, <1>2 DEF AttemptFails

\* What a caller sees of a step of its call.
LEMMA OneCallIsSeen ==
  ASSUME PoolInv, NEW c \in Calls, NEW r, call' = [call EXCEPT ![c] = r]
  PROVE  /\ PhaseOf[c] = Phase(c) /\ SentBy[c] = call[c].sent /\ ResultsOf[c] = ResultOf(call[c])
         /\ r.sent = call[c].sent => SentBy' = SentBy
         /\ ResultOf(r) = ResultOf(call[c]) => ResultsOf' = ResultsOf
<1>1. PhaseOf[c] = Phase(c) /\ SentBy[c] = call[c].sent /\ ResultsOf[c] = ResultOf(call[c])
  BY DEF PhaseOf, SentBy, ResultsOf, ResultOf
<1>2. SentBy \in [Calls -> {call[d].sent : d \in Calls}] /\ DOMAIN ResultsOf = Calls
      /\ ResultsOf = [d \in Calls |-> ResultsOf[d]]
  BY DEF SentBy, ResultsOf
<1>3. SentBy' = [SentBy EXCEPT ![c] = r.sent] /\ ResultsOf' = [ResultsOf EXCEPT ![c] = ResultOf(r)]
  BY OneCallMoves
<1> QED
  BY <1>1, <1>2, <1>3

\* A refusal,
LEMMA RefusalRefines ==
  ASSUME PoolInv, NEW c \in Calls, Refused(c)
  PROVE  Interface!Refuse(c)
<1> DEFINE r == [call[c] EXCEPT !.stage = "returned", !.outcome = "refused"]
<1>1. /\ call' = [call EXCEPT ![c] = r] /\ r.stage = "returned"
      /\ r.outcome = "refused" /\ r.sent = call[c].sent
  BY DEF Refused, PoolInv, Call
<1> HIDE DEF r
<1>2. call'[c] = r
  BY <1>1 DEF PoolInv
<1>3. Phase(c) = "new" /\ Phase(c)' = "over" /\ ResultOf(r) = "refused"
  BY <1>1, <1>2, PhaseValues DEF Refused, Phase, ResultOf, Holding, Attempting
<1>4. /\ PhaseOf[c] = "new" /\ PhaseOf' = [PhaseOf EXCEPT ![c] = "over"]
      /\ SentBy' = SentBy /\ ResultsOf' = [ResultsOf EXCEPT ![c] = "refused"]
  <2>1. /\ PhaseOf' = [PhaseOf EXCEPT ![c] = Phase(c)']
        /\ SentBy' = [SentBy EXCEPT ![c] = r.sent]
        /\ ResultsOf' = [ResultsOf EXCEPT ![c] = ResultOf(r)]
    BY <1>1, OneCallMoves
  <2>2. /\ PhaseOf[c] = Phase(c) /\ SentBy[c] = call[c].sent
        /\ r.sent = call[c].sent => SentBy' = SentBy
        /\ ResultOf(r) = ResultOf(call[c]) => ResultsOf' = ResultsOf
    BY <1>1, OneCallIsSeen
  <2> QED
    BY <1>1, <1>3, <2>1, <2>2
<1> QED
  BY <1>4 DEF Interface!Refuse, PhaseOf, SentBy, ResultsOf

\* a request that is written, the first or the second,
LEMMA RequestRefines ==
  ASSUME PoolInv, NEW c \in Calls, Acquire(c) \/ Reopened(c)
  PROVE  Interface!Write(c)
<1>1. PICK sent \in 1..2, stage \in {"first", "retry"} :
        /\ call' = [call EXCEPT ![c] = [call[c] EXCEPT !.stage = stage, !.sent = sent]]
        /\ sent = call[c].sent + 1
        /\ call[c].stage \in {"waiting", "reopening"}
  <2>1. CASE Acquire(c)
    <3>1. call[c].sent = 0 /\ call[c].stage = "waiting"
      BY <2>1 DEF Acquire, PoolInv, Progress
    <3>2. call' = [call EXCEPT ![c] = [call[c] EXCEPT !.stage = "first", !.sent = 1]]
      BY <2>1 DEF Acquire
    <3> QED
      BY <3>1, <3>2
  <2>2. CASE Reopened(c)
    <3>1. call[c].sent = 1 /\ call[c].stage = "reopening"
      BY <2>2 DEF Reopened, PoolInv, Progress
    <3>2. call' = [call EXCEPT ![c] = [call[c] EXCEPT !.stage = "retry", !.sent = 2]]
      BY <2>2, <3>1 DEF Reopened
    <3> QED
      BY <3>1, <3>2
  <2> QED
    BY <2>1, <2>2
<1> DEFINE r == [call[c] EXCEPT !.stage = stage, !.sent = sent]
<1>2. /\ call' = [call EXCEPT ![c] = r]
      /\ r.stage \in {"first", "retry"} /\ r.sent = sent
  <2>1. call[c] \in Call
    BY DEF PoolInv
  <2> QED
    BY <1>1, <2>1 DEF Call
<1> HIDE DEF r
<1>3. call'[c] = r
  BY <1>2 DEF PoolInv
<1>4. Phase(c) \in {"new", "written"} /\ Phase(c)' = "written" /\ ResultOf(r) = ResultOf(call[c])
  BY <1>1, <1>2, <1>3, PhaseValues DEF Phase, ResultOf, Holding, Attempting
<1>5. /\ PhaseOf[c] \in {"new", "written"} /\ PhaseOf' = [PhaseOf EXCEPT ![c] = "written"]
      /\ SentBy[c] < 2 /\ SentBy' = [SentBy EXCEPT ![c] = @ + 1] /\ ResultsOf' = ResultsOf
  <2>1. /\ PhaseOf' = [PhaseOf EXCEPT ![c] = Phase(c)']
        /\ SentBy' = [SentBy EXCEPT ![c] = r.sent]
        /\ ResultsOf' = [ResultsOf EXCEPT ![c] = ResultOf(r)]
    BY <1>2, OneCallMoves
  <2>2. /\ PhaseOf[c] = Phase(c) /\ SentBy[c] = call[c].sent
        /\ r.sent = call[c].sent => SentBy' = SentBy
        /\ ResultOf(r) = ResultOf(call[c]) => ResultsOf' = ResultsOf
    BY <1>2, OneCallIsSeen
  <2> QED
    BY <1>1, <1>2, <1>4, <2>1, <2>2 DEF PoolInv, Call
<1> QED
  BY <1>5 DEF Interface!Write, PhaseOf, SentBy, ResultsOf

\* the return,
LEMMA ReturnRefines ==
  ASSUME PoolInv, NEW c \in Calls, PublishToolCalled(c)
  PROVE  Interface!Finish(c)
<1> DEFINE r == [call[c] EXCEPT !.stage = "returned"]
<1>1. /\ call' = [call EXCEPT ![c] = r] /\ r.stage = "returned"
      /\ r.outcome \in {"ok", "failed"} /\ r.sent = call[c].sent
  BY DEF PublishToolCalled, PoolInv, Call, Progress
<1> HIDE DEF r
<1>2. call'[c] = r
  BY <1>1 DEF PoolInv
<1>3. Phase(c) = "written" /\ Phase(c)' = "over" /\ ResultOf(r) = r.outcome
  BY <1>1, <1>2, PhaseValues DEF PublishToolCalled, Phase, ResultOf, Holding, Attempting
<1>4. /\ PhaseOf[c] = "written" /\ PhaseOf' = [PhaseOf EXCEPT ![c] = "over"]
      /\ SentBy' = SentBy /\ ResultsOf' = [ResultsOf EXCEPT ![c] = r.outcome]
  <2>1. /\ PhaseOf' = [PhaseOf EXCEPT ![c] = Phase(c)']
        /\ SentBy' = [SentBy EXCEPT ![c] = r.sent]
        /\ ResultsOf' = [ResultsOf EXCEPT ![c] = ResultOf(r)]
    BY <1>1, OneCallMoves
  <2>2. /\ PhaseOf[c] = Phase(c) /\ SentBy[c] = call[c].sent
        /\ r.sent = call[c].sent => SentBy' = SentBy
        /\ ResultOf(r) = ResultOf(call[c]) => ResultsOf' = ResultsOf
    BY <1>1, OneCallIsSeen
  <2> QED
    BY <1>1, <1>3, <2>1, <2>2
<1> QED
  BY <1>1, <1>4 DEF Interface!Finish, PhaseOf, SentBy, ResultsOf

\* and an end from outside.
LEMMA DropRefines ==
  ASSUME PoolInv, NEW c \in Calls, Drop(c)
  PROVE  Interface!Abandon(c)
<1> DEFINE r == [call[c] EXCEPT !.stage = "dropped", !.tool = None]
<1>1. call' = [call EXCEPT ![c] = r] /\ r.stage = "dropped" /\ r.sent = call[c].sent
  BY DEF Drop, PoolInv, Call
<1> HIDE DEF r
<1>2. call'[c] = r
  BY <1>1 DEF PoolInv
<1>3. Phase(c) \in {"new", "written"} /\ Phase(c)' = "gone" /\ ResultOf(r) = ResultOf(call[c])
  BY <1>1, <1>2, PhaseValues DEF Drop, Phase, ResultOf, Holding, Attempting
<1>4. /\ PhaseOf[c] \in {"new", "written"} /\ PhaseOf' = [PhaseOf EXCEPT ![c] = "gone"]
      /\ SentBy' = SentBy /\ ResultsOf' = ResultsOf
  BY <1>1, <1>3, OneCallMoves, OneCallIsSeen
<1> QED
  BY <1>4 DEF Interface!Abandon, PhaseOf, SentBy, ResultsOf

\* A caller in the line is still a new one.
LEMMA InvokeStutters ==
  ASSUME PoolInv, NEW c \in Calls, NEW t \in Tools, Invoke(c, t)
  PROVE  UNCHANGED <<PhaseOf, SentBy, ResultsOf>>
<1> DEFINE r == [call[c] EXCEPT !.stage = "waiting", !.tool = t]
<1>1. call' = [call EXCEPT ![c] = r] /\ r.stage = "waiting" /\ r.sent = call[c].sent
  BY DEF Invoke, PoolInv, Call
<1> HIDE DEF r
<1>2. call'[c] = r /\ \A d \in Calls : d # c => call'[d] = call[d]
  BY <1>1 DEF PoolInv
<1>3. Phase(c)' = "new" /\ Phase(c) = "new"
  BY <1>1, <1>2 DEF Invoke, Phase, Holding, Attempting
<1>4. \A d \in Calls : d # c => Phase(d)' = Phase(d)
  BY <1>2 DEF Phase
<1> QED
  BY <1>1, <1>2, <1>3, <1>4, SamePhasesStutter DEF Invoke, ResultOf

\* Every step of the pool is a step of ToolCall or a stutter.
LEMMA PoolStepRefines ==
  ASSUME PoolInv, Next
  PROVE  Interface!Next \/ UNCHANGED <<PhaseOf, SentBy, ResultsOf>>
<1>1. CASE \/ StartupStep
           \/ \E s \in Servers :
                \/ BreakSession(s) \/ ServerRecovers(s)
                \/ \E how \in {"down", "hung"} : ServerFails(s, how)
  BY <1>1, WorldStepStutters
<1>2. ASSUME NEW c \in Calls, Refused(c) \/ Acquire(c) \/ Reopened(c) \/ PublishToolCalled(c) \/ Drop(c)
      PROVE  Interface!Next
  BY <1>2, RefusalRefines, RequestRefines, ReturnRefines, DropRefines DEF Interface!Next
<1>3. ASSUME NEW c \in Calls, NEW t \in Tools, Invoke(c, t)
      PROVE  UNCHANGED <<PhaseOf, SentBy, ResultsOf>>
  BY <1>3, InvokeStutters
<1>4. ASSUME NEW c \in Calls, Answered(c) \/ ToolErrs(c) \/ Misread(c) \/ ReopenFails(c)
      PROVE  UNCHANGED <<PhaseOf, SentBy, ResultsOf>>
  BY <1>4, OutcomeStutters DEF Answered, ToolErrs, Misread, ReopenFails, Holding, Attempting
<1>5. ASSUME NEW c \in Calls, TransportError(c) \/ TimedOut(c)
      PROVE  UNCHANGED <<PhaseOf, SentBy, ResultsOf>>
  BY <1>5, AttemptFailsStutters DEF TransportError, TimedOut
<1> QED
  BY <1>1, <1>2, <1>3, <1>4, <1>5 DEF Next, CallStep

\* To its callers the pool is ToolCall, for any number of servers and callers: one
\* reopen means one more request, and nothing is written after the return.
THEOREM PoolImplementsToolCall == Spec => ImplementsToolCall
<1>1. PoolInv /\ [Next]_vars => Interface!Next \/ UNCHANGED <<PhaseOf, SentBy, ResultsOf>>
  <2> SUFFICES ASSUME PoolInv, [Next]_vars
               PROVE  Interface!Next \/ UNCHANGED <<PhaseOf, SentBy, ResultsOf>>
    OBVIOUS
  <2>1. CASE UNCHANGED vars
    BY <2>1, SamePhasesStutter DEF vars, Phase
  <2> QED
    BY <2>1, PoolStepRefines
<1>2. PoolInv /\ [Next]_vars => [Interface!Next]_(Interface!callVars)
  BY <1>1 DEF Interface!callVars, PhaseOf, SentBy, ResultsOf
<1> QED
  BY <1>2, PoolInitRefines, PoolInvariance, PTL DEF Spec, ImplementsToolCall, Interface!Spec

-----------------------------------------------------------------------------
(* The routing table                                                       *)

\* connect goes through the endpoints, then through those that connected.
ConnectInv ==
  /\ provides \in [Servers -> SUBSET Tools]
  /\ startup \in Startup /\ next \in 1..(NumServers + 1)
  /\ connected \in Seq(Servers) /\ listed \in Seq(Servers)
  /\ Len(connected) <= NumServers
  /\ startup = "connecting" =>
       Len(connected) < next /\ keep_indices = {} /\ listed = <<>>
  /\ startup = "listing" => next <= Len(connected) + 1 /\ \A i \in keep_indices : i < next

\* The servers that listed are those at keep_indices, in the order of connected.
KeepInv ==
  /\ keep_indices \subseteq 1..Len(connected)
  /\ Cardinality(keep_indices) = Len(listed)
  /\ \A i \in keep_indices : Rank(i) \in 1..Len(listed) /\ listed[Rank(i)] = connected[i]
  /\ \A k \in 1..Len(listed) : \E i \in keep_indices : Rank(i) = k

\* Their sessions are the pool's, and the table is about them.
TableInv ==
  IF startup = "ready"
  THEN /\ sessions = listed /\ DOMAIN route \subseteq Tools
       /\ \A t \in DOMAIN route :
            route[t] \in 1..Len(listed) /\ t \in provides[listed[route[t]]]
  ELSE sessions = <<>> /\ DOMAIN route = {}

RouteInv == ConnectInv /\ KeepInv /\ TableInv

\* Initially no server has been tried.
LEMMA RouteInitInv == Init => RouteInv
<1> SUFFICES ASSUME Init PROVE RouteInv
  OBVIOUS
<1>1. Len(connected) = 0 /\ Len(listed) = 0 /\ keep_indices = {}
  BY DEF Init
<1>2. Cardinality(keep_indices) = 0
  BY <1>1, FS_EmptySet
<1>3. ConnectInv
  BY <1>1, PoolAssumption DEF Init, ConnectInv, Startup
<1>4. KeepInv
  BY <1>1, <1>2 DEF KeepInv
<1>5. TableInv
  BY DEF Init, TableInv
<1> QED
  BY <1>3, <1>4, <1>5 DEF RouteInv

\* Indices that are places in a list are finitely many, and so are those up to one.
LEMMA KeptAreFinite ==
  ASSUME NEW n \in Nat, NEW K \in SUBSET (1..n)
  PROVE  /\ IsFiniteSet(K) /\ Cardinality(K) \in Nat
         /\ \A i : IsFiniteSet({j \in K : j <= i}) /\ {j \in K : j <= i} \in SUBSET K
<1>1. IsFiniteSet(1..n)
  BY FS_Interval
<1>2. IsFiniteSet(K)
  BY <1>1, FS_Subset
<1>3. \A i : IsFiniteSet({j \in K : j <= i})
  <2> SUFFICES ASSUME NEW i PROVE IsFiniteSet({j \in K : j <= i})
    OBVIOUS
  <2>1. {j \in K : j <= i} \in SUBSET K
    OBVIOUS
  <2> QED
    BY <1>2, <2>1, FS_Subset
<1> QED
  BY <1>2, <1>3, FS_CardinalityType

\* A server that lists its tools is the last so far, on both sides.
LEMMA ListingKeepsOrder ==
  ASSUME RouteInv, startup = "listing", NEW n, n = next, n <= Len(connected),
         listed' = Append(listed, connected[n]), keep_indices' = keep_indices \cup {n},
         connected' = connected
  PROVE  KeepInv'
<1>1. /\ n \in 1..Len(connected) /\ Len(connected) \in Nat /\ Len(listed) \in Nat
      /\ keep_indices \in SUBSET (1..Len(connected)) /\ \A i \in keep_indices : i < n
      /\ connected[n] \in Servers /\ n \notin keep_indices
  BY LenProperties, PoolAssumption DEF RouteInv, ConnectInv, KeepInv
<1>2. IsFiniteSet(keep_indices) /\ Cardinality(keep_indices) = Len(listed)
  BY <1>1, KeptAreFinite DEF RouteInv, KeepInv
<1>3. Cardinality(keep_indices') = Len(listed) + 1
  BY <1>1, <1>2, FS_AddElement
<1>4. Rank(n)' = Len(listed) + 1
  <2>1. \A j \in keep_indices' : j <= n
    BY <1>1
  <2>2. {j \in keep_indices' : j <= n} = keep_indices'
    BY <2>1
  <2> QED
    BY <1>3, <2>2 DEF Rank
<1>5. \A i \in keep_indices : Rank(i)' = Rank(i)
  <2>1. ASSUME NEW i \in keep_indices
        PROVE  {j \in keep_indices' : j <= i} = {j \in keep_indices : j <= i}
    <3>1. i < n /\ i \in Nat /\ n \in Nat /\ ~(n <= i)
      BY <1>1, <2>1
    <3> QED
      BY <3>1
  <2> QED
    BY <2>1 DEF Rank
<1>6. /\ Len(listed') = Len(listed) + 1 /\ listed'[Len(listed) + 1] = connected[n]
      /\ \A k \in 1..Len(listed) : listed'[k] = listed[k]
  BY <1>1, AppendProperties DEF RouteInv, ConnectInv
<1>7. \A i \in keep_indices' : Rank(i)' \in 1..Len(listed') /\ listed'[Rank(i)'] = connected[i]
  <2> SUFFICES ASSUME NEW i \in keep_indices'
               PROVE  Rank(i)' \in 1..Len(listed') /\ listed'[Rank(i)'] = connected[i]
    OBVIOUS
  <2>1. CASE i = n
    BY <1>1, <1>4, <1>6, <2>1
  <2>2. CASE i \in keep_indices
    <3>1. Rank(i) \in 1..Len(listed) /\ listed[Rank(i)] = connected[i] /\ Rank(i)' = Rank(i)
      BY <1>5, <2>2 DEF RouteInv, KeepInv
    <3> QED
      BY <1>1, <1>6, <3>1
  <2> QED
    BY <2>1, <2>2
<1>8. ASSUME NEW k \in 1..Len(listed') PROVE \E i \in keep_indices' : Rank(i)' = k
  <2>1. CASE k = Len(listed) + 1
    BY <1>4, <2>1
  <2>2. CASE k \in 1..Len(listed)
    <3>1. PICK i \in keep_indices : Rank(i) = k
      BY <2>2 DEF RouteInv, KeepInv
    <3> QED
      BY <1>5, <3>1
  <2> QED
    BY <1>1, <1>6, <2>1, <2>2
<1>9. keep_indices' \subseteq 1..Len(connected')
  BY <1>1
<1> QED
  BY <1>3, <1>6, <1>7, <1>8, <1>9 DEF KeepInv

\* What the filter leaves are the servers that listed, in their order.
LEMMA KeptAreListed ==
  ASSUME RouteInv
  PROVE  Kept = listed
<1>1. listed \in Seq(Servers) /\ DOMAIN Kept = 1..Len(listed)
  BY DEF RouteInv, ConnectInv, KeepInv, Kept
<1>2. ASSUME NEW k \in 1..Len(listed) PROVE Kept[k] = listed[k]
  <2> DEFINE i == CHOOSE i \in keep_indices : Rank(i) = k
  <2>1. i \in keep_indices /\ Rank(i) = k
    BY DEF RouteInv, KeepInv
  <2>2. Kept[k] = connected[i]
    BY DEF RouteInv, KeepInv, Kept
  <2> HIDE DEF i
  <2> QED
    BY <2>1, <2>2 DEF RouteInv, KeepInv
<1>3. /\ listed = [k \in 1..Len(listed) |-> listed[k]]
      /\ Kept = [k \in 1..Len(listed) |-> Kept[k]]
  BY <1>1 DEF RouteInv, KeepInv, Kept
<1> QED
  BY <1>2, <1>3

\* The table that is built is about the sessions that are kept.
LEMMA TableIsBuilt ==
  ASSUME RouteInv, BuildRoutingTable
  PROVE  RouteInv'
<1>1. ConnectInv' /\ KeepInv'
  BY DEF RouteInv, ConnectInv, KeepInv, Rank, BuildRoutingTable, world, Startup
<1>2. CASE Kept = <<>> \/ Collision
  BY <1>1, <1>2 DEF RouteInv, TableInv, BuildRoutingTable
<1>3. CASE ~(Kept = <<>> \/ Collision)
  <2>1. /\ startup' = "ready" /\ sessions' = Kept /\ listed' = listed /\ provides' = provides
        /\ route' = [t \in UNION {provides[s] : s \in Range(listed)} |->
                        CHOOSE i \in 1..Len(listed) : t \in provides[listed[i]]]
    BY <1>3 DEF BuildRoutingTable, world
  <2>2. listed \in Seq(Servers) /\ provides \in [Servers -> SUBSET Tools]
    BY DEF RouteInv, ConnectInv
  <2>3. ASSUME NEW t \in DOMAIN route'
        PROVE  t \in Tools /\ route'[t] \in 1..Len(listed) /\ t \in provides[listed[route'[t]]]
    <3>1. PICK k \in 1..Len(listed) : t \in provides[listed[k]]
      BY <2>1, <2>2 DEF Range
    <3>2. t \in Tools
      BY <2>2, <3>1
    <3>3. route'[t] = CHOOSE i \in 1..Len(listed) : t \in provides[listed[i]]
      BY <2>1
    <3> QED
      BY <3>1, <3>2, <3>3
  <2> QED
    BY <1>1, <2>1, <2>3, KeptAreListed DEF RouteInv, TableInv
<1> QED
  BY <1>2, <1>3

\* Nothing but connect touches the table, or what it was built from.
LEMMA OthersKeepRoutes ==
  ASSUME RouteInv, UNCHANGED <<provides, pool>>
  PROVE  RouteInv'
BY DEF RouteInv, ConnectInv, KeepInv, TableInv, Rank, pool

\* Every step of connect leaves the lists in order.
LEMMA StartupKeepsRoutes ==
  ASSUME RouteInv, StartupStep
  PROVE  RouteInv'
<1>n. NumServers \in Nat \ {0}
  BY PoolAssumption
<1>1. CASE OpenSession
  <2>1. /\ UNCHANGED <<provides, startup, listed, keep_indices, sessions, route>>
        /\ next' = next + 1 /\ next \in 1..NumServers /\ startup = "connecting"
        /\ connected' \in {connected, Append(connected, next)}
        /\ keep_indices = {} /\ listed = <<>> /\ Len(connected) < next
    BY <1>n, <1>1 DEF OpenSession, RouteInv, ConnectInv
  <2>2. connected' \in Seq(Servers) /\ Len(connected') <= Len(connected) + 1 /\ Len(connected') \in Nat
    <3>1. connected \in Seq(Servers) /\ next \in Servers /\ Len(connected) \in Nat
      BY <2>1, LenProperties DEF RouteInv, ConnectInv, Servers
    <3>2. /\ Append(connected, next) \in Seq(Servers)
          /\ Len(Append(connected, next)) = Len(connected) + 1
      BY <3>1, AppendProperties
    <3> QED
      BY <2>1, <3>1, <3>2
  <2>3. ConnectInv'
    BY <1>n, <2>1, <2>2, LenProperties DEF RouteInv, ConnectInv
  <2>4. KeepInv' /\ TableInv'
    BY <2>1 DEF RouteInv, KeepInv, TableInv
  <2> QED
    BY <2>3, <2>4 DEF RouteInv
<1>2. CASE AllTried
  <2>1. /\ UNCHANGED <<provides, connected, listed, keep_indices, sessions, route>>
        /\ next' = 1 /\ startup = "connecting" /\ startup' \in {"bailed", "listing"}
        /\ keep_indices = {}
    BY <1>2 DEF AllTried, world, RouteInv, ConnectInv
  <2>2. ConnectInv'
    BY <1>n, <2>1, LenProperties DEF RouteInv, ConnectInv, Startup
  <2>3. KeepInv' /\ TableInv'
    BY <2>1 DEF RouteInv, KeepInv, TableInv, Rank
  <2> QED
    BY <2>2, <2>3 DEF RouteInv
<1>3. CASE ListTools
  <2>1. /\ UNCHANGED <<provides, startup, connected, sessions, route>>
        /\ next' = next + 1 /\ startup = "listing" /\ next <= Len(connected)
        /\ \/ UNCHANGED <<listed, keep_indices>>
           \/ /\ listed' = Append(listed, connected[next])
              /\ keep_indices' = keep_indices \cup {next}
    BY <1>3 DEF ListTools, world
  <2>2. next \in 1..Len(connected) /\ Len(connected) <= NumServers /\ Len(connected) \in Nat
    BY <1>n, <2>1, LenProperties DEF RouteInv, ConnectInv
  <2>3. listed' \in Seq(Servers)
    BY <2>1, <2>2, AppendProperties DEF RouteInv, ConnectInv
  <2>4. \A i \in keep_indices' : i < next'
    <3>1. \A i \in keep_indices : i < next /\ i \in Nat
      BY <2>1, <2>2 DEF RouteInv, ConnectInv, KeepInv
    <3>2. next < next + 1 /\ \A i \in keep_indices : i < next + 1
      BY <2>2, <3>1
    <3> QED
      BY <2>1, <3>2
  <2>5. ConnectInv'
    BY <1>n, <2>1, <2>2, <2>3, <2>4 DEF RouteInv, ConnectInv
  <2>6. KeepInv'
    <3>1. CASE UNCHANGED <<listed, keep_indices>>
      BY <2>1, <3>1 DEF RouteInv, KeepInv, Rank
    <3> QED
      BY <2>1, <3>1, ListingKeepsOrder
  <2>7. TableInv'
    BY <2>1 DEF RouteInv, TableInv
  <2> QED
    BY <2>5, <2>6, <2>7 DEF RouteInv
<1>4. CASE BuildRoutingTable
  BY <1>4, TableIsBuilt
<1> QED
  BY <1>1, <1>2, <1>3, <1>4 DEF StartupStep

\* The lists, the sessions and the table belong together, whichever servers were down
\* or failed tools/list.
THEOREM RouteInvariance == Spec => []RouteInv
<1>1. RouteInv /\ [Next]_vars => RouteInv'
  <2> SUFFICES ASSUME RouteInv, [Next]_vars
               PROVE  RouteInv'
    OBVIOUS
  <2>1. CASE StartupStep
    BY <2>1, StartupKeepsRoutes
  <2>2. CASE ~StartupStep
    <3>1. UNCHANGED <<provides, pool>>
      BY <2>2 DEF Next, vars, world, CallStep, BreakSession, ServerRecovers, ServerFails, Refused,
         Invoke, Acquire, Answered, ToolErrs, TransportError, Misread, TimedOut, AttemptFails, Outcome,
         Reopened, ReopenFails, PublishToolCalled, Drop
    <3> QED
      BY <3>1, OthersKeepRoutes
  <2> QED
    BY <2>1, <2>2
<1> QED
  BY <1>1, RouteInitInv, PTL DEF Spec

\* A tool's call goes to a server that listed the tool, for any number of servers and
\* whichever of them were dropped from the pool on the way.
THEOREM ToolsGoToTheirServers == Spec => []RoutedToProvider
<1>1. RouteInv => RoutedToProvider
  BY DEF RouteInv, TableInv, RoutedToProvider
<1> QED
  BY <1>1, RouteInvariance, PTL

-----------------------------------------------------------------------------
(* Types                                                                   *)

\* What is left of a line is a line.
LEMMA LineWithout ==
  ASSUME NEW S, NEW line \in Seq(S), NEW i \in DOMAIN line
  PROVE  RemoveAt(line, i) \in Seq(S)
<1>1. Len(line) \in Nat /\ i \in 1..Len(line)
  BY LenProperties
<1>2. SubSeq(line, 1, i - 1) \in Seq(S) /\ SubSeq(line, i + 1, Len(line)) \in Seq(S)
  BY <1>1, SubSeqProperties
<1> QED
  BY <1>2, ConcatProperties DEF RemoveAt

\* A caller that gives its place back leaves lines.
LEMMA LeavingKeepsLines ==
  ASSUME queue \in [Servers -> Seq(Calls)], NEW c, LeavesLine(c)
  PROVE  queue' \in [Servers -> Seq(Calls)]
<1> DEFINE at == Session(c)
<1>1. PICK i \in DOMAIN queue[at] : queue' = [queue EXCEPT ![at] = RemoveAt(queue[at], i)]
  BY DEF LeavesLine
<1> HIDE DEF at
<1>2. at \in Servers => RemoveAt(queue[at], i) \in Seq(Calls)
  BY LineWithout
<1> QED
  BY <1>1, <1>2

\* Whoever waits for a session or holds one asks for a tool that has one.
CallsAreRouted ==
  \A c \in Calls : call[c].stage \in Holding \cup {"waiting"} => call[c].tool \in DOMAIN route

\* A call that goes on asks for the same tool until it lets go of the session.
LEMMA CallStaysRouted ==
  ASSUME PoolInv, CallsAreRouted, UNCHANGED route, NEW c \in Calls, NEW r,
         call' = [call EXCEPT ![c] = r],
         r.stage \in Holding \cup {"waiting"} =>
           r.tool = call[c].tool /\ call[c].stage \in Holding \cup {"waiting"}
  PROVE  CallsAreRouted'
<1>1. call'[c] = r /\ \A d \in Calls : d # c => call'[d] = call[d]
  BY DEF PoolInv
<1> QED
  BY <1>1 DEF CallsAreRouted

\* No step leaves a caller with a tool that has no session.
LEMMA NextKeepsRouted ==
  ASSUME PoolInv, CallsAreRouted, [Next]_vars
  PROVE  CallsAreRouted'
<1> USE DEF world, pool
<1>c. \A c \in Calls : call[c] \in Call
  BY DEF PoolInv
<1>h. /\ {"first", "retry", "reopening"} \subseteq Holding
      /\ {"publishing", "returned", "dropped"} \cap (Holding \cup {"waiting"}) = {}
  BY DEF Holding, Attempting
<1>1. CASE StartupStep
  <2>1. UNCHANGED call /\ (startup = "ready" => UNCHANGED route)
    BY <1>1 DEF StartupStep, OpenSession, AllTried, ListTools, BuildRoutingTable
  <2> QED
    BY <2>1 DEF PoolInv, CallsComeLater, CallsAreRouted
<1>2. ASSUME NEW s \in Servers,
             \/ BreakSession(s) \/ ServerRecovers(s)
             \/ \E how \in {"down", "hung"} : ServerFails(s, how)
      PROVE  CallsAreRouted'
  <2>1. UNCHANGED route /\ (call' = call \/ call' = Excused(s))
    BY <1>2 DEF BreakSession, ServerRecovers, ServerFails
  <2>2. \A c \in Calls : call'[c].stage = call[c].stage /\ call'[c].tool = call[c].tool
    BY <1>c, <2>1 DEF Excused, Call
  <2> QED
    BY <2>1, <2>2 DEF CallsAreRouted
<1>3. ASSUME NEW c \in Calls, Refused(c) \/ PublishToolCalled(c) \/ Drop(c)
      PROVE  CallsAreRouted'
  <2>1. PICK r : call' = [call EXCEPT ![c] = r] /\ r.stage \in {"returned", "dropped"} /\ UNCHANGED route
    BY <1>c, <1>3 DEF Refused, PublishToolCalled, Drop, Call
  <2> QED
    BY <1>h, <2>1, CallStaysRouted
<1>4. ASSUME NEW c \in Calls, NEW t \in Tools, Invoke(c, t)
      PROVE  CallsAreRouted'
  <2>1. call'[c].tool = t /\ t \in DOMAIN route /\ UNCHANGED route
        /\ \A d \in Calls : d # c => call'[d] = call[d]
    BY <1>c, <1>4 DEF Invoke, Call, PoolInv
  <2> QED
    BY <2>1 DEF CallsAreRouted
<1>5. ASSUME NEW c \in Calls, Acquire(c)
      PROVE  CallsAreRouted'
  <2>1. PICK r : call' = [call EXCEPT ![c] = r] /\ r.tool = call[c].tool /\ UNCHANGED route
    BY <1>c, <1>5 DEF Acquire, Call
  <2> QED
    BY <1>5, <2>1, CallStaysRouted DEF Acquire
<1>6. ASSUME NEW c \in Calls, NEW outcome, NEW excuse, Outcome(c, outcome, excuse)
      PROVE  CallsAreRouted'
  <2> DEFINE r == [call[c] EXCEPT !.stage = "publishing", !.tool = None, !.outcome = outcome,
                                  !.excused = call[c].excused \/ excuse]
  <2>1. call' = [call EXCEPT ![c] = r] /\ UNCHANGED route
    BY <1>6 DEF Outcome
  <2>2. r.stage = "publishing"
    BY <1>c DEF Call
  <2> HIDE DEF r
  <2> QED
    BY <1>h, <2>1, <2>2, CallStaysRouted
<1>7. ASSUME NEW c \in Calls, NEW excuse, AttemptFails(c, excuse)
      PROVE  CallsAreRouted'
  <2>1. CASE call[c].stage = "retry" /\ Outcome(c, "failed", excuse)
    BY <1>6, <2>1
  <2>2. CASE ~(call[c].stage = "retry" /\ Outcome(c, "failed", excuse))
    <3>1. PICK r : call' = [call EXCEPT ![c] = r] /\ r.tool = call[c].tool /\ UNCHANGED route
                   /\ call[c].stage = "first"
      BY <1>c, <1>7, <2>2 DEF AttemptFails, Call
    <3> QED
      BY <1>h, <3>1, CallStaysRouted
  <2> QED
    BY <2>1, <2>2
<1>8. ASSUME NEW c \in Calls, Reopened(c)
      PROVE  CallsAreRouted'
  <2>1. PICK r : call' = [call EXCEPT ![c] = r] /\ r.tool = call[c].tool /\ UNCHANGED route
                 /\ call[c].stage = "reopening"
    BY <1>c, <1>8 DEF Reopened, Call
  <2> QED
    BY <1>h, <2>1, CallStaysRouted
<1>9. CASE UNCHANGED vars
  BY <1>9 DEF vars, CallsAreRouted
<1>10. ASSUME NEW c \in Calls, CallStep(c)
       PROVE  CallsAreRouted'
  BY <1>3, <1>5, <1>6, <1>7, <1>8, <1>10
     DEF CallStep, Answered, ToolErrs, TransportError, Misread, TimedOut, ReopenFails
<1> QED
  BY <1>1, <1>2, <1>3, <1>4, <1>9, <1>10 DEF Next

\* The session of such a caller is one of the pool's.
LEMMA ItsServer ==
  ASSUME RouteInv, PoolInv, CallsAreRouted, NEW c \in Calls,
         call[c].stage \in Holding \cup {"waiting"}
  PROVE  Server(c) \in Servers
<1>1. startup = "ready" /\ call[c].tool \in DOMAIN route
  BY DEF PoolInv, CallsComeLater, CallsAreRouted
<1>2. sessions \in Seq(Servers) /\ Session(c) \in 1..Len(sessions)
  BY <1>1 DEF RouteInv, ConnectInv, TableInv, Session
<1> QED
  BY <1>2 DEF Server

WorldTypes ==
  /\ health \in [Servers -> Health] /\ live \subseteq Servers
  /\ faults \in 0..MaxFaults
  /\ queue \in [Servers -> Seq(Calls)]

\* Faults and recoveries are of servers, and lines are of callers.
LEMMA NextKeepsWorld ==
  ASSUME RouteInv, PoolInv, CallsAreRouted, WorldTypes, [Next]_vars
  PROVE  WorldTypes'
<1> USE DEF WorldTypes
<1>m. MaxFaults \in Nat
  BY PoolAssumption
<1>1. CASE StartupStep
  <2>1. UNCHANGED <<health, faults, queue>> /\ live' \subseteq live \cup {next}
        /\ (live' # live => next <= NumServers)
    BY <1>1 DEF StartupStep, OpenSession, AllTried, ListTools, BuildRoutingTable, world
  <2>2. next <= NumServers => next \in Servers
    BY PoolAssumption DEF RouteInv, ConnectInv, Servers
  <2> QED
    BY <2>1, <2>2
<1>2. ASSUME NEW s \in Servers,
             \/ BreakSession(s) \/ ServerRecovers(s)
             \/ \E how \in {"down", "hung"} : ServerFails(s, how)
      PROVE  WorldTypes'
  <2>1. faults' \in {faults, faults + 1} /\ (faults' # faults => faults < MaxFaults)
        /\ UNCHANGED queue /\ live' \subseteq live
    BY <1>2 DEF BreakSession, ServerRecovers, ServerFails
  <2>2. health' = health \/ \E h \in Health : health' = [health EXCEPT ![s] = h]
    BY <1>2 DEF BreakSession, ServerRecovers, ServerFails, Health
  <2> QED
    BY <1>m, <2>1, <2>2
<1>3. ASSUME NEW c \in Calls, Refused(c) \/ Acquire(c) \/ PublishToolCalled(c)
      PROVE  WorldTypes'
  BY <1>3 DEF Refused, Acquire, PublishToolCalled, world
<1>4. ASSUME NEW c \in Calls, NEW t \in Tools, Invoke(c, t)
      PROVE  WorldTypes'
  <2>1. /\ queue' = [queue EXCEPT ![route[t]] = Append(queue[route[t]], c)]
        /\ UNCHANGED <<health, live, faults>>
    BY <1>4 DEF Invoke, world
  <2>2. route[t] \in Servers => Append(queue[route[t]], c) \in Seq(Calls)
    BY AppendProperties
  <2> QED
    BY <2>1, <2>2
<1>5. ASSUME NEW c \in Calls, NEW outcome, NEW excuse, Outcome(c, outcome, excuse)
      PROVE  WorldTypes'
  BY <1>5, LeavingKeepsLines DEF Outcome, world
<1>6. ASSUME NEW c \in Calls,
             \/ Answered(c) \/ ToolErrs(c) \/ TransportError(c) \/ Misread(c) \/ TimedOut(c)
             \/ ReopenFails(c)
      PROVE  WorldTypes'
  BY <1>5, <1>6 DEF Answered, ToolErrs, TransportError, Misread, TimedOut, AttemptFails, ReopenFails,
     world
<1>7. ASSUME NEW c \in Calls, Reopened(c)
      PROVE  WorldTypes'
  <2>1. Server(c) \in Servers
    BY <1>7, ItsServer DEF Reopened, Holding
  <2>2. health[Server(c)] = "up" /\ UNCHANGED <<health, faults, queue>> /\ live' = live \cup {Server(c)}
    BY <1>7 DEF Reopened
  <2> QED
    BY <2>1, <2>2
<1>8. ASSUME NEW c \in Calls, Drop(c)
      PROVE  WorldTypes'
  BY <1>8, LeavingKeepsLines DEF Drop, world
<1>9. CASE UNCHANGED vars
  BY <1>9 DEF vars, world
<1> QED
  BY <1>1, <1>2, <1>3, <1>4, <1>6, <1>7, <1>8, <1>9 DEF Next, CallStep

\* Type correctness of the pool; among it that no caller asks for a session, nor the
\* table for one, that is not there.
THEOREM PoolTypeCorrect == Spec => []TypeOK
<1>1. Init => CallsAreRouted /\ WorldTypes
  BY PoolAssumption DEF Init, CallsAreRouted, WorldTypes, Holding, Attempting, Health
<1>2. RouteInv /\ PoolInv /\ WorldTypes => TypeOK
  <2> SUFFICES ASSUME RouteInv, PoolInv, WorldTypes PROVE TypeOK
    OBVIOUS
  <2>1. /\ sessions \in Seq(Servers) /\ DOMAIN route \subseteq Tools
        /\ \A t \in DOMAIN route : route[t] \in 1..Len(sessions)
    <3>1. CASE startup = "ready"
      BY <3>1 DEF RouteInv, ConnectInv, TableInv
    <3>2. CASE startup # "ready"
      BY <3>2 DEF RouteInv, TableInv
    <3> QED
      BY <3>1, <3>2
  <2> QED
    BY <2>1 DEF RouteInv, ConnectInv, KeepInv, PoolInv, WorldTypes, TypeOK
<1> QED
  BY <1>1, <1>2, NextKeepsRouted, NextKeepsWorld, RouteInvariance, PoolInvariance, PTL DEF Spec
=============================================================================
