----------------------------- MODULE ServeProofs ----------------------------
(***************************************************************************)
(* Proofs about the tasks of the server, for any number of them: what the  *)
(* shutdown leaves behind, what the callers of the agent do with a run,    *)
(* and how often the daily summary fires.                                  *)
(***************************************************************************)
EXTENDS Lifecycle, AgentCallers, ScheduledTrigger, TLAPS

-----------------------------------------------------------------------------
(* The shutdown                                                            *)

\* Nothing is accepted after the signal, nothing is killed before the exit, and the
\* connections are drained before anything is joined.
DrainInv ==
  /\ shutdown <=> main # "serving"
  /\ \A s \in Streams : stream[s] = "killed" => main = "exited"
  /\ NoClientIsCutOff

LifecycleInv == TypeOK /\ DrainInv

\* The invariant of the shutdown, initially.
LEMMA LifecycleInitInv == Init => LifecycleInv
<1> SUFFICES ASSUME Init
             PROVE  LifecycleInv
  OBVIOUS
<1>1. waiting \in 1..(Len(Drained) + 1)
  BY LifecycleAssumption DEF Init
<1>2. TypeOK
  BY <1>1 DEF Init, TypeOK, Run, Stream, FixFlow, Loop
<1>3. DrainInv
  BY DEF Init, DrainInv, NoClientIsCutOff
<1> QED
  BY <1>2, <1>3 DEF LifecycleInv

\* A step of a fix-flow touches nothing else.
LEMMA FixFlowKeepsInv ==
  ASSUME LifecycleInv, NEW f \in FixFlows, NEW from, NEW to \in FixFlow, FixFlowStep(f, from, to)
  PROVE  LifecycleInv'
BY DEF LifecycleInv, TypeOK, DrainInv, NoClientIsCutOff, Responding, FixFlowStep

\* The invariant is kept while the server serves.
LEMMA ServingKeepsInv ==
  ASSUME LifecycleInv,
         \/ \E r \in Requests : Accept(r) \/ Respond(r)
         \/ \E s \in Streams :
              OpenStream(s) \/ StopReading(s) \/ ClientLeaves(s) \/ TurnOver(s) \/ EndStream(s)
         \/ \E f \in FixFlows :
              StartFixFlow(f) \/ AbortFixFlow(f) \/ FixFlowRan(f) \/ EndFixFlow(f)
  PROVE  LifecycleInv'
<1> USE DEF LifecycleInv, TypeOK, DrainInv, NoClientIsCutOff, Responding, Run, Stream
<1>1. ASSUME NEW r \in Requests, Accept(r)
      PROVE  LifecycleInv'
  BY <1>1 DEF Accept
<1>2. ASSUME NEW r \in Requests, Respond(r)
      PROVE  LifecycleInv'
  BY <1>2 DEF Respond
<1>3. ASSUME NEW s \in Streams, OpenStream(s)
      PROVE  LifecycleInv'
  BY <1>3 DEF OpenStream
<1>4. ASSUME NEW s \in Streams, StopReading(s) \/ ClientLeaves(s)
      PROVE  LifecycleInv'
  <2>1. CASE StopReading(s)
    BY <2>1 DEF StopReading, ClientStep
  <2>2. CASE ClientLeaves(s)
    BY <2>2 DEF ClientLeaves, ClientStep
  <2> QED
    BY <1>4, <2>1, <2>2
<1>5. ASSUME NEW s \in Streams, TurnOver(s) \/ EndStream(s)
      PROVE  LifecycleInv'
  BY <1>5 DEF TurnOver, EndStream, ForwarderStep
<1>6. ASSUME NEW f \in FixFlows, StartFixFlow(f)
      PROVE  LifecycleInv'
  BY <1>6, FixFlowKeepsInv DEF StartFixFlow, FixFlow
<1>7. ASSUME NEW f \in FixFlows, AbortFixFlow(f) \/ FixFlowRan(f) \/ EndFixFlow(f)
      PROVE  LifecycleInv'
  BY <1>7, FixFlowKeepsInv DEF AbortFixFlow, FixFlowRan, EndFixFlow, FixFlow
<1> QED
  BY <1>1, <1>2, <1>3, <1>4, <1>5, <1>6, <1>7

\* It is kept by the loops and by every step of the shutdown; the exit kills only
\* streams whose client has left.
LEMMA ShutdownKeepsInv ==
  ASSUME LifecycleInv, Trigger \/ (\E w \in Background : Task(w)) \/ CtrlC \/ ShutdownStep
  PROVE  LifecycleInv'
<1> USE DEF LifecycleInv, TypeOK, DrainInv, NoClientIsCutOff, Responding
<1>1. CASE Trigger
  <2>1. trigger' \in Loop \cup {"publishing"}
    BY <1>1 DEF Trigger, Loop
  <2> QED
    BY <1>1, <2>1 DEF Trigger
<1>2. ASSUME NEW w \in Background, Task(w)
      PROVE  LifecycleInv'
  BY <1>2 DEF Task
<1>3. CASE CtrlC
  BY <1>3 DEF CtrlC
<1>4. CASE Close
  BY <1>4 DEF Close, Connected
<1>5. CASE JoinTrigger
  BY <1>5 DEF JoinTrigger
<1>6. CASE Drain
  BY <1>6, LifecycleAssumption DEF Drain
<1>7. CASE Exit
  <2>1. /\ stream' \in [Streams -> Stream]
        /\ \A s \in Streams : stream'[s] \in {"running", "publishing", "killed"} =>
             stream[s] \in {"running", "publishing", "killed"}
    BY <1>7 DEF Exit, Run, Stream
  <2>2. fix_flow' \in [FixFlows -> FixFlow] /\ task' \in [Background -> Loop]
    BY <1>7 DEF Exit, Run, FixFlow, Loop
  <2> QED
    BY <1>7, <2>1, <2>2 DEF Exit
<1> QED
  BY <1>1, <1>2, <1>3, <1>4, <1>5, <1>6, <1>7 DEF ShutdownStep

\* The types of the server's tasks, and the order of the shutdown.
THEOREM LifecycleInvariance == Spec => []LifecycleInv
<1>1. LifecycleInv /\ [Next]_vars => LifecycleInv'
  <2> SUFFICES ASSUME LifecycleInv, [Next]_vars
               PROVE  LifecycleInv'
    OBVIOUS
  <2>1. CASE UNCHANGED vars
    BY <2>1 DEF LifecycleInv, TypeOK, DrainInv, NoClientIsCutOff, Responding, vars
  <2>2. CASE Next
    BY <2>2, ServingKeepsInv, ShutdownKeepsInv DEF Next
  <2> QED
    BY <2>1, <2>2
<1> QED
  BY <1>1, LifecycleInitInv, PTL DEF Spec

\* Type correctness of the server.
THEOREM ServerTypeCorrect == Spec => []TypeOK
<1>1. LifecycleInv => TypeOK
  BY DEF LifecycleInv
<1> QED
  BY <1>1, LifecycleInvariance, PTL

\* However many requests, streams and fix-flows there are when the signal comes, the
\* exit cuts off nobody who is still connected.
THEOREM NobodyIsCutOff == Spec => []NoClientIsCutOff
<1>1. LifecycleInv => NoClientIsCutOff
  BY DEF LifecycleInv, DrainInv
<1> QED
  BY <1>1, LifecycleInvariance, PTL

-----------------------------------------------------------------------------
(* The callers of the agent                                                *)

\* A run that is over with Ok has every proposal in its trace, and a run that asked
\* for tools has something there.
ParkedAreTraced ==
  /\ mode = "read_only" => parked = {}
  /\ phase \in {"llm", "dispatching", "returned_ok"} => parked \subseteq trace
  /\ phase = "tools" => parked \subseteq trace \cup {round} \X back
  /\ phase \in {"dispatching", "tools"} => Len(calls) \in Nat \ {0}
  /\ phase \in {"llm", "returned_ok"} /\ used_tools => trace # {}

\* Before the run is over there is nothing else, and after it all rests on its Ok,
\* except in a fix-flow, which has one thing left to do.
AfterTheRun ==
  /\ caller \in {"scheduled", "diagnosis"} => mode = "read_only"
  /\ end = "none" /\ todo # <<"run">> => phase = "returned_ok" \/ caller = "fix_flow"
  /\ end = "none" /\ caller = "fix_flow" =>
       IF verdict = "none" THEN todo = <<"run">> ELSE todo \in {<<"publish">>, <<>>}
  /\ verdict # "none" => caller = "fix_flow"
  /\ verdict = "no_action" => phase = "returned_ok" /\ parked = {}
  /\ verdict = "proposed" =>
       phase = "returned_ok" /\ parked # {} /\ named \subseteq First(parked)
  /\ verdict = "none" /\ end # "ok" => named = {}
  /\ end = "ok" /\ caller = "fix_flow" => verdict # "none"
  /\ end = "ok" /\ caller = "chat" => named = parked

CallersInv == ParkedAreTraced /\ AfterTheRun /\ OnlyGoodAnswersAreKept

\* The invariant of the callers, initially.
LEMMA CallersInitInv == AgentInit => CallersInv
BY DEF AgentInit, RunInit, CallersInv, ParkedAreTraced, AfterTheRun, OnlyGoodAnswersAreKept,
       Callers

\* What the model asks for is a sequence of one call or more.
LEMMA AskedIsNotEmpty ==
  ASSUME NEW n \in 1..MaxCalls, NEW asked \in [1..n -> Kinds]
  PROVE  Len(asked) \in Nat \ {0}
BY AgentAssumption

\* A run keeps its own part of the invariant.
LEMMA RunKeepsInv ==
  ASSUME ParkedAreTraced, RunStep
  PROVE  ParkedAreTraced'
<1> USE DEF ParkedAreTraced
<1>1. CASE ModelAnswers \/ ModelFails
  BY <1>1 DEF ModelAnswers, ModelFails
<1>2. ASSUME NEW n \in 1..MaxCalls, NEW asked \in [1..n -> Kinds], ModelAsks(asked)
      PROVE  ParkedAreTraced'
  BY <1>2, AskedIsNotEmpty DEF ModelAsks
<1>3. CASE Dispatch
  BY <1>3 DEF Dispatch
<1>4. ASSUME NEW i, DispatchFails(i)
      PROVE  ParkedAreTraced'
  BY <1>4 DEF DispatchFails
<1>5. ASSUME NEW i, ToolReturns(i)
      PROVE  ParkedAreTraced'
  BY <1>5 DEF ToolReturns
<1>6. CASE RoundOver
  <2>1. trace' # {}
    <3>1. <<round, 1>> \in trace'
      BY <1>6 DEF RoundOver
    <3> QED
      BY <3>1
  <2> QED
    BY <1>6, <2>1 DEF RoundOver
<1> QED
  BY <1>1, <1>2, <1>3, <1>4, <1>5, <1>6 DEF RunStep

\* While it runs, its caller has done nothing yet.
LEMMA AgentStepKeepsInv ==
  ASSUME CallersInv, AgentStep
  PROVE  CallersInv'
<1>1. phase \in Running /\ mode' = mode
  BY DEF AgentStep, RunStep, ModelAnswers, ModelFails, ModelAsks, Dispatch, DispatchFails,
         ToolReturns, RoundOver, Running
<1>2. ParkedAreTraced'
  BY RunKeepsInv DEF CallersInv, AgentStep
<1>3. AfterTheRun' /\ OnlyGoodAnswersAreKept'
  BY <1>1 DEF CallersInv, AfterTheRun, OnlyGoodAnswersAreKept, AgentStep, At, effects, Running
<1> QED
  BY <1>2, <1>3 DEF CallersInv

\* What a caller does after the run keeps the invariant.
LEMMA CallerStepKeepsInv ==
  ASSUME CallersInv, CallerStep
  PROVE  CallersInv'
<1> USE DEF CallersInv, ParkedAreTraced, AfterTheRun, OnlyGoodAnswersAreKept, At, run_vars, effects
<1>0. ASSUME phase = "returned_ok"
      PROVE  Pending = parked
  BY <1>0 DEF Pending
<1>1. CASE RunReturns
  <2>1. Pending = parked /\ end = "none"
    BY <1>0, <1>1 DEF RunReturns
  <2>2. verdict = "none" /\ named = {}
    BY <1>1 DEF RunReturns
  <2>3. /\ verdict' # "none" <=> caller = "fix_flow"
        /\ verdict' = "proposed" => parked # {}
        /\ verdict' = "no_action" => parked = {}
    BY <1>1, <2>1 DEF RunReturns
  <2>4. caller = "fix_flow" => todo' = <<"publish">>
    BY <1>1 DEF RunReturns, Afterwards
  <2> QED
    BY <1>1, <2>1, <2>2, <2>3, <2>4 DEF RunReturns
<1>2. CASE RunErrs
  BY <1>2 DEF RunErrs
<1>3. CASE Suggest
  BY <1>3 DEF Suggest, GoOn
<1>4. CASE Publish
  <2>1. verdict = "proposed" => Pending = parked
    BY <1>0
  <2>2. todo # <<"run">> /\ end = "none"
    BY <1>4 DEF Publish
  <2>3. caller = "fix_flow" => verdict # "none" /\ todo' = <<>>
    <3>1. ASSUME caller = "fix_flow"
          PROVE  verdict # "none" /\ todo = <<"publish">>
      BY <1>4, <2>2, <3>1 DEF Publish
    <3>2. Tail(<<"publish">>) = <<>>
      OBVIOUS
    <3> QED
      BY <1>4, <3>1, <3>2 DEF Publish, GoOn
  <2> QED
    BY <1>4, <2>1, <2>2, <2>3 DEF Publish, GoOn
<1>5. CASE Remember
  BY <1>5 DEF Remember, GoOn
<1>6. CASE Store
  <2>1. todo # <<"run">> /\ end = "none" /\ caller # "fix_flow"
    BY <1>6 DEF Store
  <2>2. phase = "returned_ok"
    BY <2>1
  <2>3. trace = {} => ~used_tools /\ parked = {}
    BY <2>2
  <2>4. cached' => trace = {}
    BY <1>6 DEF Store
  <2> QED
    BY <1>6, <2>1, <2>2, <2>3, <2>4 DEF Store, GoOn
<1>7. CASE Fallible("teams") \/ Fallible("compose")
  BY <1>7 DEF Fallible, GoOn
<1>8. CASE Finish
  BY <1>8 DEF Finish, Pending
<1> QED
  BY <1>1, <1>2, <1>3, <1>4, <1>5, <1>6, <1>7, <1>8 DEF CallerStep

\* So does what cuts it off.
LEMMA CutKeepsInv ==
  ASSUME CallersInv, RunTimesOut \/ Dropped \/ Aborted \/ Killed
  PROVE  CallersInv'
<1> USE DEF CallersInv, ParkedAreTraced, AfterTheRun, OnlyGoodAnswersAreKept, At, run_vars, effects
<1>1. CASE RunTimesOut
  BY <1>1 DEF RunTimesOut, Running
<1>2. ASSUME NEW how \in {"dropped", "aborted", "killed"}, Cut(how)
      PROVE  CallersInv'
  BY <1>2 DEF Cut
<1> QED
  BY <1>1, <1>2 DEF Dropped, Aborted, Killed

\* The invariant of a run and its caller.
LEMMA CallersInvariance == AgentSpec => []CallersInv
<1>1. CallersInv /\ [AgentNext]_agent_vars => CallersInv'
  <2> SUFFICES ASSUME CallersInv, [AgentNext]_agent_vars
               PROVE  CallersInv'
    OBVIOUS
  <2>1. CASE UNCHANGED agent_vars
    BY <2>1 DEF CallersInv, ParkedAreTraced, AfterTheRun, OnlyGoodAnswersAreKept,
                agent_vars, run_vars, effects
  <2> QED
    BY <2>1, AgentStepKeepsInv, CallerStepKeepsInv, CutKeepsInv DEF AgentNext
<1> QED
  BY <1>1, CallersInitInv, PTL DEF AgentSpec

\* In runs of any length, with any number of calls a round, no caller keeps a
\* proposal to itself.
THEOREM EveryProposalIsTold == AgentSpec => []ProposalsAreTold
<1>1. CallersInv => ProposalsAreTold
  BY DEF CallersInv, ParkedAreTraced, AfterTheRun, ProposalsAreTold
<1> QED
  BY <1>1, CallersInvariance, PTL

\* Nor does one remember or cache what it must not.
THEOREM OnlyGoodAnswersStay == AgentSpec => []OnlyGoodAnswersAreKept
<1>1. CallersInv => OnlyGoodAnswersAreKept
  BY DEF CallersInv
<1> QED
  BY <1>1, CallersInvariance, PTL

\* The types of a run.
LEMMA RunKeepsTypes ==
  ASSUME RunTypeOK, RunStep
  PROVE  RunTypeOK'
<1> USE AgentAssumption DEF RunTypeOK, Running, Calls, Kinds
<1>1. CASE ModelAnswers \/ ModelFails
  BY <1>1 DEF ModelAnswers, ModelFails
<1>2. ASSUME NEW n \in 1..MaxCalls, NEW asked \in [1..n -> Kinds], ModelAsks(asked)
      PROVE  RunTypeOK'
  BY <1>2 DEF ModelAsks
<1>3. CASE Dispatch
  BY <1>3 DEF Dispatch, Writes
<1>4. ASSUME NEW i \in 1..Len(calls), DispatchFails(i)
      PROVE  RunTypeOK'
  BY <1>4 DEF DispatchFails, Writes
<1>5. ASSUME NEW i \in 1..Len(calls), ToolReturns(i)
      PROVE  RunTypeOK'
  BY <1>5 DEF ToolReturns
<1>6. CASE RoundOver
  BY <1>6 DEF RoundOver
<1> QED
  BY <1>1, <1>2, <1>3, <1>4, <1>5, <1>6 DEF RunStep

\* Type correctness of a run and its caller.
THEOREM CallersTypeCorrect == AgentSpec => []AgentTypeOK
<1>1. AgentInit => AgentTypeOK
  <2> SUFFICES ASSUME AgentInit PROVE AgentTypeOK
    OBVIOUS
  <2>1. RunTypeOK
    <3>1. mode \in {"read_only", "actionable"}
      BY DEF AgentInit, Callers
    <3>2. <<>> \in Seq(Kinds) /\ Len(<<>>) <= MaxCalls
      BY AgentAssumption
    <3>3. phase = "llm" /\ round = 1 /\ calls = <<>> /\ back = {} /\ trace = {} /\ parked = {}
          /\ used_tools = FALSE
      BY DEF AgentInit, RunInit
    <3>4. 1 \in 1..MaxRounds
      BY AgentAssumption
    <3> QED
      BY <3>1, <3>2, <3>3, <3>4 DEF RunTypeOK, Running
  <2>2. <<"run">> \in Seq(Steps) /\ Len(<<"run">>) <= 4
    BY DEF Steps
  <2> QED
    BY <2>1, <2>2 DEF AgentInit, AgentTypeOK, Verdicts, Ends
<1>2. AgentTypeOK /\ [AgentNext]_agent_vars => AgentTypeOK'
  <2> SUFFICES ASSUME AgentTypeOK, [AgentNext]_agent_vars
               PROVE  AgentTypeOK'
    OBVIOUS
  <2> USE DEF AgentTypeOK, run_vars, effects, At, Callers, Steps, Verdicts, Ends
  <2>1. CASE AgentStep
    BY <2>1, RunKeepsTypes DEF AgentStep
  <2>2. CASE RunReturns
    <3>1. /\ <<"suggest", "publish", "remember", "store">> \in Seq(Steps)
          /\ Len(<<"suggest", "publish", "remember", "store">>) = 4
      OBVIOUS
    <3>2. <<"publish">> \in Seq(Steps) /\ Len(<<"publish">>) = 1
      OBVIOUS
    <3>3. /\ <<"remember", "teams", "publish">> \in Seq(Steps)
          /\ Len(<<"remember", "teams", "publish">>) = 3
      OBVIOUS
    <3>4. <<"compose", "remember">> \in Seq(Steps) /\ Len(<<"compose", "remember">>) = 2
      OBVIOUS
    <3>5. Afterwards \in Seq(Steps) /\ Len(Afterwards) <= 4
      <4>1. caller \in Callers
        OBVIOUS
      <4> HIDE DEF AgentTypeOK, Steps
      <4>2. CASE caller = "chat"
        BY <3>1, <4>2 DEF Afterwards
      <4>3. CASE caller = "fix_flow"
        BY <3>2, <4>3 DEF Afterwards
      <4>4. CASE caller = "scheduled"
        BY <3>3, <4>4 DEF Afterwards
      <4>5. CASE caller = "diagnosis"
        BY <3>4, <4>5 DEF Afterwards
      <4> QED
        BY <4>1, <4>2, <4>3, <4>4, <4>5
    <3> QED
      BY <2>2, <3>5 DEF RunReturns, RunTypeOK
  <2>3. CASE RunErrs \/ RunTimesOut
    <3>1. <<"publish">> \in Seq(Steps) /\ Len(<<"publish">>) <= 4
      OBVIOUS
    <3>2. <<>> \in Seq(Steps) /\ Len(<<>>) <= 4
      OBVIOUS
    <3>3. todo' \in Seq(Steps) /\ Len(todo') <= 4
      BY <2>3, <3>1, <3>2 DEF RunErrs, RunTimesOut
    <3> QED
      BY <2>3, <3>3 DEF RunErrs, RunTimesOut, RunTypeOK
  <2>4. ASSUME GoOn, todo # <<>>
        PROVE  todo' \in Seq(Steps) /\ Len(todo') <= 4
    BY <2>4 DEF GoOn
  <2>5. CASE Suggest \/ Publish \/ Remember \/ Store
    <3>1. Pending \subseteq Calls /\ First(Pending) \subseteq Calls
      BY DEF Pending, First, RunTypeOK
    <3>2. CASE Suggest
      BY <2>4, <3>1, <3>2 DEF Suggest, GoOn, RunTypeOK
    <3>3. CASE Publish
      BY <2>4, <3>1, <3>3 DEF Publish, GoOn, RunTypeOK
    <3>4. CASE Remember \/ Store
      BY <2>4, <3>1, <3>4 DEF Remember, Store, GoOn, RunTypeOK
    <3> QED
      BY <2>5, <3>2, <3>3, <3>4
  <2>6. CASE Fallible("teams") \/ Fallible("compose")
    <3>1. <<>> \in Seq(Steps) /\ Len(<<>>) <= 4
      OBVIOUS
    <3>2. todo' \in Seq(Steps) /\ Len(todo') <= 4
      BY <2>4, <2>6, <3>1 DEF Fallible
    <3> QED
      BY <2>6, <3>2 DEF Fallible, GoOn, RunTypeOK
  <2>7. CASE Finish
    BY <2>7 DEF Finish, Pending, RunTypeOK
  <2>8. CASE Dropped \/ Aborted \/ Killed \/ UNCHANGED agent_vars
    <3>1. CASE Dropped \/ Aborted
      BY <3>1 DEF Dropped, Aborted, Cut, RunTypeOK
    <3>2. CASE Killed
      BY <3>2 DEF Killed, Cut, RunTypeOK
    <3>3. CASE UNCHANGED agent_vars
      BY <3>3 DEF agent_vars, RunTypeOK
    <3> QED
      BY <2>8, <3>1, <3>2, <3>3
  <2> QED
    BY <2>1, <2>2, <2>3, <2>5, <2>6, <2>7, <2>8 DEF AgentNext, CallerStep
<1> QED
  BY <1>1, <1>2, PTL DEF AgentSpec

-----------------------------------------------------------------------------
(* The daily summary                                                       *)

\* Type correctness of the trigger.
THEOREM TriggerTypeCorrect == TriggerSpec => []TriggerTypeOK
<1>t. /\ DAY \in Nat \ {0} /\ MINUTE \in Nat \ {0} /\ POLL \in Nat \ {0}
      /\ MaxRun \in Nat /\ MaxGap \in Nat /\ MaxStarts \in Nat /\ LastMinute \in Nat
  BY TriggerAssumption
<1> USE <1>t DEF TriggerTypeOK, Minutes, NoMinute
<1>1. TriggerInit => TriggerTypeOK
  <2> SUFFICES ASSUME TriggerInit
               PROVE  TriggerTypeOK
    OBVIOUS
  <2>1. minute \in Minutes /\ second \in 0..(MINUTE - 1) /\ up_since \in Minutes
    BY DEF TriggerInit
  <2>2. due \in Int /\ due <= POLL /\ remaining \in 0..(MaxGap + MaxRun) /\ starts \in 0..MaxStarts
    BY DEF TriggerInit
  <2>3. fired \in [Minutes -> Nat]
    BY DEF TriggerInit
  <2> QED
    BY <2>1, <2>2, <2>3 DEF TriggerInit
<1>2. TriggerTypeOK /\ [TriggerNext]_trigger_vars => TriggerTypeOK'
  <2> SUFFICES ASSUME TriggerTypeOK, [TriggerNext]_trigger_vars
               PROVE  TriggerTypeOK'
    OBVIOUS
  <2>t. TimeOfDay \in 0..(DAY - 1)
    BY DEF TimeOfDay
  <2>1. CASE Pass
    <3>1. /\ minute' \in Minutes /\ second' \in 0..(MINUTE - 1) /\ ended' \in BOOLEAN
      <4>1. CASE second < MINUTE - 1
        BY <2>1, <4>1 DEF Pass
      <4>2. CASE ~(second < MINUTE - 1)
        <5>1. second' = 0 /\ minute < LastMinute /\ minute' = minute + 1 /\ ended' = FALSE
          BY <2>1, <4>2 DEF Pass
        <5>2. minute' \in Minutes /\ second' \in 0..(MINUTE - 1)
          BY <5>1
        <5> QED
          BY <5>1, <5>2
      <4> QED
        BY <4>1, <4>2
    <3>2. due' \in Int /\ due' <= POLL /\ remaining' \in 0..(MaxGap + MaxRun)
      BY <2>1 DEF Pass
    <3> QED
      BY <2>1, <3>1, <3>2 DEF Pass
  <2>2. CASE Start \/ Stop
    <3>1. due' \in Int /\ due' <= POLL /\ remaining' \in 0..(MaxGap + MaxRun)
          /\ starts' \in 0..MaxStarts
      <4>1. CASE Start
        BY <4>1 DEF Start
      <4>2. CASE Stop
        BY <4>2 DEF Stop
      <4> QED
        BY <2>2, <4>1, <4>2
    <3>2. latch' \in 0..(DAY - 1) \cup {NoMinute} /\ up_since' \in Minutes
      BY <2>2, <2>t DEF Start, Stop
    <3>3. /\ UNCHANGED <<minute, second, ended, fired>>
          /\ loop' \in {"down", "idle"} /\ seen' = NoMinute
      BY <2>2 DEF Start, Stop
    <3> QED
      BY <3>1, <3>2, <3>3
  <2>3. CASE Tick
    <3>1. due' \in Int /\ due' <= POLL
      BY <2>3 DEF Tick, NextTick
    <3>2. remaining' \in 0..(MaxGap + MaxRun)
      BY <2>3 DEF Tick
    <3> QED
      BY <2>3, <3>1, <3>2 DEF Tick
  <2>4. CASE Decide
    <3>1. seen \in Minutes /\ Key \in 0..(DAY - 1)
      BY <2>4 DEF Decide, Key
    <3>2. fired' \in [Minutes -> Nat] /\ latch' \in 0..(DAY - 1) \cup {NoMinute}
      <4>1. CASE Fires
        <5>1. latch' = Key /\ fired' = [fired EXCEPT ![seen] = @ + 1]
          BY <2>4, <4>1 DEF Decide
        <5> QED
          BY <3>1, <5>1
      <4>2. CASE ~Fires
        <5>1. latch' = latch /\ fired' = fired
          BY <2>4, <4>2 DEF Decide
        <5> QED
          BY <5>1
      <4> QED
        BY <4>1, <4>2
    <3>3. remaining' \in 0..(MaxGap + MaxRun) /\ loop' \in {"idle", "busy"}
      BY <2>4 DEF Decide
    <3> QED
      BY <2>4, <3>2, <3>3 DEF Decide
  <2>5. CASE RunEnds \/ UNCHANGED trigger_vars
    BY <2>5 DEF RunEnds, trigger_vars
  <2> QED
    BY <2>1, <2>2, <2>3, <2>4, <2>5 DEF TriggerNext
<1> QED
  BY <1>1, <1>2, PTL DEF TriggerSpec

\* The second reading of the clock is of the minute of the first, or of the next one, and
\* then of its first units.
LookInv ==
  loop = "looking" =>
    /\ remaining <= MaxGap
    /\ seen = minute \/ (seen = minute - 1 /\ second + remaining < MaxGap)

\* The latest minute that can have a summary.
Latest == IF loop = "looking" THEN seen ELSE minute

\* The latch holds it once it has one, also across a restart.
LatchInv ==
  /\ OncePerTrigger
  /\ \A m \in Minutes : m > Latest => fired[m] = 0
  /\ fired[Latest] > 0 => latch = Latest % DAY

SummaryInv == TriggerTypeOK /\ LookInv /\ LatchInv

\* The look, the latch and the counters, initially.
LEMMA TriggerInitInv == TriggerInit => LookInv /\ LatchInv
BY TriggerAssumption DEF TriggerInit, LookInv, LatchInv, Latest, OncePerTrigger, Minutes

\* What the types say of the clock, the ticker and the look.
LEMMA TriggerTypes ==
  ASSUME TriggerTypeOK
  PROVE  /\ DAY \in Nat \ {0} /\ MINUTE \in Nat \ {0} /\ POLL \in Nat \ {0} /\ LastMinute \in Nat
         /\ {MaxRun, MaxGap, MaxLate} \subseteq Nat
         /\ POLL + MaxLate + MaxGap <= MINUTE /\ MaxGap <= POLL
         /\ minute \in Minutes /\ up_since \in Minutes /\ Minutes = 0..LastMinute
         /\ second \in 0..(MINUTE - 1) /\ due \in Int /\ due <= POLL /\ remaining \in Nat
         /\ fired \in [Minutes -> Nat]
         /\ loop \in {"down", "idle", "looking", "busy"}
         /\ loop = "looking" => seen \in Minutes
<1>1. /\ DAY \in Nat \ {0} /\ MINUTE \in Nat \ {0} /\ POLL \in Nat \ {0} /\ LastMinute \in Nat
      /\ {MaxRun, MaxGap, MaxLate} \subseteq Nat
      /\ POLL + MaxLate + MaxGap <= MINUTE /\ MaxGap <= POLL
  BY TriggerAssumption
<1>2. remaining \in Nat
  <2>1. MaxGap + MaxRun \in Int
    BY <1>1
  <2> QED
    BY <2>1 DEF TriggerTypeOK
<1>3. /\ minute \in Minutes /\ up_since \in Minutes /\ Minutes = 0..LastMinute
      /\ second \in 0..(MINUTE - 1) /\ due \in Int /\ due <= POLL
      /\ fired \in [Minutes -> Nat] /\ loop \in {"down", "idle", "looking", "busy"}
  BY DEF TriggerTypeOK, Minutes
<1>4. loop = "looking" => seen \in Minutes
  BY DEF TriggerTypeOK
<1> QED
  BY <1>1, <1>2, <1>3, <1>4

\* A look takes the time it may.
LEMMA LookTakesItsTime ==
  ASSUME TriggerTypeOK, LookInv, [TriggerNext]_trigger_vars
  PROVE  LookInv'
<1>1. CASE Pass
  <2> SUFFICES ASSUME loop = "looking"
               PROVE  LookInv'
    BY <1>1 DEF Pass, LookInv
  <2>1. /\ remaining > 0 /\ remaining' = remaining - 1
        /\ seen' = seen
    <3>1. loop \in {"looking", "busy"}
      OBVIOUS
    <3> QED
      BY <1>1, <3>1 DEF Pass
  <2>t. /\ second \in Int /\ MINUTE \in Int /\ remaining \in Int /\ MaxGap \in Int /\ second < MINUTE
        /\ MaxGap <= MINUTE /\ seen \in Int /\ minute \in Int
    <3>1. MaxGap <= POLL /\ POLL <= MINUTE /\ POLL \in Int /\ MINUTE \in Int /\ MaxGap \in Int
      BY TriggerAssumption
    <3> QED
      BY <3>1, TriggerTypes
  <2>l. /\ remaining <= MaxGap
        /\ seen = minute \/ (seen = minute - 1 /\ second + remaining < MaxGap)
    BY DEF LookInv
  <2>2. CASE second < MINUTE - 1
    <3>1. second' = second + 1 /\ minute' = minute
      BY <1>1, <2>2 DEF Pass
    <3>2. remaining' <= MaxGap /\ second' + remaining' = second + remaining
      BY <2>1, <2>t, <2>l, <3>1
    <3> QED
      BY <2>1, <2>t, <2>l, <3>1, <3>2 DEF LookInv
  <2>3. CASE ~(second < MINUTE - 1)
    <3>1. second' = 0 /\ minute' = minute + 1 /\ second = MINUTE - 1
      BY <1>1, <2>3, <2>t DEF Pass
    <3>2. seen = minute
      BY <2>1, <2>t, <2>l, <3>1
    <3>3. remaining' <= MaxGap /\ second' + remaining' < MaxGap /\ seen = minute' - 1
      BY <2>1, <2>t, <2>l, <3>1, <3>2
    <3> QED
      BY <2>1, <3>3 DEF LookInv
  <2> QED
    BY <2>2, <2>3
<1>2. CASE Tick
  <2>1. remaining' \in 0..MaxGap /\ MaxGap \in Nat /\ seen' = minute /\ minute' = minute
    BY <1>2, TriggerAssumption DEF Tick
  <2> QED
    BY <2>1 DEF LookInv
<1>3. CASE Start \/ Stop \/ Decide \/ RunEnds
  BY <1>3 DEF Start, Stop, Decide, RunEnds, LookInv
<1>4. CASE UNCHANGED trigger_vars
  BY <1>4 DEF trigger_vars, LookInv
<1> QED
  BY <1>1, <1>2, <1>3, <1>4 DEF TriggerNext

\* A look that fires does it for a minute that has no summary yet.
LEMMA DecideKeepsLatch ==
  ASSUME SummaryInv, Decide
  PROVE  LatchInv'
<1>1. /\ seen \in Minutes /\ minute \in Minutes /\ Minutes = 0..LastMinute /\ LastMinute \in Nat
      /\ fired \in [Minutes -> Nat] /\ Latest = seen /\ minute' = minute /\ Latest' = minute
      /\ seen = minute \/ seen = minute - 1
  BY TriggerTypes DEF SummaryInv, LookInv, Latest, Decide
<1>2. CASE Fires
  <2>1. /\ fired' = [fired EXCEPT ![seen] = @ + 1] /\ latch' = seen % DAY
        /\ minute % DAY \in Triggers
    BY <1>2 DEF Decide, Fires, Key, TimeOfDay
  <2>2. fired[seen] = 0
    BY <1>1, <1>2 DEF SummaryInv, LatchInv, Fires, Key
  <2>3. seen % DAY \in Triggers \/ (seen + 1) % DAY \in Triggers
    <3>1. seen = minute \/ seen + 1 = minute
      BY <1>1
    <3> QED
      BY <2>1, <3>1
  <2>4. OncePerTrigger'
    <3> SUFFICES ASSUME NEW m \in Minutes
                 PROVE  /\ fired'[m] <= 1
                        /\ fired'[m] > 0 => m % DAY \in Triggers \/ (m + 1) % DAY \in Triggers
      BY DEF OncePerTrigger
    <3>1. CASE m = seen
      BY <1>1, <2>1, <2>2, <2>3, <3>1
    <3>2. CASE m # seen
      <4>1. fired'[m] = fired[m]
        BY <1>1, <2>1, <3>2
      <4> QED
        BY <4>1 DEF SummaryInv, LatchInv, OncePerTrigger
    <3> QED
      BY <3>1, <3>2
  <2>5. \A m \in Minutes : m > minute => fired'[m] = 0
    BY <1>1, <2>1 DEF SummaryInv, LatchInv
  <2>6. fired'[minute] > 0 => latch' = minute % DAY
    <3>1. seen # minute => fired'[minute] = 0
      BY <1>1, <2>1 DEF SummaryInv, LatchInv
    <3> QED
      BY <2>1, <3>1
  <2> QED
    BY <1>1, <2>4, <2>5, <2>6 DEF LatchInv
<1>3. CASE ~Fires
  <2>1. fired' = fired /\ latch' = latch
    BY <1>3 DEF Decide
  <2>2. seen # minute => fired[minute] = 0
    BY <1>1 DEF SummaryInv, LatchInv
  <2>3. \A m \in Minutes : m > minute => fired[m] = 0
    BY <1>1 DEF SummaryInv, LatchInv
  <2>4. fired[minute] > 0 => latch = minute % DAY
    BY <1>1, <2>2 DEF SummaryInv, LatchInv
  <2> QED
    BY <1>1, <2>1, <2>3, <2>4 DEF SummaryInv, LatchInv, OncePerTrigger
<1> QED
  BY <1>2, <1>3

\* The latch covers the latest minute, whoever moves.
LEMMA TriggerKeepsLatch ==
  ASSUME SummaryInv, [TriggerNext]_trigger_vars
  PROVE  LatchInv'
<1>t. /\ minute \in Minutes /\ Minutes = 0..LastMinute /\ LastMinute \in Nat
      /\ loop = "looking" => seen \in Minutes
  BY TriggerTypes DEF SummaryInv
<1>1. CASE Pass
  <2>1. loop' = loop /\ seen' = seen /\ fired' = fired /\ latch' = latch
    BY <1>1 DEF Pass
  <2>2. CASE minute' = minute \/ loop = "looking"
    BY <2>1, <2>2 DEF SummaryInv, LatchInv, Latest, OncePerTrigger
  <2>3. CASE minute' # minute /\ loop # "looking"
    <3>1. minute < LastMinute /\ minute' = minute + 1 /\ Latest = minute /\ Latest' = minute'
      BY <1>1, <2>1, <2>3 DEF Pass, Latest
    <3>2. fired[minute'] = 0 /\ \A m \in Minutes : m > minute' => fired[m] = 0
      BY <1>t, <3>1 DEF SummaryInv, LatchInv
    <3> QED
      BY <2>1, <3>1, <3>2 DEF SummaryInv, LatchInv, OncePerTrigger
  <2> QED
    BY <2>2, <2>3
<1>2. CASE Start
  BY <1>2 DEF Start, TimeOfDay, SummaryInv, LatchInv, Latest, OncePerTrigger
<1>3. CASE Stop
  <2>1. minute' = minute /\ fired' = fired /\ latch' = latch /\ Latest' = minute
    BY <1>3 DEF Stop, Latest
  <2>2. Latest # minute => Latest < minute /\ fired[minute] = 0
    BY <1>t DEF SummaryInv, LookInv, LatchInv, Latest
  <2>3. \A m \in Minutes : m > minute => fired[m] = 0
    BY <1>t, <2>2 DEF SummaryInv, LatchInv, Latest
  <2> QED
    BY <2>1, <2>2, <2>3 DEF SummaryInv, LatchInv, OncePerTrigger
<1>4. CASE Tick
  BY <1>4 DEF Tick, SummaryInv, LatchInv, Latest, OncePerTrigger
<1>5. CASE RunEnds \/ UNCHANGED trigger_vars
  BY <1>5 DEF RunEnds, trigger_vars, SummaryInv, LatchInv, Latest, OncePerTrigger
<1> QED
  BY <1>1, <1>2, <1>3, <1>4, <1>5, DecideKeepsLatch DEF TriggerNext

\* The invariant of look and latch.
LEMMA SummaryInvariance == TriggerSpec => []SummaryInv
<1>1. TriggerTypeOK /\ LookInv /\ LatchInv /\ [TriggerNext]_trigger_vars => LookInv' /\ LatchInv'
  BY LookTakesItsTime, TriggerKeepsLatch DEF SummaryInv
<1>2. SummaryInv <=> TriggerTypeOK /\ LookInv /\ LatchInv
  BY DEF SummaryInv
<1> QED
  BY <1>1, <1>2, TriggerInitInv, TriggerTypeCorrect, PTL DEF TriggerSpec

\* One summary per minute, at a trigger or right before it, for any poll interval,
\* lateness, length of the runs and number of restarts, wherever the two readings of the
\* clock fall.
THEOREM OneSummaryPerTrigger == TriggerSpec => []OncePerTrigger
<1>1. SummaryInv => OncePerTrigger
  BY DEF SummaryInv, LatchInv
<1> QED
  BY <1>1, SummaryInvariance, PTL

\* The time since a minute began, up to the beginning of this one.
Since(last) == (minute - last) * MINUTE

\* This is a trigger minute, and the last look that counts was in an earlier one.
Awaited(last) == last < minute /\ TimeOfDay \in Triggers

\* The latch holds the time of day of a minute since the start, in which the task has
\* fired unless it is the minute of the start: the last look that counts.
Latched(last) ==
  /\ last \in up_since..minute
  /\ latch = last % DAY
  /\ last > up_since => fired[last] > 0
  /\ loop = "looking" => last <= seen

\* A run begun by it is over in its time.
RunsOut(last) == loop = "busy" => Since(last) + second + remaining < MINUTE + MaxGap + MaxRun

\* In a later trigger minute the next tick is due in its first half, unless the task is
\* looking at this minute already.
DueSoon(last) ==
  Awaited(last) => due + second < POLL \/ (loop = "looking" /\ seen = minute)

\* It is not later with it than it may be, unless a look from the minute before or a run
\* was in its way.
LooksSoon(last) ==
  Awaited(last) =>
    /\ loop = "idle" =>
         \/ due >= -MaxLate
         \/ second < MaxGap
         \/ ended /\ Since(last) + second < MINUTE + MaxGap + MaxRun
    /\ loop = "looking" /\ seen = minute =>
         \/ second + remaining < MINUTE
         \/ ended /\ Since(last) + second + remaining < MINUTE + 2 * MaxGap + MaxRun

\* The trigger minutes that lie between were those of the run.
OnlyTheRun(last) ==
  \A m \in (last + 1)..(minute - 1) :
    m % DAY \in Triggers => (m - last) * MINUTE < MaxRun + 2 * MaxGap

Watched(last) ==
  Latched(last) /\ RunsOut(last) /\ DueSoon(last) /\ LooksSoon(last) /\ OnlyTheRun(last)

WatchInv == loop # "down" => \E last \in Minutes : Watched(last)

TriggerInv == SummaryInv /\ WatchInv

\* One minute more.
LEMMA OneMinuteMore ==
  ASSUME NEW d \in Int
  PROVE  /\ d * MINUTE \in Int /\ (d + 1) * MINUTE = d * MINUTE + MINUTE
         /\ 0 * MINUTE = 0
BY TriggerAssumption

\* Quotient and remainder.
LEMMA QuotientAndRemainder ==
  ASSUME NEW n \in Int, NEW d \in Int, d > 0
  PROVE  \E q, r \in Int : r = n % d /\ n = q * d + r
<1>1. n = (n \div d) * d + (n % d)
  OBVIOUS
<1>2. n \div d \in Int /\ n % d \in Int
  OBVIOUS
<1> QED
  BY <1>1, <1>2

\* The same time of day comes back after a day, not before.
LEMMA TimeOfDayComesBack ==
  ASSUME NEW a \in Nat, NEW b \in Nat, a < b, a % DAY = b % DAY
  PROVE  a + DAY <= b
<1>1. DAY \in Int /\ DAY > 0
  BY TriggerAssumption
<1>2. PICK p \in Int, r \in Int : r = a % DAY /\ a = p * DAY + r
  BY <1>1, QuotientAndRemainder
<1>3. PICK q \in Int, s \in Int : s = b % DAY /\ b = q * DAY + s
  BY <1>1, QuotientAndRemainder
<1>4. r = s
  BY <1>2, <1>3
<1>5. CASE q <= p
  <2>1. PICK k \in Nat : p = q + k
    <3>1. p - q \in Nat /\ p = q + (p - q)
      BY <1>5
    <3> QED
      BY <3>1
  <2>2. p * DAY = q * DAY + k * DAY /\ k * DAY \in Nat /\ q * DAY \in Int
    BY <1>1, <2>1
  <2>3. a >= b
    <3> HIDE <1>5
    <3> QED
      BY <1>2, <1>3, <1>4, <2>2
  <2> QED
    BY <2>3
<1>6. CASE q > p
  <2>1. PICK k \in Nat : q = p + 1 + k
    <3>1. q - p - 1 \in Nat /\ q = p + 1 + (q - p - 1)
      BY <1>6
    <3> QED
      BY <3>1
  <2>2. q * DAY = p * DAY + DAY + k * DAY /\ k * DAY \in Nat /\ p * DAY \in Int
    BY <1>1, <2>1
  <2> QED
    BY <1>1, <1>2, <1>3, <1>4, <2>2
<1> QED
  BY <1>5, <1>6

\* A trigger minute that comes after the last look that counts is news to the latch: had
\* that one the same time of day, another trigger minute would lie between, further from
\* it than a run takes.
LEMMA TheTriggerIsNews ==
  ASSUME TriggerTypeOK, NEW last \in Minutes, Watched(last), Awaited(last), seen = minute
  PROVE  Fires
<1>1. /\ minute \in Minutes /\ latch = last % DAY /\ last < minute /\ TimeOfDay \in Triggers
      /\ OnlyTheRun(last)
  BY DEF TriggerTypeOK, Watched, Latched, Awaited
<1>2. ASSUME latch = Key
      PROVE  FALSE
  <2>1. last \in Nat /\ minute \in Nat /\ last \in 0..LastMinute
    BY <1>1, TriggerAssumption DEF Minutes
  <2>2. last % DAY = minute % DAY /\ last % DAY \in Triggers
    BY <1>1, <1>2 DEF TimeOfDay, Key
  <2>3. last + DAY <= minute
    BY <1>1, <2>1, <2>2, TimeOfDayComesBack
  <2>4. PICK other \in (last + 1)..(last + DAY - 1) :
          other % DAY \in Triggers /\ (other - last) * MINUTE >= MaxRun + 2 * MaxGap
    BY <2>1, <2>2, TriggersAreApart
  <2>5. other \in (last + 1)..(minute - 1)
    BY <2>1, <2>3, <2>4, TriggerAssumption
  <2>6. (other - last) * MINUTE < MaxRun + 2 * MaxGap
    BY <1>1, <2>4, <2>5 DEF OnlyTheRun
  <2>7. (other - last) * MINUTE \in Int /\ MaxRun \in Int /\ MaxGap \in Int
    BY <2>1, <2>4, TriggerAssumption, OneMinuteMore
  <2> QED
    BY <2>4, <2>6, <2>7
<1> QED
  BY <1>1, <1>2 DEF Fires

\* A trigger minute that is about to end without the look that counts ends in a run, or
\* in a look after one.
LEMMA TheMinuteWasSeen ==
  ASSUME TriggerTypeOK, LookInv, NEW last \in Minutes, Watched(last), Awaited(last), loop # "down",
         second = MINUTE - 1,
         loop = "idle" => due > -MaxLate,
         loop \in {"looking", "busy"} => remaining > 0
  PROVE  /\ loop # "idle"
         /\ loop = "looking" => ended
         /\ Since(last) < MaxRun + 2 * MaxGap
<1> DEFINE d == Since(last)
<1>1. /\ MINUTE \in Nat \ {0} /\ POLL \in Nat \ {0} /\ {MaxRun, MaxGap, MaxLate} \subseteq Nat
      /\ POLL + MaxLate + MaxGap <= MINUTE /\ MaxGap <= POLL /\ minute \in Int /\ last \in Int
      /\ due \in Int /\ remaining \in Nat /\ loop \in {"down", "idle", "looking", "busy"}
  BY TriggerTypes
<1>2. d \in Int
  BY <1>1, OneMinuteMore DEF Since
<1>3. /\ loop = "busy" => d + second + remaining < MINUTE + MaxGap + MaxRun
      /\ due + second < POLL \/ (loop = "looking" /\ seen = minute)
      /\ loop = "looking" /\ seen = minute =>
           \/ second + remaining < MINUTE
           \/ ended /\ d + second + remaining < MINUTE + 2 * MaxGap + MaxRun
  BY DEF Watched, RunsOut, DueSoon, LooksSoon
<1>4. loop = "looking" => seen = minute \/ second + remaining < MaxGap
  BY DEF LookInv
<1> HIDE DEF d
<1>5. loop # "idle"
  BY <1>1, <1>3
<1>6. CASE loop = "busy"
  BY <1>1, <1>2, <1>3, <1>6 DEF d
<1>7. CASE loop = "looking"
  <2>1. seen = minute
    BY <1>1, <1>4, <1>7
  <2>2. ended /\ d + second + remaining < MINUTE + 2 * MaxGap + MaxRun
    BY <1>1, <1>3, <1>7, <2>1
  <2>3. d < MaxRun + 2 * MaxGap
    BY <1>1, <1>2, <1>7, <2>2
  <2> QED
    BY <1>7, <2>2, <2>3 DEF d
<1> QED
  BY <1>1, <1>5, <1>6, <1>7

\* Time passes within a minute.
LEMMA PassWithinMinute ==
  ASSUME TriggerInv, Pass, minute' = minute, NEW last \in Minutes, Watched(last), loop # "down"
  PROVE  Watched(last)'
<1> DEFINE d == Since(last)
<1>1. /\ MINUTE \in Nat \ {0} /\ MaxLate \in Nat /\ minute \in Int /\ last \in Int
      /\ second \in Int /\ due \in Int /\ remaining \in Int
  BY TriggerTypes DEF TriggerInv, SummaryInv
<1>2. /\ second' = second + 1 /\ due' = due - 1 /\ ended' = ended /\ loop' = loop /\ seen' = seen
      /\ latch' = latch /\ up_since' = up_since /\ fired' = fired
      /\ loop = "idle" => due > -MaxLate
      /\ loop \in {"looking", "busy"} => remaining' = remaining - 1
  BY <1>1 DEF Pass
<1>3. d \in Int /\ Since(last)' = d
  BY <1>1, OneMinuteMore DEF Since
<1>4. Awaited(last)' <=> Awaited(last)
  BY DEF Awaited, TimeOfDay
<1>5. Latched(last)' /\ OnlyTheRun(last)'
  BY <1>2 DEF Watched, Latched, OnlyTheRun
<1> HIDE DEF d
<1>6. RunsOut(last)'
  <2>1. loop = "busy" => d + second + remaining < MINUTE + MaxGap + MaxRun
    BY DEF Watched, RunsOut, d
  <2>2. loop = "busy" => d + second' + remaining' = d + second + remaining
    BY <1>1, <1>2, <1>3
  <2> QED
    BY <1>2, <1>3, <2>1, <2>2 DEF RunsOut
<1>7. DueSoon(last)'
  BY <1>1, <1>2, <1>4 DEF Watched, DueSoon
<1>8. LooksSoon(last)'
  <2>1. loop = "idle" => due' >= -MaxLate
    BY <1>1, <1>2
  <2>2. loop = "looking" =>
          /\ second' + remaining' = second + remaining
          /\ d + second' + remaining' = d + second + remaining
    BY <1>1, <1>2, <1>3
  <2>3. Awaited(last) /\ loop = "looking" /\ seen = minute =>
          \/ second + remaining < MINUTE
          \/ ended /\ d + second + remaining < MINUTE + 2 * MaxGap + MaxRun
    BY DEF Watched, LooksSoon, d
  <2> QED
    BY <1>2, <1>3, <1>4, <2>1, <2>2, <2>3 DEF LooksSoon
<1> QED
  BY <1>5, <1>6, <1>7, <1>8 DEF Watched

\* A minute ends.
LEMMA PassToNextMinute ==
  ASSUME TriggerInv, Pass, minute' # minute, NEW last \in Minutes, Watched(last), loop # "down"
  PROVE  Watched(last)'
<1> DEFINE d == Since(last)
<1>1. /\ MINUTE \in Nat \ {0} /\ POLL \in Nat /\ {MaxRun, MaxGap, MaxLate} \subseteq Nat
      /\ minute \in Int /\ last \in Int /\ up_since \in Int /\ second \in 0..(MINUTE - 1)
      /\ due \in Int /\ due <= POLL /\ remaining \in Nat /\ TriggerTypeOK /\ LookInv
      /\ loop = "looking" => seen \in Int
  BY TriggerTypes DEF TriggerInv, SummaryInv
<1>2. /\ second = MINUTE - 1 /\ second' = 0 /\ minute' = minute + 1
      /\ due' = due - 1 /\ loop' = loop /\ seen' = seen
      /\ latch' = latch /\ up_since' = up_since /\ fired' = fired
      /\ loop = "idle" => due > -MaxLate
      /\ loop \in {"looking", "busy"} => remaining > 0 /\ remaining' = remaining - 1
  BY <1>1 DEF Pass
<1>3. d \in Int /\ Since(last)' = d + MINUTE
  <2>1. minute' - last = (minute - last) + 1 /\ minute - last \in Int
    BY <1>1, <1>2
  <2> QED
    BY <2>1, OneMinuteMore DEF Since
<1>4. Latched(last)'
  BY <1>1, <1>2 DEF Watched, Latched
<1>5. RunsOut(last)'
  <2>1. loop = "busy" => d + second + remaining < MINUTE + MaxGap + MaxRun
    BY DEF Watched, RunsOut
  <2> HIDE DEF d
  <2>2. loop = "busy" => (d + MINUTE) + second' + remaining' = d + second + remaining
    BY <1>1, <1>2, <1>3
  <2> QED
    BY <1>2, <1>3, <2>1, <2>2 DEF RunsOut
<1>6. DueSoon(last)'
  BY <1>1, <1>2 DEF DueSoon
<1>7. LooksSoon(last)'
  <2>1. loop = "idle" => due' >= -MaxLate
    BY <1>1, <1>2
  <2>2. loop = "looking" => seen # minute'
    BY <1>1, <1>2 DEF LookInv
  <2> QED
    BY <1>2, <2>1, <2>2 DEF LooksSoon
<1>8. OnlyTheRun(last)'
  <2> SUFFICES ASSUME NEW m \in (last + 1)..(minute' - 1), m % DAY \in Triggers
               PROVE  (m - last) * MINUTE < MaxRun + 2 * MaxGap
    BY DEF OnlyTheRun
  <2>1. CASE m = minute
    <3>1. Awaited(last)
      BY <1>1, <2>1 DEF Awaited, TimeOfDay
    <3> QED
      BY <1>1, <1>2, <2>1, <3>1, TheMinuteWasSeen DEF Since
  <2>2. CASE m # minute
    <3>1. m \in (last + 1)..(minute - 1)
      BY <1>1, <1>2, <2>2
    <3> QED
      BY <3>1 DEF Watched, OnlyTheRun
  <2> QED
    BY <2>1, <2>2
<1> QED
  BY <1>4, <1>5, <1>6, <1>7, <1>8 DEF Watched

\* A tick begins a look, in time for this minute.
LEMMA TickKeepsWatch ==
  ASSUME TriggerInv, Tick, NEW last \in Minutes, Watched(last)
  PROVE  Watched(last)'
<1> DEFINE d == Since(last)
<1>1. /\ MINUTE \in Nat \ {0} /\ POLL \in Nat /\ {MaxRun, MaxGap, MaxLate} \subseteq Nat
      /\ POLL + MaxLate + MaxGap <= MINUTE /\ MaxGap <= POLL
      /\ minute \in Int /\ last \in Int /\ second \in 0..(MINUTE - 1) /\ due \in Int
      /\ up_since \in Int
  BY TriggerTypes DEF TriggerInv, SummaryInv
<1>2. /\ loop = "idle" /\ loop' = "looking" /\ seen' = minute /\ remaining' \in 0..MaxGap
      /\ UNCHANGED <<minute, second, latch, up_since, ended, fired>>
  BY DEF Tick
<1>3. d \in Int /\ Since(last)' = d
  BY <1>1, <1>2, OneMinuteMore DEF Since
<1>4. Awaited(last)' <=> Awaited(last)
  BY <1>2 DEF Awaited, TimeOfDay
<1>5. Latched(last)' /\ OnlyTheRun(last)'
  BY <1>1, <1>2 DEF Watched, Latched, OnlyTheRun
<1>6. RunsOut(last)' /\ DueSoon(last)'
  BY <1>2 DEF RunsOut, DueSoon
<1>7. LooksSoon(last)'
  <2>1. SUFFICES ASSUME Awaited(last)
                 PROVE  \/ second + remaining' < MINUTE
                        \/ ended /\ d + second + remaining' < MINUTE + 2 * MaxGap + MaxRun
    BY <1>2, <1>3, <1>4 DEF LooksSoon
  <2>2. due + second < POLL
    BY <1>2, <2>1 DEF Watched, DueSoon
  <2>3. \/ due >= -MaxLate
        \/ second < MaxGap
        \/ ended /\ d + second < MINUTE + MaxGap + MaxRun
    BY <1>2, <2>1 DEF Watched, LooksSoon
  <2> HIDE DEF d
  <2>4. remaining' \in Int /\ remaining' <= MaxGap
    BY <1>1, <1>2
  <2>5. CASE due >= -MaxLate
    <3>1. second + remaining' < MINUTE
      <4>1. /\ second \in Int /\ due \in Int /\ POLL \in Int /\ MaxLate \in Int /\ MaxGap \in Int
            /\ MINUTE \in Int /\ POLL + MaxLate + MaxGap <= MINUTE
        BY <1>1
      <4>2. second < POLL + MaxLate
        BY <2>2, <2>5, <4>1
      <4>3. \A a, b, p, l, g, m \in Int :
              a < p + l /\ b <= g /\ p + l + g <= m => a + b < m
        OBVIOUS
      <4> QED
        BY <2>4, <4>1, <4>2, <4>3
    <3> QED
      BY <3>1
  <2>6. CASE second < MaxGap
    <3>1. second + remaining' < MINUTE
      <4>1. second \in Int /\ MaxGap + MaxGap <= MINUTE /\ MaxGap \in Int /\ MINUTE \in Int
        BY <1>1
      <4> QED
        <5>1. \A a, b, g, m \in Int : a < g /\ b <= g /\ g + g <= m => a + b < m
          OBVIOUS
        <5> QED
          BY <2>4, <2>6, <4>1, <5>1
    <3> QED
      BY <3>1
  <2>7. CASE ended /\ d + second < MINUTE + MaxGap + MaxRun
    <3>1. d + second + remaining' < MINUTE + 2 * MaxGap + MaxRun
      BY <1>1, <1>3, <2>4, <2>7
    <3> QED
      BY <2>7, <3>1
  <2> QED
    BY <2>3, <2>5, <2>6, <2>7
<1> QED
  BY <1>5, <1>6, <1>7 DEF Watched

\* A look ends: it fires whenever the minute is one it has to see.
LEMMA DecideKeepsWatch ==
  ASSUME TriggerInv, Decide, NEW last \in Minutes, Watched(last)
  PROVE  WatchInv'
<1>1. /\ MINUTE \in Nat \ {0} /\ POLL \in Nat /\ {MaxRun, MaxGap, MaxLate} \subseteq Nat
      /\ minute \in Int /\ last \in Int /\ second \in 0..(MINUTE - 1) /\ due \in Int
      /\ remaining \in Nat
      /\ up_since \in Int /\ seen \in Minutes /\ seen \in Int /\ fired \in [Minutes -> Nat]
  BY TriggerTypes DEF TriggerInv, SummaryInv, Decide
<1>2. /\ loop = "looking" /\ last <= seen
      /\ seen = minute \/ (seen = minute - 1 /\ second + remaining < MaxGap)
  BY DEF TriggerInv, SummaryInv, LookInv, Decide, Watched, Latched
<1>3. UNCHANGED <<minute, second, due, up_since, ended>>
  BY DEF Decide
<1>4. CASE Fires
  <2>1. /\ latch' = seen % DAY /\ loop' = "busy" /\ remaining' \in 0..MaxRun
        /\ fired' = [fired EXCEPT ![seen] = @ + 1]
    BY <1>4 DEF Decide, Key
  <2>2. PICK now \in Minutes : now = seen
    BY <1>1
  <2>3. fired'[now] > 0
    BY <1>1, <2>1, <2>2
  <2>4. Latched(now)'
    BY <1>1, <1>2, <1>3, <2>1, <2>2, <2>3 DEF Watched, Latched
  <2>5. RunsOut(now)'
    <3>1. Since(now)' = IF seen = minute THEN 0 ELSE MINUTE
      <4>1. minute' - now = IF seen = minute THEN 0 ELSE 0 + 1
        BY <1>1, <1>2, <1>3, <2>2
      <4>2. (0 + 1) * MINUTE = 0 * MINUTE + MINUTE /\ 0 * MINUTE = 0
        BY OneMinuteMore
      <4>3. (0 + 1) * MINUTE = MINUTE
        BY <1>1
      <4> QED
        BY <4>1, <4>2, <4>3 DEF Since
    <3>2. CASE seen = minute
      BY <1>1, <1>3, <2>1, <3>1, <3>2 DEF RunsOut
    <3>3. CASE seen # minute
      BY <1>1, <1>2, <1>3, <2>1, <3>1, <3>3 DEF RunsOut
    <3> QED
      BY <3>2, <3>3
  <2>6. DueSoon(now)'
    <3>1. ASSUME Awaited(now)'
          PROVE  due + second < POLL
      <4>1. seen < minute /\ Awaited(last)
        BY <1>1, <1>2, <1>3, <2>2, <3>1 DEF Awaited, TimeOfDay
      <4> QED
        BY <1>1, <4>1 DEF Watched, DueSoon
    <3> QED
      BY <1>3, <3>1 DEF DueSoon
  <2>7. LooksSoon(now)'
    BY <2>1 DEF LooksSoon
  <2>8. OnlyTheRun(now)'
    <3>1. (now + 1)..(minute' - 1) = {}
      BY <1>1, <1>2, <1>3, <2>2
    <3> QED
      BY <3>1 DEF OnlyTheRun
  <2> QED
    BY <2>4, <2>5, <2>6, <2>7, <2>8 DEF WatchInv, Watched
<1>5. CASE ~Fires
  <2>1. latch' = latch /\ loop' = "idle" /\ fired' = fired
    BY <1>5 DEF Decide
  <2>2. Awaited(last) => seen # minute
    BY <1>5, TheTriggerIsNews DEF TriggerInv, SummaryInv
  <2>3. Awaited(last)' <=> Awaited(last)
    BY <1>3 DEF Awaited, TimeOfDay
  <2>4. Latched(last)' /\ OnlyTheRun(last)'
    BY <1>3, <2>1 DEF Watched, Latched, OnlyTheRun
  <2>5. RunsOut(last)'
    BY <2>1 DEF RunsOut
  <2>6. DueSoon(last)'
    BY <1>3, <2>2, <2>3 DEF Watched, DueSoon
  <2>7. LooksSoon(last)'
    <3>1. Awaited(last) => second < MaxGap
      BY <1>1, <1>2, <2>2
    <3> QED
      BY <1>3, <2>1, <2>3, <3>1 DEF LooksSoon
  <2>8. Watched(last)'
    BY <2>4, <2>5, <2>6, <2>7 DEF Watched
  <2> QED
    BY <2>8 DEF WatchInv
<1> QED
  BY <1>4, <1>5

\* The end of a run.
LEMMA RunEndsKeepsWatch ==
  ASSUME TriggerInv, RunEnds, NEW last \in Minutes, Watched(last)
  PROVE  Watched(last)'
<1> DEFINE d == Since(last)
<1>1. /\ loop = "busy" /\ loop' = "idle" /\ remaining = 0 /\ ended'
      /\ UNCHANGED <<minute, second, seen, latch, due, up_since, fired>>
  BY DEF RunEnds
<1>2. d \in Int /\ Since(last)' = d /\ second \in Int
  <2>1. minute \in Int /\ last \in Int /\ second \in Int
    BY TriggerTypes DEF TriggerInv, SummaryInv
  <2>2. minute - last \in Int /\ minute' = minute
    BY <1>1, <2>1
  <2> QED
    BY <2>1, <2>2, OneMinuteMore DEF Since
<1>3. Awaited(last)' <=> Awaited(last)
  BY <1>1 DEF Awaited, TimeOfDay
<1>4. Latched(last)' /\ OnlyTheRun(last)' /\ RunsOut(last)'
  BY <1>1 DEF Watched, Latched, OnlyTheRun, RunsOut
<1>5. DueSoon(last)'
  BY <1>1, <1>3 DEF Watched, DueSoon
<1>6. LooksSoon(last)'
  <2>1. d + second + remaining < MINUTE + MaxGap + MaxRun
    BY <1>1 DEF Watched, RunsOut
  <2> HIDE DEF d
  <2>2. d + second < MINUTE + MaxGap + MaxRun
    BY <1>1, <1>2, <2>1
  <2> QED
    BY <1>1, <1>2, <2>2 DEF LooksSoon
<1> QED
  BY <1>4, <1>5, <1>6 DEF Watched

\* Every step keeps the watch: a start begins it anew and a stop ends it.
LEMMA TriggerKeepsWatch ==
  ASSUME TriggerInv, [TriggerNext]_trigger_vars
  PROVE  WatchInv'
<1>1. CASE Start
  <2>1. minute \in Minutes /\ minute \in Int
    BY TriggerTypes DEF TriggerInv, SummaryInv
  <2>2. PICK now \in Minutes : now = minute
    BY <2>1
  <2>3. minute' = now /\ up_since' = now /\ latch' = now % DAY /\ loop' = "idle"
    BY <1>1, <2>2 DEF Start, TimeOfDay
  <2>4. now \in now..now /\ ~(now > now) /\ ~(now < now) /\ (now + 1)..(now - 1) = {}
    BY <2>1, <2>2
  <2>5. Latched(now)' /\ RunsOut(now)' /\ OnlyTheRun(now)'
    BY <2>3, <2>4 DEF Latched, RunsOut, OnlyTheRun
  <2>6. DueSoon(now)' /\ LooksSoon(now)'
    BY <2>3, <2>4 DEF DueSoon, LooksSoon, Awaited
  <2> QED
    BY <2>5, <2>6 DEF WatchInv, Watched
<1>2. CASE Stop
  BY <1>2 DEF Stop, WatchInv
<1>3. ASSUME loop # "down"
      PROVE  \E last \in Minutes : Watched(last)
  BY <1>3 DEF TriggerInv, WatchInv
<1>4. CASE Pass
  <2>1. CASE loop = "down"
    BY <1>4, <2>1 DEF Pass, WatchInv
  <2>2. CASE loop # "down"
    <3>1. PICK last \in Minutes : Watched(last)
      BY <1>3, <2>2
    <3>2. Watched(last)'
      BY <1>4, <2>2, <3>1, PassWithinMinute, PassToNextMinute
    <3> QED
      BY <3>2 DEF WatchInv
  <2> QED
    BY <2>1, <2>2
<1>5. CASE Tick
  <2>1. PICK last \in Minutes : Watched(last)
    BY <1>3, <1>5 DEF Tick
  <2> QED
    BY <1>5, <2>1, TickKeepsWatch DEF WatchInv
<1>6. CASE Decide
  <2>1. PICK last \in Minutes : Watched(last)
    BY <1>3, <1>6 DEF Decide
  <2> QED
    BY <1>6, <2>1, DecideKeepsWatch
<1>7. CASE RunEnds
  <2>1. PICK last \in Minutes : Watched(last)
    BY <1>3, <1>7 DEF RunEnds
  <2> QED
    BY <1>7, <2>1, RunEndsKeepsWatch DEF WatchInv
<1>8. CASE UNCHANGED trigger_vars
  BY <1>8 DEF trigger_vars, TriggerInv, WatchInv, Watched, Latched, RunsOut, DueSoon, LooksSoon,
              OnlyTheRun, Awaited, Since, TimeOfDay
<1> QED
  BY <1>1, <1>2, <1>4, <1>5, <1>6, <1>7, <1>8 DEF TriggerNext

\* The invariant of the trigger.
LEMMA TriggerInvariance == TriggerSpec => []TriggerInv
<1>1. TriggerInit => WatchInv
  BY DEF TriggerInit, WatchInv
<1>2. SummaryInv /\ WatchInv /\ [TriggerNext]_trigger_vars => WatchInv'
  BY TriggerKeepsWatch DEF TriggerInv
<1>3. TriggerInv <=> SummaryInv /\ WatchInv
  BY DEF TriggerInv
<1> QED
  BY <1>1, <1>2, <1>3, SummaryInvariance, PTL DEF TriggerSpec

\* No trigger minute that found the task up ends without its summary on an idle task, or
\* on one that looks without a run before it: for any phase of the ticker, any distance
\* of the two readings, any set of trigger minutes that lie apart, and any number of
\* restarts.
THEOREM TriggersAreNotMissed == TriggerSpec => NoTriggerIsMissed
<1>1. TriggerInv /\ [TriggerNext]_trigger_vars =>
        [/\ minute' # minute /\ up_since < minute /\ TimeOfDay \in Triggers
         /\ loop = "idle" \/ (loop = "looking" /\ ~ended)
         => fired[minute] = 1]_trigger_vars
  <2> SUFFICES ASSUME TriggerInv, TriggerNext, minute' # minute,
                      loop = "idle" \/ (loop = "looking" /\ ~ended),
                      up_since < minute, TimeOfDay \in Triggers
               PROVE  fired[minute] = 1
    BY DEF trigger_vars
  <2>1. Pass
    BY DEF TriggerNext, Start, Stop, Tick, Decide, RunEnds
  <2>2. PICK last \in Minutes : Watched(last)
    BY DEF TriggerInv, WatchInv
  <2>3. /\ minute \in Minutes /\ minute \in Int /\ last \in Int /\ up_since \in Int
        /\ MINUTE \in Nat \ {0} /\ second \in 0..(MINUTE - 1) /\ fired[minute] \in Nat
    BY TriggerTypes DEF TriggerInv, SummaryInv
  <2>4. /\ second = MINUTE - 1
        /\ loop = "idle" => due > -MaxLate
        /\ loop \in {"looking", "busy"} => remaining > 0
    BY <2>1, <2>3 DEF Pass
  <2>5. ~Awaited(last)
    BY <2>2, <2>4, TheMinuteWasSeen DEF TriggerInv, SummaryInv
  <2>6. last = minute
    BY <2>2, <2>3, <2>5 DEF Awaited, Watched, Latched
  <2>7. fired[minute] > 0
    BY <2>2, <2>6 DEF Watched, Latched
  <2> QED
    BY <2>3, <2>7 DEF TriggerInv, SummaryInv, LatchInv, OncePerTrigger
<1> QED
  BY <1>1, TriggerInvariance, PTL DEF TriggerSpec, NoTriggerIsMissed
=============================================================================
