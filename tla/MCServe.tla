------------------------------- MODULE MCServe ------------------------------
(* The tasks of the server, side by side: Lifecycle as in MCLifecycle, one *)
(* run of the agent with whichever caller, one call of the model, and the  *)
(* scheduled trigger.  The parts share no state: a behaviour is of one of  *)
(* them.                                                                   *)
EXTENDS Lifecycle, AgentCallers, LlmClient, ScheduledTrigger

CONSTANT Sweeper

TwoTasks == <<Sweeper, Incident>>

VARIABLE part

\* The initial choices that a part makes, for the others one of them.
AgentRests == caller = "diagnosis"
ModelRests == call = "stream_chat"
TriggerRests == second = 0

ServeInit ==
  /\ Init /\ AgentInit /\ LlmInit /\ TriggerInit
  /\ \/ part = "lifecycle" /\ AgentRests /\ ModelRests /\ TriggerRests
     \/ part = "agent" /\ ModelRests /\ TriggerRests
     \/ part = "model" /\ AgentRests /\ TriggerRests
     \/ part = "trigger" /\ AgentRests /\ ModelRests

InLifecycle(A) == part = "lifecycle" /\ A /\ UNCHANGED <<agent_vars, llm_vars, trigger_vars, part>>
InAgent(A) == part = "agent" /\ A /\ UNCHANGED <<vars, llm_vars, trigger_vars, part>>
InModel(A) == part = "model" /\ A /\ UNCHANGED <<vars, agent_vars, trigger_vars, part>>
InTrigger(A) == part = "trigger" /\ A /\ UNCHANGED <<vars, agent_vars, llm_vars, part>>

ServeNext ==
  \/ InLifecycle(Next) \/ InAgent(AgentNext) \/ InModel(LlmNext) \/ InTrigger(TriggerNext)

ServeSpec ==
  /\ ServeInit /\ [][ServeNext]_<<vars, agent_vars, llm_vars, trigger_vars, part>>
  /\ WF_vars(InLifecycle(ShutdownStep)) /\ WF_vars(InLifecycle(trigger # "publishing" /\ Trigger))
  /\ \A r \in Requests : WF_vars(InLifecycle(Respond(r)))
  /\ \A s \in Streams : WF_vars(InLifecycle(client[s] # "stalled" /\ TurnOver(s)))
  /\ WF_agent_vars(InAgent(~AwaitsPublisher /\ (AgentStep \/ CallerStep)))
  /\ WF_llm_vars(InModel(ChatTimers))
=============================================================================
