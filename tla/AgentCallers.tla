---------------------------- MODULE AgentCallers ----------------------------
(***************************************************************************)
(* The four that start an AgentRun, and what each does with its outcome:   *)
(* the /chat handler, the background task of /fix-flow, the scheduled      *)
(* summary and the diagnosis of an incident.  They differ in what may cut  *)
(* the run off, in what follows it, and in what a failure on the way skips.*)
(***************************************************************************)
EXTENDS AgentRun

VARIABLES
  caller,
  todo,        (* its steps that are left, the run among them              *)
  verdict,     (* fix_flow: the payload of fix_proposed                    *)
  end,         (* how the caller ended                                     *)
  named,       (* the proposals that its response or its event names       *)
  remembered,  (* the interaction has been sent to the memory              *)
  cached       (* the answer has been stored in the response cache         *)

effects == <<named, remembered, cached>>
agent_vars == <<run_vars, caller, todo, verdict, end, effects>>

-----------------------------------------------------------------------------
(* Types                                                                   *)

Callers == {"chat", "fix_flow", "scheduled", "diagnosis"}
Steps == {"run", "suggest", "publish", "remember", "store", "teams", "compose"}
Verdicts == {"none", "proposed", "no_action", "failed"}

\* ok and failed: it ran to its end; dropped: by the time limit or the connection of
\* its task; aborted: by the shutdown signal; killed: with the process.
Ends == {"none", "ok", "failed", "dropped", "aborted", "killed"}

AgentTypeOK ==
  /\ RunTypeOK
  /\ caller \in Callers
  /\ todo \in Seq(Steps) /\ Len(todo) <= 4
  /\ verdict \in Verdicts
  /\ end \in Ends
  /\ named \subseteq Calls
  /\ remembered \in BOOLEAN /\ cached \in BOOLEAN

\* The scope decides the mode of /chat; /fix-flow is refused without read+act.
AgentInit ==
  /\ RunInit
  /\ caller \in Callers
  /\ mode \in CASE caller = "chat" -> {"read_only", "actionable"}
                [] caller = "fix_flow" -> {"actionable"}
                [] OTHER -> {"read_only"}
  /\ todo = <<"run">> /\ verdict = "none" /\ end = "none"
  /\ named = {} /\ remembered = FALSE /\ cached = FALSE

-----------------------------------------------------------------------------
(* The run and its outcome                                                 *)

At(step) == end = "none" /\ todo # <<>> /\ Head(todo) = step

AgentStep ==
  /\ At("run") /\ RunStep
  /\ UNCHANGED <<caller, todo, verdict, end, effects>>

\* What a caller does with an Ok.
Afterwards ==
  CASE caller = "chat"      -> <<"suggest", "publish", "remember", "store">>
    [] caller = "fix_flow"  -> <<"publish">>
    [] caller = "scheduled" -> <<"remember", "teams", "publish">>
    [] caller = "diagnosis" -> <<"compose", "remember">>

\* outcome_event names the first call with status pending.
RunReturns ==
  /\ At("run") /\ phase = "returned_ok"
  /\ todo' = Afterwards
  /\ verdict' = IF caller # "fix_flow" THEN "none"
                ELSE IF Pending # {} THEN "proposed" ELSE "no_action"
  /\ UNCHANGED <<run_vars, caller, end, effects>>

\* `?`, except in fix_flow, which makes it an event.
RunErrs ==
  /\ At("run") /\ phase = "returned_err"
  /\ IF caller = "fix_flow"
     THEN verdict' = "failed" /\ todo' = <<"publish">> /\ UNCHANGED end
     ELSE end' = "failed" /\ todo' = <<>> /\ UNCHANGED verdict
  /\ UNCHANGED <<run_vars, caller, effects>>

\* FIX_FLOW_TIMEOUT_SECS: the run is dropped where it stands.
RunTimesOut ==
  /\ At("run") /\ caller = "fix_flow" /\ phase \in Running
  /\ phase' = "returned_err"
  /\ verdict' = "failed" /\ todo' = <<"publish">>
  /\ UNCHANGED <<mode, round, calls, back, trace, parked, used_tools, caller, end, effects>>

-----------------------------------------------------------------------------
(* What follows it.  Failures to suggest, publish, remember and store are  *)
(* logged and nothing else.                                                *)

GoOn == todo' = Tail(todo) /\ UNCHANGED <<run_vars, caller, verdict, end>>

Suggest == At("suggest") /\ GoOn /\ UNCHANGED effects

Publish ==
  /\ At("publish") /\ GoOn
  /\ named' \in {named, IF verdict = "proposed" THEN First(Pending) ELSE named}
  /\ UNCHANGED <<remembered, cached>>

Remember ==
  /\ At("remember") /\ GoOn
  /\ remembered' \in BOOLEAN
  /\ UNCHANGED <<named, cached>>

\* Faulty variant: an answer is stored whatever it rests on.
StoreAll ==
  /\ At("store") /\ GoOn
  /\ cached' \in BOOLEAN
  /\ UNCHANGED <<named, remembered>>

\* store_response, for an answer without tools.
Store ==
  /\ At("store") /\ GoOn
  /\ cached' \in IF trace = {} THEN BOOLEAN ELSE {FALSE}
  /\ UNCHANGED <<named, remembered>>

\* publish_to_teams and compose_diagnosis end the caller when they fail, and what
\* comes after them is not done.
Fallible(step) ==
  /\ At(step)
  /\ \/ GoOn
     \/ end' = "failed" /\ todo' = <<>> /\ UNCHANGED <<run_vars, caller, verdict>>
  /\ UNCHANGED effects

\* The response of /chat carries the tool_trace.
Finish ==
  /\ end = "none" /\ todo = <<>>
  /\ end' = "ok"
  /\ named' = IF caller = "chat" THEN Pending ELSE named
  /\ UNCHANGED <<run_vars, caller, todo, verdict, remembered, cached>>

-----------------------------------------------------------------------------
(* What cuts it off                                                        *)

Cut(how) ==
  /\ end = "none" /\ end' = how
  /\ UNCHANGED <<run_vars, caller, todo, verdict, effects>>

\* /chat by the TimeoutLayer or its connection, a diagnosis by DIAGNOSE_TIMEOUT.
Dropped == caller \in {"chat", "diagnosis"} /\ Cut("dropped")

\* The signal ends the run of a fix-flow, not its publishing.
Aborted == caller = "fix_flow" /\ At("run") /\ Cut("aborted")

\* Nobody waits for the task of a fix-flow: it may go with the process.
Killed == caller = "fix_flow" /\ Cut("killed")

-----------------------------------------------------------------------------
CallerStep ==
  \/ RunReturns \/ RunErrs
  \/ Suggest \/ Publish \/ Remember \/ Store \/ Fallible("teams") \/ Fallible("compose")
  \/ Finish

AgentNext == AgentStep \/ CallerStep \/ RunTimesOut \/ Dropped \/ Aborted \/ Killed

AgentSpec == AgentInit /\ [][AgentNext]_agent_vars

\* Publishing an event has no limit once the connection is there.  A step awaits it, and
\* so does a round of tools, for the tool_called of its reads and the write_proposed of
\* its writes.
AwaitsPublisher == At("publish") \/ (At("run") /\ phase = "tools")

\* A call of the model comes back (LlmClient, ChatComesBack); what the publisher takes
\* may never do.
AgentFairSpec == AgentSpec /\ WF_agent_vars(~AwaitsPublisher /\ (AgentStep \/ CallerStep))

-----------------------------------------------------------------------------
(* Properties                                                              *)

\* Nobody proposes a write and keeps it to himself.  A run with nobody to confirm
\* parks nothing; the response of a chat names every action it parked, in whatever
\* round; fix_proposed says no_action only if none was, and else names the first.
\* Only a run that failed or was cut off leaves a proposal nobody heard of.
ProposalsAreTold ==
  /\ caller \in {"scheduled", "diagnosis"} => parked = {}
  /\ caller = "chat" /\ end = "ok" => named = parked
  /\ verdict = "no_action" => parked = {}
  /\ verdict = "proposed" => parked # {} /\ named \subseteq First(parked)

\* Nothing of a run that failed is remembered, and an answer that rests on a tool, or
\* offers a proposal, is never served again from the cache.
OnlyGoodAnswersAreKept ==
  /\ remembered \/ cached => phase = "returned_ok"
  /\ cached => ~used_tools /\ parked = {}

\* A run and what follows it come to an end, however often the model asks for tools,
\* unless an event stays with the publisher for ever: the shutdown waits for the
\* scheduled one without a limit.
EveryRunEnds == used_tools ~> (end # "none" \/ []AwaitsPublisher)
=============================================================================
