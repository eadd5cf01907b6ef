------------------------------ MODULE AgentRun ------------------------------
(***************************************************************************)
(* agent::orchestrator::run_with_messages_in_mode: the run without a       *)
(* stream, as one future inside its caller.  It alternates calls of the    *)
(* model and rounds of concurrent tool calls; unlike the streaming run it  *)
(* goes on after a proposal.                                               *)
(***************************************************************************)
EXTENDS Naturals, Sequences

CONSTANTS
  MaxRounds,  (* max_iterations                          *)
  MaxCalls    (* bound: tool_use blocks in one round     *)

ASSUME AgentAssumption == MaxRounds \in Nat \ {0} /\ MaxCalls \in Nat \ {0}

VARIABLES
  mode,        (* AgentMode                                              *)
  phase,       (* where the run stands                                   *)
  round,       (* of the loop over max_iterations                        *)
  calls,       (* the calls of the round: read or write                  *)
  back,        (* those whose future has returned                        *)
  trace,       (* tool_trace: the calls of the rounds that are over      *)
  parked,      (* the calls that are proposals in the ApprovalStore      *)
  used_tools   (* history: the model has asked for a tool                *)

run_vars == <<mode, phase, round, calls, back, trace, parked, used_tools>>

-----------------------------------------------------------------------------
(* Types                                                                   *)

Running == {"llm", "dispatching", "tools"}
Calls == (1..MaxRounds) \X (1..MaxCalls)

\* write: requires_approval in the specs this run offers; a tool that they do not
\* name counts as a read.
Kinds == {"read", "write"}

RunTypeOK ==
  /\ mode \in {"read_only", "actionable"}
  /\ phase \in Running \cup {"returned_ok", "returned_err"}
  /\ round \in 1..MaxRounds
  /\ calls \in Seq(Kinds) /\ Len(calls) <= MaxCalls
  /\ back \subseteq 1..Len(calls)
  /\ trace \subseteq Calls /\ parked \subseteq Calls
  /\ used_tools \in BOOLEAN

RunInit ==
  /\ phase = "llm" /\ round = 1
  /\ calls = <<>> /\ back = {} /\ trace = {} /\ parked = {}
  /\ used_tools = FALSE

-----------------------------------------------------------------------------
\* end_turn and max_tokens.
ModelAnswers ==
  /\ phase = "llm" /\ phase' = "returned_ok"
  /\ UNCHANGED <<mode, round, calls, back, trace, parked, used_tools>>

\* Err, any other stop_reason, tool_use without a call.
ModelFails ==
  /\ phase = "llm" /\ phase' = "returned_err"
  /\ UNCHANGED <<mode, round, calls, back, trace, parked, used_tools>>

ModelAsks(asked) ==
  /\ phase = "llm" /\ phase' = "dispatching"
  /\ calls' = asked /\ back' = {} /\ used_tools' = TRUE
  /\ UNCHANGED <<mode, round, trace, parked>>

Writes(upto) == {i \in 1..upto : calls[i] = "write"}

\* The first poll of every future, in order.  A write is over with it: proposed in
\* actionable mode, answered with a refusal in read-only mode.
Dispatch ==
  /\ phase = "dispatching" /\ phase' = "tools"
  /\ back' = Writes(Len(calls))
  /\ parked' = IF mode = "actionable" THEN parked \cup {round} \X back' ELSE parked
  /\ UNCHANGED <<mode, round, calls, trace, used_tools>>

\* A read whose name or arguments the pool does not accept is an Err on its first
\* poll, which ends try_join_all and the run; the writes before it are proposed.
DispatchFails(i) ==
  /\ phase = "dispatching" /\ phase' = "returned_err"
  /\ calls[i] = "read"
  /\ parked' = IF mode = "actionable" THEN parked \cup {round} \X Writes(i) ELSE parked
  /\ UNCHANGED <<mode, round, calls, back, trace, used_tools>>

\* A read comes back, with a result or with a failure that becomes its result.
ToolReturns(i) ==
  /\ phase = "tools" /\ i \in (1..Len(calls)) \ back
  /\ back' = back \cup {i}
  /\ UNCHANGED <<mode, phase, round, calls, trace, parked, used_tools>>

\* Faulty variants: the trace of the last round only; a loop that does not count.
RoundOverForgets ==
  /\ phase = "tools" /\ back = 1..Len(calls)
  /\ trace' = {round} \X back
  /\ IF round < MaxRounds THEN round' = round + 1 /\ phase' = "llm"
     ELSE phase' = "returned_err" /\ UNCHANGED round
  /\ UNCHANGED <<mode, calls, back, parked, used_tools>>

RoundOverUncounted ==
  /\ phase = "tools" /\ back = 1..Len(calls)
  /\ trace' = trace \cup {round} \X back
  /\ phase' = "llm"
  /\ UNCHANGED <<mode, round, calls, back, parked, used_tools>>

\* All are back: traces and results are kept in the order of the calls, and the
\* model is asked again, or has been asked max_iterations times.
RoundOver ==
  /\ phase = "tools" /\ back = 1..Len(calls)
  /\ trace' = trace \cup {round} \X back
  /\ IF round < MaxRounds THEN round' = round + 1 /\ phase' = "llm"
     ELSE phase' = "returned_err" /\ UNCHANGED round
  /\ UNCHANGED <<mode, calls, back, parked, used_tools>>

-----------------------------------------------------------------------------
\* What the traces of a run say of proposals: status pending.  The first of some calls,
\* in the order of the rounds and their calls, as a set of one, or of none.
Pending == trace \cap parked

Before(c, d) == c[1] < d[1] \/ (c[1] = d[1] /\ c[2] <= d[2])
First(S) == {c \in S : \A d \in S : Before(c, d)}

RunStep ==
  \/ ModelAnswers \/ ModelFails
  \/ \E n \in 1..MaxCalls : \E asked \in [1..n -> Kinds] : ModelAsks(asked)
  \/ Dispatch
  \/ \E i \in 1..Len(calls) : DispatchFails(i) \/ ToolReturns(i)
  \/ RoundOver
=============================================================================
