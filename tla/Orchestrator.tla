---------------------------- MODULE Orchestrator ----------------------------
(***************************************************************************)
(* agent::orchestrator::run_with_messages_in_mode_streaming: the task that *)
(* alternates model rounds and tool rounds and reports each step as a      *)
(* ProgressEvent on a bounded channel.                                     *)
(*                                                                         *)
(* One action is what the task does between two awaits.  What it still has *)
(* to send before it goes on is `todo`, and every send is an await.        *)
(***************************************************************************)
EXTENDS Naturals, FiniteSets, SequencesExt

CONSTANTS
  MaxIterations,  (* max_iterations_for(mode)                            *)
  MaxCalls,       (* bound: tool_use blocks in one round                 *)
  MaxDeltas,      (* bound: text and thinking deltas in the turn         *)
  WriteCalls,     (* the positions at which the model asks for a write   *)
  OrchCapacity    (* mpsc::channel(64) of the orchestrator               *)

ASSUME OrchestratorAssumption ==
  /\ MaxIterations \in Nat \ {0}
  /\ MaxCalls \in Nat /\ MaxDeltas \in Nat
  /\ WriteCalls \subseteq 1..MaxCalls
  /\ OrchCapacity \in Nat \ {0}

VARIABLES
  mode,       (* AgentMode, fixed by the caller's scope                  *)
  pc,         (* where the run stands                                    *)
  iteration,  (* of the loop over max_iterations                         *)
  deltas,     (* deltas so far, for the bound only                       *)
  announced,  (* tool calls of this round announced at block-open        *)
  calls,      (* tool calls of this round, once full_content is known    *)
  todo,       (* events to send before the run goes on                   *)
  orch_chan,  (* orch_tx to orch_rx                                      *)
  proposed,   (* calls of this turn parked in the ApprovalStore          *)
  sent        (* history: the events this run has put on its channel     *)

turn == <<deltas, announced, calls>>
run_vars == <<mode, pc, iteration, turn, todo, orch_chan, proposed, sent>>

-----------------------------------------------------------------------------
(* Types                                                                   *)

Modes == {"read_only", "actionable"}

\* The second field is the call of a tool event, <<iteration, position>>.
NoCall == <<0, 0>>
Calls == (1..MaxIterations) \X (1..MaxCalls)
ProgressEvent ==
  ({"text", "suggestions", "done", "error"} \X {NoCall})
    \cup ({"started", "completed", "pending"} \X Calls)

Done == <<"done", NoCall>>
Error == <<"error", NoCall>>
Started(i) == <<"started", <<iteration, i>>>>
Completed(i) == <<"completed", <<iteration, i>>>>
Pending(i) == <<"pending", <<iteration, i>>>>

\* llm: awaiting stream_chat; draining: awaiting its next event; dispatching:
\* before try_join_all; tools: inside it; reporting: its results go out; ending
\* and failing: the last events go out; the rest: the future is finished.
Running == {"llm", "draining", "dispatching", "tools", "reporting", "ending", "failing"}
Finished == {"returned_ok", "returned_err", "aborted"}

RunTypeOK ==
  /\ mode \in Modes
  /\ pc \in Running \cup Finished
  /\ iteration \in 1..MaxIterations
  /\ deltas \in 0..MaxDeltas /\ announced \in 0..MaxCalls /\ calls \in 0..MaxCalls
  /\ todo \in Seq(ProgressEvent) /\ sent \in Seq(ProgressEvent)
  /\ orch_chan \in Seq(ProgressEvent) /\ Len(orch_chan) <= OrchCapacity
  /\ proposed \subseteq Calls

RunInit ==
  /\ mode \in Modes
  /\ pc = "llm" /\ iteration = 1
  /\ deltas = 0 /\ announced = 0 /\ calls = 0
  /\ todo = <<>> /\ orch_chan = <<>> /\ sent = <<>>
  /\ proposed = {}

-----------------------------------------------------------------------------
\* tx.send(event).await: waits for room in the channel.
SendEvent ==
  /\ todo # <<>> /\ pc \in Running
  /\ Len(orch_chan) < OrchCapacity
  /\ orch_chan' = Append(orch_chan, Head(todo))
  /\ sent' = Append(sent, Head(todo))
  /\ todo' = Tail(todo)
  /\ UNCHANGED <<mode, pc, iteration, turn, proposed>>

\* The run goes on from one stage to the next, with these events to send first.
Go(from, to, events) ==
  /\ pc = from /\ todo = <<>>
  /\ pc' = to
  /\ todo' = events
  /\ UNCHANGED <<mode, iteration, orch_chan, sent>>

-----------------------------------------------------------------------------
(* The model round                                                         *)

OpenStream ==
  /\ Go("llm", "draining", <<>>)
  /\ announced' = 0 /\ calls' = 0
  /\ UNCHANGED <<deltas, proposed>>

\* stream_chat returned Err: `?` leaves the run without an event.
OpenFails == Go("llm", "returned_err", <<>>) /\ UNCHANGED <<turn, proposed>>

Delta ==
  /\ deltas < MaxDeltas
  /\ Go("draining", "draining", << <<"text", NoCall>> >>)
  /\ deltas' = deltas + 1
  /\ UNCHANGED <<announced, calls, proposed>>

ToolUseStart ==
  /\ announced < MaxCalls
  /\ Go("draining", "draining", <<Started(announced + 1)>>)
  /\ announced' = announced + 1
  /\ UNCHANGED <<deltas, calls, proposed>>

\* An Err from the stream, an unexpected stop_reason, a stream that ends without
\* Done, or stop_reason tool_use without a tool_use block.
RoundFails == Go("draining", "failing", <<Error>>) /\ UNCHANGED <<turn, proposed>>

\* end_turn (with or without suggestions), max_tokens and premature_close.
RoundEnds ==
  /\ \/ Go("draining", "ending", <<Done>>)
     \/ Go("draining", "ending", << <<"suggestions", NoCall>>, Done>>)
  /\ UNCHANGED <<turn, proposed>>

-----------------------------------------------------------------------------
(* The tool round                                                          *)

\* Faulty variant: the fallback does not look at what was announced.
ToolUseAnnounceAll(n) ==
  /\ announced \in {0, n}
  /\ Go("draining", "dispatching", [i \in 1..n |-> Started(i)])
  /\ calls' = n
  /\ UNCHANGED <<deltas, announced, proposed>>

\* stop_reason tool_use with n blocks.  A streaming provider has announced them
\* all at block-open, a non-streaming one none: the fallback does it here.
ToolUse(n) ==
  /\ announced \in {0, n}
  /\ Go("draining", "dispatching", [i \in 1..(n - announced) |-> Started(announced + i)])
  /\ calls' = n
  /\ UNCHANGED <<deltas, announced, proposed>>

\* The futures of try_join_all are polled in order.  A read whose arguments are
\* refused ends it there; a write of an actionable turn is proposed on its first
\* poll; a write of a read-only turn becomes a blocked result.
Dispatch(refused) ==
  LET polled == {i \in 1..calls : \A j \in refused : i < j} IN
  /\ refused \subseteq (1..calls) \ WriteCalls
  /\ Go("dispatching", IF refused = {} THEN "tools" ELSE "returned_err", <<>>)
  /\ proposed' = proposed \cup
       (IF mode = "actionable" THEN {iteration} \X (polled \cap WriteCalls) ELSE {})
  /\ UNCHANGED turn

\* The calls of this round that came back with status "pending".
PendingCalls == {i \in 1..calls : <<iteration, i>> \in proposed}

\* Faulty variant: the run goes on after a proposal.
ToolsReturnedNoPause ==
  /\ Go("tools", "reporting", [i \in 1..calls |-> Completed(i)])
  /\ UNCHANGED <<turn, proposed>>

\* All futures are back: one Completed per call, in order, and if a call is
\* pending its first one is announced and the turn is over.
ToolsReturned ==
  LET results == [i \in 1..calls |-> Completed(i)] IN
  /\ \/ PendingCalls = {} /\ Go("tools", "reporting", results)
     \/ \E first \in PendingCalls :
          /\ \A i \in PendingCalls : first <= i
          /\ Go("tools", "ending", results \o <<Pending(first), Done>>)
  /\ UNCHANGED <<turn, proposed>>

NextIteration ==
  /\ pc = "reporting" /\ todo = <<>>
  /\ iteration < MaxIterations
  /\ iteration' = iteration + 1
  /\ pc' = "llm"
  /\ UNCHANGED <<mode, turn, todo, orch_chan, proposed, sent>>

TooManyIterations ==
  /\ iteration = MaxIterations
  /\ Go("reporting", "failing", <<Error>>)
  /\ UNCHANGED <<turn, proposed>>

Return ==
  /\ \/ Go("ending", "returned_ok", <<>>)
     \/ Go("failing", "returned_err", <<>>)
  /\ UNCHANGED <<turn, proposed>>

-----------------------------------------------------------------------------
\* The steps that wait for a model or a tool server, which may never answer.
OutsideStep ==
  \/ OpenStream \/ OpenFails \/ Delta \/ ToolUseStart \/ RoundFails \/ RoundEnds
  \/ \E n \in 1..MaxCalls : ToolUse(n)
  \/ ToolsReturned

\* The steps that wait for the runtime only.
OwnStep ==
  \/ SendEvent
  \/ \E refused \in SUBSET (1..MaxCalls) : Dispatch(refused)
  \/ NextIteration \/ TooManyIterations \/ Return

RunStep == OutsideStep \/ OwnStep
=============================================================================
