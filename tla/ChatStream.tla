----------------------------- MODULE ChatStream -----------------------------
(***************************************************************************)
(* http_api::chat_stream: POST /chat/stream.  The orchestrator's task, the *)
(* forwarding task and the client's SSE response are connected by two      *)
(* bounded channels; the forwarder races events against the deadline and   *)
(* the shutdown signal and writes the chat_completed record of the turn.   *)
(***************************************************************************)
EXTENDS Orchestrator

CONSTANT SseCapacity  (* mpsc::channel(64) of the response *)

ASSUME SseCapacityAssumption == SseCapacity \in Nat \ {0}

VARIABLES
  fwd,        (* where the forwarding task stands                        *)
  held,       (* the event it is sending to the response, at most one    *)
  trace,      (* tool_trace                                              *)
  done_seen,  (* tokens and iterations have been set                     *)
  succeeded,  (* its local of that name                                  *)
  cut,        (* timed_out, shutdown_aborted                             *)
  elapsed,    (* STREAM_DEADLINE_SECS have passed                        *)
  shutdown,   (* the watch channel says true                             *)
  sse_chan,   (* sse_tx to sse_rx                                        *)
  client,     (* the HTTP client                                         *)
  seen        (* history: the events the client received                 *)

record == <<trace, done_seen, succeeded>>
signals == <<elapsed, shutdown>>
response == <<sse_chan, client, seen>>
vars == <<run_vars, fwd, held, record, cut, signals, response>>

-----------------------------------------------------------------------------
(* Types                                                                   *)

\* The record has been made up: chat_completed is published, the interaction is
\* remembered, and the task ends, which closes the response.
Over == {"publishing", "remembering", "ended"}
Forwarder == {"selecting", "forwarding", "cutting", "joining"} \cup Over

TypeOK ==
  /\ RunTypeOK
  /\ fwd \in Forwarder
  /\ held \in Seq(ProgressEvent) /\ Len(held) <= 1
  /\ trace \in Seq(Calls)
  /\ done_seen \in BOOLEAN /\ succeeded \in BOOLEAN
  /\ cut \in {"no", "timeout", "shutdown"}
  /\ elapsed \in BOOLEAN /\ shutdown \in BOOLEAN
  /\ sse_chan \in Seq(ProgressEvent) /\ Len(sse_chan) <= SseCapacity
  /\ client \in {"reading", "left"}
  /\ seen \in Seq(ProgressEvent)

Init ==
  /\ RunInit
  /\ fwd = "selecting" /\ held = <<>>
  /\ trace = <<>> /\ done_seen = FALSE /\ succeeded = TRUE
  /\ cut = "no"
  /\ elapsed = FALSE /\ shutdown = FALSE
  /\ sse_chan = <<>> /\ client = "reading" /\ seen = <<>>

-----------------------------------------------------------------------------
(* The select loop                                                         *)

\* Faulty variant: a select without the deadline.
CutOnShutdownOnly ==
  /\ fwd = "selecting" /\ shutdown
  /\ cut' = "shutdown"
  /\ fwd' = "cutting" /\ held' = <<Error>>
  /\ succeeded' = FALSE
  /\ pc' = IF pc \in Running THEN "aborted" ELSE pc
  /\ UNCHANGED <<mode, iteration, turn, todo, orch_chan, proposed, sent,
                 trace, done_seen, signals, response>>

\* The signal comes first in the biased select, then the deadline; either ends
\* the loop and aborts the orchestrator at the await where it stands.
Cut ==
  /\ fwd = "selecting" /\ (shutdown \/ elapsed)
  /\ cut' = IF shutdown THEN "shutdown" ELSE "timeout"
  /\ fwd' = "cutting" /\ held' = <<Error>>
  /\ succeeded' = FALSE
  /\ pc' = IF pc \in Running THEN "aborted" ELSE pc
  /\ UNCHANGED <<mode, iteration, turn, todo, orch_chan, proposed, sent,
                 trace, done_seen, signals, response>>

\* What an event adds to the record of the turn.
Noted(ev) ==
  /\ trace' = IF ev[1] = "completed" THEN Append(trace, ev[2]) ELSE trace
  /\ done_seen' = (done_seen \/ ev = Done)
  /\ succeeded' = (succeeded /\ ev # Error)

Recv ==
  /\ fwd = "selecting" /\ ~shutdown /\ ~elapsed
  /\ orch_chan # <<>>
  /\ orch_chan' = Tail(orch_chan)
  /\ Noted(Head(orch_chan))
  /\ fwd' = "forwarding" /\ held' = <<Head(orch_chan)>>
  /\ UNCHANGED <<mode, pc, iteration, turn, todo, proposed, sent, cut, signals,
                 response>>

\* recv is None: the orchestrator has returned and dropped its sender.
RecvNone ==
  /\ fwd = "selecting" /\ ~shutdown /\ ~elapsed
  /\ orch_chan = <<>> /\ pc \in Finished
  /\ fwd' = "joining"
  /\ UNCHANGED <<run_vars, held, record, cut, signals, response>>

\* Faulty variant: a full response channel loses the event (try_send).
ForwardOrLose ==
  /\ fwd \in {"forwarding", "cutting"}
  /\ sse_chan' = IF client = "reading" /\ Len(sse_chan) < SseCapacity
                 THEN sse_chan \o held ELSE sse_chan
  /\ held' = <<>>
  /\ fwd' = IF fwd = "forwarding" THEN "selecting" ELSE "publishing"
  /\ UNCHANGED <<run_vars, record, cut, signals, client, seen>>

\* sse_tx.send(ev).await: waits for room, and fails at once when the client is
\* gone, which is ignored.
Forward ==
  /\ fwd \in {"forwarding", "cutting"}
  /\ \/ client = "left" /\ UNCHANGED sse_chan
     \/ client = "reading" /\ Len(sse_chan) < SseCapacity /\ sse_chan' = sse_chan \o held
  /\ held' = <<>>
  /\ fwd' = IF fwd = "forwarding" THEN "selecting" ELSE "publishing"
  /\ UNCHANGED <<run_vars, record, cut, signals, client, seen>>

\* Faulty variant: the result of the orchestrator is not looked at.
JoinWithoutResult ==
  /\ fwd = "joining"
  /\ fwd' = "publishing"
  /\ UNCHANGED <<run_vars, held, record, cut, signals, response>>

\* orch_handle.await.
Join ==
  /\ fwd = "joining"
  /\ succeeded' = (succeeded /\ pc # "returned_err")
  /\ fwd' = "publishing"
  /\ UNCHANGED <<run_vars, held, trace, done_seen, cut, signals, response>>

\* publish_event("chat_completed", ...); a failure is only logged.
PublishCompleted ==
  /\ fwd = "publishing"
  /\ fwd' = IF succeeded THEN "remembering" ELSE "ended"
  /\ UNCHANGED <<run_vars, held, record, cut, signals, response>>

\* remember_interaction; a failure is only logged.
Remember ==
  /\ fwd = "remembering"
  /\ fwd' = "ended"
  /\ UNCHANGED <<run_vars, held, record, cut, signals, response>>

-----------------------------------------------------------------------------
(* Around it                                                               *)

Read ==
  /\ client = "reading" /\ sse_chan # <<>>
  /\ seen' = Append(seen, Head(sse_chan))
  /\ sse_chan' = Tail(sse_chan)
  /\ UNCHANGED <<run_vars, fwd, held, record, cut, signals, client>>

\* The connection closes: hyper drops the response with its receiver.
Leave ==
  /\ client = "reading"
  /\ client' = "left" /\ sse_chan' = <<>>
  /\ UNCHANGED <<run_vars, fwd, held, record, cut, signals, seen>>

Elapse ==
  /\ ~elapsed /\ fwd \notin Over
  /\ elapsed' = TRUE
  /\ UNCHANGED <<run_vars, fwd, held, record, cut, shutdown, response>>

Shutdown ==
  /\ ~shutdown /\ fwd \notin Over
  /\ shutdown' = TRUE
  /\ UNCHANGED <<run_vars, fwd, held, record, cut, elapsed, response>>

-----------------------------------------------------------------------------
OrchestratorStep(step) == step /\ UNCHANGED <<fwd, held, record, cut, signals, response>>

ForwarderStep ==
  \/ Cut \/ Recv \/ RecvNone \/ Forward \/ Join \/ PublishCompleted \/ Remember

Next ==
  \/ OrchestratorStep(RunStep)
  \/ ForwarderStep
  \/ Read \/ Leave
  \/ Elapse \/ Shutdown

Spec == Init /\ [][Next]_vars

\* The runtime schedules the server's own steps and its timer; the model and the
\* tool servers may never answer.  What the client does is open.
ServerFairness ==
  /\ WF_vars(OrchestratorStep(OwnStep))
  /\ WF_vars(ForwarderStep)
  /\ WF_vars(Elapse)

StalledSpec == Spec /\ ServerFairness

\* The client goes on reading, or TCP finds out that it is gone.
FairSpec == Spec /\ ServerFairness /\ WF_vars(Read \/ Leave)

-----------------------------------------------------------------------------
(* Properties                                                              *)

\* The client of a turn that was not cut off sees what the orchestrator reported,
\* complete and in order; of one that was cut off, a prefix of it and one Error.
StreamIsFaithful ==
  LET passed == seen \o sse_chan \o held IN
  client = "reading" =>
    IF cut = "no" THEN passed \o orch_chan = sent
    ELSE passed # <<>> /\ Last(passed) = Error /\ IsPrefix(Front(passed), sent)

\* How many of the first n of these events are results.
ResultsAmong(events, n) == Cardinality({j \in 1..n : events[j][1] = "completed"})

\* tool_trace has the calls of the results among the first n events, in their order.
Recorded(events, n) ==
  /\ Len(trace) = ResultsAmong(events, n)
  /\ \A i \in 1..n : events[i][1] = "completed" => trace[ResultsAmong(events, i)] = events[i][2]

\* chat_completed never calls a turn a success that was not: the run returned Ok,
\* its Done and every tool result that the run reported are in the record, and
\* only then is the interaction remembered.
RecordTellsTheTruth ==
  fwd \in Over /\ (succeeded \/ fwd = "remembering") =>
    /\ pc = "returned_ok" /\ done_seen /\ succeeded
    /\ Recorded(sent, Len(sent))

\* The client can pair them: each tool call is announced exactly once, whether at
\* block-open or by the fallback, before its result, and has one result at most.
CallsPairUp ==
  \A i \in 1..Len(sent) :
    /\ sent[i][1] = "completed" =>
         \E j \in 1..(i - 1) : sent[j] = <<"started", sent[i][2]>>
    /\ sent[i][1] \in {"started", "completed"} =>
         \A j \in 1..(i - 1) : sent[j] # sent[i]

\* A proposal ends the turn: no model round follows it in which the agent could
\* act on an unapproved write, and a turn that returns Ok has told the client the
\* action id of every write it parked.
ProposalsEndTheTurn ==
  /\ \A c \in proposed : c[1] = iteration
  /\ pc = "returned_ok" =>
       /\ \A c \in proposed : Contains(sent, <<"completed", c>>)
       /\ proposed # {} => \E c \in proposed : Contains(sent, <<"pending", c>>)

\* A turn outlives its deadline only by what the client takes to read or leave.
StreamIsBounded == elapsed ~> fwd \in Over

-----------------------------------------------------------------------------
(* What the source says, and the code does not do                          *)

\* "Done is terminal ... Error is also terminal on the failure path": a client
\* that read its stream to the end has seen one terminal event, the last.
OneTerminalEvent ==
  client = "reading" /\ fwd = "ended" /\ sse_chan = <<>> =>
    /\ Len(SelectSeq(seen, LAMBDA ev : ev \in {Done, Error})) = 1
    /\ Last(seen) \in {Done, Error}

\* "the hard bound on a concurrency slot": whatever the client does.
DeadlineIsHard == elapsed ~> fwd \in Over
=============================================================================
