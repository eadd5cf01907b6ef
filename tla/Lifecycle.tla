----------------------------- MODULE Lifecycle ------------------------------
(***************************************************************************)
(* http_api::serve: the tasks it starts, what each of them keeps alive,    *)
(* and the shutdown sequence: ctrl_c, the drain of the connections, the    *)
(* join of the scheduled trigger, a bounded wait for each background task, *)
(* Arc::try_unwrap of the state and pool.shutdown.                         *)
(***************************************************************************)
EXTENDS Naturals, Sequences, FiniteSets

CONSTANTS
  Requests,   (* requests to the timed routes                            *)
  Streams,    (* requests to /chat/stream                                *)
  FixFlows,   (* requests to /fix-flow                                   *)
  FIX_FLOWS,  (* MAX_CONCURRENT_FIX_FLOW                                 *)
  Drained,    (* the background tasks in the order serve waits for them  *)
  Incident    (* the one of them that runs the incident consumer         *)

Background == {Drained[i] : i \in 1..Len(Drained)}

ASSUME LifecycleAssumption ==
  /\ Len(Drained) \in Nat
  /\ \A i, j \in 1..Len(Drained) : Drained[i] = Drained[j] => i = j
  /\ Incident \in Background
  /\ FIX_FLOWS \in Nat

VARIABLES
  main,      (* where serve stands                                       *)
  waiting,   (* the background task it waits for, as a position          *)
  shutdown,  (* the watch channel says true                              *)
  request,   (* the handlers of the timed routes                         *)
  stream,    (* the forwarding tasks of /chat/stream                     *)
  client,    (* who reads a stream: still reading, stalled or gone       *)
  fix_flow,  (* the tasks spawned by /fix-flow                           *)
  trigger,   (* run_scheduled_trigger                                    *)
  task,      (* the background tasks                                     *)
  pool       (* the MCP sessions: open, or closed by pool.shutdown       *)

vars == <<main, waiting, shutdown, request, stream, client, fix_flow, trigger, task, pool>>

-----------------------------------------------------------------------------
(* A spawned run: not yet, running, at its end, or killed with the runtime. *)
Run == {"none", "running", "ended", "killed"}
Stream == Run \cup {"publishing"}
FixFlow == Run \cup {"refused", "publishing", "aborted"}
Loop == {"idle", "busy", "returned", "killed"}

TypeOK ==
  /\ main \in {"serving", "closing", "joining", "draining", "exited"}
  /\ waiting \in 1..(Len(Drained) + 1)
  /\ shutdown \in BOOLEAN
  /\ request \in [Requests -> Run \ {"killed"}]
  /\ stream \in [Streams -> Stream]
  /\ client \in [Streams -> {"reading", "stalled", "left"}]
  /\ fix_flow \in [FixFlows -> FixFlow]
  /\ trigger \in Loop \cup {"publishing"}
  /\ task \in [Background -> Loop]
  /\ pool \in {"open", "closed"}

Init ==
  /\ main = "serving" /\ waiting = 1 /\ shutdown = FALSE
  /\ request = [r \in Requests |-> "none"]
  /\ stream = [s \in Streams |-> "none"]
  /\ client = [s \in Streams |-> "reading"]
  /\ fix_flow = [f \in FixFlows |-> "none"]
  /\ trigger = "idle"
  /\ task = [w \in Background |-> "idle"]
  /\ pool = "open"

-----------------------------------------------------------------------------
(* Serving                                                                 *)

\* The listener accepts until the shutdown signal.
Accept(r) ==
  /\ main = "serving" /\ request[r] = "none"
  /\ request' = [request EXCEPT ![r] = "running"]
  /\ UNCHANGED <<main, waiting, shutdown, stream, client, fix_flow, trigger, task, pool>>

\* The handler responds, or the TimeoutLayer does.
Respond(r) ==
  /\ request[r] = "running"
  /\ request' = [request EXCEPT ![r] = "ended"]
  /\ UNCHANGED <<main, waiting, shutdown, stream, client, fix_flow, trigger, task, pool>>

OpenStream(s) ==
  /\ main = "serving" /\ stream[s] = "none"
  /\ stream' = [stream EXCEPT ![s] = "running"]
  /\ UNCHANGED <<main, waiting, shutdown, request, client, fix_flow, trigger, task, pool>>

ClientStep(s, from, to) ==
  /\ main # "exited" /\ stream[s] \in {"running", "publishing"} /\ client[s] \in from
  /\ client' = [client EXCEPT ![s] = to]
  /\ UNCHANGED <<main, waiting, shutdown, request, stream, fix_flow, trigger, task, pool>>

\* The client keeps its connection and reads no more of it.
StopReading(s) == ClientStep(s, {"reading"}, "stalled")

\* The connection closes; the forwarding task goes on.
ClientLeaves(s) == ClientStep(s, {"reading", "stalled"}, "left")

ForwarderStep(s, from, to) ==
  /\ stream[s] = from
  /\ stream' = [stream EXCEPT ![s] = to]
  /\ UNCHANGED <<main, waiting, shutdown, request, client, fix_flow, trigger, task, pool>>

\* The turn is over, or was cut by deadline or signal, and its record goes out.
TurnOver(s) == ForwarderStep(s, "running", "publishing")

\* The task ends, and with its sender the response.
EndStream(s) == ForwarderStep(s, "publishing", "ended")

Permits == FIX_FLOWS - Cardinality({f \in FixFlows : fix_flow[f] \in {"running", "publishing"}})

FixFlowStep(f, from, to) ==
  /\ fix_flow[f] = from
  /\ fix_flow' = [fix_flow EXCEPT ![f] = to]
  /\ UNCHANGED <<main, waiting, shutdown, request, stream, client, trigger, task, pool>>

\* /fix-flow answers 429 without a permit, or 202 and goes on in a task of its own.
StartFixFlow(f) ==
  /\ main = "serving"
  /\ FixFlowStep(f, "none", IF Permits > 0 THEN "running" ELSE "refused")

\* The signal is looked at first, and only while the agent runs.
AbortFixFlow(f) == shutdown /\ FixFlowStep(f, "running", "aborted")

\* The run is over, well, badly or after 600 s, and fix_proposed goes out.
FixFlowRan(f) == ~shutdown /\ FixFlowStep(f, "running", "publishing")

EndFixFlow(f) == FixFlowStep(f, "publishing", "ended")

-----------------------------------------------------------------------------
(* The loops: a biased select of the signal and the work, which the signal *)
(* does not interrupt.                                                     *)

LoopStep(from, to) == \/ from = "idle" /\ ~shutdown /\ to = "busy"
                      \/ from = "busy" /\ to = "idle"
                      \/ from = "idle" /\ shutdown /\ to = "returned"

\* The summary of the trigger may wait for the publisher without end, for the events of
\* its tool calls or for the one of its own.
Trigger ==
  /\ \/ trigger' \in Loop /\ LoopStep(trigger, trigger')
     \/ trigger = "busy" /\ trigger' = "publishing"
     \/ trigger = "publishing" /\ trigger' = "idle"
  /\ UNCHANGED <<main, waiting, shutdown, request, stream, client, fix_flow, task, pool>>

Task(w) ==
  /\ \E to \in Loop : LoopStep(task[w], to) /\ task' = [task EXCEPT ![w] = to]
  /\ UNCHANGED <<main, waiting, shutdown, request, stream, client, fix_flow, trigger, pool>>

-----------------------------------------------------------------------------
(* Shutting down                                                           *)

CtrlC ==
  /\ main = "serving"
  /\ main' = "closing" /\ shutdown' = TRUE
  /\ UNCHANGED <<waiting, request, stream, client, fix_flow, trigger, task, pool>>

Connected == {s \in Streams : stream[s] \in {"running", "publishing"} /\ client[s] # "left"}
Responding == {r \in Requests : request[r] = "running"}

\* Faulty variant: axum::serve without the graceful wait.
CloseAtOnce ==
  /\ main = "closing"
  /\ main' = "joining"
  /\ UNCHANGED <<waiting, shutdown, request, stream, client, fix_flow, trigger, task, pool>>

\* axum::serve returns when the last connection has closed.  A handler whose
\* client went away is dropped, which is Respond.
Close ==
  /\ main = "closing" /\ Connected = {} /\ Responding = {}
  /\ main' = "joining"
  /\ UNCHANGED <<waiting, shutdown, request, stream, client, fix_flow, trigger, task, pool>>

\* trigger_handle.await, without a limit.
JoinTrigger ==
  /\ main = "joining" /\ trigger = "returned"
  /\ main' = "draining"
  /\ UNCHANGED <<waiting, shutdown, request, stream, client, fix_flow, trigger, task, pool>>

\* Faulty variant: the drain waits for the task without a limit.
DrainWithoutLimit ==
  /\ main = "draining" /\ waiting <= Len(Drained)
  /\ task[Drained[waiting]] = "returned"
  /\ waiting' = waiting + 1
  /\ UNCHANGED <<main, shutdown, request, stream, client, fix_flow, trigger, task, pool>>

\* timeout(2s, handle): the task has returned, or it is left detached.
Drain ==
  /\ main = "draining" /\ waiting <= Len(Drained)
  /\ waiting' = waiting + 1
  /\ UNCHANGED <<main, shutdown, request, stream, client, fix_flow, trigger, task, pool>>

\* Who still holds an Arc<AppState> besides serve's own `state`: handlers and
\* spawned runs a clone, the trigger and the incident task theirs, and serve the
\* local incident_pipeline, which it does not drop.
Holders ==
  Responding
    \cup {s \in Streams : stream[s] \in {"running", "publishing"}}
    \cup {f \in FixFlows : fix_flow[f] \in {"running", "publishing"}}
    \cup {h \in {"trigger"} : trigger # "returned"}
    \cup {w \in {Incident} : task[w] # "returned"}
    \cup {"incident_pipeline"}

\* Arc::try_unwrap, pool.shutdown if it succeeds, and the end of main: the runtime
\* drops every task that is still there.
Exit ==
  LET Dropped(f, alive) == [x \in DOMAIN f |-> IF f[x] \in alive THEN "killed" ELSE f[x]] IN
  /\ main = "draining" /\ waiting > Len(Drained)
  /\ pool' = IF Holders = {} THEN "closed" ELSE "open"
  /\ main' = "exited"
  /\ stream' = Dropped(stream, {"running", "publishing"})
  /\ fix_flow' = Dropped(fix_flow, {"running", "publishing"})
  /\ task' = Dropped(task, {"idle", "busy"})
  /\ UNCHANGED <<waiting, shutdown, request, client, trigger>>

-----------------------------------------------------------------------------
ShutdownStep == Close \/ JoinTrigger \/ Drain \/ Exit

Next ==
  \/ \E r \in Requests : Accept(r) \/ Respond(r)
  \/ \E s \in Streams :
       OpenStream(s) \/ StopReading(s) \/ ClientLeaves(s) \/ TurnOver(s) \/ EndStream(s)
  \/ \E f \in FixFlows :
       StartFixFlow(f) \/ AbortFixFlow(f) \/ FixFlowRan(f) \/ EndFixFlow(f)
  \/ Trigger
  \/ \E w \in Background : Task(w)
  \/ CtrlC \/ ShutdownStep

Spec == Init /\ [][Next]_vars

\* A handler of a timed route ends within its 240 s; a turn is cut by the signal,
\* unless its client has stalled (ChatStream, StreamIsBounded); the model and tool calls
\* of the scheduled run come back.  Publishing has no limit: an event may be with the
\* publisher for ever, as a background task may be busy and a fix-flow may run for ever.
FairSpec ==
  /\ Spec /\ WF_vars(ShutdownStep) /\ WF_vars(trigger # "publishing" /\ Trigger)
  /\ \A r \in Requests : WF_vars(Respond(r))
  /\ \A s \in Streams : WF_vars(client[s] # "stalled" /\ TurnOver(s))

-----------------------------------------------------------------------------
(* Properties                                                              *)

\* A client that keeps its connection open holds the server up while it does not read,
\* and while the record of its turn is with the publisher.
HeldUp(s) ==
  \/ stream[s] = "running" /\ client[s] = "stalled"
  \/ stream[s] = "publishing" /\ client[s] # "left"

\* Once the signal has come, the process ends, whatever the consumers and the fix-flows
\* are doing and whatever becomes of a stream whose client has left.  Three things
\* alone can keep it: a client that stays and does not read, the record of a turn whose
\* client stays, and the events of the summary, if the publisher never returns.
ShutdownCompletes ==
  shutdown ~> \/ main = "exited"
              \/ \E s \in Streams : []HeldUp(s)
              \/ [](trigger = "publishing")

\* The exit cuts nobody off who is still there: every response is complete, and a
\* stream that is killed before its record has lost its client before.
NoClientIsCutOff ==
  main \in {"joining", "draining", "exited"} =>
    /\ Responding = {}
    /\ \A s \in Streams :
         stream[s] \in {"running", "publishing", "killed"} => client[s] = "left"

-----------------------------------------------------------------------------
(* What the source says, and the code does not do                          *)

\* "the shutdown's Arc::try_unwrap only succeeds after the consumer drains": it
\* does not then either, because of serve's own incident_pipeline.
PoolIsShutDown ==
  main = "exited" =>
    \/ pool = "closed"
    \/ \E w \in Background : task[w] = "killed"
    \/ \E s \in Streams : stream[s] = "killed"
    \/ \E f \in FixFlows : fix_flow[f] = "killed"
=============================================================================
