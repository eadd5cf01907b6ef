# A verification of mcp-master

mcp-master is a Rust server (axum, tokio) that lets a language model work with the tools of
several MCP servers. It answers chats, asks a human before it writes anything, diagnoses
incidents it takes from RabbitMQ, and tells the other services on the broker what it does.
This directory holds TLA+ models of the parts whose correctness depends on the order in which
tasks run or on what fails in between, TLC configurations that check them on small instances,
and proofs, checked by TLAPS, for every instance.

Paths below are relative to `src/src/`. `PROJECT.json` maps every definition to its lines.

## 1. The system

| Component | State it keeps | Operations | Interacts with |
|---|---|---|---|
| Approval gate, `gateway/approval/` | `ApprovalStore`, a DashMap of `PendingAction` | propose, confirm, reject, mark_executed, cleanup_expired | chat turns, `/chat/approve`, `/chat/reject`, the sweeper task, MCP pool, audit |
| Audit, `gateway/audit.rs` | none | publish, failures only logged | publisher |
| MCP pool, `mcp.rs` | sessions, each behind a mutex; tool routing table | connect, call, shutdown | MCP servers, publisher |
| Orchestrator, `agent/orchestrator.rs`, `agent/modes/` | the conversation of one turn | model rounds, tool rounds; with events in the streaming run | LLM client, pool, approval gate, its callers |
| LLM client, `agent/llm/` | attempt; block accumulators of one stream | chat, stream_chat: request, retry, decode | model API, orchestrator |
| Callers of the agent: `/chat`, `fix_flow.rs`, scheduled trigger, `incident/diagnose.rs` | the run's outcome | run, then suggest, publish, remember, store, post, compose | orchestrator, memory, cache, publisher, Teams |
| Chat stream, `http_api.rs` `chat_stream` | two bounded channels, the turn's record | forward, abort at deadline or shutdown, record | orchestrator, client, publisher, memory |
| Response cache, `memory/minimal.rs` | SQLite table | lookup, store, sweep, clear | chat, forget_memory |
| Memory, `memory/service.rs` | ingest queue, vector store | remember_interaction, worker, forget_user | chat, chat_stream, forget_memory |
| Incident consumer, `incident/consumer.rs` | durable queue at the broker | consume, decode, guard, diagnose, ack or nack | budget, debouncer, pipeline, publisher |
| Incident guards, `incident/budget.rs`, `debounce.rs` | hourly budget with circuit breaker; last diagnosis per service | try_consume, check | incident consumer |
| Recovery forwarder, `incident/recovery.rs` | durable queue at the broker | consume, decode, publish incident_resolved | publisher |
| Publisher, `rabbitmq/publisher.rs` | one connection and channel behind a mutex | publish_event with reconnect and one retry | every component above |
| Heartbeat tap, `heartbeat.rs` | last-seen map | insert, snapshot for `/status` | broker |
| Own heartbeat, `rabbitmq/heartbeat.rs` | session, attempt count | connect, beat, back off | broker, the watchdog of Controlroom |
| Lifecycle, `http_api.rs` `serve` | the tasks and the shutdown signal | start, drain, join, pool.shutdown | everything |
| Scheduled trigger, `http_api.rs` | latch of the last minute it fired in | tick, run the prompt, post | orchestrator, memory, Teams |
| Fix-flow, `fix_flow.rs` | background runs, two permits | start, run, publish fix_proposed | orchestrator, lifecycle |
| Legacy consumer, `rabbitmq/consumer.rs` | none | log deliveries (no_ack) | broker |
| JWT scopes, prompts, repository map, metrics, Teams, command line | none, or counters nothing reads | pure functions and single I/O calls | |

What is hard in it, and where:

- **Interleaving.** Requests and background tasks run on a multi-threaded runtime and share
  DashMaps and mutexes. Confirm, reject and sweep of one proposal race; the sweeper looks under
  one lock and removes under another; an erasure is two steps with turns in flight in between.
- **Dropped futures.** The TimeoutLayer (240 s) or a closed connection drops a handler at any
  await: between the approval and the tool call, in a mutex, in a bounded channel.
- **Retries.** A tools/call that timed out may have run and is written again; an unacknowledged
  incident is delivered again; an event is published again after a reconnect.
- **Lost and late messages.** No publisher confirms; deliveries that are still in a buffer when
  their connection is gone; heartbeats that overtake each other, from clocks that differ.
- **Bounded resources.** Two channels in a row with a client that may not read; one session
  mutex per MCP server; one publisher mutex for the process; one consumer task per queue.
- **Restart.** Budget and debouncer live in memory; the queues at the broker do not.
- **Streams that break.** The model's answer comes in pieces of interleaved blocks, and may end
  anywhere; what was shown to the client and what the agent acts on must agree.
- **Proposals without a reader.** A run that parks a write must tell somebody, in whatever round it
  did and whoever started it.
- **Clocks.** A trigger fires by the minute, looked at every 30 s, late, in bursts, over restarts.
- **Shutdown.** Streams, fix-flows and consumers must neither hold up the exit nor be cut off.

`PROJECT.json` lists these hazards one by one, each at its line, with the properties that watch it.

## 2. The modules

| Module | Models | Checked by run | Proofs |
|---|---|---|---|
| `Approval` | approval gate with its HTTP handlers, sweeper and audit | `approval` | `ApprovalProofs` |
| `WritePermit` | abstract: a one-shot permit for a write | `approval` (refinement) | `ApprovalProofs` |
| `ToolCall` | abstract: one call of a tool | `pool` (refinement) | `PoolProofs`, `ApprovalProofs` |
| `McpPool` | start-up of the pool, routing, calls, failing servers | `pool` | `PoolProofs` |
| `IncidentGuards` | Budget and Debouncer as operators on their state | `incident` | `IncidentProofs` |
| `DurableQueue` | abstract: a durable queue and its one consumer | `incident`, `recovery` (refinement) | `IncidentProofs`, `RecoveryProofs` |
| `IncidentConsumer` | queue, consumer task, handler, guards, pipeline | `incident` | `IncidentProofs` |
| `Publisher` | the shared publisher | `recovery` | `RecoveryProofs` |
| `Recovery` | recovery queue and forwarder on top of `Publisher` | `recovery` | `RecoveryProofs` |
| `Orchestrator` | one streaming run of the agent | `stream*` | `TurnProofs` |
| `ChatStream` | forwarder, client, deadline and shutdown around `Orchestrator` | `stream*` | `TurnProofs` |
| `ModelRound` | abstract: what one call of the model promises its caller | `lifecycle` (refinement) | `TurnProofs` |
| `LlmClient` | one call of chat or stream_chat: requests, retries, SSE blocks | `lifecycle`, part `model` | `TurnProofs` |
| `AgentRun` | one run of the agent without a stream | `lifecycle`, part `agent` | `ServeProofs` |
| `AgentCallers` | `/chat`, fix-flow, scheduled summary and diagnosis around `AgentRun` | `lifecycle`, part `agent` | `ServeProofs` |
| `ScheduledTrigger` | clock, ticker and latch of the daily summary | `lifecycle`, part `trigger` | `ServeProofs` |
| `Lifecycle` | serve and its shutdown | `lifecycle`, part `lifecycle`; `lifecycle_unwrap` | `ServeProofs` |
| `ChatMemory` | cache, ingest, store and erasure | `memory*` | `ChatMemoryProofs` |
| `Heartbeats` | heartbeat tap, `/status` | `heartbeats`, part `tap` | `HeartbeatsProofs` |
| `OwnHeartbeat` | own heartbeat, its connection and the broker | `heartbeats`, part `own` | `HeartbeatsProofs` |

One action is what a task does between two points where another can be scheduled: an await, or
the release of a lock. Definitions called *Faulty variant* are plausible bugs of the definition
after them. No specification uses them; each is there to show that a property would notice.

### Approval

`store` is the DashMap: an entry with status, owner, expiry and outcome, or `Absent`. `req` holds
the handlers of `/chat/approve` and `/chat/reject`, with the await they are parked at. `Propose`
inserts; `Confirm` and `Reject` are `try_transition` under the entry lock, with the predicate
(`Verdict`) that looks at status, owner and expiry; the steps after them send the tool call, retry
it once, publish the audit events, mark the entry executed. That takes the entry lock twice, for the
status (`MarkExecuted`) and for the result (`SetExecutionMetadata`), with no await in between: an entry
can be Executed without a result for that moment (stage `marked`). `Drop` is the TimeoutLayer or a
disconnect at any await. The sweeper is five actions: the tick, a visit of one entry (its shard
lock), the removal by id, the publishing of action_expired. An audit event may be lost.
`sends` and `audit` are histories.
To the handlers the pool is `ToolCall`: `CallPhase`, `CallResult` and `CallWire` read a call off its request.

### MCP pool

`startup`, `next`, `connected`, `listed` follow `McpPool::connect`: sessions one after the other,
then tools/list (without a time limit: `ListTools` is disabled on a hung server), then the routing
table, numbered by the lists that are left: `keep_indices` are the sessions whose list came, and a
server moves up to its `Rank` among them. `queue` is the mutex of each session, which tokio
grants in order of arrival. A call is refused, or waits, holds, tries, reopens, tries again,
releases and publishes. `live` is the set of servers that still know the session opened to them
last; a server is up, down or hung. `excused` remembers that something failed *while* the call
held its session; a session that was stale before is no excuse.

### Incident consumer

Messages are numbered in queue order. `ready` and `unacked` are the broker's, `buffer` is what the
lapin stream has taken in and the task has not yet yielded: no prefetch is set, so the broker
pushes all it has. `LoseConnection` requeues what is not settled and leaves the buffer; the task
finds out between two deliveries (`EndSession`). `Crash` also resets budget and debouncer. `Take`
with `Undecodable`, `SkipLowSeverity`, `SkipDebounced`, `SkipCircuitOpen` and `Accept` are the
handler up to its first await, `DiagnoseReturns` and `DiagnoseTimedOut` the end of the pipeline,
`Reply` the ack or nack. Which diagnosis comes out, and the event about it, are data; the events
are the subject of `Publisher`. The broker itself stays up in this model; it fails in `Recovery`.

To the publisher of an incident all this is `DurableQueue`: messages in hand one at a time, first
handled in their order, settled only when handled, and never seen again once settled. A message is
`kept` while it is in `ready` or `unacked`; what a lost connection leaves in the buffer is no promise.

### Publisher and recovery forwarder

`lock` is the mutex, `channel` what the publisher holds: live, dying (the connection is gone and
lapin has not noticed, so that a write is Ok and lost, or fails), dead (`status()` says so).
`Acquire` contains the pre-flight look; `Reopened`, `Taken`, `Written`, `WriteFails` and `AttemptFails` the
rest of `publish_event`. A write is two steps: the broker takes the event (`Taken`), and `do_publish`
returns. Connection, broker or process can fail in between; then the retry doubles the event, and if the
broker failed, the redelivery of the recovery doubles it once more (`outages` counts these failures).
`Recovery` adds the queue (as above) and the forwarder as one caller,
and another task as a second one that may be dropped while it publishes. A process that is started
while the broker is down runs without publisher and consumers for good (`running`). `handled`, the
messages whose handling came to its end, is a history: queue and forwarder are `DurableQueue` too.

### Orchestrator and chat stream

`todo` is what the run still has to send before it goes on; each send waits for room in
`orch_chan`. A model round yields deltas and announces tool calls at block-open (`Started`), or
after the block (the fallback); a tool round dispatches them concurrently; writes are parked in
actionable mode and end the turn, and refused in read-only mode, which fails the run. The
forwarder (`fwd`) selects in this order: shutdown, deadline, events, as the biased select does. It
forwards, aborts the run with an Error event when it is cut, joins the run, publishes
chat_completed and remembers the interaction. The client reads or leaves.

### LLM client

`stage` follows a call: sending, backing off, then the body of `chat` or the events of
`stream_chat`. `accumulators` is the map from block index to what has come of it (`parts` counts
deltas, `whole` says whether the JSON of a call parses or a thinking block is signed). `MessageStop`
finalizes every block and fails on one that does not parse; `StreamEnds`, the end without
message_stop, drops those instead. `chat` has 180 s per request; `stream_chat` has no timer of its own.
`ModelRound` is what the orchestrator relies on: pieces, then at most one outcome that says what the
pieces said, and calls that were all started, with all their arguments. The API server is external:
the guards marked so are what it may send.

### Agent runs without a stream

`AgentRun` is `run_with_messages_in_mode`, one future: the model answers, fails or asks for calls;
the first poll of their futures (`Dispatch`) parks or refuses the writes and may fail the run on a
read whose name or arguments the pool refuses; reads come back in any order. Unlike the streaming
run it goes on after a proposal. `AgentCallers` adds the four that start it: `todo` holds the steps
each has left (suggest, publish, remember, store, Teams, compose), `end` how it ended: its own end,
a failure, the time limit or connection (`Dropped`), the signal (`Aborted`, fix-flow only) or the
process (`Killed`). A tool's class is what the offered list says, as in the code
(`orchestrator.rs:317`): a name that is not offered counts as a read.

### Scheduled trigger

`minute` and `second` are the wall clock, `due` the next tick of the interval, which keeps its
schedule and comes in a burst after a long run. A tick reads the clock twice: `Tick` for the key
(`seen`), and `Decide`, up to `MaxGap` later, for the triggers, so the two may lie in different minutes.
`latch` is the time of day of the last key that fired, seeded
at the start of the process. The run itself is `AgentCallers` with the caller `scheduled`; here it
only takes time. `up_since`, the minute the process started in, `ended`, whether a run ended in this
minute, and `fired`, which counts by the minute of the key, are histories.

### Chat memory

A turn looks its conversation up in the cache, or runs; then it sends its interaction into the
ingest queue (it waits for room), and a turn without tool calls stores its answer. The worker
embeds one interaction at a time into the store; a write that timed out at the client
(`memory/store.rs:48`) is assumed not to land any later. `forget_memory` clears the cache, then deletes
the user's points. Rows expire by their age at lookup and by a sweep.

### Lifecycle

The tasks of `serve` and the shutdown: the signal, the end of the accept loop when every connection
is done, the join of the trigger, a bounded wait for each background task in turn, `try_unwrap` of
the state, `pool.shutdown`, exit. Tasks that are left are killed with the runtime. Fix-flows take a
permit or answer 429, are aborted by the signal while the agent runs, and publish unhindered by it.
The client of a stream reads, has stalled (it keeps its connection and reads no more) or has left
(`client`); the stream's task forwards, then publishes its record, and only its end closes the response.
The trigger's summary ends with an event too (`publishing`).

### Heartbeats

`Heartbeats` is what `/status` makes of the beats of all services, mcp-master's among them. Time is
discrete and finer than a second. `skew` is each sender's clock minus ours, `MaxDelay` what the broker and
the network may take. A timestamp is missing, exact, or cut to whole seconds, as our own is
(`WholeSecond`). `Deliver` inserts into the map whatever was there; `Fresh` is the verdict of `/status`, on
an age that `num_seconds` cuts to whole seconds (`Seconds`). A tap that lost its connection still reads what
it had buffered.

`OwnHeartbeat` is the publisher, in seconds. A session connects (refused, left waiting up to the deadline, or
shaken hands with), opens channel and exchange (no deadline), then looks at its channel before each
beat, publishes or bails, and backs off with a cap. Its `attempt` is never reset, as in the code. The jitter (less
than 500 ms) is less than a tick. `link` is what has become of its connection: a `lost` one still counts as
connected, and a beat on it returns Ok and gets nowhere, or pends, until the loss is noticed (`closed`).
The broker is well, half up (no handshake), mute (no answer to a request for a channel) or down. Two
bounds are the environment's, not the code's, and named as constants: `MaxReply`, within which a well broker answers,
and `NoticeTime`, within which lapin's AMQP heartbeats notice a lost connection.

## 3. The runs

| Run | Instance | Shows |
|---|---|---|
| `approval` | 1 action, 2 users, 3 requests, TTL 1, clock to 2 | one decision per proposal; a write only under its owner's approval; executed means sent; the audit trail is consistent; the sweeper takes no approved entry; proposals are settled; the gate implements `WritePermit`, which allows two sends |
| `incident` | 3 services, 3 incidents of 5 sorts, budget 1 per window of 2, debounce 2, clock to 4, 1 fault | consumer and broker implement `DurableQueue` (handled before settled, in order, never after); twice the budget at most in any window, no spurious circuit, spaced diagnoses, everything settled |
| `recovery` | 2 recoveries, one more publishing task, 2 faults | an event is lost only if a fault met it, and each copy after the first costs a fault, of which a failure of the broker pays for two; queue and forwarder implement `DurableQueue`; the queue moves on |
| `stream` | 2 rounds, 2 calls a round (the second a write), 1 delta, channels of 1 | the client sees a faithful stream, the record is true, calls pair up, a proposal ends the turn, the turn ends after its deadline |
| `memory` | 3 turns, 2 users, 2 conversations, 1 erasure, queue of 1 | cached answers are fresh and of the same cache key; an erasure holds for all that was settled |
| `lifecycle` | four parts side by side, see below | the exit cuts nobody off, and comes unless a stalled client or the publisher keeps it; no caller keeps a proposal to itself or keeps an answer it must not; agent runs end; a model call implements `ModelRound` and comes back; no trigger is missed, no minute has two summaries |
| `pool` | 2 servers with any tool lists over 2 tools, 2 calls, 1 fault | correct routing, no failure by a stale session, the start ends unless a server hangs in tools/list, every call returns, the pool implements `ToolCall` |
| `heartbeats` | two parts side by side. Tap: 2 services, half seconds, window of 2 s, delay and skew of half a second, clock to 4 s. Own: interval 1, backoff to 2, handshake 2, notice 2, reply 1, 2 faults, clock to 24 | `/status` errs by skew, delay and less than a second; the own beats are back in time |
| `stream_terminal`, `stream_stalled`, `memory_erasure`, `lifecycle_unwrap` | as above; `lifecycle_unwrap` with two streams and one fix-flow | violations, see section 6 |

`MCServe` puts four modules that share no variable into one state space. `part` says which of them
a behaviour is of; the others keep their first state. Their fairness is the sum of the modules' own.
`MCHeartbeats` does the same with `Heartbeats` and `OwnHeartbeat`.

| Part | Instance |
|---|---|
| `lifecycle` | 1 request, 1 stream, 2 fix-flows with 1 permit, the trigger, 2 background tasks |
| `agent` | each of the four callers, 3 rounds of up to 2 calls |
| `model` | one call of chat or stream_chat, 3 retries, 2 blocks of up to 2 deltas |
| `trigger` | days of 4 minutes with 2 triggers, minutes of 6 units, a tick every 3, up to 2 late, readings up to 1 apart, runs of up to 10, 2 starts, seven minutes |

Why these bounds are enough to be of interest: three requests let a third arrive while two race;
the clock passes the expiry before and after a sweep has looked. Three incidents with a budget of
one let a window be used up, tumble and be used again, and a lost connection or a crash fall into
every step. Channels of one fill up at once, which 64 would hide. Three turns are one in flight,
one settled and one that is served. With two servers one can be missing or fail tools/list and
the other move up in the table. Two faults are enough for a connection that dies in a write and again
in the retry, and for a broker that fails during a write and, after the redelivery, during the next. The clock of the tap runs to twice the staleness window, that of the own heartbeat to three times the time of its recovery,
which two faults can start, prolong and start again; each of the three bounds is tight there, a unit less is violated. Two blocks
interleave, and two deltas are one that completes a call's arguments and one that does not; three rounds put
a proposal first, in the middle and last. Seven minutes of four to the day make the latch meet its own time of day again. Every counter that could grow is bounded in a
guard and the bound named as such where the constant is declared.

Deadlock is not checked: clocks stop, requests are used up, and the instances end.

## 4. Fairness

Liveness is claimed only from what the code's scheduling gives:

- `Approval`: the clock and the sweeper task. No request has to come, no tool call to return.
- `IncidentConsumer`: clock, broker, reconnect loop and handler. *Not* the pipeline: it may never
  return, and only `DIAGNOSE_TIMEOUT` lets the queue move on. That the publisher takes or refuses the
  event of the handler is assumed with `Reply`: the code awaits it without a limit.
- `Recovery`: the broker comes back, the tasks run. A process started without the broker is
  excepted, since it never turns to the queue.
- `ChatStream`: the run, the forwarder and the deadline; and, in `stream`, a client that in the end
  reads or leaves. `stream_stalled` drops that last assumption. No model round has to end.
- `McpPool`: each call's own steps, which the timers bound, and the steps of the start. No server
  ever has to answer; a server that hangs in tools/list stops the start for good, and is excepted. So
  is the publishing of tool_called (`mcp.rs:427`), which has no limit.
- `Lifecycle`: the steps of serve and the requests (by their 240 s); a turn whose client reads or leaves
  is cut by the signal; the model and tool calls of the scheduled run come back. Background tasks
  and fix-flows may hang for ever, and so may every publishing of an event: `publish_event` has no limit
  once it is connected. `ShutdownCompletes` names what then keeps the process.
- `LlmClient`: the timers of `chat`. The server never has to answer; `stream_chat` has none.
- `AgentCallers`: the steps of run and caller, except a publish and a round of tools, which publishes
  (`AwaitsPublisher`, excepted by `EveryRunEnds`).
  That a call of the model comes back is `ChatComesBack`, that a call of a tool does is
  `EveryCallReturns`. Storing, remembering and posting to Teams have time limits of their own.

The safety of `ScheduledTrigger`, `Heartbeats` and `OwnHeartbeat` needs no fairness: a due timer is served before the
clock passes its lateness.

## 5. The proofs

TLAPS proves the following for every value of the constants, from the assumptions named in the
modules (`ConstantsAssumption`, `GuardsAssumption`, `ConsumerAssumption`, `MemoryAssumption`,
`LlmAssumption`, `AgentAssumption`, `TriggerAssumption`, `TriggersAreApart`, `LifecycleAssumption`, `PoolAssumption`,
`HeartbeatAssumption`, `OwnAssumption`, `RecoveryAssumption`, `PublisherAssumption`, `OrchestratorAssumption`,
`SseCapacityAssumption`). Each follows from an inductive invariant, which holds initially and is
kept by every step. Every safety property the passing runs check, invariant, action property or refinement, is a
theorem here, and so is the type correctness of every module that is not an abstraction.

- **ApprovalProofs.** Type correctness, `OneDecider`, `WriteNeedsOwnersApproval`, `AtMostTwoSends`,
  `ExecutedWasSent`, `AuditFatesAgree`, `ApprovedIsNeverSwept`, and `GateImplementsPermit`: the gate
  implements `WritePermit`. None is inductive alone. `HandlerInv` ties the stage of a handler to the
  entry it decided; `OneDecision` says a decision has one owner; `EntryInv` what a status says about
  the sends, `ResultInv` what an executed entry says of its call; `AuditInv` which events can have been published. `SweepInv` is the heart: an id the
  sweeper has collected expired before the sweep began, so that a confirm, which wants `now` before
  the expiry, can no longer succeed. A rejection can. That is why the removal needs no second look
  for approved entries, and what a changed comparison in either place would break.
  `GateDispatchesAsToolCall` is about the seam between gate and pool: taken from its handlers, an approval
  is one call of `ToolCall`, the very interface that `PoolImplementsToolCall` proves of the pool. `CallInv`
  ties a handler's outcome and answer to its stage; `OneDecision` gives each action's sends to one call.
- **IncidentProofs.** Type correctness, `ConsumerImplementsQueue`, `NoIncidentIsDropped`, `AtMostTwiceTheBudget`,
  `CircuitOpensOnSpentBudget`, `DiagnosesAreSpaced`. `SpentInv` ties `accepted_in_window` to the
  history of granted diagnoses, `CircuitInv` places `open_until` within the window after the one
  that was spent, `SlotInv` says a debounce slot is never older than the last diagnosis,
  `HandlerInv` that what is about to be settled has been handled. The refinement takes two more.
  `ConnectionInv` says where the kept messages are: on a live connection in the hand, the buffer or still with the
  broker, in that order; after a lost one also in the buffer, as deliveries whose messages are requeued.
  `OrderInv` says that what comes before a buffered message is in the buffer too, in hand or handled.
  Together they say that no message is first handled before those ahead of it.
- **ChatMemoryProofs.** Type correctness, `ServedIsFresh`, `ErasureHolds`. `CacheInv` says what a row
  can be, `ErasureInv` that what was settled at an erasure stays out of queue, worker, cache and
  store.
- **TurnProofs.** `LlmImplementsModelRound`: the client of the model keeps `ModelRound`, for any
  number of blocks, deltas and retries. `GatherInv` is what it takes: while a stream lasts, what was
  passed on of a block is what its accumulator holds, and what was started are the calls among the
  accumulators. That they outlive their content_block_stop is what the answer rests on. Of the streamed
  turn: `StreamIsFaithful` from `StreamInv` (what the client was passed, followed by what is still in
  `orch_chan`, is what the run sent; after a cut it is a prefix and one Error, and the forwarder takes
  nothing more), and `CallsPairUp` and `ProposalsEndTheTurn` from `ReportsInv`. The latter speaks of
  `sent` and `todo` together, which sending an event does not change, and says for each stage of a
  round which of its calls are announced and which can have been parked. `RecordTellsTheTruth` adds
  `RecordInv`: the trace holds the results among the events taken from the channel, each at the place its number
  among them says; and a forwarder that joins the run without a cut has taken all of them. `EndInv` is the run's
  part: what returns Ok has sent its Done. `ResultsAmong` counts with Cardinality, since what SelectSeq
  returns is a recursion over data.
- **RecoveryProofs.** Type correctness, `OnlyFaultsLoseARecovery`, `CopiesNeedFaults` and
  `ForwarderImplementsQueue`, by the same `ConnectionInv` and `OrderInv` with a broker that goes down as well. `MutexInv` says that only the
  head of the line is past the mutex; with it `PublishInv`, that a retry starts on a live channel, so
  that what breaks it later is a fault that met the event, is kept by the steps of all the others.
  `ForwarderInv` ties the delivery in the handler to the event that is being published. `CopyInv`
  counts the places one recovery waits in (the queue, the stream's buffer, a publish that may yet
  write it, `MayWrite`): each that is added is paid for by a fault, and a broker that fails adds two.
- **ServeProofs.** `NoClientIsCutOff` from `DrainInv` (no connection is accepted after the signal, so
  none is left once the listener has closed). `ProposalsAreTold` and `OnlyGoodAnswersAreKept` from
  `ParkedAreTraced` (a write that is parked is in the trace of its round, or the run is in that round or
  has failed) and `AfterTheRun` (the caller's later steps are those of a run that returned Ok).
  `OncePerTrigger` from `LookInv` (the second reading of the clock is of the minute of the first, or of the
  next) and `LatchInv`: once the latest minute a key can be of has fired, the latch holds it, and a start
  seeds the latch with the minute it falls into, whether that has fired or not. `TriggersAreNotMissed` is the
  other half, from `WatchInv`: the latch holds the time of day of a minute since the start (`last`), in which
  the task has fired or started; a run begun then is over in its time; in a later trigger minute the next look is
  due early enough to be over before its end, whatever look straddled its beginning; and no trigger minute
  between was one the task was free in. It needs `TriggersAreApart`, since a latch that holds a time of day cannot tell a minute
  from the same one a day later: another trigger has to move it in between.
- **HeartbeatsProofs.** `NoFalseUp`, `NoFalseDown` and `OwnCadence`. `QueueInv` bounds the age of what is
  under way, `NotAhead` and `NotBehind` what the last-seen time can be off by, and `AgesAreCut` turns the
  comparison in whole seconds into one of ages. `OwnInv` says for each state of the own session by when it is
  over: begun before the last fault, within `HoldingOn`; begun after, answered; whatever `attempt` has grown to.
- **PoolProofs.** `NoCallFailsOnStaleSession` and the refinement to `ToolCall`. `Progress` ties the stage of a
  call to what it has sent and whether it may fail, `RetryIsHealthy` says that after a reopen only a
  failure since then can fail the second attempt, `CallsComeLater` that the routing table is final
  before anyone calls. `RoutedToProvider` follows from `RouteInv`: `keep_indices` are places in
  `connected`, the server at each is the one in `listed` at its `Rank`, and the table speaks of `listed`.
  `Rank` is a Cardinality, so that dropping the servers that failed tools/list is a bijection onto the ranks.

Only model-checked: all liveness, which is beyond this prover (`ProposalsAreSettled`,
`EveryIncidentIsSettled`, `EveryRecoveryIsSettled`, `StreamIsBounded`, `ChatComesBack`,
`ShutdownCompletes`, `EveryRunEnds`, `StartupEnds`, `EveryCallReturns`), and the counterexamples of
section 6. `TypeOK` and its like, `AtMostTwoSends`, `NoIncidentIsDropped` and `DispatchesAsToolCall` are the other
way round: theorems that no run lists. The second and third follow from `WritePermit` and `DurableQueue`, which
runs check; the last was checked once on the instance of `approval` before it was proved.

## 6. What the code does otherwise than it says

Four runs end in a counterexample to a sentence of the source.

1. `stream_terminal`: *"`Done` is terminal — always sent exactly once at the end of a successful run
   … `Error` is also terminal on the failure path"* (`agent/orchestrator.rs:74`). A failing model call
   or tool round leaves the run by `?` without an event; and a deadline or shutdown that fires after
   Done was forwarded adds an Error.
2. `stream_stalled`: *"Wallclock cap for the entire `/chat/stream` run … the hard bound on a
   concurrency slot"* (`http_api.rs:65`). The send to the client is awaited inside the arm of the select;
   a client that does not read keeps the task past its deadline.
3. `memory_erasure`: *"so no cached answer outlives the erasure"* (`http_api.rs:1245`). A turn in
   flight stores its answer afterwards.
4. `lifecycle_unwrap`: *"`Arc::try_unwrap` only succeeds after the consumer drains"*
   (`incident/diagnose.rs:320`). It never does: serve keeps an Arc of its own in `incident_pipeline`.

Further divergences and weak points, seen while modelling, that no run is spent on:

- `gateway/approval/state.rs:9` says the cleanup removes only Proposed actions; it removes by id
  without a second look, so a rejection in between is removed too and published as expired
  (`SweepRemove` in `Approval`). Lines 11-13 promise that Executed entries are swept; none is.
- `incident/budget.rs:60` speaks of a rolling window; it tumbles, hence twice the budget.
- `incident/consumer.rs:432` publishes a debounced skip with `since_last_diagnosis_seconds`, although the slot is
  also taken by an incident that met the open circuit or a failing pipeline (317).
- Recoveries have a queue and a task of their own (`incident/recovery.rs:301`): an incident_resolved can
  overtake the event about its incident.
- `mcp.rs:346` expects a misread transport error to recover naturally with the next call; the dead
  session stays in the guard. `mcp.rs:261` lists tools without a time limit.
- `http_api.rs:1407` says a stream holds its concurrency slot for its whole duration; the layer
  lets go when the handler returns the response.
- `http_api.rs:359` joins turns as lines "role: text", and the normalisation collapses newlines: two
  conversations can share a cache key.
- `main.rs:229`: a broker that is down at start-up leaves the process without consumers and
  heartbeat until it is restarted, although each could reconnect.
- `agent/orchestrator.rs:193` wants a partial answer rather than a failure when the tokens run out; a
  tool_use block that they cut does not parse and fails the whole stream (`MessageStop`;
  `agent/llm/anthropic.rs:551`).
- `agent/llm/anthropic.rs:365` says an accumulator lives until content_block_stop; it lives until the
  stream ends, and must. Lines 36-43 promise the deadline's retry for slow answers; a body that
  is slow after its headers (162) is not repeated.
- `incident/diagnose.rs:50` offers step A a part of the tools; a call of another tool is looked up in that part
  (`agent/orchestrator.rs:317`), not found, and dispatched as a read.
- A run that fails or is cut off after it parked a write leaves a proposal nobody heard of; fix_proposed
  names the first of several (`fix_flow.rs:62`). A refused argument of one read fails the whole run.
- `fix_flow.rs:132` says the publishing is not interrupted; the exit kills the task wherever it is. Likewise a stream
  whose client has left is in no connection, and the exit may lose its chat_completed (`http_api.rs:792`).
- `http_api.rs:978` looks at `Ok(Err(_))` only: a run that panics is joined with a JoinError and recorded as
  succeeded. Panics are not modelled.
- When posting to Teams fails, the scheduled run also skips daily_summary_generated.
- `run_scheduled_trigger` reads the clock for the latch (`http_api.rs:1152`) and `should_trigger_analysis_now` reads
  it again (1114). A look at 08:29:59.99 whose second reading is of 08:30 runs the summary under the key (8, 29),
  and the tick thirty seconds later runs it again under (8, 30): two summaries for one trigger. `OncePerTrigger`
  says what remains true.
- The shutdown has no limit for a client that stays and does not read, for the record of a turn whose client
  stays, and for the event of the scheduled run: each is awaited as long as it takes (`http_api.rs:957`, 1008, 1465).
- `heartbeat.rs:85` cuts the age to whole seconds: a service is up until its last beat is `STALE_SECS` + 1 old, not
  `STALE_SECS`. `NoFalseUp` says so.
- `rabbitmq/heartbeat.rs:38` keeps the backoff well under the watchdog's window. What may keep mcp-master silent for longer
  is elsewhere: a connection lost without a reset counts as connected until AMQP heartbeats miss it, a handshake
  waits for 30 s, and create_channel and exchange_declare (150, 152) wait without a limit. `OwnCadence` counts from when
  broker and connection are well, and adds the first two.
- The latch of the trigger holds a time of day. With one trigger a day, or a run that lasts until
  the next day's trigger, it would suppress the next; the four triggers of the code exclude it
  (`TriggersAreApart`, on which `NoTriggerIsMissed` rests).

## 7. What is not modelled

Pure functions and single I/O calls: JWT parsing, prompts, the repository map, metrics, Teams, the
command line, the embeddings stub. Text: prompts, diagnoses, argument summaries, scrubbing, the
wire format of the model API. Vectors and retrieval. The legacy consumer, which only logs. The request
slots of tower's concurrency layer. Within modelled parts: configuration (URLs, clamps), token counts, metrics
and logging, and the shutdown of each consumer loop, which is in `Lifecycle`; in the queue models it
is a restart between two deliveries.

## 8. Plan

Done: approval gate, incident consumer, chat stream, chat memory, lifecycle, MCP pool, heartbeats,
recovery with publisher, LLM client, agent runs and their callers, scheduled trigger, fix-flow. Next:

1. An abstract stream (a sequence with one end) that `ChatStream` implements while it is not cut.
2. The request slots, as a bound on `Lifecycle`.
