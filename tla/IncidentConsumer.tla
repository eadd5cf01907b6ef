-------------------------- MODULE IncidentConsumer --------------------------
(***************************************************************************)
(* incident::consumer: the durable queue mcp-master.incidents, the one task *)
(* that consumes it through lost connections and restarts, the guards of   *)
(* IncidentGuards and the diagnose pipeline behind them.                   *)
(*                                                                         *)
(* Messages are numbered in the order they are published.  No prefetch is  *)
(* set, so the broker pushes all it has; the task handles one at a time,   *)
(* acks after the handler, and looks at the connection only in between.    *)
(***************************************************************************)
EXTENDS IncidentGuards, FiniteSets, Sequences

CONSTANTS
  Services,         (* the components that raise incidents              *)
  Incidents,        (* what Controlroom may publish                     *)
  MaxMessages,      (* bound: incidents published                       *)
  DiagnoseTimeout,  (* DIAGNOSE_TIMEOUT, in ticks                       *)
  MaxNow,           (* bound: the clock stops here                      *)
  MaxFaults         (* bound: lost connections and crashes              *)

\* A body that does not decode (an unknown severity in XML included), one whose
\* severity is_actionable, and one whose severity is not.
Kinds == {"garbage", "actionable", "low"}

ASSUME ConsumerAssumption ==
  /\ Incidents \subseteq [service : Services, kind : Kinds]
  /\ MaxMessages \in Nat
  /\ DiagnoseTimeout \in Nat \ {0}
  /\ MaxNow \in Nat
  /\ MaxFaults \in Nat

Messages == 1..MaxMessages
NoMessage == 0

VARIABLES
  now,         (* Instant::now()                                        *)
  faults,      (* lost connections and crashes so far                   *)
  published,   (* what each message says, in order of publication       *)
  ready,       (* broker: in the queue, to be pushed                    *)
  unacked,     (* broker: pushed to the consumer, not settled           *)
  session,     (* the consumer's connection as the broker sees it       *)
  buffer,      (* deliveries the consumer stream still has to yield     *)
  current,     (* the delivery in the handler                           *)
  stage,       (* where the handler stands                              *)
  deadline,    (* when tokio::time::timeout gives up on the pipeline    *)
  budget,      (* Budget.state                                          *)
  last_fired,  (* Debouncer.last_fired                                  *)
  handled,     (* the messages the handler has run to its end on        *)
  granted      (* history: the diagnoses this process let through       *)

broker == <<ready, unacked>>
handler == <<buffer, current, stage, deadline>>
guards == <<budget, last_fired, granted>>
vars == <<now, faults, published, broker, session, handler, guards, handled>>

-----------------------------------------------------------------------------
(* Types                                                                   *)

\* up: consuming.  broken: the broker has dropped the connection and the task
\* has not noticed.  down: connecting, or in the backoff.
Sessions == {"down", "up", "broken"}

Stages == {"idle", "diagnosing", "ack", "nack"}

Grant == [time : Nat, service : Services]

TypeOK ==
  /\ now \in Nat /\ faults \in Nat /\ deadline \in Nat
  /\ published \in Seq(Incidents) /\ Len(published) <= MaxMessages
  /\ ready \cup unacked \cup buffer \cup handled \subseteq 1..Len(published)
  /\ session \in Sessions /\ stage \in Stages
  /\ current \in 1..Len(published) \cup {NoMessage}
  /\ budget \in BudgetState
  /\ DOMAIN last_fired \subseteq Services
  /\ \A s \in DOMAIN last_fired : last_fired[s] \in Nat
  /\ granted \in Seq(Grant)

-----------------------------------------------------------------------------
Init ==
  /\ now = 0 /\ faults = 0
  /\ published = <<>>
  /\ ready = {} /\ unacked = {}
  /\ session = "down"
  /\ buffer = {} /\ current = NoMessage /\ stage = "idle" /\ deadline = 0
  /\ budget = NewBudget(0) /\ last_fired = [s \in {} |-> 0]
  /\ granted = <<>>
  /\ handled = {}

Tick ==
  /\ now < MaxNow
  /\ now' = now + 1
  /\ UNCHANGED <<faults, published, broker, session, handler, guards, handled>>

\* m is the first of a set of messages, in queue order.
First(m, S) == m \in S /\ \A n \in S : m <= n

-----------------------------------------------------------------------------
(* The broker                                                              *)

\* Controlroom publishes event.heartbeat_failed; the durable queue keeps it.
Publish(incident) ==
  /\ Len(published) < MaxMessages
  /\ published' = Append(published, incident)
  /\ ready' = ready \cup {Len(published) + 1}
  /\ UNCHANGED <<now, faults, unacked, session, handler, guards, handled>>

Push(m) ==
  /\ session = "up" /\ First(m, ready)
  /\ ready' = ready \ {m}
  /\ unacked' = unacked \cup {m}
  /\ buffer' = buffer \cup {m}
  /\ UNCHANGED <<now, faults, published, session, current, stage, deadline,
                 guards, handled>>

\* The connection is lost: all that is not settled goes back to its place in
\* the queue.  The task still has its buffer.  An ack lost on its way is one that
\* is written after this step: the task does not look at the difference.
LoseConnection ==
  /\ session = "up" /\ faults < MaxFaults
  /\ faults' = faults + 1
  /\ session' = "broken"
  /\ ready' = ready \cup unacked
  /\ unacked' = {}
  /\ UNCHANGED <<now, published, handler, guards, handled>>

-----------------------------------------------------------------------------
(* run: the reconnect loop                                                 *)

\* connect_with_timeout, the declarations and basic_consume succeed.
Connect ==
  /\ session = "down"
  /\ session' = "up"
  /\ UNCHANGED <<now, faults, published, broker, handler, guards, handled>>

\* consumer.next() yields the error or None: consume_session returns Err and
\* its channel, with whatever the stream had buffered, is dropped.
EndSession ==
  /\ session = "broken" /\ stage = "idle"
  /\ session' = "down"
  /\ buffer' = {}
  /\ UNCHANGED <<now, faults, published, broker, current, stage, deadline,
                 guards, handled>>

\* The process dies and is started again: Debouncer and Budget are new.
Crash ==
  /\ faults < MaxFaults
  /\ faults' = faults + 1
  /\ session' = "down"
  /\ ready' = ready \cup unacked
  /\ unacked' = {}
  /\ buffer' = {} /\ current' = NoMessage /\ stage' = "idle" /\ deadline' = 0
  /\ budget' = NewBudget(now) /\ last_fired' = [s \in {} |-> 0]
  /\ granted' = <<>>
  /\ UNCHANGED <<now, published, handled>>

-----------------------------------------------------------------------------
(* handle_delivery_with_content                                            *)

\* The handler of the next delivery runs from its first line to the first
\* await of the branch it takes, where a message that is not diagnosed is done with.
Take(m, next) ==
  /\ stage = "idle" /\ First(m, buffer)
  /\ buffer' = buffer \ {m}
  /\ current' = m
  /\ stage' = next
  /\ handled' = handled \cup (IF next = "diagnosing" THEN {} ELSE {m})
  /\ UNCHANGED <<now, faults, published, broker, session>>

\* The body does not decode: Err, and a nack without requeue.
Undecodable(m) ==
  /\ Take(m, "nack")
  /\ published[m].kind = "garbage"
  /\ UNCHANGED <<deadline, guards>>

\* publish_skip; a publish that fails is only logged.
SkipLowSeverity(m) ==
  /\ Take(m, "ack")
  /\ published[m].kind = "low"
  /\ UNCHANGED <<deadline, guards>>

SkipDebounced(m) ==
  /\ Take(m, "ack")
  /\ published[m].kind = "actionable"
  /\ ~Fresh(last_fired, published[m].service, now)
  /\ UNCHANGED <<deadline, guards>>

\* The debounce slot is taken before the budget is asked.
SkipCircuitOpen(m) ==
  /\ Take(m, "ack")
  /\ published[m].kind = "actionable"
  /\ Fresh(last_fired, published[m].service, now)
  /\ ~Allowed(budget, now)
  /\ last_fired' = Fired(last_fired, published[m].service, now)
  /\ budget' = Consumed(budget, now)
  /\ UNCHANGED <<deadline, granted>>

Accept(m) ==
  /\ Take(m, "diagnosing")
  /\ published[m].kind = "actionable"
  /\ Fresh(last_fired, published[m].service, now)
  /\ Allowed(budget, now)
  /\ last_fired' = Fired(last_fired, published[m].service, now)
  /\ budget' = Consumed(budget, now)
  /\ granted' = Append(granted, [time |-> now, service |-> published[m].service])
  /\ deadline' = now + DiagnoseTimeout

\* The handler returns Ok(()), whatever became of the diagnosis.
Finish ==
  /\ stage = "diagnosing"
  /\ stage' = "ack"
  /\ handled' = handled \cup {current}
  /\ deadline' = 0
  /\ UNCHANGED <<now, faults, published, broker, session, buffer, current, guards>>

\* Step A and Step B came back with a diagnosis (publish_diagnosis), or with an
\* error, which is only logged.
DiagnoseReturns == Finish

\* Faulty variant: nothing bounds the pipeline.
DiagnoseNeverTimesOut == FALSE /\ Finish

\* Bound: once the clock has stopped, the timeout is due.
DiagnoseTimedOut == (now >= deadline \/ now = MaxNow) /\ Finish

\* Faulty variant: the ack is written before the handler has run.
ReplyEarly(kind) ==
  /\ stage \in {"diagnosing", kind}
  /\ stage' = IF stage = kind THEN "idle" ELSE stage
  /\ current' = IF stage = kind THEN NoMessage ELSE current
  /\ unacked' = unacked \ (IF session = "up" THEN {current} ELSE {})
  /\ UNCHANGED <<now, faults, published, ready, session, buffer, deadline,
                 guards, handled>>

\* msg.ack, or msg.nack with requeue: false: the message is gone.  On a dead
\* channel the call fails, which is logged.
Reply(kind) ==
  /\ stage = kind
  /\ stage' = "idle" /\ current' = NoMessage
  /\ unacked' = unacked \ (IF session = "up" THEN {current} ELSE {})
  /\ UNCHANGED <<now, faults, published, ready, session, buffer, deadline,
                 guards, handled>>

-----------------------------------------------------------------------------
HandlerStep ==
  \/ \E m \in Messages :
       \/ Undecodable(m) \/ SkipLowSeverity(m) \/ SkipDebounced(m)
       \/ SkipCircuitOpen(m) \/ Accept(m)
  \/ DiagnoseTimedOut
  \/ \E kind \in {"ack", "nack"} : Reply(kind)

BrokerStep == \E m \in Messages : Push(m)

Next ==
  \/ Tick
  \/ \E incident \in Incidents : Publish(incident)
  \/ BrokerStep \/ LoseConnection
  \/ Connect \/ EndSession \/ Crash
  \/ HandlerStep \/ DiagnoseReturns

Spec == Init /\ [][Next]_vars

\* The broker and the consumer task keep running; nothing is assumed of the
\* pipeline, which may never come back by itself.
FairSpec ==
  /\ Spec
  /\ WF_vars(Tick) /\ WF_vars(BrokerStep)
  /\ WF_vars(Connect) /\ WF_vars(EndSession) /\ WF_vars(HandlerStep)

-----------------------------------------------------------------------------
(* Properties                                                              *)

\* An incident leaves the broker only when the handler has run to its end on it,
\* through lost acks, reconnects and crashes (the claim of run's comment that a
\* restart during an incident peak drops no delivery).
NoIncidentIsDropped ==
  \A m \in Messages : m <= Len(published) /\ m \notin ready \cup unacked
    => m \in handled

\* INCIDENT_MAX_PER_HOUR: the windows tumble, so what one process really keeps
\* to is twice the budget in any hour, wherever the hour starts.
AtMostTwiceTheBudget ==
  \A i, j \in 1..Len(granted) : j >= i + 2 * MaxPerHour
    => granted[j].time - granted[i].time >= Window

\* The circuit is never opened by mistake: the whole budget was spent within the
\* hour before it opened.
CircuitOpensOnSpentBudget ==
  budget.open_until # 0 =>
    /\ Len(granted) >= MaxPerHour
    /\ granted[Len(granted) - MaxPerHour + 1].time > budget.open_until - 2 * Window

\* One process diagnoses a service at most once per debounce window, however
\* often its incidents are repeated or redelivered.
DiagnosesAreSpaced ==
  \A i, j \in 1..Len(granted) : i < j /\ granted[i].service = granted[j].service
    => granted[j].time - granted[i].time >= DebounceWindow

\* Every published incident is settled in the end: no poison message circulates,
\* no wedged pipeline holds up the queue, no lost connection strands it.
EveryIncidentIsSettled ==
  \A m \in Messages : m \in ready ~> m \notin ready \cup unacked

-----------------------------------------------------------------------------
(* Refinement: the queue and its task implement DurableQueue               *)

Queue == INSTANCE DurableQueue
  WITH published <- Len(published), kept <- ready \cup unacked, hand <- current

\* Through lost connections, stale buffers and restarts every incident is handled before
\* it is settled, in the order of publication at first, and never again once it is
\* settled (the claim of run's comment that a restart during an incident peak drops no
\* delivery).
ImplementsQueue == Queue!Spec
=============================================================================
