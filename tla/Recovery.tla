------------------------------ MODULE Recovery ------------------------------
(***************************************************************************)
(* incident::recovery: the durable queue mcp-master.recoveries, the task   *)
(* that takes recoveries from it and forwards each as incident_resolved,   *)
(* and the other tasks it shares the publisher with.                       *)
(*                                                                         *)
(* The queue and the reconnect loop are those of IncidentConsumer; here    *)
(* the handler's only effect is the event it publishes.                    *)
(***************************************************************************)
EXTENDS Publisher, FiniteSets

CONSTANTS
  Forwarder,    (* the recovery consumer, one of the callers             *)
  MaxMessages   (* bound: recoveries published                           *)

\* The events are the recoveries by their number in the queue, and one of each
\* other task.
Messages == 1..MaxMessages
NoMessage == 0

ASSUME RecoveryAssumption ==
  /\ Forwarder \in Callers
  /\ MaxMessages \in Nat
  /\ Events = Messages \cup (Callers \ {Forwarder}) /\ Messages \cap Callers = {}

VARIABLES
  running,    (* the start found the broker: there are a publisher and   *)
              (* a forwarder                                             *)
  readable,   (* whether each recovery decodes, in order of publication  *)
  ready,      (* broker: in the queue, to be pushed                      *)
  unacked,    (* broker: pushed, not settled                             *)
  session,    (* the forwarder's connection as the broker sees it        *)
  buffer,     (* deliveries the consumer stream still has to yield       *)
  current,    (* the delivery in the handler                             *)
  stage,      (* where the handler stands                                *)
  handled     (* history: those the handler has run to its end on        *)

queue == <<readable, ready, unacked, handled>>
handler == <<session, buffer, current, stage>>
vars == <<publisherVars, running, queue, handler>>

TypeOK ==
  /\ PublisherTypeOK
  /\ running \in BOOLEAN /\ readable \in Seq(BOOLEAN)
  /\ ready \cup unacked \cup buffer \cup handled \subseteq 1..Len(readable)
  /\ session \in {"down", "up", "broken"}
  /\ current \in 1..Len(readable) \cup {NoMessage}
  /\ stage \in {"idle", "publishing", "ack", "nack"}

\* bootstrap_rabbitmq: without Publisher::connect the process goes on with neither
\* publisher nor consumers.
Init ==
  /\ PublisherInit
  /\ running = TRUE
  /\ readable = <<>> /\ ready = {} /\ unacked = {}
  /\ session = "down" /\ buffer = {} /\ current = NoMessage /\ stage = "idle"
  /\ handled = {}

First(m, S) == m \in S /\ \A n \in S : m <= n

-----------------------------------------------------------------------------
(* The queue                                                               *)

\* Controlroom publishes event.heartbeat_succeeded.
Recovers(decodes) ==
  /\ Len(readable) < MaxMessages
  /\ readable' = Append(readable, decodes)
  /\ ready' = ready \cup {Len(readable) + 1}
  /\ UNCHANGED <<publisherVars, running, unacked, handler, handled>>

\* Faulty variant: consumed with no_ack, what is pushed is off the broker's books.
PushWithoutAck(m) ==
  /\ session = "up" /\ First(m, ready)
  /\ ready' = ready \ {m} /\ buffer' = buffer \cup {m}
  /\ UNCHANGED <<publisherVars, running, readable, unacked, session, current, stage, handled>>

Push(m) ==
  /\ session = "up" /\ First(m, ready)
  /\ ready' = ready \ {m} /\ unacked' = unacked \cup {m} /\ buffer' = buffer \cup {m}
  /\ UNCHANGED <<publisherVars, running, readable, session, current, stage, handled>>

\* What is not settled goes back to its place in the queue.
Requeue ==
  /\ ready' = ready \cup unacked /\ unacked' = {}
  /\ UNCHANGED <<readable, handled>>

LoseConnection ==
  /\ session = "up" /\ faults < MaxFaults
  /\ faults' = faults + 1
  /\ session' = "broken"
  /\ Requeue
  /\ UNCHANGED <<broker, channel, writers, history, running, buffer, current, stage>>

\* The broker takes both connections down with it.
BrokerDown ==
  /\ BrokerFails
  /\ session' = IF session = "up" THEN "broken" ELSE session
  /\ Requeue
  /\ UNCHANGED <<running, buffer, current, stage>>

\* What happens to the publisher alone.
PublisherAlone ==
  /\ BrokerRecovers \/ ChannelBreaks \/ Noticed
  /\ UNCHANGED <<running, queue, handler>>

\* The process ends, by a crash anywhere or by the shutdown between two
\* deliveries, and starts again, for good without them if the broker is down.
Restart ==
  /\ faults < MaxFaults
  /\ faults' = faults + 1
  /\ running' = (broker = "up") /\ channel' = IF running' THEN "live" ELSE "dead"
  /\ lock' = <<>>
  /\ step' = [c \in Callers |-> "idle"] /\ event' = [c \in Callers |-> NoEvent]
  /\ Requeue
  /\ session' = "down" /\ buffer' = {} /\ current' = NoMessage /\ stage' = "idle"
  /\ UNCHANGED <<broker, history>>

-----------------------------------------------------------------------------
(* run and consume_session                                                 *)

Connect ==
  /\ running /\ session = "down" /\ broker = "up"
  /\ session' = "up"
  /\ UNCHANGED <<publisherVars, running, queue, buffer, current, stage>>

EndSession ==
  /\ session = "broken" /\ stage = "idle"
  /\ session' = "down" /\ buffer' = {}
  /\ UNCHANGED <<publisherVars, running, queue, current, stage>>

Take(m) ==
  /\ stage = "idle" /\ First(m, buffer)
  /\ buffer' = buffer \ {m}
  /\ current' = m
  /\ UNCHANGED <<running, readable, ready, unacked, session>>

\* The body does not decode: a nack without requeue.
Undecodable(m) ==
  /\ Take(m) /\ ~readable[m]
  /\ stage' = "nack" /\ handled' = handled \cup {m}
  /\ UNCHANGED publisherVars

\* publish_event("incident_resolved", ..).
Forward(m) ==
  /\ Take(m) /\ readable[m]
  /\ stage' = "publishing"
  /\ PublishEvent(Forwarder, m)
  /\ UNCHANGED handled

\* Ok or Err, which is logged: the handler returns Ok(()).
Forwarded ==
  /\ stage = "publishing" /\ Collect(Forwarder)
  /\ stage' = "ack" /\ handled' = handled \cup {current}
  /\ UNCHANGED <<running, readable, ready, unacked, session, buffer, current>>

\* Faulty variant: a refused message goes back into the queue.
ReplyRequeue(kind) ==
  /\ stage = kind
  /\ stage' = "idle" /\ current' = NoMessage
  /\ unacked' = unacked \ (IF session = "up" THEN {current} ELSE {})
  /\ ready' = ready \cup (IF session = "up" /\ kind = "nack" THEN {current} ELSE {})
  /\ UNCHANGED <<publisherVars, running, readable, session, buffer, handled>>

\* msg.ack or msg.nack; on a dead channel it fails, which is logged.
Reply(kind) ==
  /\ stage = kind
  /\ stage' = "idle" /\ current' = NoMessage
  /\ unacked' = unacked \ (IF session = "up" THEN {current} ELSE {})
  /\ UNCHANGED <<publisherVars, running, readable, ready, session, buffer, handled>>

-----------------------------------------------------------------------------
(* The other tasks                                                         *)

\* A chat turn, the pool or the consumer publishes an event of its own, and may be
\* dropped while it does.
Other(c) ==
  /\ c # Forwarder
  /\ \/ running /\ c \notin excused /\ copies[c] = 0 /\ PublishEvent(c, c)
     \/ Collect(c) \/ Abandon(c)
  /\ UNCHANGED <<running, queue, handler>>

PublisherStep ==
  /\ \E c \in Callers : PublishStep(c)
  /\ UNCHANGED <<running, queue, handler>>

HandlerStep ==
  \/ \E m \in Messages : Undecodable(m) \/ Forward(m)
  \/ Forwarded
  \/ \E kind \in {"ack", "nack"} : Reply(kind)

QueueStep == \E m \in Messages : Push(m)

Next ==
  \/ \E decodes \in BOOLEAN : Recovers(decodes)
  \/ QueueStep \/ LoseConnection \/ BrokerDown \/ PublisherAlone \/ Restart
  \/ Connect \/ EndSession \/ HandlerStep
  \/ \E c \in Callers : Other(c)
  \/ PublisherStep

Spec == Init /\ [][Next]_vars

\* The broker comes back in the end, and the tasks run.
FairSpec ==
  /\ Spec
  /\ WF_vars(BrokerRecovers /\ PublisherAlone)
  /\ WF_vars(QueueStep) /\ WF_vars(Connect) /\ WF_vars(EndSession)
  /\ WF_vars(HandlerStep) /\ WF_vars(PublisherStep)

-----------------------------------------------------------------------------
(* Properties                                                              *)

\* A recovery leaves the queue without its incident_resolved only if a fault got in
\* the way: an outage that is over, or has been noticed, costs no event.
OnlyFaultsLoseARecovery ==
  \A m \in 1..Len(readable) : readable[m] /\ m \notin ready \cup unacked
    => copies[m] > 0 \/ m \in excused

\* A resolved event goes out again only for a fault.  One that meets a connection or
\* the process costs one copy at most, by the retry of what the broker already has or
\* by the redelivery of what was forwarded; a failure of the broker, which takes the
\* connections of publisher and consumer together, can cost both.
CopiesNeedFaults ==
  \A m \in Messages : copies[m] <= 1 + faults + outages

\* Every recovery leaves the queue in the end, past bodies that do not decode, dead
\* connections and the others on the publisher.  A process that was started without
\* the broker never turns to the queue.
EveryRecoveryIsSettled ==
  \A m \in Messages : m \in ready ~> m \notin ready \cup unacked \/ ~running

-----------------------------------------------------------------------------
(* Refinement: the queue and the forwarder implement DurableQueue          *)

Queue == INSTANCE DurableQueue
  WITH published <- Len(readable), kept <- ready \cup unacked, hand <- current

\* The recoveries are handled in their order, each before it is settled and none after:
\* a delivery that its connection has left in the buffer is dropped with it.
ImplementsQueue == Queue!Spec
=============================================================================
