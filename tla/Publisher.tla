------------------------------ MODULE Publisher ------------------------------
(***************************************************************************)
(* rabbitmq::publisher::Publisher: one connection behind a mutex that all  *)
(* tasks share, the pre-flight look at the channel, and the one reconnect  *)
(* and retry when a write fails.  There are no publisher confirms.         *)
(*                                                                         *)
(* The callers of publish_event are in the modules that extend this one.   *)
(***************************************************************************)
EXTENDS Naturals, Sequences, SequencesExt

CONSTANTS
  Callers,    (* the tasks that share the publisher                      *)
  Events,     (* what they publish                                       *)
  NoEvent,
  MaxFaults   (* bound: failures of the broker, connections and process  *)

ASSUME PublisherAssumption == NoEvent \notin Events /\ MaxFaults \in Nat

VARIABLES
  broker,    (* up or down                                               *)
  faults,
  channel,   (* inner.channel                                            *)
  lock,      (* the mutex: its holder and, in order, who waits           *)
  step,      (* of each caller in publish_event                          *)
  event,     (* what it publishes                                        *)
  outages,   (* history: the faults that were failures of the broker     *)
  copies,    (* history: how often each event reached the exchange       *)
  excused    (* history: the events a fault got in the way of            *)

writers == <<lock, step, event>>
history == <<outages, copies, excused>>
publisherVars == <<broker, faults, channel, writers, history>>

\* dying: the connection is gone and lapin does not know; dead: status() says so.
Channels == {"live", "dying", "dead"}

\* preflight and again: in open_inner; first and retry: in do_publish; first_out
\* and retry_out: still there, and the broker has the event; ok and err:
\* publish_event has returned.
Reopening == {"preflight", "again"}
Writing == {"first", "retry"}
Out == {"first_out", "retry_out"}
Steps == {"idle", "waiting", "ok", "err"} \cup Reopening \cup Writing \cup Out

PublisherTypeOK ==
  /\ broker \in {"up", "down"} /\ faults \in 0..MaxFaults /\ channel \in Channels
  /\ lock \in Seq(Callers) /\ IsInjective(lock)
  /\ step \in [Callers -> Steps] /\ event \in [Callers -> Events \cup {NoEvent}]
  /\ outages \in 0..faults /\ copies \in [Events -> Nat] /\ excused \subseteq Events

\* Publisher::connect succeeded.
PublisherInit ==
  /\ broker = "up" /\ faults = 0 /\ channel = "live"
  /\ lock = <<>>
  /\ step = [c \in Callers |-> "idle"] /\ event = [c \in Callers |-> NoEvent]
  /\ outages = 0 /\ copies = [e \in Events |-> 0] /\ excused = {}

-----------------------------------------------------------------------------
(* The broker and the connection                                           *)

Held == {event[c] : c \in {d \in Callers : step[d] \in Reopening \cup Writing}}

Severed == IF channel = "live" THEN "dying" ELSE channel

BrokerFails ==
  /\ broker = "up" /\ faults < MaxFaults
  /\ broker' = "down" /\ faults' = faults + 1 /\ outages' = outages + 1
  /\ channel' = Severed
  /\ excused' = excused \cup Held
  /\ UNCHANGED <<writers, copies>>

BrokerRecovers ==
  /\ broker = "down"
  /\ broker' = "up"
  /\ UNCHANGED <<faults, channel, writers, history>>

ChannelBreaks ==
  /\ channel = "live" /\ faults < MaxFaults
  /\ channel' = "dying" /\ faults' = faults + 1
  /\ excused' = excused \cup Held
  /\ UNCHANGED <<broker, writers, outages, copies>>

\* The IO loop of lapin finds out.
Noticed ==
  /\ channel = "dying"
  /\ channel' = "dead"
  /\ UNCHANGED <<broker, faults, writers, history>>

-----------------------------------------------------------------------------
(* publish_event                                                           *)

PublishEvent(c, e) ==
  /\ step[c] = "idle"
  /\ step' = [step EXCEPT ![c] = "waiting"]
  /\ event' = [event EXCEPT ![c] = e]
  /\ lock' = Append(lock, c)
  /\ UNCHANGED <<broker, faults, channel, history>>

\* inner.lock(), in the order of arrival, and the pre-flight look.
Acquire(c) ==
  /\ step[c] = "waiting" /\ lock # <<>> /\ Head(lock) = c
  /\ step' = [step EXCEPT ![c] = IF channel = "dead" THEN "preflight" ELSE "first"]
  /\ UNCHANGED <<broker, faults, channel, lock, event, history>>

\* The guard of the mutex, or the place in its line, is dropped.
LeavesLine(c) == \E i \in DOMAIN lock : lock[i] = c /\ lock' = RemoveAt(lock, i)

Returns(c, result) ==
  /\ step' = [step EXCEPT ![c] = result]
  /\ LeavesLine(c)
  /\ UNCHANGED <<event, broker>>

GoesOn(c, next) ==
  /\ step' = [step EXCEPT ![c] = next]
  /\ UNCHANGED <<event, lock, broker>>

Attempt(c) == IF step[c] = "preflight" THEN "first" ELSE "retry"

\* Faulty variant: the new connection is used nowhere.
ReopenedNotStored(c) ==
  /\ step[c] \in Reopening /\ broker = "up"
  /\ GoesOn(c, Attempt(c))
  /\ UNCHANGED <<faults, channel, history>>

\* *guard = open_inner(..), on to the first do_publish or to the retry.
Reopened(c) ==
  /\ step[c] \in Reopening /\ broker = "up"
  /\ channel' = "live"
  /\ GoesOn(c, Attempt(c))
  /\ UNCHANGED <<faults, history>>

\* connect_with_timeout gives up; the guard keeps the channel it had.
ReopenFails(c) ==
  /\ step[c] \in Reopening /\ broker = "down"
  /\ excused' = excused \cup {event[c]}
  /\ Returns(c, "err")
  /\ UNCHANGED <<faults, channel, outages, copies>>

\* The broker takes the event, while do_publish has yet to return.
Taken(c) ==
  /\ step[c] \in Writing /\ channel = "live"
  /\ copies' = [copies EXCEPT ![event[c]] = @ + 1]
  /\ GoesOn(c, IF step[c] = "first" THEN "first_out" ELSE "retry_out")
  /\ UNCHANGED <<faults, channel, outages, excused>>

\* Faulty variant: a write that is not confirmed is tried again.
WrittenUnconfirmed(c) ==
  /\ step[c] \in Out
  /\ IF step[c] = "first_out" THEN GoesOn(c, "again") ELSE Returns(c, "ok")
  /\ UNCHANGED <<faults, channel, history>>

\* do_publish is Ok, and what has become of the connection since does not matter.
Written(c) ==
  /\ step[c] \in Out
  /\ Returns(c, "ok")
  /\ UNCHANGED <<faults, channel, history>>

\* basic_publish is Ok when the frames are in the socket.
WrittenInVain(c) ==
  /\ step[c] \in Writing /\ channel = "dying"
  /\ excused' = excused \cup {event[c]}
  /\ Returns(c, "ok")
  /\ UNCHANGED <<faults, channel, outages, copies>>

\* Reconnect and retry, once.
AttemptFails(c) ==
  IF step[c] \in {"first", "first_out"} THEN GoesOn(c, "again") ELSE Returns(c, "err")

\* The write fails on a connection that has been lost, before the broker took the
\* event or after: is_likely_disconnect, or the channel is not connected any more.
WriteFails(c) ==
  /\ step[c] \in Writing \cup Out /\ channel # "live"
  /\ AttemptFails(c)
  /\ UNCHANGED <<faults, channel, history>>

\* The heuristic does not know the error, and lapin not yet the state.
Unrecognised(c) ==
  /\ step[c] \in {"first", "first_out"} /\ channel = "dying"
  /\ excused' = excused \cup {event[c]}
  /\ Returns(c, "err")
  /\ UNCHANGED <<faults, channel, outages, copies>>

\* The caller goes on.
Collect(c) ==
  /\ step[c] \in {"ok", "err"}
  /\ step' = [step EXCEPT ![c] = "idle"]
  /\ event' = [event EXCEPT ![c] = NoEvent]
  /\ UNCHANGED <<broker, faults, channel, lock, history>>

\* The caller's future is dropped.
Abandon(c) ==
  /\ step[c] \in {"waiting"} \cup Reopening \cup Writing \cup Out
  /\ step' = [step EXCEPT ![c] = "idle"]
  /\ event' = [event EXCEPT ![c] = NoEvent]
  /\ LeavesLine(c)
  /\ UNCHANGED <<broker, faults, channel, history>>

PublishStep(c) ==
  \/ Acquire(c) \/ Reopened(c) \/ ReopenFails(c)
  \/ Taken(c) \/ Written(c) \/ WrittenInVain(c)
  \/ WriteFails(c) \/ Unrecognised(c)
=============================================================================
