---------------------------- MODULE OwnHeartbeat ----------------------------
(***************************************************************************)
(* mcp-master's own heartbeat, the publisher of rabbitmq::heartbeat, and   *)
(* the broker and connection it publishes over.  Time is in seconds; a     *)
(* step that is due is taken before the clock goes on.  A broker that is   *)
(* well answers within MaxReply, and a connection that is gone is noticed  *)
(* within NoticeTime: nothing in the code itself bounds either.            *)
(***************************************************************************)
EXTENDS Integers

CONSTANTS
  Interval,        (* of the heartbeat                                   *)
  MaxBackoff,      (* MAX_RECONNECT_BACKOFF                              *)
  ConnectTimeout,  (* CONNECT_TIMEOUT of an AMQP handshake               *)
  NoticeTime,      (* until the AMQP heartbeats notice a lost connection *)
  MaxReply,        (* of a broker that is well                           *)
  MaxFaults,       (* bound: faults of broker and connection             *)
  MaxClock         (* bound: the clock stops here                        *)

ASSUME OwnAssumption ==
  /\ {NoticeTime, MaxReply, MaxFaults, MaxClock} \subseteq Nat
  /\ {Interval, MaxBackoff, ConnectTimeout} \subseteq Nat \ {0}
  /\ MaxReply < ConnectTimeout

VARIABLES
  clock,
  broker,      (* the state of the broker                                   *)
  faults,
  calm_since,  (* history: when broker or connection last changed           *)
  own,         (* the session                                               *)
  link,        (* its connection and channel                                *)
  attempt,     (* the count of failed sessions, never reset                 *)
  timer,       (* when it acts next; opening a channel, since when          *)
  last_beat    (* history: when a beat last reached the broker              *)

session == <<own, link, attempt, timer>>
own_vars == <<clock, broker, faults, calm_since, session, last_beat>>

-----------------------------------------------------------------------------
(* Types                                                                   *)

NoBeat == -1

\* half: it accepts and does not shake hands.  mute: it shakes hands, serves what is
\* set up, and answers no request for a channel or an exchange.
Broker == {"up", "half", "mute", "down"}
Serving == broker \in {"up", "mute"}

\* publishing: in a publish that does not return.
Own == {"sleeping", "connecting", "opening", "up", "publishing"}

\* lost: gone, while status().connected() still holds and a publish returns Ok.
\* closed: known to be gone.
Link == {"well", "lost", "closed"}

MaxAttempt == 6

OwnTypeOK ==
  /\ clock \in 0..MaxClock /\ calm_since \in 0..clock
  /\ broker \in Broker /\ faults \in 0..MaxFaults
  /\ own \in Own /\ link \in Link /\ attempt \in 0..MaxAttempt
  /\ timer \in 0..(clock + MaxBackoff + ConnectTimeout + Interval)
  /\ last_beat \in 0..clock \cup {NoBeat}

OwnInit ==
  /\ clock = 0 /\ calm_since = 0 /\ faults = 0
  /\ broker \in Broker
  /\ own = "sleeping" /\ link = "closed" /\ attempt = 0 /\ timer = 0
  /\ last_beat = NoBeat

-----------------------------------------------------------------------------
(* Broker and connection                                                   *)

\* A handshake that a well broker owes an answer ends in time, and so does opening.
AnswerIsDue ==
  /\ broker = "up" /\ link = "well" /\ own \in {"connecting", "opening"}
  /\ clock >= calm_since + MaxReply
  /\ clock >= (IF own = "opening" THEN timer ELSE timer - ConnectTimeout) + MaxReply

\* The heartbeats of AMQP begin after the handshake.
NoticeIsDue ==
  /\ link = "lost" /\ own \in {"opening", "up", "publishing"}
  /\ clock >= calm_since + NoticeTime

\* An await on a connection that is known to be gone returns.
FailureIsDue == link = "closed" /\ own \in {"opening", "publishing"}

TimerIsDue == clock = timer /\ own \in {"sleeping", "connecting", "up"}

TimePasses ==
  /\ clock < MaxClock
  /\ ~(AnswerIsDue \/ NoticeIsDue \/ FailureIsDue \/ TimerIsDue)
  /\ clock' = clock + 1
  /\ UNCHANGED <<broker, faults, calm_since, session, last_beat>>

\* What it held open is lost; a mute broker may keep it.
BrokerFails(how) ==
  /\ broker = "up" /\ faults < MaxFaults
  /\ broker' = how /\ faults' = faults + 1 /\ calm_since' = clock
  /\ \/ link' = (IF link = "well" THEN "lost" ELSE link)
     \/ how = "mute" /\ UNCHANGED link
  /\ UNCHANGED <<clock, own, attempt, timer, last_beat>>

BrokerRecovers ==
  /\ broker # "up"
  /\ broker' = "up" /\ calm_since' = clock
  /\ UNCHANGED <<clock, faults, session, last_beat>>

\* The network loses the connection, or the server closes the channel.
LinkBreaks(how) ==
  /\ link = "well" /\ own # "sleeping" /\ faults < MaxFaults
  /\ link' = how /\ faults' = faults + 1 /\ calm_since' = clock
  /\ UNCHANGED <<clock, broker, own, attempt, timer, last_beat>>

\* A reset, or heartbeats that stay away.
LossNoticed ==
  /\ link = "lost"
  /\ link' = "closed"
  /\ UNCHANGED <<clock, broker, faults, calm_since, own, attempt, timer, last_beat>>

-----------------------------------------------------------------------------
(* rabbitmq::heartbeat::run                                                *)

Smaller(a, b) == IF a <= b THEN a ELSE b

\* backoff_with_jitter, capped; the jitter is less than a tick.
Backoff(n) == Smaller(2 ^ (n - 1), MaxBackoff)

SessionFailed ==
  LET n == Smaller(attempt + 1, MaxAttempt) IN
  /\ own' = "sleeping" /\ link' = "closed" /\ attempt' = n /\ timer' = clock + Backoff(n)
  /\ UNCHANGED <<clock, broker, faults, calm_since, last_beat>>

Connect ==
  /\ own = "sleeping" /\ clock = timer
  /\ own' = "connecting" /\ link' = "well" /\ timer' = clock + ConnectTimeout
  /\ UNCHANGED <<clock, broker, faults, calm_since, attempt, last_beat>>

\* The handshake; a broker that was down or half up may go on with it later.
Connected ==
  /\ own = "connecting" /\ link = "well" /\ Serving
  /\ own' = "opening" /\ timer' = clock
  /\ UNCHANGED <<clock, broker, faults, calm_since, link, attempt, last_beat>>

\* Refused, reset, or the deadline passes.
ConnectFails ==
  /\ own = "connecting" /\ (broker = "down" \/ link = "closed" \/ clock = timer)
  /\ SessionFailed

\* create_channel and exchange_declare, which have no deadline; the first tick of the
\* interval is at once.
Opened ==
  /\ own = "opening" /\ link = "well" /\ broker = "up"
  /\ own' = "up" /\ timer' = clock
  /\ UNCHANGED <<clock, broker, faults, calm_since, link, attempt, last_beat>>

OpenFails ==
  /\ own = "opening" /\ link = "closed"
  /\ SessionFailed

\* Faulty variant: no look at the channel before publishing.
OwnBeatIntoTheVoid ==
  /\ own = "up" /\ clock = timer
  /\ timer' = clock + Interval
  /\ last_beat' = IF link = "well" THEN clock ELSE last_beat
  /\ UNCHANGED <<clock, broker, faults, calm_since, own, link, attempt>>

\* A tick on a channel that status() calls connected: the publish returns Ok, whether
\* the beat gets anywhere or not.
OwnBeat ==
  /\ own = "up" /\ clock = timer /\ link # "closed"
  /\ timer' = clock + Interval
  /\ last_beat' = IF link = "well" THEN clock ELSE last_beat
  /\ UNCHANGED <<clock, broker, faults, calm_since, own, link, attempt>>

\* On a connection that is gone it may also be held up, with the buffers full.
OwnBeatPends ==
  /\ own = "up" /\ clock = timer /\ link = "lost"
  /\ own' = "publishing"
  /\ UNCHANGED <<clock, broker, faults, calm_since, link, attempt, timer, last_beat>>

\* channel.status().connected() does not hold at a tick, or the publish fails.
OwnBails ==
  /\ \/ own = "up" /\ clock = timer
     \/ own = "publishing"
  /\ link = "closed"
  /\ SessionFailed

-----------------------------------------------------------------------------
OwnStep ==
  \/ Connect \/ Connected \/ ConnectFails \/ Opened \/ OpenFails
  \/ OwnBeat \/ OwnBeatPends \/ OwnBails

OwnNext ==
  \/ TimePasses
  \/ \E how \in {"half", "mute", "down"} : BrokerFails(how)
  \/ BrokerRecovers
  \/ \E how \in {"lost", "closed"} : LinkBreaks(how)
  \/ LossNoticed
  \/ OwnStep

OwnSpec == OwnInit /\ [][OwnNext]_own_vars

-----------------------------------------------------------------------------
(* Properties                                                              *)

\* The longest a session can hold on to what is gone: a handshake until its deadline,
\* a connection until its loss is noticed and the next tick looks.
HoldingOn ==
  IF ConnectTimeout >= NoticeTime + Interval THEN ConnectTimeout ELSE NoticeTime + Interval

\* The watchdog contract: when broker and connection have been well for as long as a
\* session holds on to what is gone, one capped backoff, one handshake and one
\* opening, the beats come at the interval, after however many failed attempts.
OwnCadence ==
  broker = "up" /\ clock - calm_since > HoldingOn + MaxBackoff + 2 * MaxReply
    => last_beat # NoBeat /\ clock - last_beat <= Interval
=============================================================================
