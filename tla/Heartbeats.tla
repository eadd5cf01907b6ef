----------------------------- MODULE Heartbeats -----------------------------
(***************************************************************************)
(* The heartbeats of all services as GET /status sees them: the tap of     *)
(* heartbeat.rs on heartbeat.direct with its last-seen map.  mcp-master is *)
(* one of the services; its own publisher is OwnHeartbeat.  Time is        *)
(* discrete and finer than a second, since the code cuts both timestamps   *)
(* and ages to whole seconds.                                              *)
(***************************************************************************)
EXTENDS Integers

CONSTANTS
  Services,        (* the services that publish heartbeats               *)
  SECOND,          (* a second, in units of the clock                    *)
  STALE,           (* STALE_SECS, in seconds                             *)
  MaxDelay,        (* from a sender through the broker to the map        *)
  MaxSkew,         (* between a sender's clock and ours                  *)
  MaxNow           (* bound: the clock stops here                        *)

ASSUME HeartbeatAssumption ==
  /\ {STALE, MaxDelay, MaxSkew, MaxNow} \subseteq Nat
  /\ SECOND \in Nat \ {0}

VARIABLES
  now,
  skew,        (* each sender's clock minus ours                            *)
  sent,        (* history: when each service last got a beat to the broker  *)
  heard,       (* history: the same, while the tap's queue was bound        *)
  tap,         (* whether that queue is there                               *)
  inflight,    (* the beats in it, or buffered with the tap                 *)
  last_seen    (* HeartbeatState                                            *)

vars == <<now, skew, sent, heard, tap, inflight, last_seen>>

-----------------------------------------------------------------------------
(* Types                                                                   *)

Never == -1
Time == 0..MaxNow

\* No timestamp that parses, one with fractions of a second, or, as our own, without.
Stamp == {"none", "exact", "seconds"}

Beat == [service : Services, sent : Time, stamp : Stamp]

TypeOK ==
  /\ now \in Time
  /\ skew \in [Services -> -MaxSkew..MaxSkew]
  /\ sent \in [Services -> Time \cup {Never}] /\ heard \in [Services -> Time \cup {Never}]
  /\ tap \in {"up", "down"} /\ inflight \subseteq Beat
  /\ DOMAIN last_seen \subseteq Services
  /\ \A s \in DOMAIN last_seen : last_seen[s] \in (-MaxSkew - SECOND)..(MaxNow + MaxSkew)

Init ==
  /\ now = 0
  /\ skew \in [Services -> -MaxSkew..MaxSkew]
  /\ sent = [s \in Services |-> Never] /\ heard = [s \in Services |-> Never]
  /\ tap = "down" /\ inflight = {}
  /\ last_seen = [s \in {} |-> 0]

\* No beat stays on its way for longer than MaxDelay.
Tick ==
  /\ now < MaxNow
  /\ \A b \in inflight : now < b.sent + MaxDelay
  /\ now' = now + 1
  /\ UNCHANGED <<skew, sent, heard, tap, inflight, last_seen>>

-----------------------------------------------------------------------------
(* The exchange                                                            *)

\* A direct exchange copies to every bound queue.  A service beats when it likes.
ServiceBeat(s, stamp) ==
  /\ sent[s] # now
  /\ sent' = [sent EXCEPT ![s] = now]
  /\ IF tap = "up"
     THEN /\ heard' = [heard EXCEPT ![s] = now]
          /\ inflight' = inflight \cup {[service |-> s, sent |-> now, stamp |-> stamp]}
     ELSE UNCHANGED <<heard, inflight>>
  /\ UNCHANGED <<now, skew, tap, last_seen>>

-----------------------------------------------------------------------------
(* heartbeat::run and snapshot                                             *)

TapConnects ==
  /\ tap = "down"
  /\ tap' = "up"
  /\ UNCHANGED <<now, skew, sent, heard, inflight, last_seen>>

\* The queue is exclusive and goes with its connection, and what was in it; the tap
\* still reads what it had buffered.
TapBreaks ==
  /\ tap = "up"
  /\ tap' = "down"
  /\ inflight' \in SUBSET inflight
  /\ heard' = [s \in Services |-> Never]
  /\ UNCHANGED <<now, skew, sent, last_seen>>

\* A timestamp without fractions is the second that had begun.
WholeSecond(t) == (t \div SECOND) * SECOND

\* parse_heartbeat: the sender's time, or ours where there is none.
LastSeen(b) ==
  LET theirs == b.sent + skew[b.service] IN
  CASE b.stamp = "none" -> now
    [] b.stamp = "exact" -> theirs
    [] b.stamp = "seconds" -> WholeSecond(theirs)

\* state.insert, whatever the map held before.  Beats of one service on different
\* connections may come out of order.
Deliver(b) ==
  /\ b \in inflight
  /\ inflight' = inflight \ {b}
  /\ last_seen' = [s \in DOMAIN last_seen \cup {b.service} |->
                     IF s = b.service THEN LastSeen(b) ELSE last_seen[s]]
  /\ UNCHANGED <<now, skew, sent, heard, tap>>

\* TimeDelta::num_seconds: towards zero.
Seconds(d) == IF d >= 0 THEN d \div SECOND ELSE -((-d) \div SECOND)

\* Faulty variants: the comparison is off by one, to either side.
FreshAMomentLonger(s) == s \in DOMAIN last_seen /\ Seconds(now - last_seen[s]) <= STALE + 1
FreshAMomentShorter(s) == s \in DOMAIN last_seen /\ Seconds(now - last_seen[s]) < STALE

\* GET /status says up; a service in the map that is not fresh is down, one that is
\* not in the map is absent.
Fresh(s) == s \in DOMAIN last_seen /\ Seconds(now - last_seen[s]) <= STALE

-----------------------------------------------------------------------------
Next ==
  \/ Tick
  \/ \E s \in Services, stamp \in Stamp : ServiceBeat(s, stamp)
  \/ TapConnects \/ TapBreaks
  \/ \E b \in inflight : Deliver(b)

Spec == Init /\ [][Next]_vars

-----------------------------------------------------------------------------
(* Properties                                                              *)

Larger(a, b) == IF a >= b THEN a ELSE b

\* /status calls no service up that has been silent for longer than the window, the
\* second that cutting the age to whole ones gives away, and what the sender's clock
\* or the way here may add.
NoFalseUp ==
  \A s \in Services : Fresh(s) =>
    /\ sent[s] # Never
    /\ now - sent[s] < (STALE + 1) * SECOND + Larger(MaxSkew, MaxDelay)

\* And none down whose beat came in while the tap was listening, although an older
\* beat may have overtaken it, its clock may be behind, and its timestamp may have
\* lost its fractions: what that takes away, cutting the age gives back.
NoFalseDown ==
  \A s \in Services :
    /\ heard[s] # Never /\ heard[s] + MaxDelay < now
    /\ now - heard[s] <= STALE * SECOND - MaxDelay - MaxSkew
    => Fresh(s)
=============================================================================
