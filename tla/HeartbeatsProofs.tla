-------------------------- MODULE HeartbeatsProofs --------------------------
(***************************************************************************)
(* Proofs about the heartbeats, for any delays, skews, intervals, timeouts *)
(* and number of faults: what GET /status says is true within the window,  *)
(* and the own heartbeat keeps its cadence.                                *)
(***************************************************************************)
EXTENDS Heartbeats, OwnHeartbeat, TLAPS

-----------------------------------------------------------------------------
(* The tap: its invariant                                                  *)

\* The clock, and the numbers that are compared with it.
ClockInv ==
  /\ now \in Nat
  /\ skew \in [Services -> -MaxSkew..MaxSkew]
  /\ sent \in [Services -> Nat \cup {Never}]
  /\ heard \in [Services -> Nat \cup {Never}]
  /\ \A s \in Services : sent[s] <= now
  /\ DOMAIN last_seen \subseteq Services
  /\ \A s \in DOMAIN last_seen : last_seen[s] \in Int

\* A beat is on its way for MaxDelay at most, and its sender has sent none later
\* than the history says.
QueueInv ==
  /\ inflight \subseteq [service : Services, sent : Nat, stamp : Stamp]
  /\ \A b \in inflight : b.sent <= now /\ now <= b.sent + MaxDelay /\ b.sent <= sent[b.service]

\* The map is never ahead of the last beat by more than clock or queue can add.
NotAhead ==
  \A s \in DOMAIN last_seen :
    sent[s] # Never /\ last_seen[s] <= sent[s] + Larger(MaxSkew, MaxDelay)

\* Nor is it behind the last beat that was heard by more than these and less than a
\* second, unless that beat is still on its way.
NotBehind ==
  \A s \in Services : heard[s] # Never =>
    \/ \E b \in inflight : b.service = s /\ b.sent = heard[s]
    \/ s \in DOMAIN last_seen /\ last_seen[s] + SECOND > heard[s] - MaxDelay - MaxSkew
HeardBeforeNow == \A s \in Services : heard[s] <= now

TapInv == ClockInv /\ QueueInv /\ NotAhead /\ NotBehind /\ HeardBeforeNow

-----------------------------------------------------------------------------
(* Seconds                                                                 *)

\* The numbers among the constants.
LEMMA ConstantsAreNumbers ==
  /\ {STALE, MaxDelay, MaxSkew, MaxNow} \subseteq Nat /\ SECOND \in Nat \ {0}
  /\ Larger(MaxSkew, MaxDelay) \in Nat
  /\ Larger(MaxSkew, MaxDelay) >= MaxSkew /\ Larger(MaxSkew, MaxDelay) >= MaxDelay
BY HeartbeatAssumption DEF Larger

\* Division by a positive number, from either side.
LEMMA DivisionRoundsDown ==
  ASSUME NEW k \in Nat \ {0}, NEW t \in Int
  PROVE  t \div k \in Int /\ (t \div k) * k <= t /\ t < (t \div k) * k + k
BY SMTT(30)

\* Products with a positive number keep the order.
LEMMA ProductsKeepOrder ==
  ASSUME NEW k \in Nat \ {0}, NEW p \in Int, NEW q \in Int
  PROVE  /\ p * k \in Int
         /\ p <= q => p * k <= q * k
         /\ p < q => p * k + k <= q * k
BY SMTT(30)

\* Cutting a timestamp to whole seconds takes away less than one.
LEMMA StampLosesLessThanASecond ==
  ASSUME NEW t \in Int
  PROVE  WholeSecond(t) \in Int /\ WholeSecond(t) <= t /\ t < WholeSecond(t) + SECOND
<1>1. SECOND \in Nat \ {0}
  BY ConstantsAreNumbers
<1> DEFINE q == t \div SECOND
<1>2. q \in Int /\ q * SECOND <= t /\ t < q * SECOND + SECOND
  BY <1>1, DivisionRoundsDown
<1>3. q * SECOND \in Int
  BY <1>1, <1>2, ProductsKeepOrder
<1> QED
  BY <1>2, <1>3 DEF WholeSecond

\* An age counts as n seconds until the next one is full.
LEMMA AgesAreCut ==
  ASSUME NEW d \in Int, NEW n \in Nat
  PROVE  Seconds(d) <= n <=> d < (n + 1) * SECOND
<1>1. SECOND \in Nat \ {0}
  BY ConstantsAreNumbers
<1> DEFINE q == d \div SECOND  r == (-d) \div SECOND
<1>2. (n + 1) * SECOND \in Int /\ (n + 1) * SECOND > 0
  <2>1. 0 * SECOND = 0
    BY <1>1
  <2>2. 0 * SECOND + SECOND <= (n + 1) * SECOND /\ (n + 1) * SECOND \in Int
    BY <1>1, ProductsKeepOrder
  <2> QED
    BY <1>1, <2>1, <2>2
<1>3. CASE d >= 0
  <2>1. q \in Int /\ q * SECOND \in Int /\ q * SECOND <= d /\ d < q * SECOND + SECOND
    BY <1>1, DivisionRoundsDown, ProductsKeepOrder
  <2>2. q <= n => q * SECOND + SECOND <= (n + 1) * SECOND
    BY <1>1, <2>1, ProductsKeepOrder
  <2>3. ~(q <= n) => (n + 1) * SECOND <= q * SECOND
    BY <1>1, <2>1, ProductsKeepOrder
  <2>4. Seconds(d) = q
    BY <1>3 DEF Seconds
  <2> HIDE DEF q
  <2> QED
    BY <1>1, <1>2, <2>1, <2>2, <2>3, <2>4
<1>4. CASE d < 0
  <2>1. r \in Int /\ r * SECOND \in Int /\ -d < r * SECOND + SECOND
    BY <1>1, DivisionRoundsDown, ProductsKeepOrder
  <2>2. r < 0 => r * SECOND + SECOND <= 0 * SECOND
    BY <1>1, <2>1, ProductsKeepOrder
  <2>3. Seconds(d) = -r
    BY <1>4 DEF Seconds
  <2> HIDE DEF r
  <2>4. r >= 0
    BY <1>1, <1>4, <2>1, <2>2
  <2> QED
    BY <1>2, <1>4, <2>1, <2>3, <2>4
<1> QED
  BY <1>3, <1>4

-----------------------------------------------------------------------------
(* The tap: its steps                                                      *)

\* A beat that reaches the exchange is the last of its service.
LEMMA BeatKeepsTap ==
  ASSUME TapInv, NEW s \in Services, NEW stamp \in Stamp, ServiceBeat(s, stamp)
  PROVE  TapInv'
<1> DEFINE b == [service |-> s, sent |-> now, stamp |-> stamp]
<1> USE ConstantsAreNumbers DEF TapInv, ServiceBeat
<1>1. /\ sent' = [sent EXCEPT ![s] = now] /\ heard' \in [Services -> Nat \cup {Never}]
      /\ inflight' \subseteq inflight \cup {b} /\ UNCHANGED <<now, skew, last_seen>>
  BY DEF ClockInv
<1>2. \A x \in Services : sent'[x] >= sent[x] /\ sent'[x] \in Nat \cup {Never}
                          /\ (sent[x] # Never => sent'[x] # Never)
  BY <1>1 DEF ClockInv, Never
<1>3. ClockInv'
  <2>1. now \in Nat /\ \A x \in Services : sent'[x] = IF x = s THEN now ELSE sent[x]
    BY <1>1 DEF ClockInv
  <2>2. \A x \in Services : sent'[x] <= now
    BY <2>1 DEF ClockInv
  <2>3. sent' \in [Services -> Nat \cup {Never}]
    BY <1>1, <2>1 DEF ClockInv
  <2> HIDE DEF b, ServiceBeat
  <2> QED
    BY <1>1, <2>2, <2>3 DEF ClockInv
<1>4. QueueInv'
  <2>1. b \in [service : Services, sent : Nat, stamp : Stamp] /\ b.service = s /\ b.sent = now
    BY DEF ClockInv
  <2> HIDE DEF b
  <2>2. sent'[s] = now /\ now \in Nat
    BY <1>1 DEF ClockInv
  <2>3. /\ \A c \in inflight' : c \in inflight \/ c = b
        /\ now' = now
    BY <1>1
  <2>4. \A c \in inflight : c \in [service : Services, sent : Nat, stamp : Stamp]
                            /\ c.sent \in Nat /\ c.service \in Services
                            /\ c.sent <= now /\ now <= c.sent + MaxDelay
                            /\ c.sent <= sent[c.service]
    BY DEF QueueInv
  <2>5. \A x \in Services : sent[x] \in Nat \cup {Never}
    BY DEF ClockInv
  <2>6. \A c \in inflight : c.sent <= sent'[c.service]
    BY <1>2, <2>4, <2>5 DEF Never
  <2> QED
    BY <2>1, <2>2, <2>3, <2>4, <2>6 DEF QueueInv
<1>5. NotAhead'
  BY <1>1, <1>2 DEF ClockInv, NotAhead, Never
<1>6. NotBehind'
  <2> SUFFICES ASSUME NEW x \in Services, heard'[x] # Never
               PROVE  \/ \E c \in inflight' : c.service = x /\ c.sent = heard'[x]
                      \/ /\ x \in DOMAIN last_seen
                         /\ last_seen[x] + SECOND > heard'[x] - MaxDelay - MaxSkew
    BY <1>1 DEF NotBehind
  <2>1. CASE tap = "up" /\ x = s
    <3>1. b \in inflight' /\ heard'[x] = now /\ b.service = x /\ b.sent = now
      BY <2>1 DEF ClockInv
    <3> QED
      BY <3>1
  <2>2. CASE tap # "up" \/ x # s
    <3>1. heard'[x] = heard[x] /\ inflight \subseteq inflight'
      BY <2>2 DEF ClockInv
    <3> QED
      BY <3>1 DEF NotBehind
  <2> QED
    BY <2>1, <2>2
<1>7. HeardBeforeNow'
  BY DEF ClockInv, HeardBeforeNow
<1> QED
  BY <1>3, <1>4, <1>5, <1>6, <1>7

\* A delivery writes a time that is off by clock, queue or fraction, and no more.
LEMMA DeliverKeepsTap ==
  ASSUME TapInv, NEW b \in inflight, Deliver(b)
  PROVE  TapInv'
<1> USE ConstantsAreNumbers DEF TapInv, QueueInv, Deliver
<1>1. /\ b.service \in Services /\ b.sent \in Nat /\ b.stamp \in Stamp /\ now \in Nat
      /\ b.sent <= now /\ now <= b.sent + MaxDelay /\ b.sent <= sent[b.service]
  BY DEF ClockInv
<1>2. /\ LastSeen(b) \in Int
      /\ LastSeen(b) <= b.sent + Larger(MaxSkew, MaxDelay)
      /\ LastSeen(b) + SECOND > b.sent - MaxSkew
  <2> DEFINE theirs == b.sent + skew[b.service]
  <2>1. skew[b.service] \in Int /\ skew[b.service] <= MaxSkew /\ skew[b.service] >= -MaxSkew
    BY <1>1 DEF ClockInv
  <2>2. theirs \in Int /\ theirs <= b.sent + MaxSkew /\ theirs >= b.sent - MaxSkew
    BY <1>1, <2>1
  <2>3. WholeSecond(theirs) \in Int /\ WholeSecond(theirs) <= theirs
        /\ theirs < WholeSecond(theirs) + SECOND
    BY <2>2, StampLosesLessThanASecond
  <2>4. CASE b.stamp = "none"
    BY <1>1, <2>4 DEF LastSeen
  <2>5. CASE b.stamp = "exact"
    <3>1. LastSeen(b) = theirs
      BY <2>5 DEF LastSeen
    <3> HIDE DEF theirs
    <3> QED
      BY <1>1, <2>2, <3>1
  <2>6. CASE b.stamp = "seconds"
    <3>1. LastSeen(b) = WholeSecond(theirs)
      BY <2>6 DEF LastSeen
    <3> HIDE DEF theirs
    <3> QED
      BY <1>1, <2>2, <2>3, <3>1
  <2> QED
    BY <1>1, <2>4, <2>5, <2>6 DEF Stamp
<1>3. /\ DOMAIN last_seen' = DOMAIN last_seen \cup {b.service}
      /\ last_seen'[b.service] = LastSeen(b)
      /\ \A s \in DOMAIN last_seen : s # b.service => last_seen'[s] = last_seen[s]
  OBVIOUS
<1>4. ClockInv'
  BY <1>1, <1>2, <1>3 DEF ClockInv
<1>5. QueueInv'
  OBVIOUS
<1>6. NotAhead'
  <2>1. sent[b.service] # Never /\ sent[b.service] \in Nat
    BY <1>1 DEF ClockInv, Never
  <2>2. LastSeen(b) <= sent[b.service] + Larger(MaxSkew, MaxDelay)
    BY <1>1, <1>2, <2>1
  <2> QED
    BY <1>3, <2>1, <2>2 DEF NotAhead
<1>7. NotBehind'
  <2> SUFFICES ASSUME NEW s \in Services, heard[s] # Never
               PROVE  \/ \E c \in inflight' : c.service = s /\ c.sent = heard[s]
                      \/ /\ s \in DOMAIN last_seen'
                         /\ last_seen'[s] + SECOND > heard[s] - MaxDelay - MaxSkew
    BY DEF NotBehind
  <2>1. CASE s = b.service
    <3>1. heard[s] \in Nat /\ heard[s] <= now
      BY DEF ClockInv, HeardBeforeNow
    <3> QED
      BY <1>1, <1>2, <1>3, <2>1, <3>1
  <2>2. CASE s # b.service
    BY <1>3, <2>2 DEF NotBehind
  <2> QED
    BY <2>1, <2>2
<1>8. HeardBeforeNow'
  BY DEF HeardBeforeNow
<1> QED
  BY <1>4, <1>5, <1>6, <1>7, <1>8

\* The clock passes no beat that is late.
LEMMA TickKeepsTap ==
  ASSUME TapInv, Tick
  PROVE  TapInv'
<1> USE ConstantsAreNumbers DEF TapInv, Tick
<1>1. ClockInv'
  BY DEF ClockInv, Never
<1>2. QueueInv'
  BY DEF ClockInv, QueueInv
<1>3. NotAhead' /\ NotBehind'
  BY DEF NotAhead, NotBehind
<1>4. HeardBeforeNow'
  BY DEF ClockInv, HeardBeforeNow, Never
<1> QED
  BY <1>1, <1>2, <1>3, <1>4

\* The tap's connection comes and goes; a tap that lost it has heard nothing.
LEMMA ConnectionKeepsTap ==
  ASSUME TapInv, TapConnects \/ TapBreaks
  PROVE  TapInv'
<1>1. CASE TapConnects
  BY <1>1 DEF TapInv, ClockInv, QueueInv, NotAhead, NotBehind, HeardBeforeNow, TapConnects
<1>2. CASE TapBreaks
  <2>1. /\ inflight' \subseteq inflight /\ heard' = [s \in Services |-> Never]
        /\ UNCHANGED <<now, skew, sent, last_seen>>
    BY <1>2 DEF TapBreaks
  <2> QED
    BY <2>1 DEF TapInv, ClockInv, QueueInv, NotAhead, NotBehind, HeardBeforeNow, Never
<1> QED
  BY <1>1, <1>2

\* The invariant of the tap.
LEMMA TapInvariance == Spec => []TapInv
<1>1. Init => TapInv
  BY ConstantsAreNumbers
     DEF Init, TapInv, ClockInv, QueueInv, NotAhead, NotBehind, HeardBeforeNow, Never
<1>2. TapInv /\ [Next]_vars => TapInv'
  <2> SUFFICES ASSUME TapInv, [Next]_vars
               PROVE  TapInv'
    OBVIOUS
  <2>1. CASE UNCHANGED vars
    BY <2>1 DEF vars, TapInv, ClockInv, QueueInv, NotAhead, NotBehind, HeardBeforeNow
  <2> QED
    BY <2>1, TickKeepsTap, BeatKeepsTap, ConnectionKeepsTap, DeliverKeepsTap DEF Next
<1> QED
  BY <1>1, <1>2, PTL DEF Spec

-----------------------------------------------------------------------------
(* The tap: types                                                          *)

\* What the invariant leaves open: the bounds of the exploration, and of the map.
WithinBounds ==
  /\ now <= MaxNow /\ tap \in {"up", "down"}
  /\ \A s \in DOMAIN last_seen : last_seen[s] \in (-MaxSkew - SECOND)..(MaxNow + MaxSkew)

\* A delivered beat keeps the map within bounds.
LEMMA DeliveryKeepsBounds ==
  ASSUME TapInv, WithinBounds, NEW b \in inflight, Deliver(b)
  PROVE  WithinBounds'
<1> DEFINE theirs == b.sent + skew[b.service]
<1>1. /\ b.service \in Services /\ b.sent \in 0..now /\ now \in 0..MaxNow /\ b.stamp \in Stamp
      /\ skew[b.service] \in -MaxSkew..MaxSkew
  BY ConstantsAreNumbers DEF TapInv, ClockInv, QueueInv, WithinBounds
<1>2. theirs \in -MaxSkew..(MaxNow + MaxSkew)
  BY <1>1, ConstantsAreNumbers
<1>3. WholeSecond(theirs) \in Int /\ WholeSecond(theirs) <= theirs
      /\ theirs < WholeSecond(theirs) + SECOND
  BY <1>2, StampLosesLessThanASecond
<1>4. LastSeen(b) \in {now, theirs, WholeSecond(theirs)}
  BY <1>1 DEF LastSeen, Stamp
<1> HIDE DEF theirs
<1>5. LastSeen(b) \in (-MaxSkew - SECOND)..(MaxNow + MaxSkew)
  BY <1>1, <1>2, <1>3, <1>4, ConstantsAreNumbers
<1>6. /\ DOMAIN last_seen' = DOMAIN last_seen \cup {b.service}
      /\ \A s \in DOMAIN last_seen' :
           last_seen'[s] = IF s = b.service THEN LastSeen(b) ELSE last_seen[s]
  BY DEF Deliver
<1>7. \A s \in DOMAIN last_seen' : last_seen'[s] \in (-MaxSkew - SECOND)..(MaxNow + MaxSkew)
  BY <1>5, <1>6 DEF WithinBounds
<1> QED
  BY <1>7 DEF Deliver, WithinBounds

\* Type correctness of the tap, within the bounds of the clock.
THEOREM HeartbeatTypeCorrect == Spec => []TypeOK
<1>1. Init => WithinBounds
  BY ConstantsAreNumbers DEF Init, WithinBounds
<1>2. TapInv /\ WithinBounds /\ [Next]_vars => WithinBounds'
  <2> SUFFICES ASSUME TapInv, WithinBounds, [Next]_vars
               PROVE  WithinBounds'
    OBVIOUS
  <2> USE ConstantsAreNumbers DEF WithinBounds
  <2>1. CASE Tick
    BY <2>1 DEF Tick, TapInv, ClockInv
  <2>2. ASSUME NEW s \in Services, NEW stamp \in Stamp, ServiceBeat(s, stamp)
        PROVE  WithinBounds'
    BY <2>2 DEF ServiceBeat
  <2>3. CASE TapConnects \/ TapBreaks
    BY <2>3 DEF TapConnects, TapBreaks
  <2>4. CASE UNCHANGED vars
    BY <2>4 DEF vars
  <2> QED
    BY <2>1, <2>2, <2>3, <2>4, DeliveryKeepsBounds DEF Next
<1>3. TapInv /\ WithinBounds => TypeOK
  <2> SUFFICES ASSUME TapInv, WithinBounds PROVE TypeOK
    OBVIOUS
  <2>1. now \in Time /\ \A n \in Nat : n <= now => n \in Time
    BY ConstantsAreNumbers DEF TapInv, ClockInv, WithinBounds, Time
  <2>2. /\ sent \in [Services -> Time \cup {Never}]
        /\ heard \in [Services -> Time \cup {Never}]
    BY <2>1 DEF TapInv, ClockInv, HeardBeforeNow
  <2>3. inflight \subseteq Beat
    BY <2>1 DEF TapInv, QueueInv, Beat
  <2> QED
    BY <2>1, <2>2, <2>3 DEF TypeOK, TapInv, ClockInv, WithinBounds
<1> QED
  BY <1>1, <1>2, <1>3, TapInvariance, PTL DEF Spec

-----------------------------------------------------------------------------
(* The tap: the theorems                                                   *)

\* /status calls no service up that has been silent for longer than STALE_SECS, the
\* second the cut age gives away, and what its clock or the broker may add.
THEOREM NobodyIsFalselyUp == Spec => []NoFalseUp
<1>1. TapInv => NoFalseUp
  <2> SUFFICES ASSUME TapInv, NEW s \in Services, Fresh(s)
               PROVE  /\ sent[s] # Never
                      /\ now - sent[s] < (STALE + 1) * SECOND + Larger(MaxSkew, MaxDelay)
    BY DEF NoFalseUp
  <2>1. /\ s \in DOMAIN last_seen /\ last_seen[s] \in Int /\ Seconds(now - last_seen[s]) <= STALE
        /\ now \in Nat /\ sent[s] \in Nat \cup {Never}
    BY DEF Fresh, TapInv, ClockInv
  <2>2. now - last_seen[s] < (STALE + 1) * SECOND
    BY <2>1, AgesAreCut, ConstantsAreNumbers
  <2>3. sent[s] # Never /\ last_seen[s] <= sent[s] + Larger(MaxSkew, MaxDelay)
    BY <2>1 DEF TapInv, NotAhead
  <2>4. (STALE + 1) * SECOND \in Int
    BY ConstantsAreNumbers, ProductsKeepOrder
  <2> QED
    BY <2>1, <2>2, <2>3, <2>4, ConstantsAreNumbers
<1> QED
  BY <1>1, TapInvariance, PTL

\* It calls none down whose beat came in while the tap was listening, whatever the
\* order in which the beats arrive and whatever their timestamps leave out.
THEOREM NobodyIsFalselyDown == Spec => []NoFalseDown
<1>1. TapInv => NoFalseDown
  <2> SUFFICES ASSUME TapInv, NEW s \in Services,
                      heard[s] # Never, heard[s] + MaxDelay < now,
                      now - heard[s] <= STALE * SECOND - MaxDelay - MaxSkew
               PROVE  Fresh(s)
    BY DEF NoFalseDown
  <2>1. now \in Nat /\ heard[s] \in Nat
    BY DEF TapInv, ClockInv
  <2>2. ~ \E b \in inflight : b.service = s /\ b.sent = heard[s]
    BY <2>1, ConstantsAreNumbers DEF TapInv, QueueInv
  <2>3. s \in DOMAIN last_seen /\ last_seen[s] + SECOND > heard[s] - MaxDelay - MaxSkew
    BY <2>2 DEF TapInv, NotBehind
  <2>4. last_seen[s] \in Int
    BY <2>3 DEF TapInv, ClockInv
  <2>5. STALE * SECOND \in Int /\ STALE * SECOND + SECOND <= (STALE + 1) * SECOND
        /\ (STALE + 1) * SECOND \in Int
    BY ConstantsAreNumbers, ProductsKeepOrder
  <2>6. now - last_seen[s] < (STALE + 1) * SECOND
    BY <2>1, <2>3, <2>4, <2>5, ConstantsAreNumbers
  <2> QED
    BY <2>1, <2>3, <2>4, <2>6, AgesAreCut, ConstantsAreNumbers DEF Fresh
<1> QED
  BY <1>1, TapInvariance, PTL

-----------------------------------------------------------------------------
(* The own heartbeat: its invariant                                        *)

\* The clock of the own heartbeat, and what is compared with it.
OwnClockInv ==
  /\ clock \in Nat /\ calm_since \in 0..clock /\ broker \in Broker
  /\ own \in Own /\ link \in Link /\ attempt \in 0..MaxAttempt
  /\ timer \in Nat /\ timer <= clock + MaxBackoff + ConnectTimeout + Interval
  /\ last_beat \in 0..clock \cup {NoBeat}

\* By when a session that was there before the last fault is over, and by when its
\* successor begins.
Over == calm_since + HoldingOn
Again == Over + MaxBackoff

\* Asleep: for one backoff at most.
SleepInv ==
  own = "sleeping" =>
    /\ clock <= timer /\ timer <= clock + MaxBackoff
    /\ broker = "up" => timer <= Again

\* In the handshake: begun before the last fault, and over by its deadline; or begun
\* after, and answered.
HandshakeInv ==
  own = "connecting" =>
    /\ clock <= timer /\ timer <= clock + ConnectTimeout
    /\ broker = "up" =>
         \/ timer <= calm_since + ConnectTimeout
         \/ /\ link = "well" /\ calm_since + ConnectTimeout <= timer
            /\ timer <= Again + ConnectTimeout
            /\ clock + ConnectTimeout <= timer + MaxReply

\* Opening a channel: lost, and noticed in time; or well, and answered in time.
OpeningInv ==
  own = "opening" =>
    /\ timer <= clock
    /\ link # "well" => clock <= calm_since + NoticeTime
    /\ broker = "up" /\ link = "well" =>
         /\ timer <= Again + MaxReply
         /\ clock <= calm_since + MaxReply \/ clock <= timer + MaxReply

\* Beating: on a connection that is well, since it was opened or since the last beat.
BeatingInv ==
  own = "up" =>
    /\ clock <= timer /\ timer <= clock + Interval
    /\ link = "well" =>
         \/ timer = clock /\ (broker = "up" => clock <= Again + 2 * MaxReply)
         \/ last_beat # NoBeat /\ timer = last_beat + Interval
    /\ link = "lost" => clock <= calm_since + NoticeTime
    /\ link = "closed" => timer <= calm_since + NoticeTime + Interval

\* Held up in a publish: until the loss is noticed.
PendingInv ==
  own = "publishing" =>
    timer <= clock /\ link # "well" /\ clock <= calm_since + NoticeTime

OwnInv ==
  OwnClockInv /\ SleepInv /\ HandshakeInv /\ OpeningInv /\ BeatingInv /\ PendingInv

-----------------------------------------------------------------------------
(* The own heartbeat: its steps                                            *)

\* The constants of the own heartbeat, and how they compare.
LEMMA OwnConstants ==
  /\ {NoticeTime, MaxReply, MaxFaults, MaxClock} \subseteq Nat
  /\ {Interval, MaxBackoff, ConnectTimeout} \subseteq Nat \ {0}
  /\ MaxReply < ConnectTimeout
  /\ HoldingOn \in Nat /\ HoldingOn >= ConnectTimeout /\ HoldingOn >= NoticeTime + Interval
BY OwnAssumption DEF HoldingOn

\* A backoff is capped.
LEMMA BackoffIsCapped ==
  ASSUME NEW n \in 1..MaxAttempt
  PROVE  Backoff(n) \in 0..MaxBackoff
<1>1. 2 ^ (n - 1) \in Nat
  <2>1. n \in 1..6
    BY DEF MaxAttempt
  <2>2. CASE n = 1
    BY <2>2
  <2>3. CASE n = 2
    BY <2>3
  <2>4. CASE n = 3
    BY <2>4
  <2>5. CASE n = 4
    BY <2>5
  <2>6. CASE n = 5
    BY <2>6
  <2>7. CASE n = 6
    BY <2>7
  <2> QED
    BY <2>1, <2>2, <2>3, <2>4, <2>5, <2>6, <2>7
<1> HIDE DEF MaxAttempt
<1>2. MaxBackoff \in Nat
  BY OwnConstants
<1> DEFINE d == 2 ^ (n - 1)
<1>3. d \in Nat
  BY <1>1
<1> HIDE DEF d
<1>4. Smaller(d, MaxBackoff) \in 0..MaxBackoff
  BY <1>2, <1>3 DEF Smaller
<1> USE DEF d
<1> QED
  BY <1>4 DEF Backoff

\* A session that fails in time sleeps for a backoff, from now.
LEMMA FailureKeepsOwn ==
  ASSUME OwnClockInv, SessionFailed, broker = "up" => clock <= Over
  PROVE  OwnInv'
<1> DEFINE n == Smaller(attempt + 1, MaxAttempt)
<1>1. n \in 1..MaxAttempt
  BY DEF Smaller, MaxAttempt, OwnClockInv
<1>2. /\ own' = "sleeping" /\ link' = "closed" /\ attempt' = n /\ timer' = clock + Backoff(n)
      /\ UNCHANGED <<clock, broker, calm_since, last_beat>>
  BY DEF SessionFailed
<1> HIDE DEF n
<1>3. Backoff(n) \in 0..MaxBackoff
  BY <1>1, BackoffIsCapped
<1>4. OwnClockInv'
  BY <1>1, <1>2, <1>3, OwnConstants DEF OwnClockInv, Own, Link, MaxAttempt
<1>5. SleepInv'
  BY <1>2, <1>3, OwnConstants DEF OwnClockInv, SleepInv, Again, Over
<1> QED
  BY <1>2, <1>4, <1>5 DEF OwnInv, HandshakeInv, OpeningInv, BeatingInv, PendingInv

\* The clock passes nothing that is due.
LEMMA TimeKeepsOwn ==
  ASSUME OwnInv, TimePasses
  PROVE  OwnInv'
<1> USE OwnConstants DEF OwnInv, OwnClockInv, session, Link
<1>1. /\ clock' = clock + 1 /\ UNCHANGED <<broker, calm_since, own, link, attempt, timer, last_beat>>
      /\ ~AnswerIsDue /\ ~NoticeIsDue /\ ~FailureIsDue /\ ~TimerIsDue
  BY DEF TimePasses
<1>2. OwnClockInv'
  BY <1>1
<1>3. SleepInv'
  BY <1>1 DEF SleepInv, TimerIsDue, Again, Over
<1>4. HandshakeInv'
  BY <1>1 DEF HandshakeInv, TimerIsDue, AnswerIsDue, Again, Over
<1>5. OpeningInv'
  BY <1>1 DEF OpeningInv, AnswerIsDue, NoticeIsDue, FailureIsDue, Again, Over
<1>6. BeatingInv'
  BY <1>1 DEF BeatingInv, TimerIsDue, NoticeIsDue, Again, Over
<1>7. PendingInv'
  BY <1>1 DEF PendingInv, NoticeIsDue, FailureIsDue
<1> QED
  BY <1>2, <1>3, <1>4, <1>5, <1>6, <1>7

\* Broker and connection come and go: from then on, all that was there counts as old.
LEMMA FaultsKeepOwn ==
  ASSUME OwnInv,
         \/ \E how \in {"half", "mute", "down"} : BrokerFails(how)
         \/ BrokerRecovers
         \/ \E how \in {"lost", "closed"} : LinkBreaks(how)
         \/ LossNoticed
  PROVE  OwnInv'
<1> USE OwnConstants DEF OwnInv, OwnClockInv, session, Link, Broker, Own
<1>1. ASSUME NEW how \in {"half", "mute", "down"}, BrokerFails(how)
      PROVE  OwnInv'
  <2>1. /\ broker' = how /\ calm_since' = clock /\ UNCHANGED <<clock, own, attempt, timer, last_beat>>
        /\ \/ link' = link
           \/ link = "well" /\ link' = "lost"
    BY <1>1 DEF BrokerFails
  <2>2. OwnClockInv'
    BY <2>1
  <2> QED
    BY <2>1, <2>2 DEF SleepInv, HandshakeInv, OpeningInv, BeatingInv, PendingInv
<1>2. CASE BrokerRecovers
  <2>1. broker' = "up" /\ calm_since' = clock
        /\ UNCHANGED <<clock, own, link, attempt, timer, last_beat>>
    BY <1>2 DEF BrokerRecovers
  <2>2. OwnClockInv'
    BY <2>1
  <2> QED
    BY <2>1, <2>2 DEF SleepInv, HandshakeInv, OpeningInv, BeatingInv, PendingInv, Again, Over
<1>3. ASSUME NEW how \in {"lost", "closed"}, LinkBreaks(how)
      PROVE  OwnInv'
  <2>1. /\ link = "well" /\ own # "sleeping" /\ link' = how /\ calm_since' = clock
        /\ UNCHANGED <<clock, broker, own, attempt, timer, last_beat>>
    BY <1>3 DEF LinkBreaks
  <2>2. OwnClockInv'
    BY <2>1
  <2> QED
    BY <2>1, <2>2
       DEF SleepInv, HandshakeInv, OpeningInv, BeatingInv, PendingInv, Again, Over
<1>4. CASE LossNoticed
  <2>1. /\ link = "lost" /\ link' = "closed"
        /\ UNCHANGED <<clock, broker, calm_since, own, attempt, timer, last_beat>>
    BY <1>4 DEF LossNoticed
  <2>2. OwnClockInv'
    BY <2>1
  <2> QED
    BY <2>1, <2>2
       DEF SleepInv, HandshakeInv, OpeningInv, BeatingInv, PendingInv, Again, Over
<1> QED
  BY <1>1, <1>2, <1>3, <1>4

\* The steps of the session: one that fails is tried again within one backoff, and one
\* that is up beats at once and then at the interval.
LEMMA StepsKeepOwn ==
  ASSUME OwnInv, OwnStep
  PROVE  OwnInv'
<1> USE OwnConstants DEF OwnInv, OwnClockInv, Link, Broker, Own
<1>1. CASE Connect
  BY <1>1 DEF Connect, SleepInv, HandshakeInv, OpeningInv, BeatingInv, PendingInv, Again, Over
<1>2. CASE Connected
  <2>1. /\ own = "connecting" /\ link = "well"
        /\ own' = "opening" /\ timer' = clock
        /\ UNCHANGED <<clock, broker, calm_since, link, attempt, last_beat>>
    BY <1>2 DEF Connected
  <2>2. broker = "up" => clock <= Again + MaxReply
    BY <2>1 DEF HandshakeInv, Again, Over
  <2> QED
    BY <2>1, <2>2 DEF SleepInv, HandshakeInv, OpeningInv, BeatingInv, PendingInv, Again, Over
<1>3. CASE ConnectFails
  <2>1. SessionFailed /\ own = "connecting"
        /\ (broker = "down" \/ link = "closed" \/ clock = timer)
    BY <1>3 DEF ConnectFails
  <2>2. broker = "up" => clock <= Over
    BY <2>1 DEF HandshakeInv, Over, Again
  <2> QED
    BY <2>1, <2>2, FailureKeepsOwn
<1>4. CASE Opened
  <2>1. /\ own = "opening" /\ link = "well" /\ broker = "up"
        /\ own' = "up" /\ timer' = clock
        /\ UNCHANGED <<clock, broker, calm_since, link, attempt, last_beat>>
    BY <1>4 DEF Opened
  <2>2. clock <= Again + 2 * MaxReply
    BY <2>1 DEF OpeningInv, Again, Over
  <2> QED
    BY <2>1, <2>2 DEF SleepInv, HandshakeInv, OpeningInv, BeatingInv, PendingInv, Again, Over
<1>5. CASE OpenFails
  <2>1. SessionFailed /\ own = "opening" /\ link = "closed"
    BY <1>5 DEF OpenFails
  <2>2. clock <= Over
    BY <2>1 DEF OpeningInv, Over
  <2> QED
    BY <2>1, <2>2, FailureKeepsOwn
<1>6. CASE OwnBeat
  <2>1. /\ own = "up" /\ clock = timer /\ link # "closed" /\ timer' = clock + Interval
        /\ last_beat' = IF link = "well" THEN clock ELSE last_beat
        /\ UNCHANGED <<clock, broker, calm_since, own, link, attempt>>
    BY <1>6 DEF OwnBeat
  <2>2. OwnClockInv'
    BY <2>1
  <2>3. BeatingInv'
    BY <2>1 DEF BeatingInv, NoBeat
  <2> QED
    BY <2>1, <2>2, <2>3 DEF SleepInv, HandshakeInv, OpeningInv, PendingInv
<1>7. CASE OwnBeatPends
  BY <1>7 DEF OwnBeatPends, SleepInv, HandshakeInv, OpeningInv, BeatingInv, PendingInv
<1>8. CASE OwnBails
  <2>1. /\ SessionFailed /\ link = "closed"
        /\ \/ own = "up" /\ clock = timer
           \/ own = "publishing"
    BY <1>8 DEF OwnBails
  <2>2. clock <= Over
    BY <2>1 DEF BeatingInv, PendingInv, Over
  <2> QED
    BY <2>1, <2>2, FailureKeepsOwn
<1> QED
  BY <1>1, <1>2, <1>3, <1>4, <1>5, <1>6, <1>7, <1>8 DEF OwnStep

\* The invariant of the own heartbeat.
LEMMA OwnInvariance == OwnSpec => []OwnInv
<1>1. OwnInit => OwnInv
  BY OwnConstants
     DEF OwnInit, OwnInv, OwnClockInv, SleepInv, HandshakeInv, OpeningInv, BeatingInv,
         PendingInv, Own, Link, Broker, MaxAttempt, Again, Over
<1>2. OwnInv /\ [OwnNext]_own_vars => OwnInv'
  <2> SUFFICES ASSUME OwnInv, [OwnNext]_own_vars
               PROVE  OwnInv'
    OBVIOUS
  <2>1. CASE UNCHANGED own_vars
    BY <2>1
       DEF own_vars, session, OwnInv, OwnClockInv, SleepInv, HandshakeInv, OpeningInv,
           BeatingInv, PendingInv, Again, Over
  <2> QED
    BY <2>1, TimeKeepsOwn, FaultsKeepOwn, StepsKeepOwn DEF OwnNext
<1> QED
  BY <1>1, <1>2, PTL DEF OwnSpec

-----------------------------------------------------------------------------
(* The own heartbeat: the theorems                                         *)

\* The bounds of the exploration.
OwnWithinBounds == clock <= MaxClock /\ faults \in 0..MaxFaults

\* Type correctness of the own heartbeat, within the bounds of clock and faults.
THEOREM OwnTypesCorrect == OwnSpec => []OwnTypeOK
<1> USE OwnConstants DEF OwnWithinBounds
<1>1. OwnInit => OwnWithinBounds
  BY DEF OwnInit
<1>2. OwnInv /\ OwnWithinBounds /\ [OwnNext]_own_vars => OwnWithinBounds'
  <2> SUFFICES ASSUME OwnInv, OwnWithinBounds, [OwnNext]_own_vars
               PROVE  OwnWithinBounds'
    OBVIOUS
  <2>1. CASE TimePasses
    BY <2>1 DEF TimePasses, OwnInv, OwnClockInv
  <2>2. ASSUME NEW how, BrokerFails(how) \/ LinkBreaks(how)
        PROVE  OwnWithinBounds'
    BY <2>2 DEF BrokerFails, LinkBreaks
  <2>3. CASE BrokerRecovers \/ LossNoticed
    BY <2>3 DEF BrokerRecovers, LossNoticed
  <2>4. CASE OwnStep
    BY <2>4 DEF OwnStep, Connect, Connected, ConnectFails, Opened, OpenFails, OwnBeat,
                OwnBeatPends, OwnBails, SessionFailed
  <2>5. CASE UNCHANGED own_vars
    BY <2>5 DEF own_vars
  <2> QED
    BY <2>1, <2>2, <2>3, <2>4, <2>5 DEF OwnNext
<1>3. OwnInv /\ OwnWithinBounds => OwnTypeOK
  BY DEF OwnInv, OwnClockInv, OwnTypeOK
<1> QED
  BY <1>1, <1>2, <1>3, OwnInvariance, PTL DEF OwnSpec

\* The own heartbeat keeps its interval once broker and connection have been well for
\* the time a session may hold on to what is gone, one backoff, one handshake and one
\* opening, however many attempts have failed before.
THEOREM CadenceIsKept == OwnSpec => []OwnCadence
<1>1. OwnInv => OwnCadence
  <2> SUFFICES ASSUME OwnInv, broker = "up",
                      clock - calm_since > HoldingOn + MaxBackoff + 2 * MaxReply
               PROVE  last_beat # NoBeat /\ clock - last_beat <= Interval
    BY DEF OwnCadence
  <2> USE OwnConstants DEF OwnInv, OwnClockInv
  <2>1. clock > Again + 2 * MaxReply /\ Again >= Over /\ Over >= calm_since
    BY DEF Again, Over
  <2>2. own \notin {"sleeping", "connecting", "opening", "publishing"}
    BY <2>1
       DEF SleepInv, HandshakeInv, OpeningInv, PendingInv, Again, Over
  <2>3. own = "up"
    BY <2>2 DEF Own
  <2>4. link = "well"
    BY <2>1, <2>3 DEF BeatingInv, Link, Over
  <2>5. last_beat # NoBeat /\ timer = last_beat + Interval
    <3>1. \/ timer = clock /\ clock <= Again + 2 * MaxReply
          \/ last_beat # NoBeat /\ timer = last_beat + Interval
      BY <2>3, <2>4 DEF BeatingInv
    <3>2. Again \in Nat
      BY DEF Again, Over
    <3> QED
      BY <2>1, <3>1, <3>2
  <2> QED
    BY <2>3, <2>5 DEF BeatingInv, NoBeat
<1> QED
  BY <1>1, OwnInvariance, PTL
=============================================================================
