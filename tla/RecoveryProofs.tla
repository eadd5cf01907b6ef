--------------------------- MODULE RecoveryProofs ---------------------------
(***************************************************************************)
(* Proofs about the recovery forwarder and the publisher it shares, for    *)
(* any number of recoveries, publishing tasks and faults.                  *)
(***************************************************************************)
EXTENDS Recovery, SequenceTheorems, TLAPS

Past == Reopening \cup Writing \cup Out

\* What the arguments below need of the types.
PublisherTypes ==
  /\ lock \in Seq(Callers)
  /\ channel \in Channels
  /\ faults \in Nat /\ outages \in Nat
  /\ step \in [Callers -> Steps] /\ event \in [Callers -> Events \cup {NoEvent}]
  /\ copies \in [Events -> Nat]

QueueTypes ==
  /\ readable \in Seq(BOOLEAN) /\ Len(readable) <= MaxMessages
  /\ ready \cup unacked \cup buffer \cup handled \subseteq 1..Len(readable)
  /\ current \in 1..Len(readable) \cup {NoMessage}

\* Who is past the mutex is at the head of its line.
MutexInv ==
  \A c \in Callers : step[c] \in Past => lock # <<>> /\ Head(lock) = c

\* A caller in publish_event has an event; a retry starts on a live channel, and what
\* breaks it before the broker has the event is a fault that met it; a publish that is
\* over has brought its event out, or a fault met it.
PublishInv ==
  \A c \in Callers :
    /\ step[c] # "idle" => event[c] \in Events
    /\ step[c] = "retry" /\ channel # "live" => event[c] \in excused
    /\ step[c] \in Out => copies[event[c]] > 0
    /\ step[c] \in {"ok", "err"} => copies[event[c]] > 0 \/ event[c] \in excused

PublisherInv == PublisherTypes /\ MutexInv /\ PublishInv

\* The recovery in the handler is what the forwarder publishes, until it is settled
\* one way or the other.
ForwarderInv ==
  /\ stage = "publishing" =>
       /\ current # NoMessage /\ readable[current]
       /\ step[Forwarder] # "idle" /\ event[Forwarder] = current
  /\ stage = "ack" => current # NoMessage /\ (copies[current] > 0 \/ current \in excused)
  /\ stage = "nack" => current # NoMessage /\ ~readable[current]

LossInv == PublisherInv /\ QueueTypes /\ ForwarderInv /\ OnlyFaultsLoseARecovery

\* What has come out, or was hit, stays so.
Grows ==
  /\ excused \subseteq excused'
  /\ \A e \in Events : copies[e] > 0 => copies'[e] > 0

-----------------------------------------------------------------------------
\* Leaving the line changes its head only if the head leaves.
LEMMA LineLemma ==
  ASSUME NEW c \in Callers, lock \in Seq(Callers), LeavesLine(c)
  PROVE  /\ lock' \in Seq(Callers)
         /\ lock # <<>> /\ Head(lock) # c => lock' # <<>> /\ Head(lock') = Head(lock)
<1>1. PICK i \in DOMAIN lock : lock[i] = c /\ lock' = RemoveAt(lock, i)
  BY DEF LeavesLine
<1> DEFINE before == SubSeq(lock, 1, i - 1)
           after == SubSeq(lock, i + 1, Len(lock))
<1>2. /\ i \in 1..Len(lock) /\ Len(lock) \in Nat
      /\ lock' = before \o after
  BY <1>1 DEF RemoveAt
<1>3. /\ before \in Seq(Callers) /\ Len(before) = i - 1
      /\ \A j \in 1..(i - 1) : before[j] = lock[j]
  BY <1>2
<1>4. after \in Seq(Callers)
  BY <1>2
<1>5. /\ lock' \in Seq(Callers) /\ Len(lock') = Len(before) + Len(after)
      /\ \A j \in 1..Len(before) : lock'[j] = before[j]
  BY <1>2, <1>3, <1>4, ConcatProperties
<1>6. ASSUME lock # <<>>, Head(lock) # c
      PROVE  lock' # <<>> /\ Head(lock') = Head(lock)
  <2>1. Head(lock) = lock[1]
    BY <1>6
  <2>2. i > 1
    BY <1>1, <1>2, <1>6, <2>1
  <2>3. /\ Len(lock') > 0 /\ lock'[1] = lock[1]
    BY <1>2, <1>3, <1>4, <1>5, <2>2
  <2> HIDE DEF before, after
  <2> QED
    BY <1>5, <2>1, <2>3
<1> QED
  BY <1>5, <1>6

-----------------------------------------------------------------------------
(* The publisher                                                           *)

\* The mutex, when one caller moves.
LEMMA MutexLemma ==
  ASSUME PublisherTypes, MutexInv, NEW c \in Callers, NEW s \in Steps,
         step' = [step EXCEPT ![c] = s],
         \/ lock' = lock /\ (s \in Past => lock # <<>> /\ Head(lock) = c)
         \/ LeavesLine(c) /\ s \notin Past
         \/ lock' = Append(lock, c) /\ s \notin Past
  PROVE  lock' \in Seq(Callers) /\ MutexInv'
<1>1. CASE lock' = lock /\ (s \in Past => lock # <<>> /\ Head(lock) = c)
  BY <1>1 DEF PublisherTypes, MutexInv
<1>2. CASE LeavesLine(c) /\ s \notin Past
  <2>1. \A d \in Callers : step'[d] \in Past => d # c /\ step[d] \in Past
    BY <1>2 DEF PublisherTypes
  <2> QED
    BY <1>2, <2>1, LineLemma DEF PublisherTypes, MutexInv
<1>3. CASE lock' = Append(lock, c) /\ s \notin Past
  <2>1. \A d \in Callers : step'[d] \in Past => d # c /\ step[d] \in Past
    BY <1>3 DEF PublisherTypes
  <2>2. lock' \in Seq(Callers) /\ lock' # <<>>
    BY <1>3, AppendProperties DEF PublisherTypes
  <2>3. lock # <<>> => Head(lock') = Head(lock)
    BY <1>3 DEF PublisherTypes
  <2> QED
    BY <2>1, <2>2, <2>3 DEF MutexInv
<1> QED
  BY <1>1, <1>2, <1>3

\* Who publishes goes on or comes to an end, and keeps its event.
LEMMA PublishStepKeepsInv ==
  ASSUME PublisherInv, NEW c \in Callers, PublishStep(c)
  PROVE  /\ PublisherInv' /\ Grows
         /\ UNCHANGED <<event, broker>>
         /\ step[c] # "idle" /\ step'[c] # "idle"
         /\ \A d \in Callers \ {c} : step'[d] = step[d]
<1> USE DEF PublisherInv, PublisherTypes, PublishInv, Past, Steps, Reopening, Writing, Out, Channels,
            Grows, history
<1>1. CASE Acquire(c)
  BY <1>1, MutexLemma DEF Acquire
<1>2. CASE Reopened(c)
  <2>1. lock # <<>> /\ Head(lock) = c
    BY <1>2 DEF Reopened, MutexInv
  <2> QED
    BY <1>2, <2>1, MutexLemma DEF Reopened, GoesOn, Attempt
<1>3. CASE ReopenFails(c)
  BY <1>3, MutexLemma DEF ReopenFails, Returns
<1>4. CASE Written(c)
  BY <1>4, MutexLemma DEF Written, Returns
<1>7. CASE Taken(c)
  <2>1. lock # <<>> /\ Head(lock) = c /\ event[c] \in Events
    BY <1>7 DEF Taken, MutexInv
  <2>2. /\ copies' \in [Events -> Nat] /\ copies'[event[c]] > 0
        /\ \A e \in Events : copies'[e] >= copies[e]
    BY <1>7, <2>1 DEF Taken
  <2>3. PICK s \in Out : step' = [step EXCEPT ![c] = s]
    BY <1>7 DEF Taken, GoesOn
  <2>4. /\ step[c] # "idle" /\ step'[c] = s /\ s # "idle"
        /\ \A d \in Callers \ {c} : step'[d] = step[d]
        /\ UNCHANGED <<event, broker, lock, channel, faults, excused>>
    BY <1>7, <2>3 DEF Taken, GoesOn
  <2>5. lock' \in Seq(Callers) /\ MutexInv'
    BY <2>1, <2>3, <2>4, MutexLemma
  <2>6. PublishInv'
    <3> HIDE DEF Past, Reopening, Writing, Steps
    <3>1. ASSUME NEW d \in Callers \ {c}
          PROVE  /\ step'[d] # "idle" => event'[d] \in Events
                 /\ step'[d] = "retry" /\ channel' # "live" => event'[d] \in excused'
                 /\ step'[d] \in Out => copies'[event'[d]] > 0
                 /\ step'[d] \in {"ok", "err"} => copies'[event'[d]] > 0 \/ event'[d] \in excused'
      <4>1. ASSUME step[d] # "idle"
            PROVE  event[d] \in Events /\ (copies[event[d]] > 0 => copies'[event[d]] > 0)
        BY <2>2, <4>1
      <4>2. /\ step[d] = "retry" /\ channel # "live" => event[d] \in excused
            /\ step[d] \in Out => copies[event[d]] > 0
            /\ step[d] \in {"ok", "err"} => copies[event[d]] > 0 \/ event[d] \in excused
        OBVIOUS
      <4>3. step'[d] = step[d] /\ event'[d] = event[d] /\ channel' = channel /\ excused' = excused
        BY <2>4
      <4>4. "idle" \notin Out
        BY DEF Out
      <4> HIDE DEF Out, PublishInv, PublisherInv, PublisherTypes
      <4> QED
        BY <4>1, <4>2, <4>3, <4>4
    <3>2. /\ step'[c] \notin {"retry", "ok", "err"} /\ event'[c] \in Events /\ copies'[event'[c]] > 0
      BY <2>1, <2>2, <2>3, <2>4
    <3> QED
      BY <3>1, <3>2
  <2>7. PublisherTypes' /\ Grows
    <3>1. s \in Steps /\ step' \in [Callers -> Steps]
      BY <2>3
    <3>2. Grows
      BY <2>2, <2>4
    <3>3. outages' = outages
      BY <1>7 DEF Taken
    <3> QED
      BY <2>2, <2>4, <2>5, <3>1, <3>2, <3>3
  <2> QED
    BY <2>4, <2>5, <2>6, <2>7
<1>5. CASE WrittenInVain(c)
  BY <1>5, MutexLemma DEF WrittenInVain, Returns
<1>6. CASE WriteFails(c)
  <2>1. lock # <<>> /\ Head(lock) = c
    BY <1>6 DEF WriteFails, MutexInv
  <2> QED
    BY <1>6, <2>1, MutexLemma DEF WriteFails, AttemptFails, GoesOn, Returns
<1>8. CASE Unrecognised(c)
  BY <1>8, MutexLemma DEF Unrecognised, Returns
<1> QED
  BY <1>1, <1>2, <1>3, <1>4, <1>5, <1>6, <1>7, <1>8 DEF PublishStep

\* So does the caller around it, whose event is its own.
LEMMA CallerStepKeepsInv ==
  ASSUME PublisherInv, NEW c \in Callers,
         (\E e \in Events : PublishEvent(c, e)) \/ Collect(c) \/ Abandon(c)
  PROVE  /\ PublisherInv'
         /\ UNCHANGED <<broker, faults, channel, history>>
         /\ \A d \in Callers \ {c} : step'[d] = step[d] /\ event'[d] = event[d]
<1> USE DEF PublisherInv, PublisherTypes, PublishInv, Past, Steps, Reopening, Writing, Out, Channels, history
<1>1. CASE \E e \in Events : PublishEvent(c, e)
  BY <1>1, MutexLemma DEF PublishEvent
<1>2. CASE Collect(c)
  BY <1>2, MutexLemma DEF Collect
<1>3. CASE Abandon(c)
  BY <1>3, MutexLemma DEF Abandon
<1> QED
  BY <1>1, <1>2, <1>3

\* A broker or a connection that fails excuses whoever is past the mutex.
LEMMA WorldKeepsInv ==
  ASSUME PublisherInv, BrokerFails \/ BrokerRecovers \/ ChannelBreaks \/ Noticed
  PROVE  /\ PublisherInv' /\ Grows
         /\ UNCHANGED <<writers, copies>>
<1> USE DEF PublisherInv, PublisherTypes, PublishInv, MutexInv, Channels, Grows, history, writers
<1>1. CASE BrokerFails
  BY <1>1 DEF BrokerFails, Held, Severed, Reopening, Writing, Out
<1>2. CASE BrokerRecovers
  BY <1>2 DEF BrokerRecovers
<1>3. CASE ChannelBreaks
  BY <1>3 DEF ChannelBreaks, Held, Reopening, Writing, Out
<1>4. CASE Noticed
  BY <1>4 DEF Noticed
<1> QED
  BY <1>1, <1>2, <1>3, <1>4

-----------------------------------------------------------------------------
(* The forwarder                                                           *)

\* Initially nothing is published and nobody holds the mutex.
LEMMA LossInitInv == Init => LossInv
BY RecoveryAssumption, PublisherAssumption
   DEF Init, PublisherInit, LossInv, PublisherInv, PublisherTypes, QueueTypes, MutexInv, PublishInv,
       Past, Steps, Reopening, Writing, Out, Channels, ForwarderInv, OnlyFaultsLoseARecovery,
       Messages, NoMessage

\* A step that lets the forwarder's publish be and takes nothing from the queue.
LEMMA QueueKeepsInv ==
  ASSUME LossInv, PublisherInv', Grows, QueueTypes',
         step[Forwarder] # "idle" => step'[Forwarder] # "idle",
         event'[Forwarder] = event[Forwarder],
         UNCHANGED <<readable, current, stage>>,
         ready \cup unacked \subseteq ready' \cup unacked'
  PROVE  LossInv'
<1>1. \A m \in 1..Len(readable) : m \in Events
  BY RecoveryAssumption DEF LossInv, QueueTypes, Messages
<1>2. ForwarderInv'
  BY <1>1 DEF LossInv, QueueTypes, ForwarderInv, Grows, PublisherInv, PublisherTypes
<1>3. OnlyFaultsLoseARecovery'
  BY <1>1 DEF LossInv, OnlyFaultsLoseARecovery, Grows
<1> QED
  BY <1>2, <1>3 DEF LossInv

\* A publisher that nobody touches.
LEMMA PublisherRests ==
  ASSUME PublisherInv, UNCHANGED <<channel, writers, history>>, faults' \in Nat
  PROVE  PublisherInv' /\ Grows
BY DEF PublisherInv, PublisherTypes, MutexInv, PublishInv, Grows, writers, history

\* The queue and the connection of the forwarder.
LEMMA QueueStepKeepsInv ==
  ASSUME LossInv,
         \/ \E decodes \in BOOLEAN : Recovers(decodes)
         \/ QueueStep \/ LoseConnection \/ BrokerDown \/ PublisherAlone \/ Restart
         \/ Connect \/ EndSession
  PROVE  LossInv'
<1> USE DEF queue, handler, publisherVars
<1>t. PublisherInv /\ QueueTypes
  BY DEF LossInv
<1>1. ASSUME NEW decodes \in BOOLEAN, Recovers(decodes)
      PROVE  LossInv'
  <2>1. PublisherInv' /\ Grows
    BY <1>1, <1>t, PublisherRests DEF Recovers, PublisherInv, PublisherTypes
  <2>2. /\ readable' \in Seq(BOOLEAN) /\ Len(readable') = Len(readable) + 1
        /\ Len(readable) \in Nat /\ Len(readable') <= MaxMessages
        /\ \A m \in 1..Len(readable) : readable'[m] = readable[m]
    BY <1>1, <1>t, AppendProperties, RecoveryAssumption DEF Recovers, QueueTypes
  <2>3. QueueTypes'
    BY <1>1, <1>t, <2>2 DEF Recovers, QueueTypes
  <2>4. ForwarderInv'
    BY <1>1, <1>t, <2>2 DEF LossInv, Recovers, QueueTypes, ForwarderInv, writers, history, NoMessage
  <2>5. OnlyFaultsLoseARecovery'
    BY <1>1, <1>t, <2>2 DEF LossInv, Recovers, OnlyFaultsLoseARecovery, history
  <2> QED
    BY <2>1, <2>3, <2>4, <2>5 DEF LossInv
<1>2. CASE QueueStep
  <2>1. QueueTypes' /\ ready \cup unacked \subseteq ready' \cup unacked'
    BY <1>2, <1>t DEF QueueStep, Push, First, QueueTypes
  <2> QED
    BY <1>2, <1>t, <2>1, PublisherRests, QueueKeepsInv
       DEF QueueStep, Push, PublisherInv, PublisherTypes, writers
<1>3. CASE LoseConnection
  <2>1. QueueTypes' /\ ready \cup unacked \subseteq ready' \cup unacked'
    BY <1>3, <1>t DEF LoseConnection, Requeue, QueueTypes
  <2> QED
    BY <1>3, <1>t, <2>1, PublisherRests, QueueKeepsInv
       DEF LoseConnection, Requeue, PublisherInv, PublisherTypes, writers
<1>4. CASE BrokerDown
  <2>1. QueueTypes' /\ ready \cup unacked \subseteq ready' \cup unacked'
    BY <1>4, <1>t DEF BrokerDown, Requeue, QueueTypes
  <2> QED
    BY <1>4, <1>t, <2>1, WorldKeepsInv, QueueKeepsInv DEF BrokerDown, Requeue, writers
<1>5. CASE PublisherAlone
  BY <1>5, <1>t, WorldKeepsInv, QueueKeepsInv DEF PublisherAlone, QueueTypes, writers
<1>6. CASE Restart
  <2>1. PublisherInv' /\ Grows
    BY <1>6, <1>t DEF Restart, PublisherInv, PublisherTypes, MutexInv, PublishInv, Grows, Past,
       Steps, Reopening, Writing, Out, Channels, history
  <2>2. QueueTypes'
    BY <1>6, <1>t DEF Restart, Requeue, QueueTypes, NoMessage
  <2>3. ForwarderInv' /\ OnlyFaultsLoseARecovery'
    BY <1>6 DEF LossInv, Restart, Requeue, ForwarderInv, OnlyFaultsLoseARecovery, history
  <2> QED
    BY <2>1, <2>2, <2>3 DEF LossInv
<1>7. CASE Connect \/ EndSession
  <2>1. QueueTypes'
    BY <1>7, <1>t DEF Connect, EndSession, QueueTypes
  <2> QED
    BY <1>7, <1>t, <2>1, PublisherRests, QueueKeepsInv
       DEF Connect, EndSession, PublisherInv, PublisherTypes, writers
<1> QED
  BY <1>1, <1>2, <1>3, <1>4, <1>5, <1>6, <1>7

\* The handler.  What it settles has come out, or does not decode.
LEMMA HandlerStepKeepsInv ==
  ASSUME LossInv, HandlerStep
  PROVE  LossInv'
<1> USE DEF queue, handler, publisherVars
<1>t. PublisherInv /\ QueueTypes
  BY DEF LossInv
<1>e. Forwarder \in Callers /\ \A m \in 1..Len(readable) : m \in Events
  BY <1>t, RecoveryAssumption DEF QueueTypes, Messages
<1>1. ASSUME NEW m \in Messages, Undecodable(m)
      PROVE  LossInv'
  <2>1. PublisherInv' /\ Grows
    BY <1>1, <1>t, PublisherRests DEF Undecodable, PublisherInv, PublisherTypes
  <2>2. QueueTypes' /\ ForwarderInv' /\ OnlyFaultsLoseARecovery'
    BY <1>1, <1>t DEF LossInv, Undecodable, Take, First, QueueTypes, ForwarderInv,
       OnlyFaultsLoseARecovery, history, Messages, NoMessage
  <2> QED
    BY <2>1, <2>2 DEF LossInv
<1>2. ASSUME NEW m \in Messages, Forward(m)
      PROVE  LossInv'
  <2>1. PublisherInv'
    BY <1>2, <1>t, <1>e, CallerStepKeepsInv DEF Forward, Take, First, QueueTypes
  <2>2. QueueTypes' /\ ForwarderInv' /\ OnlyFaultsLoseARecovery'
    BY <1>2, <1>t, <1>e DEF LossInv, Forward, Take, First, PublishEvent, QueueTypes, ForwarderInv,
       OnlyFaultsLoseARecovery, history, Messages, NoMessage, PublisherInv, PublisherTypes
  <2> QED
    BY <2>1, <2>2 DEF LossInv
<1>3. CASE Forwarded
  <2>1. PublisherInv' /\ UNCHANGED history
    BY <1>3, <1>t, <1>e, CallerStepKeepsInv DEF Forwarded
  <2>2. copies[current] > 0 \/ current \in excused
    BY <1>3, <1>e DEF LossInv, PublisherInv, PublishInv, ForwarderInv, Forwarded, Collect
  <2>3. QueueTypes' /\ ForwarderInv' /\ OnlyFaultsLoseARecovery'
    BY <1>3, <1>t, <2>1, <2>2 DEF LossInv, Forwarded, QueueTypes, ForwarderInv,
       OnlyFaultsLoseARecovery, history
  <2> QED
    BY <2>1, <2>3 DEF LossInv
<1>4. ASSUME NEW kind \in {"ack", "nack"}, Reply(kind)
      PROVE  LossInv'
  <2>1. PublisherInv' /\ Grows
    BY <1>4, <1>t, PublisherRests DEF Reply, PublisherInv, PublisherTypes
  <2>2. QueueTypes' /\ ForwarderInv'
    BY <1>4, <1>t DEF Reply, QueueTypes, ForwarderInv, NoMessage
  <2>3. \A m \in (ready \cup unacked) \ (ready' \cup unacked') : m = current
    BY <1>4 DEF Reply
  <2>4. OnlyFaultsLoseARecovery'
    BY <1>4, <1>t, <2>3 DEF LossInv, Reply, ForwarderInv, OnlyFaultsLoseARecovery, history
  <2> QED
    BY <2>1, <2>2, <2>4 DEF LossInv
<1> QED
  BY <1>1, <1>2, <1>3, <1>4 DEF HandlerStep

\* Those who publish.
LEMMA PublishersKeepInv ==
  ASSUME LossInv, PublisherStep \/ \E c \in Callers : Other(c)
  PROVE  LossInv'
<1> USE DEF queue, handler
<1>t. PublisherInv /\ QueueTypes
  BY DEF LossInv
<1>1. CASE PublisherStep
  <2>1. PICK c \in Callers : PublishStep(c) /\ UNCHANGED <<running, queue, handler>>
    BY <1>1 DEF PublisherStep
  <2>2. /\ PublisherInv' /\ Grows /\ event' = event
        /\ step[Forwarder] # "idle" => step'[Forwarder] # "idle"
    BY <2>1, <1>t, PublishStepKeepsInv, RecoveryAssumption
  <2>3. QueueTypes'
    BY <2>1, <1>t DEF QueueTypes
  <2> QED
    BY <2>1, <2>2, <2>3, QueueKeepsInv
<1>2. ASSUME NEW c \in Callers, Other(c)
      PROVE  LossInv'
  <2>1. c # Forwarder /\ c \in Events
    BY <1>2, RecoveryAssumption DEF Other
  <2>2. /\ PublisherInv' /\ UNCHANGED history
        /\ step'[Forwarder] = step[Forwarder] /\ event'[Forwarder] = event[Forwarder]
    BY <1>2, <1>t, <2>1, CallerStepKeepsInv, RecoveryAssumption DEF Other
  <2>3. QueueTypes' /\ Grows
    BY <1>2, <1>t, <2>2 DEF Other, QueueTypes, Grows, history
  <2> QED
    BY <1>2, <2>2, <2>3, QueueKeepsInv DEF Other
<1> QED
  BY <1>1, <1>2

-----------------------------------------------------------------------------
\* The invariant of forwarder and publisher holds always.
THEOREM LossInvariance == Spec => []LossInv
<1>1. LossInv /\ [Next]_vars => LossInv'
  <2> SUFFICES ASSUME LossInv, [Next]_vars
               PROVE  LossInv'
    OBVIOUS
  <2>1. CASE UNCHANGED vars
    <3>1. PublisherInv' /\ Grows
      BY <2>1, PublisherRests DEF LossInv, vars, publisherVars, PublisherInv, PublisherTypes
    <3> QED
      BY <2>1, <3>1, QueueKeepsInv
         DEF LossInv, vars, publisherVars, queue, handler, writers, QueueTypes
  <2> QED
    BY <2>1, QueueStepKeepsInv, HandlerStepKeepsInv, PublishersKeepInv DEF Next
<1> QED
  BY <1>1, LossInitInv, PTL DEF Spec

\* No incident_resolved is lost but by a fault that met it, whatever the broker, the
\* connections and the other tasks on the publisher do.
THEOREM OutagesLoseNothing == Spec => []OnlyFaultsLoseARecovery
<1>1. LossInv => OnlyFaultsLoseARecovery
  BY DEF LossInv
<1> QED
  BY <1>1, LossInvariance, PTL

-----------------------------------------------------------------------------
(* Types                                                                   *)

InLine == {"waiting"} \cup Past

\* Nobody is in the line twice, and who is in it waits or is past the mutex.
LineInv ==
  /\ \A i, j \in 1..Len(lock) : lock[i] = lock[j] => i = j
  /\ \A i \in 1..Len(lock) : step[lock[i]] \in InLine

OtherTypes ==
  /\ broker \in {"up", "down"} /\ faults \in 0..MaxFaults /\ outages \in 0..faults /\ excused \subseteq Events
  /\ running \in BOOLEAN /\ session \in {"down", "up", "broken"}
  /\ stage \in {"idle", "publishing", "ack", "nack"}

\* The line without one of its places.
LEMMA LineShrinks ==
  ASSUME NEW c \in Callers, lock \in Seq(Callers), LineInv, LeavesLine(c)
  PROVE  /\ \A i, j \in 1..Len(lock') : lock'[i] = lock'[j] => i = j
         /\ \A i \in 1..Len(lock') : \E j \in 1..Len(lock) : lock'[i] = lock[j] /\ lock[j] # c
<1>1. PICK k \in DOMAIN lock : lock[k] = c /\ lock' = RemoveAt(lock, k)
  BY DEF LeavesLine
<1> DEFINE Old(i) == IF i < k THEN i ELSE i + 1
<1>2. /\ k \in 1..Len(lock) /\ Len(lock) \in Nat
      /\ lock' = SubSeq(lock, 1, k - 1) \o SubSeq(lock, k + 1, Len(lock))
  BY <1>1 DEF RemoveAt
<1>3. /\ SubSeq(lock, 1, k - 1) \in Seq(Callers) /\ Len(SubSeq(lock, 1, k - 1)) = k - 1
      /\ \A i \in 1..(k - 1) : SubSeq(lock, 1, k - 1)[i] = lock[i]
  BY <1>2
<1>4. /\ SubSeq(lock, k + 1, Len(lock)) \in Seq(Callers)
      /\ Len(SubSeq(lock, k + 1, Len(lock))) = Len(lock) - k
      /\ \A i \in 1..(Len(lock) - k) : SubSeq(lock, k + 1, Len(lock))[i] = lock[k + i]
  <2>1. k + 1 \in Int /\ Len(lock) \in Int /\ \A i \in (k + 1)..Len(lock) : lock[i] \in Callers
    BY <1>2
  <2>2. /\ SubSeq(lock, k + 1, Len(lock)) \in Seq(Callers)
        /\ Len(SubSeq(lock, k + 1, Len(lock))) =
             (IF k + 1 <= Len(lock) THEN Len(lock) - (k + 1) + 1 ELSE 0)
        /\ \A i \in 1..(Len(lock) - (k + 1) + 1) : SubSeq(lock, k + 1, Len(lock))[i] = lock[(k + 1) + i - 1]
    BY <2>1, SubSeqProperties
  <2>3. Len(lock) - (k + 1) + 1 = Len(lock) - k /\ (k + 1 <= Len(lock) \/ Len(lock) - k = 0)
    BY <1>2
  <2>4. \A i \in 1..(Len(lock) - k) : (k + 1) + i - 1 = k + i
    BY <1>2
  <2>5. Len(SubSeq(lock, k + 1, Len(lock))) = Len(lock) - k
    BY <1>2, <2>2
  <2>6. \A i \in 1..(Len(lock) - k) : SubSeq(lock, k + 1, Len(lock))[i] = lock[(k + 1) + i - 1]
    BY <2>2, <2>3
  <2> QED
    BY <2>2, <2>4, <2>5, <2>6
<1>5. Len(lock') = Len(lock) - 1 /\ \A i \in 1..Len(lock') : lock'[i] = lock[Old(i)]
  <2> DEFINE before == SubSeq(lock, 1, k - 1)
             after == SubSeq(lock, k + 1, Len(lock))
  <2>1. /\ Len(before \o after) = Len(before) + Len(after)
        /\ \A i \in 1..(Len(before) + Len(after)) :
             (before \o after)[i] = IF i <= Len(before) THEN before[i] ELSE after[i - Len(before)]
    BY <1>3, <1>4, ConcatProperties
  <2>2. before \o after = lock' /\ Len(before) = k - 1 /\ Len(after) = Len(lock) - k
    BY <1>2, <1>3, <1>4
  <2>3. Len(lock') = Len(lock) - 1
    BY <1>2, <2>1, <2>2
  <2>4. ASSUME NEW i \in 1..Len(lock') PROVE lock'[i] = lock[Old(i)]
    <3>1. CASE i < k
      BY <1>2, <1>3, <2>1, <2>2, <2>3, <3>1
    <3>2. CASE ~(i < k)
      <4>1. k \in Int /\ Len(lock) \in Int /\ i \in Int /\ 1 <= i /\ i <= Len(lock) - 1 /\ k <= i /\ 1 <= k
        <5>1. k \in 1..Len(lock) /\ Len(lock) \in Nat /\ i \in 1..(Len(lock) - 1)
          BY <1>2, <2>3
        <5> QED
          BY <3>2, <5>1
      <4> DEFINE p == i - (k - 1)
      <4>2. p \in 1..(Len(lock) - k) /\ k + p = i + 1
        BY <4>1
      <4>3. after[p] = lock[i + 1]
        BY <1>4, <4>2
      <4>4. i \in 1..((k - 1) + (Len(lock) - k)) /\ ~(i <= k - 1)
        BY <4>1
      <4>5. Old(i) = i + 1
        BY <3>2
      <4> HIDE DEF before, after, Old
      <4> QED
        BY <2>1, <2>2, <4>3, <4>4, <4>5
    <3> QED
      BY <3>1, <3>2
  <2> QED
    BY <2>3, <2>4
<1>6. \A i \in 1..Len(lock') : Old(i) \in 1..Len(lock) /\ Old(i) # k
  BY <1>2, <1>5
<1>7. \A i, j \in 1..Len(lock') : Old(i) = Old(j) => i = j
  BY <1>2, <1>5
<1> HIDE DEF Old
<1>8. \A i \in 1..Len(lock') : lock[Old(i)] # c
  BY <1>1, <1>2, <1>6 DEF LineInv
<1> QED
  BY <1>5, <1>6, <1>7, <1>8 DEF LineInv

\* One caller moves.
LEMMA LineMoves ==
  ASSUME PublisherTypes, LineInv, NEW c \in Callers, NEW s \in Steps,
         step' = [step EXCEPT ![c] = s],
         \/ lock' = lock /\ s \in InLine
         \/ lock' = lock /\ step[c] \notin InLine
         \/ LeavesLine(c)
         \/ lock' = Append(lock, c) /\ step[c] \notin InLine /\ s \in InLine
  PROVE  LineInv'
<1>t. lock \in Seq(Callers) /\ step \in [Callers -> Steps] /\ Len(lock) \in Nat
  BY DEF PublisherTypes
<1>1. CASE lock' = lock /\ s \in InLine
  BY <1>t, <1>1 DEF LineInv
<1>2. CASE lock' = lock /\ step[c] \notin InLine
  BY <1>t, <1>2 DEF LineInv
<1>3. CASE LeavesLine(c)
  BY <1>t, <1>3, LineShrinks DEF LineInv
<1>4. CASE lock' = Append(lock, c) /\ step[c] \notin InLine /\ s \in InLine
  <2>1. /\ Len(lock') = Len(lock) + 1 /\ lock'[Len(lock) + 1] = c
        /\ \A i \in 1..Len(lock) : lock'[i] = lock[i] /\ lock[i] # c
    BY <1>t, <1>4 DEF LineInv
  <2> QED
    BY <1>t, <1>4, <2>1 DEF LineInv
<1> QED
  BY <1>1, <1>2, <1>3, <1>4

\* No step of a task in publish_event disturbs the line at the mutex.
LEMMA PublisherKeepsLine ==
  ASSUME PublisherInv, LineInv, NEW c \in Callers,
         PublishStep(c) \/ (\E e \in Events : PublishEvent(c, e)) \/ Collect(c) \/ Abandon(c)
  PROVE  LineInv'
<1>t. PublisherTypes
  BY DEF PublisherInv
<1> USE DEF InLine, Past, Steps, Reopening, Writing, Out
<1>1. CASE Acquire(c)
  BY <1>t, <1>1, LineMoves DEF Acquire
<1>2. CASE Reopened(c)
  BY <1>t, <1>2, LineMoves DEF Reopened, GoesOn, Attempt
<1>3. CASE ReopenFails(c) \/ Written(c) \/ WrittenInVain(c) \/ Unrecognised(c)
  BY <1>t, <1>3, LineMoves DEF ReopenFails, Written, WrittenInVain, Unrecognised, Returns, GoesOn
<1>4. CASE Taken(c) \/ WriteFails(c)
  BY <1>t, <1>4, LineMoves DEF Taken, WriteFails, AttemptFails, Returns, GoesOn
<1>5. CASE \E e \in Events : PublishEvent(c, e)
  BY <1>t, <1>5, LineMoves DEF PublishEvent
<1>6. CASE Collect(c)
  BY <1>t, <1>6, LineMoves DEF Collect
<1>7. CASE Abandon(c)
  BY <1>t, <1>7, LineMoves DEF Abandon
<1> QED
  BY <1>1, <1>2, <1>3, <1>4, <1>5, <1>6, <1>7 DEF PublishStep

\* What an event is excused for is in the line.
LEMMA ExcusedAreEvents ==
  ASSUME PublisherInv, excused \subseteq Events
  PROVE  /\ Held \subseteq Events
         /\ \A c \in Callers : step[c] # "idle" => event[c] \in Events
BY DEF PublisherInv, PublisherTypes, PublishInv, Held, Reopening, Writing, Out

\* Type correctness of forwarder and publisher.
THEOREM RecoveryTypeCorrect == Spec => []TypeOK
<1>1. Init => LineInv /\ OtherTypes
  BY PublisherAssumption DEF Init, PublisherInit, LineInv, OtherTypes
<1>2. LossInv /\ LineInv /\ [Next]_vars => LineInv'
  <2> SUFFICES ASSUME LossInv, LineInv, [Next]_vars
               PROVE  LineInv'
    OBVIOUS
  <2> USE DEF publisherVars, writers, queue, handler, history
  <2>t. PublisherInv /\ Forwarder \in Callers
    BY RecoveryAssumption DEF LossInv
  <2>e. \A m \in 1..Len(readable) : m \in Events
    BY RecoveryAssumption DEF LossInv, QueueTypes, Messages
  <2>1. CASE UNCHANGED <<lock, step>>
    BY <2>1 DEF LineInv
  <2>2. CASE PublisherStep
    BY <2>t, <2>2, PublisherKeepsLine DEF PublisherStep
  <2>3. ASSUME NEW c \in Callers, Other(c)
        PROVE  LineInv'
    BY <2>t, <2>3, PublisherKeepsLine, RecoveryAssumption DEF Other
  <2>4. CASE HandlerStep
    <3>1. ASSUME NEW m \in Messages, Forward(m)
          PROVE  LineInv'
      BY <2>t, <2>e, <3>1, PublisherKeepsLine DEF Forward, Take, First, LossInv, QueueTypes
    <3>2. CASE Forwarded
      BY <2>t, <3>2, PublisherKeepsLine DEF Forwarded
    <3>3. ASSUME NEW m \in Messages, Undecodable(m)
          PROVE  LineInv'
      BY <2>1, <3>3 DEF Undecodable
    <3>4. ASSUME NEW kind \in {"ack", "nack"}, Reply(kind)
          PROVE  LineInv'
      BY <2>1, <3>4 DEF Reply
    <3> QED
      BY <2>4, <3>1, <3>2, <3>3, <3>4 DEF HandlerStep
  <2>5. CASE Restart
    BY <2>5 DEF Restart, LineInv
  <2>6. CASE \/ \E decodes \in BOOLEAN : Recovers(decodes)
             \/ QueueStep \/ LoseConnection \/ BrokerDown \/ PublisherAlone \/ Connect \/ EndSession
             \/ UNCHANGED vars
    BY <2>1, <2>6 DEF Recovers, QueueStep, Push, LoseConnection, BrokerDown, BrokerFails,
       PublisherAlone, BrokerRecovers, ChannelBreaks, Noticed, Connect, EndSession, vars
  <2> QED
    BY <2>2, <2>3, <2>4, <2>5, <2>6 DEF Next
<1>3. LossInv /\ OtherTypes /\ [Next]_vars => OtherTypes'
  <2> SUFFICES ASSUME LossInv, OtherTypes, [Next]_vars
               PROVE  OtherTypes'
    OBVIOUS
  <2> USE PublisherAssumption DEF OtherTypes, publisherVars, writers, queue, handler, history
  <2>t. PublisherInv /\ Held \subseteq Events /\ \A c \in Callers : step[c] # "idle" => event[c] \in Events
    BY ExcusedAreEvents DEF LossInv
  <2>1. ASSUME NEW c \in Callers, PublishStep(c)
        PROVE  UNCHANGED <<broker, faults, outages>> /\ excused' \subseteq Events
    <3>1. step[c] # "idle"
      BY <2>t, <2>1, PublishStepKeepsInv
    <3> QED
      BY <2>t, <2>1, <3>1 DEF PublishStep, Acquire, Reopened, ReopenFails, Taken, Written, WrittenInVain,
         WriteFails, Unrecognised, AttemptFails, Returns, GoesOn
  <2>2. CASE PublisherStep
    BY <2>1, <2>2 DEF PublisherStep
  <2>3. ASSUME NEW c \in Callers, Other(c)
        PROVE  OtherTypes'
    BY <2>3 DEF Other, PublishEvent, Collect, Abandon
  <2>4. CASE HandlerStep
    BY <2>4 DEF HandlerStep, Undecodable, Forward, Take, PublishEvent, Forwarded, Collect, Reply
  <2>5. CASE LoseConnection \/ BrokerDown \/ Restart \/ PublisherAlone
    <3>1. CASE LoseConnection
      BY <3>1 DEF LoseConnection
    <3>2. CASE BrokerDown
      BY <2>t, <3>2 DEF BrokerDown, BrokerFails
    <3>3. CASE Restart
      <4>1. running' \in BOOLEAN
        BY <3>3 DEF Restart
      <4> QED
        BY <3>3, <4>1 DEF Restart
    <3>4. CASE PublisherAlone
      BY <2>t, <3>4 DEF PublisherAlone, BrokerRecovers, ChannelBreaks, Noticed
    <3> QED
      BY <2>5, <3>1, <3>2, <3>3, <3>4
  <2>6. CASE \/ \E decodes \in BOOLEAN : Recovers(decodes)
             \/ QueueStep \/ Connect \/ EndSession \/ UNCHANGED vars
    BY <2>6 DEF Recovers, QueueStep, Push, Connect, EndSession, vars
  <2> QED
    BY <2>2, <2>3, <2>4, <2>5, <2>6 DEF Next
<1>4. LossInv /\ LineInv /\ OtherTypes => TypeOK
  <2> SUFFICES ASSUME LossInv, LineInv, OtherTypes
               PROVE  TypeOK
    OBVIOUS
  <2>1. PublisherTypeOK
    BY DEF LossInv, LineInv, OtherTypes, PublisherInv, PublisherTypes, PublisherTypeOK, IsInjective
  <2> QED
    BY <2>1 DEF LossInv, OtherTypes, QueueTypes, TypeOK
<1> QED
  BY <1>1, <1>2, <1>3, <1>4, LossInvariance, PTL DEF Spec

-----------------------------------------------------------------------------
(* The copies                                                              *)

\* The forwarder may yet write m: before the broker has it, and again if the channel
\* broke while the first write was still to return.
Publishing(m) ==
  /\ event[Forwarder] = m
  /\ \/ step[Forwarder] \in {"waiting"} \cup Reopening \cup Writing
     \/ step[Forwarder] = "first_out" /\ channel # "live"

One(p) == IF p THEN 1 ELSE 0

\* In how many places m is on its way to the exchange.
OnItsWay(m) == One(m \in ready) + One(m \in buffer) + One(Publishing(m))

\* The forwarder publishes what is in its handler, the others what is theirs; and
\* whatever puts a recovery in one more place is a fault; a failure of the broker puts it
\* in two.
CopyInv ==
  /\ step[Forwarder] # "idle" => stage = "publishing"
  /\ \A c \in Callers \ {Forwarder} : step[c] # "idle" => event[c] = c
  /\ \A m \in Messages :
       /\ m > Len(readable) => copies[m] = 0
       /\ copies[m] + OnItsWay(m) <= 1 + faults + outages

RecoveryInv == LossInv /\ CopyInv

\* A recovery is no other task's event.
LEMMA MessagesLemma ==
  /\ Forwarder \in Callers
  /\ \A m \in Messages : m \in Nat /\ m \in Events /\ m \notin Callers
BY RecoveryAssumption DEF Messages

\* Initially every recovery waits in one place, the queue.
LEMMA CopyInitInv == Init => CopyInv
BY RecoveryAssumption
   DEF Init, PublisherInit, CopyInv, OnItsWay, One, Publishing, Past, Reopening, Writing, Out, Messages

\* A caller may yet write its event.
MayWrite(c) ==
  \/ step[c] \in {"waiting"} \cup Reopening \cup Writing
  \/ step[c] = "first_out" /\ channel # "live"

\* A step of publish_event that brings a copy out uses up the caller's leave to write,
\* and no step of it gives such a leave to anyone.
LEMMA PublishStepCounts ==
  ASSUME PublisherInv, NEW c \in Callers, PublishStep(c)
  PROVE  /\ UNCHANGED <<faults, outages>>
         /\ \A e \in Events \ {event[c]} : copies'[e] = copies[e]
         /\ \A d \in Callers : MayWrite(d)' => MayWrite(d)
         /\ \/ copies' = copies
            \/ copies'[event[c]] = copies[event[c]] + 1 /\ MayWrite(c) /\ ~MayWrite(c)'
<1> USE DEF PublisherInv, PublisherTypes, PublishInv, Steps, Reopening, Writing, Out, history
<1>1. CASE Acquire(c) \/ Reopened(c) \/ ReopenFails(c)
  BY <1>1 DEF Acquire, Reopened, ReopenFails, GoesOn, Attempt, Returns, MayWrite
<1>2. CASE Written(c)
  BY <1>2 DEF Written, Returns, MayWrite
<1>3. CASE WrittenInVain(c) \/ WriteFails(c) \/ Unrecognised(c)
  BY <1>3 DEF WrittenInVain, WriteFails, Unrecognised, AttemptFails, GoesOn, Returns, MayWrite
<1>4. CASE Taken(c)
  <2>1. event[c] \in Events
    BY <1>4 DEF Taken
  <2>2. /\ step[c] \in Writing /\ channel = "live" /\ channel' = "live" /\ UNCHANGED <<faults, outages>>
        /\ step'[c] \in Out /\ \A d \in Callers \ {c} : step'[d] = step[d]
    BY <1>4 DEF Taken, GoesOn
  <2>3. /\ copies'[event[c]] = copies[event[c]] + 1
        /\ \A e \in Events \ {event[c]} : copies'[e] = copies[e]
    BY <1>4, <2>1 DEF Taken
  <2>4. MayWrite(c) /\ ~MayWrite(c)' /\ \A d \in Callers \ {c} : MayWrite(d)' => MayWrite(d)
    BY <2>2 DEF MayWrite
  <2> QED
    BY <2>2, <2>3, <2>4
<1> QED
  BY <1>1, <1>2, <1>3, <1>4 DEF PublishStep

\* The queue: a requeue puts a recovery in one more place, and is a fault.
LEMMA QueueStepKeepsCopies ==
  ASSUME RecoveryInv,
         \/ \E decodes \in BOOLEAN : Recovers(decodes)
         \/ QueueStep \/ LoseConnection \/ BrokerDown \/ PublisherAlone \/ Restart
         \/ Connect \/ EndSession
  PROVE  CopyInv'
<1> USE DEF queue, handler, publisherVars, history, writers
<1>t. /\ PublisherTypes /\ QueueTypes /\ CopyInv
      /\ \A m \in Messages : m \in Nat /\ m \in Events /\ copies[m] \in Nat
  BY MessagesLemma DEF RecoveryInv, LossInv, PublisherInv, PublisherTypes
<1>1. ASSUME NEW decodes \in BOOLEAN, Recovers(decodes)
      PROVE  CopyInv'
  <2>1. /\ Len(readable') = Len(readable) + 1 /\ Len(readable) \in Nat
        /\ ready' = ready \cup {Len(readable) + 1}
    BY <1>1, <1>t, AppendProperties DEF Recovers, QueueTypes
  <2>2. step[Forwarder] # "idle" => event[Forwarder] # Len(readable) + 1
    BY <1>t DEF RecoveryInv, LossInv, CopyInv, ForwarderInv, QueueTypes, NoMessage
  <2>3. ~Publishing(Len(readable) + 1)
    BY <2>2 DEF Publishing, Past, Reopening, Writing, Out
  <2>4. ASSUME NEW m \in Messages
        PROVE  copies'[m] + OnItsWay(m)' <= 1 + faults' + outages'
    <3>1. CASE m = Len(readable) + 1
      <4>1. copies[m] = 0 /\ m \notin buffer /\ ~Publishing(m)
        BY <1>t, <2>1, <2>3, <3>1 DEF CopyInv, QueueTypes
      <4>2. copies'[m] = 0 /\ m \notin buffer' /\ ~Publishing(m)'
        BY <1>1, <4>1 DEF Recovers, Publishing
      <4>3. OnItsWay(m)' \in {0, 1}
        BY <4>2 DEF OnItsWay, One
      <4>4. faults' \in Nat /\ outages' \in Nat
        BY <1>1, <1>t DEF Recovers, PublisherTypes
      <4> QED
        BY <4>2, <4>3, <4>4
    <3>2. CASE m # Len(readable) + 1
      BY <1>1, <1>t, <2>1, <3>2 DEF Recovers, CopyInv, OnItsWay, One, Publishing
    <3> QED
      BY <3>1, <3>2
  <2> QED
    BY <1>1, <1>t, <2>1, <2>4 DEF Recovers, CopyInv
<1>2. CASE QueueStep
  <2>1. PICK n \in Messages : Push(n)
    BY <1>2 DEF QueueStep
  <2>2. /\ n \in ready /\ ready' = ready \ {n} /\ buffer' = buffer \cup {n}
        /\ UNCHANGED <<readable, faults, outages, copies, channel, step, event, stage>>
    BY <2>1 DEF Push, First
  <2>3. \A m \in Messages : OnItsWay(m)' <= OnItsWay(m) /\ OnItsWay(m)' \in Nat /\ OnItsWay(m) \in Nat
    BY <2>2 DEF OnItsWay, One, Publishing
  <2> QED
    BY <1>t, <2>2, <2>3 DEF CopyInv, PublisherTypes
<1>3. CASE LoseConnection
  BY <1>3, <1>t DEF LoseConnection, Requeue, CopyInv, OnItsWay, One, Publishing, PublisherTypes
<1>4. CASE BrokerDown
  BY <1>4, <1>t DEF BrokerDown, BrokerFails, Requeue, CopyInv, OnItsWay, One, Publishing, PublisherTypes
<1>5. CASE PublisherAlone
  <2>1. UNCHANGED <<ready, buffer, readable, stage, step, event, copies, outages>>
    BY <1>5 DEF PublisherAlone, BrokerRecovers, ChannelBreaks, Noticed
  <2>2. CASE BrokerRecovers
    BY <1>t, <2>1, <2>2 DEF BrokerRecovers, CopyInv, OnItsWay, Publishing
  <2>3. CASE ChannelBreaks
    <3>1. channel = "live" /\ faults' = faults + 1
      BY <2>3 DEF ChannelBreaks
    <3>2. \A m \in Messages : OnItsWay(m)' <= OnItsWay(m) + 1 /\ OnItsWay(m)' \in Nat /\ OnItsWay(m) \in Nat
      BY <2>1 DEF OnItsWay, One
    <3> QED
      BY <1>t, <2>1, <3>1, <3>2 DEF CopyInv, PublisherTypes
  <2>4. CASE Noticed
    <3>1. channel = "dying" /\ channel' = "dead" /\ faults' = faults
      BY <2>4 DEF Noticed
    <3>2. \A m \in Messages : Publishing(m)' <=> Publishing(m)
      BY <2>1, <3>1 DEF Publishing
    <3>3. \A m \in Messages : OnItsWay(m)' = OnItsWay(m)
      BY <2>1, <3>2 DEF OnItsWay, One
    <3> QED
      BY <1>t, <2>1, <3>1, <3>3 DEF CopyInv
  <2> QED
    BY <1>5, <2>2, <2>3, <2>4 DEF PublisherAlone
<1>6. CASE Restart
  <2>1. /\ \A c \in Callers : step'[c] = "idle"
        /\ ready' = ready \cup unacked /\ buffer' = {} /\ faults' = faults + 1
        /\ UNCHANGED <<readable, outages, copies>>
    BY <1>6 DEF Restart, Requeue
  <2>2. \A m \in Messages : OnItsWay(m)' <= 1
    BY <2>1, RecoveryAssumption DEF OnItsWay, One, Publishing, Past, Reopening, Writing, Out
  <2>3. \A m \in Messages : OnItsWay(m) >= 0 /\ OnItsWay(m)' \in Nat /\ OnItsWay(m) \in Nat
    BY DEF OnItsWay, One
  <2>4. \A m \in Messages : copies'[m] + OnItsWay(m)' <= 1 + faults' + outages'
    BY <1>t, <2>1, <2>2, <2>3 DEF CopyInv, PublisherTypes
  <2> QED
    BY <1>t, <2>1, <2>4, RecoveryAssumption DEF CopyInv
<1>7. CASE Connect \/ EndSession
  <2>1. /\ ready' = ready /\ buffer' \subseteq buffer
        /\ UNCHANGED <<readable, faults, outages, copies, channel, step, event, stage>>
    BY <1>7 DEF Connect, EndSession
  <2>2. \A m \in Messages : OnItsWay(m)' <= OnItsWay(m) /\ OnItsWay(m)' \in Nat /\ OnItsWay(m) \in Nat
    BY <2>1 DEF OnItsWay, One, Publishing
  <2> QED
    BY <1>t, <2>1, <2>2 DEF CopyInv, PublisherTypes
<1> QED
  BY <1>1, <1>2, <1>3, <1>4, <1>5, <1>6, <1>7

\* The handler takes a recovery from the buffer to the publisher.
LEMMA HandlerStepKeepsCopies ==
  ASSUME RecoveryInv, HandlerStep
  PROVE  CopyInv'
<1> USE DEF queue, handler, publisherVars, history, writers
<1>t. /\ PublisherTypes /\ CopyInv /\ Forwarder \in Callers
      /\ \A m \in Messages : m \in Nat /\ m \in Events /\ copies[m] \in Nat
  BY MessagesLemma DEF RecoveryInv, LossInv, PublisherInv, PublisherTypes
<1>1. ASSUME NEW n \in Messages, Undecodable(n)
      PROVE  CopyInv'
  BY <1>1, <1>t DEF Undecodable, Take, CopyInv, OnItsWay, One, Publishing, PublisherTypes
<1>2. ASSUME NEW n \in Messages, Forward(n)
      PROVE  CopyInv'
  BY <1>2, <1>t DEF Forward, Take, First, PublishEvent, CopyInv, OnItsWay, One, Publishing, Past,
     Reopening, Writing, Out, PublisherTypes
<1>3. CASE Forwarded
  BY <1>3, <1>t DEF Forwarded, Collect, CopyInv, OnItsWay, One, Publishing, Past,
     Reopening, Writing, Out, PublisherTypes
<1>4. ASSUME NEW kind \in {"ack", "nack"}, Reply(kind)
      PROVE  CopyInv'
  BY <1>4, <1>t DEF Reply, CopyInv, OnItsWay, One, Publishing, PublisherTypes
<1> QED
  BY <1>1, <1>2, <1>3, <1>4 DEF HandlerStep

\* The publisher takes a recovery out, or keeps it for a retry that a fault caused.
LEMMA PublishersKeepCopies ==
  ASSUME RecoveryInv, PublisherStep \/ \E c \in Callers : Other(c)
  PROVE  CopyInv'
<1> USE DEF queue, handler, history
<1>t. /\ PublisherInv /\ PublisherTypes /\ CopyInv /\ Forwarder \in Callers
      /\ \A m \in Messages : m \in Nat /\ m \in Events /\ m \notin Callers /\ copies[m] \in Nat
  BY MessagesLemma DEF RecoveryInv, LossInv, PublisherInv, PublisherTypes
<1>1. CASE PublisherStep
  <2>1. PICK c \in Callers : PublishStep(c) /\ UNCHANGED <<running, queue, handler>>
    BY <1>1 DEF PublisherStep
  <2>2. /\ event' = event /\ step[c] # "idle" /\ step'[c] # "idle"
        /\ \A d \in Callers \ {c} : step'[d] = step[d]
    BY <2>1, <1>t, PublishStepKeepsInv
  <2>3. /\ UNCHANGED <<faults, outages>> /\ faults \in Nat /\ outages \in Nat
        /\ \A e \in Events \ {event[c]} : copies'[e] = copies[e]
        /\ MayWrite(Forwarder)' => MayWrite(Forwarder)
        /\ \/ copies' = copies
           \/ copies'[event[c]] = copies[event[c]] + 1 /\ MayWrite(c) /\ ~MayWrite(c)'
    BY <2>1, <1>t, PublishStepCounts DEF PublisherTypes
  <2>p. \A m : /\ Publishing(m) <=> event[Forwarder] = m /\ MayWrite(Forwarder)
               /\ Publishing(m)' <=> event'[Forwarder] = m /\ MayWrite(Forwarder)'
    BY DEF Publishing, MayWrite
  <2>w. \A m : OnItsWay(m)' <= OnItsWay(m) /\ OnItsWay(m)' \in Nat /\ OnItsWay(m) \in Nat
    BY <2>1, <2>2, <2>3, <2>p DEF OnItsWay, One
  <2>4. CASE c # Forwarder
    <3>1. \A m \in Messages : copies'[m] = copies[m]
      BY <1>t, <2>2, <2>3, <2>4 DEF CopyInv
    <3> QED
      BY <1>t, <2>1, <2>2, <2>3, <2>4, <2>w, <3>1 DEF CopyInv
  <2>5. CASE c = Forwarder
    <3>1. event[Forwarder] = current /\ current \in 1..Len(readable)
      BY <1>t, <2>2, <2>5 DEF RecoveryInv, LossInv, CopyInv, ForwarderInv, QueueTypes, NoMessage
    <3>2. ASSUME NEW m \in Messages
          PROVE  /\ copies'[m] + OnItsWay(m)' <= 1 + faults' + outages'
                 /\ m > Len(readable') => copies'[m] = 0
      <4>1. copies[m] + OnItsWay(m) <= 1 + faults + outages /\ (m > Len(readable) => copies[m] = 0)
        BY <1>t DEF CopyInv
      <4>2. CASE copies'[m] = copies[m]
        BY <1>t, <2>1, <2>3, <2>w, <4>1, <4>2
      <4>3. CASE copies'[m] # copies[m]
        <5>1. m = current /\ copies'[m] = copies[m] + 1 /\ MayWrite(Forwarder) /\ ~MayWrite(Forwarder)'
          BY <1>t, <2>3, <2>5, <3>1, <4>3
        <5>2. Publishing(m) /\ ~Publishing(m)'
          BY <2>p, <3>1, <5>1
        <5>3. OnItsWay(m)' + 1 = OnItsWay(m)
          BY <2>1, <5>2 DEF OnItsWay, One
        <5>4. ~(m > Len(readable')) /\ UNCHANGED <<faults, outages>>
          BY <2>1, <2>3, <3>1, <5>1
        <5> QED
          BY <1>t, <2>3, <2>w, <4>1, <5>1, <5>3, <5>4
      <4> QED
        BY <4>2, <4>3
    <3> QED
      BY <1>t, <2>1, <2>2, <2>5, <3>2 DEF CopyInv
  <2> QED
    BY <2>4, <2>5
<1>2. ASSUME NEW c \in Callers, Other(c)
      PROVE  CopyInv'
  <2>1. c # Forwarder /\ c \in Events
    BY <1>2, RecoveryAssumption DEF Other
  <2>2. /\ UNCHANGED <<faults, channel, history>>
        /\ \A d \in Callers \ {c} : step'[d] = step[d] /\ event'[d] = event[d]
    BY <1>2, <1>t, <2>1, CallerStepKeepsInv DEF Other
  <2>3. step'[c] # "idle" => event'[c] = c
    BY <1>2, <1>t, <2>1 DEF Other, PublishEvent, Collect, Abandon, PublisherTypes
  <2> QED
    BY <1>2, <1>t, <2>1, <2>2, <2>3 DEF Other, CopyInv, OnItsWay, One, Publishing
<1> QED
  BY <1>1, <1>2

\* However many recoveries, retries and redeliveries there are, each copy too many has
\* its own fault, or shares a failure of the broker with one other.
THEOREM EachCopyHasItsFault == Spec => []CopiesNeedFaults
<1>1. RecoveryInv /\ [Next]_vars => CopyInv'
  <2> SUFFICES ASSUME RecoveryInv, [Next]_vars
               PROVE  CopyInv'
    OBVIOUS
  <2>1. CASE UNCHANGED vars
    BY <2>1 DEF RecoveryInv, CopyInv, OnItsWay, One, Publishing, vars, publisherVars, history,
       writers, queue, handler
  <2> QED
    BY <2>1, QueueStepKeepsCopies, HandlerStepKeepsCopies, PublishersKeepCopies DEF Next
<1>2. RecoveryInv => CopiesNeedFaults
  <2> SUFFICES ASSUME RecoveryInv, NEW m \in Messages
               PROVE  copies[m] <= 1 + faults + outages
    BY DEF CopiesNeedFaults
  <2>1. copies[m] \in Nat /\ faults \in Nat /\ outages \in Nat /\ OnItsWay(m) \in Nat
    BY RecoveryAssumption DEF RecoveryInv, LossInv, PublisherInv, PublisherTypes, OnItsWay, One
  <2> QED
    BY <2>1 DEF RecoveryInv, CopyInv
<1> QED
  BY <1>1, <1>2, LossInvariance, CopyInitInv, PTL DEF Spec, RecoveryInv

-----------------------------------------------------------------------------
(* The refinement of DurableQueue                                          *)

\* What is about to be settled has been handled, and what has been settled.
SettledInv ==
  /\ stage = "idle" <=> current = NoMessage
  /\ stage \in {"ack", "nack"} => current \in handled
  /\ \A m \in 1..Len(readable) : m \in ready \cup unacked \cup handled

\* Where the kept recoveries are: on a live connection the handler and the stream hold
\* what the broker has pushed, which comes before what it still has; a connection that
\* is gone leaves the forwarder with deliveries that are in the queue again.
ConnectionInv ==
  /\ buffer \subseteq (ready \cup unacked) \ {current}
  /\ current # NoMessage => current \in ready \cup unacked
  /\ session = "up" =>
       /\ unacked = buffer \cup ({current} \ {NoMessage})
       /\ \A m \in unacked, n \in ready : m < n
  /\ session # "up" => unacked = {}
  /\ session = "down" => buffer = {} /\ current = NoMessage

\* Nothing is skipped: what comes before a delivery is ahead of it, or handled.
OrderInv ==
  /\ \A m \in buffer : \A n \in 1..(m - 1) : n \in buffer \cup handled \cup {current}
  /\ current # NoMessage => \A n \in 1..(current - 1) : n \in handled

QueueInv == SettledInv /\ ConnectionInv /\ OrderInv

\* What the steps below use of the types.
LEMMA KeptOrHandled ==
  ASSUME QueueTypes, QueueInv
  PROVE  /\ Len(readable) \in Nat
         /\ ready \cup unacked \cup buffer \cup handled \subseteq 1..Len(readable)
         /\ current \in 1..Len(readable) \cup {0}
         /\ \A m \in 1..Len(readable) : m \in ready \cup unacked \cup handled
         /\ stage = "idle" <=> current = 0
         /\ stage \in {"ack", "nack"} => current \in handled
BY DEF QueueTypes, QueueInv, SettledInv, NoMessage

\* A recovery comes after all the others.
LEMMA RecoversKeepsQueue ==
  ASSUME QueueTypes, QueueInv, NEW decodes \in BOOLEAN, Recovers(decodes)
  PROVE  QueueInv' /\ Queue!Publish
<1> DEFINE N == Len(readable)
<1>1. N \in Nat /\ Len(readable') = N + 1 /\ N + 1 \notin 1..N
  BY DEF QueueTypes, Recovers
<1>2. /\ ready' = ready \cup {N + 1}
      /\ UNCHANGED <<unacked, session, buffer, current, stage, handled>>
  BY DEF Recovers, handler
<1>3. \A m \in unacked : m < N + 1
  BY KeptOrHandled
<1>4. SettledInv'
  <2>1. \A m \in 1..(N + 1) : m \in 1..N \/ m = N + 1
    BY <1>1
  <2> HIDE DEF N
  <2>2. \A m \in 1..N : m \in ready \cup unacked \cup handled
    BY KeptOrHandled DEF N
  <2> QED
    BY <1>1, <1>2, <2>1, <2>2 DEF QueueInv, SettledInv
<1> HIDE DEF N
<1>5. ConnectionInv'
  BY <1>2, <1>3 DEF QueueInv, ConnectionInv
<1>6. OrderInv'
  BY <1>2 DEF QueueInv, OrderInv
<1>7. Queue!Publish
  BY <1>1, <1>2 DEF Queue!Publish, N
<1> QED
  BY <1>4, <1>5, <1>6, <1>7 DEF QueueInv

\* The broker pushes in order.
LEMMA PushKeepsQueue ==
  ASSUME QueueTypes, QueueInv, NEW m \in Messages, Push(m)
  PROVE  QueueInv' /\ UNCHANGED Queue!queueVars
<1>1. /\ session = "up" /\ m \in ready /\ \A n \in ready : m <= n
      /\ ready' = ready \ {m} /\ unacked' = unacked \cup {m} /\ buffer' = buffer \cup {m}
      /\ UNCHANGED <<readable, session, current, stage, handled>>
  BY DEF Push, First
<1>2. /\ unacked = buffer \cup ({current} \ {0})
      /\ \A k \in unacked, n \in ready : k < n
  BY <1>1 DEF QueueInv, ConnectionInv, NoMessage
<1>3. m \in 1..Len(readable) /\ m \in Nat /\ ready \cup unacked \subseteq Nat
  BY <1>1, KeptOrHandled
<1>4. m \notin unacked /\ m # current
  BY <1>1, <1>2, <1>3
<1>5. ConnectionInv'
  BY <1>1, <1>2, <1>3, <1>4 DEF QueueInv, ConnectionInv, NoMessage
<1>6. ASSUME NEW n \in 1..(m - 1)
      PROVE  n \in buffer \cup handled \cup {current}
  <2>1. n \in 1..Len(readable) /\ n \notin ready
    BY <1>1, <1>3, KeptOrHandled
  <2> QED
    BY <1>2, <2>1, KeptOrHandled
<1>7. OrderInv'
  BY <1>1, <1>6 DEF QueueInv, OrderInv
<1>8. SettledInv' /\ UNCHANGED Queue!queueVars
  BY <1>1 DEF Queue!queueVars, QueueInv, SettledInv
<1> QED
  BY <1>5, <1>7, <1>8 DEF QueueInv

\* The connections, the broker and the process come and go.
LEMMA ConnectionKeepsQueue ==
  ASSUME QueueTypes, QueueInv,
         LoseConnection \/ BrokerDown \/ Connect \/ EndSession \/ Restart
  PROVE  QueueInv' /\ (Queue!LetGo \/ UNCHANGED Queue!queueVars)
<1> USE DEF QueueInv, SettledInv, ConnectionInv, OrderInv, NoMessage, Queue!queueVars
<1>1. CASE LoseConnection
  BY <1>1 DEF LoseConnection, Requeue
<1>2. CASE BrokerDown
  BY <1>2 DEF BrokerDown, Requeue
<1>3. CASE Connect
  BY <1>3 DEF Connect, queue
<1>4. CASE EndSession
  <2>1. current = 0
    BY <1>4, KeptOrHandled DEF EndSession
  <2> QED
    BY <1>4, <2>1 DEF EndSession, queue
<1>5. CASE Restart
  <2>1. /\ ready' = ready \cup unacked /\ unacked' = {} /\ session' = "down" /\ buffer' = {}
        /\ current' = 0 /\ stage' = "idle" /\ UNCHANGED <<readable, handled>>
    BY <1>5 DEF Restart, Requeue
  <2>2. QueueInv'
    BY <2>1
  <2> QED
    BY <2>1, <2>2 DEF Queue!LetGo
<1> QED
  BY <1>1, <1>2, <1>3, <1>4, <1>5

\* The handler takes the first of the stream's deliveries; one that does not decode has
\* then been handled.
LEMMA TakeKeepsQueue ==
  ASSUME QueueTypes, QueueInv, NEW m \in Messages, Undecodable(m) \/ Forward(m)
  PROVE  QueueInv' /\ Queue!Take(m) /\ m \in 1..Len(readable)
<1>1. /\ m \in buffer /\ \A n \in buffer : m <= n
      /\ current = 0 /\ current' = m /\ buffer' = buffer \ {m}
      /\ UNCHANGED <<readable, ready, unacked, session>>
  BY KeptOrHandled DEF Undecodable, Forward, Take, First
<1>2. /\ handled' \in {handled, handled \cup {m}}
      /\ stage' = "publishing" \/ (stage' = "nack" /\ m \in handled')
  BY DEF Undecodable, Forward
<1>3. m \in 1..Len(readable) /\ m \in Nat /\ m # 0 /\ m \in ready \cup unacked
  BY <1>1, KeptOrHandled DEF QueueInv, ConnectionInv
<1>4. \A n \in 1..(m - 1) : n \in handled
  <2>1. \A n \in 1..(m - 1) : n \notin buffer /\ n # 0
    BY <1>1, <1>3
  <2> QED
    BY <1>1, <2>1 DEF QueueInv, OrderInv
<1>5. ConnectionInv'
  BY <1>1, <1>3 DEF QueueInv, ConnectionInv, NoMessage
<1>6. OrderInv'
  BY <1>1, <1>2, <1>4 DEF QueueInv, OrderInv
<1>7. SettledInv'
  BY <1>1, <1>2, <1>3 DEF QueueInv, SettledInv, NoMessage
<1>8. Queue!Take(m)
  BY <1>1, <1>2, <1>3, <1>4 DEF Queue!Take
<1> QED
  BY <1>3, <1>5, <1>6, <1>7, <1>8 DEF QueueInv

\* It comes to its end and settles what it has in hand, or no longer can.
LEMMA ReplyKeepsQueue ==
  ASSUME QueueTypes, QueueInv, Forwarded \/ \E kind \in {"ack", "nack"} : Reply(kind)
  PROVE  QueueInv' /\ (Queue!Handle \/ Queue!Settle \/ Queue!LetGo)
<1>1. CASE Forwarded
  <2>1. /\ current # 0 /\ handled' = handled \cup {current} /\ stage' = "ack"
        /\ UNCHANGED <<readable, ready, unacked, session, buffer, current>>
    BY <1>1, KeptOrHandled DEF Forwarded
  <2> QED
    BY <2>1 DEF QueueInv, SettledInv, ConnectionInv, OrderInv, NoMessage, Queue!Handle
<1>2. ASSUME NEW kind \in {"ack", "nack"}, Reply(kind)
      PROVE  QueueInv' /\ (Queue!Settle \/ Queue!LetGo)
  <2>1. /\ current # 0 /\ current \in handled /\ current' = 0 /\ stage' = "idle"
        /\ unacked' = unacked \ (IF session = "up" THEN {current} ELSE {})
        /\ UNCHANGED <<readable, ready, session, buffer, handled>>
    BY <1>2, KeptOrHandled DEF Reply, NoMessage
  <2>2. 0 \notin ready \cup unacked \cup buffer
    BY KeptOrHandled
  <2>3. OrderInv' /\ SettledInv'
    BY <2>1 DEF QueueInv, OrderInv, SettledInv, NoMessage
  <2>4. CASE session = "up"
    <3>1. current \notin ready
      BY <2>1, <2>4, KeptOrHandled DEF QueueInv, ConnectionInv, NoMessage
    <3>2. ConnectionInv'
      BY <2>1, <2>2, <2>4 DEF QueueInv, ConnectionInv, NoMessage
    <3>3. ready' \cup unacked' = (ready \cup unacked) \ {current}
      BY <2>1, <2>4, <3>1
    <3> QED
      BY <2>1, <2>3, <3>2, <3>3 DEF QueueInv, Queue!Settle
  <2>5. CASE session # "up"
    <3>1. unacked' = unacked
      BY <2>1, <2>5
    <3>2. ConnectionInv'
      BY <2>1, <2>2, <2>5, <3>1 DEF QueueInv, ConnectionInv, NoMessage
    <3> QED
      BY <2>1, <2>3, <3>1, <3>2 DEF QueueInv, Queue!LetGo
  <2> QED
    BY <2>4, <2>5
<1> QED
  BY <1>1, <1>2

\* A step keeps the invariant and is a step of the queue, or leaves the queue alone.
LEMMA StepRefinesQueue ==
  QueueTypes /\ QueueInv /\ [Next]_vars => QueueInv' /\ [Queue!Next]_(Queue!queueVars)
<1> SUFFICES ASSUME QueueTypes, QueueInv, [Next]_vars
             PROVE  QueueInv' /\ (Queue!Next \/ UNCHANGED Queue!queueVars)
  OBVIOUS
<1> USE DEF Queue!Next
<1>1. CASE PublisherAlone \/ PublisherStep \/ (\E c \in Callers : Other(c)) \/ UNCHANGED vars
  <2>1. UNCHANGED <<readable, ready, unacked, session, buffer, current, stage, handled>>
    BY <1>1 DEF PublisherAlone, PublisherStep, Other, vars, queue, handler
  <2> QED
    BY <2>1 DEF QueueInv, SettledInv, ConnectionInv, OrderInv, Queue!queueVars
<1>2. CASE \E decodes \in BOOLEAN : Recovers(decodes)
  BY <1>2, RecoversKeepsQueue
<1>3. CASE QueueStep
  BY <1>3, PushKeepsQueue DEF QueueStep
<1>4. CASE LoseConnection \/ BrokerDown \/ Connect \/ EndSession \/ Restart
  BY <1>4, ConnectionKeepsQueue
<1>5. CASE HandlerStep
  BY <1>5, TakeKeepsQueue, ReplyKeepsQueue DEF HandlerStep
<1> QED
  BY <1>1, <1>2, <1>3, <1>4, <1>5 DEF Next

\* The forwarder is the one hand of a durable queue, whatever becomes of what it
\* publishes: at least once, first in order, never again once settled.
THEOREM ForwarderImplementsQueue == Spec => ImplementsQueue
<1>1. Init => QueueInv /\ Queue!Init
  BY DEF Init, QueueInv, SettledInv, ConnectionInv, OrderInv, NoMessage, Queue!Init
<1>2. LossInv => QueueTypes
  BY DEF LossInv
<1> QED
  BY <1>1, <1>2, LossInvariance, StepRefinesQueue, PTL DEF Spec, ImplementsQueue, Queue!Spec
=============================================================================
