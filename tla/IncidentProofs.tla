--------------------------- MODULE IncidentProofs ---------------------------
(***************************************************************************)
(* Proofs about IncidentConsumer, for any budget, any windows, any number  *)
(* of services, messages and faults.                                       *)
(***************************************************************************)
EXTENDS IncidentConsumer, TLAPS

-----------------------------------------------------------------------------
(* The inductive invariant                                                 *)

\* Budget: the last accepted_in_window grants belong to the current window, the
\* ones before to windows that began at least Window earlier; and an open circuit
\* remembers a full window that began less than Window before it opened.
SpentInv ==
  LET c == budget.accepted_in_window
      start == budget.window_started_at
      L == Len(granted) IN
  /\ c <= L /\ c <= MaxPerHour /\ start <= now
  /\ \A i \in 1..L : granted[i].time <= now
  /\ \A i \in 1..L : i > L - c => granted[i].time >= start
  /\ \A i \in 1..L : i <= L - c => granted[i].time <= start
  /\ \A i \in 1..L : i <= L - c - MaxPerHour => granted[i].time + Window <= start

CircuitInv ==
  budget.open_until # 0 =>
    /\ budget.accepted_in_window = MaxPerHour
    /\ budget.open_until >= budget.window_started_at + Window
    /\ budget.open_until < budget.window_started_at + 2 * Window

\* Debouncer: the slot of a service is never older than its last diagnosis.
SlotInv ==
  /\ \A s \in DOMAIN last_fired : last_fired[s] <= now
  /\ \A i \in 1..Len(granted) :
       /\ granted[i].service \in DOMAIN last_fired
       /\ granted[i].time <= last_fired[granted[i].service]

\* The handler: what is about to be acked or nacked has been handled.
HandlerInv ==
  /\ stage = "idle" <=> current = NoMessage
  /\ stage \in {"ack", "nack"} => current \in handled

IInv ==
  /\ TypeOK
  /\ SpentInv /\ AtMostTwiceTheBudget
  /\ CircuitInv
  /\ SlotInv /\ DiagnosesAreSpaced
  /\ HandlerInv /\ NoIncidentIsDropped

USE GuardsAssumption, ConsumerAssumption

-----------------------------------------------------------------------------
(* Type correctness                                                        *)

\* What the guards leave behind is a budget again.
LEMMA GuardTypes ==
  ASSUME NEW b \in BudgetState, NEW t \in Nat
  PROVE  Refreshed(b, t) \in BudgetState /\ Consumed(b, t) \in BudgetState
  BY DEF Refreshed, Consumed, Allowed, CircuitOpen, NewBudget, BudgetState

\* An element of the history is a grant, and so is one more.
LEMMA GrantTypes ==
  ASSUME granted \in Seq(Grant)
  PROVE  /\ Len(granted) \in Nat
         /\ \A i \in 1..Len(granted) :
              granted[i] \in Grant /\ granted[i].time \in Nat /\ granted[i].service \in Services
<1>1. \A i \in 1..Len(granted) : granted[i] \in Grant
  OBVIOUS
<1>2. \A g \in Grant : g.time \in Nat /\ g.service \in Services
  BY DEF Grant
<1> QED
  BY <1>1, <1>2

\* Appending a grant keeps the history and adds its last element.
LEMMA GrantAppended ==
  ASSUME granted \in Seq(Grant), NEW s \in Services, now \in Nat,
         granted' = Append(granted, [time |-> now, service |-> s])
  PROVE  /\ granted' \in Seq(Grant)
         /\ Len(granted') = Len(granted) + 1
         /\ granted'[Len(granted) + 1].time = now
         /\ granted'[Len(granted) + 1].service = s
         /\ \A i \in 1..Len(granted) : granted'[i] = granted[i]
<1> DEFINE g == [time |-> now, service |-> s]
<1>1. g \in Grant /\ g.time = now /\ g.service = s
  BY DEF Grant
<1> HIDE DEF g
<1>2. granted' = Append(granted, g)
  BY DEF g
<1> QED
  BY <1>1, <1>2

\* Type correctness of the consumer, initially.
LEMMA InitTypeOK == Init => TypeOK
  BY DEF Init, TypeOK, NewBudget, BudgetState, Sessions, Stages, Messages, NoMessage

\* What every branch of the handler has in common.
LEMMA TakeTypes ==
  ASSUME TypeOK, NEW m \in Messages, NEW next \in Stages, Take(m, next)
  PROVE  /\ m \in 1..Len(published) /\ published[m] \in Incidents
         /\ buffer' \subseteq 1..Len(published)
         /\ current' \in 1..Len(published) /\ stage' \in Stages
         /\ handled' \subseteq 1..Len(published)
         /\ now' = now /\ faults' = faults /\ published' = published
         /\ ready' = ready /\ unacked' = unacked /\ session' = session
  BY DEF TypeOK, Take, First, broker

\* Type correctness of the consumer, step by step.
LEMMA StepTypeOK == TypeOK /\ HandlerInv /\ [Next]_vars => TypeOK'
<1> SUFFICES ASSUME TypeOK, HandlerInv, [Next]_vars PROVE TypeOK'
  OBVIOUS
<1>1. CASE Tick
  BY <1>1 DEF TypeOK, Tick, broker, handler, guards
<1>2. ASSUME NEW incident \in Incidents, Publish(incident) PROVE TypeOK'
  <2>1. published' \in Seq(Incidents) /\ Len(published') = Len(published) + 1
    BY <1>2 DEF TypeOK, Publish
  <2> QED
    BY <1>2, <2>1 DEF TypeOK, Publish, handler, guards, Messages
<1>3. ASSUME NEW m \in Messages, Push(m) PROVE TypeOK'
  BY <1>3 DEF TypeOK, Push, First, guards
<1>4. CASE LoseConnection
  BY <1>4 DEF TypeOK, LoseConnection, handler, guards, Sessions
<1>5. CASE Connect \/ EndSession
  BY <1>5 DEF TypeOK, Connect, EndSession, broker, handler, guards, Sessions
<1>6. CASE Crash
  BY <1>6 DEF TypeOK, Crash, NewBudget, BudgetState, Sessions, Stages, NoMessage
<1>7. ASSUME NEW m \in Messages, Undecodable(m) \/ SkipLowSeverity(m) \/ SkipDebounced(m)
      PROVE  TypeOK'
  <2>1. \E next \in Stages : Take(m, next)
    BY <1>7 DEF Undecodable, SkipLowSeverity, SkipDebounced, Stages
  <2>2. UNCHANGED <<deadline, guards>>
    BY <1>7 DEF Undecodable, SkipLowSeverity, SkipDebounced
  <2> QED
    BY <2>1, <2>2, TakeTypes DEF TypeOK, guards
<1>8. ASSUME NEW m \in Messages, SkipCircuitOpen(m) \/ Accept(m) PROVE TypeOK'
  <2>1. \E next \in Stages : Take(m, next)
    BY <1>8 DEF SkipCircuitOpen, Accept, Stages
  <2>2. published[m].service \in Services
    BY <2>1, TakeTypes
  <2>3. DOMAIN last_fired' \subseteq Services /\ \A s \in DOMAIN last_fired' : last_fired'[s] \in Nat
    BY <1>8, <2>2 DEF TypeOK, SkipCircuitOpen, Accept, Fired
  <2>4. budget' \in BudgetState
    BY <1>8, GuardTypes DEF TypeOK, SkipCircuitOpen, Accept
  <2>5. granted' \in Seq(Grant) /\ deadline' \in Nat
    BY <1>8, <2>2, GrantAppended DEF TypeOK, SkipCircuitOpen, Accept
  <2> QED
    BY <2>1, <2>3, <2>4, <2>5, TakeTypes DEF TypeOK
<1>9. CASE Finish
  <2>1. current \in 1..Len(published)
    BY <1>9 DEF TypeOK, Finish, HandlerInv
  <2> QED
    BY <1>9, <2>1 DEF TypeOK, Finish, broker, guards, Stages
<1>10. ASSUME NEW kind \in {"ack", "nack"}, Reply(kind) PROVE TypeOK'
  BY <1>10 DEF TypeOK, Reply, guards, Stages
<1>11. CASE UNCHANGED vars
  BY <1>11 DEF TypeOK, vars, broker, handler, guards
<1> QED
  BY <1>1, <1>2, <1>3, <1>4, <1>5, <1>6, <1>7, <1>8, <1>9, <1>10, <1>11
  DEF Next, BrokerStep, HandlerStep, DiagnoseReturns, DiagnoseTimedOut

-----------------------------------------------------------------------------
(* The budget                                                              *)

\* A step that lets nothing through and leaves budget and history alone, the clock
\* moving on or not.
LEMMA QuietStep ==
  ASSUME TypeOK, UNCHANGED guards, now' \in Nat, now' >= now,
         SpentInv, CircuitInv, SlotInv, AtMostTwiceTheBudget, DiagnosesAreSpaced
  PROVE  (SpentInv /\ CircuitInv /\ SlotInv /\ AtMostTwiceTheBudget /\ DiagnosesAreSpaced)'
<1>1. SpentInv'
  <2>1. \A i \in 1..Len(granted) : granted[i].time <= now'
    BY GrantTypes DEF SpentInv, TypeOK
  <2> QED
    BY <2>1 DEF guards, SpentInv, TypeOK, BudgetState
<1>2. CircuitInv'
  BY DEF guards, CircuitInv
<1>3. SlotInv'
  BY DEF guards, SlotInv, TypeOK
<1>4. AtMostTwiceTheBudget' /\ DiagnosesAreSpaced'
  BY DEF guards, AtMostTwiceTheBudget, DiagnosesAreSpaced
<1> QED
  BY <1>1, <1>2, <1>3, <1>4

\* The invariant of the current window survives try_consume's auto-resets: b is
\* the budget after them.
SpentBy(b) ==
  LET L == Len(granted) IN
  /\ b.accepted_in_window <= L /\ b.accepted_in_window <= MaxPerHour
  /\ b.window_started_at <= now
  /\ \A i \in 1..L : i > L - b.accepted_in_window
                       => granted[i].time >= b.window_started_at
  /\ \A i \in 1..L : i <= L - b.accepted_in_window
                       => granted[i].time <= b.window_started_at
  /\ \A i \in 1..L : i <= L - b.accepted_in_window - MaxPerHour
                       => granted[i].time + Window <= b.window_started_at

\* The auto-resets of try_consume keep what is known of the current window.
LEMMA RefreshedSpent ==
  ASSUME TypeOK, SpentInv, CircuitInv, ~CircuitOpen(budget, now)
  PROVE  /\ SpentBy(Refreshed(budget, now))
         /\ Refreshed(budget, now).open_until = 0
         /\ now < Refreshed(budget, now).window_started_at + Window
<1>1. CASE budget.open_until # 0 \/ now - budget.window_started_at >= Window
  <2>1. Refreshed(budget, now) = NewBudget(now)
    BY <1>1 DEF Refreshed
  <2>2. now >= budget.window_started_at + Window
    BY <1>1 DEF CircuitInv, CircuitOpen, TypeOK, BudgetState
  <2>3. \A i \in 1..Len(granted) : granted[i].time \in Nat /\ granted[i].time <= now
    BY GrantTypes DEF TypeOK, SpentInv
  <2>4. \A i \in 1..Len(granted) : i <= Len(granted) - MaxPerHour
          => granted[i].time + Window <= now
    <3> TAKE i \in 1..Len(granted)
    <3> HAVE i <= Len(granted) - MaxPerHour
    <3>1. i <= Len(granted) - budget.accepted_in_window
      BY GrantTypes DEF SpentInv, TypeOK, BudgetState
    <3>2. granted[i].time <= budget.window_started_at
      BY <3>1 DEF SpentInv
    <3> QED
      BY <2>2, <2>3, <3>2 DEF TypeOK, BudgetState
  <2> QED
    BY <2>1, <2>3, <2>4 DEF NewBudget, SpentBy, TypeOK
<1>2. CASE ~(budget.open_until # 0 \/ now - budget.window_started_at >= Window)
  <2>1. Refreshed(budget, now) = budget
    BY <1>2 DEF Refreshed
  <2>2. budget.open_until = 0 /\ now < budget.window_started_at + Window
    BY <1>2 DEF TypeOK, BudgetState
  <2> QED
    BY <2>1, <2>2 DEF SpentBy, SpentInv
<1> QED
  BY <1>1, <1>2

\* A refusal opens the circuit or leaves it open.
LEMMA RefusedStep ==
  ASSUME TypeOK, SpentInv, CircuitInv, AtMostTwiceTheBudget, ~Allowed(budget, now),
         budget' = Consumed(budget, now), UNCHANGED <<now, granted>>
  PROVE  (SpentInv /\ CircuitInv /\ AtMostTwiceTheBudget)'
<1> DEFINE r == Refreshed(budget, now)
<1>1. CASE CircuitOpen(budget, now)
  BY <1>1 DEF Consumed, SpentInv, CircuitInv, AtMostTwiceTheBudget
<1>2. CASE ~CircuitOpen(budget, now)
  <2>1. r \in BudgetState
    BY GuardTypes DEF TypeOK
  <2>2. SpentBy(r) /\ now < r.window_started_at + Window
    BY <1>2, RefreshedSpent
  <2>3. r.accepted_in_window = MaxPerHour
    BY <1>2, <2>1, <2>2 DEF Allowed, SpentBy, BudgetState
  <2>4. budget' = [r EXCEPT !.open_until = now + Window]
    BY <1>2 DEF Consumed
  <2>5. /\ budget'.accepted_in_window = r.accepted_in_window
        /\ budget'.window_started_at = r.window_started_at
        /\ budget'.open_until = now + Window
    BY <2>1, <2>4 DEF BudgetState
  <2> HIDE DEF r
  <2>6. SpentInv'
    BY <2>2, <2>5 DEF SpentBy, SpentInv
  <2>7. CircuitInv'
    BY <2>1, <2>2, <2>3, <2>5, SMTT(30) DEF SpentBy, CircuitInv, TypeOK, BudgetState
  <2> QED
    BY <2>6, <2>7 DEF AtMostTwiceTheBudget
<1> QED
  BY <1>1, <1>2

\* A diagnosis that is let through is the next one of the current window, and the
\* one 2 * MaxPerHour before it lies in an earlier window than the last.
LEMMA GrantedStep ==
  ASSUME TypeOK, SpentInv, CircuitInv, AtMostTwiceTheBudget, Allowed(budget, now),
         NEW s \in Services,
         budget' = Consumed(budget, now), UNCHANGED now,
         granted' = Append(granted, [time |-> now, service |-> s])
  PROVE  (SpentInv /\ CircuitInv /\ AtMostTwiceTheBudget)'
<1> DEFINE r == Refreshed(budget, now)
<1> DEFINE L == Len(granted)
<1>1. r \in BudgetState
  BY GuardTypes DEF TypeOK
<1>2. ~CircuitOpen(budget, now) /\ r.accepted_in_window < MaxPerHour
  BY DEF Allowed
<1>3. SpentBy(r) /\ r.open_until = 0
  BY <1>2, RefreshedSpent
<1>4. budget' = [r EXCEPT !.accepted_in_window = @ + 1]
  BY <1>2 DEF Consumed
<1>5. /\ budget'.accepted_in_window = r.accepted_in_window + 1
      /\ budget'.window_started_at = r.window_started_at
      /\ budget'.open_until = 0
  BY <1>1, <1>3, <1>4 DEF BudgetState
<1>6. /\ L \in Nat /\ Len(granted') = L + 1
      /\ granted'[L + 1].time = now
      /\ \A i \in 1..L : granted'[i] = granted[i] /\ granted[i].time \in Nat
  BY GrantTypes, GrantAppended DEF TypeOK
<1> HIDE DEF r
<1>7. SpentInv'
  <2>1. \A i \in 1..(L + 1) : granted'[i].time <= now
    BY <1>6 DEF SpentInv, TypeOK
  <2>2. \A i \in 1..(L + 1) : i > L - r.accepted_in_window
          => granted'[i].time >= r.window_started_at
    BY <1>1, <1>3, <1>6 DEF SpentBy, BudgetState
  <2>3. \A i \in 1..(L + 1) : i <= L - r.accepted_in_window
          => granted'[i].time <= r.window_started_at
    BY <1>1, <1>3, <1>6 DEF SpentBy, BudgetState
  <2>4. \A i \in 1..(L + 1) : i <= L - r.accepted_in_window - MaxPerHour
          => granted'[i].time + Window <= r.window_started_at
    BY <1>1, <1>3, <1>6 DEF SpentBy, BudgetState
  <2>5. /\ (L + 1) - budget'.accepted_in_window = L - r.accepted_in_window
        /\ budget'.accepted_in_window <= L + 1 /\ budget'.accepted_in_window <= MaxPerHour
        /\ budget'.window_started_at <= now'
    BY <1>1, <1>2, <1>3, <1>5, <1>6 DEF SpentBy, BudgetState
  <2> QED
    BY <1>5, <1>6, <2>1, <2>2, <2>3, <2>4, <2>5 DEF SpentInv
<1>8. AtMostTwiceTheBudget'
  <2> SUFFICES ASSUME NEW i \in 1..(L + 1), NEW j \in 1..(L + 1), j >= i + 2 * MaxPerHour
               PROVE  granted'[j].time - granted'[i].time >= Window
    BY <1>6 DEF AtMostTwiceTheBudget
  <2>1. CASE j <= L
    <3>1. i \in 1..L /\ j \in 1..L
      BY <1>6, <2>1
    <3> QED
      BY <1>6, <3>1 DEF AtMostTwiceTheBudget
  <2>2. CASE j = L + 1
    <3>1. i \in 1..L /\ i <= L - r.accepted_in_window - MaxPerHour
      BY <1>1, <1>2, <1>6, <2>2 DEF BudgetState
    <3>2. granted[i].time + Window <= now
      <4>1. granted[i].time + Window <= r.window_started_at /\ r.window_started_at <= now
        BY <1>3, <3>1 DEF SpentBy
      <4>2. r.window_started_at \in Nat /\ granted[i].time \in Nat /\ now \in Nat
        BY <1>1, <1>6, <3>1 DEF BudgetState, TypeOK
      <4> QED
        BY <4>1, <4>2
    <3> QED
      BY <1>6, <2>2, <3>1, <3>2 DEF TypeOK
  <2> QED
    BY <1>6, <2>1, <2>2
<1> QED
  BY <1>5, <1>7, <1>8 DEF CircuitInv

-----------------------------------------------------------------------------
(* The debouncer                                                           *)

\* An incident the circuit refuses takes the slot of its service all the same.
LEMMA SlotTaken ==
  ASSUME TypeOK, SlotInv, NEW s \in Services,
         last_fired' = Fired(last_fired, s, now), UNCHANGED now
  PROVE  /\ \A q \in DOMAIN last_fired' : last_fired'[q] <= now'
         /\ s \in DOMAIN last_fired' /\ last_fired'[s] = now
         /\ \A q \in DOMAIN last_fired : q \in DOMAIN last_fired' /\ last_fired'[q] >= last_fired[q]
  BY DEF TypeOK, SlotInv, Fired

\* A refused incident adds no diagnosis, so the spacing of the diagnoses stands.
LEMMA SlotRefused ==
  ASSUME TypeOK, SlotInv, DiagnosesAreSpaced, NEW s \in Services,
         last_fired' = Fired(last_fired, s, now), UNCHANGED <<now, granted>>
  PROVE  (SlotInv /\ DiagnosesAreSpaced)'
<1>1. \A i \in 1..Len(granted) :
        /\ granted[i].service \in DOMAIN last_fired'
        /\ granted[i].time <= last_fired'[granted[i].service]
  <2> TAKE i \in 1..Len(granted)
  <2>1. /\ granted[i].service \in DOMAIN last_fired
        /\ granted[i].time <= last_fired[granted[i].service]
        /\ granted[i].time \in Nat
    BY GrantTypes DEF SlotInv, TypeOK
  <2>2. \A q \in DOMAIN last_fired : last_fired[q] \in Nat
    BY DEF TypeOK
  <2> QED
    BY <2>1, <2>2 DEF Fired, TypeOK, SlotInv
<1> QED
  BY <1>1, SlotTaken DEF SlotInv, DiagnosesAreSpaced

\* A granted diagnosis comes a DebounceWindow after the last of its service.
LEMMA SlotGranted ==
  ASSUME TypeOK, SlotInv, DiagnosesAreSpaced, NEW s \in Services,
         Fresh(last_fired, s, now),
         last_fired' = Fired(last_fired, s, now), UNCHANGED now,
         granted' = Append(granted, [time |-> now, service |-> s])
  PROVE  (SlotInv /\ DiagnosesAreSpaced)'
<1> DEFINE L == Len(granted)
<1>1. /\ L \in Nat /\ Len(granted') = L + 1
      /\ granted'[L + 1].time = now /\ granted'[L + 1].service = s
      /\ \A i \in 1..L : granted'[i] = granted[i] /\ granted[i].time \in Nat
  BY GrantTypes, GrantAppended DEF TypeOK
<1>2. \A i \in 1..L : /\ granted[i].service \in DOMAIN last_fired
                      /\ granted[i].time <= last_fired[granted[i].service]
                      /\ last_fired[granted[i].service] \in Nat
                      /\ last_fired[granted[i].service] <= now
  BY DEF SlotInv, TypeOK
<1>3. /\ DOMAIN last_fired' = DOMAIN last_fired \cup {s}
      /\ last_fired'[s] = now
      /\ \A q \in DOMAIN last_fired : q # s => last_fired'[q] = last_fired[q]
  BY DEF Fired
<1>4. SlotInv'
  <2>1. \A i \in 1..(L + 1) : /\ granted'[i].service \in DOMAIN last_fired'
                              /\ granted'[i].time <= last_fired'[granted'[i].service]
    <3> TAKE i \in 1..(L + 1)
    <3>1. CASE i = L + 1
      BY <1>1, <1>3, <3>1 DEF TypeOK
    <3>2. CASE i \in 1..L
      <4>1. granted[i].time <= now
        BY <1>1, <1>2, <3>2, SMTT(30) DEF TypeOK
      <4> QED
        BY <1>1, <1>2, <1>3, <3>2, <4>1
    <3> QED
      BY <1>1, <3>1, <3>2
  <2> QED
    BY <1>1, <2>1, SlotTaken DEF SlotInv
<1>5. DiagnosesAreSpaced'
  <2> SUFFICES ASSUME NEW i \in 1..(L + 1), NEW j \in 1..(L + 1), i < j,
                      granted'[i].service = granted'[j].service
               PROVE  granted'[j].time - granted'[i].time >= DebounceWindow
    BY <1>1 DEF DiagnosesAreSpaced
  <2>1. i \in 1..L
    BY <1>1
  <2>2. CASE j \in 1..L
    BY <1>1, <2>1, <2>2 DEF DiagnosesAreSpaced
  <2>3. CASE j = L + 1
    <3>1. granted[i].service = s /\ s \in DOMAIN last_fired
      BY <1>1, <1>2, <2>1, <2>3
    <3>2. now - last_fired[s] >= DebounceWindow
      BY <3>1 DEF Fresh
    <3> QED
      BY <1>1, <1>2, <2>1, <2>3, <3>1, <3>2 DEF TypeOK
  <2> QED
    BY <1>1, <2>2, <2>3
<1> QED
  BY <1>4, <1>5

-----------------------------------------------------------------------------
(* The invariant                                                           *)

\* A new process has granted nothing and has an empty window and empty slots.
LEMMA FreshProcess ==
  ASSUME TypeOK, granted' = <<>>, budget' = NewBudget(now),
         last_fired' = [s \in {} |-> 0], UNCHANGED now
  PROVE  (SpentInv /\ CircuitInv /\ SlotInv /\ AtMostTwiceTheBudget /\ DiagnosesAreSpaced)'
  BY DEF TypeOK, NewBudget, SpentInv, CircuitInv, SlotInv, AtMostTwiceTheBudget,
         DiagnosesAreSpaced

\* The consumer starts in the invariant.
LEMMA InitIInv == Init => IInv
<1> SUFFICES ASSUME Init PROVE IInv
  OBVIOUS
<1>1. TypeOK
  BY InitTypeOK
<1>2. SpentInv /\ CircuitInv /\ SlotInv /\ AtMostTwiceTheBudget /\ DiagnosesAreSpaced
  BY DEF Init, NewBudget, SpentInv, CircuitInv, SlotInv, AtMostTwiceTheBudget,
         DiagnosesAreSpaced
<1>3. HandlerInv /\ NoIncidentIsDropped
  BY DEF Init, HandlerInv, NoIncidentIsDropped, Messages
<1> QED
  BY <1>1, <1>2, <1>3 DEF IInv

\* The conjuncts about the guards: only two branches of the handler, a crash and
\* the clock touch what they speak of.
LEMMA StepGuards ==
  IInv /\ [Next]_vars =>
    (SpentInv /\ CircuitInv /\ SlotInv /\ AtMostTwiceTheBudget /\ DiagnosesAreSpaced)'
<1> SUFFICES ASSUME IInv, [Next]_vars
             PROVE  (SpentInv /\ CircuitInv /\ SlotInv /\ AtMostTwiceTheBudget
                       /\ DiagnosesAreSpaced)'
  OBVIOUS
<1> USE DEF IInv
<1>0. now \in Nat
  BY DEF TypeOK
<1>1. ASSUME UNCHANGED guards, now' \in {now, now + 1}
      PROVE  (SpentInv /\ CircuitInv /\ SlotInv /\ AtMostTwiceTheBudget
                /\ DiagnosesAreSpaced)'
  <2>1. now' \in Nat /\ now' >= now
    BY <1>0, <1>1
  <2> QED
    BY <1>1, <2>1, QuietStep
<1>2. CASE Crash
  BY <1>2, FreshProcess DEF Crash
<1>3. ASSUME NEW m \in Messages, SkipCircuitOpen(m) \/ Accept(m)
      PROVE  published[m].service \in Services /\ now' = now
  <2>1. \E next \in Stages : Take(m, next)
    BY <1>3 DEF SkipCircuitOpen, Accept, Stages
  <2> QED
    BY <2>1, TakeTypes
<1>4. ASSUME NEW m \in Messages, SkipCircuitOpen(m)
      PROVE  (SpentInv /\ CircuitInv /\ SlotInv /\ AtMostTwiceTheBudget
                /\ DiagnosesAreSpaced)'
  <2>1. /\ ~Allowed(budget, now) /\ budget' = Consumed(budget, now)
        /\ last_fired' = Fired(last_fired, published[m].service, now)
        /\ UNCHANGED granted
    BY <1>4 DEF SkipCircuitOpen
  <2>2. (SpentInv /\ CircuitInv /\ AtMostTwiceTheBudget)'
    BY <1>3, <1>4, <2>1, RefusedStep
  <2>3. (SlotInv /\ DiagnosesAreSpaced)'
    BY <1>3, <1>4, <2>1, SlotRefused
  <2> QED
    BY <2>2, <2>3
<1>5. ASSUME NEW m \in Messages, Accept(m)
      PROVE  (SpentInv /\ CircuitInv /\ SlotInv /\ AtMostTwiceTheBudget
                /\ DiagnosesAreSpaced)'
  <2>1. /\ Allowed(budget, now) /\ budget' = Consumed(budget, now)
        /\ Fresh(last_fired, published[m].service, now)
        /\ last_fired' = Fired(last_fired, published[m].service, now)
        /\ granted' = Append(granted, [time |-> now, service |-> published[m].service])
    BY <1>5 DEF Accept
  <2>2. (SpentInv /\ CircuitInv /\ AtMostTwiceTheBudget)'
    BY <1>3, <1>5, <2>1, GrantedStep
  <2>3. (SlotInv /\ DiagnosesAreSpaced)'
    BY <1>3, <1>5, <2>1, SlotGranted
  <2> QED
    BY <2>2, <2>3
<1>6. CASE Tick \/ UNCHANGED vars
  BY <1>1, <1>6 DEF Tick, vars
<1>7. CASE \/ \E incident \in Incidents : Publish(incident)
           \/ BrokerStep \/ LoseConnection \/ Connect \/ EndSession \/ DiagnoseReturns
           \/ DiagnoseTimedOut
           \/ \E kind \in {"ack", "nack"} : Reply(kind)
  BY <1>1, <1>7 DEF Publish, BrokerStep, Push, LoseConnection, Connect, EndSession,
     DiagnoseReturns, DiagnoseTimedOut, Finish, Reply
<1>8. CASE \E m \in Messages : Undecodable(m) \/ SkipLowSeverity(m) \/ SkipDebounced(m)
  BY <1>1, <1>8 DEF Undecodable, SkipLowSeverity, SkipDebounced, Take
<1> QED
  BY <1>2, <1>4, <1>5, <1>6, <1>7, <1>8 DEF Next, HandlerStep

\* The conjuncts about delivery: a message leaves the broker in Reply only, and
\* then the handler has run to its end on it.
LEMMA StepDelivery ==
  IInv /\ [Next]_vars => (HandlerInv /\ NoIncidentIsDropped)'
<1> SUFFICES ASSUME IInv, [Next]_vars PROVE (HandlerInv /\ NoIncidentIsDropped)'
  OBVIOUS
<1> USE DEF IInv, HandlerInv, NoIncidentIsDropped
<1>0. /\ Len(published) \in Nat /\ Len(published) <= MaxMessages
      /\ current \in 1..Len(published) \cup {NoMessage}
  BY DEF TypeOK
<1>1. ASSUME NEW incident \in Incidents, Publish(incident)
      PROVE  (HandlerInv /\ NoIncidentIsDropped)'
  <2>1. Len(published') = Len(published) + 1
    BY <1>1 DEF TypeOK, Publish
  <2> QED
    BY <1>0, <1>1, <2>1 DEF Publish, handler, Messages
<1>2. ASSUME NEW m \in Messages, Push(m) PROVE (HandlerInv /\ NoIncidentIsDropped)'
  BY <1>2 DEF Push, First
<1>3. CASE LoseConnection \/ Connect \/ EndSession \/ Tick \/ UNCHANGED vars
  BY <1>3 DEF LoseConnection, Connect, EndSession, Tick, vars, broker, handler
<1>4. CASE Crash
  BY <1>4 DEF Crash
<1>5. ASSUME NEW m \in Messages, NEW next \in Stages, Take(m, next), next # "idle"
      PROVE  (HandlerInv /\ NoIncidentIsDropped)'
  <2>1. m \in 1..Len(published)
    BY <1>5, TakeTypes
  <2>2. current' = m /\ current' # NoMessage /\ stage' = next
    BY <2>1, <1>5 DEF Take, NoMessage
  <2>3. handled \subseteq handled' /\ (next # "diagnosing" => m \in handled')
    BY <1>5 DEF Take
  <2> QED
    BY <1>5, <2>2, <2>3 DEF Take, broker, Stages
<1>6. ASSUME NEW m \in Messages, \/ Undecodable(m) \/ SkipLowSeverity(m) \/ SkipDebounced(m)
                                 \/ SkipCircuitOpen(m) \/ Accept(m)
      PROVE  (HandlerInv /\ NoIncidentIsDropped)'
  <2>1. \E next \in Stages : Take(m, next) /\ next # "idle"
    BY <1>6 DEF Undecodable, SkipLowSeverity, SkipDebounced, SkipCircuitOpen, Accept,
                Stages
  <2> QED
    BY <1>5, <2>1
<1>7. CASE Finish
  <2>1. current \in Messages /\ current # NoMessage
    BY <1>0, <1>7 DEF Finish, Messages, NoMessage
  <2>2. handled' = handled \cup {current}
    BY <1>7 DEF Finish
  <2> QED
    BY <1>7, <2>1, <2>2 DEF Finish, broker
<1>8. ASSUME NEW kind \in {"ack", "nack"}, Reply(kind)
      PROVE  (HandlerInv /\ NoIncidentIsDropped)'
  BY <1>8 DEF Reply
<1> QED
  BY <1>1, <1>2, <1>3, <1>4, <1>6, <1>7, <1>8
  DEF Next, BrokerStep, HandlerStep, DiagnoseReturns, DiagnoseTimedOut

\* The inductive invariant of the consumer.
THEOREM ConsumerInvariance == Spec => []IInv
<1>1. Init => IInv
  BY InitIInv
<1>2. IInv /\ [Next]_vars => IInv'
  BY StepTypeOK, StepGuards, StepDelivery DEF IInv
<1> QED
  BY <1>1, <1>2, PTL DEF Spec

-----------------------------------------------------------------------------
(* The theorems                                                            *)

\* Every variable of the consumer keeps its type, for every budget, window,
\* number of services and messages.
THEOREM ConsumerTypeCorrect == Spec => []TypeOK
<1>1. IInv => TypeOK
  BY DEF IInv
<1> QED
  BY <1>1, ConsumerInvariance, PTL

\* No incident leaves the broker unhandled, whatever number of connections is
\* lost and of processes crashes.
THEOREM NoIncidentIsDroppedHolds == Spec => []NoIncidentIsDropped
<1>1. IInv => NoIncidentIsDropped
  BY DEF IInv
<1> QED
  BY <1>1, ConsumerInvariance, PTL

\* Budget: in any Window, wherever it starts, at most 2 * MaxPerHour diagnoses.
THEOREM AtMostTwiceTheBudgetHolds == Spec => []AtMostTwiceTheBudget
<1>1. IInv => AtMostTwiceTheBudget
  BY DEF IInv
<1> QED
  BY <1>1, ConsumerInvariance, PTL

\* Budget: the circuit opens only when MaxPerHour diagnoses were really let
\* through in the Window before.
THEOREM CircuitOpensOnSpentBudgetHolds == Spec => []CircuitOpensOnSpentBudget
<1>1. IInv => CircuitOpensOnSpentBudget
  <2> SUFFICES ASSUME IInv, budget.open_until # 0
               PROVE  /\ Len(granted) >= MaxPerHour
                      /\ granted[Len(granted) - MaxPerHour + 1].time > budget.open_until - 2 * Window
    BY DEF CircuitOpensOnSpentBudget
  <2> DEFINE k == Len(granted) - MaxPerHour + 1
  <2>1. /\ budget.accepted_in_window = MaxPerHour
        /\ budget.open_until < budget.window_started_at + 2 * Window
    BY DEF IInv, CircuitInv
  <2>2. Len(granted) \in Nat /\ Len(granted) >= MaxPerHour /\ k \in 1..Len(granted)
    BY <2>1, GrantTypes DEF IInv, SpentInv, TypeOK
  <2>3. granted[k].time >= budget.window_started_at
    BY <2>1, <2>2 DEF IInv, SpentInv
  <2>4. granted[k].time \in Nat /\ budget.window_started_at \in Nat /\ budget.open_until \in Nat
    BY <2>2, GrantTypes DEF IInv, TypeOK, BudgetState
  <2> HIDE DEF k
  <2>5. granted[k].time > budget.open_until - 2 * Window
    BY <2>1, <2>3, <2>4
  <2> QED
    BY <2>2, <2>5 DEF k
<1> QED
  BY <1>1, ConsumerInvariance, PTL

\* Debouncer: two diagnoses of one service are a DebounceWindow apart, redelivered
\* incidents included.
THEOREM DiagnosesAreSpacedHolds == Spec => []DiagnosesAreSpaced
<1>1. IInv => DiagnosesAreSpaced
  BY DEF IInv
<1> QED
  BY <1>1, ConsumerInvariance, PTL

-----------------------------------------------------------------------------
(* The refinement of DurableQueue                                          *)

\* Where the kept messages are: on a live connection the handler and the stream hold
\* what the broker has pushed, which comes before what it still has; a connection that
\* is gone leaves the task with deliveries that are in the queue again.
ConnectionInv ==
  /\ buffer \subseteq (ready \cup unacked) \ {current}
  /\ current # NoMessage => current \in ready \cup unacked
  /\ session = "up" =>
       /\ unacked = buffer \cup ({current} \ {NoMessage})
       /\ \A m \in unacked, n \in ready : m < n
  /\ session # "up" => unacked = {}
  /\ session = "down" => buffer = {} /\ current = NoMessage

\* Nothing is skipped: what comes before a delivery is ahead of it, or handled.
OrderInv ==
  /\ \A m \in buffer : \A n \in 1..(m - 1) : n \in buffer \cup handled \cup {current}
  /\ current # NoMessage => \A n \in 1..(current - 1) : n \in handled

QueueInv == ConnectionInv /\ OrderInv

\* What the steps below use of the consumer's invariant.
LEMMA KeptOrHandled ==
  ASSUME IInv
  PROVE  /\ Len(published) \in Nat
         /\ ready \cup unacked \cup buffer \cup handled \subseteq 1..Len(published)
         /\ current \in 1..Len(published) \cup {0}
         /\ \A m \in 1..Len(published) : m \in ready \cup unacked \cup handled
         /\ stage = "idle" <=> current = 0
         /\ stage \in {"ack", "nack"} => current \in handled
BY DEF IInv, TypeOK, HandlerInv, NoIncidentIsDropped, Messages, NoMessage

\* A publication comes after all the others.
LEMMA PublishKeepsQueue ==
  ASSUME IInv, QueueInv, NEW incident \in Incidents, Publish(incident)
  PROVE  QueueInv' /\ Queue!Publish
<1> DEFINE N == Len(published)
<1>1. N \in Nat /\ Len(published') = N + 1 /\ N + 1 \notin 1..N
  BY DEF IInv, TypeOK, Publish
<1>2. /\ ready' = ready \cup {N + 1}
      /\ UNCHANGED <<unacked, session, buffer, current, handled>>
  BY DEF Publish, handler
<1>3. \A m \in unacked : m < N + 1
  BY KeptOrHandled
<1> HIDE DEF N
<1>4. ConnectionInv'
  BY <1>2, <1>3 DEF QueueInv, ConnectionInv
<1>5. OrderInv'
  BY <1>2 DEF QueueInv, OrderInv
<1>6. Queue!Publish
  BY <1>1, <1>2 DEF Queue!Publish, N
<1> QED
  BY <1>4, <1>5, <1>6 DEF QueueInv

\* The broker pushes in order.
LEMMA PushKeepsQueue ==
  ASSUME IInv, QueueInv, NEW m \in Messages, Push(m)
  PROVE  QueueInv' /\ UNCHANGED Queue!queueVars
<1>1. /\ session = "up" /\ m \in ready /\ \A n \in ready : m <= n
      /\ ready' = ready \ {m} /\ unacked' = unacked \cup {m} /\ buffer' = buffer \cup {m}
      /\ UNCHANGED <<published, session, current, handled>>
  BY DEF Push, First
<1>2. /\ unacked = buffer \cup ({current} \ {0})
      /\ \A k \in unacked, n \in ready : k < n
  BY <1>1 DEF QueueInv, ConnectionInv, NoMessage
<1>3. m \in 1..Len(published) /\ m \in Nat /\ ready \cup unacked \subseteq Nat
  BY <1>1, KeptOrHandled
<1>4. m \notin unacked /\ m # current
  BY <1>1, <1>2, <1>3
<1>5. ConnectionInv'
  BY <1>1, <1>2, <1>3, <1>4 DEF QueueInv, ConnectionInv, NoMessage
<1>6. ASSUME NEW n \in 1..(m - 1)
      PROVE  n \in buffer \cup handled \cup {current}
  <2>1. n \in 1..Len(published) /\ n \notin ready
    BY <1>1, <1>3, KeptOrHandled
  <2> QED
    BY <1>2, <2>1, KeptOrHandled
<1>7. OrderInv'
  BY <1>1, <1>6 DEF QueueInv, OrderInv
<1>8. UNCHANGED Queue!queueVars
  BY <1>1 DEF Queue!queueVars
<1> QED
  BY <1>5, <1>7, <1>8 DEF QueueInv

\* The connections come and go; a new process has nothing in hand.
LEMMA ConnectionKeepsQueue ==
  ASSUME IInv, QueueInv, LoseConnection \/ Connect \/ EndSession \/ Crash
  PROVE  QueueInv' /\ (Queue!LetGo \/ UNCHANGED Queue!queueVars)
<1> USE DEF QueueInv, ConnectionInv, OrderInv, NoMessage, Queue!queueVars
<1>1. CASE LoseConnection
  BY <1>1 DEF LoseConnection, handler
<1>2. CASE Connect
  BY <1>2 DEF Connect, handler, broker
<1>3. CASE EndSession
  <2>1. current = 0
    BY <1>3, KeptOrHandled DEF EndSession
  <2> QED
    BY <1>3, <2>1 DEF EndSession, broker
<1>4. CASE Crash
  <2>1. QueueInv'
    BY <1>4 DEF Crash
  <2>2. ready' \cup unacked' = ready \cup unacked
    BY <1>4 DEF Crash
  <2> QED
    BY <1>4, <2>1, <2>2 DEF Crash, Queue!LetGo
<1> QED
  BY <1>1, <1>2, <1>3, <1>4

\* The handler takes the first of the stream's deliveries.
LEMMA TakeKeepsQueue ==
  ASSUME IInv, QueueInv, NEW m \in Messages, NEW next, Take(m, next)
  PROVE  QueueInv' /\ Queue!Take(m) /\ m \in 1..Len(published)
<1>1. /\ m \in buffer /\ \A n \in buffer : m <= n
      /\ current = 0 /\ current' = m /\ buffer' = buffer \ {m}
      /\ handled' \in {handled, handled \cup {m}}
      /\ UNCHANGED <<published, ready, unacked, session>>
  BY KeptOrHandled DEF Take, First, broker
<1>2. m \in 1..Len(published) /\ m \in Nat /\ m # 0 /\ m \in ready \cup unacked
  BY <1>1, KeptOrHandled DEF QueueInv, ConnectionInv
<1>3. \A n \in 1..(m - 1) : n \in handled
  <2>1. \A n \in 1..(m - 1) : n \notin buffer /\ n # 0
    BY <1>1, <1>2
  <2> QED
    BY <1>1, <2>1 DEF QueueInv, OrderInv
<1>4. ConnectionInv'
  BY <1>1, <1>2 DEF QueueInv, ConnectionInv, NoMessage
<1>5. OrderInv'
  BY <1>1, <1>3 DEF QueueInv, OrderInv
<1>6. Queue!Take(m)
  BY <1>1, <1>2, <1>3 DEF Queue!Take
<1> QED
  BY <1>2, <1>4, <1>5, <1>6 DEF QueueInv

\* It comes to its end and settles what it has in hand, or no longer can.
LEMMA ReplyKeepsQueue ==
  ASSUME IInv, QueueInv, Finish \/ \E kind \in {"ack", "nack"} : Reply(kind)
  PROVE  QueueInv' /\ (Queue!Handle \/ Queue!Settle \/ Queue!LetGo)
<1>1. CASE Finish
  <2>1. /\ current # 0 /\ handled' = handled \cup {current}
        /\ UNCHANGED <<published, ready, unacked, session, buffer, current>>
    BY <1>1, KeptOrHandled DEF Finish, broker
  <2> QED
    BY <2>1 DEF QueueInv, ConnectionInv, OrderInv, Queue!Handle
<1>2. ASSUME NEW kind \in {"ack", "nack"}, Reply(kind)
      PROVE  QueueInv' /\ (Queue!Settle \/ Queue!LetGo)
  <2>1. /\ current # 0 /\ current \in handled /\ current' = 0
        /\ unacked' = unacked \ (IF session = "up" THEN {current} ELSE {})
        /\ UNCHANGED <<published, ready, session, buffer, handled>>
    BY <1>2, KeptOrHandled DEF Reply, NoMessage, guards
  <2>2. 0 \notin ready \cup unacked \cup buffer
    BY KeptOrHandled
  <2>3. OrderInv'
    BY <2>1 DEF QueueInv, OrderInv, NoMessage
  <2>4. CASE session = "up"
    <3>1. current \notin ready
      BY <2>1, <2>4, KeptOrHandled DEF QueueInv, ConnectionInv, NoMessage
    <3>2. ConnectionInv'
      BY <2>1, <2>2, <2>4 DEF QueueInv, ConnectionInv, NoMessage
    <3>3. ready' \cup unacked' = (ready \cup unacked) \ {current}
      BY <2>1, <2>4, <3>1
    <3> QED
      BY <2>1, <2>3, <3>2, <3>3 DEF QueueInv, Queue!Settle
  <2>5. CASE session # "up"
    <3>1. unacked' = unacked
      BY <2>1, <2>5
    <3>2. ConnectionInv'
      BY <2>1, <2>2, <2>5, <3>1 DEF QueueInv, ConnectionInv, NoMessage
    <3> QED
      BY <2>1, <2>3, <3>1, <3>2 DEF QueueInv, Queue!LetGo
  <2> QED
    BY <2>4, <2>5
<1> QED
  BY <1>1, <1>2

\* A step of the consumer keeps the invariant and is a step of the queue, or leaves the
\* queue alone.
LEMMA StepRefinesQueue ==
  IInv /\ QueueInv /\ [Next]_vars => QueueInv' /\ [Queue!Next]_(Queue!queueVars)
<1> SUFFICES ASSUME IInv, QueueInv, [Next]_vars
             PROVE  QueueInv' /\ (Queue!Next \/ UNCHANGED Queue!queueVars)
  OBVIOUS
<1> USE DEF Queue!Next
<1>1. CASE Tick \/ UNCHANGED vars
  <2>1. UNCHANGED <<published, ready, unacked, session, buffer, current, handled>>
    BY <1>1 DEF Tick, vars, broker, handler
  <2> QED
    BY <2>1 DEF QueueInv, ConnectionInv, OrderInv, Queue!queueVars
<1>2. CASE \E incident \in Incidents : Publish(incident)
  BY <1>2, PublishKeepsQueue
<1>3. CASE BrokerStep
  BY <1>3, PushKeepsQueue DEF BrokerStep
<1>4. CASE LoseConnection \/ Connect \/ EndSession \/ Crash
  BY <1>4, ConnectionKeepsQueue
<1>5. ASSUME NEW m \in Messages, NEW next, Take(m, next)
      PROVE  QueueInv' /\ Queue!Next
  BY <1>5, TakeKeepsQueue
<1>6. ASSUME NEW m \in Messages, \/ Undecodable(m) \/ SkipLowSeverity(m) \/ SkipDebounced(m)
                                 \/ SkipCircuitOpen(m) \/ Accept(m)
      PROVE  QueueInv' /\ Queue!Next
  BY <1>5, <1>6 DEF Undecodable, SkipLowSeverity, SkipDebounced, SkipCircuitOpen, Accept
<1>7. CASE Finish \/ \E kind \in {"ack", "nack"} : Reply(kind)
  BY <1>7, ReplyKeepsQueue
<1> QED
  BY <1>1, <1>2, <1>3, <1>4, <1>6, <1>7
  DEF Next, HandlerStep, DiagnoseReturns, DiagnoseTimedOut

\* Through any number of lost connections and crashes the consumer is the one hand of a
\* durable queue: at least once, first in order, never again once settled.
THEOREM ConsumerImplementsQueue == Spec => ImplementsQueue
<1>1. Init => QueueInv /\ Queue!Init
  BY DEF Init, QueueInv, ConnectionInv, OrderInv, NoMessage, Queue!Init
<1> QED
  BY <1>1, ConsumerInvariance, StepRefinesQueue, PTL DEF Spec, ImplementsQueue, Queue!Spec
=============================================================================
