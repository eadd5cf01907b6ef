--------------------------- MODULE ApprovalProofs ---------------------------
(***************************************************************************)
(* Proofs about Approval for every set of actions, users and requests and  *)
(* every time to live.                                                     *)
(*                                                                         *)
(* The safety properties are not inductive by themselves.  What carries    *)
(* them is IInv: who owns a decision (HandlerInv, OneDecision), what an    *)
(* entry's status says about the sends made for it (EntryInv), which       *)
(* statuses an id the sweeper has collected can still have (SweepInv), and *)
(* which events can be in its audit trail (AuditInv).                      *)
(***************************************************************************)
EXTENDS Approval, FiniteSetTheorems, TLAPS

ApproveStages == {"audit_approved", "calling", "sent", "resent",
                  "tool_called", "marked", "audit_executed"}

\* What the entry of an approved action says of the call made for it.
ResultInv(r) ==
  store[req[r].action].status = "executed" =>
    /\ req[r].outcome # "none"
    /\ store[req[r].action].outcome = req[r].outcome \/ req[r].stage = "marked"

\* The handler of a decision and the entry it decided agree.
HandlerInv ==
  \A r \in Requests :
    /\ req[r].stage = "idle" => req[r] = IdleRequest
    /\ req[r].action = None => req[r].stage \in {"idle", "done"}
    /\ req[r].stage \in ApproveStages => req[r].kind = "approve"
    /\ req[r].stage = "audit_rejected" => req[r].kind = "reject"
    /\ req[r].action # None =>
         LET a == req[r].action IN
         /\ req[r].kind \in {"approve", "reject"}
         /\ req[r].kind = "approve" => /\ store[a].status \in {"approved", "executed"}
                                       /\ store[a].user = req[r].user
                                       /\ ResultInv(r)
         /\ req[r].kind = "reject" => store[a].status \in {"rejected", "absent"}
         /\ req[r].stage \in ApproveStages \ {"marked", "audit_executed"}
              => store[a].status = "approved"
         /\ req[r].stage \in {"marked", "audit_executed"} => store[a].status = "executed"
         /\ req[r].stage \in {"audit_approved", "calling"} => sends[a] = 0
         /\ req[r].stage = "sent" => sends[a] = 1
         /\ req[r].stage = "resent" => sends[a] = 2
         /\ req[r].stage = "tool_called" => sends[a] > 0 /\ req[r].outcome # "none"

\* A decision belongs to one request.
OneDecision ==
  \A r1, r2 \in Requests :
    req[r1].action # None /\ req[r1].action = req[r2].action => r1 = r2

EntryInv ==
  \A a \in Actions :
    /\ sends[a] <= 2
    /\ store[a].status \in {"absent", "proposed", "rejected"} => sends[a] = 0
    /\ sends[a] > 0 => \E r \in Requests : req[r].action = a /\ req[r].kind = "approve"
    /\ store[a].status = "executed" => sends[a] > 0
    /\ store[a].status = "proposed" => \A r \in Requests : req[r].action # a
    /\ proposing[a] = "no" => /\ store[a] = Absent
                              /\ audit[a] = {}
                              /\ \A r \in Requests : req[r].action # a

\* An id in expired_ids can be confirmed no more: its expiry lies behind.
SweepInv ==
  /\ sweep.now_arg <= now
  /\ \A a \in sweep.todo \cup sweep.ids \cup sweep.out : proposing[a] # "no"
  /\ \A a \in sweep.ids : /\ store[a].status \in {"proposed", "rejected"}
                          /\ store[a].expires < sweep.now_arg
  /\ \A a \in sweep.out : store[a].status = "absent"

AuditInv ==
  \A a \in Actions :
    /\ audit[a] \cap {"approved", "executed"} # {}
         => store[a].status \in {"approved", "executed"}
    /\ audit[a] \cap {"rejected", "expired"} # {}
         => store[a].status \in {"rejected", "absent"}

IInv == TypeOK /\ HandlerInv /\ OneDecision /\ EntryInv /\ SweepInv /\ AuditInv

-----------------------------------------------------------------------------
(* Type correctness                                                        *)

\* Type correctness of the gate, initially: the store of serve() is empty.
LEMMA InitTypeOK == Init => TypeOK
BY ConstantsAssumption
   DEF Init, TypeOK, Absent, Entry, Status, Outcome, IdleRequest, Request,
       Stages, AwaitStages, Answers, Refusals, IdleSweep, Sweep

\* A verdict is a refusal that approval_error_response can answer, or granted.
LEMMA VerdictType ==
  ASSUME NEW kind, NEW a, NEW u
  PROVE  Verdict(kind, a, u) \in Refusals \cup {"granted"}
BY DEF Verdict, Refusals

\* What mark_executed and set_execution_metadata make of an entry are entries.
LEMMA ExecutedEntry ==
  ASSUME NEW e \in Entry, NEW o \in Outcome
  PROVE  /\ [e EXCEPT !.status = "executed"] \in Entry
         /\ [e EXCEPT !.outcome = o] \in Entry
BY DEF Entry, Status

\* Either of the two changes the entry of the handler's action and no other.
LEMMA MarkedStore ==
  ASSUME TypeOK, NEW r \in Requests, req[r].action \in Actions
  PROVE  /\ MarkExecuted(r) /\ store[req[r].action].status = "approved" =>
              /\ store'[req[r].action] = [store[req[r].action] EXCEPT !.status = "executed"]
              /\ \A b \in Actions \ {req[r].action} : store'[b] = store[b]
              /\ store' \in [Actions -> Entry]
         /\ MarkExecuted(r) /\ store[req[r].action].status # "approved" => store' = store
         /\ SetExecutionMetadata(r) /\ store[req[r].action].status # "absent" =>
              /\ store'[req[r].action] = [store[req[r].action] EXCEPT !.outcome = req[r].outcome]
              /\ \A b \in Actions \ {req[r].action} : store'[b] = store[b]
              /\ store' \in [Actions -> Entry]
<1> DEFINE a == req[r].action
<1>1. /\ store \in [Actions -> Entry] /\ store[a] \in Entry /\ req[r].outcome \in Outcome
  BY DEF TypeOK, Request
<1>2. /\ [store[a] EXCEPT !.status = "executed"] \in Entry
      /\ [store[a] EXCEPT !.outcome = req[r].outcome] \in Entry
  BY <1>1, ExecutedEntry
<1>3. ASSUME NEW e \in Entry, store' = [store EXCEPT ![a] = e]
      PROVE  /\ store'[a] = e /\ \A b \in Actions \ {a} : store'[b] = store[b]
             /\ store' \in [Actions -> Entry]
  BY <1>1, <1>3
<1>4. ASSUME MarkExecuted(r), store[a].status = "approved"
      PROVE  store' = [store EXCEPT ![a] = [store[a] EXCEPT !.status = "executed"]]
  BY <1>4 DEF MarkExecuted, SetStatus
<1>5. ASSUME SetExecutionMetadata(r), store[a].status # "absent"
      PROVE  store' = [store EXCEPT ![a] = [store[a] EXCEPT !.outcome = req[r].outcome]]
  BY <1>5 DEF SetExecutionMetadata
<1>6. MarkExecuted(r) /\ store[a].status # "approved" => store' = store
  BY DEF MarkExecuted
<1> QED
  BY <1>2, <1>3, <1>4, <1>5, <1>6

\* Type correctness of the gate, step by step.
LEMMA StepTypeOK == TypeOK /\ [Next]_vars => TypeOK'
<1> SUFFICES ASSUME TypeOK, [Next]_vars
             PROVE  TypeOK'
  OBVIOUS
<1> USE DEF TypeOK
<1>t. TTL \in Nat /\ None \notin Actions
  BY ConstantsAssumption
<1>1. CASE Tick
  BY <1>1 DEF Tick
<1>2. CASE ProposeStep
  <2>1. ASSUME NEW a \in Actions, AuditProposed(a)
        PROVE  TypeOK'
    BY <2>1 DEF AuditProposed, Publish, AuditKinds
  <2>2. ASSUME NEW a \in Actions, NEW u \in Users, Propose(a, u)
        PROVE  TypeOK'
    <3>1. store'[a] \in Entry
      BY <2>2, <1>t DEF Propose, Entry, Status, Outcome
    <3>2. QED
      BY <2>2, <3>1 DEF Propose
  <2>3. QED
    BY <1>2, <2>1, <2>2 DEF ProposeStep
<1>3. ASSUME NEW r \in Requests, DecideStep(r)
      PROVE  TypeOK'
  <2>0. IdleRequest \in Request
    BY DEF IdleRequest, Request, Stages, AwaitStages, Answers, Outcome
  <2>1. ASSUME Forbid(r) PROVE TypeOK'
    <3>1. [IdleRequest EXCEPT !.stage = "done", !.answer = "forbidden"] \in Request
      BY <2>0 DEF Request, Stages, Answers, Refusals
    <3>2. QED
      BY <2>1, <3>1 DEF Forbid, TurnAway
  <2>2. ASSUME NEW a \in Actions, NEW u \in Users, NEW kind \in {"approve", "reject"},
               Refuse(r, kind, a, u)
        PROVE  TypeOK'
    <3>1. Verdict(kind, a, u) \in Refusals
      BY <2>2, VerdictType DEF Refuse
    <3>2. [IdleRequest EXCEPT !.stage = "done", !.answer = Verdict(kind, a, u)]
            \in Request
      BY <2>0, <3>1 DEF Request, Stages, Answers
    <3>3. QED
      BY <2>2, <3>2 DEF Refuse, TurnAway
  <2>3. ASSUME NEW a \in Actions, NEW u \in Users, Confirm(r, a, u)
        PROVE  TypeOK'
    <3>1. [IdleRequest EXCEPT !.stage = "audit_approved", !.kind = "approve",
                              !.action = a, !.user = u] \in Request
      BY <2>0 DEF Request, Stages, AwaitStages
    <3>2. [store[a] EXCEPT !.status = "approved"] \in Entry
      BY DEF Entry, Status
    <3>3. QED
      BY <2>3, <3>1, <3>2 DEF Confirm, Decided, SetStatus
  <2>4. ASSUME NEW a \in Actions, NEW u \in Users, Reject(r, a, u)
        PROVE  TypeOK'
    <3>1. [IdleRequest EXCEPT !.stage = "audit_rejected", !.kind = "reject",
                              !.action = a, !.user = u] \in Request
      BY <2>0 DEF Request, Stages, AwaitStages
    <3>2. [store[a] EXCEPT !.status = "rejected"] \in Entry
      BY DEF Entry, Status
    <3>3. QED
      BY <2>4, <3>1, <3>2 DEF Reject, Decided, SetStatus
  <2>5. QED
    BY <1>3, <2>1, <2>2, <2>3, <2>4 DEF DecideStep
<1>4. ASSUME NEW r \in Requests, HandlerStep(r) \/ Drop(r)
      PROVE  TypeOK'
  <2> DEFINE a == req[r].action
  <2>0. req[r] \in Request
    OBVIOUS
  <2>1. /\ [req[r] EXCEPT !.stage = "calling"] \in Request
        /\ [req[r] EXCEPT !.stage = "sent"] \in Request
        /\ [req[r] EXCEPT !.stage = "resent"] \in Request
        /\ [req[r] EXCEPT !.stage = "marked"] \in Request
        /\ [req[r] EXCEPT !.stage = "audit_executed"] \in Request
    BY <2>0 DEF Request, Stages, AwaitStages
  <2>2. /\ [req[r] EXCEPT !.stage = "done", !.answer = "ok"] \in Request
        /\ [req[r] EXCEPT !.stage = "done", !.answer = "error"] \in Request
        /\ [req[r] EXCEPT !.stage = "done", !.answer = "dropped"] \in Request
    BY <2>0 DEF Request, Stages, Answers
  <2>3. ASSUME AuditApproved(r) \/ AuditRejected(r) \/ AuditExecuted(r)
        PROVE  TypeOK'
    <3>1. audit' \in [Actions -> SUBSET AuditKinds]
      BY <2>3 DEF AuditApproved, AuditRejected, AuditExecuted, Publish, AuditKinds
    <3>2. req' \in [Requests -> Request]
      BY <2>1, <2>2, <2>3 DEF AuditApproved, AuditRejected, AuditExecuted, GoTo,
         Answer
    <3>3. QED
      BY <2>3, <3>1, <3>2 DEF AuditApproved, AuditRejected, AuditExecuted
  <2>4. ASSUME CallRefused(r) \/ Drop(r)
        PROVE  TypeOK'
    BY <2>2, <2>4 DEF CallRefused, Drop, Answer
  <2>5. ASSUME Send(r) \/ Resend(r)
        PROVE  TypeOK'
    <3>1. sends' \in [Actions -> Nat]
      BY <2>5 DEF Send, Resend
    <3>2. req' \in [Requests -> Request]
      BY <2>1, <2>5 DEF Send, Resend, GoTo
    <3>3. QED
      BY <2>5, <3>1, <3>2 DEF Send, Resend
  <2>6. ASSUME NEW outcome \in {"ok", "failed"}, CallReturned(r, outcome)
        PROVE  TypeOK'
    <3>1. [req[r] EXCEPT !.stage = "tool_called", !.outcome = outcome] \in Request
      BY <2>0 DEF Request, Stages, AwaitStages, Outcome
    <3>2. QED
      BY <2>6, <3>1 DEF CallReturned
  <2>7. ASSUME MarkExecuted(r) \/ SetExecutionMetadata(r)
        PROVE  TypeOK'
    <3>1. req' \in [Requests -> Request]
      BY <2>1, <2>2, <2>7 DEF MarkExecuted, SetExecutionMetadata, GoTo, Answer
    <3>2. store' \in [Actions -> Entry]
      <4>1. CASE req[r].action \in Actions
        <5>1. CASE MarkExecuted(r)
          BY <4>1, <5>1, MarkedStore
        <5>2. CASE SetExecutionMetadata(r) /\ store[a].status # "absent"
          BY <4>1, <5>2, MarkedStore
        <5>3. CASE SetExecutionMetadata(r) /\ store[a].status = "absent"
          <6>1. store' = [store EXCEPT ![a] = [store[a] EXCEPT !.outcome = store[a].outcome]]
            BY <5>3 DEF SetExecutionMetadata
          <6>2. [store[a] EXCEPT !.outcome = store[a].outcome] = store[a]
            BY <4>1 DEF Entry
          <6> QED
            BY <6>1, <6>2
        <5> QED
          BY <2>7, <5>1, <5>2, <5>3
      <4>2. CASE req[r].action \notin Actions
        BY <2>7, <4>2 DEF MarkExecuted, SetStatus, SetExecutionMetadata
      <4> QED
        BY <4>1, <4>2
    <3>3. QED
      BY <2>7, <3>1, <3>2 DEF MarkExecuted, SetExecutionMetadata
  <2>8. QED
    BY <1>4, <2>3, <2>4, <2>5, <2>6, <2>7 DEF HandlerStep
<1>5. CASE SweepStep
  <2>1. CASE SweepStart
    BY <1>5, <2>1 DEF SweepStart, IdleSweep, Sweep
  <2>2. ASSUME NEW a \in Actions, SweepVisit(a)
        PROVE  TypeOK'
    BY <2>2 DEF SweepVisit, Sweep
  <2>3. ASSUME NEW a \in Actions, SweepRemove(a)
        PROVE  TypeOK'
    BY <2>3 DEF SweepRemove, Sweep, Absent, Entry, Status, Outcome
  <2>4. ASSUME NEW a \in Actions, AuditExpired(a)
        PROVE  TypeOK'
    BY <2>4 DEF AuditExpired, Sweep, Publish, AuditKinds
  <2>5. QED
    BY <1>5, <2>1, <2>2, <2>3, <2>4 DEF SweepStep
<1>6. CASE UNCHANGED vars
  BY <1>6 DEF vars
<1>7. QED
  BY <1>1, <1>2, <1>3, <1>4, <1>5, <1>6 DEF Next

\* Every variable keeps its type in every behaviour, for all constants.
THEOREM TypeCorrect == Spec => []TypeOK
BY InitTypeOK, StepTypeOK, PTL DEF Spec

-----------------------------------------------------------------------------
(* The invariant, one lemma per group of actions                           *)

\* The empty store satisfies the invariant.
LEMMA InitIInv == Init => IInv
<1> SUFFICES ASSUME Init
             PROVE  IInv
  OBVIOUS
<1>1. TypeOK
  BY InitTypeOK
<1>2. HandlerInv /\ OneDecision
  BY DEF Init, HandlerInv, ResultInv, OneDecision, IdleRequest, ApproveStages
<1>3. EntryInv /\ AuditInv
  BY ConstantsAssumption DEF Init, EntryInv, AuditInv, IdleRequest, Absent
<1>4. SweepInv
  BY DEF Init, SweepInv, IdleSweep
<1>5. QED
  BY <1>1, <1>2, <1>3, <1>4 DEF IInv

\* Time passing disturbs no conjunct: an approved entry was approved in the past.
LEMMA ClockIInv == IInv /\ Tick => IInv'
<1> SUFFICES ASSUME IInv, Tick
             PROVE  IInv'
  OBVIOUS
<1>1. TypeOK'
  BY StepTypeOK DEF IInv, Next
<1>2. HandlerInv' /\ OneDecision' /\ EntryInv' /\ AuditInv'
  BY DEF IInv, Tick, HandlerInv, ResultInv, OneDecision, EntryInv, AuditInv
<1>3. SweepInv'
  BY DEF IInv, Tick, SweepInv, TypeOK, Sweep
<1>4. QED
  BY <1>1, <1>2, <1>3 DEF IInv

\* A new proposal starts with no send, no decider and no audit event.
LEMMA ProposeIInv == IInv /\ ProposeStep => IInv'
<1> SUFFICES ASSUME IInv, ProposeStep
             PROVE  IInv'
  OBVIOUS
<1>t. TypeOK /\ TypeOK'
  BY StepTypeOK DEF IInv, Next
<1>1. ASSUME NEW a \in Actions, AuditProposed(a)
      PROVE  IInv'
  <2>1. HandlerInv' /\ OneDecision' /\ SweepInv'
    BY <1>1, <1>t DEF IInv, AuditProposed, HandlerInv, ResultInv, OneDecision, SweepInv, TypeOK, Sweep
  <2>2. EntryInv' /\ AuditInv'
    BY <1>1, <1>t DEF IInv, AuditProposed, Publish, EntryInv, AuditInv, TypeOK
  <2>3. QED
    BY <1>t, <2>1, <2>2 DEF IInv
<1>2. ASSUME NEW a \in Actions, NEW u \in Users, Propose(a, u)
      PROVE  IInv'
  <2>1. /\ store[a] = Absent /\ sends[a] = 0 /\ audit[a] = {}
        /\ \A r \in Requests : req[r].action # a
        /\ a \notin sweep.todo \cup sweep.ids \cup sweep.out
    BY <1>2, <1>t DEF IInv, Propose, EntryInv, SweepInv, Absent, TypeOK, Sweep
  <2>2. /\ store'[a].status = "proposed" /\ proposing'[a] = "auditing"
        /\ \A b \in Actions \ {a} : store'[b] = store[b] /\ proposing'[b] = proposing[b]
        /\ UNCHANGED <<now, req, sweep, sends, audit>>
    BY <1>2, <1>t DEF Propose, TypeOK
  <2>3. HandlerInv' /\ OneDecision'
    BY <1>t, <2>1, <2>2 DEF IInv, HandlerInv, ResultInv, OneDecision, TypeOK, Request
  <2>4. EntryInv' /\ AuditInv'
    BY <1>t, <2>1, <2>2 DEF IInv, EntryInv, AuditInv, TypeOK
  <2>5. SweepInv'
    BY <1>t, <2>1, <2>2 DEF IInv, SweepInv, TypeOK, Sweep
  <2>6. QED
    BY <1>t, <2>3, <2>4, <2>5 DEF IInv
<1>3. QED
  BY <1>1, <1>2 DEF ProposeStep

\* A decision makes its request the one decider and stops all others on that id.
LEMMA DecideIInv ==
  ASSUME NEW r \in Requests, IInv, DecideStep(r)
  PROVE  IInv'
<1>t. TypeOK /\ TypeOK'
  BY StepTypeOK DEF IInv, Next
<1>i. req[r].stage = "idle" => req[r].action = None
  BY DEF IInv, HandlerInv, IdleRequest
<1>1. ASSUME NEW w \in Refusals, req[r].stage = "idle", TurnAway(r, w),
             UNCHANGED <<now, store, proposing, sweep, sends, audit>>
      PROVE  IInv'
  <2>1. /\ req'[r].stage = "done" /\ req'[r].action = None /\ req'[r].kind = "none"
        /\ \A q \in Requests \ {r} : req'[q] = req[q]
    BY <1>1, <1>t DEF TurnAway, IdleRequest, TypeOK
  <2>2. HandlerInv' /\ OneDecision'
    BY <1>1, <2>1 DEF IInv, HandlerInv, ResultInv, OneDecision, ApproveStages
  <2>3. EntryInv' /\ AuditInv' /\ SweepInv'
    BY <1>1, <1>t, <1>i, <2>1, ConstantsAssumption
       DEF IInv, EntryInv, AuditInv, SweepInv
  <2>4. QED
    BY <1>t, <2>2, <2>3 DEF IInv
<1>2. ASSUME NEW a \in Actions, NEW u \in Users, Confirm(r, a, u)
      PROVE  IInv'
  <2>1. /\ store[a].status = "proposed" /\ store[a].user = u
        /\ now < store[a].expires
        /\ req[r].stage = "idle" /\ a # None
        /\ UNCHANGED <<now, proposing, sweep, sends, audit>>
    BY <1>2, <1>t, ConstantsAssumption DEF Confirm, Verdict, TypeOK, Entry
  <2>2. /\ sends[a] = 0 /\ a \notin sweep.out /\ proposing[a] # "no"
        /\ \A q \in Requests : req[q].action # a
        /\ audit[a] \cap {"approved", "executed"} = {}
        /\ audit[a] \cap {"rejected", "expired"} = {}
    BY <2>1 DEF IInv, EntryInv, AuditInv, SweepInv, Absent
  <2>3. a \notin sweep.ids
    BY <1>t, <2>1 DEF IInv, SweepInv, TypeOK, Sweep, Entry
  <2>4. /\ req'[r].stage = "audit_approved" /\ req'[r].action = a
        /\ req'[r].kind = "approve" /\ req'[r].user = u
        /\ \A q \in Requests \ {r} : req'[q] = req[q]
    BY <1>2, <1>t DEF Confirm, Decided, IdleRequest, TypeOK
  <2>5. /\ store'[a].status = "approved" /\ store'[a].user = u
        /\ \A b \in Actions \ {a} : store'[b] = store[b]
    BY <1>2, <1>t, <2>1 DEF Confirm, SetStatus, TypeOK, Entry
  <2>6. HandlerInv'
    BY <1>t, <2>1, <2>2, <2>4, <2>5 DEF IInv, HandlerInv, ResultInv, ApproveStages, TypeOK, Request
  <2>7. OneDecision'
    BY <2>2, <2>4 DEF IInv, OneDecision
  <2>8. EntryInv' /\ AuditInv'
    BY <1>t, <1>i, <2>1, <2>2, <2>4, <2>5, ConstantsAssumption DEF IInv, EntryInv, AuditInv
  <2>9. SweepInv'
    BY <1>t, <2>1, <2>2, <2>3, <2>5 DEF IInv, SweepInv, TypeOK, Sweep
  <2>10. QED
    BY <1>t, <2>6, <2>7, <2>8, <2>9 DEF IInv
<1>3. ASSUME NEW a \in Actions, NEW u \in Users, Reject(r, a, u)
      PROVE  IInv'
  <2>1. /\ store[a].status = "proposed" /\ store[a].user = u
        /\ req[r].stage = "idle" /\ a # None
        /\ UNCHANGED <<now, proposing, sweep, sends, audit>>
    BY <1>3, <1>t, ConstantsAssumption DEF Reject, Verdict, TypeOK, Entry
  <2>2. /\ sends[a] = 0 /\ a \notin sweep.out /\ proposing[a] # "no"
        /\ \A q \in Requests : req[q].action # a
        /\ audit[a] \cap {"approved", "executed"} = {}
        /\ audit[a] \cap {"rejected", "expired"} = {}
    BY <2>1 DEF IInv, EntryInv, AuditInv, SweepInv, Absent
  <2>4. /\ req'[r].stage = "audit_rejected" /\ req'[r].action = a
        /\ req'[r].kind = "reject" /\ req'[r].user = u
        /\ \A q \in Requests \ {r} : req'[q] = req[q]
    BY <1>3, <1>t DEF Reject, Decided, IdleRequest, TypeOK
  <2>5. /\ store'[a].status = "rejected" /\ store'[a].expires = store[a].expires
        /\ \A b \in Actions \ {a} : store'[b] = store[b]
    BY <1>3, <1>t, <2>1 DEF Reject, SetStatus, TypeOK, Entry
  <2>6. HandlerInv'
    BY <1>t, <2>1, <2>2, <2>4, <2>5 DEF IInv, HandlerInv, ResultInv, ApproveStages, TypeOK, Request
  <2>7. OneDecision'
    BY <2>2, <2>4 DEF IInv, OneDecision
  <2>8. EntryInv' /\ AuditInv'
    BY <1>t, <1>i, <2>1, <2>2, <2>4, <2>5, ConstantsAssumption DEF IInv, EntryInv, AuditInv
  <2>9. SweepInv'
    BY <1>t, <2>1, <2>2, <2>5 DEF IInv, SweepInv, TypeOK, Sweep
  <2>10. QED
    BY <1>t, <2>6, <2>7, <2>8, <2>9 DEF IInv
<1>4. ASSUME Forbid(r)
      PROVE  IInv'
  BY <1>1, <1>4 DEF Forbid, Refusals
<1>5. ASSUME NEW a \in Actions, NEW u \in Users, NEW kind \in {"approve", "reject"},
             Refuse(r, kind, a, u)
      PROVE  IInv'
  <2>1. Verdict(kind, a, u) \in Refusals
    BY <1>5, VerdictType DEF Refuse
  <2>2. QED
    BY <1>1, <1>5, <2>1 DEF Refuse
<1>6. QED
  BY <1>2, <1>3, <1>4, <1>5 DEF DecideStep

\* A handler that has decided keeps its action, and no other has it.
LEMMA HandlerIInv ==
  ASSUME NEW r \in Requests, IInv, HandlerStep(r) \/ Drop(r)
  PROVE  IInv'
<1> DEFINE a == req[r].action
<1> DEFINE SameDecision(q) == /\ req'[q].action = req[q].action
                              /\ req'[q].kind = req[q].kind
                              /\ req'[q].user = req[q].user
                              /\ req'[q].outcome = req[q].outcome
<1>t. TypeOK /\ TypeOK'
  BY StepTypeOK DEF IInv, Next
<1>a. ASSUME req[r].stage \in AwaitStages
      PROVE  a \in Actions /\ a # None
  BY <1>t, <1>a, ConstantsAssumption
     DEF IInv, HandlerInv, AwaitStages, TypeOK, Request
<1>1. ASSUME AuditApproved(r)
      PROVE  IInv'
  <2>1. /\ req[r].stage = "audit_approved" /\ a \in Actions /\ a # None
        /\ UNCHANGED <<now, store, proposing, sweep, sends>>
    BY <1>1, <1>a DEF AuditApproved, AwaitStages
  <2>2. /\ req'[r].stage = "calling"
        /\ \A q \in Requests \ {r} : req'[q] = req[q]
        /\ \A q \in Requests : SameDecision(q)
    BY <1>1, <1>t DEF AuditApproved, GoTo, TypeOK, Request
  <2>3. store[a].status = "approved"
    BY <2>1 DEF IInv, HandlerInv, ApproveStages
  <2>4. HandlerInv' /\ OneDecision'
    BY <1>t, <2>1, <2>2 DEF IInv, HandlerInv, ResultInv, OneDecision, ApproveStages,
       TypeOK, Request
  <2>5. /\ audit'[a] \subseteq audit[a] \cup {"approved"}
        /\ \A b \in Actions \ {a} : audit'[b] = audit[b]
    BY <1>1, <1>t, <2>1 DEF AuditApproved, Publish, TypeOK
  <2>6. EntryInv'
    BY <1>t, <2>1, <2>2, <2>5 DEF IInv, EntryInv
  <2>7. AuditInv'
    BY <1>t, <2>1, <2>3, <2>5 DEF IInv, AuditInv
  <2>8. SweepInv'
    BY <2>1 DEF IInv, SweepInv
  <2>9. QED
    BY <1>t, <2>4, <2>6, <2>7, <2>8 DEF IInv
<1>2. ASSUME AuditRejected(r)
      PROVE  IInv'
  <2>1. /\ req[r].stage = "audit_rejected" /\ a \in Actions /\ a # None
        /\ UNCHANGED <<now, store, proposing, sweep, sends>>
    BY <1>2, <1>a DEF AuditRejected, AwaitStages
  <2>2. /\ req'[r].stage = "done"
        /\ \A q \in Requests \ {r} : req'[q] = req[q]
        /\ \A q \in Requests : SameDecision(q)
    BY <1>2, <1>t DEF AuditRejected, Answer, TypeOK, Request
  <2>3. store[a].status \in {"rejected", "absent"}
    BY <2>1 DEF IInv, HandlerInv
  <2>4. HandlerInv' /\ OneDecision'
    BY <1>t, <2>1, <2>2 DEF IInv, HandlerInv, ResultInv, OneDecision, ApproveStages,
       TypeOK, Request
  <2>5. /\ audit'[a] \subseteq audit[a] \cup {"rejected"}
        /\ \A b \in Actions \ {a} : audit'[b] = audit[b]
    BY <1>2, <1>t, <2>1 DEF AuditRejected, Publish, TypeOK
  <2>6. EntryInv'
    BY <1>t, <2>1, <2>2, <2>5 DEF IInv, EntryInv
  <2>7. AuditInv'
    BY <1>t, <2>1, <2>3, <2>5 DEF IInv, AuditInv
  <2>8. SweepInv'
    BY <2>1 DEF IInv, SweepInv
  <2>9. QED
    BY <1>t, <2>4, <2>6, <2>7, <2>8 DEF IInv
<1>3. ASSUME AuditExecuted(r)
      PROVE  IInv'
  <2>1. /\ req[r].stage = "audit_executed" /\ a \in Actions /\ a # None
        /\ UNCHANGED <<now, store, proposing, sweep, sends>>
    BY <1>3, <1>a DEF AuditExecuted, AwaitStages
  <2>2. /\ req'[r].stage = "done"
        /\ \A q \in Requests \ {r} : req'[q] = req[q]
        /\ \A q \in Requests : SameDecision(q)
    BY <1>3, <1>t DEF AuditExecuted, Answer, TypeOK, Request
  <2>3. store[a].status \in {"approved", "executed"}
    BY <2>1 DEF IInv, HandlerInv, ApproveStages
  <2>4. HandlerInv' /\ OneDecision'
    BY <1>t, <2>1, <2>2 DEF IInv, HandlerInv, ResultInv, OneDecision, ApproveStages,
       TypeOK, Request
  <2>5. /\ audit'[a] \subseteq audit[a] \cup {"executed"}
        /\ \A b \in Actions \ {a} : audit'[b] = audit[b]
    BY <1>3, <1>t, <2>1 DEF AuditExecuted, Publish, TypeOK
  <2>6. EntryInv'
    BY <1>t, <2>1, <2>2, <2>5 DEF IInv, EntryInv
  <2>7. AuditInv'
    BY <1>t, <2>1, <2>3, <2>5 DEF IInv, AuditInv
  <2>8. SweepInv'
    BY <2>1 DEF IInv, SweepInv
  <2>9. QED
    BY <1>t, <2>4, <2>6, <2>7, <2>8 DEF IInv
<1>4. ASSUME CallRefused(r) \/ Drop(r)
      PROVE  IInv'
  <2>1. /\ req[r].stage \in AwaitStages /\ a \in Actions /\ a # None
        /\ UNCHANGED <<now, store, proposing, sweep, sends, audit>>
    BY <1>4, <1>a DEF CallRefused, Drop, AwaitStages
  <2>2. /\ req'[r].stage = "done"
        /\ \A q \in Requests \ {r} : req'[q] = req[q]
        /\ \A q \in Requests : SameDecision(q)
    <3>1. PICK w \in Answers :
               req' = [req EXCEPT ![r] = [@ EXCEPT !.stage = "done", !.answer = w]]
      BY <1>4 DEF CallRefused, Drop, Answer, Answers
    <3>2. req[r] \in Request
      BY <1>t DEF TypeOK
    <3>3. QED
      BY <1>t, <3>1, <3>2 DEF TypeOK, Request
  <2>3. HandlerInv' /\ OneDecision'
    BY <1>t, <2>1, <2>2 DEF IInv, HandlerInv, ResultInv, OneDecision, ApproveStages, AwaitStages,
       TypeOK, Request
  <2>4. EntryInv' /\ AuditInv'
    BY <1>t, <2>1, <2>2 DEF IInv, EntryInv, AuditInv
  <2>5. SweepInv'
    BY <2>1 DEF IInv, SweepInv
  <2>6. QED
    BY <1>t, <2>3, <2>4, <2>5 DEF IInv
<1>5. ASSUME Send(r) \/ Resend(r)
      PROVE  IInv'
  <2>1. /\ req[r].stage \in {"calling", "sent"} /\ a \in Actions /\ a # None
        /\ UNCHANGED <<now, store, proposing, sweep, audit>>
    BY <1>5, <1>a DEF Send, Resend, AwaitStages
  <2>2. /\ store[a].status = "approved" /\ req[r].kind = "approve"
        /\ req[r].stage = "calling" => sends[a] = 0
        /\ req[r].stage = "sent" => sends[a] = 1
    BY <2>1 DEF IInv, HandlerInv, ApproveStages
  <2>3. /\ sends'[a] = sends[a] + 1
        /\ \A b \in Actions \ {a} : sends'[b] = sends[b]
    BY <1>5, <1>t, <2>1 DEF Send, Resend, TypeOK
  <2>4. /\ req'[r].stage = IF req[r].stage = "calling" THEN "sent" ELSE "resent"
        /\ req'[r].action = a /\ req'[r].kind = "approve" /\ req'[r].user = req[r].user
        /\ \A q \in Requests \ {r} : req'[q] = req[q]
    BY <1>5, <1>t, <2>2 DEF Send, Resend, GoTo, TypeOK, Request
  <2>5. \A q \in Requests \ {r} : req[q].action # a
    BY <2>1 DEF IInv, OneDecision
  <2>6. HandlerInv'
    <3>1. ASSUME NEW q \in Requests \ {r}, req[q].action # None
          PROVE  sends'[req[q].action] = sends[req[q].action]
      BY <1>t, <2>3, <2>5, <3>1 DEF TypeOK, Request
    <3>2. QED
      BY <1>t, <2>1, <2>2, <2>3, <2>4, <3>1
         DEF IInv, HandlerInv, ResultInv, ApproveStages, TypeOK
  <2>7. OneDecision'
    BY <2>4 DEF IInv, OneDecision
  <2>8. EntryInv' /\ AuditInv'
    BY <1>t, <2>1, <2>2, <2>3, <2>4 DEF IInv, EntryInv, AuditInv, TypeOK, Absent
  <2>9. SweepInv'
    BY <2>1 DEF IInv, SweepInv
  <2>10. QED
    BY <1>t, <2>6, <2>7, <2>8, <2>9 DEF IInv
<1>6. ASSUME NEW outcome \in {"ok", "failed"}, CallReturned(r, outcome)
      PROVE  IInv'
  <2>1. /\ req[r].stage \in {"sent", "resent"} /\ a \in Actions /\ a # None
        /\ UNCHANGED <<now, store, proposing, sweep, sends, audit>>
    BY <1>6, <1>a DEF CallReturned, AwaitStages
  <2>2. store[a].status = "approved" /\ sends[a] > 0 /\ req[r].kind = "approve"
    BY <2>1 DEF IInv, HandlerInv, ApproveStages
  <2>3. /\ req'[r].stage = "tool_called" /\ req'[r].action = a
        /\ req'[r].kind = "approve" /\ req'[r].user = req[r].user
        /\ req'[r].outcome # "none"
        /\ \A q \in Requests \ {r} : req'[q] = req[q]
    BY <1>6, <1>t, <2>2 DEF CallReturned, TypeOK, Request
  <2>4. HandlerInv' /\ OneDecision'
    BY <1>t, <2>1, <2>2, <2>3 DEF IInv, HandlerInv, ResultInv, OneDecision, ApproveStages, TypeOK
  <2>5. EntryInv' /\ AuditInv' /\ SweepInv'
    BY <1>t, <2>1, <2>2, <2>3 DEF IInv, EntryInv, AuditInv, SweepInv, TypeOK
  <2>6. QED
    BY <1>t, <2>4, <2>5 DEF IInv
<1>7. ASSUME MarkExecuted(r)
      PROVE  IInv'
  <2>1. /\ req[r].stage = "tool_called" /\ a \in Actions /\ a # None
        /\ UNCHANGED <<now, proposing, sweep, sends, audit>>
    BY <1>7, <1>a DEF MarkExecuted, AwaitStages
  <2>2. /\ store[a].status = "approved" /\ sends[a] > 0
        /\ req[r].kind = "approve" /\ req[r].outcome # "none"
        /\ store[a].user = req[r].user
    BY <2>1 DEF IInv, HandlerInv, ApproveStages
  <2>3. /\ store'[a].status = "executed" /\ store'[a].user = store[a].user
        /\ \A b \in Actions \ {a} : store'[b] = store[b]
    <3>1. store[a] \in Entry
      BY <1>t, <2>1 DEF TypeOK
    <3> QED
      BY <1>t, <1>7, <2>1, <2>2, <3>1, MarkedStore DEF Entry
  <2>4. /\ req'[r].stage = "marked" /\ req'[r].action = a /\ req'[r].outcome = req[r].outcome
        /\ req'[r].kind = "approve" /\ req'[r].user = req[r].user
        /\ \A q \in Requests \ {r} : req'[q] = req[q]
    BY <1>7, <1>t, <2>1, <2>2 DEF MarkExecuted, GoTo, TypeOK, Request
  <2>5. \A q \in Requests \ {r} : req[q].action # a
    BY <2>1 DEF IInv, OneDecision
  <2>6. HandlerInv'
    <3>1. ASSUME NEW q \in Requests \ {r}, req[q].action # None
          PROVE  store'[req[q].action] = store[req[q].action]
      BY <1>t, <2>3, <2>5, <3>1 DEF TypeOK, Request
    <3>2. QED
      BY <1>t, <2>1, <2>2, <2>3, <2>4, <3>1
         DEF IInv, HandlerInv, ResultInv, ApproveStages, TypeOK
  <2>7. OneDecision'
    BY <2>4 DEF IInv, OneDecision
  <2>8. EntryInv' /\ AuditInv'
    BY <1>t, <2>1, <2>2, <2>3, <2>4 DEF IInv, EntryInv, AuditInv, TypeOK, Absent
  <2>9. SweepInv'
    BY <1>t, <2>1, <2>2, <2>3 DEF IInv, SweepInv, TypeOK, Sweep
  <2>10. QED
    BY <1>t, <2>6, <2>7, <2>8, <2>9 DEF IInv
<1>8. ASSUME SetExecutionMetadata(r)
      PROVE  IInv'
  <2>1. /\ req[r].stage = "marked" /\ a \in Actions /\ a # None
        /\ UNCHANGED <<now, proposing, sweep, sends, audit>>
    <3>1. req[r].stage = "marked" /\ a # None
      BY <1>8 DEF SetExecutionMetadata, IInv, HandlerInv
    <3> QED
      BY <1>8, <1>t, <3>1 DEF SetExecutionMetadata, TypeOK, Request
  <2>2. /\ store[a].status = "executed" /\ sends[a] > 0
        /\ req[r].kind = "approve" /\ req[r].outcome # "none"
        /\ store[a].user = req[r].user
    BY <2>1 DEF IInv, HandlerInv, ResultInv, EntryInv, ApproveStages
  <2>3. /\ store'[a].status = "executed" /\ store'[a].user = store[a].user
        /\ store'[a].outcome = req[r].outcome
        /\ \A b \in Actions \ {a} : store'[b] = store[b]
    <3>1. store[a] \in Entry
      BY <1>t, <2>1 DEF TypeOK
    <3> QED
      BY <1>t, <1>8, <2>1, <2>2, <3>1, MarkedStore DEF Entry
  <2>4. /\ req'[r].stage = "audit_executed" /\ req'[r].action = a /\ req'[r].outcome = req[r].outcome
        /\ req'[r].kind = "approve" /\ req'[r].user = req[r].user
        /\ \A q \in Requests \ {r} : req'[q] = req[q]
    BY <1>8, <1>t, <2>1, <2>2 DEF SetExecutionMetadata, GoTo, TypeOK, Request
  <2>5. \A q \in Requests \ {r} : req[q].action # a
    BY <2>1 DEF IInv, OneDecision
  <2>6. HandlerInv'
    <3>1. ASSUME NEW q \in Requests \ {r}, req[q].action # None
          PROVE  store'[req[q].action] = store[req[q].action]
      BY <1>t, <2>3, <2>5, <3>1 DEF TypeOK, Request
    <3>2. QED
      BY <1>t, <2>1, <2>2, <2>3, <2>4, <3>1
         DEF IInv, HandlerInv, ResultInv, ApproveStages, TypeOK
  <2>7. OneDecision'
    BY <2>4 DEF IInv, OneDecision
  <2>8. EntryInv' /\ AuditInv'
    BY <1>t, <2>1, <2>2, <2>3, <2>4 DEF IInv, EntryInv, AuditInv, TypeOK, Absent
  <2>9. SweepInv'
    BY <1>t, <2>1, <2>2, <2>3 DEF IInv, SweepInv, TypeOK, Sweep
  <2>10. QED
    BY <1>t, <2>6, <2>7, <2>8, <2>9 DEF IInv
<1>9. QED
  BY <1>1, <1>2, <1>3, <1>4, <1>5, <1>6, <1>7, <1>8 DEF HandlerStep

\* The sweeper works on ids that were expired and undecided at now_arg, and no
\* confirm can have been granted on them since.
LEMMA SweepIInv == IInv /\ SweepStep => IInv'
<1> SUFFICES ASSUME IInv, SweepStep
             PROVE  IInv'
  OBVIOUS
<1>t. TypeOK /\ TypeOK'
  BY StepTypeOK DEF IInv, Next
<1>1. ASSUME SweepStart
      PROVE  IInv'
  <2>1. HandlerInv' /\ OneDecision' /\ EntryInv' /\ AuditInv'
    BY <1>1 DEF IInv, SweepStart, HandlerInv, ResultInv, OneDecision, EntryInv, AuditInv
  <2>2. SweepInv'
    BY <1>1, <1>t DEF IInv, SweepStart, IdleSweep, SweepInv, EntryInv, Absent, TypeOK
  <2>3. QED
    BY <1>t, <2>1, <2>2 DEF IInv
<1>2. ASSUME NEW a \in Actions, SweepVisit(a)
      PROVE  IInv'
  <2>1. HandlerInv' /\ OneDecision' /\ EntryInv' /\ AuditInv'
    BY <1>2 DEF IInv, SweepVisit, HandlerInv, ResultInv, OneDecision, EntryInv, AuditInv
  <2>2. SweepInv'
    BY <1>2, <1>t DEF IInv, SweepVisit, Expired, SweepInv, TypeOK, Sweep
  <2>3. QED
    BY <1>t, <2>1, <2>2 DEF IInv
<1>3. ASSUME NEW a \in Actions, SweepRemove(a)
      PROVE  IInv'
  <2>1. /\ store[a].status \in {"proposed", "rejected"} /\ proposing[a] # "no"
        /\ a \in sweep.ids
        /\ UNCHANGED <<now, proposing, req, sends, audit>>
    BY <1>3, <1>t DEF IInv, SweepRemove, SweepInv, TypeOK, Sweep
  <2>2. /\ store'[a] = Absent
        /\ \A b \in Actions \ {a} : store'[b] = store[b]
    BY <1>3, <1>t DEF SweepRemove, TypeOK
  <2>3. /\ sends[a] = 0
        /\ \A r \in Requests : req[r].action = a => req[r].kind = "reject"
        /\ audit[a] \cap {"approved", "executed"} = {}
    <3>1. a # None
      BY ConstantsAssumption
    <3>2. QED
      BY <2>1, <3>1 DEF IInv, EntryInv, HandlerInv, AuditInv
  <2>4. HandlerInv'
    BY <1>t, <2>1, <2>2, <2>3 DEF IInv, HandlerInv, ResultInv, Absent, ApproveStages, TypeOK, Request
  <2>5. OneDecision'
    BY <2>1 DEF IInv, OneDecision
  <2>6. EntryInv' /\ AuditInv'
    BY <1>t, <2>1, <2>2, <2>3 DEF IInv, EntryInv, AuditInv, Absent, TypeOK
  <2>7. SweepInv'
    BY <1>3, <1>t, <2>1, <2>2 DEF IInv, SweepRemove, SweepInv, Absent, TypeOK, Sweep
  <2>8. QED
    BY <1>t, <2>4, <2>5, <2>6, <2>7 DEF IInv
<1>4. ASSUME NEW a \in Actions, AuditExpired(a)
      PROVE  IInv'
  <2>1. store[a].status = "absent" /\ proposing[a] # "no"
    BY <1>4 DEF IInv, AuditExpired, SweepInv
  <2>2. HandlerInv' /\ OneDecision'
    BY <1>4 DEF IInv, AuditExpired, HandlerInv, ResultInv, OneDecision
  <2>3. EntryInv' /\ AuditInv'
    BY <1>4, <1>t, <2>1 DEF IInv, AuditExpired, Publish, EntryInv, AuditInv, TypeOK
  <2>4. SweepInv'
    BY <1>4, <1>t DEF IInv, AuditExpired, SweepInv, TypeOK, Sweep
  <2>5. QED
    BY <1>t, <2>2, <2>3, <2>4 DEF IInv
<1>5. QED
  BY <1>1, <1>2, <1>3, <1>4 DEF SweepStep

\* Every step of the gate keeps the invariant.
LEMMA StepIInv == IInv /\ [Next]_vars => IInv'
<1> SUFFICES ASSUME IInv, [Next]_vars
             PROVE  IInv'
  OBVIOUS
<1>1. CASE UNCHANGED vars
  BY <1>1 DEF vars, IInv, TypeOK, HandlerInv, ResultInv, OneDecision, EntryInv, SweepInv, AuditInv
<1>2. CASE Next
  BY <1>2, ClockIInv, ProposeIInv, DecideIInv, HandlerIInv, SweepIInv DEF Next
<1>3. QED
  BY <1>1, <1>2

\* The inductive invariant of the gate holds in every reachable state.
THEOREM Invariance == Spec => []IInv
BY InitIInv, StepIInv, PTL DEF Spec

-----------------------------------------------------------------------------
(* The safety properties                                                   *)

\* At most one request is told that its decision on an action stands.
THEOREM OneDeciderHolds == Spec => []OneDecider
<1>1. IInv => OneDecider
  <2> SUFFICES ASSUME IInv, NEW a \in Actions
               PROVE  Cardinality(Deciders(a)) <= 1
    BY DEF OneDecider
  <2>1. a # None
    BY ConstantsAssumption
  <2>2. CASE Deciders(a) = {}
    BY <2>2, FS_EmptySet
  <2>3. ASSUME NEW r \in Deciders(a)
        PROVE  Cardinality(Deciders(a)) <= 1
    <3>1. Deciders(a) = {r}
      BY <2>1, <2>3 DEF IInv, OneDecision, Deciders
    <3>2. Cardinality({r}) = 1
      BY FS_Singleton
    <3>3. QED
      BY <3>1, <3>2
  <2>4. QED
    BY <2>2, <2>3
<1>2. QED
  BY <1>1, Invariance, PTL

\* A write is on the wire only under its proposer's approval.
THEOREM WriteNeedsOwnersApprovalHolds == Spec => []WriteNeedsOwnersApproval
<1>1. IInv => WriteNeedsOwnersApproval
  <2> SUFFICES ASSUME IInv, NEW a \in Actions, sends[a] > 0
               PROVE  /\ store[a].status \in {"approved", "executed"}
                      /\ \E r \in Deciders(a) : /\ req[r].kind = "approve"
                                                /\ req[r].user = store[a].user
    BY DEF WriteNeedsOwnersApproval
  <2>1. store[a].status \in {"approved", "executed"}
    BY DEF IInv, EntryInv, TypeOK, Entry, Status
  <2>2. PICK r \in Requests : req[r].action = a /\ req[r].kind = "approve"
    BY DEF IInv, EntryInv
  <2>3. a # None
    BY ConstantsAssumption
  <2>4. QED
    BY <2>1, <2>2, <2>3 DEF IInv, HandlerInv, Deciders
<1>2. QED
  BY <1>1, Invariance, PTL

\* An approval is worth the call and one retry of it.
THEOREM AtMostTwoSendsHolds == Spec => []AtMostTwoSends
<1>1. IInv => AtMostTwoSends
  BY DEF IInv, EntryInv, AtMostTwoSends
<1>2. QED
  BY <1>1, Invariance, PTL

\* Executed means sent by the approving request and answered to it, and the entry
\* carries that answer once its handler is past the second lock of mark_executed.
THEOREM ExecutedWasSentHolds == Spec => []ExecutedWasSent
<1>1. IInv => ExecutedWasSent
  <2> SUFFICES ASSUME IInv, NEW a \in Actions, store[a].status = "executed"
               PROVE  /\ sends[a] > 0
                      /\ \E r \in Deciders(a) :
                           /\ req[r].kind = "approve" /\ req[r].outcome # "none"
                           /\ store[a].outcome = req[r].outcome \/ req[r].stage = "marked"
    BY DEF ExecutedWasSent
  <2>1. sends[a] > 0
    BY DEF IInv, EntryInv
  <2>2. PICK r \in Requests : req[r].action = a /\ req[r].kind = "approve"
    BY <2>1 DEF IInv, EntryInv
  <2>3. ResultInv(r)
    BY <2>2, ConstantsAssumption DEF IInv, HandlerInv
  <2> QED
    BY <2>1, <2>2, <2>3 DEF ResultInv, Deciders
<1>2. QED
  BY <1>1, Invariance, PTL

\* The audit trail of a write that may have run tells one story.
THEOREM AuditFatesAgreeHolds == Spec => []AuditFatesAgree
<1>1. IInv => AuditFatesAgree
  BY DEF IInv, AuditInv, AuditFatesAgree
<1>2. QED
  BY <1>1, Invariance, PTL

\* No step of the sweeper, or of anyone else, removes an approved or executed
\* entry: an id is collected only when it can be confirmed no more.
THEOREM ApprovedIsNeverSweptHolds == Spec => ApprovedIsNeverSwept
<1> DEFINE Settled(a) == store[a].status \in {"approved", "executed"}
<1>1. IInv /\ [Next]_vars =>
        [\A a \in Actions : store[a].status \in {"approved", "executed"} =>
           store'[a].status \in {"approved", "executed"}]_vars
  <2> SUFFICES ASSUME IInv, Next, NEW a \in Actions, Settled(a)
               PROVE  Settled(a)'
    OBVIOUS
  <2>t. TypeOK
    BY DEF IInv
  <2>1. CASE Tick
    BY <2>1 DEF Tick
  <2>2. CASE ProposeStep
    <3>1. proposing[a] # "no"
      BY DEF IInv, EntryInv, Absent
    <3>2. QED
      BY <2>2, <2>t, <3>1 DEF ProposeStep, Propose, AuditProposed, TypeOK
  <2>3. ASSUME NEW r \in Requests, DecideStep(r)
        PROVE  Settled(a)'
    <3>1. CASE Forbid(r)
      BY <3>1 DEF Forbid
    <3>2. ASSUME NEW b \in Actions, NEW u \in Users, NEW kind, Refuse(r, kind, b, u)
          PROVE  Settled(a)'
      BY <3>2 DEF Refuse
    <3>3. ASSUME NEW b \in Actions, NEW u \in Users, Confirm(r, b, u) \/ Reject(r, b, u)
          PROVE  Settled(a)'
      <4>1. store[b].status = "proposed"
        BY <3>3 DEF Confirm, Reject, Verdict
      <4>2. a # b
        BY <4>1
      <4>3. QED
        BY <3>3, <2>t, <4>2 DEF Confirm, Reject, SetStatus, TypeOK
    <3>4. QED
      BY <2>3, <3>1, <3>2, <3>3 DEF DecideStep
  <2>4. ASSUME NEW r \in Requests, HandlerStep(r) \/ Drop(r)
        PROVE  Settled(a)'
    <3>1. CASE MarkExecuted(r) \/ SetExecutionMetadata(r)
      <4>1. /\ req[r].action \in Actions /\ store[req[r].action] \in Entry
            /\ store[req[r].action].status \in {"approved", "executed"}
        BY <3>1, <2>t DEF MarkExecuted, SetExecutionMetadata, IInv, HandlerInv, ApproveStages,
           TypeOK, Request
      <4>2. CASE MarkExecuted(r) /\ store[req[r].action].status = "approved"
        <5>1. /\ store'[req[r].action] = [store[req[r].action] EXCEPT !.status = "executed"]
              /\ \A b \in Actions \ {req[r].action} : store'[b] = store[b]
          BY <2>t, <4>1, <4>2, MarkedStore
        <5>2. store'[req[r].action].status = "executed"
          BY <4>1, <5>1 DEF Entry
        <5>3. QED
          BY <5>1, <5>2
      <4>3. CASE MarkExecuted(r) /\ store[req[r].action].status # "approved"
        BY <2>t, <4>1, <4>3, MarkedStore
      <4>4. CASE SetExecutionMetadata(r)
        <5>1. /\ store'[req[r].action] =
                   [store[req[r].action] EXCEPT !.outcome = req[r].outcome]
              /\ \A b \in Actions \ {req[r].action} : store'[b] = store[b]
          BY <2>t, <4>1, <4>4, MarkedStore
        <5>2. store'[req[r].action].status = store[req[r].action].status
          BY <4>1, <5>1 DEF Entry
        <5>3. QED
          BY <4>1, <5>1, <5>2
      <4>5. QED
        BY <3>1, <4>2, <4>3, <4>4
    <3>2. CASE ~MarkExecuted(r) /\ ~SetExecutionMetadata(r)
      BY <2>4, <3>2 DEF HandlerStep, Drop, AuditApproved, AuditRejected, CallRefused,
         Send, Resend, CallReturned, AuditExecuted
    <3>3. QED
      BY <3>1, <3>2
  <2>5. CASE SweepStep
    <3>1. a \notin sweep.ids
      BY DEF IInv, SweepInv
    <3>2. QED
      BY <2>5, <2>t, <3>1 DEF SweepStep, SweepStart, SweepVisit, SweepRemove,
         AuditExpired, TypeOK
  <2>6. QED
    BY <2>1, <2>2, <2>3, <2>4, <2>5 DEF Next
<1>2. QED
  BY <1>1, Invariance, PTL DEF ApprovedIsNeverSwept, Spec

-----------------------------------------------------------------------------
(* Refinement of WritePermit                                               *)

\* Initially no permit has been asked for.
LEMMA InitRefines == Init => Abstract!Init
BY DEF Init, Abstract!Init, Abstract!Permit, PermitOf, PermitState

\* A step that leaves an entry's map key and its proposal alone leaves its
\* permit alone.
LEMMA PermitUnchanged ==
  ASSUME NEW a \in Actions, store'[a] = store[a], proposing'[a] = proposing[a]
  PROVE  PermitOf(a)' = PermitOf(a)
BY DEF PermitOf, PermitState

\* A step of the gate is a step of its permits, or leaves them alone.
LEMMA StepRefines ==
  IInv /\ [Next]_vars => [Abstract!Next]_(Abstract!permitVars)
<1> SUFFICES ASSUME IInv, [Next]_vars
             PROVE  Abstract!Next \/ UNCHANGED Abstract!permitVars
  OBVIOUS
<1> DEFINE permit == [a \in Actions |-> PermitOf(a)]
<1>t. TypeOK
  BY DEF IInv
<1>s. ASSUME UNCHANGED <<now, store, proposing, sends>>
      PROVE  UNCHANGED Abstract!permitVars
  BY <1>s, PermitUnchanged DEF Abstract!permitVars
<1>1. CASE Tick
  <2>1. UNCHANGED permit
    BY <1>1, PermitUnchanged DEF Tick
  <2>2. Abstract!Advance
    BY <1>1, <2>1 DEF Tick, Abstract!Advance
  <2>3. QED
    BY <2>2 DEF Abstract!Next
<1>2. ASSUME NEW a \in Actions, AuditProposed(a)
      PROVE  UNCHANGED Abstract!permitVars
  <2>1. \A b \in Actions : PermitOf(b)' = PermitOf(b)
    BY <1>2, <1>t DEF AuditProposed, PermitOf, PermitState, TypeOK
  <2>2. QED
    BY <1>2, <2>1 DEF AuditProposed, Abstract!permitVars
<1>3. ASSUME NEW a \in Actions, NEW u \in Users, Propose(a, u)
      PROVE  Abstract!Next
  <2>1. /\ PermitOf(a) = Abstract!Permit("unissued", 0)
        /\ PermitOf(a)' = Abstract!Permit("open", now + TTL)
    BY <1>3, <1>t DEF Propose, PermitOf, PermitState, Abstract!Permit, TypeOK
  <2>2. \A b \in Actions \ {a} : PermitOf(b)' = PermitOf(b)
    BY <1>3, <1>t, PermitUnchanged DEF Propose, TypeOK
  <2>3. permit' = [permit EXCEPT ![a] = Abstract!Permit("open", now + TTL)]
    BY <2>1, <2>2
  <2>4. Abstract!Issue(a)
    BY <1>3, <2>1, <2>3 DEF Propose, Abstract!Issue, Abstract!Permit
  <2>5. QED
    BY <2>4 DEF Abstract!Next
<1>4. ASSUME NEW r \in Requests, NEW a \in Actions, NEW u \in Users, Confirm(r, a, u)
      PROVE  Abstract!Next
  <2>1. /\ store[a].status = "proposed" /\ now < store[a].expires
        /\ UNCHANGED <<now, proposing, sends>>
    BY <1>4, <1>t DEF Confirm, Verdict, TypeOK, Entry
  <2>2. proposing[a] # "no"
    BY <2>1 DEF IInv, EntryInv, Absent
  <2>3. /\ store'[a].status = "approved" /\ store'[a].expires = store[a].expires
        /\ \A b \in Actions \ {a} : store'[b] = store[b]
    BY <1>4, <1>t DEF Confirm, SetStatus, TypeOK, Entry
  <2>4. /\ PermitOf(a) = Abstract!Permit("open", store[a].expires)
        /\ PermitOf(a)' = Abstract!Permit("granted", store[a].expires)
    BY <2>1, <2>2, <2>3 DEF PermitOf, PermitState, Abstract!Permit
  <2>5. \A b \in Actions \ {a} : PermitOf(b)' = PermitOf(b)
    BY <2>1, <2>3, PermitUnchanged
  <2>6. permit' = [permit EXCEPT ![a].state = "granted"]
    <3>1. [PermitOf(a) EXCEPT !.state = "granted"] = PermitOf(a)'
      BY <2>4 DEF Abstract!Permit
    <3>2. QED
      BY <2>5, <3>1
  <2>7. Abstract!Grant(a)
    BY <2>1, <2>4, <2>6 DEF Abstract!Grant, Abstract!Permit
  <2>8. QED
    BY <2>7 DEF Abstract!Next
<1>5. ASSUME NEW r \in Requests, NEW a \in Actions, NEW u \in Users, Reject(r, a, u)
      PROVE  Abstract!Next
  <2>1. /\ store[a].status = "proposed"
        /\ UNCHANGED <<now, proposing, sends>>
    BY <1>5, <1>t DEF Reject, Verdict, TypeOK, Entry
  <2>2. proposing[a] # "no"
    BY <2>1 DEF IInv, EntryInv, Absent
  <2>3. /\ store'[a].status = "rejected"
        /\ \A b \in Actions \ {a} : store'[b] = store[b]
    BY <1>5, <1>t DEF Reject, SetStatus, TypeOK, Entry
  <2>4. /\ PermitOf(a).state = "open"
        /\ PermitOf(a)' = Abstract!Permit("closed", 0)
    BY <2>1, <2>2, <2>3 DEF PermitOf, PermitState, Abstract!Permit
  <2>5. \A b \in Actions \ {a} : PermitOf(b)' = PermitOf(b)
    BY <2>1, <2>3, PermitUnchanged
  <2>6. permit' = [permit EXCEPT ![a] = Abstract!Permit("closed", 0)]
    BY <2>4, <2>5
  <2>7. Abstract!Withdraw(a)
    BY <2>1, <2>4, <2>6 DEF Abstract!Withdraw
  <2>8. QED
    BY <2>7 DEF Abstract!Next
<1>6. ASSUME NEW r \in Requests, Send(r) \/ Resend(r)
      PROVE  Abstract!Next
  <2> DEFINE a == req[r].action
  <2>1. /\ a \in Actions /\ store[a].status = "approved" /\ sends[a] < 2
    BY <1>6, <1>t DEF Send, Resend, IInv, HandlerInv, ApproveStages, TypeOK, Request
  <2>2. proposing[a] # "no"
    BY <2>1 DEF IInv, EntryInv, Absent
  <2>3. PermitOf(a).state = "granted"
    BY <2>1, <2>2 DEF PermitOf, PermitState
  <2>4. /\ sends' = [sends EXCEPT ![a] = @ + 1]
        /\ UNCHANGED <<now, store, proposing>>
    BY <1>6 DEF Send, Resend
  <2>5. UNCHANGED permit
    BY <2>4, PermitUnchanged
  <2>6. Abstract!Use(a)
    BY <2>1, <2>3, <2>4, <2>5 DEF Abstract!Use
  <2>7. QED
    BY <2>1, <2>6 DEF Abstract!Next
<1>7. ASSUME NEW r \in Requests, MarkExecuted(r) \/ SetExecutionMetadata(r)
      PROVE  UNCHANGED Abstract!permitVars
  <2>1. PICK a \in Actions :
          /\ a = req[r].action /\ store[a] \in Entry
          /\ MarkExecuted(r) => store[a].status = "approved"
          /\ SetExecutionMetadata(r) => store[a].status = "executed"
    BY <1>7, <1>t DEF MarkExecuted, SetExecutionMetadata, IInv, HandlerInv, ApproveStages,
       TypeOK, Request
  <2>2. UNCHANGED <<now, proposing, sends>>
    BY <1>7 DEF MarkExecuted, SetExecutionMetadata
  <2>3. /\ store[a].status \in {"approved", "executed"} /\ store'[a].status = "executed"
        /\ store'[a].expires = store[a].expires
        /\ \A b \in Actions \ {a} : store'[b] = store[b]
    BY <1>t, <1>7, <2>1, MarkedStore DEF Entry
  <2>4. PermitOf(a)' = PermitOf(a)
    BY <2>2, <2>3 DEF PermitOf, PermitState
  <2>5. UNCHANGED permit
    BY <2>2, <2>3, <2>4, PermitUnchanged
  <2>6. QED
    BY <2>2, <2>5 DEF Abstract!permitVars
<1>8. ASSUME NEW a \in Actions, SweepRemove(a)
      PROVE  Abstract!Next \/ UNCHANGED Abstract!permitVars
  <2>1. /\ a \in sweep.ids /\ store'[a] = Absent
        /\ \A b \in Actions \ {a} : store'[b] = store[b]
        /\ UNCHANGED <<now, proposing, sends>>
    BY <1>8, <1>t DEF SweepRemove, TypeOK
  <2>2. /\ store[a].status \in {"proposed", "rejected"} /\ proposing[a] # "no"
        /\ store[a].expires < now
    BY <1>t, <2>1 DEF IInv, SweepInv, TypeOK, Sweep, Entry
  <2>3. PermitOf(a)' = Abstract!Permit("closed", 0)
    BY <2>1, <2>2 DEF PermitOf, PermitState, Absent, Abstract!Permit
  <2>4. \A b \in Actions \ {a} : PermitOf(b)' = PermitOf(b)
    BY <2>1, PermitUnchanged
  <2>5. permit' = [permit EXCEPT ![a] = Abstract!Permit("closed", 0)]
    BY <2>3, <2>4
  <2>6. CASE store[a].status = "proposed"
    <3>1. PermitOf(a) = Abstract!Permit("open", store[a].expires)
      BY <2>2, <2>6 DEF PermitOf, PermitState, Abstract!Permit
    <3>2. Abstract!Lapse(a)
      BY <2>1, <2>2, <2>5, <3>1 DEF Abstract!Lapse, Abstract!Permit
    <3>3. QED
      BY <3>2 DEF Abstract!Next
  <2>7. CASE store[a].status = "rejected"
    <3>1. PermitOf(a) = Abstract!Permit("closed", 0)
      BY <2>2, <2>7 DEF PermitOf, PermitState, Abstract!Permit
    <3>2. UNCHANGED permit
      BY <2>3, <2>4, <3>1
    <3>3. QED
      BY <2>1, <3>2 DEF Abstract!permitVars
  <2>8. QED
    BY <2>2, <2>6, <2>7
<1>9. CASE UNCHANGED vars
  BY <1>9, <1>s DEF vars
<1>10. CASE ProposeStep
  BY <1>10, <1>2, <1>3 DEF ProposeStep
<1>11. ASSUME NEW r \in Requests, DecideStep(r) \/ HandlerStep(r) \/ Drop(r)
       PROVE  Abstract!Next \/ UNCHANGED Abstract!permitVars
  <2>1. CASE DecideStep(r)
    <3>1. ASSUME Forbid(r) PROVE UNCHANGED Abstract!permitVars
      BY <3>1, <1>s DEF Forbid
    <3>2. ASSUME NEW a \in Actions, NEW u \in Users,
                 NEW kind \in {"approve", "reject"}, Refuse(r, kind, a, u)
          PROVE  UNCHANGED Abstract!permitVars
      BY <3>2, <1>s DEF Refuse
    <3>3. QED
      BY <2>1, <3>1, <3>2, <1>4, <1>5 DEF DecideStep
  <2>2. CASE Send(r) \/ Resend(r)
    BY <2>2, <1>6
  <2>3. CASE MarkExecuted(r) \/ SetExecutionMetadata(r)
    BY <2>3, <1>7
  <2>4. ASSUME NEW outcome, CallReturned(r, outcome)
        PROVE  UNCHANGED Abstract!permitVars
    BY <2>4, <1>s DEF CallReturned
  <2>5. ASSUME \/ AuditApproved(r) \/ AuditRejected(r) \/ AuditExecuted(r)
               \/ CallRefused(r) \/ Drop(r)
        PROVE  UNCHANGED Abstract!permitVars
    BY <2>5, <1>s DEF AuditApproved, AuditRejected, AuditExecuted, CallRefused, Drop
  <2>6. QED
    BY <1>11, <2>1, <2>2, <2>3, <2>4, <2>5 DEF HandlerStep
<1>12. CASE SweepStep
  <2>1. ASSUME NEW a \in Actions, SweepStart \/ SweepVisit(a) \/ AuditExpired(a)
        PROVE  UNCHANGED Abstract!permitVars
    BY <2>1, <1>s DEF SweepStart, SweepVisit, AuditExpired
  <2>2. CASE SweepStart
    BY <2>2, <1>s DEF SweepStart
  <2>3. QED
    BY <1>12, <1>8, <2>1, <2>2 DEF SweepStep
<1>13. QED
  BY <1>1, <1>9, <1>10, <1>11, <1>12 DEF Next

\* The gate implements the one-shot permit: every behaviour of the racing tasks
\* is, seen through the refinement mapping, a behaviour of WritePermit.
THEOREM GateImplementsPermit == Spec => ImplementsWritePermit
BY InitRefines, StepRefines, Invariance, PTL
   DEF Spec, ImplementsWritePermit, Abstract!Spec

-----------------------------------------------------------------------------
(* Refinement of ToolCall                                                  *)

\* A handler has an outcome from the return of its call on, and an answer at its end.
CallInv ==
  \A r \in Requests :
    /\ req[r].outcome # "none" => req[r].stage \in {"tool_called", "marked", "audit_executed", "done"}
    /\ req[r].stage \in {"tool_called", "marked", "audit_executed"} => req[r].outcome # "none"
    /\ req[r].answer # "none" => req[r].stage = "done"

\* One handler moves: what it has become, as far as its call is concerned.
HandlerBecomes(r, stage, outcome, answer) ==
  /\ req'[r].stage = stage /\ req'[r].outcome = outcome /\ req'[r].answer = answer
  /\ req'[r].kind = req[r].kind /\ req'[r].action = req[r].action
  /\ \A d \in Requests \ {r} : req'[d] = req[d]

\* Its steps, one by one.
LEMMA HandlerMoves ==
  ASSUME TypeOK, NEW r \in Requests
  PROVE  /\ \A s : GoTo(r, s) => HandlerBecomes(r, s, req[r].outcome, req[r].answer)
         /\ \A w : Answer(r, w) => HandlerBecomes(r, "done", req[r].outcome, w)
         /\ \A o : CallReturned(r, o) => HandlerBecomes(r, "tool_called", o, req[r].answer)
<1>1. req \in [Requests -> Request]
  BY DEF TypeOK
<1>2. \A s : /\ [req[r] EXCEPT !.stage = s].stage = s
             /\ [req[r] EXCEPT !.stage = s].outcome = req[r].outcome
             /\ [req[r] EXCEPT !.stage = s].answer = req[r].answer
             /\ [req[r] EXCEPT !.stage = s].kind = req[r].kind
             /\ [req[r] EXCEPT !.stage = s].action = req[r].action
  BY <1>1 DEF Request
<1>3. \A w : /\ [req[r] EXCEPT !.stage = "done", !.answer = w].stage = "done"
             /\ [req[r] EXCEPT !.stage = "done", !.answer = w].outcome = req[r].outcome
             /\ [req[r] EXCEPT !.stage = "done", !.answer = w].answer = w
             /\ [req[r] EXCEPT !.stage = "done", !.answer = w].kind = req[r].kind
             /\ [req[r] EXCEPT !.stage = "done", !.answer = w].action = req[r].action
  BY <1>1 DEF Request
<1>4. \A o : /\ [req[r] EXCEPT !.stage = "tool_called", !.outcome = o].stage = "tool_called"
             /\ [req[r] EXCEPT !.stage = "tool_called", !.outcome = o].outcome = o
             /\ [req[r] EXCEPT !.stage = "tool_called", !.outcome = o].answer = req[r].answer
             /\ [req[r] EXCEPT !.stage = "tool_called", !.outcome = o].kind = req[r].kind
             /\ [req[r] EXCEPT !.stage = "tool_called", !.outcome = o].action = req[r].action
  BY <1>1 DEF Request
<1>5. ASSUME NEW x, req' = [req EXCEPT ![r] = x]
      PROVE  req'[r] = x /\ \A d \in Requests \ {r} : req'[d] = req[d]
  BY <1>1, <1>5
<1>6. ASSUME NEW s, GoTo(r, s)
      PROVE  HandlerBecomes(r, s, req[r].outcome, req[r].answer)
  <2>1. /\ req'[r] = [req[r] EXCEPT !.stage = s]
        /\ \A d \in Requests \ {r} : req'[d] = req[d]
    BY <1>5, <1>6 DEF GoTo
  <2>2. /\ req'[r].stage = s /\ req'[r].outcome = req[r].outcome /\ req'[r].answer = req[r].answer
        /\ req'[r].kind = req[r].kind /\ req'[r].action = req[r].action
    BY <1>2, <2>1
  <2> QED
    BY <2>1, <2>2 DEF HandlerBecomes
<1>7. ASSUME NEW w, Answer(r, w)
      PROVE  HandlerBecomes(r, "done", req[r].outcome, w)
  <2>1. /\ req'[r] = [req[r] EXCEPT !.stage = "done", !.answer = w]
        /\ \A d \in Requests \ {r} : req'[d] = req[d]
    BY <1>5, <1>7 DEF Answer
  <2>2. /\ req'[r].stage = "done" /\ req'[r].outcome = req[r].outcome /\ req'[r].answer = w
        /\ req'[r].kind = req[r].kind /\ req'[r].action = req[r].action
    BY <1>3, <2>1
  <2> QED
    BY <2>1, <2>2 DEF HandlerBecomes
<1>8. ASSUME NEW o, CallReturned(r, o)
      PROVE  HandlerBecomes(r, "tool_called", o, req[r].answer)
  <2>1. /\ req'[r] = [req[r] EXCEPT !.stage = "tool_called", !.outcome = o]
        /\ \A d \in Requests \ {r} : req'[d] = req[d]
    BY <1>5, <1>8 DEF CallReturned
  <2>2. /\ req'[r].stage = "tool_called" /\ req'[r].outcome = o /\ req'[r].answer = req[r].answer
        /\ req'[r].kind = req[r].kind /\ req'[r].action = req[r].action
    BY <1>4, <2>1
  <2> QED
    BY <2>1, <2>2 DEF HandlerBecomes
<1> QED
  BY <1>6, <1>7, <1>8

\* A decision, or the refusal of one: its handler has no outcome yet.
LEMMA DecisionMoves ==
  ASSUME IInv, NEW r \in Requests, DecideStep(r)
  PROVE  /\ req[r] = IdleRequest /\ sends' = sends
         /\ req'[r].outcome = "none"
         /\ \/ req'[r].action = None /\ req'[r].stage = "done" /\ req'[r].kind = "none"
            \/ /\ req'[r].stage \in {"audit_approved", "audit_rejected"}
               /\ req'[r].answer = "none"
               /\ req'[r].action \in Actions /\ sends[req'[r].action] = 0
         /\ \A d \in Requests \ {r} : req'[d] = req[d]
<1>1. req \in [Requests -> Request]
  BY DEF IInv, TypeOK
<1>2. ASSUME NEW x, req' = [req EXCEPT ![r] = x]
      PROVE  req'[r] = x /\ \A d \in Requests \ {r} : req'[d] = req[d]
  BY <1>1, <1>2
<1>3. req[r].stage = "idle" /\ sends' = sends
  BY DEF DecideStep, Forbid, Confirm, Reject, Refuse
<1>4. req[r] = IdleRequest
  BY <1>3 DEF IInv, HandlerInv
<1>5. ASSUME NEW w, TurnAway(r, w)
      PROVE  /\ req'[r].outcome = "none"
             /\ req'[r].action = None /\ req'[r].stage = "done" /\ req'[r].kind = "none"
             /\ \A d \in Requests \ {r} : req'[d] = req[d]
  BY <1>2, <1>5 DEF TurnAway, IdleRequest
<1>6. ASSUME NEW a \in Actions, NEW u \in Users, Confirm(r, a, u) \/ Reject(r, a, u)
      PROVE  /\ req'[r].outcome = "none"
             /\ req'[r].stage \in {"audit_approved", "audit_rejected"}
             /\ req'[r].answer = "none"
             /\ req'[r].action \in Actions /\ sends[req'[r].action] = 0
             /\ \A d \in Requests \ {r} : req'[d] = req[d]
  <2>1. PICK kind \in {"approve", "reject"}, stage \in {"audit_approved", "audit_rejected"} :
          Decided(r, kind, a, u, stage)
    <3>1. CASE Confirm(r, a, u)
      BY <3>1, Zenon DEF Confirm
    <3>2. CASE Reject(r, a, u)
      BY <3>2, Zenon DEF Reject
    <3> QED
      BY <1>6, <3>1, <3>2
  <2>2. req'[r].action = a /\ req'[r].stage = stage /\ req'[r].outcome = "none" /\ req'[r].answer = "none"
    BY <1>2, <2>1 DEF Decided, IdleRequest
  <2>3. store[a].status = "proposed"
    BY <1>6 DEF Confirm, Reject, Verdict
  <2> QED
    BY <1>2, <2>1, <2>2, <2>3 DEF Decided, IInv, EntryInv
<1> QED
  BY <1>3, <1>4, <1>5, <1>6 DEF DecideStep, Forbid, Refuse

\* What a step does, as far as calls are concerned.
LEMMA StepMoves ==
  ASSUME IInv, [Next]_vars
  PROVE  \/ UNCHANGED <<req, sends>>
         \/ \E r \in Requests : DecideStep(r) \/ HandlerStep(r) \/ Drop(r)
<1>1. ASSUME Tick \/ ProposeStep \/ SweepStep
      PROVE  UNCHANGED <<req, sends>>
  BY <1>1 DEF Tick, ProposeStep, AuditProposed, Propose, SweepStep, SweepStart, SweepVisit,
     SweepRemove, AuditExpired
<1> QED
  BY <1>1 DEF Next, vars

\* How a handler goes on, with what is written meanwhile.
LEMMA HandlerSteps ==
  ASSUME IInv, NEW r \in Requests, HandlerStep(r) \/ Drop(r)
  PROVE  LET q == req[r] IN
         \/ /\ q.stage = "audit_approved" /\ sends' = sends
            /\ HandlerBecomes(r, "calling", q.outcome, q.answer)
         \/ /\ q.stage \in {"calling", "sent"}
            /\ sends' = [sends EXCEPT ![q.action] = @ + 1]
            /\ HandlerBecomes(r, IF q.stage = "calling" THEN "sent" ELSE "resent", q.outcome, q.answer)
         \/ /\ q.stage \in {"sent", "resent"} /\ sends' = sends
            /\ \E o \in {"ok", "failed"} : HandlerBecomes(r, "tool_called", o, q.answer)
         \/ /\ q.stage = "calling" /\ sends' = sends
            /\ HandlerBecomes(r, "done", q.outcome, "error")
         \/ /\ q.stage = "tool_called" /\ sends' = sends
            /\ HandlerBecomes(r, "marked", q.outcome, q.answer)
         \/ /\ q.stage = "marked" /\ sends' = sends
            /\ HandlerBecomes(r, "audit_executed", q.outcome, q.answer)
         \/ /\ q.stage \in {"audit_rejected", "tool_called", "audit_executed"} /\ sends' = sends
            /\ HandlerBecomes(r, "done", q.outcome, "ok")
         \/ /\ q.stage \in AwaitStages /\ sends' = sends
            /\ HandlerBecomes(r, "done", q.outcome, "dropped")
<1>t. TypeOK
  BY DEF IInv
<1>1. CASE AuditApproved(r)
  BY <1>t, <1>1, HandlerMoves DEF AuditApproved
<1>2. CASE Send(r) \/ Resend(r)
  BY <1>t, <1>2, HandlerMoves DEF Send, Resend
<1>3. ASSUME NEW o \in {"ok", "failed"}, CallReturned(r, o)
      PROVE  /\ req[r].stage \in {"sent", "resent"} /\ sends' = sends
             /\ HandlerBecomes(r, "tool_called", o, req[r].answer)
  BY <1>t, <1>3, HandlerMoves DEF CallReturned
<1>4. CASE CallRefused(r)
  BY <1>t, <1>4, HandlerMoves DEF CallRefused
<1>5. CASE MarkExecuted(r) \/ SetExecutionMetadata(r)
  BY <1>t, <1>5, HandlerMoves DEF MarkExecuted, SetExecutionMetadata
<1>6. CASE AuditRejected(r) \/ AuditExecuted(r)
  BY <1>t, <1>6, HandlerMoves DEF AuditRejected, AuditExecuted
<1>7. CASE Drop(r)
  BY <1>t, <1>7, HandlerMoves DEF Drop
<1> QED
  BY <1>1, <1>2, <1>3, <1>4, <1>5, <1>6, <1>7 DEF HandlerStep

\* The invariant of the calls is kept.
LEMMA StepCallInv == IInv /\ CallInv /\ [Next]_vars => CallInv'
<1> SUFFICES ASSUME IInv, CallInv, [Next]_vars
             PROVE  CallInv'
  OBVIOUS
<1> USE DEF CallInv
<1>1. CASE UNCHANGED <<req, sends>>
  BY <1>1
<1>2. ASSUME NEW r \in Requests, DecideStep(r)
      PROVE  CallInv'
  <2>1. /\ req'[r].outcome = "none" /\ req'[r].stage \in {"done", "audit_approved", "audit_rejected"}
        /\ req'[r].stage # "done" => req'[r].answer = "none"
        /\ \A d \in Requests \ {r} : req'[d] = req[d]
    BY <1>2, DecisionMoves
  <2> QED
    BY <2>1
<1>3. ASSUME NEW r \in Requests, HandlerStep(r) \/ Drop(r)
      PROVE  CallInv'
  BY <1>3, HandlerSteps DEF HandlerBecomes, AwaitStages
<1> QED
  BY <1>1, <1>2, <1>3, StepMoves

\* Initially nobody has called.
LEMMA DispatchInit == Init => CallInv /\ Dispatch!Init
BY DEF Init, CallInv, IdleRequest, Dispatch!Init, CallPhase, CallWire, CallResult

\* A handler that moves leaves the calls of all others alone.
LEMMA OneCallMoves ==
  ASSUME NEW r \in Requests, \A d \in Requests \ {r} : req'[d] = req[d],
         \A d \in Requests \ {r} : CallWire(req[d])' = CallWire(req[d])
  PROVE  /\ [d \in Requests |-> CallPhase(req[d])]' =
              [[d \in Requests |-> CallPhase(req[d])] EXCEPT ![r] = CallPhase(req'[r])]
         /\ [d \in Requests |-> CallWire(req[d])]' =
              [[d \in Requests |-> CallWire(req[d])] EXCEPT ![r] = CallWire(req[r])']
         /\ [d \in Requests |-> CallResult(req[d])]' =
              [[d \in Requests |-> CallResult(req[d])] EXCEPT ![r] = CallResult(req'[r])]
<1>1. \A d \in Requests \ {r} : /\ CallPhase(req'[d]) = CallPhase(req[d])
                                /\ CallResult(req'[d]) = CallResult(req[d])
  OBVIOUS
<1> QED
  BY <1>1

\* What is written is written for one handler: it alone has decided on its action.
LEMMA OwnWire ==
  ASSUME IInv, NEW r \in Requests, req[r].stage \in {"calling", "sent"},
         sends' = [sends EXCEPT ![req[r].action] = @ + 1],
         req'[r].action = req[r].action, \A d \in Requests \ {r} : req'[d] = req[d]
  PROVE  /\ CallWire(req[r]) = IF req[r].stage = "calling" THEN 0 ELSE 1
         /\ CallWire(req[r])' = CallWire(req[r]) + 1
         /\ \A d \in Requests \ {r} : CallWire(req[d])' = CallWire(req[d])
<1> DEFINE a == req[r].action
<1>1. a \in Actions /\ a # None /\ sends \in [Actions -> Nat]
  BY ConstantsAssumption DEF IInv, TypeOK, HandlerInv, Request
<1>2. sends[a] = IF req[r].stage = "calling" THEN 0 ELSE 1
  BY <1>1 DEF IInv, HandlerInv
<1>3. \A d \in Requests \ {r} : req[d].action # a
  BY <1>1 DEF IInv, OneDecision
<1>4. sends'[a] = sends[a] + 1 /\ \A b \in Actions \ {a} : sends'[b] = sends[b]
  BY <1>1
<1>5. \A d \in Requests : req[d].action \in Actions \cup {None}
  BY DEF IInv, TypeOK, Request
<1> QED
  BY <1>1, <1>2, <1>3, <1>4, <1>5 DEF CallWire

\* A step of the gate is a step of the one call it concerns, or leaves all alone.
LEMMA StepDispatches ==
  IInv /\ CallInv /\ [Next]_vars => [Dispatch!Next]_(Dispatch!callVars)
<1> SUFFICES ASSUME IInv, CallInv, [Next]_vars
             PROVE  Dispatch!Next \/ UNCHANGED Dispatch!callVars
  OBVIOUS
<1> DEFINE phase == [d \in Requests |-> CallPhase(req[d])]
           wire == [d \in Requests |-> CallWire(req[d])]
           result == [d \in Requests |-> CallResult(req[d])]
<1>1. CASE UNCHANGED <<req, sends>>
  BY <1>1 DEF Dispatch!callVars, CallWire
<1>2. ASSUME NEW r \in Requests, \A d \in Requests \ {r} : req'[d] = req[d], sends' = sends,
             CallPhase(req'[r]) = CallPhase(req[r]), CallResult(req'[r]) = CallResult(req[r]),
             CallWire(req[r])' = CallWire(req[r])
      PROVE  UNCHANGED Dispatch!callVars
  <2>1. \A d \in Requests : /\ CallPhase(req'[d]) = CallPhase(req[d])
                            /\ CallResult(req'[d]) = CallResult(req[d])
                            /\ CallWire(req[d])' = CallWire(req[d])
    BY <1>2 DEF CallWire
  <2> QED
    BY <2>1 DEF Dispatch!callVars
<1>3. ASSUME NEW r \in Requests, DecideStep(r)
      PROVE  UNCHANGED Dispatch!callVars
  <2>1. /\ CallPhase(req'[r]) = "new" /\ CallResult(req'[r]) = "none"
        /\ CallPhase(req[r]) = "new" /\ CallResult(req[r]) = "none"
    BY <1>3, DecisionMoves DEF CallPhase, CallResult, IdleRequest
  <2>2. CallWire(req[r]) = 0 /\ CallWire(req[r])' = 0
    BY <1>3, DecisionMoves, ConstantsAssumption DEF CallWire, IdleRequest
  <2> QED
    BY <1>2, <1>3, <2>1, <2>2, DecisionMoves
<1>4. ASSUME NEW r \in Requests, HandlerStep(r) \/ Drop(r)
      PROVE  Dispatch!Next \/ UNCHANGED Dispatch!callVars
  <2> DEFINE q == req[r]
  <2>i. /\ q.outcome # "none" => q.stage \in {"tool_called", "marked", "audit_executed", "done"}
        /\ q.stage \in {"tool_called", "marked", "audit_executed"} => q.outcome # "none"
        /\ q.stage # "done" => q.answer = "none"
        /\ q.stage \in ApproveStages => q.kind = "approve"
        /\ q.stage = "audit_rejected" => q.kind = "reject"
    BY DEF CallInv, IInv, HandlerInv
  <2>o. ASSUME NEW stage, NEW outcome, NEW answer, HandlerBecomes(r, stage, outcome, answer),
               sends' = sends
        PROVE  /\ CallWire(req[r])' = CallWire(req[r])
               /\ \A d \in Requests \ {r} : req'[d] = req[d] /\ CallWire(req[d])' = CallWire(req[d])
               /\ wire' = wire
    BY <2>o DEF HandlerBecomes, CallWire
  <2>1. ASSUME q.stage = "audit_approved", sends' = sends,
               HandlerBecomes(r, "calling", q.outcome, q.answer)
        PROVE  UNCHANGED Dispatch!callVars
    <3>1. CallPhase(req'[r]) = CallPhase(q) /\ CallResult(req'[r]) = CallResult(q)
      BY <2>1, <2>i DEF HandlerBecomes, CallPhase, CallResult
    <3> QED
      BY <1>2, <2>1, <2>o, <3>1
  <2>2. ASSUME q.stage \in {"calling", "sent"}, sends' = [sends EXCEPT ![q.action] = @ + 1],
               HandlerBecomes(r, IF q.stage = "calling" THEN "sent" ELSE "resent", q.outcome, q.answer)
        PROVE  Dispatch!Write(r)
    <3>1. /\ CallPhase(q) = (IF q.stage = "calling" THEN "new" ELSE "written") /\ CallResult(q) = "none"
          /\ CallPhase(req'[r]) = "written" /\ CallResult(req'[r]) = "none"
      BY <2>2, <2>i DEF HandlerBecomes, CallPhase, CallResult
    <3>2. /\ CallWire(q) < 2 /\ CallWire(q)' = CallWire(q) + 1
          /\ \A d \in Requests \ {r} : req'[d] = req[d] /\ CallWire(req[d])' = CallWire(req[d])
      <4>1. req'[r].action = q.action /\ \A d \in Requests \ {r} : req'[d] = req[d]
        BY <2>2 DEF HandlerBecomes
      <4>2. /\ CallWire(q) = IF q.stage = "calling" THEN 0 ELSE 1
            /\ CallWire(q)' = CallWire(q) + 1
            /\ \A d \in Requests \ {r} : CallWire(req[d])' = CallWire(req[d])
        BY <2>2, <4>1, OwnWire
      <4>3. CallWire(q) < 2
        <5> HIDE DEF phase, wire, result
        <5> QED
          BY <4>2
      <4> QED
        BY <4>1, <4>2, <4>3, Zenon
    <3>3. /\ phase' = [phase EXCEPT ![r] = "written"] /\ wire' = [wire EXCEPT ![r] = @ + 1]
          /\ result' = [result EXCEPT ![r] = "none"]
      BY <3>1, <3>2, OneCallMoves
    <3> QED
      BY <3>1, <3>2, <3>3 DEF Dispatch!Write
  <2>3. ASSUME q.stage \in {"sent", "resent"}, sends' = sends,
               NEW o \in {"ok", "failed"}, HandlerBecomes(r, "tool_called", o, q.answer)
        PROVE  Dispatch!Finish(r)
    <3>1. /\ CallPhase(q) = "written" /\ CallPhase(req'[r]) = "over" /\ CallResult(req'[r]) = o
      <4>1. req'[r].stage = "tool_called" /\ req'[r].outcome = o /\ o # "none"
        BY <2>3 DEF HandlerBecomes
      <4>2. CallPhase(q) = "written"
        BY <2>3 DEF CallPhase
      <4>3. CallPhase(req'[r]) = "over"
        BY <4>1 DEF CallPhase
      <4> QED
        BY <4>1, <4>2, <4>3 DEF CallResult
    <3>2. phase' = [phase EXCEPT ![r] = "over"] /\ result' = [result EXCEPT ![r] = o] /\ wire' = wire
      BY <2>3, <2>o, <3>1, OneCallMoves
    <3> QED
      BY <3>1, <3>2 DEF Dispatch!Finish
  <2>4. ASSUME q.stage = "calling", sends' = sends, HandlerBecomes(r, "done", q.outcome, "error")
        PROVE  Dispatch!Refuse(r)
    <3>1. /\ CallPhase(q) = "new" /\ CallPhase(req'[r]) = "over" /\ CallResult(req'[r]) = "refused"
      BY <2>4, <2>i DEF HandlerBecomes, CallPhase, CallResult, ApproveStages
    <3>2. phase' = [phase EXCEPT ![r] = "over"] /\ result' = [result EXCEPT ![r] = "refused"] /\ wire' = wire
      BY <2>4, <2>o, <3>1, OneCallMoves
    <3> QED
      BY <3>1, <3>2 DEF Dispatch!Refuse
  <2>5. ASSUME q.stage \in {"tool_called", "marked", "audit_executed", "audit_rejected"},
               sends' = sends,
               \/ HandlerBecomes(r, "marked", q.outcome, q.answer)
               \/ HandlerBecomes(r, "audit_executed", q.outcome, q.answer)
               \/ HandlerBecomes(r, "done", q.outcome, "ok") \/ HandlerBecomes(r, "done", q.outcome, "dropped"),
               q.stage = "audit_rejected" => req'[r].stage = "done"
        PROVE  UNCHANGED Dispatch!callVars
    <3>1. CallPhase(req'[r]) = CallPhase(q) /\ CallResult(req'[r]) = CallResult(q)
      <4>1. /\ req'[r].outcome = q.outcome /\ req'[r].kind = q.kind
            /\ req'[r].stage \in {"marked", "audit_executed", "done"}
        BY <2>5 DEF HandlerBecomes
      <4>2. CASE q.outcome # "none"
        BY <2>5, <4>1, <4>2 DEF CallPhase, CallResult
      <4>3. CASE q.outcome = "none"
        <5>1. q.stage = "audit_rejected" /\ q.kind = "reject"
          BY <2>5, <2>i, <4>3
        <5> QED
          BY <4>1, <4>3, <5>1 DEF CallPhase, CallResult
      <4> QED
        BY <4>2, <4>3
    <3> QED
      BY <1>2, <2>5, <2>o, <3>1
  <2>6. ASSUME q.stage \in {"audit_approved", "calling", "sent", "resent"}, sends' = sends,
               HandlerBecomes(r, "done", q.outcome, "dropped")
        PROVE  Dispatch!Abandon(r)
    <3>1. /\ CallPhase(q) \in {"new", "written"} /\ CallResult(q) = "none"
          /\ CallPhase(req'[r]) = "gone" /\ CallResult(req'[r]) = "none"
      BY <2>6, <2>i DEF HandlerBecomes, CallPhase, CallResult, ApproveStages
    <3>2. phase' = [phase EXCEPT ![r] = "gone"] /\ result' = result /\ wire' = wire
      BY <2>6, <2>o, <3>1, OneCallMoves
    <3> QED
      BY <3>1, <3>2 DEF Dispatch!Abandon
  <2>7. ASSUME sends' = sends,
               \/ q.stage = "tool_called" /\ HandlerBecomes(r, "marked", q.outcome, q.answer)
               \/ q.stage = "marked" /\ HandlerBecomes(r, "audit_executed", q.outcome, q.answer)
        PROVE  UNCHANGED Dispatch!callVars
    BY <2>5, <2>7
  <2>8. ASSUME q.stage \in {"audit_rejected", "tool_called", "audit_executed"}, sends' = sends,
               HandlerBecomes(r, "done", q.outcome, "ok")
        PROVE  UNCHANGED Dispatch!callVars
    BY <2>5, <2>8 DEF HandlerBecomes
  <2>9. ASSUME q.stage \in AwaitStages, sends' = sends, HandlerBecomes(r, "done", q.outcome, "dropped")
        PROVE  Dispatch!Next \/ UNCHANGED Dispatch!callVars
    <3>1. req'[r].stage = "done"
      BY <2>9 DEF HandlerBecomes
    <3> QED
      BY <2>5, <2>6, <2>9, <3>1 DEF AwaitStages, Dispatch!Next
  <2> HIDE DEF phase, wire, result
  <2> QED
    BY <1>4, <2>1, <2>2, <2>3, <2>4, <2>7, <2>8, <2>9, HandlerSteps DEF Dispatch!Next
<1> QED
  BY <1>1, <1>3, <1>4, StepMoves

\* To its handlers the pool is ToolCall, which is what the pool implements, for any
\* number of requests that race for any number of actions.
THEOREM GateDispatchesAsToolCall == Spec => DispatchesAsToolCall
<1>1. Spec => []CallInv
  BY DispatchInit, StepCallInv, Invariance, PTL DEF Spec
<1> QED
  BY <1>1, DispatchInit, StepDispatches, Invariance, PTL DEF Spec, DispatchesAsToolCall, Dispatch!Spec
=============================================================================
