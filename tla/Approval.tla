------------------------------ MODULE Approval ------------------------------
(***************************************************************************)
(* The approval gate of gateway/approval: a write tool the model asks for  *)
(* is parked in the ApprovalStore, a human decides over /chat/approve or   *)
(* /chat/reject, and only an approved action is sent to its MCP server.    *)
(*                                                                         *)
(* Three kinds of task run concurrently on the multi-threaded runtime and  *)
(* share the store: the chat turns that propose, the HTTP requests that    *)
(* decide, and the sweeper of run_cleanup_task.  One action of this module *)
(* is what a task does between two points where another task can be        *)
(* scheduled: an await, or a release of a DashMap entry lock.              *)
(***************************************************************************)
EXTENDS Naturals, FiniteSets

CONSTANTS
  Actions,   (* the action ids (Uuid) that may be proposed              *)
  Users,     (* the `sub` claims of callers                             *)
  Requests,  (* the HTTP requests to /chat/approve and /chat/reject     *)
  TTL,       (* time to live of a proposal, in ticks                    *)
  MaxNow,    (* bound: the clock stops here                             *)
  None       (* no user, no action                                      *)

ASSUME ConstantsAssumption ==
  /\ TTL \in Nat \ {0}          \* approval_ttl accepts only secs > 0
  /\ MaxNow \in Nat
  /\ None \notin Actions \cup Users

VARIABLES
  now,        (* Utc::now(), read by every task; never goes backwards   *)
  store,      (* ApprovalStore.entries                                  *)
  proposing,  (* where propose stands for each action id                *)
  req,        (* the HTTP handlers: stage, what was asked, the answer   *)
  sweep,      (* the locals of cleanup_expired and its caller           *)
  sends,      (* number of tools/call requests written to a MCP server  *)
  audit       (* the events of each action that reached ai.events       *)

vars == <<now, store, proposing, req, sweep, sends, audit>>

-----------------------------------------------------------------------------
(* Types                                                                   *)

Status == {"absent", "proposed", "approved", "rejected", "executed"}
Outcome == {"none", "ok", "failed"}

\* A PendingAction; `absent` stands for an id that is not a key of the map.
Entry == [status  : Status,
          user    : Users \cup {None},
          expires : Nat,
          outcome : Outcome]

Absent == [status |-> "absent", user |-> None, expires |-> 0, outcome |-> "none"]

\* Where a handler is parked.  The stages of AwaitStages are awaits, at which
\* the TimeoutLayer, or hyper on a closed connection, can drop the future; a
\* handler that is "marked" is between two entry locks and cannot be dropped.
AwaitStages == {"audit_approved", "calling", "sent", "resent",
                "tool_called", "audit_executed", "audit_rejected"}
Stages == {"idle", "done", "marked"} \cup AwaitStages
Refusals == {"forbidden", "not_found", "decided", "wrong_user", "expired"}
Answers == {"none", "ok", "error", "dropped"} \cup Refusals

Request == [stage   : Stages,
            kind    : {"none", "approve", "reject"},
            action  : Actions \cup {None},
            user    : Users \cup {None},
            outcome : Outcome,
            answer  : Answers]

AuditKinds == {"proposed", "approved", "rejected", "expired", "executed"}

\* now_arg: the `now` cleanup_expired was called with; todo: entries its
\* iterator has still to visit; ids: expired_ids; out: removed actions whose
\* action_expired event is still to be published.
Sweep == [now_arg : Nat, todo : SUBSET Actions,
          ids : SUBSET Actions, out : SUBSET Actions]

TypeOK ==
  /\ now \in Nat
  /\ store \in [Actions -> Entry]
  /\ proposing \in [Actions -> {"no", "auditing", "returned"}]
  /\ req \in [Requests -> Request]
  /\ sweep \in Sweep
  /\ sends \in [Actions -> Nat]
  /\ audit \in [Actions -> SUBSET AuditKinds]

-----------------------------------------------------------------------------
(* Initial state: serve() has just built an empty store.                   *)

IdleRequest == [stage |-> "idle", kind |-> "none", action |-> None,
                user |-> None, outcome |-> "none", answer |-> "none"]

IdleSweep == [now_arg |-> 0, todo |-> {}, ids |-> {}, out |-> {}]

Init ==
  /\ now = 0
  /\ store = [a \in Actions |-> Absent]
  /\ proposing = [a \in Actions |-> "no"]
  /\ req = [r \in Requests |-> IdleRequest]
  /\ sweep = IdleSweep
  /\ sends = [a \in Actions |-> 0]
  /\ audit = [a \in Actions |-> {}]

-----------------------------------------------------------------------------
(* Helpers                                                                 *)

\* AuditPublisher::publish: the event reaches the broker, or is skipped (no
\* publisher) or swallowed (publish error).  A duplicate adds nothing.
Publish(a, kind) ==
  \/ audit' = [audit EXCEPT ![a] = @ \cup {kind}]
  \/ UNCHANGED audit

\* try_transition: the predicate's verdict and the write happen under the
\* entry lock.
SetStatus(a, s) == store' = [store EXCEPT ![a] = [@ EXCEPT !.status = s]]

\* The handler of r moves on to its next await.
GoTo(r, stage) == req' = [req EXCEPT ![r] = [@ EXCEPT !.stage = stage]]

\* The handler of r responds and is gone.
Answer(r, answer) ==
  req' = [req EXCEPT ![r] = [@ EXCEPT !.stage = "done", !.answer = answer]]

-----------------------------------------------------------------------------
(* The clock                                                               *)

Tick ==
  /\ now < MaxNow
  /\ now' = now + 1
  /\ UNCHANGED <<store, proposing, req, sweep, sends, audit>>

-----------------------------------------------------------------------------
(* Proposing: ApprovalFlow::propose, called by dispatch_write_tool         *)

\* Bound: a proposal is made only while the clock can still pass its expiry.
Propose(a, u) ==
  /\ proposing[a] = "no"                 \* Uuid::new_v4 is fresh
  /\ now + TTL < MaxNow
  /\ store' = [store EXCEPT ![a] = [status |-> "proposed", user |-> u,
                                    expires |-> now + TTL, outcome |-> "none"]]
  /\ proposing' = [proposing EXCEPT ![a] = "auditing"]
  /\ UNCHANGED <<now, req, sweep, sends, audit>>

AuditProposed(a) ==
  /\ proposing[a] = "auditing"
  /\ proposing' = [proposing EXCEPT ![a] = "returned"]
  /\ Publish(a, "proposed")
  /\ UNCHANGED <<now, store, req, sweep, sends>>

-----------------------------------------------------------------------------
(* Deciding: chat_approve and chat_reject                                  *)

\* Faulty variants of Verdict, to see that the properties notice: a decided
\* action can be decided again, anyone may decide, the expiry is forgotten, the
\* expiry is a tick late.
VerdictOnDecided(kind, a, u) ==
  IF store[a].status = "absent" THEN "not_found"
  ELSE IF store[a].user # u THEN "wrong_user"
  ELSE "granted"

VerdictForAnyone(kind, a, u) ==
  IF store[a].status = "absent" THEN "not_found"
  ELSE IF store[a].status # "proposed" THEN "decided"
  ELSE IF kind = "approve" /\ now >= store[a].expires THEN "expired"
  ELSE "granted"

VerdictWithoutExpiry(kind, a, u) ==
  IF store[a].status = "absent" THEN "not_found"
  ELSE IF store[a].status # "proposed" THEN "decided"
  ELSE IF store[a].user # u THEN "wrong_user"
  ELSE "granted"

VerdictLate(kind, a, u) ==
  IF store[a].status = "absent" THEN "not_found"
  ELSE IF store[a].status # "proposed" THEN "decided"
  ELSE IF store[a].user # u THEN "wrong_user"
  ELSE IF kind = "approve" /\ now > store[a].expires THEN "expired"
  ELSE "granted"

\* The predicates of confirm and reject, in the order they are tested, with
\* try_transition's NotFound in front.  Only confirm looks at the expiry.
Verdict(kind, a, u) ==
  IF store[a].status = "absent" THEN "not_found"
  ELSE IF store[a].status # "proposed" THEN "decided"
  ELSE IF store[a].user # u THEN "wrong_user"
  ELSE IF kind = "approve" /\ now >= store[a].expires THEN "expired"
  ELSE "granted"

\* The request ends here with a client error and has changed nothing; what it
\* asked for is forgotten.
TurnAway(r, answer) ==
  req' = [req EXCEPT ![r] = [IdleRequest EXCEPT !.stage = "done", !.answer = answer]]

\* The decision of r on a was taken; its handler awaits the audit event.
Decided(r, kind, a, u, stage) ==
  req' = [req EXCEPT ![r] = [IdleRequest EXCEPT !.stage = stage, !.kind = kind,
                                                !.action = a, !.user = u]]

\* The caller's token lacks the read+act scope, or carries no `sub`.
Forbid(r) ==
  /\ req[r].stage = "idle"
  /\ TurnAway(r, "forbidden")
  /\ UNCHANGED <<now, store, proposing, sweep, sends, audit>>

\* try_transition returned Err; approval_error_response answers.
Refuse(r, kind, a, u) ==
  /\ req[r].stage = "idle"
  /\ Verdict(kind, a, u) # "granted"
  /\ TurnAway(r, Verdict(kind, a, u))
  /\ UNCHANGED <<now, store, proposing, sweep, sends, audit>>

Confirm(r, a, u) ==
  /\ req[r].stage = "idle"
  /\ Verdict("approve", a, u) = "granted"
  /\ SetStatus(a, "approved")
  /\ Decided(r, "approve", a, u, "audit_approved")
  /\ UNCHANGED <<now, proposing, sweep, sends, audit>>

Reject(r, a, u) ==
  /\ req[r].stage = "idle"
  /\ Verdict("reject", a, u) = "granted"
  /\ SetStatus(a, "rejected")
  /\ Decided(r, "reject", a, u, "audit_rejected")
  /\ UNCHANGED <<now, proposing, sweep, sends, audit>>

AuditRejected(r) ==
  /\ req[r].stage = "audit_rejected"
  /\ Publish(req[r].action, "rejected")
  /\ Answer(r, "ok")
  /\ UNCHANGED <<now, store, proposing, sweep, sends>>

AuditApproved(r) ==
  /\ req[r].stage = "audit_approved"
  /\ Publish(req[r].action, "approved")
  /\ GoTo(r, "calling")
  /\ UNCHANGED <<now, store, proposing, sweep, sends>>

-----------------------------------------------------------------------------
(* Dispatching: McpPool::call and call_with_reconnect, seen from the gate  *)

\* call returned Err: the arguments violate the schema or are no object, or
\* no server provides the tool.  chat_approve answers 500 at once.
CallRefused(r) ==
  /\ req[r].stage = "calling"
  /\ Answer(r, "error")
  /\ UNCHANGED <<now, store, proposing, sweep, sends, audit>>

\* The session mutex is held and tools/call goes out.
Send(r) ==
  /\ req[r].stage = "calling"
  /\ sends' = [sends EXCEPT ![req[r].action] = @ + 1]
  /\ GoTo(r, "sent")
  /\ UNCHANGED <<now, store, proposing, sweep, audit>>

\* A transport error or the 60 s timeout, then a successful reopen: the call
\* is written again to the new session.
Resend(r) ==
  /\ req[r].stage = "sent"
  /\ sends' = [sends EXCEPT ![req[r].action] = @ + 1]
  /\ GoTo(r, "resent")
  /\ UNCHANGED <<now, store, proposing, sweep, audit>>

\* call returns Ok: with the server's result, or with trace.ok = false (a
\* server error, a failed reopen, or a second failure after the reopen).
CallReturned(r, outcome) ==
  /\ req[r].stage \in {"sent", "resent"}
  /\ req' = [req EXCEPT ![r] = [@ EXCEPT !.stage = "tool_called",
                                         !.outcome = outcome]]
  /\ UNCHANGED <<now, store, proposing, sweep, sends, audit>>

\* mark_executed's transition, under the entry lock.  chat_approve only logs an
\* Err of mark_executed and still answers 200.
MarkExecuted(r) ==
  /\ req[r].stage = "tool_called"
  /\ IF store[req[r].action].status = "approved"
     THEN SetStatus(req[r].action, "executed") /\ GoTo(r, "marked")
     ELSE Answer(r, "ok") /\ UNCHANGED store
  /\ UNCHANGED <<now, proposing, sweep, sends, audit>>

\* Faulty variant: the result is written only to an entry that is still Approved,
\* which the transition before it has just ended.
SetExecutionMetadataOfApproved(r) ==
  /\ req[r].stage = "marked"
  /\ store' = [store EXCEPT ![req[r].action].outcome =
                  IF store[req[r].action].status = "approved" THEN req[r].outcome ELSE @]
  /\ GoTo(r, "audit_executed")
  /\ UNCHANGED <<now, proposing, sweep, sends, audit>>

\* set_execution_metadata takes the entry lock anew: until it has it, an entry
\* is Executed and carries no result.  An entry that is gone is left alone.
SetExecutionMetadata(r) ==
  /\ req[r].stage = "marked"
  /\ store' = [store EXCEPT ![req[r].action].outcome =
                  IF store[req[r].action].status # "absent" THEN req[r].outcome ELSE @]
  /\ GoTo(r, "audit_executed")
  /\ UNCHANGED <<now, proposing, sweep, sends, audit>>

AuditExecuted(r) ==
  /\ req[r].stage = "audit_executed"
  /\ Publish(req[r].action, "executed")
  /\ Answer(r, "ok")
  /\ UNCHANGED <<now, store, proposing, sweep, sends>>

\* The TimeoutLayer (240 s) answers 408, or the client went away: the handler
\* future is dropped where it stands and nothing it still had to do happens.
Drop(r) ==
  /\ req[r].stage \in AwaitStages
  /\ Answer(r, "dropped")
  /\ UNCHANGED <<now, store, proposing, sweep, sends, audit>>

-----------------------------------------------------------------------------
(* Sweeping: run_cleanup_task and cleanup_expired                          *)

SweepIdle == sweep.todo = {} /\ sweep.ids = {} /\ sweep.out = {}

\* The ticker fires.  An entry inserted after this point expires after
\* now_arg, so whether the iterator meets it makes no difference.
SweepStart ==
  LET present == {a \in Actions : store[a].status # "absent"} IN
  /\ SweepIdle
  /\ present # {}
  /\ sweep' = [IdleSweep EXCEPT !.now_arg = now, !.todo = present]
  /\ UNCHANGED <<now, store, proposing, req, sends, audit>>

\* Faulty variants: the status is forgotten; the comparison is turned round.
ExpiredWhateverStatus(a) ==
  store[a].status # "absent" /\ store[a].expires < sweep.now_arg
ExpiredTurnedRound(a) ==
  store[a].status = "proposed" /\ sweep.now_arg < store[a].expires

\* The filter, evaluated on one entry under that entry's shard lock.
Expired(a) == store[a].status = "proposed" /\ store[a].expires < sweep.now_arg

SweepVisit(a) ==
  /\ a \in sweep.todo
  /\ sweep' = [sweep EXCEPT !.todo = @ \ {a},
                            !.ids = IF Expired(a) THEN @ \cup {a} ELSE @]
  /\ UNCHANGED <<now, store, proposing, req, sends, audit>>

\* entries.remove(&id): by id, without a second look at the status.
SweepRemove(a) ==
  /\ sweep.todo = {}
  /\ a \in sweep.ids
  /\ store' = [store EXCEPT ![a] = Absent]
  /\ sweep' = [sweep EXCEPT !.ids = @ \ {a}, !.out = @ \cup {a}]
  /\ UNCHANGED <<now, proposing, req, sends, audit>>

AuditExpired(a) ==
  /\ sweep.todo = {} /\ sweep.ids = {}
  /\ a \in sweep.out
  /\ sweep' = [sweep EXCEPT !.out = @ \ {a}]
  /\ Publish(a, "expired")
  /\ UNCHANGED <<now, store, proposing, req, sends>>

-----------------------------------------------------------------------------
ProposeStep == \E a \in Actions : AuditProposed(a) \/ \E u \in Users : Propose(a, u)

DecideStep(r) ==
  \/ Forbid(r)
  \/ \E a \in Actions, u \in Users :
       \/ Confirm(r, a, u)
       \/ Reject(r, a, u)
       \/ \E kind \in {"approve", "reject"} : Refuse(r, kind, a, u)

HandlerStep(r) ==
  \/ AuditApproved(r) \/ AuditRejected(r)
  \/ CallRefused(r) \/ Send(r) \/ Resend(r)
  \/ \E outcome \in {"ok", "failed"} : CallReturned(r, outcome)
  \/ MarkExecuted(r) \/ SetExecutionMetadata(r) \/ AuditExecuted(r)

SweepStep ==
  \/ SweepStart
  \/ \E a \in Actions : SweepVisit(a) \/ SweepRemove(a) \/ AuditExpired(a)

Next ==
  \/ Tick
  \/ ProposeStep
  \/ \E r \in Requests : DecideStep(r) \/ HandlerStep(r) \/ Drop(r)
  \/ SweepStep

Spec == Init /\ [][Next]_vars

\* Time passes and the sweeper, a task of its own on an interval, keeps being
\* scheduled.  Nothing is assumed of the users, the handlers or the servers.
FairSpec == Spec /\ WF_vars(Tick) /\ WF_vars(SweepStep)

-----------------------------------------------------------------------------
(* Properties                                                              *)

\* The requests whose try_transition returned Ok: the decision was theirs.
Deciders(a) ==
  {r \in Requests : req[r].action = a}

\* However confirms, rejects and sweeps of one action race, at most one request
\* is ever told that its decision stands (the double-confirm claim of flow.rs).
OneDecider == \A a \in Actions : Cardinality(Deciders(a)) <= 1

\* A write reaches a MCP server only after the proposer's own approval, and the
\* entry is then still there to be marked: no sweep, rejection or other user's
\* confirm can lie between the decision and the dispatch.
WriteNeedsOwnersApproval ==
  \A a \in Actions : sends[a] > 0 =>
    /\ store[a].status \in {"approved", "executed"}
    /\ \E r \in Deciders(a) : /\ req[r].kind = "approve"
                              /\ req[r].user = store[a].user

\* One approval puts the write on the wire at most twice: once, and once more
\* after the reopen of call_with_reconnect.  A retried, double-clicked or timed
\* out approval adds no third.
AtMostTwoSends == \A a \in Actions : sends[a] <= 2

\* An entry says Executed only if its tool call was made and came back to the
\* request that approved it, and what it carries is what that call returned: at
\* once, but for the moment in which its handler stands between the two locks of
\* mark_executed, whatever other requests, drops and sweeps do meanwhile.
ExecutedWasSent ==
  \A a \in Actions : store[a].status = "executed" =>
    /\ sends[a] > 0
    /\ \E r \in Deciders(a) :
         /\ req[r].kind = "approve" /\ req[r].outcome # "none"
         /\ store[a].outcome = req[r].outcome \/ req[r].stage = "marked"

\* The audit trail never tells two incompatible stories about a write that may
\* have run: approved or executed excludes rejected and expired.
AuditFatesAgree ==
  \A a \in Actions : audit[a] \cap {"approved", "executed"} # {} =>
    audit[a] \cap {"rejected", "expired"} = {}

\* The sweeper never takes away an approved action, whose handler is between
\* confirm and mark_executed, nor an executed one (module comment of state.rs),
\* although it deletes by id an unbounded time after it looked at the status.
ApprovedIsNeverSwept ==
  [][\A a \in Actions : store[a].status \in {"approved", "executed"} =>
       store'[a].status \in {"approved", "executed"}]_vars

\* An undecided proposal does not stay in the map for ever: it is decided or,
\* once its time to live is over, a sweep removes it.
ProposalsAreSettled ==
  \A a \in Actions : store[a].status = "proposed" ~> store[a].status # "proposed"

-----------------------------------------------------------------------------
(* Refinement: the gate implements WritePermit                             *)

\* The permit an entry stands for.  An id that was proposed and is no longer in
\* the map is a closed permit, and so is a rejected one, swept or not.
PermitState(a) ==
  IF proposing[a] = "no" THEN "unissued"
  ELSE IF store[a].status = "proposed" THEN "open"
  ELSE IF store[a].status \in {"approved", "executed"} THEN "granted"
  ELSE "closed"

PermitOf(a) ==
  [state |-> PermitState(a),
   deadline |-> IF PermitState(a) \in {"open", "granted"} THEN store[a].expires ELSE 0]

Abstract == INSTANCE WritePermit
  WITH clock <- now, permit <- [a \in Actions |-> PermitOf(a)], uses <- sends

\* Seen from outside, the racing handlers and the sweeper are a one-shot permit:
\* granted before its deadline and by one decision, used at most twice, closed
\* for good by a rejection or a sweep (the state diagram at the top of flow.rs).
ImplementsWritePermit == Abstract!Spec

-----------------------------------------------------------------------------
(* Refinement: the handlers see the pool as ToolCall                       *)

\* What has become of the call that a handler makes.
CallPhase(q) ==
  IF q.stage \in {"sent", "resent"} THEN "written"
  ELSE IF q.outcome # "none" THEN "over"
  ELSE IF q.kind = "approve" /\ q.answer = "error" THEN "over"
  ELSE IF q.kind = "approve" /\ q.answer = "dropped" THEN "gone"
  ELSE "new"

CallResult(q) ==
  IF CallPhase(q) # "over" THEN "none"
  ELSE IF q.outcome = "none" THEN "refused" ELSE q.outcome

\* The requests written for a handler: those for the action it decided, its own.
CallWire(q) == IF q.action = None THEN 0 ELSE sends[q.action]

Dispatch == INSTANCE ToolCall
  WITH Calls <- Requests,
       phase <- [r \in Requests |-> CallPhase(req[r])],
       wire <- [r \in Requests |-> CallWire(req[r])],
       result <- [r \in Requests |-> CallResult(req[r])]

\* An approval is one call of the pool, and its handler takes it for what the pool
\* promises, ToolCall: whichever handlers race or are dropped, what is written for an
\* action is written by the one call of the request that decided it, before that call
\* is over, and after its end neither its wire nor its result change.
DispatchesAsToolCall == Dispatch!Spec
=============================================================================
