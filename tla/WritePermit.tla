---------------------------- MODULE WritePermit ----------------------------
(***************************************************************************)
(* What the approval gate promises, without the tasks that carry it out:   *)
(* a write tool runs under a permit.  A permit is issued with a deadline,  *)
(* granted or closed once, and a granted one covers the call and one retry *)
(* of it.  Nothing reopens a permit.                                       *)
(***************************************************************************)
EXTENDS Naturals

CONSTANTS
  Actions,   (* the writes that may be asked for                        *)
  TTL        (* how long a permit stays open                            *)

VARIABLES
  clock,
  permit,    (* state and deadline of each action's permit              *)
  uses       (* how often each write was put on the wire                *)

permitVars == <<clock, permit, uses>>

Permit(state, deadline) == [state |-> state, deadline |-> deadline]

Init ==
  /\ clock = 0
  /\ permit = [a \in Actions |-> Permit("unissued", 0)]
  /\ uses = [a \in Actions |-> 0]

Advance ==
  /\ clock' = clock + 1
  /\ UNCHANGED <<permit, uses>>

Issue(a) ==
  /\ permit[a].state = "unissued"
  /\ permit' = [permit EXCEPT ![a] = Permit("open", clock + TTL)]
  /\ UNCHANGED <<clock, uses>>

\* Only before the deadline.
Grant(a) ==
  /\ permit[a].state = "open"
  /\ clock < permit[a].deadline
  /\ permit' = [permit EXCEPT ![a].state = "granted"]
  /\ UNCHANGED <<clock, uses>>

\* The proposer may refuse at any time, even after the deadline.
Withdraw(a) ==
  /\ permit[a].state = "open"
  /\ permit' = [permit EXCEPT ![a] = Permit("closed", 0)]
  /\ UNCHANGED <<clock, uses>>

\* Nobody decided: only after the deadline.
Lapse(a) ==
  /\ permit[a].state = "open"
  /\ clock > permit[a].deadline
  /\ permit' = [permit EXCEPT ![a] = Permit("closed", 0)]
  /\ UNCHANGED <<clock, uses>>

Use(a) ==
  /\ permit[a].state = "granted"
  /\ uses[a] < 2
  /\ uses' = [uses EXCEPT ![a] = @ + 1]
  /\ UNCHANGED <<clock, permit>>

Next ==
  \/ Advance
  \/ \E a \in Actions :
       Issue(a) \/ Grant(a) \/ Withdraw(a) \/ Lapse(a) \/ Use(a)

Spec == Init /\ [][Next]_permitVars
=============================================================================
