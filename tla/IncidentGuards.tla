--------------------------- MODULE IncidentGuards ---------------------------
(***************************************************************************)
(* The two guards in front of the diagnose pipeline, as operators on their *)
(* states: Budget (incident/budget.rs) and Debouncer (incident/debounce.rs).*)
(* Both live in the consumer task's process and are read and written under *)
(* one lock, so one call is one step.                                      *)
(***************************************************************************)
EXTENDS Integers

CONSTANTS
  MaxPerHour,      (* Budget.max_per_hour                               *)
  Window,          (* budget.rs WINDOW, in ticks                        *)
  DebounceWindow   (* Debouncer.window, in ticks                        *)

ASSUME GuardsAssumption ==
  /\ MaxPerHour \in Nat \ {0}        \* from_env keeps n > 0 only
  /\ Window \in Nat \ {0}
  /\ DebounceWindow \in Nat \ {0}    \* from_env keeps n > 0 only

-----------------------------------------------------------------------------
(* Budget                                                                  *)

\* open_until is 0 for None: the circuit never opens until instant 0.
BudgetState == [accepted_in_window : Nat, window_started_at : Nat, open_until : Nat]

NewBudget(now) ==
  [accepted_in_window |-> 0, window_started_at |-> now, open_until |-> 0]

CircuitOpen(b, now) == b.open_until # 0 /\ now < b.open_until

\* Faulty variant: the window is only renewed by the circuit.
RefreshedByCircuitOnly(b, now) == IF b.open_until # 0 THEN NewBudget(now) ELSE b

\* The two auto-resets of try_consume, for a circuit that is not open (any more).
Refreshed(b, now) ==
  IF b.open_until # 0 \/ now - b.window_started_at >= Window
  THEN NewBudget(now)
  ELSE b

\* Faulty variant: one too many.
AllowedOneMore(b, now) ==
  ~CircuitOpen(b, now) /\ Refreshed(b, now).accepted_in_window <= MaxPerHour

\* try_consume returns Allowed.
Allowed(b, now) ==
  ~CircuitOpen(b, now) /\ Refreshed(b, now).accepted_in_window < MaxPerHour

\* The state try_consume leaves behind.
Consumed(b, now) ==
  IF CircuitOpen(b, now) THEN b
  ELSE IF Allowed(b, now)
  THEN [Refreshed(b, now) EXCEPT !.accepted_in_window = @ + 1]
  ELSE [Refreshed(b, now) EXCEPT !.open_until = now + Window]

-----------------------------------------------------------------------------
(* Debouncer: last_fired maps the services seen so far to an instant       *)

\* Faulty variant: the comparison is turned round.
FreshInverted(last_fired, service, now) ==
  service \in DOMAIN last_fired => now - last_fired[service] < DebounceWindow

\* check returns Ok.
Fresh(last_fired, service, now) ==
  service \in DOMAIN last_fired => now - last_fired[service] >= DebounceWindow

\* The map after an Ok.
Fired(last_fired, service, now) ==
  [s \in DOMAIN last_fired \cup {service} |->
     IF s = service THEN now ELSE last_fired[s]]
=============================================================================
