------------------------------ MODULE ToolCall ------------------------------
(***************************************************************************)
(* What a caller of McpPool::call may count on: a call is refused before   *)
(* anything is written, or its request is written once, at most once more, *)
(* and only then it returns; it may be abandoned at any time.              *)
(***************************************************************************)
EXTENDS Naturals

CONSTANT Calls

VARIABLES
  phase,   (* of each call                                               *)
  wire,    (* how often its request was written to a server              *)
  result   (* what call returned                                         *)

callVars == <<phase, wire, result>>

Init ==
  /\ phase = [c \in Calls |-> "new"]
  /\ wire = [c \in Calls |-> 0]
  /\ result = [c \in Calls |-> "none"]

\* Err: the tool is unknown or its arguments violate the schema.
Refuse(c) ==
  /\ phase[c] = "new"
  /\ phase' = [phase EXCEPT ![c] = "over"]
  /\ result' = [result EXCEPT ![c] = "refused"]
  /\ UNCHANGED wire

Write(c) ==
  /\ phase[c] \in {"new", "written"} /\ wire[c] < 2
  /\ phase' = [phase EXCEPT ![c] = "written"]
  /\ wire' = [wire EXCEPT ![c] = @ + 1]
  /\ UNCHANGED result

\* Ok, with a trace that says ok or not.
Finish(c) ==
  /\ phase[c] = "written"
  /\ phase' = [phase EXCEPT ![c] = "over"]
  /\ \E r \in {"ok", "failed"} : result' = [result EXCEPT ![c] = r]
  /\ UNCHANGED wire

\* The caller's future is dropped.
Abandon(c) ==
  /\ phase[c] \in {"new", "written"}
  /\ phase' = [phase EXCEPT ![c] = "gone"]
  /\ UNCHANGED <<wire, result>>

Next == \E c \in Calls : Refuse(c) \/ Write(c) \/ Finish(c) \/ Abandon(c)

Spec == Init /\ [][Next]_callVars
=============================================================================
