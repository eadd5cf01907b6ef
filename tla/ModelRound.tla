----------------------------- MODULE ModelRound -----------------------------
(***************************************************************************)
(* What one call of the model promises the orchestrator (the StreamEvents  *)
(* of llm/mod.rs): pieces of blocks while it lasts, at most one outcome,   *)
(* and an outcome that says what the pieces said.  A call may also never   *)
(* come to an outcome.                                                     *)
(***************************************************************************)
EXTENDS Naturals

CONSTANTS
  Blocks,    (* the positions of the blocks of an assistant turn *)
  MaxParts   (* bound: pieces of one block                       *)

VARIABLES
  told,       (* pieces of each block that were passed on                *)
  started,    (* the tool_use blocks that were started                 *)
  status,     (* open, done or failed                                    *)
  answer      (* stop reason and content, once done                      *)

-----------------------------------------------------------------------------
Kinds == {"text", "thinking", "redacted", "tool_use"}
Stops == {"end_turn", "tool_use", "max_tokens", "premature_close", "other"}

\* whole: the arguments of a call parse, a thinking block is signed; the other
\* kinds have nothing that could be missing.
Block == [kind : Kinds, parts : 0..MaxParts, whole : BOOLEAN]
Content == UNION {[B -> Block] : B \in SUBSET Blocks}

NoAnswer == [stop |-> "other", content |-> [b \in {} |-> {}]]

CallsIn(content) == {b \in DOMAIN content : content[b].kind = "tool_use"}

\* The text that was passed on is the text of the answer.  If the answer wants
\* tools, its blocks are complete and its calls are those that were started, or
\* none was, by a provider that does not stream.
Promised(ans) ==
  /\ \A b \in Blocks \ started :
       told[b] > 0 => b \in DOMAIN ans.content /\ ans.content[b].parts = told[b]
  /\ ans.stop = "tool_use" =>
       /\ started \in {{}, CallsIn(ans.content)}
       /\ \A b \in DOMAIN ans.content : ans.content[b].whole

-----------------------------------------------------------------------------
Init ==
  /\ told = [b \in Blocks |-> 0] /\ started = {}
  /\ status = "open" /\ answer = NoAnswer

Tell(b) ==
  /\ status = "open"
  /\ told' = [told EXCEPT ![b] = @ + 1]
  /\ UNCHANGED <<started, status, answer>>

Announce(b) ==
  /\ status = "open" /\ b \notin started
  /\ told[b] = 0
  /\ started' = started \cup {b}
  /\ UNCHANGED <<told, status, answer>>

Finish ==
  /\ status = "open"
  /\ answer' \in [stop : Stops, content : Content] /\ Promised(answer')
  /\ status' = "done"
  /\ UNCHANGED <<told, started>>

Fail ==
  /\ status = "open"
  /\ status' = "failed"
  /\ UNCHANGED <<told, started, answer>>

Next == (\E b \in Blocks : Tell(b) \/ Announce(b)) \/ Finish \/ Fail

Spec == Init /\ [][Next]_<<told, started, status, answer>>
=============================================================================
