---------------------------- MODULE MCChatStream ----------------------------
(* ChatStream on a small instance: of two tool calls in a round the second *)
(* is a write, and both channels hold one event.                           *)
EXTENDS ChatStream

SecondIsAWrite == {2}
=============================================================================
