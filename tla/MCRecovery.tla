----------------------------- MODULE MCRecovery -----------------------------
(* Recovery with one more task on the publisher.                           *)
EXTENDS Recovery

CONSTANT chat

MCEvents == 1..MaxMessages \cup {chat}
=============================================================================
