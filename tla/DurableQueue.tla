---------------------------- MODULE DurableQueue ----------------------------
(***************************************************************************)
(* What a durable queue and its one consumer promise together, without the *)
(* connection between them: messages are numbered as they are published,   *)
(* and each is kept until it has been handled.  They are in hand one at a  *)
(* time and are first handled in their order; a message may be handled     *)
(* again, as long as it is kept, and never after.                          *)
(***************************************************************************)
EXTENDS Naturals

VARIABLES
  published,  (* how many there are                                         *)
  kept,       (* the messages the queue answers for                         *)
  hand,       (* the message in the consumer's hand, or 0                   *)
  handled     (* those whose handling came to its end at least once         *)

queueVars == <<published, kept, hand, handled>>

Init == published = 0 /\ kept = {} /\ hand = 0 /\ handled = {}

Publish ==
  /\ published' = published + 1
  /\ kept' = kept \cup {published + 1}
  /\ UNCHANGED <<hand, handled>>

\* Nothing is taken before its predecessors have been handled.
Take(m) ==
  /\ hand = 0 /\ m \in kept
  /\ \A n \in 1..(m - 1) : n \in handled
  /\ hand' = m
  /\ handled' \in {handled, handled \cup {m}}
  /\ UNCHANGED <<published, kept>>

Handle ==
  /\ hand # 0
  /\ handled' = handled \cup {hand}
  /\ UNCHANGED <<published, kept, hand>>

Settle ==
  /\ hand \in handled
  /\ kept' = kept \ {hand} /\ hand' = 0
  /\ UNCHANGED <<published, handled>>

\* The consumer is gone, or its answer is lost: the message will come again.
LetGo ==
  /\ hand # 0 /\ hand' = 0
  /\ UNCHANGED <<published, kept, handled>>

Next == Publish \/ (\E m \in 1..published : Take(m)) \/ Handle \/ Settle \/ LetGo

Spec == Init /\ [][Next]_queueVars
=============================================================================
