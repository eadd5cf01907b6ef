---------------------------- MODULE MCHeartbeats ----------------------------
(* The tap and the own heartbeat, side by side: they share no state, and a *)
(* behaviour is of one of them.                                            *)
EXTENDS Heartbeats, OwnHeartbeat

VARIABLE part

\* The initial choices that a part makes, for the other one of them.
TapRests == skew = [s \in Services |-> 0]
OwnRests == broker = "up"

BeatsInit ==
  /\ Init /\ OwnInit
  /\ \/ part = "tap" /\ OwnRests
     \/ part = "own" /\ TapRests

InTap(A) == part = "tap" /\ A /\ UNCHANGED <<own_vars, part>>
InOwn(A) == part = "own" /\ A /\ UNCHANGED <<vars, part>>

BeatsNext == InTap(Next) \/ InOwn(OwnNext)

BeatsSpec == BeatsInit /\ [][BeatsNext]_<<vars, own_vars, part>>
=============================================================================
