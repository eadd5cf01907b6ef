---------------------------- MODULE MCLifecycle -----------------------------
(* Lifecycle with two of the background tasks, one of them the incident    *)
(* consumer.                                                               *)
EXTENDS Lifecycle

CONSTANT Sweeper

TwoTasks == <<Sweeper, Incident>>
=============================================================================
