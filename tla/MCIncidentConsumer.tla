------------------------- MODULE MCIncidentConsumer -------------------------
(* IncidentConsumer on a small instance: services that fail, one body that  *)
(* does not decode and one incident below the severity threshold.           *)
EXTENDS IncidentConsumer

CONSTANTS s1, s2, s3

SmallIncidents ==
  [service : Services, kind : {"actionable"}]
    \cup {[service |-> s1, kind |-> "garbage"], [service |-> s1, kind |-> "low"]}
=============================================================================
