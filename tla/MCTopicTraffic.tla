--------------------------- MODULE MCTopicTraffic ---------------------------
(* Instances of TopicTraffic for TLC. *)
EXTENDS TopicTraffic

MCMessages == Publishers \X (1..PerPublisher)
=============================================================================
