--------------------------- MODULE MCAlertPipeline ---------------------------
(* Instances of AlertPipeline for TLC.  Topics of two messages stand for    *)
(* the ten of the configuration, and as many looks for the twenty: what     *)
(* matters is that a topic is never longer than the looks.                  *)
EXTENDS AlertPipeline, TLC
=============================================================================
