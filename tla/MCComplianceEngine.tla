------------------------ MODULE MCComplianceEngine ------------------------
(* Instances of ComplianceEngine for TLC.  One tick stands for several of  *)
(* the seconds of config.yaml; the ratios that matter are kept: a cooldown *)
(* longer than the gap between frames, a washing time longer than one      *)
(* frame, a grace window of a frame or two.                                *)
EXTENDS ComplianceEngine, TLC
=============================================================================
