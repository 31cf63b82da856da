------------------------ MODULE HandwashStateMachine ------------------------
(***************************************************************************)
(* The transition table of one tracked person                              *)
(* (backend/app/compliance/state_machine.py).  The class keeps no state: it *)
(* is a function of the current state and of one domain observation, so the *)
(* module only holds operators.                                            *)
(*                                                                         *)
(* An observation is reduced to the two flags the table reads (inside_sink *)
(* _zone, hands_interacting) and to whether the person was really seen in  *)
(* the frame (real) or the observation was synthesised by the engine.      *)
(***************************************************************************)

NOT_NEAR_SINK         == "NOT_NEAR_SINK"
NEAR_SINK_NOT_WASHING == "NEAR_SINK_NOT_WASHING"
WASHING               == "WASHING"
WASHED                == "WASHED"
NOT_WASHED            == "NOT_WASHED"

HandwashState == {NOT_NEAR_SINK, NEAR_SINK_NOT_WASHING, WASHING, WASHED, NOT_WASHED}

Terminal == {WASHED, NOT_WASHED}

Observation == [inside : BOOLEAN, hands : BOOLEAN, real : BOOLEAN]

(* The state after an observation. *)
NextState(state, obs) ==
  IF ~obs.inside THEN NOT_NEAR_SINK
  ELSE IF state \in Terminal THEN state
  ELSE IF state # NOT_NEAR_SINK /\ obs.hands THEN WASHING
  ELSE NEAR_SINK_NOT_WASHING

(* The two transition reasons the engine acts on: "entered_sink_area" and  *)
(* "new_visit_after_terminal".                                             *)
StartsNewVisit(state, obs) ==
  \/ state = NOT_NEAR_SINK /\ obs.inside
  \/ state \in Terminal /\ ~obs.inside
=============================================================================
