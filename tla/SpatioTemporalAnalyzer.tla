----------------------- MODULE SpatioTemporalAnalyzer -----------------------
(***************************************************************************)
(* The per-person record of the state store and the durations derived from *)
(* it (backend/app/compliance/temporal/analyzer.py).                       *)
(*                                                                         *)
(* Time is an integer number of ticks.  Left out of the record: the fields *)
(* that are written and never read by a decision (observation_count,       *)
(* sequence_valid, positive_frames, hand_movement_score, last_seen_at: the *)
(* continuity flag computed from it is reported but no rule reads it).     *)
(*                                                                         *)
(* "group_id" is absent from an initial record, and None after it has been *)
(* cleared; the two are told apart because the engine publishes            *)
(* get("group_id", "unknown").                                             *)
(***************************************************************************)
EXTENDS Integers, HandwashStateMachine

CONSTANTS
  None,     (* the value None                                    *)
  Missing   (* no such key in the record                         *)

(* Mutant: the operands of the subtraction swapped. *)
ElapsedSwapped(from, to) == from - to

(* max(0, (to - from).total_seconds()) *)
Elapsed(from, to) == IF from <= to THEN to - from ELSE 0

(* initial_person_state(person_id, timestamp).  group_id and               *)
(* violation_confirmed are not among its keys; the latter reads as False.  *)
InitialPersonState(t) ==
  [current   |-> NOT_NEAR_SINK,
   started   |-> t,
   atSink    |-> 0,
   washing   |-> 0,
   lastFrame |-> -1,
   absence   |-> 0,
   pending   |-> None,
   group     |-> Missing,
   confirmed |-> FALSE]

(* Mutant: the start of the state is not moved by a transition. *)
UpdateStateKeepsStart(ps, new, t) ==
  [ps EXCEPT
     !.atSink  = @ + IF new # ps.current /\ ps.current = NEAR_SINK_NOT_WASHING
                     THEN Elapsed(ps.started, t) ELSE 0,
     !.washing = @ + IF new # ps.current /\ ps.current = WASHING
                     THEN Elapsed(ps.started, t) ELSE 0,
     !.current = new]

(* Fold a transition into the record: the time spent in the outgoing state *)
(* is added to its counter, and the new state starts now.                  *)
UpdateState(ps, new, t) ==
  IF new = ps.current THEN ps
  ELSE [ps EXCEPT
         !.atSink  = @ + IF ps.current = NEAR_SINK_NOT_WASHING
                         THEN Elapsed(ps.started, t) ELSE 0,
         !.washing = @ + IF ps.current = WASHING
                         THEN Elapsed(ps.started, t) ELSE 0,
         !.started = t,
         !.current = new]

(* TemporalMetrics: the accumulated seconds, plus the ongoing ones. *)
AtSinkDuration(ps, t) ==
  ps.atSink + IF ps.current = NEAR_SINK_NOT_WASHING THEN Elapsed(ps.started, t) ELSE 0

WashingDuration(ps, t) ==
  ps.washing + IF ps.current = WASHING THEN Elapsed(ps.started, t) ELSE 0
=============================================================================
