----------------------------- MODULE VisitLedger -----------------------------
(***************************************************************************)
(* What the compliance engine promises about visits to a sink, without     *)
(* frames, clocks, cooldowns or buffers: a visit (a group id) is opened    *)
(* once, and it is judged at most once, compliant or alerted, for good.    *)
(* While the process lives no open visit disappears without a judgement.   *)
(***************************************************************************)
VARIABLES
  open,      (* visits in progress                      *)
  cleared,   (* visits judged compliant                 *)
  alerted    (* visits for which a violation was raised *)

judged == cleared \cup alerted

Init == open = {} /\ cleared = {} /\ alerted = {}

(* Any number of persons are evaluated in one frame: some visits open, some *)
(* open ones are judged.                                                   *)
Frame ==
  /\ cleared \subseteq cleared' /\ alerted \subseteq alerted'
  /\ judged' \ judged \subseteq open
  /\ cleared' \cap alerted' = {}
  /\ open \ open' \subseteq judged'
  /\ open' \cap judged' = {}

(* The process ends: visits in progress are forgotten. *)
Lose == open' = {} /\ UNCHANGED <<cleared, alerted>>

Next == Frame \/ Lose

Spec == Init /\ [][Next]_<<open, cleared, alerted>>
=============================================================================
