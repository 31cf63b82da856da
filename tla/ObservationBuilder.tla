------------------------- MODULE ObservationBuilder -------------------------
(***************************************************************************)
(* What the engine is told of each person in a frame                       *)
(* (backend/app/compliance/observation.py): whether the person is at a     *)
(* sink, with a grace period for hands that are missed, and whether        *)
(* washing is confirmed, by a count of frames with evidence.               *)
(*                                                                         *)
(* From the boxes of a frame follows what it shows of a person's hands:    *)
(* "none" near the person's sink, "near" the sink without washing          *)
(* evidence, or "washing" (near, enough hands, moving).  Whether they move *)
(* is given: the running average of their movement is left out.            *)
(***************************************************************************)
EXTENDS Geometry, FiniteSets

CONSTANTS
  ConfirmFrames,   (* confirmation_frames                  *)
  HoldFrames,      (* washing_hold_frames                  *)
  ResetSeconds,    (* reset_after_no_detection_seconds     *)
  StaleSeconds,    (* stale_threshold_seconds              *)
  Never,           (* last_hand_near_sink_at is None       *)
  ExpandX, ExpandY,                 (* person_box_expand_x, _y, in percent     *)
  MaxSinkDistance,                  (* max_person_sink_distance, in percent    *)
  SinkSide, SinkTop, SinkBottom,    (* margins of a sink, in percent           *)
  MinHands                          (* min_hands_for_washing                   *)

ASSUME BuilderConfigOK ==
  /\ ConfirmFrames \in Nat \ {0} /\ HoldFrames \in Nat \ {0}
  /\ ResetSeconds \in Nat /\ StaleSeconds \in Nat
  /\ Never \notin Nat
  /\ MinHands \in Nat \ {0}
  /\ {ExpandX, ExpandY, MaxSinkDistance, SinkSide, SinkTop, SinkBottom} \subseteq Nat

VARIABLES
  tracking,   (* _tracking: a record for each person id in its domain *)
  seenNow     (* the observations of the frame, by person id           *)

builder == <<tracking, seenNow>>

Hands == {"none", "near", "washing"}

BuilderTypeOK ==
  /\ DOMAIN tracking \subseteq Nat
  /\ \A id \in DOMAIN tracking :
       tracking[id] \in [positive : Nat, none : Nat, nearAt : Nat \cup {Never}, seenAt : Nat]
  /\ DOMAIN seenNow \subseteq Nat
  /\ \A id \in DOMAIN seenNow : seenNow[id] \in [inside : BOOLEAN, hands : BOOLEAN]

BuilderInit == tracking = <<>> /\ seenNow = <<>>

----------------------------------------------------------------------------
(* The person a hand belongs to, by number, or 0: of those whose expanded   *)
(* box has the center of the hand in it, the one with the nearest center.   *)
OwnerOf(hand, persons) ==
  LET holding == {i \in DOMAIN persons :
                    InsideExpanded(Center(hand), persons[i], ExpandX, ExpandY)}
      far(i)  == Distance2(Center(hand), Center(persons[i]))
      nearer(i, j) == far(i) < far(j)
  IN  IF holding = {} THEN 0 ELSE FirstBest(holding, nearer)

(* What person i shows, among the persons, hands and sinks of a frame.      *)
HandsShown(i, persons, hands, sinks, moving) ==
  LET own  == {h \in hands : OwnerOf(h, persons) = i}
      sink == SinkOf(persons[i], sinks, MaxSinkDistance)
      near == sink # 0 /\ \E h \in own : NearSink(h, sinks[sink], SinkSide, SinkTop, SinkBottom)
  IN  CASE ~near -> "none"
        [] near /\ (Cardinality(own) < MinHands \/ ~moving) -> "near"
        [] OTHER -> "washing"

----------------------------------------------------------------------------
(* _get_or_create *)
Entry(id, t) ==
  IF id \in DOMAIN tracking THEN [tracking[id] EXCEPT !.seenAt = t]
  ELSE [positive |-> 0, none |-> 0, nearAt |-> Never, seenAt |-> t]

(* Mutant: one frame without evidence ends the hold. *)
CountEvidenceNoHold(e, hands) ==
  IF hands = "washing" THEN [e EXCEPT !.positive = @ + 1, !.none = 0]
  ELSE [e EXCEPT !.none = @ + 1, !.positive = 0]

(* Frames with evidence are counted; the count is dropped only when a run  *)
(* of HoldFrames frames had none.                                          *)
CountEvidence(e, hands) ==
  IF hands = "washing" THEN [e EXCEPT !.positive = @ + 1, !.none = 0]
  ELSE [e EXCEPT !.none = @ + 1,
                 !.positive = IF e.none + 1 >= HoldFrames THEN 0 ELSE @]

AtSink(e, hands, t) ==
  \/ hands # "none"
  \/ e.nearAt # Never /\ t - e.nearAt < ResetSeconds

(* Mutant: the grace period starts again in every frame it covers. *)
NearSinceRenewed(e, hands, t) ==
  IF AtSink(e, hands, t) THEN [e EXCEPT !.nearAt = t] ELSE e

NearSince(e, hands, t) == IF hands # "none" THEN [e EXCEPT !.nearAt = t] ELSE e

Observed(e, hands, t) ==
  [inside |-> AtSink(e, hands, t), hands |-> CountEvidence(e, hands).positive >= ConfirmFrames]

(* evict_stale *)
StillTracked(e, t) == t - e.seenAt <= StaleSeconds

(* build() for the persons in seen, whose hands are given, then            *)
(* evict_stale(); both at the time of the frame.                           *)
Build(hands, t) ==
  LET seen  == DOMAIN hands
      after == [id \in DOMAIN tracking \cup seen |->
                  IF id \in seen
                  THEN NearSince(CountEvidence(Entry(id, t), hands[id]), hands[id], t)
                  ELSE tracking[id]]
  IN  /\ seenNow' = [id \in seen |-> Observed(Entry(id, t), hands[id], t)]
      /\ tracking' = [id \in {i \in DOMAIN after : StillTracked(after[i], t)} |-> after[id]]
=============================================================================
