--------------------------- MODULE PersonTracking ---------------------------
(***************************************************************************)
(* The first half of ComplianceRuleEngine._process: the detections of a    *)
(* frame go through the tracker, the tracks through the observation        *)
(* builder, and stale entries of the builder are evicted.  What comes out  *)
(* (seenNow) is what ComplianceEngine takes as its input.                  *)
(*                                                                         *)
(* The detector is external: "plain" never numbers a detection, "tracked"  *)
(* numbers all of them; "mixed" is ByteTrack as configured, which leaves   *)
(* all detections of a frame without a number when it has not confirmed    *)
(* any track in it (yolo_detector.py keeps track_id None then).            *)
(***************************************************************************)
EXTENDS IoUTracker, ObservationBuilder, FiniteSets

CONSTANTS
  Detectors,   (* the kinds of detector considered                 *)
  HandBoxes,   (* where a hand can be                              *)
  SinkSights,  (* the sinks a frame may show, each a sequence      *)
  MaxNumber,   (* bound: numbers the detector gives                *)
  MaxSeen,     (* bound: persons detected in a frame               *)
  MaxFrames,   (* bound: frames                                    *)
  MaxGap       (* bound: ticks between two frames                  *)

(* The persons come in the order of their tracks, which matters only for a *)
(* hand that is as near to one of them as to another: leave these out.     *)
EquallyNear(hand, a, b) ==
  Distance2(Center(hand), Center(a)) = Distance2(Center(hand), Center(b))

ASSUME TrackingConfigOK ==
  /\ Detectors \subseteq {"plain", "tracked", "mixed"}
  /\ \A hand \in HandBoxes : \A a, b \in Boxes : EquallyNear(hand, a, b) => a = b
  /\ MaxNumber \in Nat /\ MaxSeen \in Nat /\ MaxFrames \in Nat /\ MaxGap \in Nat \ {0}

VARIABLES
  detector,    (* the detector in use                                       *)
  lastNumber,  (* the last number the detector has given                    *)
  now,         (* capture time of the frame                                 *)
  frames,      (* frames so far                                             *)
  detected,    (* number of detections of the frame                         *)
  issued,      (* history: ids returned in earlier frames                   *)
  lately       (* history: per id, since the last eviction was due, the     *)
               (* hands in the frames it was seen in, and when it was seen  *)

frameVars == <<detector, lastNumber, now, frames, detected>>
vars == <<tracker, builder, frameVars, issued, lately>>

TypeOK ==
  /\ TrackerTypeOK /\ BuilderTypeOK
  /\ detector \in Detectors /\ lastNumber \in Nat /\ now \in Nat /\ frames \in 0..MaxFrames
  /\ detected \in 0..MaxSeen

(* The numbers ByteTrack may give: its own old ones, and the next ones. *)
NumberedAs(ids) ==
  /\ Cardinality({ids[i] : i \in DOMAIN ids}) = Len(ids)
  /\ \A i \in DOMAIN ids :
       ids[i] <= lastNumber + Cardinality({j \in DOMAIN ids : ids[j] > lastNumber})

Numberings(n) ==
  LET none == [i \in 1..n |-> NoId]
      all  == {ids \in [1..n -> 1..MaxNumber] : NumberedAs(ids)}
  IN  CASE detector = "plain"   -> {none}
        [] detector = "tracked" -> all
        [] detector = "mixed"   -> all \cup {none}

Placements(n) == {p \in [1..n -> Boxes] : \A i, j \in 1..n : p[i] = p[j] => i = j}

(* What a frame with n persons at places p may show of each of them: by    *)
(* the hands and sinks in the frame, and the movement.                     *)
Shots ==
  [n \in 0..MaxSeen |->
     [p \in Placements(n) |->
        {[i \in 1..n |-> HandsShown(i, p, hands, sinks, i \in moving)] :
           hands \in SUBSET HandBoxes, sinks \in SinkSights, moving \in SUBSET (1..n)}]]

(* A person id has the hands of its detection (of all its detections, if   *)
(* the tracker has given it to several).                                   *)
HandsOf(id, result, shot) ==
  LET shown == {shot[result[i].det] : i \in {j \in DOMAIN result : result[j].id = id}}
  IN  IF "washing" \in shown THEN "washing" ELSE IF "near" \in shown THEN "near" ELSE "none"

Remember(hands, t) ==
  LET old == {id \in DOMAIN lately : id \in DOMAIN hands \/ t - lately[id].at <= StaleSeconds}
  IN  lately' = [id \in old \cup DOMAIN hands |->
        IF id \notin DOMAIN hands THEN lately[id]
        ELSE [at |-> t,
              look |-> Append(IF id \in old THEN lately[id].look ELSE <<>>,
                              [at |-> t, hands |-> hands[id]])]]

Frame(n, p, ids, gap) ==
  /\ frames < MaxFrames
  /\ frames' = frames + 1 /\ now' = now + gap
  /\ detected' = n /\ UNCHANGED detector
  /\ lastNumber' = lastNumber + Cardinality({i \in 1..n : ids[i] # NoId /\ ids[i] > lastNumber})
  /\ Update([i \in 1..n |-> [box |-> p[i], id |-> ids[i]]])
  /\ issued' = issued \cup Ids(returned)
  /\ \E shot \in Shots[n][p] :
       LET hands == [id \in Ids(returned') |-> HandsOf(id, returned', shot)]
       IN  Build(hands, now + gap) /\ Remember(hands, now + gap)

Init ==
  /\ TrackerInit /\ BuilderInit
  /\ detector \in Detectors /\ lastNumber = 0 /\ now = 0 /\ frames = 0
  /\ detected = 0 /\ issued = {} /\ lately = <<>>

Next ==
  \E n \in 0..MaxSeen, gap \in 1..MaxGap : \E p \in Placements(n), ids \in Numberings(n) :
    Frame(n, p, ids, gap)

Spec == Init /\ [][Next]_vars

----------------------------------------------------------------------------
(* Properties *)

(* Every person detection comes back as exactly one track, and no two of   *)
(* them under the same id: two persons are never one person to the engine. *)
OneIdPerPerson ==
  /\ TypeOK
  /\ {returned[i].det : i \in DOMAIN returned} = 1..detected
  /\ Len(returned) = detected
  /\ Cardinality(Ids(returned)) = Len(returned)

(* tracker.py:78 "New detections get a new track_id": a detection that     *)
(* matches no remembered track (these are returned last, one for each id   *)
(* the tracker has counted) never gets an id somebody had before.          *)
NewIdsAreNew ==
  [][\A i \in DOMAIN returned' :
       i > Len(returned') - (nextId' - nextId) => returned'[i].id \notin issued']_vars

(* A person is at the sink exactly when a hand was near it less than       *)
(* reset_after_no_detection_seconds ago, however many frames were missed   *)
(* in between and whether or not the person was in them.                   *)
InsideIffHandLately ==
  \A id \in DOMAIN seenNow :
    seenNow[id].inside <=>
      \E i \in DOMAIN lately[id].look :
        /\ lately[id].look[i].hands # "none"
        /\ now - lately[id].look[i].at < ResetSeconds \/ lately[id].look[i].at = now

(* Washing is confirmed exactly when ConfirmFrames frames since the last   *)
(* gap gave evidence, a gap being HoldFrames frames of the person in a row *)
(* without any: single misses neither lose nor add confirmation.           *)
Gap(look, i) ==
  i >= HoldFrames /\ \A k \in (i - HoldFrames + 1)..i : look[k].hands # "washing"

ConfirmedByEvidence ==
  \A id \in DOMAIN seenNow :
    LET look  == lately[id].look
        since == {k \in DOMAIN look :
                    look[k].hands = "washing" /\ \A i \in k..Len(look) : ~Gap(look, i)}
    IN  seenNow[id].hands <=> Cardinality(since) >= ConfirmFrames
=============================================================================
