----------------------------- MODULE IoUTracker -----------------------------
(***************************************************************************)
(* The tracker that names the persons in a frame                           *)
(* (backend/app/compliance/tracker.py).  If every person detection of a    *)
(* frame carries an id of the detector's own tracker (ByteTrack) those ids *)
(* are taken over; otherwise all ids of the frame are ignored and boxes    *)
(* are matched to the remembered tracks by overlap, with ids of its own    *)
(* for boxes that match none.                                              *)
(*                                                                         *)
(* A box is a place, and overlap a rank: Overlap(a, b) is 0 when the IoU   *)
(* is not above iou_threshold, which that of a box with itself is.  A      *)
(* detection is a record [box, id], its id NoId when the detector gave     *)
(* none; the boxes of a frame are distinct.                                *)
(***************************************************************************)
EXTENDS Integers, Sequences, FiniteSets

CONSTANTS
  Boxes,            (* where a person can be                            *)
  Overlap(_, _),    (* how well two boxes overlap, 0 for not enough     *)
  MaxLost,          (* max_lost_frames                                  *)
  NoId              (* track_id is None                                 *)

ASSUME TrackerConfigOK ==
  /\ MaxLost \in Nat /\ NoId \notin Nat
  /\ \A a, b \in Boxes : Overlap(a, b) \in Nat
  /\ \A a \in Boxes : Overlap(a, a) > 0

VARIABLES
  tracks,    (* _tracks, in order; first: the track has age 1 *)
  nextId,    (* _next_id                                      *)
  returned   (* what the last update() returned               *)

tracker == <<tracks, nextId, returned>>

Ids(seq) == {seq[i].id : i \in DOMAIN seq}

(* The numbers of a set in ascending order; what is at these places of a   *)
(* sequence.                                                               *)
Ascending(S) ==
  [k \in 1..Cardinality(S) |-> CHOOSE i \in S : Cardinality({j \in S : j < i}) = k - 1]

At(seq, S) == LET places == Ascending(S) IN [k \in DOMAIN places |-> seq[places[k]]]

TrackRecords == [id : Nat \ {0}, box : Boxes, first : BOOLEAN, lost : 0..MaxLost]

TrackerTypeOK ==
  /\ tracks \in Seq(TrackRecords)
  /\ Cardinality(Ids(tracks)) = Len(tracks)
  /\ nextId \in Nat \ {0}
  /\ \A i \in DOMAIN returned : returned[i] \in [id : Nat \ {0}, det : Nat \ {0}]

TrackerInit == tracks = <<>> /\ nextId = 1 /\ returned = <<>>

NewTrack(id, box) == [id |-> id, box |-> box, first |-> TRUE, lost |-> 0]

Hit(track, box)  == [track EXCEPT !.box = box, !.first = FALSE, !.lost = 0]
Missed(track)    == [track EXCEPT !.lost = @ + 1]

(* Tracks missed in more than MaxLost frames are forgotten. *)
Remembered(seq) == At(seq, {i \in DOMAIN seq : seq[i].lost <= MaxLost})

IsNumbered(dets) == dets # <<>> /\ \A i \in DOMAIN dets : dets[i].id # NoId

(* The passthrough: known ids are updated in place, unknown ones appended, *)
(* the tracks not seen grow older.                                         *)
PassedThrough(dets) ==
  LET known == [i \in DOMAIN tracks |->
        IF tracks[i].id \in Ids(dets)
        THEN LET d == CHOOSE j \in DOMAIN dets : dets[j].id = tracks[i].id
             IN  Hit(tracks[i], dets[d].box)
        ELSE Missed(tracks[i])]
      unknown == At(dets, {i \in DOMAIN dets : dets[i].id \notin Ids(tracks)})
  IN  Remembered(known \o [i \in DOMAIN unknown |-> NewTrack(unknown[i].id, unknown[i].box)])

(* Mutant: a detection that is matched already may be matched again. *)
CandidatesAgain(box, dets, taken) == {i \in DOMAIN dets : Overlap(box, dets[i].box) > 0}

Candidates(box, dets, taken) ==
  {i \in DOMAIN dets \ taken : Overlap(box, dets[i].box) > 0}

(* The best overlap, of these the first detection, or 0 for none. *)
BestDet(box, dets, free) ==
  IF free = {} THEN 0
  ELSE CHOOSE i \in free : \A j \in free :
         \/ Overlap(box, dets[i].box) > Overlap(box, dets[j].box)
         \/ Overlap(box, dets[i].box) = Overlap(box, dets[j].box) /\ i <= j

(* The detection each track is matched to, greedily in their order. *)
Greedy(matching, dets) ==
  \A k \in DOMAIN matching :
    matching[k] = BestDet(tracks[k].box, dets,
                          Candidates(tracks[k].box, dets, {matching[i] : i \in 1..(k - 1)}))

Matching(dets) ==
  CHOOSE matching \in [DOMAIN tracks -> 0..Len(dets)] : Greedy(matching, dets)

HitBy(matching)    == Ascending({i \in DOMAIN tracks : matching[i] # 0})
MissedBy(matching) == Ascending({i \in DOMAIN tracks : matching[i] = 0})
Left(dets, matching) == {d \in DOMAIN dets : \A i \in DOMAIN tracks : matching[i] # d}
Unmatched(dets, matching) == Ascending(Left(dets, matching))

(* Mutant: ids are counted by the tracks that are remembered. *)
FreshIdByCount(k) == Len(tracks) + k

FreshId(k) == nextId + k - 1

(* New tracks come into the insertion-ordered dict "updated", keyed by id: *)
(* one of an id that is there already takes its place.                     *)
PutTracks(dict, new) ==
  [i \in DOMAIN dict |->
     IF dict[i].id \in Ids(new) THEN new[CHOOSE k \in DOMAIN new : new[k].id = dict[i].id]
     ELSE dict[i]]
  \o At(new, {k \in DOMAIN new : new[k].id \notin Ids(dict)})

Matched(dets, matching) ==
  LET hit    == HitBy(matching)
      missed == MissedBy(matching)
      new    == Unmatched(dets, matching)
      kept   == [i \in DOMAIN hit |-> Hit(tracks[hit[i]], dets[matching[hit[i]]].box)]
                \o Remembered([i \in DOMAIN missed |-> Missed(tracks[missed[i]])])
  IN  PutTracks(kept, [k \in DOMAIN new |-> NewTrack(FreshId(k), dets[new[k]].box)])

(* The tracks handed out, as pairs of an id and the number of a detection: *)
(* matched ones, then new ones, looked up by box and age.                  *)
Born(det, after) == {i \in DOMAIN after : after[i].box = det.box /\ after[i].first}

ReturnedMatched(dets, matching, after) ==
  LET hit      == HitBy(matching)
      found    == Ascending({d \in Left(dets, matching) : Born(dets[d], after) # {}})
      first(d) == CHOOSE i \in Born(dets[d], after) : \A j \in Born(dets[d], after) : i <= j
  IN  [i \in DOMAIN hit |-> [id |-> tracks[hit[i]].id, det |-> matching[hit[i]]]]
      \o [k \in DOMAIN found |-> [id |-> after[first(found[k])].id, det |-> found[k]]]

(* update(detections, timestamp) *)
Update(dets) ==
  IF IsNumbered(dets)
  THEN /\ returned' = [i \in DOMAIN dets |-> [id |-> dets[i].id, det |-> i]]
       /\ tracks' = PassedThrough(dets)
       /\ UNCHANGED nextId
  ELSE LET matching == Matching(dets) IN
       /\ tracks' = Matched(dets, matching)
       /\ returned' = ReturnedMatched(dets, matching, tracks')
       /\ nextId' = nextId + Len(Unmatched(dets, matching))
=============================================================================
