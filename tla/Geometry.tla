------------------------------ MODULE Geometry ------------------------------
(***************************************************************************)
(* Boxes and points in whole pixels (compliance/spatial.py, and _iou in    *)
(* compliance/tracker.py).  A ratio is in percent; distances are compared  *)
(* by their squares, and quotients crosswise, so that nothing is rounded   *)
(* that the code does not round.                                           *)
(***************************************************************************)
EXTENDS Integers, Sequences, FiniteSetsExt

Box(x1, y1, x2, y2) == [x1 |-> x1, y1 |-> y1, x2 |-> x2, y2 |-> y2]

Percent == 100

Width(b)  == b.x2 - b.x1
Height(b) == b.y2 - b.y1
Area(b)   == Width(b) * Height(b)

(* _iou, in percent *)
IoU(a, b) ==
  LET w == Min({a.x2, b.x2}) - Max({a.x1, b.x1})
      h == Min({a.y2, b.y2}) - Max({a.y1, b.y1})
      shared == Max({0, w}) * Max({0, h})
  IN  IF shared = 0 THEN 0 ELSE (Percent * shared) \div (Area(a) + Area(b) - shared)

(* box_center *)
Center(b) == [x |-> (b.x1 + b.x2) \div 2, y |-> (b.y1 + b.y2) \div 2]

(* point_distance, squared *)
Distance2(p, q) == (p.x - q.x) * (p.x - q.x) + (p.y - q.y) * (p.y - q.y)

(* point_inside_expanded_box *)
InsideExpanded(p, b, expandX, expandY) ==
  /\ Percent * (b.x1 - p.x) <= Width(b) * expandX
  /\ Percent * (p.x - b.x2) <= Width(b) * expandX
  /\ Percent * (b.y1 - p.y) <= Height(b) * expandY
  /\ Percent * (p.y - b.y2) <= Height(b) * expandY

Scaled(n, ratio) == (n * ratio) \div Percent

(* hand_is_near_sink *)
NearSink(hand, sink, side, top, bottom) ==
  /\ hand.x1 <= sink.x2 + Scaled(Width(sink), side)
  /\ hand.x2 >= sink.x1 - Scaled(Width(sink), side)
  /\ hand.y1 <= sink.y2 + Scaled(Height(sink), bottom)
  /\ hand.y2 >= sink.y1 - Scaled(Height(sink), top)

(* The smallest of the indices for which no other comes before. *)
FirstBest(candidates, before(_, _)) ==
  Min({i \in candidates : \A j \in candidates : ~before(j, i)})

(* assign_person_to_sink: the number of the sink whose center is nearest to *)
(* the person's feet by the measure of its own diagonal, or 0.              *)
SinkOf(person, sinks, maxDistance) ==
  LET feet        == [x |-> Center(person).x, y |-> person.y2]
      diagonal(i) == Distance2([x |-> sinks[i].x1, y |-> sinks[i].y1],
                               [x |-> sinks[i].x2, y |-> sinks[i].y2])
      distance(i) == Distance2(feet, Center(sinks[i]))
      nearer(i, j) == distance(i) * diagonal(j) < distance(j) * diagonal(i)
      real        == {i \in DOMAIN sinks : diagonal(i) # 0}
      best        == FirstBest(real, nearer)
  IN  IF real # {} /\ Percent * Percent * distance(best) <= maxDistance * maxDistance * diagonal(best)
      THEN best ELSE 0
=============================================================================
