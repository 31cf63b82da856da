-------------------------- MODULE MCPersonTracking --------------------------
(* Instances of PersonTracking for TLC: three places in a row, neighbours   *)
(* overlap, the outer ones do not.  A sink is before the first, another far *)
(* off; the third place is out of reach of both.  The hand is nearest to    *)
(* the person in the first place and within the boxes of the second, who    *)
(* has it when nobody is in the first.                                      *)
EXTENDS PersonTracking

Person(x) == Box(x, 0, x + 40, 100)
Hand(x)   == Box(x - 5, 60, x + 5, 70)
Sink(x)   == Box(x, 70, x + 40, 90)

MCBoxes == {Person(0), Person(20), Person(40)}
MCHandBoxes == {Hand(20)}
MCSinkSights == {<<>>, <<Sink(200), Sink(0)>>}

(* iou_threshold is 0.3 *)
Overlaps == [a, b \in MCBoxes |-> IF IoU(a, b) > 30 THEN IoU(a, b) ELSE 0]
MCOverlap(a, b) == Overlaps[a, b]
=============================================================================
