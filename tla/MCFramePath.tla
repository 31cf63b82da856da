----------------------------- MODULE MCFramePath -----------------------------
(* Instances of FramePath for TLC. *)
EXTENDS FramePath, TLC

Memory(thumbs, specs) == [durable |-> FALSE, thumbs |-> thumbs, draw |-> TRUE, specs |-> specs]

MCSetups == {Memory(TRUE, 1), Memory(FALSE, 1), Memory(TRUE, 0),
             [Memory(TRUE, 1) EXCEPT !.durable = TRUE]}
=============================================================================
