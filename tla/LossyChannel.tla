---------------------------- MODULE LossyChannel ----------------------------
(***************************************************************************)
(* What a topic promises its users: messages are accepted one at a time,   *)
(* kept in the order they were accepted, and leave from the old end, taken *)
(* by the consumer or forgotten.  A message is never duplicated and never  *)
(* overtakes an older one, and there are never more than Capacity inside   *)
(* (0: any number).                                                        *)
(***************************************************************************)
EXTENDS Integers, Sequences

CONSTANTS Messages, Capacity

VARIABLES
  inside,     (* accepted, not yet out        *)
  taken,      (* taken by the consumer        *)
  forgotten   (* forgotten by the channel     *)

Init == inside = <<>> /\ taken = <<>> /\ forgotten = {}

Accept(m) ==
  /\ m \notin forgotten /\ \A i \in 1..Len(taken) : taken[i] # m
  /\ \A i \in 1..Len(inside) : inside[i] # m
  /\ Capacity > 0 => Len(inside) < Capacity
  /\ inside' = Append(inside, m)
  /\ UNCHANGED <<taken, forgotten>>

Take ==
  /\ inside # <<>>
  /\ taken' = Append(taken, Head(inside))
  /\ inside' = Tail(inside)
  /\ UNCHANGED forgotten

Forget ==
  /\ inside # <<>>
  /\ forgotten' = forgotten \cup {Head(inside)}
  /\ inside' = Tail(inside)
  /\ UNCHANGED taken

Next == (\E m \in Messages : Accept(m)) \/ Take \/ Forget

Spec == Init /\ [][Next]_<<inside, taken, forgotten>>
=============================================================================
