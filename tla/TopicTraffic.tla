---------------------------- MODULE TopicTraffic ----------------------------
(***************************************************************************)
(* Threads around one topic of the in-memory queue: every publisher        *)
(* publishes its messages one after the other, one consumer takes what is  *)
(* there.  A message is a pair of its publisher and its number.            *)
(***************************************************************************)
EXTENDS InMemoryMessageQueue, Functions

CONSTANT PerPublisher   (* bound: messages each publisher publishes *)

ASSUME TrafficConfigOK ==
  /\ PerPublisher \in Nat /\ Messages = Publishers \X (1..PerPublisher)
  /\ IsFiniteSet(Publishers)

VARIABLES
  sent,   (* messages each publisher has begun to publish    *)
  lost,   (* history: messages evicted                       *)
  got     (* history: messages returned by get(), in order   *)

vars == <<queue, sent, lost, got>>

TypeOK ==
  /\ QueueTypeOK
  /\ sent \in [Publishers -> 0..PerPublisher]
  /\ lost \in SUBSET Messages
  /\ got \in Seq(Messages)

Init ==
  /\ QueueInit
  /\ sent = [p \in Publishers |-> 0]
  /\ lost = {} /\ got = <<>>

Send(p) ==
  /\ sent[p] < PerPublisher
  /\ Publish(p, <<p, sent[p] + 1>>)
  /\ sent' = [sent EXCEPT ![p] = @ + 1]
  /\ UNCHANGED <<lost, got>>

(* One operation of publish(); what leaves the queue by it is evicted. *)
Proceed(p) ==
  /\ PublishStep(p)
  /\ lost' = lost \cup IF Len(items') < Len(items) THEN {Head(items)} ELSE {}
  /\ UNCHANGED <<sent, got>>

Receive ==
  /\ Get
  /\ got' = Append(got, Head(items))
  /\ UNCHANGED <<sent, lost>>

Next == (\E p \in Publishers : Send(p) \/ Proceed(p)) \/ Receive

(* Publisher threads are scheduled; nothing is assumed of the consumer.    *)
Spec == Init /\ [][Next]_vars /\ \A p \in Publishers : WF_vars(Proceed(p))

----------------------------------------------------------------------------
(* Properties *)

InHand == {holding[p] : p \in Publishers} \ {NoMessage}

Begun == {m \in Messages : m[2] <= sent[m[1]]}

(* Every message a publisher began to publish is in exactly one place: in  *)
(* its hand, in the queue, with the consumer, or evicted, and every        *)
(* eviction is counted once, however publishers and consumer interleave    *)
(* between the failed put, the eviction and the count.                     *)
EveryMessageAccounted ==
  /\ TypeOK
  /\ InHand \cup Range(items) \cup Range(got) \cup lost = Begun
  /\ Cardinality(InHand) + Len(items) + Len(got) + Cardinality(lost) = Cardinality(Begun)
  /\ dropped + Cardinality({p \in Publishers : at[p] = "count"}) = Cardinality(lost)

(* The topic is a LossyChannel of MaxSize messages: publishers that race   *)
(* for the last place never overfill it, and nothing overtakes.            *)
Channel == INSTANCE LossyChannel WITH
  Capacity <- MaxSize, inside <- items, taken <- got, forgotten <- lost

KeepsChannel == Channel!Spec

(* publish() returns without any help of a consumer, also when another     *)
(* publisher takes the place it has just made (each of them has finitely   *)
(* many messages to publish).                                              *)
PublishReturns == \A p \in Publishers : at[p] # "idle" ~> at[p] = "idle"
=============================================================================
