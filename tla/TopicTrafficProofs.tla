------------------------- MODULE TopicTrafficProofs -------------------------
(***************************************************************************)
(* One topic of the in-memory queue between any number of publishing       *)
(* threads and its consumer, for any size of the topic: no message         *)
(* disappears or comes twice, evictions are counted once, and the topic    *)
(* implements LossyChannel.                                                *)
(***************************************************************************)
EXTENDS TopicTraffic, SequenceTheorems, FiniteSetTheorems, TLAPS

----------------------------------------------------------------------------
(* What taking and putting do to the elements of a topic *)

(* The elements of a sequence, by their places. *)
LEMMA RangeOfSequence ==
  ASSUME NEW S, NEW q \in Seq(S)
  PROVE  /\ DOMAIN q = 1..Len(q) /\ Len(q) \in Nat
         /\ Range(q) = {q[i] : i \in 1..Len(q)} /\ Range(q) \subseteq S
         /\ IsInjective(q) <=> \A i, j \in 1..Len(q) : q[i] = q[j] => i = j
BY LenProperties, ElementOfSeq DEF Range, IsInjective

(* Taking the head of a sequence moves every other element up by one. *)
LEMMA TakeHead ==
  ASSUME NEW S, NEW q \in Seq(S), q # <<>>
  PROVE  /\ Tail(q) \in Seq(S) /\ Head(q) \in S /\ Head(q) = q[1]
         /\ Len(q) \in Nat \ {0} /\ Len(Tail(q)) = Len(q) - 1
         /\ \A i \in 1..Len(Tail(q)) : Tail(q)[i] = q[i + 1]
         /\ Range(q) = Range(Tail(q)) \cup {Head(q)}
<1>1. /\ Tail(q) \in Seq(S) /\ Head(q) \in S /\ Head(q) = q[1]
      /\ Len(q) \in Nat \ {0} /\ Len(Tail(q)) = Len(q) - 1
      /\ \A i \in 1..Len(Tail(q)) : Tail(q)[i] = q[i + 1]
  BY HeadTailProperties, EmptySeq, LenProperties
<1>a. /\ Range(q) = {q[i] : i \in 1..Len(q)}
      /\ Range(Tail(q)) = {Tail(q)[i] : i \in 1..Len(Tail(q))}
  <2>1. Tail(q) \in Seq(S)
    BY <1>1
  <2>2. QED
    BY <2>1, RangeOfSequence, Zenon
<1>2. ASSUME NEW x \in Range(q)
      PROVE  x \in Range(Tail(q)) \cup {Head(q)}
  <2>1. PICK i \in 1..Len(q) : x = q[i]
    BY <1>a
  <2>2. CASE i = 1
    BY <1>1, <2>1, <2>2
  <2>3. CASE i # 1
    <3>1. i - 1 \in 1..Len(Tail(q)) /\ x = Tail(q)[i - 1]
      BY <1>1, <2>1, <2>3
    <3>2. QED
      BY <3>1, <1>a
  <2>4. QED
    BY <2>2, <2>3
<1>3. ASSUME NEW x \in Range(Tail(q)) \cup {Head(q)}
      PROVE  x \in Range(q)
  <2>1. CASE x = Head(q)
    BY <1>1, <2>1, <1>a
  <2>2. CASE x # Head(q)
    <3>1. PICK i \in 1..Len(Tail(q)) : x = Tail(q)[i]
      BY <2>2, <1>a
    <3>2. i + 1 \in 1..Len(q) /\ x = q[i + 1]
      BY <1>1, <3>1
    <3>3. QED
      BY <3>2, <1>a
  <2>3. QED
    BY <2>1, <2>2
<1>4. QED
  BY <1>1, <1>2, <1>3

(* Appending adds one element behind the others. *)
LEMMA PutLast ==
  ASSUME NEW S, NEW q \in Seq(S), NEW x \in S
  PROVE  /\ Append(q, x) \in Seq(S) /\ Len(Append(q, x)) = Len(q) + 1 /\ Len(q) \in Nat
         /\ \A i \in 1..Len(q) : Append(q, x)[i] = q[i]
         /\ Append(q, x)[Len(q) + 1] = x
         /\ Range(Append(q, x)) = Range(q) \cup {x}
<1>1. /\ Append(q, x) \in Seq(S) /\ Len(Append(q, x)) = Len(q) + 1 /\ Len(q) \in Nat
      /\ \A i \in 1..Len(q) : Append(q, x)[i] = q[i]
      /\ Append(q, x)[Len(q) + 1] = x
  BY AppendProperties, LenProperties
<1>2. Range(Append(q, x)) = Range(q) \cup {x}
  <2>1. /\ Range(q) = {q[i] : i \in 1..Len(q)}
        /\ Range(Append(q, x)) = {Append(q, x)[i] : i \in 1..Len(Append(q, x))}
    BY <1>1, RangeOfSequence
  <2>2. 1..Len(Append(q, x)) = (1..Len(q)) \cup {Len(q) + 1}
    BY <1>1
  <2>3. QED
    BY <1>1, <2>1, <2>2
<1>3. QED
  BY <1>1, <1>2

(* A sequence without repetition keeps its head nowhere else. *)
LEMMA TakeHeadInjective ==
  ASSUME NEW S, NEW q \in Seq(S), q # <<>>, IsInjective(q)
  PROVE  IsInjective(Tail(q)) /\ Head(q) \notin Range(Tail(q))
<1>1. ASSUME NEW i \in 1..Len(Tail(q)), NEW j \in 1..Len(Tail(q)), Tail(q)[i] = Tail(q)[j]
      PROVE  i = j
  <2>1. i + 1 \in 1..Len(q) /\ j + 1 \in 1..Len(q) /\ q[i + 1] = q[j + 1]
    BY <1>1, TakeHead
  <2>2. i + 1 = j + 1
    BY <2>1, RangeOfSequence
  <2>3. QED
    BY <2>2
<1>2. ASSUME NEW i \in 1..Len(Tail(q)), Tail(q)[i] = Head(q)
      PROVE  FALSE
  <2>1. i + 1 \in 1..Len(q) /\ 1 \in 1..Len(q) /\ q[i + 1] = q[1]
    BY <1>2, TakeHead
  <2>2. i + 1 = 1
    BY <2>1, RangeOfSequence
  <2>3. QED
    BY <2>2
<1>3. QED
  <2>1. Tail(q) \in Seq(S)
    BY TakeHead
  <2>2. /\ Range(Tail(q)) = {Tail(q)[i] : i \in 1..Len(Tail(q))}
        /\ IsInjective(Tail(q)) <=>
             \A i, j \in 1..Len(Tail(q)) : Tail(q)[i] = Tail(q)[j] => i = j
    BY <2>1, RangeOfSequence
  <2>3. QED
    BY <1>1, <1>2, <2>2

(* What is appended to it must be new. *)
LEMMA PutLastInjective ==
  ASSUME NEW S, NEW q \in Seq(S), NEW x \in S, IsInjective(q), x \notin Range(q)
  PROVE  IsInjective(Append(q, x))
<1>1. ASSUME NEW i \in 1..(Len(q) + 1), NEW j \in 1..(Len(q) + 1),
             Append(q, x)[i] = Append(q, x)[j]
      PROVE  i = j
  <2>1. CASE i \in 1..Len(q) /\ j \in 1..Len(q)
    BY <1>1, <2>1, PutLast, RangeOfSequence
  <2>2. CASE i = Len(q) + 1 /\ j \in 1..Len(q)
    BY <1>1, <2>2, PutLast, RangeOfSequence
  <2>3. CASE i \in 1..Len(q) /\ j = Len(q) + 1
    BY <1>1, <2>3, PutLast, RangeOfSequence
  <2>4. QED
    BY <2>1, <2>2, <2>3, PutLast
<1>2. QED
  <2>1. Append(q, x) \in Seq(S) /\ Len(Append(q, x)) = Len(q) + 1
    BY PutLast
  <2>2. IsInjective(Append(q, x)) <=>
          \A i, j \in 1..Len(Append(q, x)) : Append(q, x)[i] = Append(q, x)[j] => i = j
    BY <2>1, RangeOfSequence
  <2>3. QED
    BY <1>1, <2>1, <2>2

----------------------------------------------------------------------------
(* The parts of the inductive invariant *)

(* What a publisher holds is the last message it has begun to publish.     *)
Hands ==
  \A p \in Publishers :
    /\ at[p] = "idle" <=> holding[p] = NoMessage
    /\ holding[p] # NoMessage => holding[p] = <<p, sent[p]>>

(* A message is in one place. *)
Apart ==
  /\ IsInjective(items) /\ IsInjective(got)
  /\ InHand \cap (Range(items) \cup Range(got) \cup lost) = {}
  /\ Range(items) \cap (Range(got) \cup lost) = {}
  /\ Range(got) \cap lost = {}

IInv == EveryMessageAccounted /\ Hands /\ Apart

LEMMA Finite ==
  /\ IsFiniteSet(Messages)
  /\ \A S \in SUBSET Messages : IsFiniteSet(S) /\ Cardinality(S) \in Nat
  /\ \A P \in SUBSET Publishers : IsFiniteSet(P) /\ Cardinality(P) \in Nat
<1>1. IsFiniteSet(1..PerPublisher) /\ IsFiniteSet(Publishers)
  BY TrafficConfigOK, FS_Interval
<1>2. IsFiniteSet(Messages)
  BY <1>1, TrafficConfigOK, FS_Product
<1>3. ASSUME NEW T, IsFiniteSet(T), NEW S \in SUBSET T
      PROVE  IsFiniteSet(S) /\ Cardinality(S) \in Nat
  BY <1>3, FS_Subset, FS_CardinalityType
<1>4. QED
  BY <1>1, <1>2, <1>3

(* A message of a publisher that has not begun to publish it is nowhere.   *)
LEMMA FreshMessage ==
  ASSUME IInv, NEW p \in Publishers, sent[p] < PerPublisher
  PROVE  /\ <<p, sent[p] + 1>> \in Messages
         /\ <<p, sent[p] + 1>> \notin Begun
         /\ InHand \subseteq Messages /\ Begun \subseteq Messages
BY TrafficConfigOK DEF IInv, EveryMessageAccounted, TypeOK, QueueTypeOK, InHand, Begun

LEMMA Initially == Init => IInv
<1> SUFFICES ASSUME Init PROVE IInv
  OBVIOUS
<1>1. TypeOK
  BY EmptySeq, TrafficConfigOK DEF Init, QueueInit, TypeOK, QueueTypeOK
<1>2. /\ InHand = {} /\ Range(items) = {} /\ Range(got) = {} /\ lost = {}
      /\ Len(items) = 0 /\ Len(got) = 0 /\ {p \in Publishers : at[p] = "count"} = {}
  BY DEF Init, QueueInit, InHand, Range
<1>3. Begun = {}
  BY TrafficConfigOK DEF Init, Begun
<1>4. dropped = 0
  BY DEF Init, QueueInit
<1>5. EveryMessageAccounted
  BY <1>1, <1>2, <1>3, <1>4, FS_EmptySet DEF EveryMessageAccounted
<1>6. Hands /\ Apart
  BY <1>2 DEF Init, QueueInit, Hands, Apart, IsInjective
<1>7. QED
  BY <1>5, <1>6 DEF IInv

(* publish() is called: one more message is on its way. *)
LEMMA SendStep ==
  ASSUME IInv, NEW p \in Publishers, Send(p)
  PROVE  IInv'
<1> DEFINE m == <<p, sent[p] + 1>>
<1>1. /\ m \in Messages /\ m \notin Begun /\ m # NoMessage
      /\ InHand \subseteq Messages /\ Begun \subseteq Messages
  BY FreshMessage, QueueConfigOK DEF Send
<1>2. /\ at[p] = "idle" /\ holding[p] = NoMessage /\ UNCHANGED <<items, dropped, lost, got>>
      /\ at' = [at EXCEPT ![p] = "put"] /\ holding' = [holding EXCEPT ![p] = m]
      /\ sent' = [sent EXCEPT ![p] = sent[p] + 1] /\ sent[p] + 1 \in 0..PerPublisher
  BY TrafficConfigOK DEF Send, Publish, IInv, Hands, EveryMessageAccounted, TypeOK
<1>3. TypeOK'
  BY <1>1, <1>2 DEF IInv, EveryMessageAccounted, TypeOK, QueueTypeOK
<1>4. InHand' = InHand \cup {m}
  BY <1>1, <1>2 DEF InHand, IInv, EveryMessageAccounted, TypeOK, QueueTypeOK
<1>5. Begun' = Begun \cup {m}
  <2>1. ASSUME NEW n \in Messages
        PROVE  n \in Begun' <=> n \in Begun \cup {m}
    <3>1. n = <<n[1], n[2]>> /\ n[1] \in Publishers /\ n[2] \in 1..PerPublisher
      BY TrafficConfigOK
    <3>2. sent \in [Publishers -> 0..PerPublisher]
      BY DEF IInv, EveryMessageAccounted, TypeOK
    <3>3. CASE n[1] = p
      BY <1>2, <3>1, <3>2, <3>3 DEF Begun
    <3>4. CASE n[1] # p
      BY <1>2, <3>1, <3>2, <3>4 DEF Begun
    <3>5. QED
      BY <3>3, <3>4
  <2>2. QED
    BY <1>1, <2>1 DEF Begun
<1>6. m \notin InHand \cup Range(items) \cup Range(got) \cup lost
  BY <1>1 DEF IInv, EveryMessageAccounted
<1>7. /\ Cardinality(InHand') = Cardinality(InHand) + 1
      /\ Cardinality(Begun') = Cardinality(Begun) + 1
      /\ Cardinality(InHand) \in Nat /\ Cardinality(Begun) \in Nat
  BY <1>1, <1>4, <1>5, <1>6, Finite, FS_AddElement
<1>8. {q \in Publishers : at'[q] = "count"} = {q \in Publishers : at[q] = "count"}
  BY <1>2 DEF IInv, EveryMessageAccounted, TypeOK, QueueTypeOK
<1>9. EveryMessageAccounted'
  <2>1. Len(items) \in Nat /\ Len(got) \in Nat /\ Cardinality(lost) \in Nat
    BY Finite, LenProperties DEF IInv, EveryMessageAccounted, TypeOK, QueueTypeOK
  <2>2. Cardinality(InHand') + Len(items) + Len(got) + Cardinality(lost) = Cardinality(Begun')
    BY <1>7, <2>1 DEF IInv, EveryMessageAccounted
  <2>3. InHand' \cup Range(items) \cup Range(got) \cup lost = Begun'
    BY <1>4, <1>5 DEF IInv, EveryMessageAccounted
  <2>4. QED
    BY <1>2, <1>3, <1>8, <2>2, <2>3 DEF IInv, EveryMessageAccounted
<1>10. Hands'
  BY <1>1, <1>2 DEF Hands, IInv, EveryMessageAccounted, TypeOK, QueueTypeOK
<1>11. Apart'
  BY <1>2, <1>4, <1>6 DEF Apart, IInv
<1>12. QED
  BY <1>9, <1>10, <1>11 DEF IInv

(* What the invariant says of the parts a step changes. *)
LEMMA Counts ==
  ASSUME IInv
  PROVE  /\ items \in Seq(Messages) /\ got \in Seq(Messages) /\ lost \subseteq Messages
         /\ InHand \subseteq Messages /\ Begun \subseteq Messages
         /\ Len(items) \in Nat /\ Len(got) \in Nat /\ dropped \in Nat
         /\ IsFiniteSet(InHand) /\ IsFiniteSet(lost) /\ IsFiniteSet(Begun)
         /\ IsFiniteSet({p \in Publishers : at[p] = "count"})
         /\ Cardinality(InHand) \in Nat /\ Cardinality(lost) \in Nat /\ Cardinality(Begun) \in Nat
         /\ Cardinality({p \in Publishers : at[p] = "count"}) \in Nat
<1>1. /\ items \in Seq(Messages) /\ got \in Seq(Messages) /\ lost \subseteq Messages
      /\ InHand \subseteq Messages /\ Begun \subseteq Messages /\ dropped \in Nat
  BY DEF IInv, EveryMessageAccounted, TypeOK, QueueTypeOK, InHand, Begun
<1>2. {p \in Publishers : at[p] = "count"} \subseteq Publishers
  OBVIOUS
<1>3. QED
  BY <1>1, <1>2, Finite, LenProperties

(* put_nowait has room: the message goes from the hand into the queue.      *)
LEMMA PlacedStep ==
  ASSUME IInv, NEW p \in Publishers, at[p] = "put", ~Full,
         items' = Append(items, holding[p]), Placed(p), UNCHANGED <<dropped, sent, lost, got>>
  PROVE  IInv' /\ holding[p] \in Messages
               /\ holding[p] \notin Range(items) \cup Range(got) \cup lost
<1> DEFINE m == holding[p]
<1>1. m \in Messages /\ m # NoMessage /\ m \in InHand
  BY DEF IInv, Hands, EveryMessageAccounted, TypeOK, QueueTypeOK, InHand
<1>2. m \notin Range(items) \cup Range(got) \cup lost
  BY <1>1 DEF IInv, Apart
<1>3. /\ items' \in Seq(Messages) /\ Len(items') = Len(items) + 1
      /\ Range(items') = Range(items) \cup {m} /\ IsInjective(items')
  BY <1>1, <1>2, Counts, PutLast, PutLastInjective DEF IInv, Apart
<1>4. TypeOK'
  BY <1>3 DEF Placed, IInv, EveryMessageAccounted, TypeOK, QueueTypeOK
<1>5. InHand' = InHand \ {m}
  <2>1. holding' = [holding EXCEPT ![p] = NoMessage]
    BY DEF Placed
  <2>2. holding \in [Publishers -> Messages \cup {NoMessage}]
    BY DEF IInv, EveryMessageAccounted, TypeOK, QueueTypeOK
  <2>3. \A q \in Publishers : q # p => holding[q] # m
    BY <1>1 DEF IInv, Hands
  <2>4. QED
    BY <1>1, <2>1, <2>2, <2>3 DEF InHand
<1>6. Begun' = Begun
  BY DEF Begun
<1>7. {q \in Publishers : at'[q] = "count"} = {q \in Publishers : at[q] = "count"}
  BY DEF Placed, IInv, EveryMessageAccounted, TypeOK, QueueTypeOK
<1>8. Cardinality(InHand') = Cardinality(InHand) - 1
  BY <1>1, <1>5, Counts, FS_RemoveElement
<1>9. EveryMessageAccounted'
  <2>1. Cardinality(InHand') + Len(items') + Len(got) + Cardinality(lost) = Cardinality(Begun)
    BY <1>3, <1>8, Counts, SMTT(30) DEF IInv, EveryMessageAccounted
  <2>2. InHand' \cup Range(items') \cup Range(got) \cup lost = Begun
    BY <1>1, <1>3, <1>5 DEF IInv, EveryMessageAccounted
  <2>3. QED
    BY <1>4, <1>6, <1>7, <2>1, <2>2 DEF IInv, EveryMessageAccounted
<1>10. Hands'
  BY DEF Placed, IInv, Hands, EveryMessageAccounted, TypeOK, QueueTypeOK
<1>11. Apart'
  BY <1>2, <1>3, <1>5 DEF Apart, IInv
<1>12. QED
  BY <1>1, <1>2, <1>9, <1>10, <1>11 DEF IInv

(* A publisher that only moves on. *)
LEMMA MovesOn ==
  ASSUME IInv, NEW p \in Publishers, NEW where \in {"put", "evict"},
         at[p] \in {"put", "evict"}, at' = [at EXCEPT ![p] = where],
         UNCHANGED <<items, holding, dropped, sent, lost, got>>
  PROVE  IInv'
<1>1. TypeOK'
  BY DEF IInv, EveryMessageAccounted, TypeOK, QueueTypeOK
<1>2. {q \in Publishers : at'[q] = "count"} = {q \in Publishers : at[q] = "count"}
  BY DEF IInv, EveryMessageAccounted, TypeOK, QueueTypeOK
<1>3. EveryMessageAccounted'
  <2>1. InHand' = InHand /\ Begun' = Begun
    BY DEF InHand, Begun
  <2>2. QED
    BY <1>1, <1>2, <2>1 DEF IInv, EveryMessageAccounted
<1>4. Hands' /\ Apart'
  BY DEF IInv, EveryMessageAccounted, TypeOK, QueueTypeOK, Hands, Apart, InHand
<1>5. QED
  BY <1>3, <1>4 DEF IInv

(* The oldest message is evicted; it is counted later. *)
LEMMA EvictedStep ==
  ASSUME IInv, NEW p \in Publishers, at[p] = "evict", items # <<>>, items' = Tail(items),
         at' = [at EXCEPT ![p] = "count"], lost' = lost \cup {Head(items)},
         UNCHANGED <<dropped, holding, sent, got>>
  PROVE  IInv'
<1> DEFINE m == Head(items)
<1>1. /\ m \in Messages /\ items' \in Seq(Messages) /\ Len(items') = Len(items) - 1
      /\ Range(items) = Range(items') \cup {m} /\ m \notin Range(items') /\ IsInjective(items')
  BY Counts, TakeHead, TakeHeadInjective DEF IInv, Apart
<1>2. m \notin InHand \cup Range(got) \cup lost
  BY <1>1 DEF IInv, Apart
<1>3. TypeOK'
  BY <1>1 DEF IInv, EveryMessageAccounted, TypeOK, QueueTypeOK
<1>4. InHand' = InHand /\ Begun' = Begun
  BY DEF InHand, Begun
<1>5. /\ {q \in Publishers : at'[q] = "count"} = {q \in Publishers : at[q] = "count"} \cup {p}
      /\ p \notin {q \in Publishers : at[q] = "count"}
  BY DEF IInv, EveryMessageAccounted, TypeOK, QueueTypeOK
<1>6. /\ Cardinality(lost') = Cardinality(lost) + 1
      /\ Cardinality({q \in Publishers : at'[q] = "count"}) =
           Cardinality({q \in Publishers : at[q] = "count"}) + 1
  BY <1>2, <1>5, Counts, FS_AddElement
<1>7. EveryMessageAccounted'
  <2>1. Cardinality(InHand) + Len(items') + Len(got) + Cardinality(lost') = Cardinality(Begun)
    BY <1>1, <1>6, Counts DEF IInv, EveryMessageAccounted
  <2>2. InHand \cup Range(items') \cup Range(got) \cup lost' = Begun
    BY <1>1 DEF IInv, EveryMessageAccounted
  <2>3. dropped + Cardinality({q \in Publishers : at'[q] = "count"}) = Cardinality(lost')
    BY <1>6, Counts DEF IInv, EveryMessageAccounted
  <2>4. QED
    BY <1>3, <1>4, <2>1, <2>2, <2>3 DEF EveryMessageAccounted
<1>8. Hands'
  BY DEF IInv, EveryMessageAccounted, TypeOK, QueueTypeOK, Hands
<1>9. Apart'
  BY <1>1, <1>2, <1>4 DEF Apart, IInv
<1>10. QED
  BY <1>7, <1>8, <1>9 DEF IInv

(* The drop is counted. *)
LEMMA CountStep ==
  ASSUME IInv, NEW p \in Publishers, Count(p), UNCHANGED <<sent, lost, got>>
  PROVE  IInv'
<1>1. /\ at[p] = "count" /\ dropped' = dropped + 1 /\ at' = [at EXCEPT ![p] = "put"]
      /\ UNCHANGED <<items, holding>>
  BY DEF Count
<1>2. TypeOK'
  BY <1>1 DEF IInv, EveryMessageAccounted, TypeOK, QueueTypeOK
<1>3. /\ {q \in Publishers : at'[q] = "count"} = {q \in Publishers : at[q] = "count"} \ {p}
      /\ p \in {q \in Publishers : at[q] = "count"}
  BY <1>1 DEF IInv, EveryMessageAccounted, TypeOK, QueueTypeOK
<1>4. Cardinality({q \in Publishers : at'[q] = "count"}) =
        Cardinality({q \in Publishers : at[q] = "count"}) - 1
  <2>1. \A T : IsFiniteSet(T) /\ p \in T => Cardinality(T \ {p}) = Cardinality(T) - 1
    BY FS_RemoveElement
  <2>2. QED
    BY <1>3, <2>1, Counts
<1>5. dropped' + Cardinality({q \in Publishers : at'[q] = "count"}) = Cardinality(lost)
  BY <1>1, <1>4, Counts DEF IInv, EveryMessageAccounted
<1>6. EveryMessageAccounted'
  BY <1>1, <1>2, <1>5 DEF IInv, EveryMessageAccounted, InHand, Begun
<1>7. Hands' /\ Apart'
  BY <1>1 DEF IInv, EveryMessageAccounted, TypeOK, QueueTypeOK, Hands, Apart, InHand
<1>8. QED
  BY <1>6, <1>7 DEF IInv

(* get(): the oldest message goes to the consumer. *)
LEMMA ReceiveStep ==
  ASSUME IInv, Receive
  PROVE  IInv'
<1> DEFINE m == Head(items)
<1>0. items # <<>> /\ items' = Tail(items) /\ got' = Append(got, m)
      /\ UNCHANGED <<dropped, at, holding, sent, lost>>
  BY DEF Receive, Get
<1>1. /\ m \in Messages /\ items' \in Seq(Messages) /\ Len(items') = Len(items) - 1
      /\ Range(items) = Range(items') \cup {m} /\ m \notin Range(items') /\ IsInjective(items')
  BY <1>0, Counts, TakeHead, TakeHeadInjective DEF IInv, Apart
<1>2. m \notin InHand \cup Range(got) \cup lost
  BY <1>1 DEF IInv, Apart
<1>3. /\ got' \in Seq(Messages) /\ Len(got') = Len(got) + 1
      /\ Range(got') = Range(got) \cup {m} /\ IsInjective(got')
  BY <1>0, <1>1, <1>2, Counts, PutLast, PutLastInjective DEF IInv, Apart
<1>4. TypeOK'
  BY <1>0, <1>1, <1>3 DEF IInv, EveryMessageAccounted, TypeOK, QueueTypeOK
<1>5. InHand' = InHand /\ Begun' = Begun
  BY <1>0 DEF InHand, Begun
<1>6. EveryMessageAccounted'
  <2>1. Cardinality(InHand) + Len(items') + Len(got') + Cardinality(lost) = Cardinality(Begun)
    <3>1. Len(items) \in Nat /\ Len(got) \in Nat /\ Cardinality(InHand) \in Nat
          /\ Cardinality(lost) \in Nat
      BY Counts
    <3>2. QED
      BY <1>1, <1>3, <3>1 DEF IInv, EveryMessageAccounted
  <2>2. InHand \cup Range(items') \cup Range(got') \cup lost = Begun
    BY <1>1, <1>3 DEF IInv, EveryMessageAccounted
  <2>3. QED
    BY <1>0, <1>4, <1>5, <2>1, <2>2 DEF IInv, EveryMessageAccounted
<1>7. Hands'
  BY <1>0 DEF IInv, Hands
<1>8. Apart'
  BY <1>0, <1>1, <1>2, <1>3, <1>5 DEF Apart, IInv
<1>9. QED
  BY <1>6, <1>7, <1>8 DEF IInv

----------------------------------------------------------------------------
(* The steps, with what each is for the channel. *)
LEMMA Steps ==
  ASSUME IInv, [Next]_vars
  PROVE  IInv' /\ [Channel!Next]_<<items, got, lost>>
<1>a. items \in Seq(Messages)
  BY Counts
<1>1. ASSUME NEW p \in Publishers, Send(p)
      PROVE  IInv' /\ [Channel!Next]_<<items, got, lost>>
  BY <1>1, SendStep DEF Send, Publish
<1>2. ASSUME NEW p \in Publishers, Proceed(p)
      PROVE  IInv' /\ [Channel!Next]_<<items, got, lost>>
  <2>1. PublishStep(p) /\ UNCHANGED <<sent, got>>
        /\ lost' = lost \cup IF Len(items') < Len(items) THEN {Head(items)} ELSE {}
    BY <1>2 DEF Proceed
  <2>2. CASE at[p] = "put" /\ ~Full /\ items' = Append(items, holding[p]) /\ Placed(p)
             /\ UNCHANGED dropped
    <3>1. holding[p] \in Messages
      BY <2>2 DEF IInv, Hands, EveryMessageAccounted, TypeOK, QueueTypeOK
    <3>2. lost' = lost
      BY <1>a, <2>1, <2>2, <3>1, PutLast
    <3>3. IInv' /\ holding[p] \notin Range(items) \cup Range(got) \cup lost
      BY <2>1, <2>2, <3>2, PlacedStep
    <3>4. Channel!Accept(holding[p])
      <4>1. /\ Range(items) = {items[i] : i \in 1..Len(items)}
            /\ Range(got) = {got[i] : i \in 1..Len(got)}
        BY Counts, RangeOfSequence
      <4>2. MaxSize > 0 => Len(items) < MaxSize
        BY <2>2, Counts, QueueConfigOK DEF Full
      <4>3. QED
        BY <2>1, <2>2, <3>2, <3>3, <4>1, <4>2 DEF Channel!Accept
    <3>5. QED
      BY <3>1, <3>3, <3>4 DEF Channel!Next
  <2>3. CASE at[p] = "evict" /\ items # <<>> /\ items' = Tail(items)
             /\ at' = [at EXCEPT ![p] = "count"] /\ UNCHANGED <<dropped, holding>>
    <3>1. lost' = lost \cup {Head(items)}
      BY <1>a, <2>1, <2>3, TakeHead
    <3>2. Channel!Forget
      BY <2>1, <2>3, <3>1 DEF Channel!Forget
    <3>3. QED
      BY <2>1, <2>3, <3>1, <3>2, EvictedStep DEF Channel!Next
  <2>4. CASE Count(p)
    <3>1. UNCHANGED <<items, lost>>
      BY <1>a, <2>1, <2>4, LenProperties DEF Count
    <3>2. QED
      BY <2>1, <2>4, <3>1, CountStep
  <2>5. CASE \E where \in {"put", "evict"} :
               at[p] \in {"put", "evict"} /\ at' = [at EXCEPT ![p] = where]
               /\ UNCHANGED <<items, holding, dropped>>
    <3>1. lost' = lost
      BY <1>a, <2>1, <2>5, LenProperties
    <3>2. QED
      BY <2>1, <2>5, <3>1, MovesOn
  <2>6. QED
    BY <2>1, <2>2, <2>3, <2>4, <2>5 DEF PublishStep, Put, Evict
<1>3. CASE Receive
  <2>1. Channel!Take
    BY <1>3 DEF Receive, Get, Channel!Take
  <2>2. QED
    BY <1>3, <2>1, ReceiveStep DEF Channel!Next
<1>4. CASE UNCHANGED vars
  <2>1. UNCHANGED <<items, dropped, at, holding, sent, lost, got>>
    BY <1>4 DEF vars, queue
  <2>2. QED
    BY <2>1 DEF IInv, EveryMessageAccounted, TypeOK, QueueTypeOK, Hands, Apart, InHand, Begun
<1>5. QED
  BY <1>1, <1>2, <1>3, <1>4 DEF Next

(* in_memory.py, publish() and get(): every message is in one place, and     *)
(* every eviction is counted once, however the publishers interleave.        *)
THEOREM MessagesAccounted == Spec => []EveryMessageAccounted
<1>1. IInv /\ [Next]_vars => IInv'
  BY Steps
<1>2. IInv => EveryMessageAccounted
  BY DEF IInv
<1>3. QED
  BY <1>1, <1>2, Initially, PTL DEF Spec

(* The topic implements LossyChannel (KeepsChannel): publishers that race    *)
(* for the last place never overfill it, nothing overtakes, nothing comes    *)
(* twice.                                                                    *)
THEOREM ImplementsChannel == Spec => KeepsChannel
<1>1. Init => Channel!Init
  BY DEF Init, QueueInit, Channel!Init
<1>2. IInv /\ [Next]_vars => IInv' /\ [Channel!Next]_<<items, got, lost>>
  BY Steps
<1>3. QED
  BY <1>1, <1>2, Initially, PTL DEF Spec, KeepsChannel, Channel!Spec

=============================================================================
