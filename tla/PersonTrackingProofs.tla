------------------------ MODULE PersonTrackingProofs ------------------------
(***************************************************************************)
(* Proofs about the builder and the tracker, for any persons, boxes,       *)
(* overlaps, thresholds and number of frames.                              *)
(*                                                                         *)
(* The builder is proved for whatever the tracker gives it: any ids,       *)
(* frames however far apart. Its record of a person (a count, a run length *)
(* and a time) stands for the whole sequence of what was seen of the       *)
(* person: Follows says how, and is kept by every frame because the record *)
(* and the sequence are dropped at the same time (Recalled).               *)
(*                                                                         *)
(* The tracker: a greedy matching exists (GreedyExists), gives no          *)
(* detection twice, and the box of a detection it leaves overlaps no track *)
(* it has missed (MatchingFacts). So ids of tracks stay apart (KeptApart), *)
(* a new track is found again by its box and age (NewApart), and each      *)
(* detection comes back once (ReturnedStep, PassedStep). TrackerInv adds   *)
(* that without a detector's ids all ids are below the next one (OwnIds).  *)
(***************************************************************************)
EXTENDS PersonTracking, SequenceTheorems, FiniteSetTheorems, FunctionTheorems, WellFoundedInduction,
        TLAPS

Sights == [at : Nat, hands : Hands]
Entries == [positive : Nat, none : Nat, nearAt : Nat \cup {Never}, seenAt : Nat]

(* nearAt is when a hand was near the sink for the last time. *)
NearFollows(e, look) ==
  /\ \A i \in 1..Len(look) :
       look[i].hands # "none" => e.nearAt # Never /\ look[i].at <= e.nearAt
  /\ e.nearAt # Never =>
       \E i \in 1..Len(look) : look[i].hands # "none" /\ look[i].at = e.nearAt

(* none is the length of the run without evidence at the end. *)
RunFollows(e, look) ==
  /\ e.none <= Len(look)
  /\ \A k \in (Len(look) - e.none + 1)..Len(look) : look[k].hands # "washing"
  /\ e.none < Len(look) => look[Len(look) - e.none].hands = "washing"

(* The frames with evidence since the last gap; positive is their number. *)
Since(look) ==
  {k \in 1..Len(look) : look[k].hands = "washing" /\ \A i \in k..Len(look) : ~Gap(look, i)}

CountFollows(e, look) == IsFiniteSet(Since(look)) /\ e.positive = Cardinality(Since(look))

Follows(e, look) ==
  /\ e \in Entries /\ look \in Seq(Sights)
  /\ NearFollows(e, look) /\ RunFollows(e, look) /\ CountFollows(e, look)

(* What the builder has a record of is what there is a history of. *)
Recalled ==
  /\ now \in Nat
  /\ DOMAIN tracking = DOMAIN lately
  /\ \A id \in DOMAIN lately :
       /\ tracking[id].seenAt = lately[id].at
       /\ \A i \in 1..Len(lately[id].look) : lately[id].look[i].at <= now
       /\ Follows(tracking[id], lately[id].look)

(* What the engine was told follows from the records. *)
Told ==
  /\ DOMAIN seenNow \subseteq DOMAIN lately
  /\ \A id \in DOMAIN seenNow : seenNow[id].hands <=> tracking[id].positive >= ConfirmFrames

BuilderInv == Recalled /\ Told /\ InsideIffHandLately

----------------------------------------------------------------------------
(* One more frame of a person *)

(* Appending a frame leaves the frames before it, and their gaps, alone. *)
LEMMA OneMore ==
  ASSUME NEW look \in Seq(Sights), NEW x \in Sights
  PROVE  /\ Append(look, x) \in Seq(Sights) /\ Len(look) \in Nat
         /\ Len(Append(look, x)) = Len(look) + 1
         /\ DOMAIN Append(look, x) = 1..(Len(look) + 1)
         /\ \A i \in 1..Len(look) : Append(look, x)[i] = look[i]
         /\ Append(look, x)[Len(look) + 1] = x
         /\ \A i \in 1..Len(look) : Gap(Append(look, x), i) <=> Gap(look, i)
<1>1. /\ Append(look, x) \in Seq(Sights) /\ Len(look) \in Nat
      /\ Len(Append(look, x)) = Len(look) + 1
      /\ \A i \in 1..Len(look) : Append(look, x)[i] = look[i]
      /\ Append(look, x)[Len(look) + 1] = x
  BY AppendProperties, LenProperties
<1>2. DOMAIN Append(look, x) = 1..(Len(look) + 1)
  BY <1>1, LenProperties
<1>3. ASSUME NEW i \in 1..Len(look)
      PROVE  Gap(Append(look, x), i) <=> Gap(look, i)
  <2>1. HoldFrames \in Nat \ {0}
    BY BuilderConfigOK
  <2>2. CASE i >= HoldFrames
    <3>1. \A k \in (i - HoldFrames + 1)..i : k \in 1..Len(look)
      BY <1>1, <2>1, <2>2
    <3>2. \A k \in (i - HoldFrames + 1)..i : Append(look, x)[k] = look[k]
      BY <1>1, <3>1
    <3>3. QED
      BY <3>2 DEF Gap
  <2>3. CASE ~(i >= HoldFrames)
    BY <2>3 DEF Gap
  <2>4. QED
    BY <2>2, <2>3
<1>4. QED
  BY <1>1, <1>2, <1>3

(* The frame just appended ends a gap exactly if the run without evidence   *)
(* has become as long as the hold.                                          *)
LEMMA GapByRun ==
  ASSUME NEW look \in Seq(Sights), NEW x \in Sights, NEW e \in Entries, RunFollows(e, look)
  PROVE  Gap(Append(look, x), Len(look) + 1) <=>
           x.hands # "washing" /\ e.none + 1 >= HoldFrames
<1> DEFINE n == Len(look)
           more == Append(look, x)
<1>1. /\ n \in Nat /\ \A i \in 1..n : more[i] = look[i]
      /\ more[n + 1] = x
  BY OneMore
<1>2. HoldFrames \in Nat \ {0} /\ e.none \in Nat
  BY BuilderConfigOK DEF Entries
<1>3. /\ e.none <= n
      /\ \A k \in (n - e.none + 1)..n : look[k].hands # "washing"
      /\ e.none < n => look[n - e.none].hands = "washing"
  BY DEF RunFollows
<1> HIDE DEF n, more
<1>4. ASSUME x.hands # "washing", e.none + 1 >= HoldFrames
      PROVE  Gap(more, n + 1)
  <2>1. n + 1 >= HoldFrames
    BY <1>1, <1>2, <1>3, <1>4
  <2>2. ASSUME NEW k \in (n + 1 - HoldFrames + 1)..(n + 1)
        PROVE  more[k].hands # "washing"
    <3>1. CASE k = n + 1
      BY <1>1, <1>4, <3>1
    <3>2. CASE k # n + 1
      <4>1. k \in (n - e.none + 1)..n /\ k \in 1..n
        BY <1>1, <1>2, <1>3, <1>4, <2>1, <3>2
      <4>2. QED
        BY <1>1, <1>3, <4>1
    <3>3. QED
      BY <3>1, <3>2
  <2>3. QED
    BY <1>1, <1>2, <2>1, <2>2 DEF Gap
<1>5. ASSUME Gap(more, n + 1)
      PROVE  x.hands # "washing" /\ e.none + 1 >= HoldFrames
  <2>1. /\ n + 1 >= HoldFrames
        /\ \A k \in (n + 1 - HoldFrames + 1)..(n + 1) : more[k].hands # "washing"
    BY <1>1, <1>2, <1>5 DEF Gap
  <2>2. x.hands # "washing"
    <3>1. n + 1 \in (n + 1 - HoldFrames + 1)..(n + 1)
      BY <1>1, <1>2
    <3>2. QED
      BY <1>1, <2>1, <3>1
  <2>3. ASSUME ~(e.none + 1 >= HoldFrames)
        PROVE  FALSE
    <3>1. /\ n - e.none \in (n + 1 - HoldFrames + 1)..(n + 1)
          /\ n - e.none \in 1..n /\ e.none < n
      BY <1>1, <1>2, <1>3, <2>1, <2>3
    <3>2. more[n - e.none].hands = "washing"
      BY <1>1, <1>3, <3>1
    <3>3. QED
      BY <2>1, <3>1, <3>2
  <2>4. QED
    BY <2>2, <2>3
<1>6. QED
  BY <1>4, <1>5 DEF n, more

(* How the record of a person changes. *)
LEMMA RecordStep ==
  ASSUME NEW e \in Entries, NEW h \in Hands, NEW t \in Nat
  PROVE  LET new == NearSince(CountEvidence(e, h), h, t)
         IN  /\ new \in Entries /\ new.seenAt = e.seenAt
             /\ h = "washing" => new.positive = e.positive + 1 /\ new.none = 0
             /\ h # "washing" =>
                  /\ new.none = e.none + 1
                  /\ e.none + 1 >= HoldFrames => new.positive = 0
                  /\ ~(e.none + 1 >= HoldFrames) => new.positive = e.positive
             /\ h # "none" => new.nearAt = t
             /\ h = "none" => new.nearAt = e.nearAt
             /\ CountEvidence(e, h).positive = new.positive
<1> DEFINE c == CountEvidence(e, h)
           new == NearSince(c, h, t)
<1>0. /\ e.positive \in Nat /\ e.none \in Nat /\ HoldFrames \in Nat
      /\ e.nearAt \in Nat \cup {Never} /\ e.seenAt \in Nat
  BY BuilderConfigOK DEF Entries
<1>1. /\ c \in Entries /\ c.seenAt = e.seenAt /\ c.nearAt = e.nearAt
      /\ h = "washing" => c.positive = e.positive + 1 /\ c.none = 0
      /\ h # "washing" =>
           /\ c.none = e.none + 1
           /\ e.none + 1 >= HoldFrames => c.positive = 0
           /\ ~(e.none + 1 >= HoldFrames) => c.positive = e.positive
  <2>1. CASE h = "washing"
    <3>1. c = [positive |-> e.positive + 1, none |-> 0,
               nearAt |-> e.nearAt, seenAt |-> e.seenAt]
      BY <1>0, <2>1 DEF CountEvidence, Entries
    <3>2. QED
      BY <1>0, <2>1, <3>1 DEF Entries
  <2>2. CASE h # "washing" /\ e.none + 1 >= HoldFrames
    <3>1. c = [positive |-> 0, none |-> e.none + 1,
               nearAt |-> e.nearAt, seenAt |-> e.seenAt]
      BY <1>0, <2>2 DEF CountEvidence, Entries
    <3>2. QED
      BY <1>0, <2>2, <3>1 DEF Entries
  <2>3. CASE h # "washing" /\ ~(e.none + 1 >= HoldFrames)
    <3>1. c = [positive |-> e.positive, none |-> e.none + 1,
               nearAt |-> e.nearAt, seenAt |-> e.seenAt]
      BY <1>0, <2>3 DEF CountEvidence, Entries
    <3>2. QED
      BY <1>0, <2>3, <3>1 DEF Entries
  <2>4. QED
    BY <2>1, <2>2, <2>3
<1> HIDE DEF c
<1>2. /\ new \in Entries /\ new.seenAt = c.seenAt
      /\ new.positive = c.positive /\ new.none = c.none
      /\ h # "none" => new.nearAt = t
      /\ h = "none" => new.nearAt = c.nearAt
  <2>1. CASE h = "none"
    BY <1>1, <2>1 DEF NearSince, Entries
  <2>2. CASE h # "none"
    BY <1>1, <2>2 DEF NearSince, Entries
  <2>3. QED
    BY <2>1, <2>2
<1>3. QED
  BY <1>1, <1>2 DEF c

(* A record that follows what was seen of a person follows it one frame on. *)
LEMMA FollowsStep ==
  ASSUME NEW e, NEW look, Follows(e, look), NEW h \in Hands, NEW t \in Nat,
         \A i \in 1..Len(look) : look[i].at <= t
  PROVE  Follows(NearSince(CountEvidence(e, h), h, t), Append(look, [at |-> t, hands |-> h]))
<1> DEFINE x == [at |-> t, hands |-> h]
           new == NearSince(CountEvidence(e, h), h, t)
           more == Append(look, x)
           n == Len(look)
<1>1. /\ e \in Entries /\ look \in Seq(Sights) /\ x \in Sights
      /\ x.at = t /\ x.hands = h
  BY DEF Follows, Sights
<1>2. /\ more \in Seq(Sights) /\ n \in Nat /\ Len(more) = n + 1
      /\ \A i \in 1..n : more[i] = look[i]
      /\ more[n + 1] = x
      /\ \A i \in 1..n : Gap(more, i) <=> Gap(look, i)
  BY <1>1, OneMore
<1>3. /\ new \in Entries
      /\ h = "washing" => new.positive = e.positive + 1 /\ new.none = 0
      /\ h # "washing" =>
           /\ new.none = e.none + 1
           /\ e.none + 1 >= HoldFrames => new.positive = 0
           /\ ~(e.none + 1 >= HoldFrames) => new.positive = e.positive
      /\ h # "none" => new.nearAt = t
      /\ h = "none" => new.nearAt = e.nearAt
  BY <1>1, RecordStep
<1>4. NearFollows(e, look) /\ RunFollows(e, look) /\ CountFollows(e, look)
  BY DEF Follows
<1>5. Gap(more, n + 1) <=> h # "washing" /\ e.none + 1 >= HoldFrames
  BY <1>1, <1>4, GapByRun
<1>6. /\ e.none \in Nat /\ e.positive \in Nat /\ e.nearAt \in Nat \cup {Never}
      /\ t # Never
  BY <1>1, BuilderConfigOK DEF Entries
<1> HIDE DEF x, new, more, n
<1>7. NearFollows(new, more)
  <2>1. CASE h = "none"
    <3>1. \A i \in 1..(n + 1) : more[i].hands # "none" => i \in 1..n
      BY <1>1, <1>2, <2>1
    <3>2. \A i \in 1..n :
            look[i].hands # "none" => e.nearAt # Never /\ look[i].at <= e.nearAt
      BY <1>4 DEF NearFollows, n
    <3>3. ASSUME e.nearAt # Never
          PROVE  \E i \in 1..(n + 1) : more[i].hands # "none" /\ more[i].at = e.nearAt
      <4>1. PICK i \in 1..n : look[i].hands # "none" /\ look[i].at = e.nearAt
        BY <1>4, <3>3 DEF NearFollows, n
      <4>2. i \in 1..(n + 1) /\ more[i] = look[i]
        BY <1>2, <4>1
      <4>3. QED
        BY <4>1, <4>2
    <3>4. QED
      BY <1>2, <1>3, <2>1, <3>1, <3>2, <3>3 DEF NearFollows
  <2>2. CASE h # "none"
    <3>1. \A i \in 1..(n + 1) : more[i].at <= t
      <4>1. ASSUME NEW i \in 1..(n + 1)
            PROVE  more[i].at <= t
        <5>1. CASE i = n + 1
          BY <1>1, <1>2, <5>1
        <5>2. CASE i # n + 1
          <6>1. i \in 1..n
            BY <1>2, <5>2
          <6>2. QED
            BY <1>2, <6>1 DEF n
        <5>3. QED
          BY <5>1, <5>2
      <4>2. QED
        BY <4>1
    <3>2. n + 1 \in 1..(n + 1) /\ more[n + 1].hands # "none" /\ more[n + 1].at = t
      BY <1>1, <1>2, <2>2
    <3>3. QED
      BY <1>2, <1>3, <1>6, <2>2, <3>1, <3>2 DEF NearFollows
  <2>3. QED
    BY <2>1, <2>2
<1>8. RunFollows(new, more)
  <2>a. /\ e.none <= n
        /\ \A k \in (n - e.none + 1)..n : look[k].hands # "washing"
        /\ e.none < n => look[n - e.none].hands = "washing"
    BY <1>4 DEF RunFollows, n
  <2>1. CASE h = "washing"
    <3>1. new.none = 0
      BY <1>3, <2>1
    <3>2. \A k \in (n + 1 - 0 + 1)..(n + 1) : FALSE
      BY <1>2
    <3>3. more[n + 1 - 0].hands = "washing"
      BY <1>1, <1>2, <2>1
    <3>4. QED
      BY <1>2, <3>1, <3>2, <3>3 DEF RunFollows
  <2>2. CASE h # "washing"
    <3>1. new.none = e.none + 1
      BY <1>3, <2>2
    <3>2. ASSUME NEW k \in (n + 1 - (e.none + 1) + 1)..(n + 1)
          PROVE  more[k].hands # "washing"
      <4>1. CASE k = n + 1
        BY <1>1, <1>2, <2>2, <4>1
      <4>2. CASE k # n + 1
        <5>1. k \in (n - e.none + 1)..n /\ k \in 1..n
          BY <1>2, <1>6, <2>a, <4>2
        <5>2. QED
          BY <1>2, <2>a, <5>1
      <4>3. QED
        BY <4>1, <4>2
    <3>3. ASSUME e.none + 1 < n + 1
          PROVE  more[n + 1 - (e.none + 1)].hands = "washing"
      <4>1. n + 1 - (e.none + 1) = n - e.none /\ n - e.none \in 1..n /\ e.none < n
        BY <1>2, <1>6, <2>a, <3>3, SMTT(30)
      <4>2. QED
        BY <1>2, <2>a, <4>1
    <3>4. e.none + 1 <= n + 1
      BY <1>2, <1>6, <2>a
    <3>5. /\ new.none <= Len(more)
          /\ \A k \in (Len(more) - new.none + 1)..Len(more) : more[k].hands # "washing"
          /\ new.none < Len(more) => more[Len(more) - new.none].hands = "washing"
      <4>1. Len(more) = n + 1
        BY <1>2
      <4>2. (Len(more) - new.none + 1)..Len(more) = (n + 1 - (e.none + 1) + 1)..(n + 1)
        BY <1>2, <1>6, <3>1, <4>1
      <4>3. Len(more) - new.none = n + 1 - (e.none + 1)
        BY <1>2, <1>6, <3>1, <4>1
      <4>4. new.none < Len(more) => more[Len(more) - new.none].hands = "washing"
        BY <3>1, <3>3, <4>1, <4>3
      <4>5. \A k \in (Len(more) - new.none + 1)..Len(more) : more[k].hands # "washing"
        BY <3>2, <4>2
      <4>6. QED
        BY <3>1, <3>4, <4>1, <4>4, <4>5
    <3>6. QED
      BY <3>5 DEF RunFollows
  <2>3. QED
    BY <2>1, <2>2
<1>9. CountFollows(new, more)
  <2>a. IsFiniteSet(Since(look)) /\ e.positive = Cardinality(Since(look))
    BY <1>4 DEF CountFollows
  <2>b. /\ Since(look) = {k \in 1..n : look[k].hands = "washing"
                                       /\ \A i \in k..n : ~Gap(look, i)}
        /\ Since(more) = {k \in 1..(n + 1) : more[k].hands = "washing"
                                             /\ \A i \in k..(n + 1) : ~Gap(more, i)}
    BY <1>2 DEF Since, n
  <2>c. ASSUME ~Gap(more, n + 1), NEW k \in 1..n
        PROVE  (\A i \in k..(n + 1) : ~Gap(more, i)) <=> (\A i \in k..n : ~Gap(look, i))
    <3>1. \A i \in k..(n + 1) : i = n + 1 \/ i \in k..n
      BY <1>2
    <3>2. \A i \in k..n : i \in 1..n /\ i \in k..(n + 1)
      BY <1>2
    <3>3. QED
      BY <1>2, <2>c, <3>1, <3>2
  <2>1. CASE h = "washing"
    <3>1. Since(more) = Since(look) \cup {n + 1}
      <4>1. ~Gap(more, n + 1)
        BY <1>5, <2>1
      <4>2. ASSUME NEW k \in 1..(n + 1)
            PROVE  k \in Since(more) <=> k \in Since(look) \cup {n + 1}
        <5>1. CASE k = n + 1
          <6>1. \A i \in k..(n + 1) : i = n + 1
            BY <1>2, <5>1
          <6>2. more[k].hands = "washing"
            BY <1>1, <1>2, <2>1, <5>1
          <6>3. QED
            BY <2>b, <4>1, <5>1, <6>1, <6>2
        <5>2. CASE k # n + 1
          <6>1. k \in 1..n
            BY <1>2, <5>2
          <6>2. QED
            BY <1>2, <2>b, <2>c, <4>1, <5>2, <6>1
        <5>3. QED
          BY <5>1, <5>2
      <4>3. /\ Since(look) \subseteq 1..(n + 1) /\ Since(more) \subseteq 1..(n + 1)
            /\ n + 1 \in 1..(n + 1)
        BY <1>2, <2>b
      <4>4. QED
        BY <4>2, <4>3
    <3>2. n + 1 \notin Since(look)
      BY <1>2, <2>b
    <3>3. /\ IsFiniteSet(Since(more))
          /\ Cardinality(Since(more)) = Cardinality(Since(look)) + 1
      BY <2>a, <3>1, <3>2, FS_AddElement
    <3>4. QED
      BY <1>3, <2>1, <2>a, <3>3 DEF CountFollows
  <2>2. CASE h # "washing" /\ e.none + 1 >= HoldFrames
    <3>1. Gap(more, n + 1)
      BY <1>5, <2>2
    <3>2. \A k \in 1..(n + 1) : n + 1 \in k..(n + 1)
      BY <1>2
    <3>3. Since(more) = {}
      BY <2>b, <3>1, <3>2
    <3>4. QED
      BY <1>3, <2>2, <3>3, FS_EmptySet DEF CountFollows
  <2>3. CASE h # "washing" /\ ~(e.none + 1 >= HoldFrames)
    <3>1. ~Gap(more, n + 1)
      BY <1>5, <2>3
    <3>2. ASSUME NEW k \in 1..(n + 1)
          PROVE  k \in Since(more) <=> k \in Since(look)
      <4>1. CASE k = n + 1
        <5>1. more[k].hands # "washing" /\ k \notin 1..n
          BY <1>1, <1>2, <2>3, <4>1
        <5>2. QED
          BY <2>b, <5>1
      <4>2. CASE k # n + 1
        <5>1. k \in 1..n
          BY <1>2, <4>2
        <5>2. QED
          BY <1>2, <2>b, <2>c, <3>1, <5>1
      <4>3. QED
        BY <4>1, <4>2
    <3>3. Since(look) \subseteq 1..(n + 1) /\ Since(more) \subseteq 1..(n + 1)
      BY <1>2, <2>b
    <3>4. Since(more) = Since(look)
      BY <3>2, <3>3
    <3>5. QED
      BY <1>3, <2>3, <2>a, <3>4 DEF CountFollows
  <2>4. QED
    BY <2>1, <2>2, <2>3
<1>10. QED
  BY <1>2, <1>3, <1>7, <1>8, <1>9 DEF Follows, new, more, x

----------------------------------------------------------------------------
(* One more frame of the camera *)

(* A person has been seen as the history says, if at all. *)
SeenBefore(id) == IF id \in DOMAIN lately THEN lately[id].look ELSE <<>>

(* The record a frame starts from, of a person known or new. *)
LEMMA EntryFollows ==
  ASSUME Recalled, NEW id, NEW t \in Nat
  PROVE  /\ Follows(Entry(id, t), SeenBefore(id)) /\ Entry(id, t).seenAt = t
         /\ \A i \in 1..Len(SeenBefore(id)) : SeenBefore(id)[i].at <= now
<1>1. CASE id \in DOMAIN lately
  <2>1. /\ Follows(tracking[id], lately[id].look) /\ id \in DOMAIN tracking
        /\ \A i \in 1..Len(lately[id].look) : lately[id].look[i].at <= now
    BY <1>1 DEF Recalled
  <2>2. SeenBefore(id) = lately[id].look /\ Entry(id, t) = [tracking[id] EXCEPT !.seenAt = t]
    BY <1>1, <2>1 DEF SeenBefore, Entry
  <2>3. PICK e : e = tracking[id]
    OBVIOUS
  <2>4. PICK new : new = [e EXCEPT !.seenAt = t]
    OBVIOUS
  <2>5. PICK look : look = lately[id].look
    OBVIOUS
  <2>6. Follows(e, look)
    BY <2>1, <2>3, <2>5
  <2>7. /\ new \in Entries /\ new.seenAt = t /\ new.nearAt = e.nearAt
        /\ new.none = e.none /\ new.positive = e.positive
    BY <2>4, <2>6 DEF Follows, Entries
  <2>8. Follows(new, look)
    <3>1. NearFollows(new, look)
      BY <2>6, <2>7 DEF Follows, NearFollows
    <3>2. RunFollows(new, look)
      BY <2>6, <2>7 DEF Follows, RunFollows
    <3>3. CountFollows(new, look)
      BY <2>6, <2>7 DEF Follows, CountFollows
    <3>4. QED
      BY <2>6, <2>7, <3>1, <3>2, <3>3 DEF Follows
  <2>9. QED
    BY <2>1, <2>2, <2>3, <2>4, <2>5, <2>7, <2>8
<1>2. CASE id \notin DOMAIN lately
  <2>1. /\ SeenBefore(id) = <<>>
        /\ Entry(id, t) = [positive |-> 0, none |-> 0, nearAt |-> Never, seenAt |-> t]
    BY <1>2 DEF SeenBefore, Entry, Recalled
  <2>2. <<>> \in Seq(Sights) /\ Len(<<>>) = 0
    BY EmptySeq
  <2>3. PICK e : e = [positive |-> 0, none |-> 0, nearAt |-> Never, seenAt |-> t]
    OBVIOUS
  <2>4. /\ e \in Entries /\ e.seenAt = t /\ e.nearAt = Never /\ e.none = 0 /\ e.positive = 0
    BY <2>3 DEF Entries
  <2>5. NearFollows(e, <<>>) /\ RunFollows(e, <<>>)
    BY <2>2, <2>4 DEF NearFollows, RunFollows
  <2>6. CountFollows(e, <<>>)
    <3>1. Since(<<>>) = {}
      BY <2>2 DEF Since
    <3>2. QED
      BY <2>4, <3>1, FS_EmptySet DEF CountFollows
  <2>7. QED
    BY <2>1, <2>2, <2>3, <2>4, <2>5, <2>6 DEF Follows
<1>3. QED
  BY <1>1, <1>2

LEMMA SightTimes ==
  ASSUME NEW q, q \in Seq(Sights)
  PROVE  \A i \in 1..Len(q) : q[i].at \in Nat
<1>1. ASSUME NEW i \in 1..Len(q)
      PROVE  q[i].at \in Nat
  <2>1. q[i] \in Sights
    BY ElementOfSeq
  <2>2. QED
    BY <2>1 DEF Sights
<1>2. QED
  BY <1>1

(* The builder and the history go on together, whatever hands a frame shows *)
(* of whatever ids.                                                         *)
LEMMA BuildStep ==
  ASSUME Recalled, NEW hands, \A id \in DOMAIN hands : hands[id] \in Hands,
         NEW t \in Nat, t > now, now' = t, Build(hands, t), Remember(hands, t)
  PROVE  BuilderInv'
<1> DEFINE Rec(id) == NearSince(CountEvidence(Entry(id, t), hands[id]), hands[id], t)
           Look(id) == Append(SeenBefore(id), [at |-> t, hands |-> hands[id]])
<1>0. /\ now \in Nat /\ DOMAIN tracking = DOMAIN lately
      /\ StaleSeconds \in Nat /\ ResetSeconds \in Nat /\ Never \notin Nat
  BY BuilderConfigOK DEF Recalled
<1>1. ASSUME NEW id \in DOMAIN hands
      PROVE  /\ Entry(id, t) \in Entries /\ Entry(id, t).seenAt = t
             /\ SeenBefore(id) \in Seq(Sights)
             /\ NearFollows(Entry(id, t), SeenBefore(id))
             /\ \A i \in 1..Len(SeenBefore(id)) : SeenBefore(id)[i].at <= now
             /\ Follows(Rec(id), Look(id)) /\ Rec(id).seenAt = t
             /\ CountEvidence(Entry(id, t), hands[id]).positive = Rec(id).positive
             /\ [at |-> t, hands |-> hands[id]] \in Sights
  <2>1. /\ Follows(Entry(id, t), SeenBefore(id)) /\ Entry(id, t).seenAt = t
        /\ \A i \in 1..Len(SeenBefore(id)) : SeenBefore(id)[i].at <= now
    BY EntryFollows
  <2>2. /\ Entry(id, t) \in Entries /\ SeenBefore(id) \in Seq(Sights)
        /\ NearFollows(Entry(id, t), SeenBefore(id))
    BY <2>1 DEF Follows
  <2>3. \A i \in 1..Len(SeenBefore(id)) : SeenBefore(id)[i].at <= t
    <3>1. ASSUME NEW i \in 1..Len(SeenBefore(id))
          PROVE  SeenBefore(id)[i].at <= t
      <4>1. SeenBefore(id)[i].at \in Nat /\ SeenBefore(id)[i].at <= now
        BY <2>1, <2>2, SightTimes
      <4>2. QED
        BY <1>0, <4>1
    <3>2. QED
      BY <3>1
  <2>4. Follows(Rec(id), Look(id))
    BY <2>1, <2>3, FollowsStep
  <2>5. /\ Rec(id).seenAt = t
        /\ CountEvidence(Entry(id, t), hands[id]).positive = Rec(id).positive
    BY <2>1, <2>2, RecordStep
  <2>6. QED
    BY <2>1, <2>2, <2>4, <2>5 DEF Sights
<1>2. /\ DOMAIN tracking' = DOMAIN lately'
      /\ DOMAIN hands \subseteq DOMAIN lately'
      /\ \A id \in DOMAIN hands : tracking'[id] = Rec(id) /\ lately'[id] = [at |-> t, look |-> Look(id)]
      /\ \A id \in DOMAIN lately' \ DOMAIN hands :
           id \in DOMAIN lately /\ tracking'[id] = tracking[id] /\ lately'[id] = lately[id]
  <2> DEFINE old == {id \in DOMAIN lately : id \in DOMAIN hands \/ t - lately[id].at <= StaleSeconds}
             after == [id \in DOMAIN tracking \cup DOMAIN hands |->
                         IF id \in DOMAIN hands THEN Rec(id) ELSE tracking[id]]
             kept == {i \in DOMAIN after : StillTracked(after[i], t)}
  <2>1. /\ lately' = [id \in old \cup DOMAIN hands |->
             IF id \notin DOMAIN hands THEN lately[id]
             ELSE [at |-> t,
                   look |-> Append(IF id \in old THEN lately[id].look ELSE <<>>,
                                   [at |-> t, hands |-> hands[id]])]]
        /\ tracking' = [id \in kept |-> after[id]]
    BY DEF Remember, Build
  <2>2. \A id \in DOMAIN hands :
          (IF id \in old THEN lately[id].look ELSE <<>>) = SeenBefore(id)
    BY DEF SeenBefore
  <2>3. \A id \in DOMAIN hands : id \in kept
    <3>1. ASSUME NEW id \in DOMAIN hands
          PROVE  id \in DOMAIN after /\ after[id].seenAt = t
      BY <1>1
    <3>2. t - t <= StaleSeconds
      BY <1>0
    <3>3. QED
      BY <3>1, <3>2 DEF StillTracked
  <2>4. ASSUME NEW id, id \notin DOMAIN hands
        PROVE  id \in kept <=> id \in old
    <3>1. CASE id \in DOMAIN lately
      <4>1. tracking[id].seenAt = lately[id].at /\ id \in DOMAIN after /\ after[id] = tracking[id]
        BY <1>0, <2>4, <3>1 DEF Recalled
      <4>2. QED
        BY <2>4, <3>1, <4>1 DEF StillTracked
    <3>2. CASE id \notin DOMAIN lately
      BY <1>0, <2>4, <3>2
    <3>3. QED
      BY <3>1, <3>2
  <2> HIDE DEF old
  <2>5. DOMAIN tracking' = kept /\ DOMAIN lately' = old \cup DOMAIN hands
    BY <2>1
  <2>6. kept = old \cup DOMAIN hands
    BY <2>3, <2>4
  <2>7. \A id \in kept : tracking'[id] = after[id] /\ id \in DOMAIN tracking \cup DOMAIN hands
    BY <2>1
  <2>8. \A id \in DOMAIN hands : after[id] = Rec(id)
    OBVIOUS
  <2>9. \A id \in kept \ DOMAIN hands : after[id] = tracking[id] /\ id \in DOMAIN lately
    BY <1>0
  <2>10. \A id \in DOMAIN hands : lately'[id] = [at |-> t, look |-> Look(id)]
    BY <2>1, <2>2
  <2>11. \A id \in old \ DOMAIN hands : lately'[id] = lately[id]
    BY <2>1
  <2> HIDE DEF kept, after
  <2>12. QED
    BY <2>3, <2>5, <2>6, <2>7, <2>8, <2>9, <2>10, <2>11
<1>3. seenNow' = [id \in DOMAIN hands |-> Observed(Entry(id, t), hands[id], t)]
  BY DEF Build
<1> HIDE DEF Rec, Look
<1>4. Recalled'
  <2>1. ASSUME NEW id \in DOMAIN lately'
        PROVE  /\ tracking'[id].seenAt = lately'[id].at
               /\ \A i \in 1..Len(lately'[id].look) : lately'[id].look[i].at <= t
               /\ Follows(tracking'[id], lately'[id].look)
    <3>1. CASE id \in DOMAIN hands
      <4>1. /\ tracking'[id] = Rec(id) /\ lately'[id].at = t /\ lately'[id].look = Look(id)
        <5>1. tracking'[id] = Rec(id) /\ lately'[id] = [at |-> t, look |-> Look(id)]
          BY <1>2, <3>1
        <5>2. QED
          BY <5>1
      <4>2. \A i \in 1..Len(Look(id)) : Look(id)[i].at <= t
        <5>1. PICK q \in Seq(Sights) : q = SeenBefore(id)
          BY <1>1, <3>1
        <5>2. PICK x \in Sights : x = [at |-> t, hands |-> hands[id]]
          BY <1>1, <3>1
        <5>3. /\ Look(id) = Append(q, x) /\ Len(Append(q, x)) = Len(q) + 1 /\ Len(q) \in Nat
              /\ \A i \in 1..Len(q) : Append(q, x)[i] = q[i]
              /\ Append(q, x)[Len(q) + 1] = x
          BY <5>1, <5>2, OneMore DEF Look
        <5>4. ASSUME NEW i \in 1..(Len(q) + 1)
              PROVE  Append(q, x)[i].at <= t
          <6>1. CASE i = Len(q) + 1
            BY <5>2, <5>3, <6>1
          <6>2. CASE i # Len(q) + 1
            <7>1. i \in 1..Len(q)
              BY <5>3, <6>2
            <7>2. q[i].at <= now /\ q[i].at \in Nat
              BY <1>1, <3>1, <5>1, <7>1, SightTimes
            <7>3. QED
              BY <1>0, <5>3, <7>1, <7>2
          <6>3. QED
            BY <6>1, <6>2
        <5>5. QED
          BY <5>3, <5>4
      <4>3. QED
        BY <1>1, <3>1, <4>1, <4>2
    <3>2. CASE id \notin DOMAIN hands
      <4>1. id \in DOMAIN lately /\ tracking'[id] = tracking[id] /\ lately'[id] = lately[id]
        BY <1>2, <3>2
      <4>2. /\ tracking[id].seenAt = lately[id].at /\ Follows(tracking[id], lately[id].look)
            /\ \A i \in 1..Len(lately[id].look) : lately[id].look[i].at <= now
        BY <4>1 DEF Recalled
      <4>3. \A i \in 1..Len(lately[id].look) : lately[id].look[i].at \in Nat
        <5>1. PICK q : q = lately[id].look
          OBVIOUS
        <5>2. q \in Seq(Sights)
          BY <4>2, <5>1 DEF Follows
        <5>3. QED
          BY <5>1, <5>2, SightTimes
      <4>4. \A i \in 1..Len(lately[id].look) : lately[id].look[i].at <= t
        BY <1>0, <4>2, <4>3
      <4>5. QED
        BY <4>1, <4>2, <4>4
    <3>3. QED
      BY <3>1, <3>2
  <2>2. QED
    BY <1>2, <2>1 DEF Recalled
<1>5. Told'
  <2>1. ASSUME NEW id \in DOMAIN seenNow'
        PROVE  id \in DOMAIN lately'
               /\ (seenNow'[id].hands <=> tracking'[id].positive >= ConfirmFrames)
    <3>1. id \in DOMAIN hands /\ seenNow'[id] = Observed(Entry(id, t), hands[id], t)
      BY <1>3
    <3>2. seenNow'[id].hands =
            (CountEvidence(Entry(id, t), hands[id]).positive >= ConfirmFrames)
      BY <3>1 DEF Observed
    <3>3. QED
      BY <1>1, <1>2, <3>1, <3>2
  <2>2. QED
    BY <2>1 DEF Told
<1>6. InsideIffHandLately'
  <2>1. ASSUME NEW id \in DOMAIN seenNow'
        PROVE  seenNow'[id].inside <=>
                 \E i \in DOMAIN lately'[id].look :
                   /\ lately'[id].look[i].hands # "none"
                   /\ t - lately'[id].look[i].at < ResetSeconds \/ lately'[id].look[i].at = t
    <3>1. id \in DOMAIN hands /\ seenNow'[id] = Observed(Entry(id, t), hands[id], t)
      BY <1>3
    <3>2. PICK h \in Hands : h = hands[id]
      BY <3>1
    <3>3. PICK e \in Entries : e = Entry(id, t)
      BY <1>1, <3>1
    <3>4. PICK q \in Seq(Sights) : q = SeenBefore(id)
      BY <1>1, <3>1
    <3>5. PICK x \in Sights : x = [at |-> t, hands |-> h]
      BY <1>1, <3>1, <3>2
    <3>6. seenNow'[id].inside = AtSink(e, h, t)
      BY <3>1, <3>2, <3>3 DEF Observed
    <3>7. /\ lately'[id].look = Append(q, x) /\ DOMAIN Append(q, x) = 1..(Len(q) + 1)
          /\ \A i \in 1..Len(q) : Append(q, x)[i] = q[i]
          /\ Append(q, x)[Len(q) + 1] = x /\ Len(q) \in Nat
      <4>1. lately'[id] = [at |-> t, look |-> Look(id)]
        BY <1>2, <3>1
      <4>2. Look(id) = Append(q, x)
        BY <3>2, <3>4, <3>5 DEF Look
      <4>3. /\ DOMAIN Append(q, x) = 1..(Len(q) + 1)
            /\ \A i \in 1..Len(q) : Append(q, x)[i] = q[i]
            /\ Append(q, x)[Len(q) + 1] = x /\ Len(q) \in Nat
        BY OneMore
      <4>4. QED
        BY <4>1, <4>2, <4>3
    <3>8. NearFollows(e, q) /\ \A i \in 1..Len(q) : q[i].at <= now /\ q[i].at \in Nat
      BY <1>1, <3>1, <3>3, <3>4, SightTimes
    <3>9. x.at = t /\ x.hands = h /\ e.nearAt \in Nat \cup {Never}
      BY <3>5 DEF Entries
    <3> DEFINE Lately(z) == z.hands # "none" /\ (t - z.at < ResetSeconds \/ z.at = t)
    <3>10. AtSink(e, h, t) => \E i \in 1..(Len(q) + 1) : Lately(Append(q, x)[i])
      <4>1. CASE h # "none"
        <5>1. Len(q) + 1 \in 1..(Len(q) + 1)
          BY <3>7
        <5>2. QED
          BY <3>7, <3>9, <4>1, <5>1
      <4>2. CASE h = "none" /\ e.nearAt # Never /\ t - e.nearAt < ResetSeconds
        <5>1. PICK i \in 1..Len(q) : q[i].hands # "none" /\ q[i].at = e.nearAt
          BY <3>8, <4>2 DEF NearFollows
        <5>2. i \in 1..(Len(q) + 1) /\ Append(q, x)[i] = q[i]
          BY <3>7, <5>1
        <5>3. QED
          BY <4>2, <5>1, <5>2
      <4>3. QED
        BY <4>1, <4>2 DEF AtSink
    <3>11. ASSUME NEW i \in 1..(Len(q) + 1), Lately(Append(q, x)[i])
           PROVE  AtSink(e, h, t)
      <4>1. CASE h # "none"
        BY <4>1 DEF AtSink
      <4>2. CASE h = "none"
        <5>1. i \in 1..Len(q) /\ Append(q, x)[i] = q[i]
          BY <3>7, <3>9, <3>11, <4>2
        <5>2. /\ q[i].hands # "none" /\ q[i].at <= now /\ q[i].at \in Nat
              /\ e.nearAt # Never /\ q[i].at <= e.nearAt
          BY <3>8, <3>11, <5>1 DEF NearFollows
        <5>3. t - q[i].at < ResetSeconds
          BY <1>0, <3>11, <5>1, <5>2
        <5>4. e.nearAt \in Nat
          BY <3>9, <5>2
        <5>5. t - e.nearAt < ResetSeconds
          BY <1>0, <5>2, <5>3, <5>4
        <5>6. QED
          BY <5>2, <5>5 DEF AtSink
      <4>3. QED
        BY <4>1, <4>2
    <3>12. QED
      BY <3>6, <3>7, <3>10, <3>11
  <2>2. QED
    BY <2>1 DEF InsideIffHandLately
<1>7. QED
  BY <1>4, <1>5, <1>6 DEF BuilderInv

----------------------------------------------------------------------------
(* The results *)

LEMMA BuilderStarts == Init => BuilderInv
<1> SUFFICES ASSUME Init
             PROVE  BuilderInv
  OBVIOUS
<1>1. now = 0 /\ tracking = <<>> /\ seenNow = <<>> /\ lately = <<>>
  BY DEF Init, BuilderInit
<1>2. DOMAIN <<>> = {}
  OBVIOUS
<1>3. Recalled
  BY <1>1, <1>2 DEF Recalled
<1>4. Told
  BY <1>1, <1>2 DEF Told
<1>5. InsideIffHandLately
  BY <1>1, <1>2 DEF InsideIffHandLately
<1>6. QED
  BY <1>3, <1>4, <1>5 DEF BuilderInv

LEMMA BuilderNext == BuilderInv /\ [Next]_vars => BuilderInv'
<1> SUFFICES ASSUME BuilderInv, [Next]_vars
             PROVE  BuilderInv'
  OBVIOUS
<1>1. CASE Next
  <2>1. PICK n \in 0..MaxSeen, gap \in 1..MaxGap :
          \E p \in Placements(n), ids \in Numberings(n) : Frame(n, p, ids, gap)
    BY <1>1 DEF Next
  <2>2. PICK p \in Placements(n), ids \in Numberings(n) : Frame(n, p, ids, gap)
    BY <2>1
  <2>a. PICK shot \in Shots[n][p] :
          LET hands == [id \in Ids(returned') |-> HandsOf(id, returned', shot)]
          IN  Build(hands, now + gap) /\ Remember(hands, now + gap)
    BY <2>2 DEF Frame
  <2>3. PICK hands : hands = [id \in Ids(returned') |-> HandsOf(id, returned', shot)]
    OBVIOUS
  <2>4. PICK t : t = now + gap
    OBVIOUS
  <2>5. t \in Nat /\ t > now
    <3>1. now \in Nat /\ MaxGap \in Nat
      BY TrackingConfigOK DEF BuilderInv, Recalled
    <3>2. QED
      BY <2>4, <3>1
  <2>6. \A id \in DOMAIN hands : hands[id] \in Hands
    BY <2>3 DEF HandsOf, Hands
  <2>7. now' = t /\ Build(hands, t) /\ Remember(hands, t)
    BY <2>2, <2>a, <2>3, <2>4 DEF Frame
  <2>8. Recalled
    BY DEF BuilderInv
  <2>9. QED
    BY <2>5, <2>6, <2>7, <2>8, BuildStep
<1>2. CASE UNCHANGED vars
  <2>1. UNCHANGED <<now, tracking, seenNow, lately>>
    BY <1>2 DEF vars, builder, frameVars
  <2>2. Recalled' /\ Told'
    BY <2>1 DEF BuilderInv, Recalled, Told
  <2>3. InsideIffHandLately'
    BY <2>1 DEF BuilderInv, InsideIffHandLately
  <2>4. QED
    BY <2>2, <2>3 DEF BuilderInv
<1>3. QED
  BY <1>1, <1>2

LEMMA BuilderInvariant == Spec => []BuilderInv
BY BuilderStarts, BuilderNext, PTL DEF Spec

(* A person is told to be at the sink exactly if a hand was near it less    *)
(* than reset_after_no_detection_seconds ago (observation.py), for any      *)
(* grace period, any frame rate and whatever ids the tracker gives.         *)
THEOREM AtSinkFollowsHands == Spec => []InsideIffHandLately
<1>1. BuilderInv => InsideIffHandLately
  BY DEF BuilderInv
<1>2. QED
  BY <1>1, BuilderInvariant, PTL

(* Washing is told to be confirmed exactly if enough frames since the last  *)
(* gap showed it, for any confirmation_frames and washing_hold_frames: the  *)
(* two counters of the builder are right about the whole history.           *)
THEOREM WashingConfirmed == Spec => []ConfirmedByEvidence
<1>1. BuilderInv => ConfirmedByEvidence
  <2> SUFFICES ASSUME BuilderInv, NEW id \in DOMAIN seenNow
               PROVE  seenNow[id].hands <=>
                        Cardinality({k \in DOMAIN lately[id].look :
                          lately[id].look[k].hands = "washing"
                          /\ \A i \in k..Len(lately[id].look) : ~Gap(lately[id].look, i)})
                          >= ConfirmFrames
    BY DEF ConfirmedByEvidence
  <2>1. /\ seenNow[id].hands <=> tracking[id].positive >= ConfirmFrames
        /\ Follows(tracking[id], lately[id].look)
    BY DEF BuilderInv, Recalled, Told
  <2>2. /\ tracking[id].positive = Cardinality(Since(lately[id].look))
        /\ lately[id].look \in Seq(Sights)
    BY <2>1 DEF Follows, CountFollows
  <2>3. DOMAIN lately[id].look = 1..Len(lately[id].look)
    BY <2>2, LenProperties
  <2>4. Since(lately[id].look) =
          {k \in DOMAIN lately[id].look :
             lately[id].look[k].hands = "washing"
             /\ \A i \in k..Len(lately[id].look) : ~Gap(lately[id].look, i)}
    BY <2>3 DEF Since
  <2>5. QED
    BY <2>1, <2>2, <2>4
<1>2. QED
  BY <1>1, BuilderInvariant, PTL

----------------------------------------------------------------------------
(* Places in a sequence *)

(* As many as are before it have the places before it: a number per place. *)
LEMMA RankInjective ==
  ASSUME NEW S \in SUBSET Nat, IsFiniteSet(S)
  PROVE  [i \in S |-> Cardinality({j \in S : j < i}) + 1] \in Injection(S, 1..Cardinality(S))
<1> DEFINE under(i) == {j \in S : j < i}
           f == [i \in S |-> Cardinality(under(i)) + 1]
<1>0. /\ \A i : under(i) \in SUBSET S
      /\ \A i, j \in S : i \in Nat /\ (j \in under(i) <=> j < i)
  OBVIOUS
<1> HIDE DEF under
<1>1. \A i : IsFiniteSet(under(i)) /\ Cardinality(under(i)) \in Nat
  BY <1>0, FS_Subset, FS_CardinalityType
<1>2. ASSUME NEW i \in S
      PROVE  Cardinality(under(i)) + 1 \in 1..Cardinality(S)
  <2>1. under(i) \in SUBSET (S \ {i})
    BY <1>0
  <2>2. IsFiniteSet(S \ {i}) /\ Cardinality(S \ {i}) = Cardinality(S) - 1
    BY FS_RemoveElement
  <2>3. Cardinality(under(i)) <= Cardinality(S \ {i})
    BY <2>1, <2>2, FS_Subset
  <2>4. Cardinality(S) \in Nat
    BY FS_CardinalityType
  <2>5. QED
    BY <1>1, <2>2, <2>3, <2>4
<1>3. ASSUME NEW i \in S, NEW k \in S, i < k
      PROVE  Cardinality(under(i)) < Cardinality(under(k))
  <2>1. under(i) \cup {i} \in SUBSET under(k) /\ i \notin under(i)
    <3>1. \A j \in under(i) : j \in S /\ j < i /\ j \in Nat
      BY <1>0
    <3>2. \A j \in under(i) : j < k
      BY <1>0, <1>3, <3>1
    <3>3. QED
      BY <1>0, <1>3, <3>1, <3>2
  <2>2. Cardinality(under(i) \cup {i}) = Cardinality(under(i)) + 1
    BY <1>1, <2>1, FS_AddElement
  <2>3. Cardinality(under(i) \cup {i}) <= Cardinality(under(k))
    BY <1>1, <2>1, FS_Subset
  <2>4. QED
    BY <1>1, <2>2, <2>3
<1>4. f \in [S -> 1..Cardinality(S)]
  BY <1>2
<1>5. ASSUME NEW i \in S, NEW k \in S, f[i] = f[k]
      PROVE  i = k
  <2>1. Cardinality(under(i)) = Cardinality(under(k))
    BY <1>1, <1>5
  <2>2. ~(i < k) /\ ~(k < i)
    BY <1>1, <1>3, <2>1
  <2>3. i \in Nat /\ k \in Nat
    OBVIOUS
  <2>4. QED
    BY <2>2, <2>3
<1>6. f \in Injection(S, 1..Cardinality(S))
  BY <1>4, <1>5 DEF Injection, IsInjective
<1>7. QED
  BY <1>6 DEF under

(* Ascending(S) has each number of S once. *)
LEMMA AscendingAll ==
  ASSUME NEW S \in SUBSET Nat, IsFiniteSet(S)
  PROVE  /\ Ascending(S) \in Seq(S) /\ Cardinality(S) \in Nat
         /\ Len(Ascending(S)) = Cardinality(S) /\ DOMAIN Ascending(S) = 1..Cardinality(S)
         /\ \A k \in 1..Cardinality(S) : Ascending(S)[k] \in S
         /\ \A j, k \in 1..Cardinality(S) : Ascending(S)[j] = Ascending(S)[k] => j = k
         /\ \A i \in S : \E k \in 1..Cardinality(S) : Ascending(S)[k] = i
<1> DEFINE n == Cardinality(S)
           rank(i) == Cardinality({j \in S : j < i})
           f == [i \in S |-> rank(i) + 1]
           q == Ascending(S)
<1>0. q = [k \in 1..n |-> CHOOSE i \in S : rank(i) = k - 1]
  BY DEF Ascending
<1>1. n \in Nat /\ IsFiniteSet(1..n) /\ Cardinality(1..n) = n
  <2>1. n \in Nat
    BY FS_CardinalityType
  <2>2. QED
    BY <2>1, FS_Interval
<1>2. f \in Injection(S, 1..n)
  BY RankInjective
<1>3. f \in Surjection(S, 1..n)
  BY <1>1, <1>2, FS_Injection
<1>4. \A i \in S : rank(i) \in Nat
  BY FS_Subset, FS_CardinalityType
<1> HIDE DEF rank, q
<1>5. ASSUME NEW k \in 1..n
      PROVE  q[k] \in S /\ rank(q[k]) = k - 1
  <2>1. PICK i \in S : f[i] = k
    BY <1>3 DEF Surjection
  <2>2. rank(i) = k - 1
    BY <1>1, <1>4, <2>1
  <2>3. q[k] = CHOOSE x \in S : rank(x) = k - 1
    BY <1>0
  <2>4. QED
    BY <2>2, <2>3
<1>6. ASSUME NEW i \in S
      PROVE  f[i] \in 1..n /\ q[f[i]] = i
  <2>1. f[i] \in 1..n
    BY <1>2 DEF Injection
  <2>2. q[f[i]] \in S /\ rank(q[f[i]]) = rank(i)
    BY <1>4, <1>5, <2>1
  <2>3. f[q[f[i]]] = f[i]
    BY <2>2
  <2>4. QED
    BY <1>2, <2>2, <2>3 DEF Injection, IsInjective
<1>7. DOMAIN q = 1..n
  BY <1>0
<1> HIDE DEF f
<1>8. \A j, k \in 1..n : q[j] = q[k] => j = k
  BY <1>1, <1>5
<1>9. q \in Seq(S) /\ Len(q) = n
  <2>1. q \in [1..n -> S]
    <3>1. q = [k \in 1..n |-> q[k]]
      BY <1>0
    <3>2. QED
      BY <1>5, <3>1
  <2>2. q \in Seq(S)
    BY <1>1, <2>1, SeqDef
  <2>3. QED
    BY <1>1, <1>7, <2>2, LenProperties
<1>10. QED
  BY <1>1, <1>5, <1>6, <1>7, <1>8, <1>9 DEF q

----------------------------------------------------------------------------
(* Sequences of records with an id *)

Unique(q) == \A i, j \in DOMAIN q : q[i].id = q[j].id => i = j

LEMMA UniqueCount ==
  ASSUME NEW X, NEW q \in Seq(X)
  PROVE  /\ IsFiniteSet(Ids(q))
         /\ Unique(q) <=> Cardinality(Ids(q)) = Len(q)
<1> DEFINE f == [i \in 1..Len(q) |-> q[i].id]
<1>1. DOMAIN q = 1..Len(q) /\ Len(q) \in Nat
  BY LenProperties
<1>2. IsFiniteSet(1..Len(q)) /\ Cardinality(1..Len(q)) = Len(q)
  BY <1>1, FS_Interval
<1>3. f \in Surjection(1..Len(q), Ids(q))
  <2>1. f \in [1..Len(q) -> Ids(q)]
    BY <1>1 DEF Ids
  <2>2. \A x \in Ids(q) : \E i \in 1..Len(q) : f[i] = x
    BY <1>1 DEF Ids
  <2>3. QED
    BY <2>1, <2>2 DEF Surjection
<1>4. Unique(q) <=> f \in Injection(1..Len(q), Ids(q))
  <2>1. f \in [1..Len(q) -> Ids(q)]
    BY <1>3 DEF Surjection
  <2>2. Unique(q) <=> \A i, j \in 1..Len(q) : f[i] = f[j] => i = j
    BY <1>1 DEF Unique
  <2> HIDE DEF f
  <2>3. QED
    BY <2>1, <2>2 DEF Injection, IsInjective
<1> HIDE DEF f
<1>5. QED
  BY <1>2, <1>3, <1>4, FS_Surjection

LEMMA ConcatIds ==
  ASSUME NEW X, NEW a \in Seq(X), NEW b \in Seq(X)
  PROVE  /\ a \o b \in Seq(X) /\ Ids(a \o b) = Ids(a) \cup Ids(b)
         /\ Unique(a) /\ Unique(b) /\ Ids(a) \cap Ids(b) = {} => Unique(a \o b)
         /\ \A i \in DOMAIN (a \o b) :
              \/ i \in DOMAIN a /\ (a \o b)[i] = a[i]
              \/ i - Len(a) \in DOMAIN b /\ (a \o b)[i] = b[i - Len(a)]
         /\ \A i \in DOMAIN a : i \in DOMAIN (a \o b) /\ (a \o b)[i] = a[i]
         /\ \A i \in DOMAIN b : Len(a) + i \in DOMAIN (a \o b) /\ (a \o b)[Len(a) + i] = b[i]
         /\ Len(a \o b) = Len(a) + Len(b)
<1> DEFINE c == a \o b
<1>1. /\ c \in Seq(X) /\ Len(c) = Len(a) + Len(b)
      /\ \A i \in 1..(Len(a) + Len(b)) : c[i] = IF i <= Len(a) THEN a[i] ELSE b[i - Len(a)]
  BY ConcatProperties
<1>2. /\ DOMAIN a = 1..Len(a) /\ DOMAIN b = 1..Len(b)
      /\ Len(a) \in Nat /\ Len(b) \in Nat
  BY LenProperties
<1>3. DOMAIN c = 1..(Len(a) + Len(b))
  BY <1>1, LenProperties
<1> HIDE DEF c
<1>4. \A i \in DOMAIN c :
        \/ i \in DOMAIN a /\ c[i] = a[i]
        \/ i - Len(a) \in DOMAIN b /\ c[i] = b[i - Len(a)]
  <2> SUFFICES ASSUME NEW i \in DOMAIN c
               PROVE  \/ i \in DOMAIN a /\ c[i] = a[i]
                      \/ i - Len(a) \in DOMAIN b /\ c[i] = b[i - Len(a)]
    OBVIOUS
  <2>1. i \in 1..(Len(a) + Len(b))
    BY <1>3
  <2>2. CASE i <= Len(a)
    <3>1. i \in 1..Len(a)
      BY <1>2, <2>1, <2>2
    <3>2. QED
      BY <1>1, <1>2, <2>1, <2>2, <3>1
  <2>3. CASE ~(i <= Len(a))
    <3>1. i - Len(a) \in 1..Len(b)
      BY <1>2, <2>1, <2>3
    <3>2. QED
      BY <1>1, <1>2, <2>1, <2>3, <3>1
  <2>4. QED
    BY <2>2, <2>3
<1>5. \A i \in DOMAIN a : i \in DOMAIN c /\ c[i] = a[i]
  <2>1. \A i \in 1..Len(a) : i \in 1..(Len(a) + Len(b)) /\ i <= Len(a)
    BY <1>2
  <2>2. QED
    BY <1>1, <1>2, <1>3, <2>1
<1>6. \A i \in DOMAIN b : Len(a) + i \in DOMAIN c /\ c[Len(a) + i] = b[i]
  <2>1. \A i \in 1..Len(b) : /\ Len(a) + i \in 1..(Len(a) + Len(b)) /\ ~(Len(a) + i <= Len(a))
                             /\ (Len(a) + i) - Len(a) = i
    BY <1>2
  <2>2. QED
    BY <1>1, <1>2, <1>3, <2>1
<1>7. Ids(c) = Ids(a) \cup Ids(b)
  <2>1. ASSUME NEW i \in DOMAIN c
        PROVE  c[i].id \in Ids(a) \cup Ids(b)
    <3>1. CASE i \in DOMAIN a /\ c[i] = a[i]
      BY <3>1 DEF Ids
    <3>2. CASE i - Len(a) \in DOMAIN b /\ c[i] = b[i - Len(a)]
      BY <3>2 DEF Ids
    <3>3. QED
      BY <1>4, <3>1, <3>2
  <2>2. ASSUME NEW i \in DOMAIN a
        PROVE  a[i].id \in Ids(c)
    BY <1>5 DEF Ids
  <2>3. ASSUME NEW i \in DOMAIN b
        PROVE  b[i].id \in Ids(c)
    BY <1>6 DEF Ids
  <2>4. Ids(c) \subseteq Ids(a) \cup Ids(b)
    <3>1. \A x \in Ids(c) : \E i \in DOMAIN c : x = c[i].id
      BY DEF Ids
    <3>2. QED
      BY <2>1, <3>1
  <2>5. Ids(a) \subseteq Ids(c)
    <3>1. \A x \in Ids(a) : \E i \in DOMAIN a : x = a[i].id
      BY DEF Ids
    <3>2. QED
      BY <2>2, <3>1
  <2>6. Ids(b) \subseteq Ids(c)
    <3>1. \A x \in Ids(b) : \E i \in DOMAIN b : x = b[i].id
      BY DEF Ids
    <3>2. QED
      BY <2>3, <3>1
  <2>7. QED
    BY <2>4, <2>5, <2>6
<1>8. ASSUME Unique(a), Unique(b), Ids(a) \cap Ids(b) = {}
      PROVE  Unique(c)
  <2> SUFFICES ASSUME NEW i \in DOMAIN c, NEW j \in DOMAIN c, c[i].id = c[j].id
               PROVE  i = j
    BY DEF Unique
  <2>1. CASE i \in DOMAIN a /\ c[i] = a[i] /\ j \in DOMAIN a /\ c[j] = a[j]
    BY <1>8, <2>1 DEF Unique
  <2>2. CASE i - Len(a) \in DOMAIN b /\ c[i] = b[i - Len(a)]
             /\ j - Len(a) \in DOMAIN b /\ c[j] = b[j - Len(a)]
    <3>1. i - Len(a) = j - Len(a)
      BY <1>8, <2>2 DEF Unique
    <3>2. QED
      BY <1>2, <1>3, <3>1
  <2>3. ASSUME NEW x \in DOMAIN a, NEW y \in DOMAIN b, a[x].id = b[y].id
        PROVE  FALSE
    BY <1>8, <2>3 DEF Ids
  <2>4. QED
    BY <1>4, <2>1, <2>2, <2>3
<1>9. QED
  BY <1>1, <1>4, <1>5, <1>6, <1>7, <1>8 DEF c

LEMMA PlacesFinite ==
  ASSUME NEW X, NEW q \in Seq(X), NEW S \in SUBSET DOMAIN q
  PROVE  S \in SUBSET Nat /\ IsFiniteSet(S)
<1>1. DOMAIN q = 1..Len(q) /\ Len(q) \in Nat
  BY LenProperties
<1>2. IsFiniteSet(1..Len(q))
  BY <1>1, FS_Interval
<1>3. QED
  BY <1>1, <1>2, FS_Subset

LEMMA AtAll ==
  ASSUME NEW X, NEW q \in Seq(X), NEW S \in SUBSET DOMAIN q, NEW Y, \A i \in S : q[i] \in Y
  PROVE  /\ At(q, S) \in Seq(Y) /\ Ids(At(q, S)) = {q[i].id : i \in S}
         /\ Unique(q) => Unique(At(q, S))
         /\ \A k \in DOMAIN At(q, S) : \E i \in S : At(q, S)[k] = q[i]
         /\ \A i \in S : \E k \in DOMAIN At(q, S) : At(q, S)[k] = q[i]
<1> DEFINE r == At(q, S)
           places == Ascending(S)
           n == Cardinality(S)
<1>1. DOMAIN q = 1..Len(q) /\ Len(q) \in Nat
  BY LenProperties
<1>2. S \in SUBSET Nat /\ IsFiniteSet(S)
  BY PlacesFinite
<1>3. /\ n \in Nat /\ DOMAIN places = 1..n
      /\ \A k \in 1..n : places[k] \in S
      /\ \A j, k \in 1..n : places[j] = places[k] => j = k
      /\ \A i \in S : \E k \in 1..n : places[k] = i
  BY <1>2, AscendingAll
<1>4. r = [k \in 1..n |-> q[places[k]]]
  BY <1>3 DEF At
<1> HIDE DEF r, n, places
<1>5. DOMAIN r = 1..n /\ \A k \in 1..n : r[k] = q[places[k]]
  BY <1>4
<1>6. r \in Seq(Y)
  <2>1. r \in [1..n -> Y]
    BY <1>3, <1>4
  <2>2. QED
    BY <1>3, <2>1, SeqDef
<1>7. /\ \A k \in DOMAIN r : \E i \in S : r[k] = q[i]
      /\ \A i \in S : \E k \in DOMAIN r : r[k] = q[i]
  <2>1. ASSUME NEW k \in DOMAIN r
        PROVE  \E i \in S : r[k] = q[i]
    BY <1>3, <1>5
  <2>2. ASSUME NEW i \in S
        PROVE  \E k \in DOMAIN r : r[k] = q[i]
    <3>1. PICK k \in 1..n : places[k] = i
      BY <1>3
    <3>2. k \in DOMAIN r /\ r[k] = q[i]
      BY <1>5, <3>1
    <3>3. QED
      BY <3>2
  <2>3. QED
    BY <2>1, <2>2
<1>8. Ids(r) = {q[i].id : i \in S}
  <2>1. ASSUME NEW k \in DOMAIN r
        PROVE  r[k].id \in {q[i].id : i \in S}
    BY <1>7
  <2>2. ASSUME NEW i \in S
        PROVE  q[i].id \in Ids(r)
    BY <1>7 DEF Ids
  <2>3. Ids(r) \subseteq {q[i].id : i \in S}
    <3>1. \A x \in Ids(r) : \E k \in DOMAIN r : x = r[k].id
      BY DEF Ids
    <3>2. QED
      BY <2>1, <3>1
  <2>4. QED
    BY <2>2, <2>3
<1>9. ASSUME Unique(q)
      PROVE  Unique(r)
  <2> SUFFICES ASSUME NEW i \in DOMAIN r, NEW j \in DOMAIN r, r[i].id = r[j].id
               PROVE  i = j
    BY DEF Unique
  <2>1. i \in 1..n /\ j \in 1..n /\ q[places[i]].id = q[places[j]].id
    BY <1>5
  <2>2. places[i] \in DOMAIN q /\ places[j] \in DOMAIN q
    BY <1>3, <2>1
  <2>3. places[i] = places[j]
    BY <1>9, <2>1, <2>2 DEF Unique
  <2>4. QED
    BY <1>3, <2>1, <2>3
<1>10. QED
  BY <1>6, <1>7, <1>8, <1>9 DEF r

----------------------------------------------------------------------------
(* The greedy matching *)

Detections == [box : Boxes, id : Nat \cup {NoId}]

(* The least number of a set of them. *)
Below == {p \in Nat \X Nat : p[1] < p[2]}

LEMMA BelowWellFounded == IsWellFoundedOn(Below, Nat)
<1>1. Below = OpToRel(<, Nat)
  BY DEF Below, OpToRel
<1>2. QED
  BY <1>1, NatLessThanWellFounded, Zenon

LEMMA LeastNumber ==
  ASSUME NEW T \in SUBSET Nat, T # {}
  PROVE  \E m \in T : \A n \in T : m <= n
<1>1. PICK m \in T : \A n \in T : <<n, m>> \notin Below
  BY BelowWellFounded, WFMin, Zenon
<1>2. ASSUME NEW n \in T
      PROVE  m <= n
  <2>1. m \in Nat /\ n \in Nat /\ <<n, m>> \in Nat \X Nat
    OBVIOUS
  <2>2. ~(n < m)
    BY <1>1, <2>1 DEF Below
  <2>3. QED
    BY <2>1, <2>2
<1>3. QED
  BY <1>2

(* There is a best detection: of those to which fewest are preferred, one   *)
(* to which none is.                                                        *)
LEMMA BestIsFree ==
  ASSUME NEW box \in Boxes, NEW dets \in Seq(Detections), NEW free \in SUBSET DOMAIN dets
  PROVE  /\ free # {} => BestDet(box, dets, free) \in free
         /\ free = {} => BestDet(box, dets, free) = 0
<1> DEFINE fit == [i \in free |-> Overlap(box, dets[i].box)]
           better(i) == {j \in free : fit[j] > fit[i] \/ (fit[j] = fit[i] /\ j < i)}
<1>1. /\ \A i \in free : i \in Nat /\ fit[i] \in Nat /\ fit[i] = Overlap(box, dets[i].box)
      /\ IsFiniteSet(free)
  <2>1. DOMAIN dets = 1..Len(dets) /\ Len(dets) \in Nat
    BY LenProperties
  <2>2. \A i \in free : i \in Nat /\ dets[i] \in Detections
    BY <2>1, ElementOfSeq
  <2>3. \A i \in free : dets[i].box \in Boxes
    BY <2>2 DEF Detections
  <2>4. \A i \in free : fit[i] \in Nat
    BY <2>3, TrackerConfigOK
  <2>5. IsFiniteSet(free)
    <3>1. IsFiniteSet(1..Len(dets))
      BY <2>1, FS_Interval
    <3>2. QED
      BY <2>1, <3>1, FS_Subset
  <2>6. QED
    BY <2>2, <2>4, <2>5
<1>2. CASE free = {}
  BY <1>2 DEF BestDet
<1>3. CASE free # {}
  <2> HIDE DEF fit
  <2>0. \A i, j \in free : j \in better(i) <=> fit[j] > fit[i] \/ (fit[j] = fit[i] /\ j < i)
    OBVIOUS
  <2>1. \A i \in free : better(i) \in SUBSET free /\ IsFiniteSet(better(i))
                        /\ Cardinality(better(i)) \in Nat
    <3>1. \A i \in free : better(i) \in SUBSET free
      OBVIOUS
    <3> HIDE DEF better
    <3>2. QED
      BY <1>1, <3>1, FS_Subset, FS_CardinalityType
  <2> HIDE DEF better
  <2>2. PICK i \in free : \A j \in free : Cardinality(better(i)) <= Cardinality(better(j))
    <3>1. {Cardinality(better(i)) : i \in free} \in SUBSET Nat
          /\ {Cardinality(better(i)) : i \in free} # {}
      BY <1>3, <2>1
    <3>2. PICK m \in {Cardinality(better(i)) : i \in free} :
            \A n \in {Cardinality(better(i)) : i \in free} : m <= n
      BY <3>1, LeastNumber
    <3>3. PICK i \in free : m = Cardinality(better(i))
      BY <3>2
    <3>4. QED
      BY <3>2, <3>3
  <2>3. ASSUME NEW j \in better(i)
        PROVE  FALSE
    <3>1. j \in free /\ (fit[j] > fit[i] \/ (fit[j] = fit[i] /\ j < i))
      BY <2>0, <2>1
    <3>2. ASSUME NEW k \in better(j)
          PROVE  k \in better(i)
      <4>1. k \in free /\ (fit[k] > fit[j] \/ (fit[k] = fit[j] /\ k < j))
        BY <2>0, <2>1, <3>1
      <4>2. fit[k] > fit[i] \/ (fit[k] = fit[i] /\ k < i)
        BY <1>1, <3>1, <4>1
      <4>3. QED
        BY <2>0, <4>1, <4>2
    <3>3. j \notin better(j)
      BY <1>1, <2>0, <3>1
    <3>4. better(j) \cup {j} \in SUBSET better(i)
      BY <3>2
    <3>5. Cardinality(better(j) \cup {j}) = Cardinality(better(j)) + 1
      BY <2>1, <3>1, <3>3, FS_AddElement
    <3>6. Cardinality(better(j) \cup {j}) <= Cardinality(better(i))
      BY <2>1, <3>4, FS_Subset
    <3>7. QED
      BY <2>1, <2>2, <3>1, <3>5, <3>6
  <2>4. \A j \in free : fit[i] > fit[j] \/ (fit[i] = fit[j] /\ i <= j)
    BY <1>1, <2>0, <2>3
  <2>5. \A j \in free :
          \/ Overlap(box, dets[i].box) > Overlap(box, dets[j].box)
          \/ Overlap(box, dets[i].box) = Overlap(box, dets[j].box) /\ i <= j
    BY <1>1, <2>4
  <2>6. QED
    BY <1>3, <2>5 DEF BestDet
<1>4. QED
  BY <1>2, <1>3

LEMMA TrackTyped ==
  ASSUME tracks \in Seq(TrackRecords), NEW k \in DOMAIN tracks
  PROVE  /\ k \in 1..Len(tracks) /\ tracks[k] \in TrackRecords
         /\ tracks[k].id \in Nat \ {0} /\ tracks[k].box \in Boxes
<1>1. k \in 1..Len(tracks)
  BY LenProperties
<1>2. tracks[k] \in TrackRecords
  BY <1>1, ElementOfSeq
<1>3. QED
  BY <1>1, <1>2 DEF TrackRecords

(* Each track in turn can be given its detection. *)
LEMMA GreedyExists ==
  ASSUME tracks \in Seq(TrackRecords), NEW dets \in Seq(Detections)
  PROVE  \E m \in [DOMAIN tracks -> 0..Len(dets)] : Greedy(m, dets)
<1> DEFINE best(m, k) == BestDet(tracks[k].box, dets,
                           Candidates(tracks[k].box, dets, {m[i] : i \in 1..(k - 1)}))
           Upto(n) == \E m \in [1..n -> 0..Len(dets)] : \A k \in 1..n : m[k] = best(m, k)
           T == {n \in 0..Len(tracks) : ~Upto(n)}
<1>1. /\ DOMAIN tracks = 1..Len(tracks) /\ Len(tracks) \in Nat
      /\ DOMAIN dets = 1..Len(dets) /\ Len(dets) \in Nat
  BY LenProperties
<1>2. \A m : \A k \in 1..Len(tracks) : best(m, k) \in 0..Len(dets)
  <2> SUFFICES ASSUME NEW m, NEW k \in 1..Len(tracks)
               PROVE  best(m, k) \in 0..Len(dets)
    OBVIOUS
  <2>1. tracks[k].box \in Boxes
    BY <1>1, TrackTyped
  <2>2. PICK free : free = Candidates(tracks[k].box, dets, {m[i] : i \in 1..(k - 1)})
    OBVIOUS
  <2>3. free \in SUBSET DOMAIN dets
    BY <2>2 DEF Candidates
  <2>4. PICK box \in Boxes : box = tracks[k].box
    BY <2>1
  <2>5. BestDet(box, dets, free) \in free \cup {0}
    BY <2>3, BestIsFree
  <2>6. best(m, k) = BestDet(box, dets, free)
    BY <2>2, <2>4
  <2>7. QED
    BY <1>1, <2>3, <2>5, <2>6
<1>3. ASSUME NEW n \in 0..Len(tracks), n # 0, Upto(n - 1)
      PROVE  Upto(n)
  <2>1. PICK m \in [1..(n - 1) -> 0..Len(dets)] : \A k \in 1..(n - 1) : m[k] = best(m, k)
    BY <1>3
  <2>2. PICK x \in 0..Len(dets) : x = best(m, n)
    <3>1. n \in 1..Len(tracks)
      BY <1>1, <1>3
    <3>2. best(m, n) \in 0..Len(dets)
      BY <1>2, <3>1
    <3> HIDE DEF best
    <3>3. QED
      BY <3>2
  <2>3. PICK r : r = [k \in 1..n |-> IF k = n THEN x ELSE m[k]]
    OBVIOUS
  <2>4. n \in Nat /\ n \in 1..n /\ \A k \in 1..n : k # n => k \in 1..(n - 1)
    BY <1>1, <1>3
  <2>5. r \in [1..n -> 0..Len(dets)] /\ r[n] = x /\ \A k \in 1..(n - 1) : r[k] = m[k]
    BY <2>3, <2>4
  <2>6. \A k \in 1..n : {r[i] : i \in 1..(k - 1)} = {m[i] : i \in 1..(k - 1)}
    <3> SUFFICES ASSUME NEW k \in 1..n
                 PROVE  \A i \in 1..(k - 1) : r[i] = m[i]
      OBVIOUS
    <3>1. \A i \in 1..(k - 1) : i \in 1..(n - 1)
      BY <2>4
    <3>2. QED
      BY <2>5, <3>1
  <2>7. \A k \in 1..n : best(r, k) = best(m, k)
    BY <2>6
  <2> HIDE DEF best
  <2>8. \A k \in 1..n : r[k] = best(r, k)
    BY <2>1, <2>2, <2>4, <2>5, <2>7
  <2>9. QED
    BY <2>5, <2>8
<1>4. Upto(0)
  <2>1. [k \in 1..0 |-> 0] \in [1..0 -> 0..Len(dets)] /\ \A k \in 1..0 : FALSE
    OBVIOUS
  <2> HIDE DEF best
  <2>2. QED
    BY <2>1
<1> HIDE DEF Upto
<1>5. T = {}
  <2> SUFFICES ASSUME T # {}
               PROVE  FALSE
    OBVIOUS
  <2>1. T \in SUBSET Nat
    BY <1>1
  <2>2. PICK n \in T : \A k \in T : n <= k
    BY <2>1, LeastNumber
  <2>3. n # 0 /\ n \in 0..Len(tracks)
    BY <1>4
  <2>4. n - 1 \in 0..Len(tracks) /\ ~(n <= n - 1)
    BY <1>1, <2>3
  <2>5. Upto(n - 1)
    BY <2>2, <2>4
  <2>6. QED
    BY <1>3, <2>2, <2>3, <2>5
<1>6. Upto(Len(tracks))
  <2>1. Len(tracks) \in 0..Len(tracks)
    BY <1>1
  <2>2. QED
    BY <1>5, <2>1
<1>7. QED
  BY <1>1, <1>6 DEF Upto, Greedy

(* No detection is given to two tracks, and one that is left is where no    *)
(* track that was missed has been: it would have been matched.              *)
LEMMA MatchingFacts ==
  ASSUME tracks \in Seq(TrackRecords), NEW dets \in Seq(Detections), NEW m, m = Matching(dets)
  PROVE  /\ m \in [DOMAIN tracks -> 0..Len(dets)]
         /\ \A i, j \in DOMAIN tracks : m[i] = m[j] /\ m[i] # 0 => i = j
         /\ \A k \in DOMAIN tracks, d \in Left(dets, m) :
              m[k] = 0 => tracks[k].box # dets[d].box
<1>1. m \in [DOMAIN tracks -> 0..Len(dets)] /\ Greedy(m, dets)
  BY GreedyExists DEF Matching
<1>2. /\ DOMAIN tracks = 1..Len(tracks) /\ Len(tracks) \in Nat
      /\ DOMAIN dets = 1..Len(dets) /\ Len(dets) \in Nat
  BY LenProperties
<1> DEFINE free(k) == Candidates(tracks[k].box, dets, {m[i] : i \in 1..(k - 1)})
<1>3. ASSUME NEW k \in DOMAIN tracks
      PROVE  /\ m[k] = 0 \/ m[k] \in free(k)
             /\ m[k] = 0 => free(k) = {}
  <2>1. PICK box \in Boxes : box = tracks[k].box
    BY <1>2, TrackTyped
  <2>2. PICK S : S = free(k)
    OBVIOUS
  <2>3. S \in SUBSET DOMAIN dets
    BY <2>2 DEF Candidates
  <2>4. m[k] = BestDet(box, dets, S)
    BY <1>1, <1>2, <2>1, <2>2 DEF Greedy
  <2>5. 0 \notin DOMAIN dets
    BY <1>2
  <2>6. CASE S = {}
    BY <2>2, <2>3, <2>4, <2>6, BestIsFree
  <2>7. CASE S # {}
    <3>1. m[k] \in S
      BY <2>3, <2>4, <2>7, BestIsFree
    <3>2. QED
      BY <2>2, <2>3, <2>5, <3>1
  <2>8. QED
    BY <2>6, <2>7
<1>4. ASSUME NEW i \in DOMAIN tracks, NEW j \in DOMAIN tracks, m[i] = m[j], m[i] # 0, i < j
      PROVE  FALSE
  <2>1. m[j] \notin {m[k] : k \in 1..(j - 1)}
    BY <1>3, <1>4 DEF Candidates
  <2>2. i \in 1..(j - 1)
    BY <1>2, <1>4
  <2>3. QED
    BY <1>4, <2>1, <2>2
<1>5. ASSUME NEW i \in DOMAIN tracks, NEW j \in DOMAIN tracks, m[i] = m[j], m[i] # 0
      PROVE  i = j
  <2>1. ~(i < j) /\ ~(j < i)
    BY <1>4, <1>5
  <2>2. QED
    BY <1>2, <2>1
<1>6. ASSUME NEW k \in DOMAIN tracks, NEW d \in Left(dets, m), m[k] = 0, tracks[k].box = dets[d].box
      PROVE  FALSE
  <2>1. d \in DOMAIN dets /\ \A i \in DOMAIN tracks : m[i] # d
    BY DEF Left
  <2>2. tracks[k].box \in Boxes
    BY <1>2, TrackTyped
  <2>3. Overlap(tracks[k].box, dets[d].box) > 0
    BY <1>6, <2>2, TrackerConfigOK
  <2>4. d \notin {m[i] : i \in 1..(k - 1)}
    <3>1. \A i \in 1..(k - 1) : i \in DOMAIN tracks
      BY <1>2
    <3>2. QED
      BY <2>1, <3>1
  <2>5. d \in free(k)
    BY <2>1, <2>3, <2>4 DEF Candidates
  <2>6. QED
    BY <1>3, <1>6, <2>5
<1>7. QED
  BY <1>1, <1>5, <1>6

----------------------------------------------------------------------------
(* The tracks after a frame without numbers *)

(* Some of the tracks, changed in anything but their ids. *)
LEMMA SomeTracks ==
  ASSUME tracks \in Seq(TrackRecords), Unique(tracks), NEW S \in SUBSET DOMAIN tracks,
         NEW Y, NEW r, r = [i \in DOMAIN Ascending(S) |-> r[i]],
         \A i \in DOMAIN Ascending(S) : r[i] \in Y /\ r[i].id = tracks[Ascending(S)[i]].id
  PROVE  /\ r \in Seq(Y) /\ Unique(r) /\ Ids(r) = {tracks[i].id : i \in S}
         /\ Len(r) = Cardinality(S) /\ DOMAIN r = DOMAIN Ascending(S)
<1> DEFINE places == Ascending(S)
           n == Cardinality(S)
<1>1. DOMAIN tracks = 1..Len(tracks) /\ Len(tracks) \in Nat
  BY LenProperties
<1>2. S \in SUBSET Nat /\ IsFiniteSet(S)
  BY PlacesFinite
<1>3. /\ n \in Nat /\ DOMAIN places = 1..n
      /\ \A k \in 1..n : places[k] \in S
      /\ \A j, k \in 1..n : places[j] = places[k] => j = k
      /\ \A i \in S : \E k \in 1..n : places[k] = i
  BY <1>2, AscendingAll
<1> HIDE DEF n, places
<1>4. DOMAIN r = 1..n /\ r = [i \in 1..n |-> r[i]]
      /\ \A i \in 1..n : r[i] \in Y /\ r[i].id = tracks[places[i]].id
  BY <1>3 DEF places
<1>5. r \in Seq(Y) /\ Len(r) = n
  <2>1. r \in [1..n -> Y]
    BY <1>4
  <2>2. r \in Seq(Y)
    BY <1>3, <2>1, SeqDef
  <2>3. QED
    BY <1>3, <1>4, <2>2, LenProperties
<1>6. Unique(r)
  <2> SUFFICES ASSUME NEW i \in 1..n, NEW j \in 1..n, r[i].id = r[j].id
               PROVE  i = j
    BY <1>4 DEF Unique
  <2>1. places[i] \in DOMAIN tracks /\ places[j] \in DOMAIN tracks
        /\ tracks[places[i]].id = tracks[places[j]].id
    BY <1>3, <1>4
  <2>2. places[i] = places[j]
    BY <2>1 DEF Unique
  <2>3. QED
    BY <1>3, <2>2
<1>7. Ids(r) = {tracks[i].id : i \in S}
  <2>1. Ids(r) = {r[i].id : i \in 1..n}
    BY <1>4 DEF Ids
  <2>2. {r[i].id : i \in 1..n} = {tracks[places[i]].id : i \in 1..n}
    BY <1>4
  <2>3. {tracks[places[i]].id : i \in 1..n} \subseteq {tracks[i].id : i \in S}
    BY <1>3
  <2>4. ASSUME NEW i \in S
        PROVE  tracks[i].id \in {tracks[places[k]].id : k \in 1..n}
    BY <1>3
  <2>5. QED
    BY <2>1, <2>2, <2>3, <2>4
<1>8. QED
  BY <1>3, <1>4, <1>5, <1>6, <1>7 DEF n, places

Elements(q) == {q[i] : i \in DOMAIN q}

(* Tracks of new ids come after the others, and change none of them. *)
LEMMA PutApart ==
  ASSUME NEW X, NEW dict \in Seq(X), NEW new \in Seq(X), Unique(dict), Unique(new),
         Ids(dict) \cap Ids(new) = {}, NEW q, q = PutTracks(dict, new)
  PROVE  /\ q \in Seq(X) /\ Unique(q) /\ Ids(q) = Ids(dict) \cup Ids(new)
         /\ Elements(q) = Elements(dict) \cup Elements(new)
<1> DEFINE S == {k \in DOMAIN new : new[k].id \notin Ids(dict)}
           b == At(new, S)
<1>1. S = DOMAIN new
  <2>1. \A k \in DOMAIN new : new[k].id \in Ids(new)
    BY DEF Ids
  <2>2. QED
    BY <2>1
<1>2. \A k \in DOMAIN new : new[k] \in X
  BY LenProperties, ElementOfSeq
<1>3. /\ b \in Seq(X) /\ Ids(b) = {new[i].id : i \in S} /\ Unique(b)
      /\ \A k \in DOMAIN b : \E i \in S : b[k] = new[i]
      /\ \A i \in S : \E k \in DOMAIN b : b[k] = new[i]
  <2>1. S \in SUBSET DOMAIN new
    OBVIOUS
  <2> HIDE DEF S
  <2>2. QED
    BY <1>1, <1>2, <2>1, AtAll
<1>4. Ids(b) = Ids(new)
  BY <1>1, <1>3 DEF Ids
<1>5. q = dict \o b
  <2>1. \A i \in DOMAIN dict : dict[i].id \notin Ids(new)
    BY DEF Ids
  <2>2. [i \in DOMAIN dict |->
           IF dict[i].id \in Ids(new) THEN new[CHOOSE k \in DOMAIN new : new[k].id = dict[i].id]
           ELSE dict[i]] = [i \in DOMAIN dict |-> dict[i]]
    BY <2>1
  <2>3. dict = [i \in DOMAIN dict |-> dict[i]]
    <3>1. dict \in [1..Len(dict) -> X] /\ DOMAIN dict = 1..Len(dict)
      BY LenProperties
    <3>2. QED
      BY <3>1
  <2>4. QED
    BY <2>2, <2>3 DEF PutTracks
<1> HIDE DEF S, b
<1>6. /\ q \in Seq(X) /\ Ids(q) = Ids(dict) \cup Ids(new) /\ Unique(q)
  BY <1>3, <1>4, <1>5, ConcatIds
<1>7. /\ \A i \in DOMAIN q :
           \/ i \in DOMAIN dict /\ q[i] = dict[i]
           \/ i - Len(dict) \in DOMAIN b /\ q[i] = b[i - Len(dict)]
      /\ \A i \in DOMAIN b : Len(dict) + i \in DOMAIN q /\ q[Len(dict) + i] = b[i]
  BY <1>3, <1>5, ConcatIds
<1>8. ASSUME NEW i \in DOMAIN q
      PROVE  \/ \E j \in DOMAIN dict : q[i] = dict[j]
             \/ \E k \in DOMAIN new : q[i] = new[k]
  <2>1. CASE i \in DOMAIN dict /\ q[i] = dict[i]
    BY <2>1
  <2>2. CASE i - Len(dict) \in DOMAIN b /\ q[i] = b[i - Len(dict)]
    BY <1>1, <1>3, <2>2
  <2>3. QED
    BY <1>7, <2>1, <2>2
<1>9. ASSUME NEW k \in DOMAIN new
      PROVE  \E i \in DOMAIN q : q[i] = new[k]
  <2>1. PICK j \in DOMAIN b : b[j] = new[k]
    BY <1>1, <1>3
  <2>2. QED
    BY <1>7, <2>1
<1>10. ASSUME NEW j \in DOMAIN dict
       PROVE  \E i \in DOMAIN q : q[i] = dict[j]
  BY <1>3, <1>5, ConcatIds
<1>11. Elements(q) = Elements(dict) \cup Elements(new)
  <2>1. \A i \in DOMAIN q : q[i] \in Elements(dict) \cup Elements(new)
    BY <1>8 DEF Elements
  <2>2. \A j \in DOMAIN dict : dict[j] \in Elements(q)
    BY <1>10 DEF Elements
  <2>3. \A k \in DOMAIN new : new[k] \in Elements(q)
    BY <1>9 DEF Elements
  <2>4. QED
    BY <2>1, <2>2, <2>3 DEF Elements
<1>12. QED
  BY <1>6, <1>11

(* A track that was missed, before it is decided whether to remember it. *)
OldRecords == [id : Nat \ {0}, box : Boxes, first : BOOLEAN, lost : Nat]

LEMMA HitTyped ==
  ASSUME NEW t \in TrackRecords, NEW box \in Boxes
  PROVE  /\ Hit(t, box) \in TrackRecords /\ Hit(t, box) \in OldRecords
         /\ Hit(t, box).id = t.id /\ Hit(t, box).first = FALSE /\ Hit(t, box).lost <= MaxLost
<1>1. MaxLost \in Nat /\ 0 \in 0..MaxLost
  BY TrackerConfigOK
<1>2. Hit(t, box) \in TrackRecords
  BY <1>1 DEF Hit, TrackRecords
<1>3. Hit(t, box).id = t.id /\ Hit(t, box).lost = 0
  BY DEF Hit, TrackRecords
<1>4. Hit(t, box).first = FALSE
  BY DEF Hit, TrackRecords
<1>5. 0..MaxLost \subseteq Nat
  BY <1>1
<1>6. TrackRecords \subseteq OldRecords
  BY <1>5 DEF TrackRecords, OldRecords
<1>7. QED
  BY <1>1, <1>2, <1>3, <1>4, <1>6

LEMMA MissedTyped ==
  ASSUME NEW t \in TrackRecords
  PROVE  Missed(t) \in OldRecords /\ Missed(t).id = t.id /\ Missed(t).box = t.box
<1>1. t.id \in Nat \ {0} /\ t.box \in Boxes /\ t.first \in BOOLEAN /\ t.lost \in Nat
  BY TrackerConfigOK DEF TrackRecords
<1>2. Missed(t) = [id |-> t.id, box |-> t.box, first |-> t.first, lost |-> t.lost + 1]
  BY DEF Missed, TrackRecords
<1>3. t.lost + 1 \in Nat
  BY <1>1
<1>4. QED
  BY <1>1, <1>2, <1>3 DEF OldRecords

LEMMA NewTyped ==
  ASSUME NEW id \in Nat \ {0}, NEW box \in Boxes
  PROVE  NewTrack(id, box) \in OldRecords /\ NewTrack(id, box).id = id
<1>1. NewTrack(id, box) = [id |-> id, box |-> box, first |-> TRUE, lost |-> 0]
  BY DEF NewTrack
<1>2. NewTrack(id, box) \in OldRecords
  BY <1>1 DEF OldRecords
<1>3. QED
  BY <1>1, <1>2

LEMMA RememberedTracks ==
  ASSUME NEW q \in Seq(OldRecords)
  PROVE  /\ Remembered(q) \in Seq(TrackRecords) /\ Ids(Remembered(q)) \subseteq Ids(q)
         /\ Unique(q) => Unique(Remembered(q))
         /\ \A k \in DOMAIN Remembered(q) : \E i \in DOMAIN q : Remembered(q)[k] = q[i]
<1> DEFINE S == {i \in DOMAIN q : q[i].lost <= MaxLost}
<1>1. \A i \in S : q[i] \in TrackRecords
  <2> SUFFICES ASSUME NEW i \in S
               PROVE  q[i] \in TrackRecords
    OBVIOUS
  <2>1. PICK t \in OldRecords : t = q[i] /\ t.lost <= MaxLost
    BY LenProperties, ElementOfSeq
  <2>2. t.lost \in 0..MaxLost
    BY <2>1, TrackerConfigOK DEF OldRecords
  <2>3. t = [id |-> t.id, box |-> t.box, first |-> t.first, lost |-> t.lost]
        /\ t.id \in Nat \ {0} /\ t.box \in Boxes /\ t.first \in BOOLEAN
    BY DEF OldRecords
  <2>4. QED
    BY <2>1, <2>2, <2>3 DEF TrackRecords
<1>2. S \in SUBSET DOMAIN q
  OBVIOUS
<1> HIDE DEF S
<1>3. /\ At(q, S) \in Seq(TrackRecords) /\ Ids(At(q, S)) = {q[i].id : i \in S}
      /\ Unique(q) => Unique(At(q, S))
      /\ \A k \in DOMAIN At(q, S) : \E i \in S : At(q, S)[k] = q[i]
  BY <1>1, <1>2, AtAll
<1>4. Ids(At(q, S)) \subseteq Ids(q)
  BY <1>2, <1>3 DEF Ids
<1>5. Remembered(q) = At(q, S)
  BY DEF Remembered, S
<1>6. QED
  BY <1>2, <1>3, <1>4, <1>5

(* The detections that are left are those no track has. *)
LEMMA LeftSplit ==
  ASSUME tracks \in Seq(TrackRecords), NEW dets \in Seq(Detections), NEW m, m = Matching(dets)
  PROVE  /\ Left(dets, m) \in SUBSET (1..Len(dets))
         /\ \A i \in DOMAIN tracks : m[i] \in 0..Len(dets) /\ (m[i] # 0 => m[i] \in DOMAIN dets)
         /\ \A d \in 1..Len(dets) :
              d \in Left(dets, m) \/ \E i \in DOMAIN tracks : m[i] # 0 /\ m[i] = d
<1>1. DOMAIN dets = 1..Len(dets) /\ Len(dets) \in Nat
  BY LenProperties
<1>2. m \in [DOMAIN tracks -> 0..Len(dets)]
  BY MatchingFacts
<1>3. \A i \in DOMAIN tracks : m[i] \in 0..Len(dets) /\ (m[i] # 0 => m[i] \in 1..Len(dets))
  BY <1>1, <1>2
<1>4. \A d \in 1..Len(dets) : d # 0
  BY <1>1
<1>5. QED
  BY <1>1, <1>3, <1>4 DEF Left

(* Tracks that were hit or missed and remembered. *)
KeptTracks(dets, m) ==
  [i \in DOMAIN HitBy(m) |-> Hit(tracks[HitBy(m)[i]], dets[m[HitBy(m)[i]]].box)]
  \o Remembered([i \in DOMAIN MissedBy(m) |-> Missed(tracks[MissedBy(m)[i]])])

LEMMA KeptApart ==
  ASSUME tracks \in Seq(TrackRecords), Unique(tracks), NEW dets \in Seq(Detections),
         NEW m, m = Matching(dets)
  PROVE  /\ KeptTracks(dets, m) \in Seq(TrackRecords) /\ Unique(KeptTracks(dets, m))
         /\ Ids(KeptTracks(dets, m)) \subseteq Ids(tracks)
         /\ \A j \in DOMAIN KeptTracks(dets, m), d \in Left(dets, m) :
              KeptTracks(dets, m)[j].first => KeptTracks(dets, m)[j].box # dets[d].box
<1> DEFINE H == {i \in DOMAIN tracks : m[i] # 0}
           M == {i \in DOMAIN tracks : m[i] = 0}
           h == [i \in DOMAIN HitBy(m) |-> Hit(tracks[HitBy(m)[i]], dets[m[HitBy(m)[i]]].box)]
           o == [i \in DOMAIN MissedBy(m) |-> Missed(tracks[MissedBy(m)[i]])]
           kept == KeptTracks(dets, m)
<1>1. /\ \A i \in H : i \in DOMAIN tracks /\ m[i] \in DOMAIN dets
      /\ \A i \in M : i \in DOMAIN tracks /\ m[i] = 0
      /\ H \in SUBSET DOMAIN tracks /\ M \in SUBSET DOMAIN tracks
  BY LeftSplit
<1>2. HitBy(m) = Ascending(H) /\ MissedBy(m) = Ascending(M)
  BY DEF HitBy, MissedBy
<1>3. /\ \A i \in DOMAIN Ascending(H) : Ascending(H)[i] \in H
      /\ \A i \in DOMAIN Ascending(M) : Ascending(M)[i] \in M
  <2>1. H \in SUBSET Nat /\ IsFiniteSet(H) /\ M \in SUBSET Nat /\ IsFiniteSet(M)
    BY <1>1, PlacesFinite
  <2> HIDE DEF H, M
  <2>2. QED
    BY <2>1, AscendingAll
<1> HIDE DEF H, M
<1>4. \A i \in DOMAIN Ascending(H) :
        /\ h[i] \in TrackRecords /\ h[i].id = tracks[Ascending(H)[i]].id /\ h[i].first = FALSE
  <2> SUFFICES ASSUME NEW i \in DOMAIN Ascending(H)
               PROVE  /\ h[i] \in TrackRecords /\ h[i].id = tracks[Ascending(H)[i]].id
                      /\ h[i].first = FALSE
    OBVIOUS
  <2>1. PICK x \in H : x = Ascending(H)[i]
    BY <1>3
  <2>2. PICK t \in TrackRecords : t = tracks[x]
    BY <1>1, TrackTyped
  <2>3. m[x] \in 1..Len(dets)
    BY <1>1, LenProperties
  <2>4. PICK e \in Detections : e = dets[m[x]]
    BY <2>3, ElementOfSeq
  <2>5. PICK box \in Boxes : box = dets[m[x]].box
    BY <2>4 DEF Detections
  <2>6. h[i] = Hit(t, box)
    BY <1>2, <2>1, <2>2, <2>5
  <2>7. /\ Hit(t, box) \in TrackRecords /\ Hit(t, box).id = t.id /\ Hit(t, box).first = FALSE
    BY HitTyped
  <2>8. QED
    BY <2>1, <2>2, <2>6, <2>7, Zenon
<1>5. \A i \in DOMAIN Ascending(M) :
        /\ o[i] \in OldRecords /\ o[i].id = tracks[Ascending(M)[i]].id
        /\ o[i].box = tracks[Ascending(M)[i]].box
  <2> SUFFICES ASSUME NEW i \in DOMAIN Ascending(M)
               PROVE  /\ o[i] \in OldRecords /\ o[i].id = tracks[Ascending(M)[i]].id
                      /\ o[i].box = tracks[Ascending(M)[i]].box
    OBVIOUS
  <2>1. PICK x \in M : x = Ascending(M)[i]
    BY <1>3
  <2>2. PICK t \in TrackRecords : t = tracks[x]
    BY <1>1, TrackTyped
  <2>3. o[i] = Missed(t)
    BY <1>2, <2>1, <2>2
  <2>4. QED
    BY <2>1, <2>2, <2>3, MissedTyped
<1>6. DOMAIN h = DOMAIN Ascending(H) /\ h = [i \in DOMAIN Ascending(H) |-> h[i]]
      /\ DOMAIN o = DOMAIN Ascending(M) /\ o = [i \in DOMAIN Ascending(M) |-> o[i]]
  BY <1>2
<1>7. kept = h \o Remembered(o)
  BY DEF KeptTracks
<1> HIDE DEF h, o, kept
<1>8. h \in Seq(TrackRecords) /\ Unique(h) /\ Ids(h) = {tracks[i].id : i \in H}
  BY <1>1, <1>4, <1>6, SomeTracks
<1>9. o \in Seq(OldRecords) /\ Unique(o) /\ Ids(o) = {tracks[i].id : i \in M}
  BY <1>1, <1>5, <1>6, SomeTracks
<1>10. PICK r : r = Remembered(o)
  OBVIOUS
<1>11. /\ r \in Seq(TrackRecords) /\ Ids(r) \subseteq Ids(o) /\ Unique(r)
       /\ \A k \in DOMAIN r : \E i \in DOMAIN o : r[k] = o[i]
  BY <1>9, <1>10, RememberedTracks
<1>12. Ids(h) \cap Ids(r) = {}
  <2>1. ASSUME NEW i \in H, NEW j \in M, tracks[i].id = tracks[j].id
        PROVE  FALSE
    <3>1. i = j
      BY <1>1, <2>1 DEF Unique
    <3>2. QED
      BY <3>1 DEF H, M
  <2>2. QED
    BY <1>8, <1>9, <1>11, <2>1, SMTT(30)
<1>13. Ids(h) \subseteq Ids(tracks) /\ Ids(o) \subseteq Ids(tracks)
  BY <1>1, <1>8, <1>9 DEF Ids
<1>14. /\ kept \in Seq(TrackRecords) /\ Unique(kept) /\ Ids(kept) = Ids(h) \cup Ids(r)
       /\ \A i \in DOMAIN kept :
            \/ i \in DOMAIN h /\ kept[i] = h[i]
            \/ i - Len(h) \in DOMAIN r /\ kept[i] = r[i - Len(h)]
  BY <1>7, <1>8, <1>10, <1>11, <1>12, ConcatIds
<1>15. ASSUME NEW j \in DOMAIN kept, NEW d \in Left(dets, m), kept[j].first
       PROVE  kept[j].box # dets[d].box
  <2>1. CASE j \in DOMAIN h /\ kept[j] = h[j]
    BY <1>4, <1>6, <1>15, <2>1
  <2>2. CASE j - Len(h) \in DOMAIN r /\ kept[j] = r[j - Len(h)]
    <3>1. PICK i \in DOMAIN o : kept[j] = o[i]
      BY <1>11, <2>2
    <3>2. PICK x \in M : x = Ascending(M)[i]
      BY <1>3, <1>6, <3>1
    <3>3. kept[j].box = tracks[x].box
      BY <1>5, <1>6, <3>1, <3>2
    <3>4. QED
      BY <1>1, <3>3, MatchingFacts
  <2>3. QED
    BY <1>14, <2>1, <2>2
<1>16. Ids(kept) \subseteq Ids(tracks)
  BY <1>11, <1>13, <1>14
<1>17. QED
  BY <1>14, <1>15, <1>16 DEF kept

(* New tracks, one for each detection that is left. *)
NewTracks(dets, m) ==
  [k \in DOMAIN Unmatched(dets, m) |-> NewTrack(FreshId(k), dets[Unmatched(dets, m)[k]].box)]

LEMMA UnmatchedAll ==
  ASSUME tracks \in Seq(TrackRecords), NEW dets \in Seq(Detections), NEW m, m = Matching(dets)
  PROVE  /\ Len(Unmatched(dets, m)) = Cardinality(Left(dets, m)) /\ Len(Unmatched(dets, m)) \in Nat
         /\ DOMAIN Unmatched(dets, m) = 1..Len(Unmatched(dets, m))
         /\ \A k \in DOMAIN Unmatched(dets, m) : Unmatched(dets, m)[k] \in Left(dets, m)
         /\ \A j, k \in DOMAIN Unmatched(dets, m) :
              Unmatched(dets, m)[j] = Unmatched(dets, m)[k] => j = k
         /\ \A d \in Left(dets, m) : \E k \in DOMAIN Unmatched(dets, m) : Unmatched(dets, m)[k] = d
<1> DEFINE L == Left(dets, m)
<1>1. L \in SUBSET DOMAIN dets
  BY DEF Left
<1>2. L \in SUBSET Nat /\ IsFiniteSet(L)
  BY <1>1, PlacesFinite
<1>3. Unmatched(dets, m) = Ascending(L)
  BY DEF Unmatched
<1> HIDE DEF L
<1>4. QED
  <2>1. /\ Cardinality(L) \in Nat
        /\ Len(Ascending(L)) = Cardinality(L) /\ DOMAIN Ascending(L) = 1..Cardinality(L)
        /\ \A k \in 1..Cardinality(L) : Ascending(L)[k] \in L
        /\ \A j, k \in 1..Cardinality(L) : Ascending(L)[j] = Ascending(L)[k] => j = k
        /\ \A i \in L : \E k \in 1..Cardinality(L) : Ascending(L)[k] = i
    BY <1>2, AscendingAll
  <2>2. QED
    BY <1>3, <2>1 DEF L

LEMMA NewApart ==
  ASSUME tracks \in Seq(TrackRecords), nextId \in Nat \ {0},
         NEW dets \in Seq(Detections), NEW m, m = Matching(dets)
  PROVE  /\ NewTracks(dets, m) \in Seq(TrackRecords) /\ Unique(NewTracks(dets, m))
         /\ DOMAIN NewTracks(dets, m) = DOMAIN Unmatched(dets, m)
         /\ \A k \in DOMAIN Unmatched(dets, m) :
              /\ NewTracks(dets, m)[k].id = nextId + k - 1 /\ NewTracks(dets, m)[k].id >= nextId
              /\ NewTracks(dets, m)[k].box = dets[Unmatched(dets, m)[k]].box
              /\ NewTracks(dets, m)[k].first
<1> DEFINE u == Unmatched(dets, m)
           w == NewTracks(dets, m)
<1>1. /\ Len(u) \in Nat /\ DOMAIN u = 1..Len(u)
      /\ \A k \in DOMAIN u : u[k] \in Left(dets, m)
  BY UnmatchedAll
<1>2. w = [k \in DOMAIN u |-> NewTrack(FreshId(k), dets[u[k]].box)]
  BY DEF NewTracks
<1> HIDE DEF u, w
<1>3. ASSUME NEW k \in DOMAIN u
      PROVE  /\ w[k] \in TrackRecords /\ w[k].id = nextId + k - 1 /\ w[k].id >= nextId
             /\ w[k].box = dets[u[k]].box /\ w[k].first
  <2>1. u[k] \in 1..Len(dets)
    BY <1>1, LeftSplit
  <2>2. PICK e \in Detections : e = dets[u[k]]
    BY <2>1, ElementOfSeq
  <2>3. PICK box \in Boxes : box = dets[u[k]].box
    BY <2>2 DEF Detections
  <2>4. PICK id \in Nat \ {0} : id = nextId + k - 1 /\ id >= nextId
    BY <1>1
  <2>5. w[k] = [id |-> id, box |-> box, first |-> TRUE, lost |-> 0]
    BY <1>2, <2>3, <2>4 DEF NewTrack, FreshId
  <2>6. 0 \in 0..MaxLost
    BY TrackerConfigOK
  <2>7. w[k] \in TrackRecords
    BY <2>5, <2>6 DEF TrackRecords
  <2>8. w[k].id = id /\ w[k].box = box
    BY <2>5
  <2>9. w[k].first = TRUE
    BY <2>5
  <2>10. QED
    BY <2>3, <2>4, <2>7, <2>8, <2>9
<1>4. DOMAIN w = DOMAIN u /\ w = [k \in DOMAIN u |-> w[k]]
  BY <1>2
<1>5. w \in Seq(TrackRecords)
  <2>1. w \in [1..Len(u) -> TrackRecords]
    BY <1>1, <1>3, <1>4
  <2>2. QED
    BY <1>1, <2>1, SeqDef
<1>6. Unique(w)
  <2> SUFFICES ASSUME NEW i \in DOMAIN u, NEW j \in DOMAIN u, w[i].id = w[j].id
               PROVE  i = j
    BY <1>4 DEF Unique
  <2>1. nextId + i - 1 = nextId + j - 1
    BY <1>3
  <2>2. i \in Nat /\ j \in Nat
    BY <1>1
  <2>3. QED
    BY <2>1, <2>2
<1>7. QED
  BY <1>3, <1>4, <1>5, <1>6 DEF u, w

(* The tracks after the frame: a detection that is left is found by its box *)
(* in the new track it was given, and in no other.                          *)
LEMMA MatchedStep ==
  ASSUME tracks \in Seq(TrackRecords), Unique(tracks), nextId \in Nat \ {0},
         NEW dets \in Seq(Detections),
         \A i, j \in DOMAIN dets : dets[i].box = dets[j].box => i = j,
         dets # <<>> => \A i \in DOMAIN tracks : tracks[i].id < nextId,
         NEW m, m = Matching(dets), NEW after, after = Matched(dets, m)
  PROVE  /\ after \in Seq(TrackRecords) /\ Unique(after)
         /\ Ids(after) \subseteq Ids(tracks) \cup Ids(NewTracks(dets, m))
         /\ \A k \in DOMAIN Unmatched(dets, m) :
              /\ Born(dets[Unmatched(dets, m)[k]], after) # {}
              /\ \A i \in Born(dets[Unmatched(dets, m)[k]], after) : after[i].id = nextId + k - 1
<1> DEFINE u == Unmatched(dets, m)
           w == NewTracks(dets, m)
           kept == KeptTracks(dets, m)
<1>1. /\ kept \in Seq(TrackRecords) /\ Unique(kept) /\ Ids(kept) \subseteq Ids(tracks)
      /\ \A j \in DOMAIN kept, d \in Left(dets, m) : kept[j].first => kept[j].box # dets[d].box
  BY KeptApart
<1>2. /\ w \in Seq(TrackRecords) /\ Unique(w) /\ DOMAIN w = DOMAIN u
      /\ \A k \in DOMAIN u : /\ w[k].id = nextId + k - 1 /\ w[k].id >= nextId
                             /\ w[k].box = dets[u[k]].box /\ w[k].first
  BY NewApart
<1>3. /\ DOMAIN u = 1..Len(u) /\ Len(u) \in Nat
      /\ \A k \in DOMAIN u : u[k] \in Left(dets, m)
      /\ \A j, k \in DOMAIN u : u[j] = u[k] => j = k
  BY UnmatchedAll
<1>4. after = PutTracks(kept, w)
  BY DEF Matched, KeptTracks, NewTracks
<1> HIDE DEF u, w, kept
<1>5. \A k \in DOMAIN u : u[k] \in DOMAIN dets
  BY <1>3 DEF Left
<1>6. Ids(kept) \cap Ids(w) = {}
  <2> SUFFICES ASSUME NEW x \in Ids(tracks), NEW k \in DOMAIN u, x = w[k].id
               PROVE  FALSE
    <3>1. \A x \in Ids(w) : \E k \in DOMAIN u : x = w[k].id
      <4>1. DOMAIN w = DOMAIN u
        BY <1>2
      <4>2. QED
        BY <4>1 DEF Ids
    <3>2. Ids(kept) \subseteq Ids(tracks)
      BY <1>1
    <3>3. QED
      BY <3>1, <3>2
  <2>1. dets # <<>>
    <3>1. u[k] \in 1..Len(dets)
      BY <1>5, LenProperties
    <3>2. QED
      BY <3>1, EmptySeq
  <2>2. PICK i \in DOMAIN tracks : x = tracks[i].id
    BY DEF Ids
  <2>3. x < nextId /\ x \in Nat
    BY <2>1, <2>2, TrackTyped
  <2>4. x >= nextId
    BY <1>2
  <2>5. QED
    BY <2>3, <2>4
<1>7. /\ after \in Seq(TrackRecords) /\ Unique(after) /\ Ids(after) = Ids(kept) \cup Ids(w)
      /\ \A i \in DOMAIN after : \/ \E j \in DOMAIN kept : after[i] = kept[j]
                                 \/ \E k \in DOMAIN w : after[i] = w[k]
      /\ \A k \in DOMAIN w : \E i \in DOMAIN after : after[i] = w[k]
  <2>1. /\ after \in Seq(TrackRecords) /\ Unique(after) /\ Ids(after) = Ids(kept) \cup Ids(w)
        /\ Elements(after) = Elements(kept) \cup Elements(w)
    BY <1>1, <1>2, <1>4, <1>6, PutApart
  <2>2. ASSUME NEW i \in DOMAIN after
        PROVE  \/ \E j \in DOMAIN kept : after[i] = kept[j]
               \/ \E k \in DOMAIN w : after[i] = w[k]
    <3>1. after[i] \in Elements(kept) \/ after[i] \in Elements(w)
      BY <2>1 DEF Elements
    <3>2. QED
      BY <3>1 DEF Elements
  <2>3. ASSUME NEW k \in DOMAIN w
        PROVE  \E i \in DOMAIN after : after[i] = w[k]
    <3>1. w[k] \in Elements(after)
      BY <2>1 DEF Elements
    <3>2. QED
      BY <3>1 DEF Elements
  <2>4. QED
    BY <2>1, <2>2, <2>3
<1>8. Ids(after) \subseteq Ids(tracks) \cup Ids(w)
  BY <1>1, <1>7
<1>9. ASSUME NEW k \in DOMAIN u
      PROVE  /\ Born(dets[u[k]], after) # {}
             /\ \A i \in Born(dets[u[k]], after) : after[i].id = nextId + k - 1
  <2>1. PICK i \in DOMAIN after : after[i] = w[k]
    BY <1>2, <1>7
  <2>2. i \in Born(dets[u[k]], after)
    BY <1>2, <2>1 DEF Born
  <2>3. ASSUME NEW a \in Born(dets[u[k]], after)
        PROVE  after[a].id = nextId + k - 1
    <3>1. a \in DOMAIN after /\ after[a].box = dets[u[k]].box /\ after[a].first
      BY DEF Born
    <3>2. ASSUME NEW j \in DOMAIN kept, after[a] = kept[j]
          PROVE  FALSE
      <4>1. u[k] \in Left(dets, m)
        BY <1>3
      <4>2. kept[j].first /\ kept[j].box = dets[u[k]].box
        BY <3>1, <3>2
      <4>3. QED
        BY <1>1, <4>1, <4>2, Zenon
    <3>3. ASSUME NEW j \in DOMAIN w, after[a] = w[j]
          PROVE  after[a].id = nextId + k - 1
      <4>1. dets[u[j]].box = dets[u[k]].box
        BY <1>2, <3>1, <3>3
      <4>2. u[j] = u[k]
        BY <1>2, <1>5, <4>1
      <4>3. j = k
        BY <1>2, <1>3, <4>2
      <4>4. QED
        BY <1>2, <3>3, <4>3
    <3>4. QED
      BY <1>7, <3>1, <3>2, <3>3
  <2>4. QED
    BY <2>2, <2>3
<1>10. QED
  BY <1>7, <1>8, <1>9 DEF u, w

----------------------------------------------------------------------------
(* What is returned for a frame without numbers *)

Results == [id : Nat \ {0}, det : Nat \ {0}]

Dets(q) == {q[i].det : i \in DOMAIN q}
OneEach(q) == \A i, j \in DOMAIN q : q[i].det = q[j].det => i = j

LEMMA UpToCount ==
  ASSUME NEW n \in Nat
  PROVE  IsFiniteSet(1..n) /\ Cardinality(1..n) = n
BY FS_Interval

LEMMA EachDetOnce ==
  ASSUME NEW r \in Seq(Results), NEW n \in Nat, Dets(r) = 1..n, OneEach(r)
  PROVE  Len(r) = n
<1> DEFINE g == [i \in 1..Len(r) |-> r[i].det]
<1>1. DOMAIN r = 1..Len(r) /\ Len(r) \in Nat
  BY LenProperties
<1>2. IsFiniteSet(1..Len(r)) /\ Cardinality(1..Len(r)) = Len(r) /\ Cardinality(1..n) = n
  <2>1. \A k \in Nat : IsFiniteSet(1..k) /\ Cardinality(1..k) = k
    BY UpToCount
  <2>2. QED
    BY <1>1, <2>1
<1>3. g \in [1..Len(r) -> 1..n]
  BY <1>1 DEF Dets
<1>4. \A x \in 1..n : \E i \in 1..Len(r) : g[i] = x
  BY <1>1 DEF Dets
<1>5. \A i, j \in 1..Len(r) : g[i] = g[j] => i = j
  BY <1>1 DEF OneEach
<1> HIDE DEF g
<1>6. g \in Surjection(1..Len(r), 1..n) /\ g \in Injection(1..Len(r), 1..n)
  BY <1>3, <1>4, <1>5 DEF Surjection, Injection, IsInjective
<1>7. QED
  BY <1>2, <1>6, FS_Surjection

LEMMA ConcatDets ==
  ASSUME NEW a \in Seq(Results), NEW b \in Seq(Results), OneEach(a), OneEach(b),
         Dets(a) \cap Dets(b) = {}
  PROVE  Dets(a \o b) = Dets(a) \cup Dets(b) /\ OneEach(a \o b)
<1> DEFINE c == a \o b
<1>1. c \in Seq(Results) /\ \A i \in DOMAIN c :
        \/ i \in DOMAIN a /\ c[i] = a[i]
        \/ i - Len(a) \in DOMAIN b /\ c[i] = b[i - Len(a)]
  BY ConcatIds
<1>2. /\ \A i \in DOMAIN a : i \in DOMAIN c /\ c[i] = a[i]
      /\ \A i \in DOMAIN b : Len(a) + i \in DOMAIN c /\ c[Len(a) + i] = b[i]
  BY ConcatIds
<1>3. DOMAIN c \subseteq Nat /\ Len(a) \in Nat
  BY <1>1, LenProperties
<1> HIDE DEF c
<1>4. \A i \in DOMAIN c : c[i].det \in Dets(a) \cup Dets(b)
  <2> SUFFICES ASSUME NEW i \in DOMAIN c
               PROVE  c[i].det \in Dets(a) \cup Dets(b)
    OBVIOUS
  <2>1. CASE i \in DOMAIN a /\ c[i] = a[i]
    BY <2>1 DEF Dets
  <2>2. CASE i - Len(a) \in DOMAIN b /\ c[i] = b[i - Len(a)]
    BY <2>2 DEF Dets
  <2>3. QED
    BY <1>1, <2>1, <2>2
<1>5. Dets(a) \subseteq Dets(c) /\ Dets(b) \subseteq Dets(c)
  BY <1>2 DEF Dets
<1>6. ASSUME NEW i \in DOMAIN c, NEW j \in DOMAIN c, c[i].det = c[j].det
      PROVE  i = j
  <2>1. CASE i \in DOMAIN a /\ c[i] = a[i] /\ j \in DOMAIN a /\ c[j] = a[j]
    BY <1>6, <2>1 DEF OneEach
  <2>2. CASE i - Len(a) \in DOMAIN b /\ c[i] = b[i - Len(a)]
             /\ j - Len(a) \in DOMAIN b /\ c[j] = b[j - Len(a)]
    <3>1. i - Len(a) = j - Len(a)
      BY <1>6, <2>2 DEF OneEach
    <3>2. QED
      BY <1>3, <3>1
  <2>3. ASSUME NEW x \in DOMAIN a, NEW y \in DOMAIN b, a[x].det = b[y].det
        PROVE  FALSE
    BY <2>3 DEF Dets
  <2>4. QED
    BY <1>1, <1>6, <2>1, <2>2, <2>3
<1>7. Dets(c) = Dets(a) \cup Dets(b)
  <2>1. Dets(c) \subseteq Dets(a) \cup Dets(b)
    BY <1>4 DEF Dets
  <2>2. QED
    BY <1>5, <2>1
<1>8. OneEach(c)
  BY <1>6 DEF OneEach
<1>9. QED
  BY <1>7, <1>8 DEF c

(* Each track that was matched, and what it was matched to. *)
ReturnedHits(m) ==
  [i \in DOMAIN HitBy(m) |-> [id |-> tracks[HitBy(m)[i]].id, det |-> m[HitBy(m)[i]]]]

LEMMA HitsReturned ==
  ASSUME tracks \in Seq(TrackRecords), Unique(tracks), NEW dets \in Seq(Detections),
         NEW m, m = Matching(dets), NEW h, h = ReturnedHits(m)
  PROVE  /\ h \in Seq(Results) /\ Unique(h) /\ Ids(h) \subseteq Ids(tracks)
         /\ Dets(h) = (1..Len(dets)) \ Left(dets, m) /\ OneEach(h)
<1> DEFINE H == {i \in DOMAIN tracks : m[i] # 0}
           a == Ascending(H)
<1>1. /\ \A i \in H : i \in DOMAIN tracks /\ m[i] \in 1..Len(dets) /\ m[i] \notin Left(dets, m)
      /\ \A d \in 1..Len(dets) : d \notin Left(dets, m) => \E i \in H : m[i] = d
      /\ H \in SUBSET DOMAIN tracks
      /\ \A i, j \in H : m[i] = m[j] => i = j
  <2>1. DOMAIN dets = 1..Len(dets)
    BY LenProperties
  <2>2. \A i \in H : i \in DOMAIN tracks /\ m[i] \in 1..Len(dets)
    BY <2>1, LeftSplit
  <2>3. \A i \in H : m[i] \notin Left(dets, m)
    BY DEF Left
  <2>4. \A d \in 1..Len(dets) : d \notin Left(dets, m) => \E i \in H : m[i] = d
    BY LeftSplit
  <2>5. \A i, j \in H : m[i] = m[j] => i = j
    BY MatchingFacts
  <2>6. QED
    BY <2>2, <2>3, <2>4, <2>5
<1>2. HitBy(m) = a
  BY DEF HitBy
<1> HIDE DEF H
<1>3. /\ \A k \in DOMAIN a : a[k] \in H
      /\ \A j, k \in DOMAIN a : a[j] = a[k] => j = k
      /\ \A i \in H : \E k \in DOMAIN a : a[k] = i
  <2>1. H \in SUBSET Nat /\ IsFiniteSet(H)
    BY <1>1, PlacesFinite
  <2>2. QED
    BY <2>1, AscendingAll
<1>4. h = [i \in DOMAIN a |-> [id |-> tracks[a[i]].id, det |-> m[a[i]]]]
  BY <1>2 DEF ReturnedHits
<1>5. \A i \in DOMAIN a : h[i] \in Results /\ h[i].id = tracks[a[i]].id /\ h[i].det = m[a[i]]
  <2> SUFFICES ASSUME NEW i \in DOMAIN a
               PROVE  h[i] \in Results /\ h[i].id = tracks[a[i]].id /\ h[i].det = m[a[i]]
    OBVIOUS
  <2>1. PICK x \in H : x = a[i]
    BY <1>3
  <2>2. tracks[x].id \in Nat \ {0}
    BY <1>1, TrackTyped
  <2>3. m[x] \in Nat \ {0}
    BY <1>1
  <2>4. h[i] = [id |-> tracks[x].id, det |-> m[x]]
    BY <1>4, <2>1
  <2>5. QED
    BY <2>1, <2>2, <2>3, <2>4 DEF Results
<1>6. h = [i \in DOMAIN a |-> h[i]] /\ DOMAIN h = DOMAIN a
  BY <1>4
<1>7. h \in Seq(Results) /\ Unique(h) /\ Ids(h) = {tracks[i].id : i \in H}
  <2>1. PICK S \in SUBSET DOMAIN tracks : S = H
    BY <1>1
  <2>2. PICK r : r = h
    OBVIOUS
  <2>3. \A i \in DOMAIN Ascending(S) : r[i] \in Results /\ r[i].id = tracks[Ascending(S)[i]].id
    BY <1>5, <2>1, <2>2
  <2>4. r = [i \in DOMAIN Ascending(S) |-> r[i]]
    BY <1>6, <2>1, <2>2
  <2>5. r \in Seq(Results) /\ Unique(r) /\ Ids(r) = {tracks[i].id : i \in S}
    BY <2>3, <2>4, SomeTracks
  <2>6. QED
    BY <2>1, <2>2, <2>5
<1> HIDE DEF a
<1>8. Ids(h) \subseteq Ids(tracks)
  BY <1>1, <1>7 DEF Ids
<1>9. \A i \in DOMAIN h : h[i].det \in 1..Len(dets) /\ h[i].det \notin Left(dets, m)
  BY <1>1, <1>3, <1>5, <1>6
<1>10. \A i, j \in DOMAIN h : h[i].det = h[j].det => i = j
  BY <1>1, <1>3, <1>5, <1>6
<1>11. \A d \in 1..Len(dets) : d \notin Left(dets, m) => \E i \in DOMAIN h : h[i].det = d
  <2> SUFFICES ASSUME NEW d \in 1..Len(dets), d \notin Left(dets, m)
               PROVE  \E i \in DOMAIN h : h[i].det = d
    OBVIOUS
  <2>1. PICK x \in H : m[x] = d
    BY <1>1
  <2>2. PICK k \in DOMAIN a : a[k] = x
    BY <1>3
  <2>3. QED
    BY <1>5, <1>6, <2>1, <2>2
<1>12. Dets(h) = (1..Len(dets)) \ Left(dets, m)
  BY <1>9, <1>11 DEF Dets
<1>13. OneEach(h)
  BY <1>10 DEF OneEach
<1>14. QED
  BY <1>7, <1>8, <1>12, <1>13

(* One result for each detection that is left, with the next new ids. *)
ReturnedNew(dets, m) ==
  [k \in DOMAIN Unmatched(dets, m) |-> [id |-> nextId + k - 1, det |-> Unmatched(dets, m)[k]]]

LEMMA NewReturned ==
  ASSUME tracks \in Seq(TrackRecords), Unique(tracks), nextId \in Nat \ {0},
         NEW dets \in Seq(Detections),
         \A i, j \in DOMAIN dets : dets[i].box = dets[j].box => i = j,
         dets # <<>> => \A i \in DOMAIN tracks : tracks[i].id < nextId,
         NEW m, m = Matching(dets), NEW after, after = Matched(dets, m)
  PROVE  ReturnedMatched(dets, m, after) = ReturnedHits(m) \o ReturnedNew(dets, m)
<1> DEFINE u == Unmatched(dets, m)
           F == {d \in Left(dets, m) : Born(dets[d], after) # {}}
           first(d) == CHOOSE i \in Born(dets[d], after) : \A j \in Born(dets[d], after) : i <= j
           new == [k \in DOMAIN u |-> [id |-> after[first(u[k])].id, det |-> u[k]]]
<1>1. /\ DOMAIN u = 1..Len(u) /\ Len(u) \in Nat
      /\ \A d \in Left(dets, m) : \E k \in DOMAIN u : u[k] = d
  BY UnmatchedAll
<1>2. /\ after \in Seq(TrackRecords)
      /\ \A k \in DOMAIN u : /\ Born(dets[u[k]], after) # {}
                             /\ \A i \in Born(dets[u[k]], after) : after[i].id = nextId + k - 1
  <2>1. /\ after \in Seq(TrackRecords) /\ Unique(after)
        /\ Ids(after) \subseteq Ids(tracks) \cup Ids(NewTracks(dets, m))
        /\ \A k \in DOMAIN Unmatched(dets, m) :
             /\ Born(dets[Unmatched(dets, m)[k]], after) # {}
             /\ \A i \in Born(dets[Unmatched(dets, m)[k]], after) : after[i].id = nextId + k - 1
    BY MatchedStep
  <2>2. QED
    BY <2>1
<1> HIDE DEF u
<1>3. F = Left(dets, m)
  BY <1>1, <1>2, SMTT(30)
<1>4. Ascending(F) = u
  BY <1>3 DEF u, Unmatched
<1>5. ASSUME NEW k \in DOMAIN u
      PROVE  after[first(u[k])].id = nextId + k - 1
  <2>1. PICK B : B = Born(dets[u[k]], after)
    OBVIOUS
  <2>2. B \in SUBSET Nat /\ B # {}
    <3>1. DOMAIN after \subseteq Nat
      BY <1>2, LenProperties
    <3>2. B \subseteq DOMAIN after
      BY <2>1 DEF Born
    <3>3. QED
      BY <1>2, <2>1, <3>1, <3>2
  <2>3. \E i \in B : \A j \in B : i <= j
    BY <2>2, LeastNumber
  <2>4. first(u[k]) \in B
    BY <2>1, <2>3
  <2>5. QED
    BY <1>2, <2>1, <2>4
<1>6. new = ReturnedNew(dets, m)
  <2>1. new = [k \in DOMAIN u |-> [id |-> nextId + k - 1, det |-> u[k]]]
    BY <1>5
  <2>2. QED
    BY <2>1 DEF ReturnedNew, u
<1>7. ReturnedMatched(dets, m, after) = ReturnedHits(m) \o new
  BY <1>4, ZenonT(30) DEF ReturnedMatched, ReturnedHits
<1>8. QED
  BY <1>6, <1>7

(* Every detection comes back once, and under an id of its own. *)
LEMMA ReturnedStep ==
  ASSUME tracks \in Seq(TrackRecords), Unique(tracks), nextId \in Nat \ {0},
         NEW dets \in Seq(Detections),
         \A i, j \in DOMAIN dets : dets[i].box = dets[j].box => i = j,
         dets # <<>> => \A i \in DOMAIN tracks : tracks[i].id < nextId,
         NEW m, m = Matching(dets), NEW r, r = ReturnedHits(m) \o ReturnedNew(dets, m)
  PROVE  /\ r \in Seq(Results) /\ Unique(r) /\ Len(r) = Len(dets) /\ Dets(r) = 1..Len(dets)
         /\ Ids(r) \subseteq Ids(tracks) \cup Ids(NewTracks(dets, m))
         /\ \A i \in DOMAIN r : i > Len(r) - Len(Unmatched(dets, m)) => r[i].id >= nextId
<1> PICK h : h = ReturnedHits(m)
  OBVIOUS
<1> PICK f : f = ReturnedNew(dets, m)
  OBVIOUS
<1> PICK u : u = Unmatched(dets, m)
  OBVIOUS
<1>1. /\ h \in Seq(Results) /\ Unique(h) /\ Ids(h) \subseteq Ids(tracks)
      /\ Dets(h) = (1..Len(dets)) \ Left(dets, m) /\ OneEach(h)
  BY HitsReturned
<1>2. /\ DOMAIN u = 1..Len(u) /\ Len(u) \in Nat
      /\ \A k \in DOMAIN u : u[k] \in Left(dets, m)
      /\ \A j, k \in DOMAIN u : u[j] = u[k] => j = k
      /\ \A d \in Left(dets, m) : \E k \in DOMAIN u : u[k] = d
  BY UnmatchedAll
<1>3. f = [k \in DOMAIN u |-> [id |-> nextId + k - 1, det |-> u[k]]]
  BY DEF ReturnedNew
<1>4. /\ DOMAIN NewTracks(dets, m) = DOMAIN u
      /\ \A k \in DOMAIN u : NewTracks(dets, m)[k].id = nextId + k - 1
                             /\ NewTracks(dets, m)[k].id >= nextId
  BY NewApart
<1>5. Left(dets, m) \in SUBSET (1..Len(dets)) /\ Len(dets) \in Nat
  BY LeftSplit, LenProperties
<1>6. \A k \in DOMAIN u : /\ f[k] \in Results /\ f[k].id = nextId + k - 1 /\ f[k].id >= nextId
                          /\ f[k].det = u[k]
  <2> SUFFICES ASSUME NEW k \in DOMAIN u
               PROVE  /\ f[k] \in Results /\ f[k].id = nextId + k - 1 /\ f[k].id >= nextId
                      /\ f[k].det = u[k]
    OBVIOUS
  <2>1. f[k] = [id |-> nextId + k - 1, det |-> u[k]]
    BY <1>3
  <2>2. nextId + k - 1 \in Nat \ {0} /\ nextId + k - 1 >= nextId
    BY <1>2
  <2>3. u[k] \in Nat \ {0}
    BY <1>2, <1>5
  <2>4. QED
    BY <2>1, <2>2, <2>3 DEF Results
<1>7. DOMAIN f = DOMAIN u /\ f \in Seq(Results) /\ Len(f) = Len(u)
  <2>1. DOMAIN f = DOMAIN u /\ f = [k \in DOMAIN u |-> f[k]]
    BY <1>3
  <2>2. PICK n \in Nat : n = Len(u)
    BY <1>2
  <2>3. f = [k \in 1..n |-> f[k]] /\ \A k \in 1..n : f[k] \in Results
    BY <1>2, <1>6, <2>1, <2>2
  <2>4. f \in [1..n -> Results]
    BY ONLY <2>3
  <2>5. f \in Seq(Results)
    BY ONLY <2>4, n \in Nat, SeqDef
  <2>6. QED
    BY <1>2, <2>1, <2>5, LenProperties
<1>8. Unique(f)
  <2> SUFFICES ASSUME NEW i \in DOMAIN u, NEW j \in DOMAIN u, f[i].id = f[j].id
               PROVE  i = j
    BY <1>7 DEF Unique
  <2>1. nextId + i - 1 = nextId + j - 1
    BY <1>6
  <2>2. i \in Nat /\ j \in Nat
    BY <1>2
  <2>3. QED
    BY <2>1, <2>2
<1>9. Ids(f) \subseteq Ids(NewTracks(dets, m))
  <2> SUFFICES ASSUME NEW x \in Ids(f)
               PROVE  x \in Ids(NewTracks(dets, m))
    OBVIOUS
  <2>1. PICK k \in DOMAIN u : x = f[k].id
    BY <1>7 DEF Ids
  <2>2. x = NewTracks(dets, m)[k].id /\ k \in DOMAIN NewTracks(dets, m)
    BY <1>4, <1>6, <2>1
  <2>3. QED
    BY <2>2 DEF Ids
<1>10. Ids(h) \cap Ids(f) = {}
  <2>1. ASSUME NEW i \in DOMAIN tracks, NEW k \in DOMAIN u, tracks[i].id = f[k].id
        PROVE  FALSE
    <3>1. dets # <<>>
      <4>1. u[k] \in 1..Len(dets)
        BY <1>2, <1>5
      <4>2. QED
        BY <4>1, EmptySeq
    <3>2. tracks[i].id < nextId /\ tracks[i].id \in Nat
      BY <3>1, TrackTyped
    <3>3. f[k].id >= nextId
      BY <1>6
    <3>4. QED
      BY <2>1, <3>2, <3>3
  <2>2. ASSUME NEW x \in Ids(h), x \in Ids(f)
        PROVE  FALSE
    <3>1. PICK i \in DOMAIN tracks : x = tracks[i].id
      BY <1>1 DEF Ids
    <3>2. PICK k \in DOMAIN u : x = f[k].id
      BY <1>7, <2>2 DEF Ids
    <3>3. QED
      BY <2>1, <3>1, <3>2
  <2>3. QED
    BY <2>2
<1>11. Dets(f) = Left(dets, m) /\ OneEach(f)
  <2>1. Dets(f) \subseteq Left(dets, m)
    BY <1>2, <1>6, <1>7 DEF Dets
  <2>2. ASSUME NEW d \in Left(dets, m)
        PROVE  d \in Dets(f)
    <3>1. PICK k \in DOMAIN u : u[k] = d
      BY <1>2
    <3>2. k \in DOMAIN f /\ f[k].det = d
      BY <1>6, <1>7, <3>1
    <3>3. QED
      BY <3>2 DEF Dets
  <2>3. OneEach(f)
    BY <1>2, <1>6, <1>7 DEF OneEach
  <2>4. QED
    BY <2>1, <2>2, <2>3
<1>12. r = h \o f
  OBVIOUS
<1>13. h \o f \in Seq(Results) /\ Ids(h \o f) = Ids(h) \cup Ids(f) /\ Unique(h \o f)
       /\ Len(h \o f) = Len(h) + Len(f)
  <2>1. f \in Seq(Results)
    BY <1>7
  <2>2. QED
    BY <1>1, <1>8, <1>10, <2>1, ConcatIds
<1>14. Dets(h \o f) = Dets(h) \cup Dets(f) /\ OneEach(h \o f)
  <2>1. f \in Seq(Results) /\ Dets(h) \cap Dets(f) = {}
    BY <1>1, <1>7, <1>11
  <2>2. QED
    BY <1>1, <1>11, <2>1, ConcatDets
<1>15. Dets(r) = 1..Len(dets) /\ OneEach(r)
  BY <1>1, <1>5, <1>11, <1>12, <1>14
<1>16. Len(r) = Len(dets)
  BY <1>5, <1>12, <1>13, <1>15, EachDetOnce
<1>17. ASSUME NEW i \in DOMAIN r, i > Len(r) - Len(u)
       PROVE  r[i].id >= nextId
  <2>1. DOMAIN r = 1..Len(r) /\ Len(h) \in Nat /\ DOMAIN h = 1..Len(h)
    BY <1>1, <1>12, <1>13, LenProperties
  <2>2. ~(i \in DOMAIN h)
    BY <1>2, <1>7, <1>12, <1>13, <1>17, <2>1
  <2>3. f \in Seq(Results) /\ i \in DOMAIN (h \o f)
    BY <1>7, <1>12
  <2>4. \/ i \in DOMAIN h /\ (h \o f)[i] = h[i]
        \/ i - Len(h) \in DOMAIN f /\ (h \o f)[i] = f[i - Len(h)]
    BY <1>1, <2>3, ConcatIds
  <2>5. QED
    BY <1>6, <1>7, <1>12, <2>2, <2>4, SMTT(30)
<1>18. Ids(r) \subseteq Ids(tracks) \cup Ids(NewTracks(dets, m))
  BY <1>1, <1>9, <1>12, <1>13
<1>19. QED
  BY <1>12, <1>13, <1>15, <1>16, <1>17, <1>18

----------------------------------------------------------------------------
(* A frame with numbers *)

NumberedDets == [box : Boxes, id : Nat \ {0}]

LEMMA SeqOf ==
  ASSUME NEW X, NEW n \in Nat, NEW f, f = [k \in 1..n |-> f[k]], \A k \in 1..n : f[k] \in X
  PROVE  f \in Seq(X) /\ Len(f) = n /\ DOMAIN f = 1..n
<1>1. f \in [1..n -> X]
  OBVIOUS
<1>2. f \in Seq(X)
  BY <1>1, SeqDef
<1>3. DOMAIN f = 1..n
  BY <1>1
<1>4. QED
  BY <1>2, <1>3, LenProperties

LEMMA SameIds ==
  ASSUME NEW a, NEW b, DOMAIN a = DOMAIN b, \A i \in DOMAIN a : a[i].id = b[i].id
  PROVE  Ids(a) = Ids(b) /\ (Unique(a) <=> Unique(b))
<1>1. Ids(a) = Ids(b)
  <2>1. \A x : x \in Ids(a) <=> \E i \in DOMAIN a : x = a[i].id
    BY DEF Ids
  <2>2. \A x : x \in Ids(b) <=> \E i \in DOMAIN a : x = b[i].id
    BY DEF Ids
  <2>3. QED
    BY <2>1, <2>2
<1>2. Unique(a) <=> Unique(b)
  BY DEF Unique
<1>3. QED
  BY <1>1, <1>2

LEMMA PassedStep ==
  ASSUME tracks \in Seq(TrackRecords), Unique(tracks), NEW dets \in Seq(NumberedDets),
         Unique(dets), NEW q, q = PassedThrough(dets)
  PROVE  q \in Seq(TrackRecords) /\ Unique(q)
<1> DEFINE det(i) == CHOOSE j \in DOMAIN dets : dets[j].id = tracks[i].id
           S == {i \in DOMAIN dets : dets[i].id \notin Ids(tracks)}
<1> PICK known : known = [i \in DOMAIN tracks |->
                            IF tracks[i].id \in Ids(dets) THEN Hit(tracks[i], dets[det(i)].box)
                            ELSE Missed(tracks[i])]
  OBVIOUS
<1> PICK unknown : unknown = At(dets, S)
  OBVIOUS
<1> PICK added : added = [i \in DOMAIN unknown |-> NewTrack(unknown[i].id, unknown[i].box)]
  OBVIOUS
<1>1. DOMAIN tracks = 1..Len(tracks) /\ Len(tracks) \in Nat /\ DOMAIN dets = 1..Len(dets)
  BY LenProperties
<1>2. \A i \in DOMAIN tracks : known[i] \in OldRecords /\ known[i].id = tracks[i].id
  <2> SUFFICES ASSUME NEW i \in DOMAIN tracks
               PROVE  known[i] \in OldRecords /\ known[i].id = tracks[i].id
    OBVIOUS
  <2>1. PICK t \in TrackRecords : t = tracks[i]
    BY TrackTyped
  <2>2. CASE tracks[i].id \in Ids(dets)
    <3>1. det(i) \in DOMAIN dets
      BY <2>2 DEF Ids
    <3>2. dets[det(i)] \in NumberedDets
      BY <1>1, <3>1, ElementOfSeq
    <3>3. PICK box \in Boxes : box = dets[det(i)].box
      BY <3>2 DEF NumberedDets
    <3>4. known[i] = Hit(t, box)
      BY <2>1, <2>2, <3>3
    <3>5. Hit(t, box) \in OldRecords /\ Hit(t, box).id = t.id
      BY HitTyped
    <3>6. QED
      BY <2>1, <3>4, <3>5
  <2>3. CASE tracks[i].id \notin Ids(dets)
    <3>1. known[i] = Missed(t)
      BY <2>1, <2>3
    <3>2. QED
      BY <2>1, <3>1, MissedTyped
  <2>4. QED
    BY <2>2, <2>3
<1>3. known \in Seq(OldRecords) /\ DOMAIN known = DOMAIN tracks
  <2>1. known = [i \in DOMAIN tracks |-> known[i]]
    OBVIOUS
  <2>2. QED
    BY <1>1, <1>2, <2>1, SeqOf
<1>4. Unique(known) /\ Ids(known) = Ids(tracks)
  BY <1>2, <1>3, SameIds
<1>5. /\ unknown \in Seq(NumberedDets) /\ Ids(unknown) = {dets[i].id : i \in S}
      /\ Unique(unknown)
  <2>1. S \in SUBSET DOMAIN dets /\ \A i \in S : dets[i] \in NumberedDets
    BY <1>1, ElementOfSeq
  <2> HIDE DEF S
  <2>2. QED
    BY <2>1, AtAll
<1>6. Ids(unknown) \cap Ids(tracks) = {}
  BY <1>5
<1>7. DOMAIN unknown = 1..Len(unknown) /\ Len(unknown) \in Nat
  BY <1>5, LenProperties
<1>8. \A i \in DOMAIN unknown : added[i] \in OldRecords /\ added[i].id = unknown[i].id
  <2> SUFFICES ASSUME NEW i \in DOMAIN unknown
               PROVE  added[i] \in OldRecords /\ added[i].id = unknown[i].id
    OBVIOUS
  <2>1. PICK d \in NumberedDets : d = unknown[i]
    BY <1>5, <1>7, ElementOfSeq
  <2>2. PICK id \in Nat \ {0}, box \in Boxes : id = d.id /\ box = d.box
    BY DEF NumberedDets
  <2>3. added[i] = NewTrack(id, box)
    BY <2>1, <2>2
  <2>4. QED
    BY <2>1, <2>2, <2>3, NewTyped
<1>9. added \in Seq(OldRecords) /\ DOMAIN added = DOMAIN unknown
  <2>1. PICK n \in Nat : DOMAIN unknown = 1..n
    BY <1>7
  <2>2. added = [i \in 1..n |-> added[i]] /\ \A i \in 1..n : added[i] \in OldRecords
    BY <1>8, <2>1
  <2>3. added \in Seq(OldRecords) /\ DOMAIN added = 1..n
    BY ONLY <2>2, n \in Nat, SeqOf
  <2>4. QED
    BY <2>1, <2>3
<1>10. Unique(added) /\ Ids(added) = Ids(unknown)
  BY <1>5, <1>8, <1>9, SameIds
<1>11. known \o added \in Seq(OldRecords) /\ Unique(known \o added)
  <2>1. Ids(known) \cap Ids(added) = {}
    BY <1>4, <1>6, <1>10
  <2>2. QED
    BY <1>3, <1>4, <1>9, <1>10, <2>1, ConcatIds
<1>12. PICK k \in Seq(OldRecords) : k = known \o added /\ Unique(k)
  BY <1>11
<1>13. q = Remembered(k)
  BY <1>12 DEF PassedThrough
<1>14. QED
  BY <1>12, <1>13, RememberedTracks

----------------------------------------------------------------------------
(* A step of the tracker *)

LEMMA UpdateByBoxes ==
  ASSUME tracks \in Seq(TrackRecords), Unique(tracks), nextId \in Nat \ {0},
         NEW dets \in Seq(Detections),
         \A i, j \in DOMAIN dets : dets[i].box = dets[j].box => i = j,
         dets # <<>> => \A i \in DOMAIN tracks : tracks[i].id < nextId,
         ~IsNumbered(dets), Update(dets)
  PROVE  /\ tracks' \in Seq(TrackRecords) /\ Unique(tracks')
         /\ nextId' \in Nat \ {0} /\ nextId' >= nextId
         /\ returned' \in Seq(Results) /\ Unique(returned')
         /\ Len(returned') = Len(dets) /\ Dets(returned') = 1..Len(dets)
         /\ Ids(tracks') \subseteq Ids(tracks) \cup (nextId..(nextId' - 1))
         /\ Ids(returned') \subseteq Ids(tracks) \cup (nextId..(nextId' - 1))
         /\ \A i \in DOMAIN returned' :
              i > Len(returned') - (nextId' - nextId) => returned'[i].id >= nextId
<1> PICK m : m = Matching(dets)
  OBVIOUS
<1> PICK after : after = Matched(dets, m)
  OBVIOUS
<1> PICK r : r = ReturnedHits(m) \o ReturnedNew(dets, m)
  OBVIOUS
<1>1. tracks' = after /\ returned' = ReturnedMatched(dets, m, after)
      /\ nextId' = nextId + Len(Unmatched(dets, m))
  BY DEF Update
<1>2. returned' = r
  BY <1>1, NewReturned
<1>3. /\ after \in Seq(TrackRecords) /\ Unique(after)
      /\ Ids(after) \subseteq Ids(tracks) \cup Ids(NewTracks(dets, m))
  BY MatchedStep
<1>4. /\ r \in Seq(Results) /\ Unique(r) /\ Len(r) = Len(dets) /\ Dets(r) = 1..Len(dets)
      /\ Ids(r) \subseteq Ids(tracks) \cup Ids(NewTracks(dets, m))
      /\ \A i \in DOMAIN r : i > Len(r) - Len(Unmatched(dets, m)) => r[i].id >= nextId
  BY ReturnedStep
<1>5. /\ Len(Unmatched(dets, m)) \in Nat
      /\ DOMAIN Unmatched(dets, m) = 1..Len(Unmatched(dets, m))
  BY UnmatchedAll
<1>6. nextId' \in Nat \ {0} /\ nextId' >= nextId /\ nextId' - nextId = Len(Unmatched(dets, m))
  BY <1>1, <1>5
<1>7. Ids(NewTracks(dets, m)) \subseteq nextId..(nextId' - 1)
  <2>1. /\ DOMAIN NewTracks(dets, m) = DOMAIN Unmatched(dets, m)
        /\ \A k \in DOMAIN Unmatched(dets, m) : NewTracks(dets, m)[k].id = nextId + k - 1
    BY NewApart
  <2>2. \A k \in 1..Len(Unmatched(dets, m)) : nextId + k - 1 \in nextId..(nextId' - 1)
    BY <1>1, <1>5, <1>6
  <2>3. ASSUME NEW x \in Ids(NewTracks(dets, m))
        PROVE  x \in nextId..(nextId' - 1)
    <3>1. PICK k \in DOMAIN NewTracks(dets, m) : x = NewTracks(dets, m)[k].id
      BY DEF Ids
    <3>2. QED
      BY <1>5, <2>1, <2>2, <3>1
  <2>4. QED
    BY <2>3
<1>8. \A i \in DOMAIN r : i > Len(r) - (nextId' - nextId) => r[i].id >= nextId
  BY <1>4, <1>6
<1>9. QED
  BY <1>1, <1>2, <1>3, <1>4, <1>6, <1>7, <1>8

LEMMA UpdateByNumbers ==
  ASSUME tracks \in Seq(TrackRecords), Unique(tracks), NEW dets \in Seq(NumberedDets),
         Unique(dets), IsNumbered(dets), Update(dets)
  PROVE  /\ tracks' \in Seq(TrackRecords) /\ Unique(tracks') /\ nextId' = nextId
         /\ returned' \in Seq(Results) /\ Unique(returned')
         /\ Len(returned') = Len(dets) /\ Dets(returned') = 1..Len(dets)
<1> PICK r : r = [i \in DOMAIN dets |-> [id |-> dets[i].id, det |-> i]]
  OBVIOUS
<1>1. returned' = r /\ tracks' = PassedThrough(dets) /\ nextId' = nextId
  BY DEF Update
<1>2. DOMAIN dets = 1..Len(dets) /\ Len(dets) \in Nat
  BY LenProperties
<1>3. \A i \in DOMAIN dets : r[i] \in Results /\ r[i].id = dets[i].id /\ r[i].det = i
  <2> SUFFICES ASSUME NEW i \in DOMAIN dets
               PROVE  r[i] \in Results /\ r[i].id = dets[i].id /\ r[i].det = i
    OBVIOUS
  <2>1. dets[i].id \in Nat \ {0}
    <3>1. dets[i] \in NumberedDets
      BY <1>2, ElementOfSeq
    <3>2. QED
      BY <3>1 DEF NumberedDets
  <2>2. i \in Nat \ {0}
    BY <1>2
  <2>3. r[i] = [id |-> dets[i].id, det |-> i]
    OBVIOUS
  <2>4. QED
    BY <2>1, <2>2, <2>3 DEF Results
<1>4. PICK n \in Nat : n = Len(dets)
  BY <1>2
<1>5. r = [i \in 1..n |-> r[i]] /\ \A i \in 1..n : r[i] \in Results
  BY <1>2, <1>3, <1>4
<1>6. r \in Seq(Results) /\ Len(r) = n /\ DOMAIN r = 1..n
  BY ONLY <1>5, n \in Nat, SeqOf
<1>7. Unique(r)
  BY <1>2, <1>3, <1>4, <1>6, SameIds
<1>8. Dets(r) = 1..n
  BY <1>2, <1>3, <1>4, <1>6 DEF Dets
<1>9. PassedThrough(dets) \in Seq(TrackRecords) /\ Unique(PassedThrough(dets))
  BY PassedStep
<1>10. QED
  BY <1>1, <1>4, <1>6, <1>7, <1>8, <1>9

----------------------------------------------------------------------------
(* Persons are told apart *)

(* The ids the tracker has counted itself, which are all there are if the  *)
(* detector gives none.                                                    *)
OwnIds == Ids(tracks) \cup issued \cup Ids(returned) \subseteq 1..(nextId - 1)

TrackerInv ==
  /\ tracks \in Seq(TrackRecords) /\ Unique(tracks) /\ nextId \in Nat \ {0}
  /\ returned \in Seq(Results) /\ Unique(returned)
  /\ Len(returned) = detected /\ Dets(returned) = 1..detected
  /\ detector \in Detectors /\ lastNumber \in Nat /\ now \in Nat
  /\ frames \in 0..MaxFrames /\ detected \in 0..MaxSeen
  /\ BuilderTypeOK
  /\ detector = "plain" => OwnIds

LEMMA TrackerSays == TrackerInv => OneIdPerPerson
<1> SUFFICES ASSUME TrackerInv
             PROVE  OneIdPerPerson
  OBVIOUS
<1>1. Cardinality(Ids(tracks)) = Len(tracks) /\ Cardinality(Ids(returned)) = Len(returned)
  BY UniqueCount DEF TrackerInv
<1>2. \A i \in DOMAIN returned : returned[i] \in Results
  BY LenProperties, ElementOfSeq DEF TrackerInv
<1>3. TrackerTypeOK
  BY <1>1, <1>2 DEF TrackerTypeOK, TrackerInv, Results
<1>4. TypeOK
  BY <1>3 DEF TypeOK, TrackerInv
<1>5. QED
  BY <1>1, <1>4 DEF OneIdPerPerson, TrackerInv, Dets

LEMMA TrackerStarts == Init => TrackerInv
<1> SUFFICES ASSUME Init
             PROVE  TrackerInv
  OBVIOUS
<1>1. /\ tracks = <<>> /\ returned = <<>> /\ nextId = 1 /\ issued = {} /\ detected = 0
      /\ tracking = <<>> /\ seenNow = <<>> /\ detector \in Detectors /\ lastNumber = 0
      /\ now = 0 /\ frames = 0
  BY DEF Init, TrackerInit, BuilderInit
<1>2. /\ <<>> \in Seq(TrackRecords) /\ <<>> \in Seq(Results) /\ Len(<<>>) = 0
      /\ DOMAIN <<>> = {}
  BY EmptySeq
<1>3. Unique(<<>>) /\ Ids(<<>>) = {} /\ Dets(<<>>) = 1..0
  BY <1>2 DEF Unique, Ids, Dets
<1>4. BuilderTypeOK
  BY <1>1, <1>2 DEF BuilderTypeOK
<1>5. OwnIds
  BY <1>1, <1>3 DEF OwnIds
<1>6. frames \in 0..MaxFrames /\ detected \in 0..MaxSeen
  BY <1>1, TrackingConfigOK
<1>7. QED
  BY <1>1, <1>2, <1>3, <1>4, <1>5, <1>6 DEF TrackerInv

LEMMA BuilderTyped ==
  ASSUME BuilderTypeOK, Recalled', NEW hands, DOMAIN hands \subseteq Nat, NEW t, Build(hands, t)
  PROVE  BuilderTypeOK'
<1>1. DOMAIN tracking' \subseteq DOMAIN tracking \cup DOMAIN hands
  <2> DEFINE after == [id \in DOMAIN tracking \cup DOMAIN hands |->
                 IF id \in DOMAIN hands
                 THEN NearSince(CountEvidence(Entry(id, t), hands[id]), hands[id], t)
                 ELSE tracking[id]]
  <2>1. tracking' = [id \in {i \in DOMAIN after : StillTracked(after[i], t)} |-> after[id]]
    BY DEF Build
  <2>2. DOMAIN after = DOMAIN tracking \cup DOMAIN hands
    OBVIOUS
  <2> HIDE DEF after
  <2>3. QED
    BY <2>1, <2>2
<1>2. \A id \in DOMAIN tracking' : tracking'[id] \in Entries
  BY DEF Recalled, Follows
<1>3. seenNow' = [id \in DOMAIN hands |-> Observed(Entry(id, t), hands[id], t)]
  BY DEF Build
<1>4. \A e, h : Observed(e, h, t) \in [inside : BOOLEAN, hands : BOOLEAN]
  <2> SUFFICES ASSUME NEW e, NEW h
               PROVE  Observed(e, h, t) \in [inside : BOOLEAN, hands : BOOLEAN]
    OBVIOUS
  <2>1. AtSink(e, h, t) \in BOOLEAN
    BY DEF AtSink
  <2>2. (CountEvidence(e, h).positive >= ConfirmFrames) \in BOOLEAN
    OBVIOUS
  <2>3. QED
    BY <2>1, <2>2 DEF Observed
<1>5. QED
  BY <1>1, <1>2, <1>3, <1>4 DEF BuilderTypeOK, Entries

(* A detector that gives each detection a number or none at all.  One that  *)
(* changes between the two makes ids of both kinds meet.                    *)
OneKind == Detectors \subseteq {"plain", "tracked"}

(* The detections of a frame, as the tracker takes them. *)
DetsOf(n, p, ids) == [i \in 1..n |-> [box |-> p[i], id |-> ids[i]]]

LEMMA DetsTyped ==
  ASSUME NEW n \in 0..MaxSeen, NEW p \in Placements(n), NEW ids \in Numberings(n),
         NEW dets, dets = DetsOf(n, p, ids), OneKind, TrackerInv
  PROVE  /\ dets \in Seq(Detections) /\ Len(dets) = n /\ DOMAIN dets = 1..n
         /\ \A i, j \in DOMAIN dets : dets[i].box = dets[j].box => i = j
         /\ detector = "plain" => ~IsNumbered(dets)
         /\ detector = "tracked" => dets = <<>> \/ IsNumbered(dets)
         /\ IsNumbered(dets) => dets \in Seq(NumberedDets) /\ Unique(dets)
         /\ detector \in {"plain", "tracked"}
<1>0. n \in Nat /\ MaxNumber \in Nat /\ NoId \notin Nat
  BY TrackingConfigOK, TrackerConfigOK
<1>1. p \in [1..n -> Boxes] /\ \A i, j \in 1..n : p[i] = p[j] => i = j
  BY DEF Placements
<1>2. detector \in {"plain", "tracked"}
  BY DEF OneKind, TrackerInv
<1>3. detector = "plain" => ids = [i \in 1..n |-> NoId]
  BY DEF Numberings
<1>4. detector = "tracked" => ids \in [1..n -> 1..MaxNumber] /\ NumberedAs(ids)
  BY DEF Numberings
<1>5. \A i \in 1..n : ids[i] \in Nat \cup {NoId}
  BY <1>0, <1>2, <1>3, <1>4
<1>6. \A i \in 1..n : dets[i] = [box |-> p[i], id |-> ids[i]]
  BY DEF DetsOf
<1>a. \A i \in 1..n : dets[i].id = ids[i]
  <2> SUFFICES ASSUME NEW i \in 1..n
               PROVE  dets[i].id = ids[i]
    OBVIOUS
  <2>1. PICK d : d = dets[i]
    OBVIOUS
  <2>2. d = [box |-> p[i], id |-> ids[i]]
    BY <1>6, <2>1
  <2>3. QED
    BY <2>1, <2>2
<1>7. dets = [i \in 1..n |-> dets[i]] /\ \A i \in 1..n : dets[i] \in Detections
  BY <1>1, <1>5, <1>6 DEF DetsOf, Detections
<1>8. dets \in Seq(Detections) /\ Len(dets) = n /\ DOMAIN dets = 1..n
  BY ONLY <1>7, <1>0, SeqOf
<1>9. \A i, j \in DOMAIN dets : dets[i].box = dets[j].box => i = j
  BY <1>1, <1>6, <1>8
<1>10. ASSUME detector = "plain"
       PROVE  ~IsNumbered(dets)
  <2>1. \A i \in 1..n : dets[i].id = NoId
    BY <1>3, <1>a, <1>10
  <2>2. dets # <<>> => n # 0
    <3>1. n = 0 => dets = <<>>
      BY <1>8, EmptySeq
    <3>2. QED
      BY <3>1
  <2>3. n # 0 => 1 \in 1..n
    BY <1>0
  <2>4. QED
    BY <1>8, <2>1, <2>2, <2>3 DEF IsNumbered
<1>11. ASSUME detector = "tracked"
       PROVE  /\ dets = <<>> \/ IsNumbered(dets)
              /\ dets \in Seq(NumberedDets) /\ Unique(dets)
  <2>1. \A i \in 1..n : ids[i] \in Nat \ {0} /\ ids[i] # NoId
    BY <1>0, <1>4, <1>11
  <2>2. \A i \in 1..n : dets[i].id = ids[i] /\ dets[i] \in NumberedDets
    <3> SUFFICES ASSUME NEW i \in 1..n
                 PROVE  dets[i] \in NumberedDets
      BY <1>a
    <3>1. p[i] \in Boxes /\ ids[i] \in Nat \ {0} /\ dets[i] = [box |-> p[i], id |-> ids[i]]
      BY <1>1, <1>6, <2>1
    <3>2. QED
      BY <3>1 DEF NumberedDets
  <2>3. dets \in Seq(NumberedDets)
    <3>1. dets = [i \in 1..n |-> dets[i]]
      BY <1>7
    <3>2. QED
      BY ONLY <1>0, <2>2, <3>1, SeqOf
  <2>4. Cardinality({ids[i] : i \in DOMAIN ids}) = Len(ids) /\ DOMAIN ids = 1..n
    BY <1>4, <1>11 DEF NumberedAs
  <2>5. Ids(dets) = {ids[i] : i \in DOMAIN ids}
    BY <1>8, <2>2, <2>4 DEF Ids
  <2>6. Len(ids) = n
    <3>1. ids = [i \in 1..n |-> ids[i]] /\ \A i \in 1..n : ids[i] \in Nat
      BY <1>4, <1>11, <2>1
    <3>2. QED
      BY ONLY <1>0, <3>1, SeqOf
  <2>7. Unique(dets)
    BY <1>8, <2>4, <2>5, <2>6, UniqueCount
  <2>8. IsNumbered(dets) \/ dets = <<>>
    BY <1>8, <2>1, <2>2 DEF IsNumbered
  <2>9. QED
    BY <2>3, <2>7, <2>8
<1>12. QED
  BY <1>2, <1>8, <1>9, <1>10, <1>11

FrameNew ==
  \A i \in DOMAIN returned' :
    i > Len(returned') - (nextId' - nextId) => returned'[i].id \notin issued'

(* The numbers below the next id only grow, the new ones among them. *)
LEMMA NumbersGrow ==
  ASSUME NEW a \in Nat \ {0}, NEW b \in Nat \ {0}, b >= a
  PROVE  1..(a - 1) \subseteq 1..(b - 1) /\ a..(b - 1) \subseteq 1..(b - 1)
OBVIOUS

(* A frame through tracker and builder. *)
LEMMA FrameTracked ==
  ASSUME OneKind, TrackerInv, BuilderInv, BuilderInv', NEW n \in 0..MaxSeen,
         NEW gap \in 1..MaxGap, NEW p \in Placements(n), NEW ids \in Numberings(n),
         Frame(n, p, ids, gap)
  PROVE  TrackerInv' /\ FrameNew
<1> PICK dets : dets = DetsOf(n, p, ids)
  OBVIOUS
<1>1. /\ dets \in Seq(Detections) /\ Len(dets) = n /\ DOMAIN dets = 1..n
      /\ \A i, j \in DOMAIN dets : dets[i].box = dets[j].box => i = j
      /\ detector = "plain" => ~IsNumbered(dets)
      /\ detector = "tracked" => dets = <<>> \/ IsNumbered(dets)
      /\ IsNumbered(dets) => dets \in Seq(NumberedDets) /\ Unique(dets)
      /\ detector \in {"plain", "tracked"}
  BY DetsTyped
<1>2. /\ tracks \in Seq(TrackRecords) /\ Unique(tracks) /\ nextId \in Nat \ {0}
      /\ returned \in Seq(Results)
      /\ detector \in Detectors /\ lastNumber \in Nat /\ now \in Nat /\ frames \in 0..MaxFrames
      /\ BuilderTypeOK
  BY DEF TrackerInv
<1>3. /\ Update(dets) /\ issued' = issued \cup Ids(returned) /\ detector' = detector
      /\ frames < MaxFrames /\ frames' = frames + 1 /\ now' = now + gap /\ detected' = n
  BY DEF Frame, DetsOf
<1>4. lastNumber' \in Nat
  <2>1. \A S \in SUBSET (1..n) : Cardinality(S) \in Nat
    <3>1. IsFiniteSet(1..n)
      BY FS_Interval
    <3>2. QED
      BY <3>1, FS_Subset, FS_CardinalityType
  <2>2. PICK S \in SUBSET (1..n) : S = {i \in 1..n : ids[i] # NoId /\ ids[i] > lastNumber}
    OBVIOUS
  <2>3. lastNumber' = lastNumber + Cardinality(S)
    BY <2>2 DEF Frame
  <2>4. QED
    BY <1>2, <2>1, <2>3
<1>5. /\ tracks' \in Seq(TrackRecords) /\ Unique(tracks') /\ nextId' \in Nat \ {0}
      /\ returned' \in Seq(Results) /\ Unique(returned')
      /\ Len(returned') = n /\ Dets(returned') = 1..n
      /\ detector = "plain" =>
           /\ nextId' >= nextId
           /\ Ids(tracks') \subseteq Ids(tracks) \cup (nextId..(nextId' - 1))
           /\ Ids(returned') \subseteq Ids(tracks) \cup (nextId..(nextId' - 1))
           /\ \A i \in DOMAIN returned' :
                i > Len(returned') - (nextId' - nextId) => returned'[i].id >= nextId
      /\ detector = "tracked" => nextId' = nextId \/ n = 0
  <2>1. CASE IsNumbered(dets)
    BY <1>1, <1>2, <1>3, <2>1, UpdateByNumbers
  <2>2. CASE ~IsNumbered(dets)
    <3>1. dets # <<>> => \A i \in DOMAIN tracks : tracks[i].id < nextId
      <4> SUFFICES ASSUME dets # <<>>, NEW i \in DOMAIN tracks
                   PROVE  tracks[i].id < nextId
        OBVIOUS
      <4>1. detector = "plain"
        BY <1>1, <2>2
      <4>2. tracks[i].id \in 1..(nextId - 1)
        BY <4>1 DEF TrackerInv, OwnIds, Ids
      <4>3. QED
        BY <1>2, <4>2
    <3>2. /\ tracks' \in Seq(TrackRecords) /\ Unique(tracks')
          /\ nextId' \in Nat \ {0} /\ nextId' >= nextId
          /\ returned' \in Seq(Results) /\ Unique(returned')
          /\ Len(returned') = Len(dets) /\ Dets(returned') = 1..Len(dets)
          /\ Ids(tracks') \subseteq Ids(tracks) \cup (nextId..(nextId' - 1))
          /\ Ids(returned') \subseteq Ids(tracks) \cup (nextId..(nextId' - 1))
          /\ \A i \in DOMAIN returned' :
               i > Len(returned') - (nextId' - nextId) => returned'[i].id >= nextId
      BY <1>1, <1>2, <1>3, <2>2, <3>1, UpdateByBoxes
    <3>3. detector = "tracked" => n = 0
      BY <1>1, <2>2, EmptySeq
    <3>4. QED
      BY <1>1, <3>2, <3>3
  <2>3. QED
    BY <2>1, <2>2
<1>6. detector' = "plain" => OwnIds'
  <2> SUFFICES ASSUME detector = "plain"
               PROVE  OwnIds'
    BY <1>3
  <2>1. Ids(tracks) \cup issued \cup Ids(returned) \subseteq 1..(nextId - 1)
    BY DEF TrackerInv, OwnIds
  <2>2. /\ 1..(nextId - 1) \subseteq 1..(nextId' - 1)
        /\ nextId..(nextId' - 1) \subseteq 1..(nextId' - 1)
    <3>1. nextId \in Nat \ {0} /\ nextId' \in Nat \ {0} /\ nextId' >= nextId
      BY <1>2, <1>5
    <3>2. QED
      BY <3>1, NumbersGrow
  <2>3. Ids(tracks') \cup issued' \cup Ids(returned') \subseteq 1..(nextId' - 1)
    BY <1>3, <1>5, <2>1, <2>2
  <2>4. QED
    BY <2>3 DEF OwnIds, Ids
<1>7. FrameNew
  <2> SUFFICES ASSUME NEW i \in DOMAIN returned', i > Len(returned') - (nextId' - nextId)
               PROVE  returned'[i].id \notin issued'
    BY DEF FrameNew
  <2>1. i \in 1..n
    BY <1>5, LenProperties
  <2>2. detector = "plain"
    BY <1>1, <1>2, <1>5, <2>1
  <2>3. returned'[i].id >= nextId
    BY <1>5, <2>2
  <2>4. issued' \subseteq 1..(nextId - 1)
    BY <1>3, <2>2 DEF TrackerInv, OwnIds
  <2>5. \A x \in 1..(nextId - 1) : ~(x >= nextId)
    BY <1>2
  <2>6. QED
    BY <2>3, <2>4, <2>5
<1>8. BuilderTypeOK'
  <2> PICK shot \in Shots[n][p] :
        LET hands == [id \in Ids(returned') |-> HandsOf(id, returned', shot)]
        IN  Build(hands, now + gap) /\ Remember(hands, now + gap)
    BY DEF Frame
  <2>1. PICK hands : /\ hands = [id \in Ids(returned') |-> HandsOf(id, returned', shot)]
                     /\ Build(hands, now + gap)
    OBVIOUS
  <2>2. DOMAIN hands \subseteq Nat
    <3>1. \A i \in DOMAIN returned' : returned'[i] \in Results
      BY <1>5, LenProperties, ElementOfSeq
    <3>2. DOMAIN hands = Ids(returned')
      BY <2>1
    <3>3. QED
      BY <3>1, <3>2 DEF Ids, Results
  <2>3. Recalled'
    BY DEF BuilderInv
  <2>4. QED
    BY <1>2, <2>1, <2>2, <2>3, BuilderTyped
<1>9. /\ detector' \in Detectors /\ now' \in Nat /\ frames' \in 0..MaxFrames
      /\ detected' \in 0..MaxSeen
  BY <1>2, <1>3, TrackingConfigOK
<1>10. QED
  BY <1>3, <1>4, <1>5, <1>6, <1>7, <1>8, <1>9 DEF TrackerInv, Unique, Dets

LEMMA TrackerNext ==
  ASSUME OneKind
  PROVE  TrackerInv /\ BuilderInv /\ BuilderInv' /\ [Next]_vars
           => TrackerInv' /\ (UNCHANGED vars \/ FrameNew)
<1> SUFFICES ASSUME TrackerInv, BuilderInv, BuilderInv', [Next]_vars
             PROVE  TrackerInv' /\ (UNCHANGED vars \/ FrameNew)
  OBVIOUS
<1>1. CASE Next
  <2>1. PICK n \in 0..MaxSeen, gap \in 1..MaxGap :
          \E p \in Placements(n), ids \in Numberings(n) : Frame(n, p, ids, gap)
    BY <1>1 DEF Next
  <2>2. PICK p \in Placements(n), ids \in Numberings(n) : Frame(n, p, ids, gap)
    BY <2>1
  <2>3. QED
    BY <2>2, FrameTracked
<1>2. CASE UNCHANGED vars
  <2>1. /\ UNCHANGED <<tracks, nextId, returned, tracking, seenNow, detector, lastNumber>>
        /\ UNCHANGED <<now, frames, detected, issued>>
    BY <1>2 DEF vars, tracker, builder, frameVars
  <2>2. OwnIds' = OwnIds /\ BuilderTypeOK' = BuilderTypeOK
    BY <2>1 DEF OwnIds, Ids, BuilderTypeOK
  <2>3. TrackerInv'
    BY <2>1, <2>2 DEF TrackerInv, Unique, Dets
  <2>4. QED
    BY <1>2, <2>3
<1>3. QED
  BY <1>1, <1>2

(* Every person detection comes back as exactly one track, and no two under *)
(* the same id (tracker.py), for any boxes and overlaps, any number of      *)
(* persons and frames and any max_lost_frames: provided the detector        *)
(* numbers all detections of every frame or none of any frame.              *)
THEOREM PersonsKeptApart ==
  ASSUME OneKind
  PROVE  Spec => []OneIdPerPerson
<1>1. Init => TrackerInv /\ BuilderInv
  BY TrackerStarts, BuilderStarts
<1>2. TrackerInv /\ BuilderInv /\ [Next]_vars => (TrackerInv /\ BuilderInv)'
  BY TrackerNext, BuilderNext
<1>3. Spec => [](TrackerInv /\ BuilderInv)
  BY <1>1, <1>2, PTL DEF Spec
<1>4. QED
  BY <1>3, TrackerSays, PTL

(* tracker.py:78: an id the tracker counts itself is nobody's before, under *)
(* the same proviso, however many tracks were forgotten in between.         *)
THEOREM NewIdsNeverReused ==
  ASSUME OneKind
  PROVE  Spec => NewIdsAreNew
<1>1. Init => TrackerInv /\ BuilderInv
  BY TrackerStarts, BuilderStarts
<1>2. TrackerInv /\ BuilderInv /\ [Next]_vars => (TrackerInv /\ BuilderInv)'
  BY TrackerNext, BuilderNext
<1>3. TrackerInv /\ BuilderInv /\ [Next]_vars
        => [\A i \in DOMAIN returned' :
              i > Len(returned') - (nextId' - nextId) => returned'[i].id \notin issued']_vars
  BY TrackerNext, BuilderNext DEF FrameNew
<1>4. QED
  BY <1>1, <1>2, <1>3, PTL DEF Spec, NewIdsAreNew

=============================================================================
