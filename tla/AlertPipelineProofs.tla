------------------------- MODULE AlertPipelineProofs -------------------------
(***************************************************************************)
(* The way of an alert from the verdict to the database, proved for any    *)
(* number of alerts, restarts, attempts and looks and for topics of any    *)
(* size: no alert disappears, none is stored twice, and its evidence is    *)
(* with it unless the pipeline lost the evidence before.                   *)
(***************************************************************************)
EXTENDS AlertPipeline, SequenceTheorems, TLAPS

----------------------------------------------------------------------------
(* What taking and putting do to the elements of a topic *)

(* The elements of a sequence, by their places. *)
LEMMA RangeOfSequence ==
  ASSUME NEW S, NEW q \in Seq(S)
  PROVE  /\ DOMAIN q = 1..Len(q) /\ Len(q) \in Nat
         /\ Range(q) = {q[i] : i \in 1..Len(q)} /\ Range(q) \subseteq S
         /\ IsInjective(q) <=> \A i, j \in 1..Len(q) : q[i] = q[j] => i = j
BY LenProperties, ElementOfSeq DEF Range, IsInjective

(* Taking the head of a sequence moves every other element up by one. *)
LEMMA TakeHead ==
  ASSUME NEW S, NEW q \in Seq(S), q # <<>>
  PROVE  /\ Tail(q) \in Seq(S) /\ Head(q) \in S /\ Head(q) = q[1]
         /\ Len(q) \in Nat \ {0} /\ Len(Tail(q)) = Len(q) - 1
         /\ \A i \in 1..Len(Tail(q)) : Tail(q)[i] = q[i + 1]
         /\ Range(q) = Range(Tail(q)) \cup {Head(q)}
<1>1. /\ Tail(q) \in Seq(S) /\ Head(q) \in S /\ Head(q) = q[1]
      /\ Len(q) \in Nat \ {0} /\ Len(Tail(q)) = Len(q) - 1
      /\ \A i \in 1..Len(Tail(q)) : Tail(q)[i] = q[i + 1]
  BY HeadTailProperties, EmptySeq, LenProperties
<1>a. /\ Range(q) = {q[i] : i \in 1..Len(q)}
      /\ Range(Tail(q)) = {Tail(q)[i] : i \in 1..Len(Tail(q))}
  <2>1. Tail(q) \in Seq(S)
    BY <1>1
  <2>2. QED
    BY <2>1, RangeOfSequence, Zenon
<1>2. ASSUME NEW x \in Range(q)
      PROVE  x \in Range(Tail(q)) \cup {Head(q)}
  <2>1. PICK i \in 1..Len(q) : x = q[i]
    BY <1>a
  <2>2. CASE i = 1
    BY <1>1, <2>1, <2>2
  <2>3. CASE i # 1
    <3>1. i - 1 \in 1..Len(Tail(q)) /\ x = Tail(q)[i - 1]
      BY <1>1, <2>1, <2>3
    <3>2. QED
      BY <3>1, <1>a
  <2>4. QED
    BY <2>2, <2>3
<1>3. ASSUME NEW x \in Range(Tail(q)) \cup {Head(q)}
      PROVE  x \in Range(q)
  <2>1. CASE x = Head(q)
    BY <1>1, <2>1, <1>a
  <2>2. CASE x # Head(q)
    <3>1. PICK i \in 1..Len(Tail(q)) : x = Tail(q)[i]
      BY <2>2, <1>a
    <3>2. i + 1 \in 1..Len(q) /\ x = q[i + 1]
      BY <1>1, <3>1
    <3>3. QED
      BY <3>2, <1>a
  <2>3. QED
    BY <2>1, <2>2
<1>4. QED
  BY <1>1, <1>2, <1>3

(* Appending adds one element behind the others. *)
LEMMA PutLast ==
  ASSUME NEW S, NEW q \in Seq(S), NEW x \in S
  PROVE  /\ Append(q, x) \in Seq(S) /\ Len(Append(q, x)) = Len(q) + 1 /\ Len(q) \in Nat
         /\ \A i \in 1..Len(q) : Append(q, x)[i] = q[i]
         /\ Append(q, x)[Len(q) + 1] = x
         /\ Range(Append(q, x)) = Range(q) \cup {x}
<1>1. /\ Append(q, x) \in Seq(S) /\ Len(Append(q, x)) = Len(q) + 1 /\ Len(q) \in Nat
      /\ \A i \in 1..Len(q) : Append(q, x)[i] = q[i]
      /\ Append(q, x)[Len(q) + 1] = x
  BY AppendProperties, LenProperties
<1>2. Range(Append(q, x)) = Range(q) \cup {x}
  <2>1. /\ Range(q) = {q[i] : i \in 1..Len(q)}
        /\ Range(Append(q, x)) = {Append(q, x)[i] : i \in 1..Len(Append(q, x))}
    BY <1>1, RangeOfSequence
  <2>2. 1..Len(Append(q, x)) = (1..Len(q)) \cup {Len(q) + 1}
    BY <1>1
  <2>3. QED
    BY <1>1, <2>1, <2>2
<1>3. QED
  BY <1>1, <1>2

(* A sequence without repetition keeps its head nowhere else. *)
LEMMA TakeHeadInjective ==
  ASSUME NEW S, NEW q \in Seq(S), q # <<>>, IsInjective(q)
  PROVE  IsInjective(Tail(q)) /\ Head(q) \notin Range(Tail(q))
<1>1. ASSUME NEW i \in 1..Len(Tail(q)), NEW j \in 1..Len(Tail(q)), Tail(q)[i] = Tail(q)[j]
      PROVE  i = j
  <2>1. i + 1 \in 1..Len(q) /\ j + 1 \in 1..Len(q) /\ q[i + 1] = q[j + 1]
    BY <1>1, TakeHead
  <2>2. i + 1 = j + 1
    BY <2>1, RangeOfSequence
  <2>3. QED
    BY <2>2
<1>2. ASSUME NEW i \in 1..Len(Tail(q)), Tail(q)[i] = Head(q)
      PROVE  FALSE
  <2>1. i + 1 \in 1..Len(q) /\ 1 \in 1..Len(q) /\ q[i + 1] = q[1]
    BY <1>2, TakeHead
  <2>2. i + 1 = 1
    BY <2>1, RangeOfSequence
  <2>3. QED
    BY <2>2
<1>3. QED
  <2>1. Tail(q) \in Seq(S)
    BY TakeHead
  <2>2. /\ Range(Tail(q)) = {Tail(q)[i] : i \in 1..Len(Tail(q))}
        /\ IsInjective(Tail(q)) <=>
             \A i, j \in 1..Len(Tail(q)) : Tail(q)[i] = Tail(q)[j] => i = j
    BY <2>1, RangeOfSequence
  <2>3. QED
    BY <1>1, <1>2, <2>2

(* What is appended to it must be new. *)
LEMMA PutLastInjective ==
  ASSUME NEW S, NEW q \in Seq(S), NEW x \in S, IsInjective(q), x \notin Range(q)
  PROVE  IsInjective(Append(q, x))
<1>1. ASSUME NEW i \in 1..(Len(q) + 1), NEW j \in 1..(Len(q) + 1),
             Append(q, x)[i] = Append(q, x)[j]
      PROVE  i = j
  <2>1. CASE i \in 1..Len(q) /\ j \in 1..Len(q)
    BY <1>1, <2>1, PutLast, RangeOfSequence
  <2>2. CASE i = Len(q) + 1 /\ j \in 1..Len(q)
    BY <1>1, <2>2, PutLast, RangeOfSequence
  <2>3. CASE i \in 1..Len(q) /\ j = Len(q) + 1
    BY <1>1, <2>3, PutLast, RangeOfSequence
  <2>4. QED
    BY <2>1, <2>2, <2>3, PutLast
<1>2. QED
  <2>1. Append(q, x) \in Seq(S) /\ Len(Append(q, x)) = Len(q) + 1
    BY PutLast
  <2>2. IsInjective(Append(q, x)) <=>
          \A i, j \in 1..Len(Append(q, x)) : Append(q, x)[i] = Append(q, x)[j] => i = j
    BY <2>1, RangeOfSequence
  <2>3. QED
    BY <1>1, <2>1, <2>2

----------------------------------------------------------------------------
(* The parts of the inductive invariant *)

Busy == {"look", "guard", "files", "commit"}

(* What is in whose hand, and where the threads are when it is.            *)
Hands ==
  /\ evAt[compliance] = "idle" <=> evHolding[compliance] = NoMessage
  /\ alAt[compliance] = "idle" <=> alHolding[compliance] = NoMessage
  /\ due # NoMessage => alAt[compliance] = "idle"
  /\ alert # NoMessage <=> worker \in Busy
  /\ found => worker \in Busy \ {"look"}

(* An alert on its way is in one place. *)
Apart ==
  /\ IsInjective(alItems)
  /\ due # NoMessage => due # alert /\ due \notin Range(alItems)
  /\ alHolding[compliance] # NoMessage =>
       alHolding[compliance] # alert /\ alHolding[compliance] \notin Range(alItems)
  /\ alert \notin Range(alItems)

(* Groups are named after the alerts that had them first. *)
Named ==
  /\ used \cap Groups \subseteq 1..raised /\ shown \subseteq used
  /\ \A a \in InFlight : a.group \in used
  /\ \A r \in rows : r.group \in used

(* Published evidence waits somewhere, or it is stored or forfeited. *)
Somewhere(g) ==
  \/ g \in forfeited \/ Stored(g)
  \/ g = evHolding[compliance] \/ g \in Range(evItems) \/ g \in pending
  \/ found /\ alert.group = g

(* Evidence about to be queued is ahead of the first alert of its group.   *)
Ahead ==
  \A a \in InFlight \ {due} : a.group \in Groups => a.group # evHolding[compliance]

(* While the worker looks, the evidence it looks for comes closer with     *)
(* every look, and after the last one it is nowhere in memory.             *)
Closer ==
  alert # NoMessage /\ ~found /\ alert.group \in Groups =>
    /\ worker = "look" =>
         /\ count > 0 => alert.group \notin pending
         /\ \A i \in 1..Len(evItems) : evItems[i] = alert.group => i <= MaxSize - count
    /\ worker # "look" => alert.group \notin pending \cup Range(evItems)

Joined ==
  /\ Named /\ Ahead /\ Closer
  /\ Len(evItems) <= MaxSize
  /\ \A g \in shown : Somewhere(g)
  /\ worker = "commit" /\ keyed => alert.group \in files

----------------------------------------------------------------------------
(* Typing *)

(* What an operation of publish() does to the topic of evidence. *)
LEMMA EvidencePublishStep ==
  ASSUME TypeOK, Hands, EvidenceQ!PublishStep(compliance)
  PROVE  /\ EvidenceQ!QueueTypeOK'
         /\ (evAt[compliance] = "idle" <=> evHolding[compliance] = NoMessage)'
         /\ evAt[compliance] # "idle" /\ evHolding[compliance] \in GroupIds
         /\ \/ /\ evItems' = Append(evItems, evHolding[compliance])
               /\ evHolding'[compliance] = NoMessage
               /\ MaxSize > 0 => Len(evItems) < MaxSize
            \/ /\ evItems # <<>> /\ evItems' = Tail(evItems)
               /\ evHolding' = evHolding
            \/ evItems' = evItems /\ evHolding' = evHolding
<1> USE DEF TypeOK, Hands, EvidenceQ!QueueTypeOK
<1>1. evAt[compliance] # "idle" /\ evHolding[compliance] \in GroupIds
  BY DEF EvidenceQ!PublishStep, EvidenceQ!Put, EvidenceQ!Evict, EvidenceQ!Count
<1>2. Len(evItems) \in Nat /\ MaxSize \in Nat /\ NoMessage \notin GroupIds
  BY LenProperties, PipelineConfigOK DEF Alerts, GroupIds, Groups
<1>3. CASE EvidenceQ!Put(compliance)
  <2>1. CASE evItems' = Append(evItems, evHolding[compliance]) /\ EvidenceQ!Placed(compliance) /\ ~EvidenceQ!Full
    <3>1. evItems' \in Seq(GroupIds)
      BY <2>1, <1>1, AppendProperties
    <3>2. QED
      BY <2>1, <3>1, <1>1, <1>2, <1>3 DEF EvidenceQ!Put, EvidenceQ!Placed, EvidenceQ!Full
  <2>2. CASE UNCHANGED <<evItems, evHolding>>
    BY <2>2, <1>1, <1>2, <1>3 DEF EvidenceQ!Put, EvidenceQ!Full
  <2>3. QED
    BY <1>3, <2>1, <2>2 DEF EvidenceQ!Put
<1>4. CASE EvidenceQ!Evict(compliance)
  <2>1. evItems # <<>> => Tail(evItems) \in Seq(GroupIds)
    BY HeadTailProperties
  <2>2. QED
    BY <2>1, <1>1, <1>2, <1>4 DEF EvidenceQ!Evict
<1>5. CASE EvidenceQ!Count(compliance)
  BY <1>1, <1>2, <1>5 DEF EvidenceQ!Count
<1>6. QED
  BY <1>3, <1>4, <1>5 DEF EvidenceQ!PublishStep

(* What an operation of publish() does to the topic of alerts. *)
LEMMA AlertPublishStep ==
  ASSUME TypeOK, Hands, AlertQ!PublishStep(compliance)
  PROVE  /\ AlertQ!QueueTypeOK'
         /\ (alAt[compliance] = "idle" <=> alHolding[compliance] = NoMessage)'
         /\ alAt[compliance] # "idle" /\ alHolding[compliance] \in Alerts
         /\ \/ /\ alItems' = Append(alItems, alHolding[compliance])
               /\ alHolding'[compliance] = NoMessage
               /\ MaxSize > 0 => Len(alItems) < MaxSize
            \/ /\ alItems # <<>> /\ alItems' = Tail(alItems)
               /\ alHolding' = alHolding
            \/ alItems' = alItems /\ alHolding' = alHolding
<1> USE DEF TypeOK, Hands, AlertQ!QueueTypeOK
<1>1. alAt[compliance] # "idle" /\ alHolding[compliance] \in Alerts
  BY DEF AlertQ!PublishStep, AlertQ!Put, AlertQ!Evict, AlertQ!Count
<1>2. Len(alItems) \in Nat /\ MaxSize \in Nat /\ NoMessage \notin Alerts
  BY LenProperties, PipelineConfigOK DEF Alerts, GroupIds, Groups
<1>3. CASE AlertQ!Put(compliance)
  <2>1. CASE alItems' = Append(alItems, alHolding[compliance]) /\ AlertQ!Placed(compliance) /\ ~AlertQ!Full
    <3>1. alItems' \in Seq(Alerts)
      BY <2>1, <1>1, AppendProperties
    <3>2. QED
      BY <2>1, <3>1, <1>1, <1>2, <1>3 DEF AlertQ!Put, AlertQ!Placed, AlertQ!Full
  <2>2. CASE UNCHANGED <<alItems, alHolding>>
    BY <2>2, <1>1, <1>2, <1>3 DEF AlertQ!Put, AlertQ!Full
  <2>3. QED
    BY <1>3, <2>1, <2>2 DEF AlertQ!Put
<1>4. CASE AlertQ!Evict(compliance)
  <2>1. alItems # <<>> => Tail(alItems) \in Seq(Alerts)
    BY HeadTailProperties
  <2>2. QED
    BY <2>1, <1>1, <1>2, <1>4 DEF AlertQ!Evict
<1>5. CASE AlertQ!Count(compliance)
  BY <1>1, <1>2, <1>5 DEF AlertQ!Count
<1>6. QED
  BY <1>3, <1>4, <1>5 DEF AlertQ!PublishStep

(* Calling publish() puts the message into the hand of the publisher. *)
LEMMA EvidencePublish ==
  ASSUME TypeOK, Hands, NEW g \in GroupIds, EvidenceQ!Publish(compliance, g)
  PROVE  /\ EvidenceQ!QueueTypeOK'
         /\ evAt'[compliance] # "idle" /\ evHolding'[compliance] = g
         /\ evItems' = evItems /\ g # NoMessage
BY PipelineConfigOK DEF TypeOK, EvidenceQ!QueueTypeOK, EvidenceQ!Publish, GroupIds, Groups

LEMMA AlertPublish ==
  ASSUME TypeOK, Hands, NEW a \in Alerts, AlertQ!Publish(compliance, a)
  PROVE  /\ AlertQ!QueueTypeOK'
         /\ alAt'[compliance] # "idle" /\ alHolding'[compliance] = a
         /\ alItems' = alItems /\ a # NoMessage
BY PipelineConfigOK DEF TypeOK, AlertQ!QueueTypeOK, AlertQ!Publish, Alerts, GroupIds, Groups

(* get() of the worker: the oldest message leaves the topic. *)
LEMMA EvidenceGet ==
  ASSUME TypeOK, NEW taken, DrainEvidence(taken)
  PROVE  /\ EvidenceQ!QueueTypeOK' /\ evAt' = evAt /\ evHolding' = evHolding
         /\ pending' \in SUBSET GroupIds
         /\ \/ evItems = <<>> /\ evItems' = <<>> /\ pending' = pending \ taken
            \/ /\ evItems # <<>> /\ evItems' = Tail(evItems)
               /\ pending' = (pending \cup {Head(evItems)}) \ taken
BY HeadTailProperties DEF TypeOK, EvidenceQ!QueueTypeOK, EvidenceQ!Get, DrainEvidence, evTopic

LEMMA AlertGet ==
  ASSUME TypeOK, AlertQ!Get
  PROVE  /\ AlertQ!QueueTypeOK' /\ alAt' = alAt /\ alHolding' = alHolding
         /\ alItems # <<>> /\ Head(alItems) \in Alerts /\ alItems' = Tail(alItems)
BY HeadTailProperties DEF TypeOK, AlertQ!QueueTypeOK, AlertQ!Get

(* A failed attempt is repeated or given up. *)
LEMMA AttemptFailsCases ==
  ASSUME TypeOK, Hands, AttemptFails, worker \in Busy \ {"look"}
  PROVE  \/ /\ worker' = "guard" /\ keyed' = FALSE /\ count' \in 0..MaxRetries
            /\ UNCHANGED <<alert, found, settled, unstored, forfeited>>
         \/ /\ worker' = "head" /\ keyed' = FALSE /\ found' = FALSE /\ alert' = NoMessage
            /\ count' \in 0..MaxRetries
            /\ unstored' = unstored \cup {alert}
            /\ forfeited' = forfeited \cup (Groups \cap IF found THEN {alert.group} ELSE {})
            /\ settled' = settled
BY PipelineConfigOK DEF TypeOK, AttemptFails, Busy

(* Every step keeps the types and the hands. *)
LEMMA Typing ==
  ASSUME TypeOK, Hands, [Next]_vars
  PROVE  TypeOK' /\ Hands'
<1> USE PipelineConfigOK DEF Busy
<1>a. alert # NoMessage => alert \in Alerts /\ alert.group \in GroupIds
  BY DEF TypeOK, Alerts
<1>b. due # NoMessage => due \in Alerts
  BY DEF TypeOK
<1>1. ASSUME NEW g \in GroupIds, NEW shows \in BOOLEAN, Raise(g, shows)
      PROVE  TypeOK' /\ Hands'
  <2>1. raised + 1 \in 1..MaxAlerts /\ [n |-> raised + 1, group |-> g] \in Alerts
    BY <1>1 DEF Raise, TypeOK, Alerts
  <2>2. CASE shows
    <3>1. EvidenceQ!Publish(compliance, g)
      BY <1>1, <2>2 DEF Raise
    <3>2. QED
      BY <1>1, <2>1, <2>2, <3>1, EvidencePublish
      DEF Raise, TypeOK, Hands, alTopic, task, db, history, AlertQ!QueueTypeOK
  <2>3. CASE ~shows
    <3>1. AlertQ!Publish(compliance, [n |-> raised + 1, group |-> g])
      BY <1>1, <2>3 DEF Raise
    <3>2. QED
      BY <1>1, <2>1, <2>3, <3>1, AlertPublish
      DEF Raise, TypeOK, Hands, evTopic, task, db, history, EvidenceQ!QueueTypeOK
  <2>4. QED
    BY <2>2, <2>3
<1>2. CASE PublishEvidence
  <2>1. Groups \cap (IF Len(evItems') < Len(evItems) THEN {Head(evItems)} ELSE {}) \subseteq Groups
    OBVIOUS
  <2>2. EvidenceQ!PublishStep(compliance) /\ forfeited' \in SUBSET Groups
    BY <1>2, <2>1 DEF PublishEvidence, TypeOK
  <2>3. QED
    BY <1>2, <2>2, EvidencePublishStep
    DEF PublishEvidence, TypeOK, Hands, alTopic, engine, task, db, history, AlertQ!QueueTypeOK
<1>3. CASE AlertFollows
  <2>1. due \in Alerts /\ AlertQ!Publish(compliance, due)
    BY <1>3, <1>b DEF AlertFollows
  <2>2. QED
    BY <1>3, <2>1, AlertPublish
    DEF AlertFollows, TypeOK, Hands, evTopic, task, db, history, EvidenceQ!QueueTypeOK
<1>4. CASE PublishAlert
  <2>1. AlertQ!PublishStep(compliance)
    BY <1>4 DEF PublishAlert
  <2>2. Len(alItems') < Len(alItems) => alItems # <<>>
    BY <2>1, AlertPublishStep, AppendProperties, LenProperties
    DEF TypeOK, AlertQ!QueueTypeOK
  <2>3. unstored' \in SUBSET Alerts
    BY <1>4, <2>2, HeadTailProperties DEF PublishAlert, TypeOK, AlertQ!QueueTypeOK
  <2>4. QED
    BY <1>4, <2>1, <2>3, AlertPublishStep
    DEF PublishAlert, TypeOK, Hands, evTopic, engine, task, db, EvidenceQ!QueueTypeOK
<1>5. CASE LoopHead
  <2>1. CASE stop
    BY <1>5, <2>1 DEF LoopHead, TypeOK, Hands, evTopic, alTopic, engine, task, db, history,
       EvidenceQ!QueueTypeOK, AlertQ!QueueTypeOK
  <2>2. CASE ~stop
    <3>1. DrainEvidence({})
      BY <1>5, <2>2 DEF LoopHead
    <3>2. QED
      BY <1>5, <2>2, <3>1, EvidenceGet
      DEF LoopHead, TypeOK, Hands, alTopic, engine, task, db, history, AlertQ!QueueTypeOK
  <2>3. QED
    BY <2>1, <2>2
<1>6. CASE TakeAlert
  <2>1. CASE alItems = <<>>
    BY <1>6, <2>1 DEF TakeAlert, TypeOK, Hands, evTopic, alTopic, engine, task, db, history,
       EvidenceQ!QueueTypeOK, AlertQ!QueueTypeOK
  <2>2. CASE alItems # <<>>
    <3>1. AlertQ!Get
      BY <1>6, <2>2 DEF TakeAlert
    <3>2. NoMessage \notin Alerts
      BY DEF Alerts, GroupIds, Groups
    <3>3. count' \in 0..(MaxLooks - 1) /\ worker' = "look"
      BY <1>6, <2>2 DEF TakeAlert
    <3>4. TypeOK'
      BY <1>6, <2>2, <3>1, <3>3, AlertGet
      DEF TakeAlert, TypeOK, evTopic, engine, db, history, EvidenceQ!QueueTypeOK
    <3>5. Hands'
      BY <1>6, <2>2, <3>1, <3>2, AlertGet DEF TakeAlert, Hands, evTopic, engine
    <3>6. QED
      BY <3>4, <3>5
  <2>3. QED
    BY <2>1, <2>2
<1>7. CASE Look
  <2>1. DrainEvidence({alert.group})
    BY <1>7 DEF Look
  <2>2. count' \in IF worker' = "look" THEN 0..(MaxLooks - 1) ELSE 0..MaxRetries
    BY <1>7 DEF Look, TypeOK
  <2>3. TypeOK'
    BY <1>7, <2>1, <2>2, EvidenceGet
    DEF Look, TypeOK, alTopic, engine, db, history, AlertQ!QueueTypeOK
  <2>4. Hands'
    BY <1>7, <2>1, EvidenceGet DEF Look, TypeOK, Hands, alTopic, engine
  <2>5. QED
    BY <2>3, <2>4
<1>8. ASSUME NEW step \in Busy \ {"look"}, Attempting(step), UNCHANGED engine,
             files' \in SUBSET GroupIds,
             rows' \in SUBSET [group : GroupIds, evidence : BOOLEAN, keyed : BOOLEAN],
             \/ /\ worker' \in Busy \ {"look"} /\ keyed' \in BOOLEAN
                /\ UNCHANGED <<alert, found, count, settled, unstored, forfeited>>
             \/ Settle /\ UNCHANGED <<unstored, forfeited>>
             \/ AttemptFails
      PROVE  TypeOK' /\ Hands'
  <2>1. worker \in Busy \ {"look"} /\ alert \in Alerts /\ alert.group \in GroupIds
    BY <1>8, <1>a DEF Attempting, Hands
  <2>2. /\ worker' \in {"head", "guard", "files", "commit"} /\ keyed' \in BOOLEAN
        /\ count' \in 0..MaxRetries /\ settled' \in SUBSET Alerts
        /\ unstored' \in SUBSET Alerts /\ forfeited' \in SUBSET Groups
        /\ \/ worker' # "head" /\ alert' = alert /\ found' = found
           \/ worker' = "head" /\ alert' = NoMessage /\ found' = FALSE
    <3>1. CASE AttemptFails
      <4>1. Groups \cap (IF found THEN {alert.group} ELSE {}) \subseteq Groups
        OBVIOUS
      <4>2. unstored' \in SUBSET Alerts /\ forfeited' \in SUBSET Groups /\ settled' \in SUBSET Alerts
        BY <2>1, <3>1, <4>1, AttemptFailsCases DEF TypeOK
      <4>3. count' \in 0..MaxRetries
        BY <2>1, <3>1, AttemptFailsCases
      <4>4. QED
        BY <2>1, <3>1, <4>2, <4>3, AttemptFailsCases
    <3>2. CASE Settle /\ UNCHANGED <<unstored, forfeited>>
      <4>1. settled' \in SUBSET Alerts /\ unstored' \in SUBSET Alerts /\ forfeited' \in SUBSET Groups
        BY <2>1, <3>2 DEF TypeOK, Settle
      <4>2. count' \in 0..MaxRetries
        BY <3>2 DEF Settle
      <4>3. QED
        BY <2>1, <3>2, <4>1, <4>2 DEF Settle
    <3>3. CASE ~AttemptFails /\ ~Settle
      BY <1>8, <2>1, <3>3 DEF TypeOK
    <3>4. QED
      BY <1>8, <3>1, <3>2, <3>3
  <2>3. TypeOK'
    BY <1>8, <2>1, <2>2
    DEF Attempting, TypeOK, evTopic, alTopic, engine, EvidenceQ!QueueTypeOK, AlertQ!QueueTypeOK
  <2>4. Hands'
    BY <1>8, <2>1, <2>2 DEF Attempting, Hands, evTopic, alTopic, engine
  <2>5. QED
    BY <2>3, <2>4
<1>9. CASE Guard \/ WriteFiles \/ Commit
  <2>1. worker \in Busy \ {"look"} /\ alert.group \in GroupIds
    BY <1>9, <1>a DEF Guard, WriteFiles, Commit, Attempting, Hands
  <2>2. CASE Guard
    BY <2>1, <2>2, <1>8 DEF Guard, Attempting, TypeOK, task, db
  <2>3. CASE WriteFiles
    BY <2>1, <2>3, <1>8 DEF WriteFiles, Attempting, TypeOK
  <2>4. CASE Commit
    BY <2>1, <2>4, <1>8 DEF Commit, Attempting, TypeOK
  <2>5. QED
    BY <1>9, <2>2, <2>3, <2>4
<1>11. CASE Stop
  BY <1>11 DEF Stop, TypeOK, Hands, evTopic, alTopic, engine, task, db, history,
     EvidenceQ!QueueTypeOK, AlertQ!QueueTypeOK
<1>12. CASE Restart
  <2>1. InFlight \subseteq Alerts
    BY ElementOfSeq DEF InFlight, Range, TypeOK, AlertQ!QueueTypeOK
  <2>2. EvidenceQ!QueueTypeOK' /\ AlertQ!QueueTypeOK'
    BY <1>12, EmptySeq DEF Restart, EvidenceQ!QueueTypeOK, AlertQ!QueueTypeOK
  <2>3. /\ count' \in 0..MaxRetries /\ boot' \in 1..MaxBoots
        /\ unstored' \in SUBSET Alerts /\ forfeited' \in SUBSET Groups
    BY <1>12, <2>1 DEF Restart, TypeOK
  <2>4. /\ due' = NoMessage /\ alert' = NoMessage /\ pending' = {} /\ worker' = "head"
        /\ stop' \in BOOLEAN /\ found' \in BOOLEAN /\ keyed' \in BOOLEAN
    BY <1>12 DEF Restart
  <2>5. TypeOK'
    BY <1>12, <2>2, <2>3, <2>4 DEF Restart, TypeOK, db
  <2>6. Hands'
    BY <1>12 DEF Restart, Hands
  <2>7. QED
    BY <2>5, <2>6
<1>13. CASE UNCHANGED vars
  BY <1>13 DEF vars, TypeOK, Hands, evTopic, alTopic, engine, task, db, history,
     EvidenceQ!QueueTypeOK, AlertQ!QueueTypeOK
<1>14. QED
  BY <1>1, <1>2, <1>3, <1>4, <1>5, <1>6, <1>7, <1>9, <1>11, <1>12, <1>13
  DEF Next, ComplianceStep, WorkerStep

LEMMA TypingInit == Init => TypeOK /\ Hands
<1> SUFFICES ASSUME Init PROVE TypeOK /\ Hands
  OBVIOUS
<1>1. EvidenceQ!QueueTypeOK /\ AlertQ!QueueTypeOK
  BY EmptySeq DEF Init, EvidenceQ!QueueTypeOK, AlertQ!QueueTypeOK, EvidenceQ!QueueInit,
     AlertQ!QueueInit
<1>2. /\ raised \in 0..MaxAlerts /\ boot \in 1..MaxBoots
      /\ count \in 0..MaxRetries /\ worker = "head"
  BY PipelineConfigOK DEF Init
<1>3. stop \in BOOLEAN /\ found \in BOOLEAN /\ keyed \in BOOLEAN
  BY DEF Init
<1>4. TypeOK
  BY <1>1, <1>2, <1>3 DEF Init, TypeOK
<1>5. Hands
  BY DEF Init, Hands, Busy, EvidenceQ!QueueInit, AlertQ!QueueInit
<1>6. QED
  BY <1>4, <1>5

----------------------------------------------------------------------------
(* Alerts are in one place *)

(* The ways in which the alerts change places. *)
Stays == UNCHANGED <<InFlight, settled, unstored, raised>> /\ rows \subseteq rows'

Begins ==
  \E a \in Alerts :
    /\ a.n = raised + 1 /\ raised' = raised + 1 /\ a.group \in used'
    /\ InFlight' = InFlight \cup {a} /\ UNCHANGED <<settled, unstored, rows>>

Ends ==
  \E a \in InFlight :
    /\ InFlight' = InFlight \ {a} /\ raised' = raised /\ rows \subseteq rows'
    /\ \/ unstored' = unstored \cup {a} /\ settled' = settled
       \/ settled' = settled \cup {a} /\ unstored' = unstored /\ Stored(a.group)'

Dies ==
  /\ InFlight' = {} /\ unstored' = unstored \cup InFlight
  /\ UNCHANGED <<settled, raised, rows>>

Move == Stays \/ Begins \/ Ends \/ Dies

(* Every step of the two threads and of the process is one of them. *)
LEMMA Moves ==
  ASSUME TypeOK, Hands, Apart, AlertsAccounted, [Next]_vars
  PROVE  Apart' /\ Move
<1> USE PipelineConfigOK
<1> DEFINE hand == alHolding[compliance]
<1>a. TypeOK' /\ Hands'
  BY Typing
<1>b. IsInjective(alItems) /\ alItems \in Seq(Alerts) /\ NoMessage \notin Alerts
  BY DEF Apart, IsInjective, TypeOK, AlertQ!QueueTypeOK, Alerts, GroupIds, Groups
<1>c. /\ due # NoMessage => due \in Alerts /\ hand = NoMessage
      /\ alert # NoMessage => alert \in Alerts
      /\ hand # NoMessage => hand \in Alerts
      /\ Range(alItems) \subseteq Alerts
  BY <1>b, ElementOfSeq DEF TypeOK, Hands, AlertQ!QueueTypeOK, Range
<1>d. InFlight \subseteq Alerts /\ raised \in Nat
  BY <1>c DEF InFlight, TypeOK
<1>e. \A a \in InFlight \cup settled \cup unstored : a.n # raised + 1
  <2>1. \A a \in InFlight \cup settled \cup unstored : a.n \in 1..raised
    BY DEF AlertsAccounted
  <2>2. QED
    BY <2>1, <1>d
<1>1. ASSUME NEW g \in GroupIds, NEW shows \in BOOLEAN, Raise(g, shows)
      PROVE  Apart' /\ Begins
  <2> DEFINE a == [n |-> raised + 1, group |-> g]
  <2>1. a \in Alerts /\ a.n = raised + 1 /\ a \notin InFlight
    BY <1>1, <1>d, <1>e DEF Raise, Alerts
  <2>2. due = NoMessage /\ hand = NoMessage
    BY <1>1 DEF Raise, Hands
  <2>3. /\ alItems' = alItems /\ UNCHANGED <<alert, settled, unstored, rows>>
        /\ raised' = raised + 1
        /\ \/ due' = a /\ hand' = hand
           \/ due' = due /\ hand' = a
    <3>1. CASE shows
      BY <1>1, <3>1 DEF Raise, alTopic, task, db, history
    <3>2. CASE ~shows
      BY <1>1, <2>1, <3>2, AlertPublish DEF Raise, task, db, history
    <3>3. QED
      BY <3>1, <3>2
  <2>4. a \notin Range(alItems) /\ a # alert
    BY <2>1 DEF InFlight
  <2>5. InFlight' = InFlight \cup {a}
    BY <1>b, <2>1, <2>2, <2>3 DEF InFlight, Range
  <2>6. Apart'
    BY <2>2, <2>3, <2>4 DEF Apart, Range
  <2>7. a.group \in used'
    BY <1>1 DEF Raise
  <2>8. QED
    BY <2>1, <2>3, <2>5, <2>6, <2>7 DEF Begins
<1>2. CASE \/ PublishEvidence \/ LoopHead \/ Look \/ Stop \/ UNCHANGED vars
           \/ WriteFiles /\ ~AttemptFails
           \/ Guard /\ ~Settle /\ ~AttemptFails
  <2>1. UNCHANGED <<alItems, alHolding, due, alert, settled, unstored, raised, rows>>
    BY <1>2 DEF PublishEvidence, LoopHead, Look, Stop, WriteFiles, Guard, Attempting, vars,
       alTopic, engine, task, db, history
  <2>2. QED
    BY <2>1 DEF Apart, Stays, InFlight, Range, Move
<1>3. CASE AlertFollows
  <2>1. /\ due \in Alerts /\ due # NoMessage /\ due' = NoMessage /\ hand' = due /\ hand = NoMessage
        /\ alItems' = alItems /\ UNCHANGED <<alert, settled, unstored, raised, rows>>
    BY <1>3, <1>c, AlertPublish DEF AlertFollows, task, db, history
  <2>2. InFlight' = InFlight
    BY <1>b, <2>1 DEF InFlight, Range
  <2>3. QED
    BY <2>1, <2>2 DEF Apart, Stays, Range, Move
<1>4. CASE PublishAlert
  <2>1. AlertQ!PublishStep(compliance) /\ UNCHANGED <<due, alert, settled, raised, rows>>
    BY <1>4 DEF PublishAlert, engine, task, db
  <2>2. hand \in Alerts /\ due = NoMessage
    BY <2>1, AlertPublishStep DEF Hands
  <2>3. CASE alItems' = Append(alItems, hand) /\ hand' = NoMessage
    <3>1. /\ Range(alItems') = Range(alItems) \cup {hand} /\ IsInjective(alItems')
          /\ ~(Len(alItems') < Len(alItems))
      BY <1>b, <2>2, <2>3, PutLast, PutLastInjective DEF Apart
    <3>2. unstored' = unstored
      BY <1>4, <3>1 DEF PublishAlert
    <3>3. InFlight' = InFlight
      BY <1>b, <2>1, <2>2, <2>3, <3>1 DEF InFlight
    <3>4. QED
      BY <1>b, <2>1, <2>2, <2>3, <3>1, <3>2, <3>3 DEF Apart, IsInjective, Stays, Move
  <2>4. CASE alItems # <<>> /\ alItems' = Tail(alItems) /\ hand' = hand
    <3>1. /\ Range(alItems) = Range(alItems') \cup {Head(alItems)} /\ IsInjective(alItems')
          /\ Head(alItems) \notin Range(alItems') /\ Len(alItems') < Len(alItems)
          /\ Head(alItems) \in Alerts
      BY <1>b, <2>4, TakeHead, TakeHeadInjective
    <3>2. unstored' = unstored \cup {Head(alItems)}
      BY <1>4, <3>1 DEF PublishAlert
    <3>3. InFlight' = InFlight \ {Head(alItems)} /\ Head(alItems) \in InFlight
      BY <1>b, <2>1, <2>2, <2>4, <3>1 DEF InFlight, Apart
    <3>4. Ends
      BY <2>1, <3>2, <3>3 DEF Ends
    <3>5. QED
      BY <2>1, <2>2, <2>4, <3>1, <3>4 DEF Apart, IsInjective, Move
  <2>5. CASE alItems' = alItems /\ hand' = hand
    <3>1. unstored' = unstored
      BY <1>4, <1>b, <2>5, LenProperties DEF PublishAlert
    <3>2. QED
      BY <2>1, <2>5, <3>1 DEF Apart, InFlight, Range, Stays, Move
  <2>6. QED
    BY <2>1, <2>3, <2>4, <2>5, AlertPublishStep
<1>5. CASE TakeAlert
  <2>1. UNCHANGED <<due, settled, unstored, raised, rows>>
    BY <1>5 DEF TakeAlert, engine, db, history
  <2>2. CASE alItems = <<>>
    <3>1. UNCHANGED <<alItems, alHolding, alert>>
      BY <1>5, <2>2 DEF TakeAlert, alTopic, task
    <3>2. QED
      BY <2>1, <3>1 DEF Apart, InFlight, Range, Stays, Move
  <2>3. CASE alItems # <<>>
    <3>1. /\ alItems' = Tail(alItems) /\ alert' = Head(alItems) /\ alHolding' = alHolding
          /\ alert = NoMessage
      BY <1>5, <2>3, AlertGet DEF TakeAlert, Hands, Busy
    <3>2. /\ Range(alItems) = Range(alItems') \cup {alert'} /\ IsInjective(alItems')
          /\ alert' \notin Range(alItems') /\ alert' \in Alerts
      BY <1>b, <2>3, <3>1, TakeHead, TakeHeadInjective
    <3>3. InFlight' = InFlight
      BY <1>b, <2>1, <3>1, <3>2 DEF InFlight
    <3>4. Apart'
      BY <2>1, <3>1, <3>2 DEF Apart, IsInjective
    <3>5. QED
      BY <2>1, <3>3, <3>4 DEF Stays, Move
  <2>4. QED
    BY <2>2, <2>3
<1>6. CASE \/ Commit
           \/ Guard /\ Settle
           \/ (Guard \/ WriteFiles) /\ AttemptFails
  <2>1. /\ worker \in Busy \ {"look"} /\ alert \in Alerts /\ alert \in InFlight
        /\ UNCHANGED <<alItems, alHolding, due, raised>> /\ rows \subseteq rows'
    <3>1. /\ worker \in Busy \ {"look"}
          /\ UNCHANGED <<alItems, alHolding, due, raised>> /\ rows \subseteq rows'
      BY <1>6 DEF Guard, WriteFiles, Commit, Attempting, alTopic, engine, db, Busy
    <3>2. QED
      BY <3>1, <1>c DEF Hands, InFlight
  <2>2. CASE alert' = alert /\ UNCHANGED <<settled, unstored>>
    BY <2>1, <2>2 DEF Apart, InFlight, Range, Stays, Move
  <2>3. CASE alert' = NoMessage
    <3>1. InFlight' = InFlight \ {alert}
      BY <1>b, <1>c, <2>1, <2>3 DEF InFlight, Range, Apart
    <3>2. Apart'
      BY <1>c, <1>b, <2>1, <2>3 DEF Apart, Range
    <3>3. CASE unstored' = unstored \cup {alert} /\ settled' = settled
      BY <2>1, <3>1, <3>2, <3>3 DEF Ends, Move
    <3>4. CASE settled' = settled \cup {alert} /\ unstored' = unstored
               /\ \E r \in rows' : r.group = alert.group
      BY <2>1, <3>1, <3>2, <3>4 DEF Ends, Move, Stored
    <3>5. CASE Settle /\ ~AttemptFails
      <4>1. CASE Guard
        <5>1. Stored(alert.group) /\ unstored' = unstored /\ rows' = rows
          BY <3>5, <4>1 DEF Guard, Settle, db
        <5>2. QED
          BY <3>4, <3>5, <5>1 DEF Settle, Stored
      <4>2. CASE Commit
        <5>1. PICK applied \in BOOLEAN :
                /\ rows' = rows \cup IF applied
                        THEN {[group |-> alert.group, evidence |-> found, keyed |-> keyed]}
                        ELSE {}
                /\ applied /\ unstored' = unstored
          BY <3>5, <4>2 DEF Commit
        <5>2. [group |-> alert.group, evidence |-> found, keyed |-> keyed] \in rows'
          BY <5>1, Zenon
        <5>3. \E r \in rows' : r.group = alert.group
          BY <5>2
        <5>4. QED
          BY <3>4, <3>5, <5>1, <5>3 DEF Settle
      <4>3. QED
        BY <1>6, <3>5, <4>1, <4>2
    <3>6. CASE AttemptFails
      BY <3>3, <3>6, <2>1, <2>3, <1>b, AttemptFailsCases
    <3>7. QED
      BY <1>6, <3>5, <3>6 DEF Commit
  <2>4. QED
    <3>1. CASE AttemptFails
      BY <2>1, <2>2, <2>3, <3>1, AttemptFailsCases
    <3>2. CASE Settle
      BY <2>3, <3>2 DEF Settle
    <3>3. QED
      BY <1>6, <3>1, <3>2 DEF Commit
<1>7. CASE Restart
  <2>1. /\ alItems' = <<>> /\ due' = NoMessage /\ alert' = NoMessage /\ hand' = NoMessage
        /\ unstored' = unstored \cup InFlight /\ UNCHANGED <<settled, raised, rows>>
    BY <1>7 DEF Restart, db
  <2>2. Range(alItems') = {}
    BY <2>1 DEF Range
  <2>3. InFlight' = {}
    BY <1>b, <2>1, <2>2 DEF InFlight
  <2>4. Apart'
    BY <2>1, <2>2 DEF Apart, IsInjective
  <2>5. QED
    BY <2>1, <2>3, <2>4 DEF Dies, Move
<1>8. CASE WorkerStep
  BY <1>2, <1>5, <1>6, <1>8 DEF WorkerStep
<1>9. CASE \E g \in GroupIds, shows \in BOOLEAN : Raise(g, shows)
  BY <1>1, <1>9 DEF Move
<1>10. QED
  BY <1>2, <1>3, <1>4, <1>7, <1>8, <1>9 DEF Next, ComplianceStep

LEMMA AccountedStep ==
  ASSUME TypeOK, Hands, Apart, AlertsAccounted, [Next]_vars
  PROVE  AlertsAccounted'
<1>a. TypeOK' /\ Hands' /\ Move
  BY Typing, Moves
<1>b. raised \in Nat /\ \A r \in rows : rows \subseteq rows' => r \in rows'
  BY DEF TypeOK
<1>1. CASE Stays
  BY <1>a, <1>1 DEF AlertsAccounted, Stays, Stored
<1>2. CASE Begins
  <2>1. PICK a \in Alerts : /\ a.n = raised + 1 /\ raised' = raised + 1
                            /\ InFlight' = InFlight \cup {a} /\ UNCHANGED <<settled, unstored, rows>>
    BY <1>2 DEF Begins
  <2>2. \A b \in InFlight \cup settled \cup unstored : b.n \in 1..raised
    BY DEF AlertsAccounted
  <2>3. a \notin settled \cup unstored
    BY <1>b, <2>1, <2>2
  <2>4. 1..raised' = (1..raised) \cup {raised + 1}
    BY <1>b, <2>1
  <2>5. {b.n : b \in InFlight' \cup settled' \cup unstored'} = 1..raised'
    BY <2>1, <2>4 DEF AlertsAccounted
  <2>6. QED
    BY <1>a, <2>1, <2>3, <2>5 DEF AlertsAccounted, Stored
<1>3. CASE Ends
  <2>1. InFlight' \cup settled' \cup unstored' = InFlight \cup settled \cup unstored
    BY <1>3 DEF Ends
  <2>2. raised' = raised /\ \A a \in settled' : Stored(a.group)'
    BY <1>3 DEF Ends, AlertsAccounted, Stored
  <2>3. /\ settled' \cap (unstored' \cup InFlight') = {}
        /\ unstored' \cap InFlight' = {}
    BY <1>3 DEF Ends, AlertsAccounted
  <2>4. QED
    BY <1>a, <2>1, <2>2, <2>3 DEF AlertsAccounted
<1>4. CASE Dies
  <2>1. InFlight' \cup settled' \cup unstored' = InFlight \cup settled \cup unstored
    BY <1>4 DEF Dies
  <2>2. QED
    BY <1>a, <1>4, <2>1 DEF AlertsAccounted, Dies, Stored
<1>5. QED
  BY <1>a, <1>1, <1>2, <1>3, <1>4 DEF Move

LEMMA AccountedInit == Init => Apart /\ AlertsAccounted
<1> SUFFICES ASSUME Init PROVE Apart /\ AlertsAccounted
  OBVIOUS
<1>1. TypeOK /\ Hands
  BY TypingInit
<1>2. Range(alItems) = {} /\ alHolding[compliance] = NoMessage /\ alItems = <<>>
  BY DEF Init, AlertQ!QueueInit, Range
<1>3. InFlight = {}
  BY <1>2, PipelineConfigOK DEF Init, InFlight, Alerts, GroupIds, Groups
<1>4. QED
  BY <1>1, <1>2, <1>3 DEF Init, Apart, IsInjective, AlertsAccounted

----------------------------------------------------------------------------
(* No group is inserted twice *)

LEMMA NeverCollidesStep ==
  ASSUME TypeOK, Hands, InsertNeverCollides, [Next]_vars
  PROVE  InsertNeverCollides'
<1>1. CASE Guard
  <2>1. CASE ~Stored(alert.group) /\ worker' = "files" /\ alert' = alert
    BY <1>1, <2>1 DEF Guard, db, InsertNeverCollides, Stored
  <2>2. CASE worker' \in {"head", "guard"}
    BY <2>2 DEF InsertNeverCollides
  <2>3. QED
    BY <1>1, <2>1, <2>2 DEF Guard, Settle, AttemptFails, task
<1>2. CASE WriteFiles
  <2>1. CASE worker = "files" /\ alert' = alert /\ rows' = rows
    BY <2>1 DEF InsertNeverCollides, Stored
  <2>2. CASE worker' \in {"head", "guard"}
    BY <2>2 DEF InsertNeverCollides
  <2>3. QED
    BY <1>2, <2>1, <2>2 DEF WriteFiles, Attempting, AttemptFails
<1>3. CASE LoopHead \/ TakeAlert \/ Look \/ Commit \/ Restart
  <2>1. worker' \notin {"files", "commit"}
    BY <1>3
    DEF LoopHead, TakeAlert, Look, Commit, Restart, Settle, AttemptFails, Attempting
  <2>2. QED
    BY <2>1 DEF InsertNeverCollides
<1>4. ASSUME UNCHANGED <<worker, alert, rows>>
      PROVE  InsertNeverCollides'
  BY <1>4 DEF InsertNeverCollides, Stored
<1>5. CASE WorkerStep \/ Restart
  BY <1>1, <1>2, <1>3, <1>5 DEF WorkerStep
<1>6. QED
  BY <1>4, <1>5
  DEF Next, vars, ComplianceStep, Raise, PublishEvidence, AlertFollows, PublishAlert, Stop,
      task, db

----------------------------------------------------------------------------
(* Evidence is joined with its alert *)

Safe == TypeOK /\ Hands /\ Apart /\ AlertsAccounted /\ InsertNeverCollides

(* What has happened stays. *)
LEMMA Grows ==
  ASSUME TypeOK, [Next]_vars
  PROVE  /\ forfeited \subseteq forfeited' /\ rows \subseteq rows' /\ files \subseteq files'
         /\ used \subseteq used' /\ shown \subseteq shown'
<1>1. CASE WorkerStep
  <2>1. UNCHANGED engine /\ rows \subseteq rows' /\ files \subseteq files'
    BY <1>1 DEF WorkerStep, LoopHead, TakeAlert, Look, Guard, WriteFiles, Commit, Attempting, db
  <2>2. forfeited \subseteq forfeited'
    BY <1>1 DEF WorkerStep, LoopHead, TakeAlert, Look, Guard, WriteFiles, Commit, AttemptFails
  <2>3. QED
    BY <2>1, <2>2 DEF engine
<1>2. CASE ~WorkerStep
  BY <1>2
  DEF Next, ComplianceStep, Raise, PublishEvidence, AlertFollows, PublishAlert, Stop, Restart,
      vars, engine, db
<1>3. QED
  BY <1>1, <1>2

(* Only a violation raised shows a group or names one, a new one if it comes *)
(* with evidence.                                                            *)
LEMMA Shows ==
  ASSUME TypeOK, Hands, Named, [Next]_vars, ~UNCHANGED <<used, shown, raised>>
  PROVE  \E g \in GroupIds, shows \in BOOLEAN :
           /\ Raise(g, shows) /\ raised' = raised + 1 /\ used' = used \cup {g}
           /\ evHolding[compliance] = NoMessage
           /\ UNCHANGED <<evItems, pending, forfeited, rows, alert, found, count, worker>>
           /\ \/ shown' = shown /\ evHolding'[compliance] = evHolding[compliance]
              \/ /\ shows /\ shown' = shown \cup ({g} \cap Groups) /\ evHolding'[compliance] = g
                 /\ g \in Groups => g = raised + 1 /\ g \notin used
<1>1. PICK g \in GroupIds, shows \in BOOLEAN : Raise(g, shows)
  <2>1. ~WorkerStep
    BY DEF WorkerStep, LoopHead, TakeAlert, Look, Guard, WriteFiles, Commit, Attempting, engine
  <2>2. QED
    BY <2>1
    DEF Next, ComplianceStep, PublishEvidence, AlertFollows, PublishAlert, Stop, Restart, vars,
        engine
<1>2. /\ raised' = raised + 1 /\ used' = used \cup {g} /\ evHolding[compliance] = NoMessage
      /\ UNCHANGED <<pending, forfeited, rows, alert, found, count, worker>>
  BY <1>1 DEF Raise, Hands, task, db
<1>3. CASE shows
  <2>1. evItems' = evItems /\ evHolding'[compliance] = g
    BY <1>1, <1>3, EvidencePublish DEF Raise
  <2>2. shown' = shown \cup ({g} \cap Groups)
    BY <1>1, <1>3 DEF Raise
  <2>3. g \in Groups => g = raised + 1 /\ g \notin used
    <3>1. g \in Groups => g = raised + 1
      BY <1>1, <1>3, PipelineConfigOK DEF Raise, Groups
    <3>2. raised \in Nat /\ used \cap Groups \subseteq 1..raised
      BY DEF TypeOK, Named
    <3>3. QED
      BY <3>1, <3>2
  <2>4. QED
    BY <1>1, <1>2, <1>3, <2>1, <2>2, <2>3
<1>4. CASE ~shows
  BY <1>1, <1>2, <1>4 DEF Raise, evTopic
<1>5. QED
  BY <1>3, <1>4

LEMMA NamedStep ==
  ASSUME Safe, Named, [Next]_vars
  PROVE  Named'
<1>1. used' \cap Groups \subseteq 1..raised' /\ shown' \subseteq used'
  <2>1. CASE UNCHANGED <<used, shown, raised>>
    BY <2>1 DEF Named
  <2>2. CASE ~UNCHANGED <<used, shown, raised>>
    <3>1. PICK g \in GroupIds, shows \in BOOLEAN :
            Raise(g, shows) /\ raised' = raised + 1 /\ used' = used \cup {g}
            /\ (shown' = shown \/ shown' = shown \cup ({g} \cap Groups))
      BY <2>2, Shows DEF Safe
    <3>2. g \in used \cup {raised + 1, Unknown} /\ Unknown \notin Groups /\ raised \in Nat
      BY <3>1, PipelineConfigOK DEF Raise, Groups, Safe, TypeOK
    <3>3. used \cap Groups \subseteq 1..raised
      BY DEF Named
    <3>4. used' \cap Groups \subseteq 1..(raised + 1)
      BY <3>1, <3>2, <3>3
    <3>5. QED
      BY <3>1, <3>4 DEF Named
  <2>3. QED
    BY <2>1, <2>2
<1>2. \A a \in InFlight' : a.group \in used'
  <2>1. Move
    BY Moves DEF Safe
  <2>2. QED
    BY <2>1, Grows DEF Move, Stays, Begins, Ends, Dies, Named, Safe
<1>3. \A r \in rows' : r.group \in used'
  <2>1. CASE rows' = rows
    BY <2>1, Grows DEF Named, Safe
  <2>2. CASE rows' # rows
    <3>1. Commit
      BY <2>2
      DEF Next, WorkerStep, LoopHead, TakeAlert, Look, Guard, WriteFiles, ComplianceStep, Raise,
          PublishEvidence, AlertFollows, PublishAlert, Stop, Restart, vars, db
    <3>2. alert \in InFlight
      BY <3>1 DEF Commit, Attempting, Safe, Hands, Busy, InFlight, TypeOK
    <3>3. alert.group \in used'
      BY <3>2, Grows DEF Named, Safe
    <3>4. \A r \in rows' : r \in rows \/ r.group = alert.group
      BY <3>1 DEF Commit
    <3>5. QED
      BY <3>3, <3>4, Grows DEF Named, Safe
  <2>3. QED
    BY <2>1, <2>2
<1>4. QED
  BY <1>1, <1>2, <1>3 DEF Named

(* Only its evidence step, Raise and Restart change what publish() holds.   *)
LEMMA AheadStep ==
  ASSUME Safe, Named, Ahead, [Next]_vars
  PROVE  Ahead'
<1>a. NoMessage \notin Groups /\ Unknown \notin Groups
  BY PipelineConfigOK DEF Groups
<1>1. ASSUME NEW g \in GroupIds, NEW shows \in BOOLEAN, Raise(g, shows)
      PROVE  Ahead'
  <2>1. due = NoMessage /\ alHolding[compliance] = NoMessage /\ evHolding[compliance] = NoMessage
    BY <1>1 DEF Raise, Safe, Hands
  <2>2. CASE shows
    <3>1. /\ evHolding'[compliance] = g /\ due' = [n |-> raised + 1, group |-> g]
          /\ UNCHANGED <<alItems, alHolding, alert>>
          /\ g \in {raised + 1, Unknown}
      BY <1>1, <2>2, EvidencePublish DEF Raise, Safe, alTopic, task
    <3>2. InFlight' \ {due'} \subseteq InFlight
      BY <3>1 DEF InFlight, Range
    <3>3. g \in Groups => g \notin used
      BY <3>1, <1>a DEF Named, Safe, TypeOK
    <3>4. QED
      BY <3>1, <3>2, <3>3 DEF Ahead, Named
  <2>3. CASE ~shows
    BY <1>1, <1>a, <2>1, <2>3 DEF Raise, evTopic, Ahead
  <2>4. QED
    BY <2>2, <2>3
<1>2. CASE PublishEvidence
  <2>1. evHolding'[compliance] \in {NoMessage, evHolding[compliance]}
    BY <1>2, EvidencePublishStep DEF PublishEvidence, Safe
  <2>2. InFlight' = InFlight /\ due' = due
    BY <1>2 DEF PublishEvidence, InFlight, Range, alTopic, engine, task
  <2>3. QED
    BY <1>a, <2>1, <2>2 DEF Ahead
<1>3. CASE AlertFollows
  BY <1>3, <1>a DEF AlertFollows, evTopic, Safe, Hands, Ahead
<1>4. CASE PublishAlert \/ TakeAlert \/ LoopHead \/ Look \/ Guard \/ WriteFiles \/ Commit
           \/ Stop \/ UNCHANGED vars
  <2>1. UNCHANGED <<due, raised>> /\ evHolding' = evHolding
    <3>1. CASE LoopHead \/ Look
      BY <3>1, EvidenceGet DEF LoopHead, Look, evTopic, engine, Safe
    <3>2. QED
      BY <1>4, <3>1
      DEF PublishAlert, TakeAlert, Guard, WriteFiles, Commit, Attempting, Stop, vars, evTopic,
          engine
  <2>2. InFlight' \subseteq InFlight
    <3>1. Move
      BY Moves DEF Safe
    <3>2. ~Begins
      BY <2>1 DEF Begins, Safe, TypeOK
    <3>3. QED
      BY <3>1, <3>2 DEF Move, Stays, Ends, Dies
  <2>3. QED
    BY <2>1, <2>2 DEF Ahead
<1>5. CASE Restart
  BY <1>5, <1>a DEF Restart, Ahead
<1>6. QED
  BY <1>1, <1>2, <1>3, <1>4, <1>5 DEF Next, ComplianceStep, WorkerStep

LEMMA RoomStep ==
  ASSUME Safe, MaxSize > 0, Len(evItems) <= MaxSize, [Next]_vars
  PROVE  Len(evItems') <= MaxSize
<1>a. evItems \in Seq(GroupIds) /\ Len(evItems) \in Nat /\ MaxSize \in Nat
  BY LenProperties, PipelineConfigOK DEF Safe, TypeOK, EvidenceQ!QueueTypeOK
<1>1. CASE PublishEvidence
  <2>1. EvidenceQ!PublishStep(compliance)
    BY <1>1 DEF PublishEvidence
  <2>2. QED
    BY <1>a, <2>1, EvidencePublishStep, TakeHead, PutLast DEF Safe
<1>2. CASE LoopHead \/ Look
  <2>1. evItems' = evItems \/ (evItems # <<>> /\ evItems' = Tail(evItems))
    BY <1>2, EvidenceGet DEF LoopHead, Look, evTopic, Safe
  <2>2. QED
    BY <1>a, <2>1, TakeHead
<1>3. CASE Restart
  BY <1>3, <1>a DEF Restart
<1>4. CASE ~PublishEvidence /\ ~LoopHead /\ ~Look /\ ~Restart
  <2>1. evItems' = evItems
    <3>1. CASE \E g \in GroupIds, shows \in BOOLEAN : Raise(g, shows)
      BY <3>1, EvidencePublish DEF Raise, evTopic, Safe
    <3>2. QED
      BY <1>4, <3>1
      DEF Next, ComplianceStep, WorkerStep, AlertFollows, PublishAlert, TakeAlert, Guard,
          WriteFiles, Commit, Attempting, Stop, vars, evTopic
  <2>2. QED
    BY <2>1
<1>5. QED
  BY <1>1, <1>2, <1>3, <1>4

(* A step of the compliance thread leaves the task of the worker alone.     *)
LEMMA OutsideTheWorker ==
  ASSUME TypeOK, Hands, [Next]_vars, ~WorkerStep, ~Restart, ~PublishEvidence
  PROVE  UNCHANGED <<evItems, pending, forfeited, rows, files, worker, alert, found, count, keyed>>
<1>1. CASE \E g \in GroupIds, shows \in BOOLEAN : Raise(g, shows)
  BY <1>1, EvidencePublish DEF Raise, evTopic, task, db
<1>2. QED
  BY <1>1
  DEF Next, ComplianceStep, AlertFollows, PublishAlert, Stop, vars, evTopic, task, db

(* Looking: the evidence is one place closer after every look. *)
LEMMA CloserStep ==
  ASSUME Safe, Named, Ahead, Closer, MaxSize \in 1..MaxLooks, Len(evItems) <= MaxSize,
         [Next]_vars
  PROVE  Closer'
<1> USE PipelineConfigOK
<1>a. evItems \in Seq(GroupIds) /\ Len(evItems) \in Nat /\ count \in Nat
  BY LenProperties DEF Safe, TypeOK, EvidenceQ!QueueTypeOK
<1>1. CASE PublishEvidence
  <2>1. /\ EvidenceQ!PublishStep(compliance)
        /\ UNCHANGED <<pending, worker, alert, found, count>>
    BY <1>1 DEF PublishEvidence, task
  <2>2. SUFFICES ASSUME alert # NoMessage, ~found, alert.group \in Groups
                 PROVE  /\ worker = "look" => \A i \in 1..Len(evItems') :
                             evItems'[i] = alert.group => i <= MaxSize - count
                        /\ worker # "look" => alert.group \notin Range(evItems')
    BY <2>1 DEF Closer
  <2>3. CASE evItems' = Append(evItems, evHolding[compliance])
    <3>1. evHolding[compliance] \in GroupIds /\ evHolding[compliance] # alert.group
      <4>1. alert \in InFlight \ {due}
        BY <2>2 DEF InFlight, Safe, TypeOK, Apart
      <4>2. QED
        BY <2>1, <2>2, <4>1, EvidencePublishStep DEF Ahead, Safe
    <3>2. \A i \in 1..Len(evItems') : evItems'[i] = alert.group =>
            i \in 1..Len(evItems) /\ evItems[i] = alert.group
      BY <1>a, <2>3, <3>1, PutLast
    <3>3. QED
      BY <2>2, <3>2 DEF Closer, Range
  <2>4. CASE evItems # <<>> /\ evItems' = Tail(evItems)
    <3>1. \A i \in 1..Len(evItems') : i + 1 \in 1..Len(evItems) /\ evItems'[i] = evItems[i + 1]
      BY <1>a, <2>4, TakeHead
    <3>2. ASSUME worker = "look", NEW i \in 1..Len(evItems'), evItems'[i] = alert.group
          PROVE  i <= MaxSize - count
      <4>1. i + 1 <= MaxSize - count
        BY <2>2, <3>1, <3>2 DEF Closer
      <4>2. QED
        BY <1>a, <3>2, <4>1
    <3>3. worker # "look" => alert.group \notin Range(evItems')
      BY <1>a, <2>2, <2>4, TakeHead DEF Closer
    <3>4. QED
      BY <3>2, <3>3
  <2>5. CASE evItems' = evItems
    BY <2>2, <2>5 DEF Closer
  <2>6. QED
    BY <2>1, <2>3, <2>4, <2>5, EvidencePublishStep DEF Safe
<1>2. CASE LoopHead
  BY <1>2 DEF LoopHead, Safe, Hands, Busy, task, Closer
<1>3. CASE TakeAlert
  <2>1. CASE alItems = <<>>
    BY <1>3, <2>1 DEF TakeAlert, Safe, Hands, Busy, task, Closer
  <2>2. CASE alItems # <<>>
    <3>1. worker' = "look" /\ count' = 0 /\ evItems' = evItems
      BY <1>3, <2>2 DEF TakeAlert, evTopic
    <3>2. QED
      BY <1>a, <3>1 DEF Closer
  <2>3. QED
    BY <2>1, <2>2
<1>4. CASE Look
  <2> DEFINE g == alert.group
  <2>1. /\ DrainEvidence({g}) /\ worker = "look" /\ alert' = alert /\ ~found /\ alert # NoMessage
    BY <1>4 DEF Look, Safe, Hands, Busy
  <2>2. SUFFICES ASSUME ~found', g \in Groups
                 PROVE  /\ worker' = "look" => \A i \in 1..Len(evItems') :
                             evItems'[i] = g => i <= MaxSize - count'
                        /\ g \notin pending'
                        /\ worker' # "look" => g \notin Range(evItems')
    BY <2>1 DEF Closer
  <2>3. /\ ~Arrived(g) /\ count < MaxLooks
        /\ \/ count + 1 < MaxLooks /\ count' = count + 1 /\ worker' = "look"
           \/ count = MaxLooks - 1 /\ worker' = "guard"
    <3>1. count \in 0..(MaxLooks - 1)
      BY <2>1 DEF Safe, TypeOK
    <3>2. ~Arrived(g)
      BY <1>4, <2>2 DEF Look
    <3>3. QED
      BY <1>4, <2>1, <3>1, <3>2 DEF Look
  <2>4. g \notin pending'
    BY <2>1, EvidenceGet DEF Safe
  <2>5. CASE evItems = <<>> /\ evItems' = <<>>
    BY <2>4, <2>5 DEF Range
  <2>6. CASE evItems # <<>> /\ evItems' = Tail(evItems)
    <3>1. \A i \in 1..Len(evItems') : i + 1 \in 1..Len(evItems) /\ evItems'[i] = evItems[i + 1]
      BY <1>a, <2>6, TakeHead
    <3>2. ASSUME NEW i \in 1..Len(evItems'), evItems'[i] = g
          PROVE  i + 1 <= MaxSize - count
      BY <2>1, <2>2, <3>1, <3>2 DEF Closer
    <3>3. ASSUME worker' = "look", NEW i \in 1..Len(evItems'), evItems'[i] = g
          PROVE  i <= MaxSize - count'
      BY <1>a, <2>3, <3>2, <3>3
    <3>4. ASSUME worker' # "look", NEW i \in 1..Len(evItems'), evItems'[i] = g
          PROVE  FALSE
      <4>1. count = MaxLooks - 1 /\ i + 1 <= MaxSize - count
        BY <2>3, <3>2, <3>4
      <4>2. QED
        BY <1>a, <4>1
    <3>5. QED
      BY <2>4, <3>3, <3>4 DEF Range
  <2>7. QED
    BY <2>1, <2>5, <2>6, EvidenceGet DEF Safe
<1>5. CASE Guard \/ WriteFiles \/ Commit
  <2>1. worker \in Busy \ {"look"} /\ UNCHANGED <<evItems, pending>>
    BY <1>5 DEF Guard, WriteFiles, Commit, Attempting, evTopic, Busy
  <2>2. CASE AttemptFails
    BY <2>1, <2>2, AttemptFailsCases DEF Closer, Safe, Range
  <2>3. CASE Settle
    BY <2>3 DEF Settle, Closer
  <2>4. CASE ~AttemptFails /\ ~Settle
    <3>1. worker' \in Busy \ {"look"} /\ UNCHANGED <<alert, found>>
      BY <1>5, <2>4 DEF Guard, WriteFiles, Commit, Attempting, task, Busy
    <3>2. QED
      BY <2>1, <3>1 DEF Closer, Range, Busy
  <2>5. QED
    BY <2>2, <2>3, <2>4
<1>6. CASE Restart
  BY <1>6 DEF Restart, Closer
<1>7. CASE ~WorkerStep /\ ~Restart /\ ~PublishEvidence
  BY <1>7, OutsideTheWorker DEF Safe, Closer, Range
<1>8. QED
  BY <1>1, <1>2, <1>3, <1>4, <1>5, <1>6, <1>7 DEF WorkerStep

(* Wherever published evidence goes from where it is, it goes on somewhere.  *)
LEMMA SomewhereStep ==
  ASSUME Safe, Named, NEW g \in shown, Somewhere(g), [Next]_vars
  PROVE  Somewhere(g)'
<1>a. /\ g \in Groups /\ g # NoMessage /\ (Stored(g) => Stored(g)')
      /\ evItems \in Seq(GroupIds)
  BY Grows, PipelineConfigOK DEF Safe, TypeOK, Groups, Stored, EvidenceQ!QueueTypeOK
<1>b. g \in forfeited \/ Stored(g) => Somewhere(g)'
  BY <1>a, Grows DEF Safe, Somewhere
<1>1. CASE PublishEvidence
  <2>1. EvidenceQ!PublishStep(compliance) /\ UNCHANGED <<pending, alert, found>>
    BY <1>1 DEF PublishEvidence, task
  <2>2. CASE evItems' = Append(evItems, evHolding[compliance])
    <3>1. Range(evItems') = Range(evItems) \cup {evHolding[compliance]}
      BY <1>a, <2>1, <2>2, EvidencePublishStep, PutLast DEF Safe
    <3>2. QED
      BY <1>b, <2>1, <3>1 DEF Somewhere
  <2>3. CASE evItems # <<>> /\ evItems' = Tail(evItems) /\ evHolding' = evHolding
    <3>1. Range(evItems) = Range(evItems') \cup {Head(evItems)} /\ Len(evItems') < Len(evItems)
      BY <1>a, <2>3, TakeHead
    <3>2. g = Head(evItems) => g \in forfeited'
      BY <1>1, <1>a, <3>1 DEF PublishEvidence
    <3>3. QED
      BY <1>b, <2>1, <2>3, <3>1, <3>2 DEF Somewhere
  <2>4. CASE evItems' = evItems /\ evHolding' = evHolding
    BY <1>b, <2>1, <2>4 DEF Somewhere, Range
  <2>5. QED
    BY <2>1, <2>2, <2>3, <2>4, EvidencePublishStep DEF Safe
<1>2. CASE LoopHead \/ Look
  <2>1. CASE evItems' = evItems /\ pending' = pending /\ evHolding' = evHolding /\ UNCHANGED <<alert, found>>
    BY <1>b, <2>1 DEF Somewhere, Range
  <2>2. ASSUME NEW taken, DrainEvidence(taken), alert' = alert,
               g \in taken /\ Arrived(g) => found' /\ alert.group = g,
               ~found
        PROVE  Somewhere(g)'
    <3>1. evHolding' = evHolding
      BY <2>2, EvidenceGet DEF Safe
    <3>2. g \in Range(evItems) => g \in Range(evItems') \/ Arrived(g)
      <4>1. CASE evItems = <<>>
        BY <4>1 DEF Range
      <4>2. CASE evItems # <<>>
        <5>1. Range(evItems) = Range(Tail(evItems)) \cup {Head(evItems)}
          BY <1>a, <4>2, TakeHead
        <5>2. QED
          BY <2>2, <4>2, <5>1, EvidenceGet DEF Safe, Arrived
      <4>3. QED
        BY <4>1, <4>2
    <3>3. Arrived(g) /\ g \notin taken => g \in pending'
      BY <2>2 DEF DrainEvidence, Arrived
    <3>4. QED
      BY <1>b, <2>2, <3>1, <3>2, <3>3 DEF Somewhere, Arrived
  <2>3. ~found
    BY <1>2 DEF LoopHead, Look, Safe, Hands, Busy
  <2>4. CASE LoopHead
    <3>1. CASE stop
      BY <2>1, <2>4, <3>1 DEF LoopHead, evTopic, task
    <3>2. CASE ~stop
      BY <2>2, <2>3, <2>4, <3>2 DEF LoopHead, task
    <3>3. QED
      BY <3>1, <3>2
  <2>5. CASE Look
    <3>1. DrainEvidence({alert.group}) /\ alert' = alert /\ (Arrived(alert.group) => found')
      BY <2>5 DEF Look
    <3>2. QED
      BY <2>2, <2>3, <3>1
  <2>6. QED
    BY <1>2, <2>4, <2>5
<1>3. CASE TakeAlert
  <2>1. ~found /\ UNCHANGED <<evItems, evHolding, pending>>
    BY <1>3 DEF TakeAlert, Safe, Hands, Busy, evTopic
  <2>2. QED
    BY <1>b, <2>1 DEF Somewhere, Range
<1>4. CASE Guard \/ WriteFiles \/ Commit
  <2>1. /\ worker \in Busy \ {"look"} /\ alert # NoMessage
        /\ UNCHANGED <<evItems, evHolding, pending>>
    BY <1>4 DEF Guard, WriteFiles, Commit, Attempting, evTopic, Busy, Safe, Hands
  <2>2. ASSUME found, alert.group = g
        PROVE  g \in forfeited' \/ Stored(g)' \/ (found' /\ alert'.group = g)
    <3>1. CASE AttemptFails
      BY <1>a, <2>1, <2>2, <3>1, AttemptFailsCases DEF Safe
    <3>2. CASE Settle /\ ~AttemptFails
      <4>1. alert \in settled' /\ alert.group = g
        BY <2>2, <3>2 DEF Settle
      <4>2. AlertsAccounted'
        BY AccountedStep DEF Safe
      <4>3. QED
        BY <4>1, <4>2 DEF AlertsAccounted
    <3>3. CASE ~AttemptFails /\ ~Settle
      BY <1>4, <2>2, <3>3 DEF Guard, WriteFiles, Commit, task
    <3>4. QED
      BY <3>1, <3>2, <3>3
  <2>3. QED
    BY <1>b, <2>1, <2>2 DEF Somewhere, Range
<1>5. CASE Restart
  <2>1. g \in forfeited' \/ Stored(g)
    BY <1>5, <1>a DEF Restart, Somewhere
  <2>2. QED
    BY <1>b, <2>1 DEF Somewhere
<1>6. CASE ~WorkerStep /\ ~Restart /\ ~PublishEvidence
  <2>1. UNCHANGED <<evItems, pending, alert, found>>
    BY <1>6, OutsideTheWorker DEF Safe
  <2>2. evHolding'[compliance] = evHolding[compliance] \/ evHolding[compliance] = NoMessage
    BY <1>6 DEF Next, ComplianceStep, Raise, AlertFollows, PublishAlert, Stop, vars, evTopic,
       Safe, Hands
  <2>3. QED
    BY <1>a, <1>b, <2>1, <2>2 DEF Somewhere, Range
<1>7. QED
  BY <1>1, <1>2, <1>3, <1>4, <1>5, <1>6 DEF WorkerStep

LEMMA JoinedStep ==
  ASSUME Safe, Joined, MaxSize \in 1..MaxLooks, [Next]_vars
  PROVE  Joined'
<1>1. MaxSize > 0
  BY PipelineConfigOK
<1>2. Named' /\ Ahead' /\ Closer' /\ Len(evItems') <= MaxSize
  BY <1>1, NamedStep, AheadStep, CloserStep, RoomStep DEF Joined
<1>3. ASSUME NEW g \in shown'
      PROVE  Somewhere(g)'
  <2>1. CASE g \in shown
    BY <2>1, SomewhereStep DEF Joined
  <2>2. CASE g \notin shown
    BY <1>3, <2>2, Shows DEF Joined, Safe, Somewhere
  <2>3. QED
    BY <2>1, <2>2
<1>4. worker' = "commit" /\ keyed' => alert'.group \in files'
  <2>1. CASE WriteFiles
    BY <2>1 DEF WriteFiles, Attempting, AttemptFails
  <2>2. CASE WorkerStep /\ ~WriteFiles
    BY <2>2
    DEF WorkerStep, LoopHead, TakeAlert, Look, Guard, Commit, Attempting, Settle, AttemptFails
  <2>3. CASE Restart
    BY <2>3 DEF Restart
  <2>4. CASE ~WorkerStep /\ ~Restart
    <3>1. UNCHANGED <<worker, keyed, alert, files>>
      BY <2>4, OutsideTheWorker DEF Safe, PublishEvidence, task, db
    <3>2. QED
      BY <3>1 DEF Joined
  <2>5. QED
    BY <2>1, <2>2, <2>3, <2>4
<1>5. QED
  BY <1>2, <1>3, <1>4 DEF Joined

LEMMA EvidenceJoinedStep ==
  ASSUME Safe, Joined, EvidenceJoined, [Next]_vars
  PROVE  EvidenceJoined'
<1>1. CASE Commit /\ rows' # rows
  <2>1. /\ worker = "commit" /\ alert # NoMessage /\ files' = files /\ shown' = shown
        /\ rows' = rows \cup {[group |-> alert.group, evidence |-> found, keyed |-> keyed]}
    BY <1>1 DEF Commit, Attempting, Safe, Hands, Busy, engine
  <2>2. alert.group \in shown /\ ~found => alert.group \in forfeited
    <3>1. SUFFICES ASSUME alert.group \in shown, ~found
                   PROVE  alert.group \in forfeited
      OBVIOUS
    <3>2. alert.group \in Groups /\ alert \in InFlight \ {due}
      BY <2>1, <3>1 DEF Safe, TypeOK, Apart, InFlight
    <3>3. /\ ~Stored(alert.group) /\ alert.group # evHolding[compliance]
          /\ alert.group \notin pending \cup Range(evItems)
      BY <2>1, <3>1, <3>2 DEF Safe, InsertNeverCollides, Joined, Ahead, Closer
    <3>4. QED
      BY <3>1, <3>3 DEF Joined, Somewhere
  <2>3. keyed => alert.group \in files
    BY <2>1 DEF Joined
  <2>4. \A r \in rows' : r.group \in shown' /\ ~r.evidence => r.group \in forfeited'
    BY <2>1, <2>2, Grows DEF EvidenceJoined, Safe
  <2>5. \A r \in rows' : r.keyed => r.group \in files'
    BY <2>1, <2>3 DEF EvidenceJoined
  <2>6. QED
    BY <2>4, <2>5 DEF EvidenceJoined
<1>2. CASE rows' = rows
  <2>1. \A r \in rows' : r.keyed => r.group \in files'
    BY <1>2, Grows DEF EvidenceJoined, Safe
  <2>2. ASSUME NEW r \in rows', r.group \in shown', ~r.evidence
        PROVE  r.group \in forfeited'
    <3>1. r \in rows /\ r.group \in used
      BY <1>2, <2>2 DEF Joined, Named
    <3>2. r.group \in shown
      BY <2>2, <3>1, Shows DEF Safe, Joined
    <3>3. QED
      BY <2>2, <3>1, <3>2, Grows DEF EvidenceJoined, Safe
  <2>3. QED
    BY <2>1, <2>2 DEF EvidenceJoined
<1>3. CASE ~Commit
  BY <1>2, <1>3
  DEF Next, WorkerStep, LoopHead, TakeAlert, Look, Guard, WriteFiles, ComplianceStep, Raise,
      PublishEvidence, AlertFollows, PublishAlert, Stop, Restart, vars, db
<1>4. QED
  BY <1>1, <1>2, <1>3

LEMMA JoinedInit ==
  ASSUME Init, MaxSize \in 1..MaxLooks
  PROVE  InsertNeverCollides /\ Joined /\ EvidenceJoined
<1>1. /\ evItems = <<>> /\ InFlight = {} /\ Range(evItems) = {} /\ Len(evItems) = 0
  <2>1. alItems = <<>> /\ alHolding[compliance] = NoMessage /\ evItems = <<>>
    BY DEF Init, AlertQ!QueueInit, EvidenceQ!QueueInit
  <2>2. QED
    BY <2>1, PipelineConfigOK DEF Init, InFlight, Range, Alerts, GroupIds, Groups
<1>2. Joined
  BY <1>1, PipelineConfigOK DEF Init, Joined, Named, Ahead, Closer
<1>3. QED
  BY <1>2 DEF Init, InsertNeverCollides, EvidenceJoined

----------------------------------------------------------------------------
(* Every reachable state is well typed (QueueTypeOK of both topics           *)
(* included), and the hands of the threads agree with where they are.        *)
THEOREM PipelineTyped == Spec => []TypeOK
<1>1. TypeOK /\ Hands /\ [Next]_vars => TypeOK' /\ Hands'
  BY Typing
<1>2. QED
  BY <1>1, TypingInit, PTL DEF Spec

(* persistence_worker.py, _drain_alert_topic and _persist_with_retry: every  *)
(* alert is published, queued, at work, settled, or given up or lost, and in *)
(* one of these places only, for topics of any size (an unbounded one too).  *)
THEOREM NoAlertVanishes == Spec => []AlertsAccounted
<1>1. TypeOK /\ Hands /\ Apart /\ AlertsAccounted /\ [Next]_vars
        => TypeOK' /\ Hands' /\ Apart' /\ AlertsAccounted'
  BY Typing, Moves, AccountedStep
<1>2. QED
  BY <1>1, TypingInit, AccountedInit, PTL DEF Spec

(* _persist_violation: what it inserts is not stored yet, however often the  *)
(* commit is repeated and whoever raised the group before.                   *)
THEOREM NoInsertCollides == Spec => []InsertNeverCollides
<1>1. Init => InsertNeverCollides
  BY DEF Init, InsertNeverCollides
<1>2. TypeOK /\ Hands /\ InsertNeverCollides /\ [Next]_vars
        => TypeOK' /\ Hands' /\ InsertNeverCollides'
  BY Typing, NeverCollidesStep
<1>3. QED
  BY <1>1, <1>2, TypingInit, PTL DEF Spec

(* A worker that looks at least as often as the topic of evidence is long    *)
(* never stores an alert without evidence that was published and not lost.   *)
(* With fewer looks it may (config: ten messages, twenty looks).             *)
THEOREM EvidenceFound == MaxSize \in 1..MaxLooks => (Spec => []EvidenceJoined)
<1> SUFFICES ASSUME MaxSize \in 1..MaxLooks
             PROVE  Spec => []EvidenceJoined
  OBVIOUS
<1>1. Init => Safe /\ Joined /\ EvidenceJoined
  BY TypingInit, AccountedInit, JoinedInit DEF Safe
<1>2. Safe /\ Joined /\ EvidenceJoined /\ [Next]_vars => Safe' /\ Joined' /\ EvidenceJoined'
  BY Typing, Moves, AccountedStep, NeverCollidesStep, JoinedStep, EvidenceJoinedStep DEF Safe
<1>3. QED
  BY <1>1, <1>2, PTL DEF Spec

=============================================================================
