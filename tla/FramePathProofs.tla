--------------------------- MODULE FramePathProofs ---------------------------
(***************************************************************************)
(* The way of a frame, for any number of frames, processes and failing     *)
(* commands: pixels are only missed when they are gone, no frame is in two *)
(* events, and what was fetched is published.                              *)
(*                                                                         *)
(* The pixels of a frame move from the store to the engine to an event and *)
(* are in one of these places at a time; frames are made in the order of   *)
(* process and id, and so are never put a second time.                     *)
(***************************************************************************)
EXTENDS FramePath, SequenceTheorems, FiniteSetTheorems, TLAPS

----------------------------------------------------------------------------
(* What taking and putting do to the elements of a topic *)

(* The elements of a sequence, by their places. *)
LEMMA RangeOfSequence ==
  ASSUME NEW S, NEW q \in Seq(S)
  PROVE  /\ DOMAIN q = 1..Len(q) /\ Len(q) \in Nat
         /\ Range(q) = {q[i] : i \in 1..Len(q)} /\ Range(q) \subseteq S
         /\ IsInjective(q) <=> \A i, j \in 1..Len(q) : q[i] = q[j] => i = j
BY LenProperties, ElementOfSeq DEF Range, IsInjective

(* Taking the head of a sequence moves every other element up by one. *)
LEMMA TakeHead ==
  ASSUME NEW S, NEW q \in Seq(S), q # <<>>
  PROVE  /\ Tail(q) \in Seq(S) /\ Head(q) \in S /\ Head(q) = q[1]
         /\ Len(q) \in Nat \ {0} /\ Len(Tail(q)) = Len(q) - 1
         /\ \A i \in 1..Len(Tail(q)) : Tail(q)[i] = q[i + 1]
         /\ Range(q) = Range(Tail(q)) \cup {Head(q)}
<1>1. /\ Tail(q) \in Seq(S) /\ Head(q) \in S /\ Head(q) = q[1]
      /\ Len(q) \in Nat \ {0} /\ Len(Tail(q)) = Len(q) - 1
      /\ \A i \in 1..Len(Tail(q)) : Tail(q)[i] = q[i + 1]
  BY HeadTailProperties, EmptySeq, LenProperties
<1>a. /\ Range(q) = {q[i] : i \in 1..Len(q)}
      /\ Range(Tail(q)) = {Tail(q)[i] : i \in 1..Len(Tail(q))}
  <2>1. Tail(q) \in Seq(S)
    BY <1>1
  <2>2. QED
    BY <2>1, RangeOfSequence, Zenon
<1>2. ASSUME NEW x \in Range(q)
      PROVE  x \in Range(Tail(q)) \cup {Head(q)}
  <2>1. PICK i \in 1..Len(q) : x = q[i]
    BY <1>a
  <2>2. CASE i = 1
    BY <1>1, <2>1, <2>2
  <2>3. CASE i # 1
    <3>1. i - 1 \in 1..Len(Tail(q)) /\ x = Tail(q)[i - 1]
      BY <1>1, <2>1, <2>3
    <3>2. QED
      BY <3>1, <1>a
  <2>4. QED
    BY <2>2, <2>3
<1>3. ASSUME NEW x \in Range(Tail(q)) \cup {Head(q)}
      PROVE  x \in Range(q)
  <2>1. CASE x = Head(q)
    BY <1>1, <2>1, <1>a
  <2>2. CASE x # Head(q)
    <3>1. PICK i \in 1..Len(Tail(q)) : x = Tail(q)[i]
      BY <2>2, <1>a
    <3>2. i + 1 \in 1..Len(q) /\ x = q[i + 1]
      BY <1>1, <3>1
    <3>3. QED
      BY <3>2, <1>a
  <2>3. QED
    BY <2>1, <2>2
<1>4. QED
  BY <1>1, <1>2, <1>3

(* Appending adds one element behind the others. *)
LEMMA PutLast ==
  ASSUME NEW S, NEW q \in Seq(S), NEW x \in S
  PROVE  /\ Append(q, x) \in Seq(S) /\ Len(Append(q, x)) = Len(q) + 1 /\ Len(q) \in Nat
         /\ \A i \in 1..Len(q) : Append(q, x)[i] = q[i]
         /\ Append(q, x)[Len(q) + 1] = x
         /\ Range(Append(q, x)) = Range(q) \cup {x}
<1>1. /\ Append(q, x) \in Seq(S) /\ Len(Append(q, x)) = Len(q) + 1 /\ Len(q) \in Nat
      /\ \A i \in 1..Len(q) : Append(q, x)[i] = q[i]
      /\ Append(q, x)[Len(q) + 1] = x
  BY AppendProperties, LenProperties
<1>2. Range(Append(q, x)) = Range(q) \cup {x}
  <2>1. /\ Range(q) = {q[i] : i \in 1..Len(q)}
        /\ Range(Append(q, x)) = {Append(q, x)[i] : i \in 1..Len(Append(q, x))}
    BY <1>1, RangeOfSequence
  <2>2. 1..Len(Append(q, x)) = (1..Len(q)) \cup {Len(q) + 1}
    BY <1>1
  <2>3. QED
    BY <1>1, <2>1, <2>2
<1>3. QED
  BY <1>1, <1>2

----------------------------------------------------------------------------
(* The parts of the inductive invariant *)

(* The envelopes on their way, the frame whose envelope is still to be sent *)
(* and the pixels in the engine.                                            *)
Envelope == {envelope} \ {Nothing}
Travelling == Range(topic) \cup again \cup Envelope
Waiting == {f \in {Current} : stored}
InEngine == {frame} \ {Nothing}
InStore(f) == f.id \in DOMAIN store /\ store[f.id].frame = f

(* What the locals of the two threads say of each other. *)
Locals ==
  /\ at = "down" => boot < MaxBoots /\ ~stored
  /\ stored => nextId > 0
  /\ at = "models" => todo > 0
  /\ InEngine \subseteq fetched

(* A failing command costs at most one event, and only in Redis. *)
Counted ==
  /\ IsFiniteSet(dropped) /\ Cardinality(dropped) <= fails
  /\ dropped # {} => setup.durable

(* A frame whose envelope is under way was put, or could not be. *)
PutFirst == \A f \in Travelling \cup Waiting : f \in gone \/ InStore(f)

(* In memory nothing of an earlier process is left. *)
OwnOnly ==
  ~setup.durable =>
    /\ \A f \in Travelling : f.boot = boot /\ at # "down"
    /\ \A f \in Frames : InStore(f) => f.boot = boot /\ at # "down"

(* This process, or an earlier one, has made the frame ... *)
Made(f) == f.boot < boot \/ (f.boot = boot /\ (at = "down" \/ f.id <= nextId))
(* ... and sent its envelope. *)
Past(f) == Made(f) /\ (stored /\ f.boot = boot /\ at # "down" => f.id < nextId)

(* Pixels are in the store, in the engine or in one event. *)
OnePlace ==
  /\ \A f \in Frames : InStore(f) => Made(f)
  /\ \A f \in InEngine \cup Published : Made(f)
  /\ \A f \in InEngine \cup Published : ~InStore(f)
  /\ InEngine \cap Published = {}
  /\ \A k, l \in DOMAIN events : events[k].frame = events[l].frame => k = l

InOrder(q) == \A i, j \in 1..Len(q) : i < j => Before(q[i], q[j])

(* In memory the frames are handled in the order in which they were made. *)
Ordered ==
  ~setup.durable =>
    /\ \A f \in Travelling \cup Published : Past(f)
    /\ \A k, l \in DOMAIN events : k < l => Before(events[k].frame, events[l].frame)
    /\ \A f \in Published, g \in Range(topic) \cup Envelope : Before(f, g)
    /\ \A f \in Envelope, g \in Range(topic) : Before(f, g)
    /\ InOrder(topic)

IInv == TypeOK /\ Locals /\ Counted /\ PutFirst /\ OwnOnly /\ OnePlace /\ Ordered
        /\ FramesExplained /\ FetchedIsPublished

(* Frames are records, distinguished by process and id. *)
LEMMA FrameIdentity ==
  /\ Nothing \notin Frames
  /\ \A f \in Frames : f.boot \in 1..MaxBoots /\ f.id \in Ids
  /\ \A f, g \in Frames : f.boot = g.boot /\ f.id = g.id => f = g
BY FramePathConfigOK DEF Frames, Ids

StoreTyped ==
  /\ DOMAIN store \subseteq Ids
  /\ \A i \in DOMAIN store : store[i] \in [frame : Frames, since : 0..now] /\ store[i].frame.id = i
  /\ gone \subseteq Frames

(* What put() and get() do to the store: pixels that leave it are gone.     *)
LEMMA PutEffect ==
  ASSUME StoreTyped, now \in Nat, now' = now, NEW f \in Frames, Put(f)
  PROVE  /\ StoreTyped' /\ gone \subseteq gone'
         /\ f.id \in DOMAIN store' /\ store'[f.id].frame = f
         /\ \A g \in Frames : InStore(g)' => g = f \/ InStore(g)
         /\ \A g \in Frames : InStore(g) => InStore(g)' \/ g \in gone'
<1> DEFINE lost == Expired \cup (DOMAIN store \cap {f.id})
<1>1. /\ DOMAIN store' = (DOMAIN store \ lost) \cup {f.id}
      /\ \A i \in DOMAIN store' :
           store'[i] = IF i = f.id THEN [frame |-> f, since |-> now] ELSE store[i]
      /\ gone' = gone \cup {store[i].frame : i \in lost}
      /\ lost \subseteq DOMAIN store /\ f.id \in Ids
      /\ f.id \in DOMAIN store => f.id \in lost
  BY FrameIdentity DEF Put, Stored, Expired
<1>2. gone' \subseteq Frames /\ gone \subseteq gone'
  BY <1>1 DEF StoreTyped
<1>3. DOMAIN store' \subseteq Ids
  BY <1>1 DEF StoreTyped
<1>4. ASSUME NEW i \in DOMAIN store'
      PROVE  store'[i] \in [frame : Frames, since : 0..now] /\ store'[i].frame.id = i
  <2>1. CASE i = f.id
    BY <1>1, <2>1
  <2>2. CASE i # f.id
    BY <1>1, <2>2 DEF StoreTyped
  <2>3. QED
    BY <2>1, <2>2
<1>5. f.id \in DOMAIN store' /\ store'[f.id].frame = f
  BY <1>1
<1>6. ASSUME NEW g \in Frames, InStore(g)'
      PROVE  g = f \/ InStore(g)
  BY <1>1, <1>6 DEF InStore
<1>7. ASSUME NEW g \in Frames, InStore(g), ~InStore(g)'
      PROVE  g \in gone'
  BY <1>1, <1>7 DEF InStore
<1>8. QED
  BY <1>2, <1>3, <1>4, <1>5, <1>6, <1>7 DEF StoreTyped

LEMMA TakeEffect ==
  ASSUME StoreTyped, now' = now, NEW id, Take(id)
  PROVE  /\ StoreTyped' /\ gone \subseteq gone' /\ gone' = gone \cup Stored(DOMAIN store \cap {id})
         /\ \A g \in Frames : InStore(g)' => InStore(g) /\ g.id # id
         /\ \A g \in Frames : InStore(g) => InStore(g)' \/ g \in gone'
<1>1. /\ DOMAIN store' = DOMAIN store \ {id}
      /\ \A i \in DOMAIN store' : store'[i] = store[i]
      /\ gone' = gone \cup {store[i].frame : i \in DOMAIN store \cap {id}}
  BY DEF Take, Without, Stored
<1>2. StoreTyped' /\ gone \subseteq gone'
  BY <1>1 DEF StoreTyped
<1>3. \A g \in Frames : InStore(g)' => InStore(g) /\ g.id # id
  BY <1>1 DEF InStore
<1>4. \A g \in Frames : InStore(g) => InStore(g)' \/ g \in gone'
  BY <1>1 DEF InStore
<1>5. QED
  BY <1>1, <1>2, <1>3, <1>4 DEF Stored

(* Elements of the sets the invariant speaks of. *)
LEMMA Members ==
  ASSUME TypeOK, Locals
  PROVE  /\ Travelling \subseteq Frames /\ Waiting \subseteq Frames /\ InEngine \subseteq Frames
         /\ Published \subseteq Frames /\ StoreTyped /\ Envelope \subseteq Frames
         /\ Range(topic) \subseteq Frames
         /\ Published = {events[k].frame : k \in DOMAIN events}
         /\ \A f \in Frames : InStore(f) => store[f.id].frame = f /\ f.id \in DOMAIN store
         /\ nextId \in 0..MaxFrames /\ boot \in 1..MaxBoots /\ now \in Nat
         /\ (stored => Current \in Frames)
<1>1. topic \in Seq(Frames)
  BY DEF TypeOK
<1>2. Range(topic) \subseteq Frames
  BY <1>1, RangeOfSequence
<1>3. Current \in Frames \/ ~stored
  <2>1. stored => nextId \in Ids
    BY FramePathConfigOK DEF TypeOK, Locals, Ids
  <2>2. QED
    BY <2>1 DEF Current, Frames, TypeOK
<1>4. Published \subseteq Frames
  <2>1. events \in Seq([envelope : Frames, frame : Frames, thumbnail : BOOLEAN])
    BY DEF TypeOK
  <2>2. \A k \in DOMAIN events : events[k] \in [envelope : Frames, frame : Frames, thumbnail : BOOLEAN]
    BY <2>1, ElementOfSeq, LenProperties
  <2>3. QED
    BY <2>2 DEF Published
<1>5. Envelope \subseteq Frames /\ InEngine \subseteq Frames
  BY DEF Envelope, InEngine, TypeOK
<1>6. Travelling \subseteq Frames
  BY <1>2, <1>5 DEF Travelling, TypeOK
<1>7. Waiting \subseteq Frames
  BY <1>3 DEF Waiting
<1>8. StoreTyped
  BY DEF StoreTyped, TypeOK
<1>9. nextId \in 0..MaxFrames /\ boot \in 1..MaxBoots /\ now \in Nat
  BY FramePathConfigOK DEF TypeOK
<1>10. QED
  BY <1>2, <1>3, <1>4, <1>5, <1>6, <1>7, <1>8, <1>9 DEF Published, InStore

(* Commands only fail more often, so that a step which publishes nothing    *)
(* keeps the count of the events that were lost.                            *)
LEMMA CountKept ==
  ASSUME IInv, dropped' = dropped, setup' = setup,
         fails' \in {fails, fails + 1}
  PROVE  Counted' /\ fails' \in Nat
<1>1. fails \in Nat
  BY FramePathConfigOK DEF IInv, TypeOK
<1>2. IsFiniteSet(dropped) /\ Cardinality(dropped) <= fails /\ Cardinality(dropped) \in Nat
  BY FS_CardinalityType DEF IInv, Counted
<1>3. IsFiniteSet(dropped') /\ Cardinality(dropped') = Cardinality(dropped)
  BY <1>2
<1>4. Cardinality(dropped') <= fails'
  BY <1>1, <1>2, <1>3
<1>5. dropped' # {} => setup'.durable
  BY DEF IInv, Counted
<1>6. QED
  BY <1>1, <1>3, <1>4, <1>5 DEF Counted

(* The publisher puts the pixels of the next frame, or fails to.            *)
LEMMA StoreFrameStep ==
  ASSUME IInv, PublishFrame, ~stored
  PROVE  IInv'
<1>1. /\ nextId' = nextId + 1 /\ nextId' \in Ids /\ stored' = TRUE /\ stored = FALSE /\ at # "down"
      /\ UNCHANGED <<setup, boot, now, again, worker, events, missed, fetched, dropped,
                     cut, topic>>
      /\ StoreFrame([boot |-> boot, id |-> nextId'])
  <2>1. nextId < MaxFrames /\ nextId' = nextId + 1 /\ nextId \in 0..MaxFrames
    BY FramePathConfigOK DEF PublishFrame, IInv, TypeOK
  <2>2. stored = FALSE /\ stored' = TRUE
    BY DEF PublishFrame, IInv, TypeOK
  <2>3. nextId' \in Ids
    BY <2>1, FramePathConfigOK DEF Ids
  <2>4. QED
    BY <2>1, <2>2, <2>3 DEF PublishFrame
<1>2. PICK f \in Frames : f = Current' /\ f.boot = boot /\ f.id = nextId' /\ StoreFrame(f)
  <2>1. Current' \in Frames /\ Current' = [boot |-> boot, id |-> nextId']
    BY <1>1 DEF Frames, IInv, TypeOK, Current
  <2>2. QED
    BY <1>1, <2>1
<1>3. /\ nextId \in Nat /\ boot \in Nat /\ now \in Nat /\ StoreTyped /\ now' = now
      /\ Travelling \subseteq Frames /\ InEngine \subseteq Frames /\ Published \subseteq Frames
  BY <1>1, Members DEF IInv
<1>4. fails' \in 0..MaxFailures /\ fails' \in {fails, fails + 1}
  BY FramePathConfigOK, <1>1 DEF StoreFrame, Fails, Works, IInv, TypeOK
<1>5. /\ StoreTyped' /\ gone \subseteq gone'
      /\ \A g \in Frames : InStore(g)' => g = f \/ InStore(g)
      /\ \A g \in Frames : InStore(g) => InStore(g)' \/ g \in gone'
      /\ f \in gone' \/ (f.id \in DOMAIN store' /\ store'[f.id].frame = f)
  <2>1. CASE Put(f)
    BY <1>2, <1>3, <2>1, PutEffect
  <2>2. CASE PutFails(f)
    BY <1>2, <1>3, <2>2 DEF PutFails, StoreTyped, InStore
  <2>3. QED
    BY <1>2, <2>1, <2>2 DEF StoreFrame
<1>6. /\ Travelling' = Travelling /\ InEngine' = InEngine /\ Published' = Published
      /\ Envelope' = Envelope /\ Waiting' = {f}
  BY <1>1, <1>2 DEF Travelling, InEngine, Published, Envelope, Waiting, worker
<1>7. TypeOK'
  <2>1. nextId' \in 0..MaxFrames /\ stored' \in BOOLEAN
    BY <1>1, FramePathConfigOK DEF Ids
  <2>2. gone' \subseteq Frames /\ fetched' \subseteq gone'
    BY <1>1, <1>5 DEF StoreTyped, IInv, TypeOK
  <2>3. QED
    BY <1>1, <1>4, <1>5, <2>1, <2>2 DEF IInv, TypeOK, StoreTyped, worker
<1>8. Locals'
  <2>1. nextId' > 0
    BY <1>1, <1>3
  <2>2. QED
    BY <1>1, <1>6, <2>1 DEF IInv, Locals, worker
<1>9. PutFirst'
  <2>1. ASSUME NEW g \in Travelling
        PROVE  g \in gone' \/ InStore(g)'
    BY <1>3, <1>5 DEF IInv, PutFirst
  <2>2. QED
    BY <1>5, <1>6, <2>1 DEF PutFirst, InStore
<1>10. OwnOnly'
  BY <1>1, <1>2, <1>5, <1>6 DEF IInv, OwnOnly, worker
<1>11. /\ \A g \in Frames : Made(g) => Made(g)'
       /\ \A g \in Frames : Past(g) => Past(g)'
       /\ ~Made(f) /\ Made(f)'
  <2>1. boot' = boot /\ at' = at /\ at # "down" /\ stored' /\ ~stored /\ nextId' = nextId + 1
    BY <1>1 DEF worker
  <2>2. \A g \in Frames : g.id \in Nat /\ g.boot \in Nat
    BY FrameIdentity DEF Ids
  <2>4. \A g \in Frames : Made(g) => Made(g)' /\ (g.boot = boot => g.id < nextId')
    BY <1>3, <2>1, <2>2 DEF Made
  <2>5. ~Made(f) /\ Made(f)'
    BY <1>2, <1>3, <2>1, <2>2 DEF Made
  <2>6. QED
    BY <2>1, <2>4, <2>5 DEF Past
<1>12. OnePlace'
  <2>1. f \notin InEngine \cup Published
    BY <1>11 DEF IInv, OnePlace
  <2>2. \A g \in Frames : InStore(g)' => Made(g)'
    BY <1>5, <1>11 DEF IInv, OnePlace
  <2>3. \A g \in InEngine \cup Published : Made(g)' /\ ~InStore(g)'
    BY <1>3, <1>5, <1>11, <2>1 DEF IInv, OnePlace
  <2>4. QED
    BY <1>1, <1>6, <2>2, <2>3 DEF IInv, OnePlace
<1>13. Ordered'
  <2>1. \A g \in Travelling \cup Published : Past(g) => Past(g)'
    BY <1>3, <1>11
  <2>2. QED
    BY <1>1, <1>6, <2>1 DEF IInv, Ordered, Before
<1>14. Counted'
  BY <1>1, <1>4, CountKept
<1>15. FramesExplained' /\ FetchedIsPublished'
  BY <1>1, <1>5, <1>6, <1>14 DEF IInv, FramesExplained, FetchedIsPublished, Counted, worker
<1>16. QED
  BY <1>7, <1>8, <1>9, <1>10, <1>12, <1>13, <1>14, <1>15 DEF IInv

LEMMA OrderedTail ==
  ASSUME NEW q \in Seq(Frames), q # <<>>, InOrder(q)
  PROVE  InOrder(Tail(q)) /\ \A g \in Range(Tail(q)) : Before(Head(q), g)
<1>1. /\ Tail(q) \in Seq(Frames) /\ Head(q) = q[1] /\ Len(q) \in Nat \ {0}
      /\ Len(Tail(q)) = Len(q) - 1
      /\ \A i \in 1..Len(Tail(q)) : Tail(q)[i] = q[i + 1]
  BY TakeHead
<1>2. Range(Tail(q)) = {Tail(q)[i] : i \in 1..Len(Tail(q))}
  <2>1. Tail(q) \in Seq(Frames)
    BY <1>1
  <2>2. QED
    BY <2>1, RangeOfSequence, Zenon
<1>3. ASSUME NEW i \in 1..Len(Tail(q)), NEW j \in 1..Len(Tail(q)), i < j
      PROVE  Before(Tail(q)[i], Tail(q)[j])
  <2>1. i + 1 \in 1..Len(q) /\ j + 1 \in 1..Len(q) /\ i + 1 < j + 1
    BY <1>1, <1>3
  <2>2. QED
    BY <1>1, <2>1 DEF InOrder
<1>4. ASSUME NEW i \in 1..Len(Tail(q))
      PROVE  Before(Head(q), Tail(q)[i])
  <2>1. 1 \in 1..Len(q) /\ i + 1 \in 1..Len(q) /\ 1 < i + 1
    BY <1>1
  <2>2. QED
    BY <1>1, <2>1 DEF InOrder
<1>5. QED
  BY <1>2, <1>3, <1>4 DEF InOrder

LEMMA OrderedAppend ==
  ASSUME NEW q \in Seq(Frames), NEW f \in Frames, InOrder(q),
         \A g \in Range(q) : Before(g, f)
  PROVE  InOrder(Append(q, f))
<1>1. /\ Len(Append(q, f)) = Len(q) + 1 /\ Len(q) \in Nat
      /\ \A i \in 1..Len(q) : Append(q, f)[i] = q[i]
      /\ Append(q, f)[Len(q) + 1] = f
  BY PutLast
<1>2. Range(q) = {q[i] : i \in 1..Len(q)}
  BY RangeOfSequence
<1>3. ASSUME NEW i \in 1..(Len(q) + 1), NEW j \in 1..(Len(q) + 1), i < j
      PROVE  Before(Append(q, f)[i], Append(q, f)[j])
  <2>1. CASE j \in 1..Len(q)
    <3>1. i \in 1..Len(q)
      BY <1>1, <1>3, <2>1
    <3>2. QED
      BY <1>1, <1>3, <2>1, <3>1 DEF InOrder
  <2>2. CASE j = Len(q) + 1
    <3>1. i \in 1..Len(q)
      BY <1>1, <1>3, <2>2
    <3>2. QED
      BY <1>1, <1>2, <2>2, <3>1
  <2>3. QED
    BY <1>1, <1>3, <2>1, <2>2
<1>4. QED
  BY <1>1, <1>3 DEF InOrder

(* What becomes of a topic to which an envelope is sent. *)
LEMMA SendEffect ==
  ASSUME TypeOK, NEW f \in Frames, SendEnvelope(f)
  PROVE  /\ topic' \in Seq(Frames) /\ Range(topic') \subseteq Range(topic) \cup {f}
         /\ fails' \in 0..MaxFailures /\ fails' \in {fails, fails + 1}
         /\ ~setup.durable => Len(topic') <= MaxSize
         /\ (InOrder(topic) /\ \A g \in Range(topic) : Before(g, f)) => InOrder(topic')
<1>1. topic \in Seq(Frames) /\ Len(topic) \in Nat /\ MaxSize \in Nat \ {0}
  BY FramePathConfigOK, LenProperties DEF TypeOK
<1>2. fails' \in 0..MaxFailures /\ fails' \in {fails, fails + 1}
  BY FramePathConfigOK DEF SendEnvelope, Fails, Works, TypeOK
<1>3. CASE topic' = topic
  BY <1>1, <1>2, <1>3 DEF TypeOK
<1>4. CASE topic' = Append(IF ~setup.durable /\ Len(topic) = MaxSize THEN Tail(topic) ELSE topic, f)
  <2>1. PICK q \in {topic, Tail(topic)} :
          /\ topic' = Append(q, f) /\ (q # topic => topic # <<>>)
          /\ ~setup.durable => Len(q) < MaxSize
    <3>1. CASE ~setup.durable /\ Len(topic) = MaxSize
      <4>1. topic # <<>>
        BY <1>1, <3>1, EmptySeq
      <4>2. Len(Tail(topic)) = Len(topic) - 1
        BY <1>1, <4>1, TakeHead
      <4>3. Len(Tail(topic)) < MaxSize
        BY <1>1, <3>1, <4>2
      <4>4. QED
        BY <1>4, <3>1, <4>1, <4>3
    <3>2. CASE ~(~setup.durable /\ Len(topic) = MaxSize)
      <4>1. ~setup.durable => Len(topic) < MaxSize
        <5>1. ~setup.durable => Len(topic) <= MaxSize /\ Len(topic) # MaxSize
          BY <3>2 DEF TypeOK
        <5>2. QED
          BY <1>1, <5>1
      <4>2. QED
        BY <1>4, <3>2, <4>1
    <3>3. QED
      BY <3>1, <3>2
  <2>2. q \in Seq(Frames) /\ Range(q) \subseteq Range(topic) /\ (InOrder(topic) => InOrder(q))
    <3>1. CASE q = topic
      BY <1>1, <3>1
    <3>2. CASE q # topic
      <4>1. q = Tail(topic) /\ topic # <<>>
        BY <2>1, <3>2
      <4>2. Range(topic) = Range(Tail(topic)) \cup {Head(topic)} /\ Tail(topic) \in Seq(Frames)
        BY <1>1, <4>1, TakeHead
      <4>3. InOrder(topic) => InOrder(Tail(topic))
        BY <1>1, <4>1, OrderedTail
      <4>4. QED
        BY <4>1, <4>2, <4>3
    <3>3. QED
      BY <3>1, <3>2
  <2>3. q \in Seq(Frames)
    BY <2>2
  <2>4. /\ topic' \in Seq(Frames) /\ Len(topic') = Len(q) + 1 /\ Len(q) \in Nat
        /\ Range(topic') = Range(q) \cup {f}
    BY <2>1, <2>3, PutLast
  <2>5. ~setup.durable => Len(topic') <= MaxSize
    BY <1>1, <2>1, <2>4
  <2>6. (InOrder(topic) /\ \A g \in Range(topic) : Before(g, f)) => InOrder(topic')
    BY <2>1, <2>2, <2>3, OrderedAppend
  <2>7. QED
    BY <1>2, <2>2, <2>4, <2>5, <2>6
<1>5. QED
  BY <1>3, <1>4 DEF SendEnvelope

(* The publisher sends the envelope of the frame it has put.                *)
LEMMA SendStep ==
  ASSUME IInv, PublishFrame, stored
  PROVE  IInv'
<1>1. /\ stored = TRUE /\ stored' = FALSE /\ at # "down" /\ SendEnvelope(Current)
      /\ UNCHANGED <<nextId, store, gone, setup, boot, now, again, worker, events, missed,
                     fetched, dropped, cut>>
  BY DEF PublishFrame, IInv, TypeOK
<1>2. PICK f \in Frames : f = Current /\ f.boot = boot /\ f.id = nextId /\ SendEnvelope(f)
  <2>1. Current \in Frames /\ Current.boot = boot /\ Current.id = nextId
    BY <1>1, Members DEF IInv, Current
  <2>2. QED
    BY <1>1, <2>1
<1>3. /\ topic' \in Seq(Frames) /\ Range(topic') \subseteq Range(topic) \cup {f}
      /\ fails' \in 0..MaxFailures /\ fails' \in {fails, fails + 1}
      /\ ~setup.durable => Len(topic') <= MaxSize
      /\ (InOrder(topic) /\ \A g \in Range(topic) : Before(g, f)) => InOrder(topic')
  BY <1>2, SendEffect DEF IInv
<1>4. /\ Travelling' \subseteq Travelling \cup {f} /\ InEngine' = InEngine
      /\ Published' = Published /\ Envelope' = Envelope /\ Waiting' = {} /\ Waiting = {f}
      /\ \A g \in Frames : InStore(g)' <=> InStore(g)
  BY <1>1, <1>2, <1>3 DEF Travelling, InEngine, Published, Envelope, Waiting, worker, InStore
<1>5. TypeOK'
  BY <1>1, <1>3 DEF IInv, TypeOK, worker
<1>6. Locals'
  BY <1>1, <1>4 DEF IInv, Locals, worker
<1>7. PutFirst'
  <2>1. \A g \in Travelling \cup {f} : g \in gone \/ InStore(g)
    BY <1>4 DEF IInv, PutFirst
  <2>2. Travelling \subseteq Frames
    BY Members DEF IInv
  <2>3. \A g \in Travelling \cup {f} : g \in gone' \/ InStore(g)'
    BY <1>1, <1>4, <2>1, <2>2
  <2>4. QED
    BY <1>4, <2>3 DEF PutFirst
<1>8. OwnOnly'
  BY <1>1, <1>2, <1>4 DEF IInv, OwnOnly, worker
<1>9. \A g \in Frames : Made(g)' <=> Made(g)
  BY <1>1 DEF Made, worker
<1>10. OnePlace'
  <2>1. InEngine \subseteq Frames /\ Published \subseteq Frames
    BY Members DEF IInv
  <2>2. QED
    BY <1>1, <1>4, <1>9, <2>1 DEF IInv, OnePlace
<1>11. ASSUME ~setup.durable
       PROVE  /\ \A g \in Travelling' \cup Published : Past(g)' 
              /\ \A g \in Published : Before(g, f)
              /\ \A g \in Envelope : Before(g, f)
              /\ \A g \in Range(topic) : Before(g, f)
  <2>1. /\ Travelling \subseteq Frames /\ Published \subseteq Frames
        /\ Envelope \subseteq Travelling /\ Range(topic) \subseteq Travelling
    BY Members DEF IInv, Travelling
  <2>2. \A g \in Travelling \cup Published : Past(g)
    BY <1>11 DEF IInv, Ordered
  <2>3. \A g \in Travelling \cup Published : Before(g, f)
    BY <1>1, <1>2, <2>2 DEF Past, Made, Before
  <2>4. \A g \in Travelling \cup Published : Past(g)'
    BY <1>1, <1>9, <2>1, <2>2 DEF Past
  <2>5. Made(f)' /\ ~stored'
    <3>1. f.boot = boot' /\ f.id = nextId' /\ nextId \in Nat
      BY <1>1, <1>2, FramePathConfigOK DEF IInv, TypeOK
    <3>2. f.id <= nextId'
      BY <3>1, <1>1
    <3>3. QED
      BY <1>1, <3>1, <3>2 DEF Made
  <2>6. Past(f)'
    BY <2>5 DEF Past
  <2>7. QED
    BY <1>4, <2>1, <2>3, <2>4, <2>6
<1>12. Ordered'
  BY <1>1, <1>3, <1>4, <1>11 DEF IInv, Ordered
<1>13. Counted'
  BY <1>1, <1>3, CountKept
<1>14. FramesExplained' /\ FetchedIsPublished'
  BY <1>1, <1>4, <1>13 DEF IInv, FramesExplained, FetchedIsPublished, Counted, worker
<1>15. QED
  BY <1>5, <1>6, <1>7, <1>8, <1>10, <1>12, <1>13, <1>14 DEF IInv

(* Steps inside the engine's work on one frame, and time.                   *)
LEMMA LocalStep ==
  ASSUME IInv, TypeOK', Locals', at' = "down" <=> at = "down",
         UNCHANGED <<setup, boot, fails, publisher, topic, again, store, envelope, frame, events,
                     history>>
  PROVE  IInv'
<1>1. /\ Travelling' = Travelling /\ Waiting' = Waiting /\ InEngine' = InEngine
      /\ Published' = Published /\ Envelope' = Envelope
      /\ \A f \in Frames : InStore(f)' <=> InStore(f)
  BY DEF Travelling, Waiting, InEngine, Published, Envelope, InStore, publisher, Current
<1>2. \A f \in Frames : (Made(f)' <=> Made(f)) /\ (Past(f)' <=> Past(f))
  BY DEF Made, Past, publisher
<1>3. /\ Travelling \subseteq Frames /\ Waiting \subseteq Frames /\ InEngine \subseteq Frames
      /\ Published \subseteq Frames
  BY Members DEF IInv
<1>4. PutFirst'
  BY <1>1, <1>3 DEF IInv, PutFirst, history
<1>5. OwnOnly'
  BY <1>1 DEF IInv, OwnOnly
<1>6. OnePlace'
  BY <1>1, <1>2, <1>3 DEF IInv, OnePlace
<1>7. Ordered'
  BY <1>1, <1>2, <1>3 DEF IInv, Ordered, InOrder
<1>8. Counted'
  BY CountKept DEF history
<1>9. FramesExplained' /\ FetchedIsPublished'
  BY <1>1, <1>8 DEF IInv, FramesExplained, FetchedIsPublished, Counted, history
<1>10. QED
  BY <1>4, <1>5, <1>6, <1>7, <1>8, <1>9 DEF IInv

(* The inference thread takes an envelope.                                  *)
LEMMA ReceiveStep ==
  ASSUME IInv, NEW e \in Frames, Receive(e), e \in Range(topic) \cup again,
         UNCHANGED <<setup, boot, now, publisher, store, events, history>>,
         again' \subseteq again \cup Range(topic), ~setup.durable => again' = {},
         fails' \in 0..MaxFailures, fails' \in {fails, fails + 1}, topic' \in Seq(Frames),
         Range(topic') \subseteq Range(topic), ~setup.durable => Len(topic') <= MaxSize,
         ~setup.durable /\ InOrder(topic) =>
           InOrder(topic') /\ \A g \in Range(topic') : Before(e, g)
  PROVE  IInv'
<1>1. /\ at = "get" /\ at' = "fetch" /\ envelope' = e /\ frame = Nothing /\ frame' = Nothing
      /\ envelope = Nothing /\ todo' = todo /\ shown' = shown
  BY DEF Receive, Idle, IInv, TypeOK
<1>2. /\ Travelling \subseteq Frames /\ Waiting \subseteq Frames /\ InEngine \subseteq Frames
      /\ Published \subseteq Frames /\ again \subseteq Frames /\ Nothing \notin Frames
  BY Members, FrameIdentity DEF IInv, TypeOK
<1>3. /\ Travelling' \subseteq Travelling /\ Waiting' = Waiting /\ InEngine' = InEngine
      /\ Published' = Published /\ Envelope' = {e} /\ Envelope = {}
      /\ Range(topic') \subseteq Travelling /\ e \in Travelling
      /\ \A f \in Frames : InStore(f)' <=> InStore(f)
  BY <1>1, <1>2
  DEF Travelling, Waiting, InEngine, Published, Envelope, InStore, publisher, Current
<1>4. \A f \in Frames : (Made(f)' <=> Made(f)) /\ (Past(f)' <=> Past(f))
  BY <1>1 DEF Made, Past, publisher
<1>5. TypeOK'
  <2>1. again' \subseteq Frames
    BY <1>2, Members DEF IInv
  <2>2. QED
    BY <1>1, <1>2, <2>1 DEF IInv, TypeOK, publisher, history
<1>6. Locals'
  BY <1>1, <1>3 DEF IInv, Locals, publisher, history
<1>7. PutFirst'
  BY <1>2, <1>3 DEF IInv, PutFirst, history
<1>8. OwnOnly'
  BY <1>1, <1>3 DEF IInv, OwnOnly
<1>9. OnePlace'
  BY <1>2, <1>3, <1>4 DEF IInv, OnePlace
<1>10. Ordered'
  <2>1. ASSUME ~setup.durable
        PROVE  /\ \A f \in Travelling' \cup Published' : Past(f)'
               /\ \A f \in Published, g \in Range(topic') \cup {e} : Before(f, g)
               /\ \A g \in Range(topic') : Before(e, g)
               /\ InOrder(topic')
    <3>1. again = {} /\ e \in Range(topic)
      BY <2>1 DEF IInv, TypeOK
    <3>2. \A f \in Travelling \cup Published : Past(f)'
      BY <1>2, <1>4, <2>1 DEF IInv, Ordered
    <3>3. QED
      BY <1>3, <2>1, <3>1, <3>2 DEF IInv, Ordered
  <2>2. QED
    BY <1>3, <2>1 DEF IInv, Ordered
<1>11. Counted'
  BY CountKept DEF history
<1>12. FramesExplained' /\ FetchedIsPublished'
  BY <1>1, <1>3, <1>11 DEF IInv, FramesExplained, FetchedIsPublished, Counted, history
<1>13. QED
  BY <1>5, <1>6, <1>7, <1>8, <1>9, <1>10, <1>11, <1>12 DEF IInv

(* The engine gives an envelope up: there are no models, no pixels, an      *)
(* exception, or an event that could not be added.  The store may have lost *)
(* what it looked for.                                                      *)
LEMMA GiveUpStep ==
  ASSUME IInv, Done, at # "down",
         UNCHANGED <<setup, boot, now, publisher, topic, again, events, fetched, cut>>,
         fails' \in 0..MaxFailures, Counted', dropped \subseteq dropped', dropped' \subseteq fetched,
         StoreTyped', gone \subseteq gone',
         \A f \in Frames : InStore(f)' => InStore(f),
         \A f \in Frames : InStore(f) => InStore(f)' \/ f \in gone',
         missed' \subseteq gone',
         frame = Nothing \/ (setup.draw /\ ~setup.thumbs) \/ frame \in dropped'
  PROVE  IInv'
<1>1. /\ at' = "get" /\ envelope' = Nothing /\ frame' = Nothing /\ todo' = 0 /\ shown' = FALSE
      /\ at # "down" /\ at' # "down"
  BY DEF Done
<1>2. /\ Travelling \subseteq Frames /\ Waiting \subseteq Frames /\ InEngine \subseteq Frames
      /\ Published \subseteq Frames /\ Nothing \notin Frames
  BY Members, FrameIdentity DEF IInv
<1>3. /\ Travelling' \subseteq Travelling /\ Waiting' = Waiting /\ InEngine' = {}
      /\ Published' = Published /\ Envelope' = {}
  BY <1>1 DEF Travelling, Waiting, InEngine, Published, Envelope, publisher, Current
<1>4. \A f \in Frames : (Made(f)' <=> Made(f)) /\ (Past(f)' <=> Past(f))
  BY <1>1 DEF Made, Past, publisher
<1>5. TypeOK'
  <2>1. 0 \in 0..setup.specs /\ setup.specs \in Nat
    BY FramePathConfigOK DEF IInv, TypeOK
  <2>2. missed' \subseteq Frames /\ fetched' \subseteq gone' /\ gone' \subseteq Frames
    BY DEF IInv, TypeOK, StoreTyped
  <2>3. QED
    BY <1>1, <1>2, <2>1, <2>2 DEF IInv, TypeOK, StoreTyped, publisher
<1>6. Locals'
  BY <1>1, <1>3 DEF IInv, Locals, publisher
<1>7. PutFirst'
  BY <1>2, <1>3 DEF IInv, PutFirst
<1>8. OwnOnly'
  BY <1>1, <1>3 DEF IInv, OwnOnly
<1>9. OnePlace'
  BY <1>2, <1>3, <1>4 DEF IInv, OnePlace
<1>10. Ordered'
  BY <1>2, <1>3, <1>4 DEF IInv, Ordered, InOrder
<1>11. FramesExplained'
  BY <1>1 DEF IInv, FramesExplained
<1>12. FetchedIsPublished'
  BY <1>1, <1>3 DEF IInv, FetchedIsPublished, Counted
<1>13. QED
  BY <1>5, <1>6, <1>7, <1>8, <1>9, <1>10, <1>11, <1>12 DEF IInv

(* The engine takes the pixels out of the store.                            *)
LEMMA FetchStep ==
  ASSUME IInv, Fetch
  PROVE  IInv'
<1>1. /\ at = "fetch" /\ at' = "models" /\ setup.specs > 0 /\ Has(envelope.id)
      /\ Take(envelope.id) /\ frame' = store[envelope.id].frame /\ todo' = setup.specs
      /\ fetched' = fetched \cup {frame'} /\ envelope' = envelope
      /\ UNCHANGED <<setup, boot, now, fails, publisher, topic, again, shown, events, missed,
                     dropped, cut>>
  BY DEF Fetch
<1>2. /\ Travelling \subseteq Frames /\ Waiting \subseteq Frames /\ InEngine \subseteq Frames
      /\ Published \subseteq Frames /\ Nothing \notin Frames /\ StoreTyped
      /\ envelope \in Frames /\ frame = Nothing /\ envelope \in Travelling
  BY <1>1, Members, FrameIdentity DEF IInv, TypeOK, Travelling, Envelope
<1>3. PICK f \in Frames : f = frame' /\ InStore(f) /\ f.id = envelope.id
  BY <1>1, <1>2 DEF StoreTyped, InStore, Has
<1>4. /\ StoreTyped' /\ gone \subseteq gone' /\ f \in gone'
      /\ \A g \in Frames : InStore(g)' => InStore(g) /\ g.id # envelope.id
      /\ \A g \in Frames : InStore(g) => InStore(g)' \/ g \in gone'
  <2>1. /\ StoreTyped' /\ gone \subseteq gone'
        /\ gone' = gone \cup Stored(DOMAIN store \cap {envelope.id})
        /\ \A g \in Frames : InStore(g)' => InStore(g) /\ g.id # envelope.id
        /\ \A g \in Frames : InStore(g) => InStore(g)' \/ g \in gone'
    BY <1>1, <1>2, TakeEffect
  <2>2. f \in Stored(DOMAIN store \cap {envelope.id})
    BY <1>1, <1>3 DEF Stored, Has
  <2>3. QED
    BY <2>1, <2>2
<1>5. /\ Travelling' = Travelling /\ Waiting' = Waiting /\ InEngine' = {f} /\ InEngine = {}
      /\ Published' = Published /\ Envelope' = Envelope /\ Envelope \subseteq Travelling
  BY <1>1, <1>2, <1>3
  DEF Travelling, Waiting, InEngine, Published, Envelope, publisher, Current
<1>6. \A g \in Frames : (Made(g)' <=> Made(g)) /\ (Past(g)' <=> Past(g))
  BY <1>1 DEF Made, Past, publisher
<1>7. TypeOK'
  <2>1. setup.specs \in 0..setup.specs /\ setup.specs \in Nat
    BY FramePathConfigOK DEF IInv, TypeOK
  <2>2. gone' \subseteq Frames /\ fetched' \subseteq gone' /\ cut' \subseteq fetched'
        /\ missed' \subseteq Frames
    BY <1>1, <1>3, <1>4 DEF IInv, TypeOK, StoreTyped
  <2>3. frame' \in Frames /\ envelope' \in Frames
    BY <1>1, <1>2, <1>3
  <2>4. QED
    BY <1>1, <1>2, <1>4, <2>1, <2>2, <2>3 DEF IInv, TypeOK, StoreTyped, publisher
<1>8. Locals'
  BY <1>1, <1>3, <1>5 DEF IInv, Locals, publisher
<1>9. PutFirst'
  BY <1>2, <1>4, <1>5 DEF IInv, PutFirst
<1>10. OwnOnly'
  BY <1>1, <1>4, <1>5 DEF IInv, OwnOnly
<1>11. OnePlace'
  <2>1. f \notin Published /\ Made(f) /\ ~InStore(f)'
    BY <1>3, <1>4 DEF IInv, OnePlace
  <2>2. \A g \in Published : Made(g)' /\ ~InStore(g)'
    BY <1>2, <1>4, <1>6 DEF IInv, OnePlace
  <2>3. \A g \in Frames : InStore(g)' => Made(g)'
    BY <1>4, <1>6 DEF IInv, OnePlace
  <2>4. QED
    BY <1>1, <1>5, <1>6, <2>1, <2>2, <2>3 DEF IInv, OnePlace
<1>12. Ordered'
  BY <1>1, <1>2, <1>5, <1>6 DEF IInv, Ordered, InOrder
<1>13. FramesExplained'
  <2>1. missed' \subseteq gone'
    BY <1>1, <1>4 DEF IInv, FramesExplained
  <2>2. ASSUME f # envelope
        PROVE  setup.durable /\ f.boot # envelope.boot /\ f.id = envelope.id
    <3>1. f.boot # envelope.boot
      BY <1>2, <1>3, <2>2, FrameIdentity
    <3>2. ~setup.durable => f.boot = boot /\ envelope.boot = boot
      BY <1>2, <1>3 DEF IInv, OwnOnly
    <3>3. QED
      BY <1>3, <3>1, <3>2
  <2>3. QED
    BY <1>1, <1>3, <2>1, <2>2 DEF FramesExplained
<1>14. Counted'
  BY <1>1, CountKept
<1>15. FetchedIsPublished'
  <2>1. Nothing \notin fetched
    BY <1>2 DEF IInv, TypeOK
  <2>2. QED
    BY <1>1, <1>2, <1>5, <1>14, <2>1 DEF IInv, FetchedIsPublished, Counted
<1>16. QED
  BY <1>7, <1>8, <1>9, <1>10, <1>11, <1>12, <1>13, <1>14, <1>15 DEF IInv

(* The engine publishes the event, and it is added.                         *)
LEMMA PublishStep ==
  ASSUME IInv, Publish, AddEvent, dropped' = dropped
  PROVE  IInv'
<1>1. /\ at = "publish" /\ Done
      /\ UNCHANGED <<setup, boot, now, publisher, topic, again, store, history>>
      /\ fails' \in {fails, fails + 1} /\ fails' \in 0..MaxFailures
      /\ at' = "get" /\ envelope' = Nothing /\ frame' = Nothing /\ todo' = 0 /\ shown' = FALSE
  BY FramePathConfigOK DEF Publish, Done, Works, Fails, history, IInv, TypeOK
<1>2. PICK thumbnail \in {FALSE, setup.thumbs} :
        events' = Append(events, [envelope |-> envelope, frame |-> frame, thumbnail |-> thumbnail])
  BY DEF AddEvent
<1>3. /\ Travelling \subseteq Frames /\ Waiting \subseteq Frames /\ InEngine \subseteq Frames
      /\ Published \subseteq Frames /\ Nothing \notin Frames
      /\ envelope \in Frames /\ frame \in Frames /\ envelope \in Travelling
      /\ InEngine = {frame} /\ Envelope = {envelope}
  BY <1>1, Members, FrameIdentity DEF IInv, TypeOK, Travelling, Envelope, InEngine
<1>4. PICK f \in Frames : f = frame /\ f \notin Published /\ Made(f) /\ ~InStore(f)
  BY <1>3 DEF IInv, OnePlace
<1>5. [envelope |-> envelope, frame |-> frame, thumbnail |-> thumbnail]
        \in [envelope : Frames, frame : Frames, thumbnail : BOOLEAN]
  <2>1. thumbnail \in BOOLEAN
    BY <1>2, FramePathConfigOK DEF IInv, TypeOK
  <2>2. QED
    BY <1>3, <2>1
<1>6. /\ events' \in Seq([envelope : Frames, frame : Frames, thumbnail : BOOLEAN])
      /\ DOMAIN events = 1..Len(events) /\ Len(events) \in Nat
      /\ DOMAIN events' = 1..(Len(events) + 1)
      /\ \A k \in 1..Len(events) : events'[k] = events[k]
      /\ events'[Len(events) + 1].frame = f
  <2>1. events \in Seq([envelope : Frames, frame : Frames, thumbnail : BOOLEAN])
    BY DEF IInv, TypeOK
  <2>2. /\ events' \in Seq([envelope : Frames, frame : Frames, thumbnail : BOOLEAN])
        /\ Len(events') = Len(events) + 1 /\ Len(events) \in Nat
        /\ \A k \in 1..Len(events) : events'[k] = events[k]
        /\ events'[Len(events) + 1] =
             [envelope |-> envelope, frame |-> frame, thumbnail |-> thumbnail]
    BY <1>2, <1>5, <2>1, PutLast
  <2>3. DOMAIN events = 1..Len(events) /\ DOMAIN events' = 1..Len(events')
    BY <2>1, <2>2, LenProperties
  <2>4. QED
    BY <1>4, <2>2, <2>3
<1>7. Published' = Published \cup {f}
  <2>1. Published = {events[k].frame : k \in 1..Len(events)}
    BY <1>6 DEF Published
  <2>2. Published' = {events'[k].frame : k \in 1..(Len(events) + 1)}
    BY <1>6 DEF Published
  <2>3. 1..(Len(events) + 1) = (1..Len(events)) \cup {Len(events) + 1}
    BY <1>6
  <2>4. QED
    BY <1>6, <2>1, <2>2, <2>3
<1>8. /\ Travelling' \subseteq Travelling /\ Waiting' = Waiting /\ InEngine' = {}
      /\ Envelope' = {} /\ Range(topic) \subseteq Travelling
      /\ \A g \in Frames : InStore(g)' <=> InStore(g)
  BY <1>1 DEF Travelling, Waiting, InEngine, Envelope, publisher, Current, InStore
<1>9. \A g \in Frames : (Made(g)' <=> Made(g)) /\ (Past(g)' <=> Past(g))
  BY <1>1 DEF Made, Past, publisher
<1>10. TypeOK'
  <2>1. 0 \in 0..setup.specs /\ setup.specs \in Nat
    BY FramePathConfigOK DEF IInv, TypeOK
  <2>2. QED
    BY <1>1, <1>3, <1>6, <2>1 DEF IInv, TypeOK, publisher, history
<1>11. Locals'
  BY <1>1, <1>8 DEF IInv, Locals, publisher, history
<1>12. PutFirst'
  BY <1>1, <1>3, <1>8 DEF IInv, PutFirst, history
<1>13. OwnOnly'
  BY <1>1, <1>8 DEF IInv, OwnOnly
<1>14. OnePlace'
  <2>1. ASSUME NEW k \in DOMAIN events', NEW l \in DOMAIN events',
               events'[k].frame = events'[l].frame
        PROVE  k = l
    <3>1. \A m \in 1..Len(events) : events'[m].frame \in Published /\ events'[m].frame # f
      BY <1>4, <1>6 DEF Published
    <3>2. CASE k = Len(events) + 1 \/ l = Len(events) + 1
      BY <1>6, <2>1, <3>1, <3>2
    <3>3. CASE k \in 1..Len(events) /\ l \in 1..Len(events)
      BY <1>6, <2>1, <3>3 DEF IInv, OnePlace
    <3>4. QED
      BY <1>6, <3>2, <3>3
  <2>2. \A g \in Published' : Made(g)' /\ ~InStore(g)'
    BY <1>3, <1>4, <1>7, <1>8, <1>9 DEF IInv, OnePlace
  <2>3. \A g \in Frames : InStore(g)' => Made(g)'
    BY <1>8, <1>9 DEF IInv, OnePlace
  <2>4. QED
    BY <1>8, <2>1, <2>2, <2>3 DEF OnePlace
<1>15. ASSUME ~setup.durable
       PROVE  f = envelope
  BY <1>3, <1>4, <1>15 DEF IInv, FramesExplained
<1>16. Ordered'
  <2>1. ASSUME ~setup.durable, NEW k \in DOMAIN events', NEW l \in DOMAIN events', k < l
        PROVE  Before(events'[k].frame, events'[l].frame)
    <3>1. k \in 1..Len(events)
      BY <1>6, <2>1
    <3>2. CASE l \in 1..Len(events)
      BY <1>6, <2>1, <3>1, <3>2 DEF IInv, Ordered
    <3>3. CASE l = Len(events) + 1
      BY <1>3, <1>6, <1>15, <2>1, <3>1, <3>3 DEF IInv, Ordered, Published
    <3>4. QED
      BY <1>6, <3>2, <3>3
  <2>2. ASSUME ~setup.durable
        PROVE  /\ \A g \in Travelling' \cup Published' : Past(g)'
               /\ \A g \in Published', h \in Range(topic) : Before(g, h)
               /\ InOrder(topic)
    BY <1>3, <1>7, <1>8, <1>9, <1>15, <2>2 DEF IInv, Ordered
  <2>3. QED
    BY <1>1, <1>8, <2>1, <2>2 DEF Ordered
<1>17. FramesExplained'
  BY <1>1 DEF IInv, FramesExplained, history
<1>18. Counted'
  BY <1>1, CountKept
<1>19. FetchedIsPublished'
  BY <1>1, <1>4, <1>7, <1>18 DEF IInv, FetchedIsPublished, Counted, history
<1>20. QED
  BY <1>10, <1>11, <1>12, <1>13, <1>14, <1>16, <1>17, <1>18, <1>19 DEF IInv

(* The engine publishes the event, and Redis fails: the frame is lost, for  *)
(* one more command that has failed.                                        *)
LEMMA DropStep ==
  ASSUME IInv, Publish, Fails, events' = events, dropped' = dropped \cup {frame}
  PROVE  IInv'
<1>1. /\ at = "publish" /\ at # "down" /\ Done /\ fails' = fails + 1 /\ setup.durable
      /\ fails' \in 0..MaxFailures /\ fails \in Nat
      /\ UNCHANGED <<setup, boot, now, publisher, topic, again, store, events,
                     missed, gone, fetched, cut>>
  BY FramePathConfigOK DEF Publish, Fails, IInv, TypeOK
<1>2. frame \in fetched
  BY <1>1 DEF IInv, TypeOK, Locals, InEngine
<1>3. Counted'
  <2>1. IsFiniteSet(dropped) /\ Cardinality(dropped) \in Nat /\ Cardinality(dropped) <= fails
    BY FS_CardinalityType DEF IInv, Counted
  <2>2. IsFiniteSet(dropped') /\ Cardinality(dropped') \in Nat
        /\ Cardinality(dropped') <= Cardinality(dropped) + 1
    BY <2>1, FS_AddElement
  <2>3. Cardinality(dropped') <= fails'
    BY <1>1, <2>1, <2>2
  <2>4. QED
    BY <1>1, <2>2, <2>3 DEF Counted
<1>4. /\ StoreTyped' /\ gone \subseteq gone' /\ missed' \subseteq gone'
      /\ \A f \in Frames : InStore(f)' <=> InStore(f)
  <2>1. StoreTyped
    BY Members DEF IInv
  <2>2. QED
    BY <1>1, <2>1 DEF StoreTyped, InStore, IInv, FramesExplained
<1>5. dropped' \subseteq fetched /\ dropped \subseteq dropped' /\ frame \in dropped'
  BY <1>2 DEF IInv, TypeOK
<1>6. QED
  BY <1>1, <1>3, <1>4, <1>5, GiveUpStep

(* The process dies: in memory nothing is left of it.                       *)
LEMMA CrashStep ==
  ASSUME IInv, Crash
  PROVE  IInv'
<1>1. /\ at # "down" /\ boot < MaxBoots /\ at' = "down" /\ envelope' = Nothing
      /\ frame' = Nothing /\ todo' = 0 /\ shown' = FALSE /\ stored' = FALSE /\ nextId' = 0
      /\ cut' = cut \cup ({frame} \ {Nothing})
      /\ UNCHANGED <<setup, boot, now, fails, again, events, missed, fetched, dropped>>
  BY DEF Crash
<1>2. /\ Travelling \subseteq Frames /\ Waiting \subseteq Frames /\ InEngine \subseteq Frames
      /\ Published \subseteq Frames /\ Nothing \notin Frames /\ StoreTyped
      /\ topic \in Seq(Frames)
  BY Members, FrameIdentity DEF IInv, TypeOK
<1>3. /\ topic' \in Seq(Frames) /\ Range(topic') \subseteq Range(topic)
      /\ StoreTyped' /\ gone \subseteq gone'
      /\ \A f \in Frames : InStore(f)' => InStore(f) /\ setup.durable
      /\ \A f \in Frames : InStore(f) => InStore(f)' \/ f \in gone'
      /\ ~setup.durable => Range(topic') = {} /\ Len(topic') <= MaxSize /\ InOrder(topic')
      /\ setup.durable => topic' = topic
  <2>1. CASE setup.durable
    <3>1. UNCHANGED <<topic, store, gone>>
      BY <2>1 DEF Crash
    <3>2. QED
      BY <1>1, <1>2, <2>1, <3>1 DEF StoreTyped, InStore
  <2>2. CASE ~setup.durable
    <3>1. topic' = <<>> /\ store' = Without(Ids) /\ gone' = gone \cup Stored(DOMAIN store)
      BY <2>2 DEF Crash
    <3>2. /\ topic' \in Seq(Frames) /\ Len(topic') = 0 /\ Range(topic') = {}
          /\ Len(topic') <= MaxSize
      BY <3>1, EmptySeq, FramePathConfigOK DEF Range
    <3>3. InOrder(topic')
      BY <3>2 DEF InOrder
    <3>4. DOMAIN store' = {}
      BY <1>2, <3>1 DEF Without, StoreTyped
    <3>5. gone' \subseteq Frames /\ gone \subseteq gone'
      BY <1>2, <3>1 DEF StoreTyped, Stored
    <3>6. \A f \in Frames : InStore(f) => f \in gone'
      BY <3>1 DEF InStore, Stored
    <3>7. QED
      BY <2>2, <3>2, <3>3, <3>4, <3>5, <3>6 DEF StoreTyped, InStore
  <2>3. QED
    BY <2>1, <2>2
<1>4. /\ Travelling' \subseteq Travelling /\ Waiting' = {} /\ InEngine' = {}
      /\ Published' = Published /\ Envelope' = {}
      /\ ~setup.durable => Travelling' = {}
  <2>1. ~setup.durable => again = {}
    BY DEF IInv, TypeOK
  <2>2. QED
    BY <1>1, <1>3, <2>1 DEF Travelling, Waiting, InEngine, Published, Envelope
<1>5. \A f \in Frames : Made(f) => Made(f)' /\ Past(f)'
  <2>1. \A f \in Frames : f.boot \in 1..MaxBoots
    BY FrameIdentity
  <2>2. QED
    BY <1>1, <2>1 DEF Made, Past
<1>6. TypeOK'
  <2>1. 0 \in 0..setup.specs /\ setup.specs \in Nat /\ 0 \in 0..MaxFrames
    BY FramePathConfigOK DEF IInv, TypeOK
  <2>2. missed' \subseteq Frames /\ fetched' \subseteq gone'
    BY <1>1, <1>3 DEF IInv, TypeOK
  <2>3. cut' \subseteq fetched'
    BY <1>1 DEF IInv, TypeOK, Locals, InEngine
  <2>4. ~setup.durable => Len(topic') <= MaxSize /\ again' = {}
    BY <1>1, <1>3 DEF IInv, TypeOK
  <2>5. QED
    BY <1>1, <1>2, <1>3, <2>1, <2>2, <2>3, <2>4 DEF IInv, TypeOK, StoreTyped
<1>7. Locals'
  BY <1>1, <1>4 DEF Locals
<1>8. PutFirst'
  BY <1>2, <1>3, <1>4 DEF IInv, PutFirst
<1>9. OwnOnly'
  BY <1>1, <1>3, <1>4 DEF IInv, OwnOnly
<1>10. OnePlace'
  BY <1>1, <1>2, <1>3, <1>4, <1>5 DEF IInv, OnePlace
<1>11. Ordered'
  <2>1. \A f \in Published : Past(f)'
    BY <1>2, <1>5 DEF IInv, OnePlace
  <2>2. QED
    BY <1>1, <1>3, <1>4, <2>1 DEF IInv, Ordered
<1>12. FramesExplained'
  BY <1>1, <1>3 DEF IInv, FramesExplained
<1>13. Counted'
  BY <1>1, CountKept
<1>14. FetchedIsPublished'
  BY <1>1, <1>4, <1>13 DEF IInv, FetchedIsPublished, Counted
<1>15. QED
  BY <1>6, <1>7, <1>8, <1>9, <1>10, <1>11, <1>12, <1>13, <1>14 DEF IInv

(* The next process starts, with ids from the beginning.                    *)
LEMMA RestartStep ==
  ASSUME IInv, Restart
  PROVE  IInv'
<1>1. /\ at = "down" /\ at' = "get" /\ boot' = boot + 1 /\ boot < MaxBoots
      /\ UNCHANGED <<setup, now, fails, publisher, topic, again, store, envelope, frame, todo,
                     shown, events, history>>
  BY DEF Restart, IInv, Locals
<1>2. /\ Travelling \subseteq Frames /\ Waiting \subseteq Frames /\ InEngine \subseteq Frames
      /\ Published \subseteq Frames /\ Nothing \notin Frames /\ Envelope \subseteq Travelling
      /\ Range(topic) \subseteq Travelling /\ boot \in 1..MaxBoots
  BY Members, FrameIdentity DEF IInv, Travelling
<1>3. /\ Travelling' = Travelling /\ InEngine' = InEngine
      /\ Published' = Published /\ Envelope' = Envelope
      /\ \A f \in Frames : InStore(f)' <=> InStore(f)
  BY <1>1 DEF Travelling, InEngine, Published, Envelope, InStore
<1>4. Waiting = {} /\ Waiting' = {}
  BY <1>1 DEF IInv, Locals, Waiting, publisher
<1>5. \A f \in Frames : Made(f) => Made(f)' /\ Past(f)'
  <2>1. \A f \in Frames : f.boot \in 1..MaxBoots
    BY FrameIdentity
  <2>2. \A f \in Frames : Made(f) => f.boot < boot'
    BY <1>1, <1>2, <2>1 DEF Made
  <2>3. \A f \in Frames : f.boot < boot' => f.boot # boot'
    BY <1>1, <1>2, <2>1
  <2>4. QED
    BY <2>2, <2>3 DEF Made, Past
<1>6. TypeOK'
  <2>1. boot' \in 1..MaxBoots
    BY <1>1, <1>2, FramePathConfigOK
  <2>2. QED
    BY <1>1, <2>1 DEF IInv, TypeOK, publisher, history
<1>7. Locals'
  BY <1>1, <1>3 DEF IInv, Locals, publisher, history
<1>8. PutFirst'
  BY <1>1, <1>2, <1>3, <1>4 DEF IInv, PutFirst, history
<1>9. OwnOnly'
  BY <1>1, <1>2, <1>3 DEF IInv, OwnOnly
<1>10. OnePlace'
  BY <1>1, <1>2, <1>3, <1>5 DEF IInv, OnePlace
<1>11. Ordered'
  <2>1. \A f \in Published : Past(f)'
    BY <1>2, <1>5 DEF IInv, OnePlace
  <2>2. ~setup.durable => Travelling = {}
    BY <1>1 DEF IInv, OwnOnly
  <2>3. QED
    BY <1>1, <1>2, <1>3, <2>1, <2>2 DEF IInv, Ordered, InOrder
<1>12. Counted'
  BY <1>1, CountKept DEF history
<1>13. FramesExplained' /\ FetchedIsPublished'
  BY <1>1, <1>3, <1>12 DEF IInv, FramesExplained, FetchedIsPublished, Counted, history
<1>14. QED
  BY <1>6, <1>7, <1>8, <1>9, <1>10, <1>11, <1>12, <1>13 DEF IInv

(* Receiving: from the topic, or again from what is pending.                *)
LEMMA GetStep ==
  ASSUME IInv, Get
  PROVE  IInv'
<1>1. /\ topic # <<>> /\ topic' = Tail(topic) /\ Receive(Head(topic))
      /\ UNCHANGED <<setup, boot, now, publisher, store, events, history>>
  BY DEF Get
<1>2. topic \in Seq(Frames) /\ again \subseteq Frames
  BY DEF IInv, TypeOK
<1>3. /\ Tail(topic) \in Seq(Frames) /\ Head(topic) \in Frames
      /\ Len(topic) \in Nat \ {0} /\ Len(Tail(topic)) = Len(topic) - 1
      /\ Range(topic) = Range(Tail(topic)) \cup {Head(topic)}
  BY <1>1, <1>2, TakeHead
<1>4. InOrder(topic) => InOrder(Tail(topic)) /\ \A g \in Range(Tail(topic)) : Before(Head(topic), g)
  BY <1>1, <1>2, OrderedTail
<1>5. ~setup.durable => Len(topic') <= MaxSize
  <2>1. ~setup.durable => Len(topic) <= MaxSize
    BY DEF IInv, TypeOK
  <2>2. QED
    BY <1>1, <1>3, <2>1, FramePathConfigOK
<1>6. again' \subseteq again \cup Range(topic) /\ (~setup.durable => again' = {})
  BY <1>3 DEF Get, Fails, IInv, TypeOK
<1>7. fails' \in 0..MaxFailures /\ fails' \in {fails, fails + 1}
  BY FramePathConfigOK DEF Get, Fails, Works, IInv, TypeOK
<1>8. QED
  BY <1>1, <1>3, <1>4, <1>5, <1>6, <1>7, ReceiveStep

LEMMA GetAgainStep ==
  ASSUME IInv, NEW e \in again, GetAgain(e)
  PROVE  IInv'
<1>1. /\ e \in Frames /\ again' \subseteq again /\ Receive(e) /\ setup.durable
      /\ UNCHANGED <<setup, boot, now, fails, publisher, topic, store, events, history>>
      /\ topic \in Seq(Frames) /\ fails \in 0..MaxFailures
  BY DEF GetAgain, IInv, TypeOK
<1>2. QED
  BY <1>1, ReceiveStep

(* Where process() ends without an event. *)
LEMMA GivingUp ==
  ASSUME IInv, NoModels \/ FetchMisses \/ ThumbnailRaises
  PROVE  IInv'
<1>1. StoreTyped /\ now' = now
  BY Members DEF IInv, NoModels, FetchMisses, ThumbnailRaises
<1>2. /\ fails \in 0..MaxFailures /\ missed \subseteq gone
      /\ Counted' /\ dropped' = dropped /\ dropped \subseteq fetched
  <2>1. fails' \in {fails, fails + 1} /\ dropped' = dropped /\ setup' = setup
    BY DEF NoModels, FetchMisses, ThumbnailRaises, Works, Fails, history
  <2>2. QED
    BY <2>1, CountKept DEF IInv, TypeOK, FramesExplained
<1>3. CASE NoModels
  <2>1. frame = Nothing /\ at # "down" /\ Done
    BY <1>3 DEF NoModels, IInv, TypeOK
  <2>2. QED
    BY <1>1, <1>2, <1>3, <2>1, GiveUpStep DEF NoModels, history, StoreTyped, InStore
<1>4. CASE ThumbnailRaises
  <2>1. at # "down" /\ Done /\ setup.draw /\ ~setup.thumbs
    BY <1>4 DEF ThumbnailRaises, Annotates
  <2>2. QED
    BY <1>1, <1>2, <1>4, <2>1, GiveUpStep DEF ThumbnailRaises, history, StoreTyped, InStore
<1>5. CASE FetchMisses
  <2>1. /\ frame = Nothing /\ at # "down" /\ Done /\ envelope \in Frames /\ envelope \in Travelling
        /\ UNCHANGED <<setup, boot, now, publisher, topic, again, events, fetched, dropped, cut>>
    BY <1>5 DEF FetchMisses, IInv, TypeOK, Travelling, Envelope
  <2>2. fails' \in 0..MaxFailures
    BY <1>5, FramePathConfigOK DEF FetchMisses, Works, Fails, IInv, TypeOK
  <2>3. CASE UNCHANGED <<store, gone>> /\ missed' = missed
    BY <1>1, <1>2, <2>1, <2>2, <2>3, GiveUpStep DEF StoreTyped, InStore
  <2>4. CASE Take(envelope.id) /\ missed' \in {missed, missed \cup {envelope}}
    <3>1. /\ StoreTyped' /\ gone \subseteq gone'
          /\ \A g \in Frames : InStore(g)' => InStore(g) /\ g.id # envelope.id
          /\ \A g \in Frames : InStore(g) => InStore(g)' \/ g \in gone'
      BY <1>1, <2>4, TakeEffect
    <3>2. PICK f \in Frames : f = envelope
      BY <2>1
    <3>3. f \in gone \/ InStore(f)
      BY <2>1, <3>2 DEF IInv, PutFirst
    <3>4. f \in gone'
      BY <3>1, <3>2, <3>3
    <3>5. missed' \subseteq gone'
      BY <1>2, <2>4, <3>1, <3>2, <3>4
    <3>6. QED
      BY <1>2, <2>1, <2>2, <3>1, <3>5, GiveUpStep
  <2>5. QED
    BY <1>5, <2>3, <2>4 DEF FetchMisses, TakeFails
<1>6. QED
  BY <1>3, <1>4, <1>5

(* Models, the thumbnail and time. *)
LEMMA LocalSteps ==
  ASSUME IInv, RunModel \/ Thumbnail \/ Tick \/ UNCHANGED vars
  PROVE  IInv'
<1>1. CASE RunModel
  <2>1. /\ at = "models" /\ at' \in {"models", "thumbnail"} /\ todo' = todo - 1
        /\ shown' \in {shown, TRUE} /\ (at' = "models" => todo' # 0)
        /\ UNCHANGED <<setup, boot, now, fails, publisher, topic, again, store, envelope, frame,
                       events, history>>
    BY <1>1 DEF RunModel
  <2>2. /\ setup.specs \in Nat /\ todo \in 0..setup.specs
    BY FramePathConfigOK DEF IInv, TypeOK
  <2>3. todo > 0
    BY <2>1 DEF IInv, Locals
  <2>4. todo' \in 0..setup.specs /\ (todo' # 0 => todo' > 0)
    BY <2>1, <2>2, <2>3
  <2>5. shown' \in BOOLEAN
    BY <2>1 DEF IInv, TypeOK
  <2>6. TypeOK'
    BY <2>1, <2>4, <2>5 DEF IInv, TypeOK, publisher, history
  <2>7. Locals'
    BY <2>1, <2>4 DEF IInv, Locals, publisher, history, InEngine
  <2>8. QED
    BY <2>1, <2>6, <2>7, LocalStep
<1>2. CASE Thumbnail
  <2>1. /\ at = "thumbnail" /\ at' = "publish"
        /\ UNCHANGED <<setup, boot, now, fails, publisher, topic, again, store, envelope, frame,
                       todo, shown, events, history>>
    BY <1>2 DEF Thumbnail
  <2>2. TypeOK' /\ Locals'
    BY <2>1 DEF IInv, TypeOK, Locals, publisher, history, InEngine
  <2>3. QED
    BY <2>1, <2>2, LocalStep
<1>3. CASE Tick
  <2>1. /\ UNCHANGED <<setup, boot, fails, publisher, topic, again, store, worker, events, history>>
        /\ now < MaxTime /\ now' = now + 1
    BY <1>3 DEF Tick
  <2>2. now' \in 0..MaxTime /\ 0..now \subseteq 0..now'
    BY <2>1, FramePathConfigOK DEF IInv, TypeOK
  <2>3. \A i \in DOMAIN store : store[i] \in [frame : Frames, since : 0..now']
    BY <2>2 DEF IInv, TypeOK
  <2>4. TypeOK'
    BY <2>1, <2>2, <2>3 DEF IInv, TypeOK, publisher, history, worker
  <2>5. Locals'
    BY <2>1 DEF IInv, Locals, publisher, history, worker, InEngine
  <2>6. QED
    BY <2>1, <2>4, <2>5, LocalStep DEF worker
<1>4. CASE UNCHANGED vars
  <2>1. TypeOK'
    BY <1>4 DEF IInv, TypeOK, vars, publisher, history, worker
  <2>2. Locals'
    BY <1>4 DEF IInv, Locals, vars, publisher, history, worker, InEngine
  <2>3. QED
    BY <1>4, <2>1, <2>2, LocalStep DEF vars, worker
<1>5. QED
  BY <1>1, <1>2, <1>3, <1>4

LEMMA IInvInit == Init => IInv
<1> SUFFICES ASSUME Init PROVE IInv
  OBVIOUS
<1>1. /\ topic = <<>> /\ Len(topic) = 0 /\ Range(topic) = {} /\ topic \in Seq(Frames)
      /\ DOMAIN store = {} /\ DOMAIN events = {}
      /\ events \in Seq([envelope : Frames, frame : Frames, thumbnail : BOOLEAN])
  BY EmptySeq DEF Init, Range
<1>2. /\ Travelling = {} /\ Waiting = {} /\ InEngine = {} /\ Published = {} /\ Envelope = {}
  BY <1>1 DEF Init, Travelling, Waiting, InEngine, Published, Envelope
<1>3. TypeOK
  <2>1. setup \in Setups /\ setup.specs \in Nat /\ 0 \in 0..setup.specs
    BY FramePathConfigOK DEF Init
  <2>2. /\ boot \in 1..MaxBoots /\ now \in 0..MaxTime /\ fails \in 0..MaxFailures
        /\ nextId \in 0..MaxFrames /\ Len(topic) <= MaxSize
    BY <1>1, FramePathConfigOK DEF Init
  <2>3. QED
    BY <1>1, <2>1, <2>2, FrameIdentity DEF Init, TypeOK
<1>4. Locals /\ PutFirst /\ OwnOnly /\ OnePlace
  BY <1>1, <1>2 DEF Init, Locals, PutFirst, OwnOnly, OnePlace, InStore
<1>5. Counted
  BY FS_EmptySet DEF Init, Counted
<1>6. Ordered /\ FramesExplained /\ FetchedIsPublished
  BY <1>1, <1>2, <1>5 DEF Init, Ordered, InOrder, FramesExplained, FetchedIsPublished, Counted
<1>7. QED
  BY <1>3, <1>4, <1>5, <1>6 DEF IInv

LEMMA IInvStep == IInv /\ [Next]_vars => IInv'
<1> SUFFICES ASSUME IInv, [Next]_vars PROVE IInv'
  OBVIOUS
<1>1. CASE PublishFrame
  BY <1>1, StoreFrameStep, SendStep
<1>2. CASE Get
  BY <1>2, GetStep
<1>3. CASE \E e \in again : GetAgain(e)
  BY <1>3, GetAgainStep
<1>4. CASE Fetch
  BY <1>4, FetchStep
<1>5. CASE Publish
  BY <1>5, PublishStep, DropStep DEF Publish
<1>6. CASE Crash
  BY <1>6, CrashStep
<1>7. CASE Restart
  BY <1>7, RestartStep
<1>8. QED
  BY <1>1, <1>2, <1>3, <1>4, <1>5, <1>6, <1>7, GivingUp, LocalSteps DEF Next, Inference

LEMMA IInvAlways == Spec => []IInv
BY IInvInit, IInvStep, PTL DEF Spec

(* An envelope finds no pixels only if they are gone, and the pixels of     *)
(* another frame only in Redis, after a restart, and then those of its own  *)
(* id (publish() puts first; the key is camera and id).                     *)
THEOREM PixelsExplained == Spec => []FramesExplained
<1>1. IInv => FramesExplained
  BY DEF IInv
<1>2. QED
  BY <1>1, IInvAlways, PTL

(* A frame is in at most one event, also when its envelope is handed over   *)
(* twice, and in memory the events follow the order of the frames; with it  *)
(* the types.                                                               *)
THEOREM FramesPublishedOnce == Spec => []OneEventPerFrame
<1>1. IInv => OneEventPerFrame
  BY DEF IInv, OneEventPerFrame, OnePlace, Ordered
<1>2. QED
  BY <1>1, IInvAlways, PTL

(* What was fetched is published, unless the process dies, a box is to be   *)
(* drawn without thumbnails, or Redis fails when the event is added, and    *)
(* then at most one frame is lost for each command that fails.              *)
THEOREM NothingFetchedIsLost == Spec => []FetchedIsPublished
<1>1. IInv => FetchedIsPublished
  BY DEF IInv
<1>2. QED
  BY <1>1, IInvAlways, PTL

=============================================================================
