-------------------------- MODULE LifecycleProofs --------------------------
(***************************************************************************)
(* Proofs about Lifecycle for every playlist, every size of the topics and *)
(* any number of frames, files, alerts and failures of the database: what  *)
(* is left of the rows of the files, that a folder is played through, and  *)
(* that the shutdown follows the pipeline.                                 *)
(*                                                                         *)
(* The ingestion is an invariant of its own (IngestionInv), which the      *)
(* worker threads disturb only by taking a frame; the threads and the      *)
(* shutdown have another (ShutdownInv), in which main stands for the joins *)
(* that have been made.                                                    *)
(***************************************************************************)
EXTENDS Lifecycle, SequenceTheorems, FiniteSetTheorems, TLAPS

----------------------------------------------------------------------------
(* The ingestion *)

VideoRows == [file : Nat, status : {"INGESTING", "COMPLETED", "FAILED"}]

Connections ==
  {c \in [cap : Nat \cup {NoCap}, row : Nat, rows : Seq(VideoRows)] : c.row <= Len(c.rows)}

IngestionTypes ==
  /\ source \in Sources /\ at \in Awaits \cup Ended /\ inLoop \in BOOLEAN
  /\ index \in 1..Len(Files) /\ todo \in Seq(1..Len(Files))
  /\ conn \in Connections
  /\ stop \in BOOLEAN /\ frameId \in 0..MaxFrames /\ faults \in 0..MaxFaults
  /\ frames \in Seq(0..MaxOpens) /\ Len(frames) <= QueueSize
  /\ opened \in Seq(1..Len(Files)) /\ Len(opened) <= MaxOpens

(* Which row and which capture the connector holds at each await. *)
HeldRow ==
  /\ at = "new" => ~inLoop
  /\ at \in {"insert", "insertFailed", "firstRead", "mark"} => Video
  /\ at = "sleep" => ~Video
  /\ ~Video => conn.row = 0
  /\ at \in {"new", "open", "insert", "insertFailed", "ended"} => conn.row = 0
  /\ at = "mark" => conn.row # 0
  /\ at \in Awaits /\ ~inLoop => conn.row = 0
  /\ at = "ended" => conn.cap = NoCap
  /\ at \in {"raised", "cancelled"} /\ conn.row # 0 => faults > 0
  /\ Video /\ at \in {"insert", "read", "firstRead"} => conn.cap \in Nat

(* The rows that say INGESTING of a file that is not being played.        *)
Stray(c) == {i \in 1..Len(c.rows) : c.rows[i].status = "INGESTING" /\ i # c.row}

(* There is none but one whose insertion outlived the task.                *)
OthersClosed == Stray(conn) \subseteq IF at = "cancelled" THEN {Len(conn.rows)} ELSE {}

(* How far a folder without loop has been played: opened are the readable  *)
(* files before index, or up to it, in order, and what is left to          *)
(* _advance() are all the files behind it.                                 *)
OpenedUpTo(n) ==
  {opened[i] : i \in 1..Len(opened)} = {i \in 1..n : Files[i] # Unreadable}

PlayedSoFar ==
  Video /\ ~source.loop =>
    /\ \A i, j \in 1..Len(opened) : i < j => opened[i] < opened[j]
    /\ at \in {"new", "open", "insertFailed"} => OpenedUpTo(index - 1)
    /\ at = "insertFailed" => Files[index] = Unreadable
    /\ at \in {"insert", "read", "firstRead", "mark"} => OpenedUpTo(index)
    /\ at \in {"open", "insertFailed"} /\ inLoop => todo = Range1(index + 1, Len(Files))
    /\ at \in {"insert", "firstRead"} => conn.cap = Files[index]
    /\ at = "ended" /\ ~stop /\ (\A i \in 1..Len(Files) : Files[i] # 0) =>
         OpenedUpTo(Len(Files))

IngestionInv == IngestionTypes /\ HeldRow /\ OthersClosed /\ PlayedSoFar

----------------------------------------------------------------------------
(* The threads and the shutdown *)

WorkerTypes ==
  /\ main \in {"up", "raised"} \cup Shutdown
  /\ told \subseteq Workers /\ gaveUp \subseteq told /\ thread \in [Workers -> Places]
  /\ job \in 0..MaxOpens /\ writer \in 0..MaxOpens
  /\ detections \in 0..QueueSize /\ alerts \in 0..QueueSize /\ raised \in 0..MaxAlerts
  /\ late \in BOOLEAN /\ broken \in BOOLEAN /\ cut \in BOOLEAN
  /\ shown \in [Sessions -> Nat]

(* The joins that lifespan() has behind it, and the one it is in. *)
Joining ==
  CASE main = "joinInference" -> {"inference"}
    [] main = "joinCompliance" -> {"compliance"}
    [] main = "joinPersistence" -> {"persistence"}
    [] OTHER -> {}

(* The workers are told in the order of the pipeline, each when the one    *)
(* before it was joined.                                                   *)
ToldInOrder ==
  /\ main \in {"up", "raised", "waitIngestion"} => told = {}
  /\ main = "joinInference" => told = {"inference"}
  /\ main = "joinCompliance" => told = {"inference", "compliance"}
  /\ main = "joinPersistence" => source.db /\ told = Workers
  /\ main = "down" => told = Workers

(* A thread leaves its loop only when it is told to.                       *)
LoopsUntilTold ==
  /\ \A w \in Workers : thread[w] \in {"drain", "drainBusy", "flush", "ended"} => w \in told
  /\ \A w \in Workers \ {"compliance"} : thread[w] \notin {"drain", "drainBusy", "flush"}

(* A join that is over and did not give up has seen its thread end.        *)
Joined == \A w \in told : w \in Joining \/ w \in gaveUp \/ thread[w] = "ended"

(* What the compliance left in the topic came after its drain, from an     *)
(* inference that outlived its join, or the drain was broken.              *)
TopicDrained ==
  thread["compliance"] \in {"flush", "ended"} =>
    detections = 0 \/ broken \/ "inference" \in gaveUp

LateOnlyAfterGivingUp == late => gaveUp # {}

(* The frames a session has in its result video were all taken from the    *)
(* topic, and a video is begun by a writer that was not there before: none *)
(* is released before the inference is joined.                             *)
VideoFrames ==
  \A s \in Sessions :
    shown[s] + (IF thread["inference"] = "busy" THEN 1 ELSE 0) + Len(frames) <= frameId

OneWriter ==
  /\ main \in {"up", "raised", "waitIngestion", "joinInference"} /\ writer = 0 =>
       \A s \in Sessions : shown[s] = 0
  /\ cut => "inference" \in gaveUp

ShutdownInv ==
  /\ WorkerTypes /\ ToldInOrder /\ LoopsUntilTold /\ Joined
  /\ TopicDrained /\ LateOnlyAfterGivingUp /\ VideoFrames /\ OneWriter

LifeInv == IngestionInv /\ ShutdownInv

----------------------------------------------------------------------------
(* Sequences *)

(* A playlist has files, each a number of frames or unreadable. *)
LEMMA FilesShape ==
  ASSUME source \in Sources
  PROVE  /\ Files \in Seq(Nat \cup {Unreadable}) /\ Len(Files) \in Nat \ {0}
         /\ DOMAIN Files = 1..Len(Files) /\ source.loop \in BOOLEAN /\ source.db \in BOOLEAN
         /\ \A i \in 1..Len(Files) : Files[i] \in Nat \cup {Unreadable}
<1>1. /\ Files \in Seq(Nat \cup {Unreadable}) /\ Files # <<>>
      /\ source.loop \in BOOLEAN /\ source.db \in BOOLEAN
  BY IngestionConfigOK DEF Files
<1>2. Len(Files) \in Nat \ {0} /\ DOMAIN Files = 1..Len(Files)
  BY <1>1, LenProperties, EmptySeq
<1>3. \A i \in 1..Len(Files) : Files[i] \in Nat \cup {Unreadable}
  BY <1>1, ElementOfSeq
<1>4. QED
  BY <1>1, <1>2, <1>3

(* The numbers from a to b as a sequence. *)
LEMMA Range1Shape ==
  ASSUME NEW n \in Nat, NEW a \in 1..(n + 1), NEW b \in (a - 1)..n
  PROVE  /\ Range1(a, b) \in Seq(1..n) /\ Len(Range1(a, b)) = b - a + 1
         /\ \A i \in 1..(b - a + 1) : Range1(a, b)[i] = a + i - 1
<1>1. Range1(a, b) \in [1..(b - a + 1) -> 1..n] /\ b - a + 1 \in Nat
  BY DEF Range1
<1>2. Range1(a, b) \in Seq(1..n)
  BY <1>1, SeqDef
<1>3. DOMAIN Range1(a, b) = 1..Len(Range1(a, b)) /\ Len(Range1(a, b)) \in Nat
  BY <1>2, LenProperties
<1>4. DOMAIN Range1(a, b) = 1..(b - a + 1)
  BY <1>1
<1>5. Len(Range1(a, b)) = b - a + 1
  BY <1>1, <1>3, <1>4
<1>6. \A i \in 1..(b - a + 1) : Range1(a, b)[i] = a + i - 1
  BY DEF Range1
<1>7. QED
  BY <1>2, <1>5, <1>6

LEMMA Range1Takes ==
  ASSUME NEW n \in Nat, NEW a \in 1..n
  PROVE  /\ Range1(a, n) # <<>> /\ Head(Range1(a, n)) = a
         /\ Tail(Range1(a, n)) = Range1(a + 1, n)
<1>1. /\ Range1(a, n) \in Seq(1..n) /\ Len(Range1(a, n)) = n - a + 1
      /\ \A i \in 1..(n - a + 1) : Range1(a, n)[i] = a + i - 1
  BY Range1Shape
<1>2. /\ Range1(a + 1, n) \in Seq(1..n) /\ Len(Range1(a + 1, n)) = n - a
      /\ \A i \in 1..(n - a) : Range1(a + 1, n)[i] = a + i
  <2>1. PICK b \in 1..(n + 1) : b = a + 1
    OBVIOUS
  <2>2. n \in (b - 1)..n
    BY <2>1
  <2>3. /\ Range1(b, n) \in Seq(1..n) /\ Len(Range1(b, n)) = n - b + 1
        /\ \A i \in 1..(n - b + 1) : Range1(b, n)[i] = b + i - 1
    BY <2>2, Range1Shape
  <2>4. n - b + 1 = n - a /\ \A i \in 1..(n - a) : b + i - 1 = a + i
    BY <2>1
  <2>5. QED
    BY <2>1, <2>3, <2>4
<1>3. Range1(a, n) # <<>>
  BY <1>1, EmptySeq
<1>4. /\ Tail(Range1(a, n)) \in Seq(1..n) /\ Len(Tail(Range1(a, n))) = n - a
      /\ \A i \in 1..(n - a) : Tail(Range1(a, n))[i] = Range1(a, n)[i + 1]
  BY <1>1, <1>3, HeadTailProperties
<1>5. \A i \in 1..(n - a) : Tail(Range1(a, n))[i] = Range1(a + 1, n)[i]
  BY <1>1, <1>2, <1>4
<1>6. Tail(Range1(a, n)) = Range1(a + 1, n)
  BY <1>2, <1>4, <1>5, SeqEqual
<1>7. Head(Range1(a, n)) = a
  BY <1>1, <1>3
<1>8. QED
  BY <1>3, <1>6, <1>7

(* No number is left behind the last. *)
LEMMA Range1Empty ==
  ASSUME NEW n \in Nat
  PROVE  Range1(n + 1, n) = <<>>
<1> SUFFICES ASSUME NEW a \in 1..(n + 1), a = n + 1
             PROVE  Range1(a, n) = <<>>
  OBVIOUS
<1>1. n \in (a - 1)..n /\ n - a + 1 = 0
  OBVIOUS
<1>2. Range1(a, n) \in Seq(1..n) /\ Len(Range1(a, n)) = 0
  BY <1>1, Range1Shape
<1>3. QED
  BY <1>2, EmptySeq

(* What _advance() may try are files of the playlist. *)
LEMMA CandidatesShape ==
  ASSUME source \in Sources, index \in 1..Len(Files)
  PROVE  /\ Candidates \in Seq(1..Len(Files))
         /\ ~source.loop => Candidates = Range1(index + 1, Len(Files))
<1>1. Len(Files) \in Nat
  BY FilesShape
<1>2. /\ Range1(index + 1, Len(Files)) \in Seq(1..Len(Files))
      /\ Range1(1, index) \in Seq(1..Len(Files)) /\ <<>> \in Seq(1..Len(Files))
  BY <1>1, Range1Shape, EmptySeq
<1>3. Range1(index + 1, Len(Files)) \o <<>> = Range1(index + 1, Len(Files))
  BY <1>2, ConcatEmptySeq
<1>4. QED
  BY <1>2, <1>3, ConcatProperties DEF Candidates

(* Behind index the files go on one by one, up to the last. *)
LEMMA NextIsLeft ==
  ASSUME source \in Sources, index \in 1..Len(Files), NEW rest, rest = Range1(index + 1, Len(Files))
  PROVE  /\ rest = <<>> => index = Len(Files)
         /\ rest # <<>> => Head(rest) = index + 1 /\ Tail(rest) = Range1(index + 2, Len(Files))
<1>1. Len(Files) \in Nat \ {0}
  BY FilesShape
<1>2. CASE index = Len(Files)
  <2>1. rest = <<>>
    BY <1>1, <1>2, Range1Empty
  <2>2. QED
    BY <1>2, <2>1
<1>3. CASE index # Len(Files)
  <2>1. PICK a \in 1..Len(Files) : a = index + 1 /\ a + 1 = index + 2
    BY <1>1, <1>3
  <2>2. rest # <<>> /\ Head(rest) = a /\ Tail(rest) = Range1(a + 1, Len(Files))
    BY <1>1, <2>1, Range1Takes
  <2>3. QED
    BY <2>1, <2>2
<1>4. QED
  BY <1>2, <1>3

(* A topic of at most QueueSize events stays one. *)
LEMMA EnqueueShape ==
  ASSUME NEW S, NEW q \in Seq(S), Len(q) <= QueueSize, NEW m \in S
  PROVE  /\ Enqueue(q, m) \in Seq(S) /\ Len(Enqueue(q, m)) <= QueueSize
         /\ Len(Enqueue(q, m)) <= Len(q) + 1
<1>1. Len(q) \in Nat /\ QueueSize \in Nat \ {0}
  BY LenProperties, IngestionConfigOK
<1>2. CASE Len(q) < QueueSize
  <2>1. Append(q, m) \in Seq(S) /\ Len(Append(q, m)) = Len(q) + 1
    BY AppendProperties
  <2>2. QED
    BY <1>1, <1>2, <2>1 DEF Enqueue
<1>3. CASE ~(Len(q) < QueueSize)
  <2>1. q # <<>>
    BY <1>1, <1>3, EmptySeq
  <2>2. Tail(q) \in Seq(S) /\ Len(Tail(q)) = Len(q) - 1
    BY <2>1, HeadTailProperties
  <2>3. Append(Tail(q), m) \in Seq(S) /\ Len(Append(Tail(q), m)) = Len(q)
    BY <1>1, <2>2, AppendProperties
  <2>4. QED
    BY <1>1, <1>3, <2>3 DEF Enqueue
<1>4. QED
  BY <1>2, <1>3

----------------------------------------------------------------------------
(* What the parts of a step leave behind *)

(* Marking a row changes its status only. *)
LEMMA MarkedRow ==
  ASSUME NEW v \in Connections, v.row # 0
  PROVE  LET marked == [v.rows EXCEPT ![v.row].status = "COMPLETED"] IN
         /\ v.row \in 1..Len(v.rows) /\ marked \in Seq(VideoRows) /\ Len(marked) = Len(v.rows)
         /\ \A i \in 1..Len(v.rows) :
              marked[i].status = IF i = v.row THEN "COMPLETED" ELSE v.rows[i].status
<1> DEFINE r == [v.rows[v.row] EXCEPT !.status = "COMPLETED"]
<1>1. v.rows \in Seq(VideoRows) /\ Len(v.rows) \in Nat /\ v.row \in 1..Len(v.rows)
  BY LenProperties DEF Connections
<1>2. v.rows[v.row] \in VideoRows
  BY <1>1, ElementOfSeq
<1>3. r \in VideoRows /\ r.status = "COMPLETED"
  BY <1>2 DEF VideoRows
<1> HIDE DEF r
<1>4. /\ [v.rows EXCEPT ![v.row] = r] \in Seq(VideoRows)
      /\ Len([v.rows EXCEPT ![v.row] = r]) = Len(v.rows)
      /\ \A i \in 1..Len(v.rows) :
           [v.rows EXCEPT ![v.row] = r][i] = IF i = v.row THEN r ELSE v.rows[i]
  BY <1>1, <1>3, ExceptSeq
<1>5. [v.rows EXCEPT ![v.row].status = "COMPLETED"] = [v.rows EXCEPT ![v.row] = r]
  BY DEF r
<1>6. QED
  BY <1>1, <1>3, <1>4, <1>5

(* After it the row that was played is no stray. *)
LEMMA MarkedStray ==
  ASSUME NEW v \in Connections, v.row # 0, NEW c \in Nat \cup {NoCap}
  PROVE  LET w == [cap |-> c, row |-> 0,
                   rows |-> [v.rows EXCEPT ![v.row].status = "COMPLETED"]] IN
         w \in Connections /\ Stray(w) = Stray(v) /\ Len(w.rows) = Len(v.rows)
<1> DEFINE marked == [v.rows EXCEPT ![v.row].status = "COMPLETED"]
           w == [cap |-> c, row |-> 0, rows |-> marked]
<1>1. /\ v.row \in 1..Len(v.rows) /\ marked \in Seq(VideoRows) /\ Len(marked) = Len(v.rows)
      /\ \A i \in 1..Len(v.rows) :
           marked[i].status = IF i = v.row THEN "COMPLETED" ELSE v.rows[i].status
  BY MarkedRow
<1> HIDE DEF marked
<1>2. w \in Connections
  BY <1>1 DEF Connections
<1>3. Stray(w) = Stray(v)
  BY <1>1 DEF Stray
<1>4. QED
  BY <1>1, <1>2, <1>3 DEF marked

(* close() forgets the row and the capture, or fails and keeps both. *)
LEMMA CloseStep ==
  ASSUME NEW how, NEW v \in Connections, Close(how, v), faults \in 0..MaxFaults
  PROVE  /\ conn' \in Connections /\ faults' \in 0..MaxFaults
         /\ Stray(conn') = Stray(v) /\ Len(conn'.rows) = Len(v.rows)
         /\ \/ at' = how /\ conn'.cap = NoCap /\ conn'.row = 0
            \/ at' = "raised" /\ conn' = v /\ v.row # 0 /\ faults' > 0
<1>1. CASE v.row # 0 /\ Fault /\ at' = "raised" /\ conn' = v
  BY <1>1, IngestionConfigOK DEF Fault
<1>2. CASE /\ at' = how /\ faults' = faults
           /\ conn' = [cap |-> NoCap, row |-> 0,
                rows |-> IF v.row = 0 THEN v.rows
                         ELSE [v.rows EXCEPT ![v.row].status = "COMPLETED"]]
  <2>1. CASE v.row = 0
    <3>1. conn' = [cap |-> NoCap, row |-> 0, rows |-> v.rows]
      BY <1>2, <2>1
    <3>2. conn' \in Connections /\ Stray(conn') = Stray(v)
      BY <2>1, <3>1 DEF Connections, Stray
    <3>3. QED
      BY <1>2, <3>1, <3>2
  <2>2. CASE v.row # 0
    <3>1. conn' = [cap |-> NoCap, row |-> 0,
                   rows |-> [v.rows EXCEPT ![v.row].status = "COMPLETED"]]
      BY <1>2, <2>2
    <3>2. conn' \in Connections /\ Stray(conn') = Stray(v) /\ Len(conn'.rows) = Len(v.rows)
      BY <2>2, <3>1, MarkedStray
    <3>3. QED
      BY <1>2, <3>1, <3>2
  <2>3. QED
    BY <2>1, <2>2
<1>3. QED
  BY <1>1, <1>2 DEF Close

(* The head of the loop reads on, or closes because of the request to stop. *)
LEMMA LoopHeadStep ==
  ASSUME NEW v \in Connections, LoopHead(v), faults \in 0..MaxFaults
  PROVE  /\ conn' \in Connections /\ faults' \in 0..MaxFaults /\ inLoop' = TRUE
         /\ Stray(conn') = Stray(v)
         /\ \/ at' = "read" /\ conn' = v
            \/ at' = "ended" /\ stop /\ conn'.cap = NoCap /\ conn'.row = 0
            \/ at' = "raised" /\ conn' = v /\ v.row # 0 /\ faults' > 0
<1>1. CASE stop
  BY <1>1, CloseStep DEF LoopHead
<1>2. CASE ~stop
  BY <1>2 DEF LoopHead
<1>3. QED
  BY <1>1, <1>2

(* With no file left the loop ends, else the next one is opened; there is  *)
(* no row at that moment, so that nothing can fail.                        *)
LEMMA TryNextStep ==
  ASSUME NEW v \in Connections, v.row = 0, faults \in 0..MaxFaults, source \in Sources,
         index \in 1..Len(Files), NEW cs \in Seq(1..Len(Files)), todo \in Seq(1..Len(Files)),
         TryNext(cs, v)
  PROVE  /\ conn' \in Connections /\ faults' \in 0..MaxFaults
         /\ index' \in 1..Len(Files) /\ todo' \in Seq(1..Len(Files))
         /\ Stray(conn') = Stray(v) /\ conn'.cap = NoCap /\ conn'.row = 0
         /\ \/ at' = "ended" /\ cs = <<>> /\ index' = index
            \/ at' = "open" /\ cs # <<>> /\ index' = Head(cs) /\ todo' = Tail(cs)
<1>1. CASE cs = <<>>
  BY <1>1, CloseStep DEF TryNext
<1>2. CASE cs # <<>>
  <2>1. /\ index' = Head(cs) /\ todo' = Tail(cs) /\ at' = "open"
        /\ conn' = [v EXCEPT !.cap = NoCap] /\ UNCHANGED faults
    BY <1>2 DEF TryNext
  <2>2. Head(cs) \in 1..Len(Files) /\ Tail(cs) \in Seq(1..Len(Files))
    BY <1>2, HeadTailProperties
  <2>3. conn' \in Connections /\ Stray(conn') = Stray(v) /\ conn'.cap = NoCap /\ conn'.row = 0
    BY <2>1 DEF Connections, Stray
  <2>4. QED
    BY <1>2, <2>1, <2>2, <2>3
<1>3. QED
  BY <1>1, <1>2

(* An open file is read at once by _advance(), by the loop after connect(). *)
LEMMA FileReadyStep ==
  ASSUME NEW v \in Connections, FileReady(v), faults \in 0..MaxFaults, inLoop \in BOOLEAN
  PROVE  /\ conn' \in Connections /\ faults' \in 0..MaxFaults /\ inLoop' = TRUE
         /\ Stray(conn') = Stray(v)
         /\ \/ at' \in {"firstRead", "read"} /\ conn' = v
            \/ at' = "ended" /\ stop /\ conn'.cap = NoCap /\ conn'.row = 0
            \/ at' = "raised" /\ conn' = v /\ v.row # 0 /\ faults' > 0
<1>1. CASE inLoop
  BY <1>1 DEF FileReady
<1>2. CASE ~inLoop
  <2>1. LoopHead(v)
    BY <1>2 DEF FileReady
  <2>2. QED
    BY <2>1, LoopHeadStep
<1>3. QED
  BY <1>1, <1>2

(* A file that cannot be opened ends connect() and makes _advance() try on. *)
LEMMA OpenRaisesStep ==
  ASSUME NEW v \in Connections, v.row = 0, OpenRaises(v), faults \in 0..MaxFaults,
         source \in Sources, index \in 1..Len(Files), todo \in Seq(1..Len(Files))
  PROVE  /\ conn' \in Connections /\ faults' \in 0..MaxFaults
         /\ index' \in 1..Len(Files) /\ todo' \in Seq(1..Len(Files))
         /\ Stray(conn') = Stray(v) /\ conn'.row = 0
         /\ \/ at' = "raised"
            \/ at' = "ended" /\ todo = <<>> /\ inLoop /\ index' = index /\ conn'.cap = NoCap
            \/ /\ at' = "open" /\ inLoop /\ todo # <<>>
               /\ index' = Head(todo) /\ todo' = Tail(todo)
<1>1. CASE inLoop
  BY <1>1, TryNextStep DEF OpenRaises
<1>2. CASE ~inLoop
  BY <1>2 DEF OpenRaises
<1>3. QED
  BY <1>1, <1>2

(* Delivering a frame publishes at most one event. *)
LEMMA DeliverStep ==
  ASSUME NEW v \in Connections, Deliver(v), IngestionTypes
  PROVE  /\ LoopHead(v) /\ frameId' \in 0..MaxFrames
         /\ frames' \in Seq(0..MaxOpens) /\ Len(frames') <= QueueSize
         /\ \/ UNCHANGED <<frameId, frames>>
            \/ frameId' = frameId + 1 /\ Len(frames') <= Len(frames) + 1
<1>1. Session \in 0..MaxOpens
  BY LenProperties, IngestionConfigOK DEF IngestionTypes, Session
<1>2. CASE UNCHANGED <<frameId, frames>>
  BY <1>2 DEF Deliver, IngestionTypes
<1>3. CASE PublishFrame
  <2>1. frames' = Enqueue(frames, Session) /\ frameId' = frameId + 1 /\ frameId < MaxFrames
    BY <1>3 DEF PublishFrame
  <2>2. frames \in Seq(0..MaxOpens) /\ Len(frames) <= QueueSize /\ frameId \in 0..MaxFrames
    BY DEF IngestionTypes
  <2>3. frames' \in Seq(0..MaxOpens) /\ Len(frames') <= QueueSize /\ Len(frames') <= Len(frames) + 1
    BY <1>1, <2>1, <2>2, EnqueueShape
  <2>4. frameId' \in 0..MaxFrames
    BY <2>1, <2>2, IngestionConfigOK
  <2>5. QED
    BY <2>1, <2>3, <2>4 DEF Deliver
<1>4. QED
  BY <1>2, <1>3 DEF Deliver, Invalid, NotDue

----------------------------------------------------------------------------
(* The playlist *)

(* A file that is opened is the next of the readable ones. *)
LEMMA OpensNext ==
  ASSUME NEW n \in Nat, n + 1 \in 1..Len(Files), Files[n + 1] # Unreadable, OpenedUpTo(n),
         NEW S, opened \in Seq(S), n + 1 \in S,
         \A i, j \in 1..Len(opened) : i < j => opened[i] < opened[j],
         opened' = Append(opened, n + 1), source' = source
  PROVE  /\ OpenedUpTo(n + 1)'
         /\ \A i, j \in 1..Len(opened') : i < j => opened'[i] < opened'[j]
<1>1. /\ Len(opened) \in Nat /\ Len(opened') = Len(opened) + 1
      /\ \A i \in 1..Len(opened) : opened'[i] = opened[i]
      /\ opened'[Len(opened) + 1] = n + 1
  BY LenProperties, AppendProperties
<1>2. \A i \in 1..Len(opened) : opened[i] \in 1..n /\ Files[opened[i]] # Unreadable
  BY DEF OpenedUpTo
<1>3. ASSUME NEW i \in 1..Len(opened'), NEW j \in 1..Len(opened'), i < j
      PROVE  opened'[i] < opened'[j]
  <2>1. i \in 1..Len(opened)
    BY <1>1, <1>3
  <2>2. CASE j = Len(opened) + 1
    BY <1>1, <1>2, <2>1, <2>2
  <2>3. CASE j # Len(opened) + 1
    BY <1>1, <1>3, <2>1, <2>3, SMTT(30)
  <2>4. QED
    BY <2>2, <2>3
<1>4. {opened'[i] : i \in 1..Len(opened')} = {opened[i] : i \in 1..Len(opened)} \cup {n + 1}
  BY <1>1
<1>5. {i \in 1..(n + 1) : Files[i] # Unreadable} = {i \in 1..n : Files[i] # Unreadable} \cup {n + 1}
  OBVIOUS
<1>6. Files' = Files
  BY DEF Files
<1>7. OpenedUpTo(n + 1)'
  BY <1>4, <1>5, <1>6 DEF OpenedUpTo
<1>8. QED
  BY <1>3, <1>7

(* A file that cannot be read is passed over. *)
LEMMA PassesOver ==
  ASSUME NEW n \in Nat, Files[n + 1] = Unreadable, OpenedUpTo(n)
  PROVE  OpenedUpTo(n + 1)
<1>1. {i \in 1..(n + 1) : Files[i] # Unreadable} = {i \in 1..n : Files[i] # Unreadable}
  OBVIOUS
<1>2. QED
  BY <1>1 DEF OpenedUpTo

----------------------------------------------------------------------------
(* Every step of the ingestion keeps its invariant *)

USE DEF Awaits, Ended

(* Nothing is stray but for a cancelled task. *)
LEMMA NoStray ==
  ASSUME OthersClosed, at # "cancelled"
  PROVE  Stray(conn) = {}
BY DEF OthersClosed

LEMMA ConnectKeeps ==
  ASSUME IngestionInv, Connect
  PROVE  IngestionInv'
<1>1. IngestionTypes'
  BY DEF IngestionInv, IngestionTypes, Connect, Files
<1>2. HeldRow'
  BY DEF IngestionInv, HeldRow, Connect, Video
<1>3. OthersClosed'
  BY DEF IngestionInv, OthersClosed, Connect, Stray
<1>4. PlayedSoFar'
  BY DEF IngestionInv, HeldRow, PlayedSoFar, Connect, Video, Files, OpenedUpTo
<1>5. QED
  BY <1>1, <1>2, <1>3, <1>4 DEF IngestionInv

LEMMA OpenFileKeeps ==
  ASSUME IngestionInv, OpenFile
  PROVE  IngestionInv'
<1> DEFINE v == [conn EXCEPT !.cap = Files[index]]
<1>1. /\ Video /\ at = "open" /\ Files[index] # Unreadable /\ Len(opened) < MaxOpens
      /\ opened' = Append(opened, index)
      /\ IF source.db THEN at' = "insert" /\ conn' = v /\ UNCHANGED <<inLoop, faults>>
         ELSE FileReady(v)
      /\ UNCHANGED <<source, index, todo, stop, frameId, frames>>
  BY DEF OpenFile
<1>2. /\ IngestionTypes /\ Files[index] \in Nat /\ conn.row = 0 /\ Stray(conn) = {}
      /\ source \in Sources
  BY <1>1, FilesShape, NoStray DEF IngestionInv, IngestionTypes, HeldRow
<1>3. v \in Connections /\ v.row = 0 /\ v.cap = Files[index] /\ Stray(v) = {}
  BY <1>2 DEF IngestionTypes, Connections, Stray
<1> HIDE DEF v
<1>4. /\ conn' \in Connections /\ faults' \in 0..MaxFaults /\ inLoop' \in BOOLEAN
      /\ Stray(conn') = {}
      /\ \/ at' \in {"insert", "firstRead", "read"} /\ conn' = v
         \/ at' = "ended" /\ stop /\ conn'.cap = NoCap /\ conn'.row = 0
  <2>1. CASE source.db
    BY <1>1, <1>2, <1>3, <2>1 DEF IngestionTypes
  <2>2. CASE ~source.db
    BY <1>1, <1>2, <1>3, <2>2, FileReadyStep DEF IngestionTypes
  <2>3. QED
    BY <2>1, <2>2
<1>5. /\ opened' \in Seq(1..Len(Files)) /\ Len(opened') <= MaxOpens
  BY <1>1, <1>2, AppendProperties, LenProperties, IngestionConfigOK DEF IngestionTypes
<1>6. IngestionTypes'
  BY <1>1, <1>2, <1>4, <1>5 DEF IngestionTypes, Files
<1>7. HeldRow'
  BY <1>1, <1>2, <1>3, <1>4 DEF HeldRow, Video
<1>8. OthersClosed'
  BY <1>4 DEF OthersClosed, Stray
<1>9. PlayedSoFar'
  <2> SUFFICES ASSUME Video, ~source.loop
               PROVE  PlayedSoFar'
    BY <1>1 DEF PlayedSoFar, Video
  <2>1. /\ OpenedUpTo(index - 1)
        /\ \A i, j \in 1..Len(opened) : i < j => opened[i] < opened[j]
    BY <1>1 DEF IngestionInv, PlayedSoFar
  <2>2. /\ OpenedUpTo(index)'
        /\ \A i, j \in 1..Len(opened') : i < j => opened'[i] < opened'[j]
    <3>1. PICK n \in Nat : n = index - 1 /\ n + 1 = index
      BY <1>2, FilesShape DEF IngestionTypes
    <3>2. opened \in Seq(1..Len(Files)) /\ index \in 1..Len(Files)
      BY <1>2 DEF IngestionTypes
    <3>3. OpenedUpTo(n) /\ OpenedUpTo(n + 1)' <=> OpenedUpTo(index)'
      BY <1>1, <2>1, <3>1 DEF OpenedUpTo, Files
    <3>4. QED
      BY <1>1, <2>1, <3>1, <3>2, <3>3, OpensNext
  <2>3. at' \in {"insert", "read", "firstRead"} => conn'.cap = Files[index]
    BY <1>3, <1>4
  <2>4. QED
    BY <1>1, <1>4, <2>2, <2>3 DEF PlayedSoFar, Files
<1>10. QED
  BY <1>6, <1>7, <1>8, <1>9 DEF IngestionInv

(* A row that is appended is one more, INGESTING only if it is the one     *)
(* played from then on.                                                    *)
LEMMA AddedRow ==
  ASSUME IngestionTypes, Stray(conn) = {}, conn.row = 0
  PROVE  /\ LET v == [conn EXCEPT !.rows = Append(@, Row("INGESTING")), !.row = Len(conn.rows) + 1]
            IN  v \in Connections /\ v.row # 0 /\ v.cap = conn.cap /\ Stray(v) = {}
         /\ LET v == [conn EXCEPT !.rows = Append(@, Row("FAILED"))]
            IN  v \in Connections /\ v.row = 0 /\ Stray(v) = {}
         /\ LET v == [conn EXCEPT !.rows = Append(@, Row("INGESTING"))]
            IN  /\ v \in Connections /\ v.row = 0 /\ Len(v.rows) = Len(conn.rows) + 1
                /\ Stray(v) \subseteq {Len(v.rows)}
<1>1. /\ conn.rows \in Seq(VideoRows) /\ Len(conn.rows) \in Nat
      /\ conn \in [cap : Nat \cup {NoCap}, row : Nat, rows : Seq(VideoRows)]
  BY LenProperties DEF IngestionTypes, Connections
<1>2. \A i \in 1..Len(conn.rows) : conn.rows[i].status # "INGESTING"
  BY <1>1 DEF Stray
<1>3. Row("INGESTING") \in VideoRows /\ Row("FAILED") \in VideoRows
  BY FilesShape DEF IngestionTypes, Row, VideoRows
<1>4. ASSUME NEW st \in {"INGESTING", "FAILED"}
      PROVE  /\ Append(conn.rows, Row(st)) \in Seq(VideoRows)
             /\ Len(Append(conn.rows, Row(st))) = Len(conn.rows) + 1
             /\ \A i \in 1..Len(conn.rows) : Append(conn.rows, Row(st))[i].status # "INGESTING"
             /\ Append(conn.rows, Row(st))[Len(conn.rows) + 1].status = st
  <2>1. Row(st) \in VideoRows /\ Row(st).status = st
    BY <1>3, <1>4 DEF Row
  <2>2. QED
    BY <1>1, <1>2, <2>1, AppendProperties
<1> DEFINE more == Append(conn.rows, Row("INGESTING"))
<1>a. /\ more \in Seq(VideoRows) /\ Len(more) = Len(conn.rows) + 1
      /\ \A i \in 1..Len(conn.rows) : more[i].status # "INGESTING"
  BY <1>4
<1> HIDE DEF more
<1>5. LET v == [conn EXCEPT !.rows = more, !.row = Len(conn.rows) + 1]
      IN  v \in Connections /\ v.row # 0 /\ v.cap = conn.cap /\ Stray(v) = {}
  <2> DEFINE v == [conn EXCEPT !.rows = more, !.row = Len(conn.rows) + 1]
  <2>1. v.rows = more /\ v.row = Len(conn.rows) + 1 /\ v.cap = conn.cap
    BY <1>1
  <2>a. \A n \in Nat : [conn EXCEPT !.rows = more, !.row = n]
                        \in [cap : Nat \cup {NoCap}, row : Nat, rows : Seq(VideoRows)]
    BY <1>1, <1>a
  <2>b. Len(conn.rows) + 1 \in Nat
    BY <1>1
  <2>2. v \in [cap : Nat \cup {NoCap}, row : Nat, rows : Seq(VideoRows)]
    BY <2>a, <2>b
  <2> HIDE DEF v
  <2>3. v \in Connections
    BY <1>1, <1>a, <2>1, <2>2 DEF Connections
  <2>4. Stray(v) = {}
    BY <1>1, <1>a, <2>1 DEF Stray
  <2>5. QED
    BY <1>1, <2>1, <2>3, <2>4 DEF v
<1>6. LET v == [conn EXCEPT !.rows = Append(@, Row("FAILED"))]
      IN  v \in Connections /\ v.row = 0 /\ Stray(v) = {}
  BY <1>1, <1>4, SMTT(30) DEF Connections, Stray
<1>7. LET v == [conn EXCEPT !.rows = more]
      IN  /\ v \in Connections /\ v.row = 0 /\ Len(v.rows) = Len(conn.rows) + 1
          /\ Stray(v) \subseteq {Len(v.rows)}
  BY <1>1, <1>a DEF Connections, Stray
<1>8. QED
  BY <1>5, <1>6, <1>7 DEF more

(* RuntimeError out of _open_current(), with or without a row of its own.  *)
LEMMA RaisesKeeps ==
  ASSUME IngestionInv, at \in {"open", "insertFailed"}, Files[index] = Unreadable \/ at = "insertFailed",
         Video \/ at = "insertFailed",
         NEW v \in Connections, v.row = 0, Stray(v) = {}, OpenRaises(v),
         UNCHANGED <<source, inLoop, stop, frameId, frames, opened>>
  PROVE  IngestionInv'
<1>1. /\ IngestionTypes /\ Len(Files) \in Nat \ {0} /\ source \in Sources
      /\ index \in 1..Len(Files) /\ todo \in Seq(1..Len(Files)) /\ faults \in 0..MaxFaults
  BY FilesShape DEF IngestionInv, IngestionTypes
<1>2. /\ conn' \in Connections /\ faults' \in 0..MaxFaults
      /\ index' \in 1..Len(Files) /\ todo' \in Seq(1..Len(Files))
      /\ Stray(conn') = {} /\ conn'.row = 0
      /\ \/ at' = "raised"
         \/ at' = "ended" /\ todo = <<>> /\ inLoop /\ index' = index /\ conn'.cap = NoCap
         \/ /\ at' = "open" /\ inLoop /\ todo # <<>>
            /\ index' = Head(todo) /\ todo' = Tail(todo)
  BY <1>1, OpenRaisesStep
<1>3. IngestionTypes'
  BY <1>1, <1>2 DEF IngestionTypes, Files
<1>4. HeldRow'
  BY <1>2 DEF HeldRow, Video
<1>5. OthersClosed'
  BY <1>2 DEF OthersClosed, Stray
<1>6. PlayedSoFar'
  <2> SUFFICES ASSUME Video, ~source.loop
               PROVE  PlayedSoFar'
    BY DEF PlayedSoFar, Video
  <2>1. /\ OpenedUpTo(index - 1) /\ Files[index] = Unreadable
        /\ inLoop => todo = Range1(index + 1, Len(Files))
        /\ \A i, j \in 1..Len(opened) : i < j => opened[i] < opened[j]
    BY DEF IngestionInv, PlayedSoFar
  <2>2. OpenedUpTo(index)
    <3>1. PICK n \in Nat : n = index - 1 /\ n + 1 = index
      BY <1>1
    <3>2. Files[n + 1] = Unreadable /\ OpenedUpTo(n) /\ (OpenedUpTo(n + 1) <=> OpenedUpTo(index))
      BY <2>1, <3>1
    <3>3. QED
      BY <3>2, PassesOver
  <2>3. CASE at' = "raised"
    BY <2>1, <2>3 DEF PlayedSoFar
  <2>4. CASE at' = "ended" /\ todo = <<>> /\ inLoop /\ index' = index
    <3>1. index = Len(Files)
      BY <1>1, <2>1, <2>4, NextIsLeft
    <3>2. OpenedUpTo(Len(Files))'
      BY <2>2, <3>1 DEF OpenedUpTo, Files
    <3>3. QED
      BY <2>1, <2>4, <3>2 DEF PlayedSoFar, Files
  <2>5. CASE /\ at' = "open" /\ inLoop /\ todo # <<>>
             /\ index' = Head(todo) /\ todo' = Tail(todo)
    <3>2. index' = index + 1 /\ todo' = Range1(index + 2, Len(Files))
      BY <1>1, <2>1, <2>5, NextIsLeft
    <3>3. index' - 1 = index /\ index' + 1 = index + 2
      BY <1>1, <3>2
    <3>4. /\ {opened'[i] : i \in 1..Len(opened')} = {i \in 1..(index' - 1) : Files'[i] # Unreadable}
          /\ todo' = Range1(index' + 1, Len(Files'))
      BY <2>2, <3>2, <3>3 DEF OpenedUpTo, Files
    <3>5. QED
      BY <2>1, <2>5, <3>4 DEF PlayedSoFar, OpenedUpTo
  <2>6. QED
    BY <1>2, <2>3, <2>4, <2>5
<1>7. QED
  BY <1>3, <1>4, <1>5, <1>6 DEF IngestionInv

LEMMA OpenUnreadableKeeps ==
  ASSUME IngestionInv, OpenUnreadable
  PROVE  IngestionInv'
<1>1. /\ Video /\ at = "open" /\ Files[index] = Unreadable
      /\ IF source.db THEN at' = "insertFailed" /\ UNCHANGED <<conn, index, todo, faults>>
         ELSE OpenRaises(conn)
      /\ UNCHANGED <<source, inLoop, stop, frameId, frames, opened>>
  BY DEF OpenUnreadable
<1>2. /\ IngestionTypes /\ conn.row = 0 /\ Stray(conn) = {} /\ source \in Sources
      /\ conn \in Connections /\ Len(Files) \in Nat \ {0}
      /\ index \in 1..Len(Files) /\ todo \in Seq(1..Len(Files)) /\ faults \in 0..MaxFaults
  BY <1>1, FilesShape, NoStray DEF IngestionInv, IngestionTypes, HeldRow
<1>3. CASE source.db
  <2>1. IngestionTypes'
    BY <1>1, <1>2, <1>3 DEF IngestionTypes, Files
  <2>2. HeldRow' /\ OthersClosed'
    BY <1>1, <1>2, <1>3 DEF HeldRow, Video, OthersClosed, Stray
  <2>3. PlayedSoFar'
    BY <1>1, <1>2, <1>3 DEF IngestionInv, PlayedSoFar, Video, Files, OpenedUpTo
  <2>4. QED
    BY <2>1, <2>2, <2>3 DEF IngestionInv
<1>4. CASE ~source.db
  <2>1. OpenRaises(conn)
    BY <1>1, <1>4
  <2>2. QED
    BY <1>1, <1>2, <2>1, RaisesKeeps
<1>5. QED
  BY <1>3, <1>4

LEMMA InsertRowKeeps ==
  ASSUME IngestionInv, InsertRow
  PROVE  IngestionInv'
<1> DEFINE v == [conn EXCEPT !.rows = Append(@, Row("INGESTING")), !.row = Len(conn.rows) + 1]
<1>1. /\ at = "insert" /\ FileReady(v)
      /\ UNCHANGED <<source, index, todo, stop, frameId, frames, opened>>
  BY DEF InsertRow
<1>2. /\ IngestionTypes /\ Stray(conn) = {} /\ source \in Sources /\ conn \in Connections
      /\ faults \in 0..MaxFaults /\ inLoop \in BOOLEAN /\ conn.row = 0
  BY <1>1, NoStray DEF IngestionInv, IngestionTypes, HeldRow
<1>3. /\ v \in Connections /\ v.row # 0 /\ v.cap = conn.cap /\ Stray(v) = {}
  BY <1>2, AddedRow
<1> HIDE DEF v
<1>4. /\ conn' \in Connections /\ faults' \in 0..MaxFaults /\ inLoop' = TRUE
      /\ Stray(conn') = {}
      /\ \/ at' \in {"firstRead", "read"} /\ conn' = v
         \/ at' = "ended" /\ stop /\ conn'.cap = NoCap /\ conn'.row = 0
         \/ at' = "raised" /\ conn' = v /\ faults' > 0
  BY <1>1, <1>2, <1>3, FileReadyStep
<1>5. IngestionTypes'
  BY <1>1, <1>2, <1>4 DEF IngestionTypes, Files
<1>6. HeldRow'
  BY <1>1, <1>3, <1>4 DEF IngestionInv, HeldRow, Video
<1>7. OthersClosed'
  BY <1>4 DEF OthersClosed, Stray
<1>8. PlayedSoFar'
  BY <1>1, <1>3, <1>4 DEF IngestionInv, PlayedSoFar, Video, Files, OpenedUpTo
<1>9. QED
  BY <1>5, <1>6, <1>7, <1>8 DEF IngestionInv

LEMMA InsertFailedRowKeeps ==
  ASSUME IngestionInv, InsertFailedRow
  PROVE  IngestionInv'
<1> DEFINE v == [conn EXCEPT !.rows = Append(@, Row("FAILED"))]
<1>1. /\ at = "insertFailed" /\ OpenRaises(v)
      /\ UNCHANGED <<source, inLoop, stop, frameId, frames, opened>>
  BY DEF InsertFailedRow
<1>2. /\ IngestionTypes /\ Stray(conn) = {} /\ conn \in Connections /\ conn.row = 0
  BY <1>1, NoStray DEF IngestionInv, IngestionTypes, HeldRow
<1>3. v \in Connections /\ v.row = 0 /\ Stray(v) = {}
  BY <1>2, AddedRow
<1> HIDE DEF v
<1>4. QED
  BY <1>1, <1>2, <1>3, RaisesKeeps

(* close(), for whatever reason the task ends. *)
LEMMA ClosesKeeps ==
  ASSUME IngestionInv, NEW how \in {"ended", "cancelled"}, NEW v \in Connections, Close(how, v),
         Stray(v) = {} \/ (how = "cancelled" /\ v.row = 0 /\ Stray(v) \subseteq {Len(v.rows)}),
         ~Video => v.row = 0,
         how = "ended" /\ Video /\ ~source.loop => stop \/ \E i \in 1..Len(Files) : Files[i] = 0,
         UNCHANGED <<source, index, todo, stop, frameId, frames, opened>>, inLoop' \in BOOLEAN
  PROVE  IngestionInv'
<1>1. IngestionTypes /\ faults \in 0..MaxFaults
  BY DEF IngestionInv, IngestionTypes
<1>2. /\ conn' \in Connections /\ faults' \in 0..MaxFaults
      /\ Stray(conn') = Stray(v) /\ Len(conn'.rows) = Len(v.rows)
      /\ \/ at' = how /\ conn'.cap = NoCap /\ conn'.row = 0
         \/ at' = "raised" /\ conn' = v /\ v.row # 0 /\ faults' > 0
  BY <1>1, CloseStep
<1>3. IngestionTypes'
  BY <1>1, <1>2 DEF IngestionTypes, Files
<1>4. HeldRow'
  BY <1>2 DEF HeldRow, Video
<1>5. OthersClosed'
  <2>1. Stray(conn)' = Stray(conn')
    BY DEF Stray
  <2>2. QED
    BY <1>2, <2>1 DEF OthersClosed
<1>6. PlayedSoFar'
  BY <1>2 DEF IngestionInv, PlayedSoFar, Video, Files, OpenedUpTo
<1>7. QED
  BY <1>3, <1>4, <1>5, <1>6 DEF IngestionInv

LEMMA InsertRaisesKeeps ==
  ASSUME IngestionInv, InsertRaises
  PROVE  IngestionInv'
<1>1. /\ at \in {"insert", "insertFailed"} /\ at' = "raised"
      /\ conn' = IF inLoop THEN [conn EXCEPT !.cap = NoCap] ELSE conn
      /\ faults < MaxFaults /\ faults' = faults + 1
      /\ UNCHANGED <<source, inLoop, index, todo, stop, frameId, frames, opened>>
  BY DEF InsertRaises, Fault
<1>2. /\ IngestionTypes /\ Stray(conn) = {} /\ conn \in Connections /\ conn.row = 0
  BY <1>1, NoStray DEF IngestionInv, IngestionTypes, HeldRow
<1>3. conn' \in Connections /\ conn'.row = 0 /\ Stray(conn') = {}
  BY <1>1, <1>2 DEF Connections, Stray
<1>4. IngestionTypes'
  BY <1>1, <1>2, <1>3, IngestionConfigOK DEF IngestionTypes, Files
<1>5. HeldRow' /\ OthersClosed'
  BY <1>1, <1>3 DEF HeldRow, Video, OthersClosed, Stray
<1>6. PlayedSoFar'
  BY <1>1 DEF IngestionInv, PlayedSoFar, Video, Files, OpenedUpTo
<1>7. QED
  BY <1>4, <1>5, <1>6 DEF IngestionInv

(* A frame was read from a file or a stream. *)
LEMMA DeliverKeeps ==
  ASSUME IngestionInv, at \in {"read", "firstRead"}, NEW v \in Connections, Deliver(v),
         v.row = conn.row, Stray(v) = {}, Video => v.cap \in Nat,
         UNCHANGED <<source, index, todo, stop, opened>>
  PROVE  IngestionInv'
<1>1. IngestionTypes /\ faults \in 0..MaxFaults
  BY DEF IngestionInv, IngestionTypes
<1>2. /\ LoopHead(v) /\ frameId' \in 0..MaxFrames
      /\ frames' \in Seq(0..MaxOpens) /\ Len(frames') <= QueueSize
  BY <1>1, DeliverStep
<1>3. /\ conn' \in Connections /\ faults' \in 0..MaxFaults /\ inLoop' = TRUE
      /\ Stray(conn') = {}
      /\ \/ at' = "read" /\ conn' = v
         \/ at' = "ended" /\ stop /\ conn'.cap = NoCap /\ conn'.row = 0
         \/ at' = "raised" /\ conn' = v /\ faults' > 0
  BY <1>1, <1>2, LoopHeadStep
<1>4. IngestionTypes'
  BY <1>1, <1>2, <1>3 DEF IngestionTypes, Files
<1>5. HeldRow'
  BY <1>3 DEF IngestionInv, HeldRow, Video
<1>6. OthersClosed'
  BY <1>3 DEF OthersClosed, Stray
<1>7. PlayedSoFar'
  BY <1>3 DEF IngestionInv, PlayedSoFar, Video, Files, OpenedUpTo
<1>8. QED
  BY <1>4, <1>5, <1>6, <1>7 DEF IngestionInv

LEMMA ReadsKeep ==
  ASSUME IngestionInv, ReadFrame \/ ReadStream
  PROVE  IngestionInv'
<1>1. /\ conn \in Connections /\ Stray(conn) = {}
  BY NoStray DEF IngestionInv, IngestionTypes, ReadFrame, ReadStream
<1>2. CASE ReadFrame
  <2> DEFINE v == [conn EXCEPT !.cap = @ - 1]
  <2>1. /\ Video /\ at \in {"read", "firstRead"} /\ conn.cap > 0 /\ Deliver(v)
        /\ UNCHANGED <<source, index, todo, stop, opened>>
    BY <1>2 DEF ReadFrame
  <2>2. conn.cap \in Nat
    BY <2>1 DEF IngestionInv, HeldRow
  <2>3. conn.cap - 1 \in Nat
    BY <2>1, <2>2
  <2>4. v \in Connections /\ v.row = conn.row /\ Stray(v) = {} /\ v.cap \in Nat
    BY <1>1, <2>3 DEF Connections, Stray
  <2> HIDE DEF v
  <2>5. QED
    BY <2>1, <2>4, DeliverKeeps
<1>3. CASE ReadStream
  <2>1. /\ ~Video /\ at = "read" /\ Deliver(conn) /\ UNCHANGED <<source, index, todo, stop, opened>>
    BY <1>3 DEF ReadStream
  <2>2. QED
    BY <1>1, <2>1, DeliverKeeps
<1>4. QED
  BY <1>2, <1>3

(* The end of a file, once its row is marked: the next candidate, if any.  *)
LEMMA AdvanceKeeps ==
  ASSUME IngestionInv, at \in {"read", "mark"}, NEW v \in Connections, v.row = 0, Stray(v) = {},
         TryNext(Candidates, v), UNCHANGED <<source, inLoop, stop, frameId, frames, opened>>
  PROVE  IngestionInv'
<1>1. /\ IngestionTypes /\ Len(Files) \in Nat \ {0} /\ source \in Sources
      /\ index \in 1..Len(Files) /\ todo \in Seq(1..Len(Files)) /\ faults \in 0..MaxFaults
  BY FilesShape DEF IngestionInv, IngestionTypes
<1>2. /\ Candidates \in Seq(1..Len(Files))
      /\ ~source.loop => Candidates = Range1(index + 1, Len(Files))
  BY <1>1, CandidatesShape
<1>3. /\ conn' \in Connections /\ faults' \in 0..MaxFaults
      /\ index' \in 1..Len(Files) /\ todo' \in Seq(1..Len(Files))
      /\ Stray(conn') = {} /\ conn'.cap = NoCap /\ conn'.row = 0
      /\ \/ at' = "ended" /\ Candidates = <<>> /\ index' = index
         \/ /\ at' = "open" /\ Candidates # <<>>
            /\ index' = Head(Candidates) /\ todo' = Tail(Candidates)
  BY <1>1, <1>2, TryNextStep
<1>4. IngestionTypes'
  BY <1>1, <1>3 DEF IngestionTypes, Files
<1>5. HeldRow' /\ OthersClosed'
  BY <1>3 DEF HeldRow, Video, OthersClosed, Stray
<1>6. PlayedSoFar'
  <2> SUFFICES ASSUME Video, ~source.loop
               PROVE  PlayedSoFar'
    BY DEF PlayedSoFar, Video
  <2>1. /\ OpenedUpTo(index)
        /\ \A i, j \in 1..Len(opened) : i < j => opened[i] < opened[j]
    BY DEF IngestionInv, PlayedSoFar
  <2>2. CASE at' = "ended" /\ Candidates = <<>> /\ index' = index
    <3>1. index = Len(Files)
      BY <1>1, <1>2, <2>2, NextIsLeft
    <3>2. OpenedUpTo(Len(Files))'
      BY <2>1, <3>1 DEF OpenedUpTo, Files
    <3>3. QED
      BY <2>1, <2>2, <3>2 DEF PlayedSoFar, Files
  <2>3. CASE /\ at' = "open" /\ Candidates # <<>>
             /\ index' = Head(Candidates) /\ todo' = Tail(Candidates)
    <3>1. index' = index + 1 /\ todo' = Range1(index + 2, Len(Files))
      BY <1>1, <1>2, <2>3, NextIsLeft
    <3>2. index' - 1 = index /\ index' + 1 = index + 2
      BY <1>1, <3>1
    <3>3. /\ {opened'[i] : i \in 1..Len(opened')} = {i \in 1..(index' - 1) : Files'[i] # Unreadable}
          /\ todo' = Range1(index' + 1, Len(Files'))
      BY <2>1, <3>1, <3>2 DEF OpenedUpTo, Files
    <3>4. QED
      BY <2>1, <2>3, <3>3 DEF PlayedSoFar, OpenedUpTo
  <2>4. QED
    BY <1>3, <2>2, <2>3
<1>7. QED
  BY <1>4, <1>5, <1>6 DEF IngestionInv

LEMMA EndOfFileKeeps ==
  ASSUME IngestionInv, EndOfFile
  PROVE  IngestionInv'
<1>1. /\ Video /\ at = "read" /\ conn.cap = 0
      /\ IF conn.row # 0 THEN at' = "mark" /\ UNCHANGED <<index, todo, conn, faults>>
         ELSE TryNext(Candidates, conn)
      /\ UNCHANGED <<source, inLoop, stop, frameId, frames, opened>>
  BY DEF EndOfFile
<1>2. IngestionTypes /\ Stray(conn) = {} /\ conn \in Connections
  BY <1>1, NoStray DEF IngestionInv, IngestionTypes
<1>3. CASE conn.row # 0
  <2>1. IngestionTypes'
    BY <1>1, <1>2, <1>3 DEF IngestionTypes, Files
  <2>2. HeldRow' /\ OthersClosed'
    BY <1>1, <1>2, <1>3 DEF IngestionInv, HeldRow, Video, OthersClosed, Stray
  <2>3. PlayedSoFar'
    BY <1>1, <1>3 DEF IngestionInv, PlayedSoFar, Video, Files, OpenedUpTo
  <2>4. QED
    BY <2>1, <2>2, <2>3 DEF IngestionInv
<1>4. CASE conn.row = 0
  BY <1>1, <1>2, <1>4, AdvanceKeeps
<1>5. QED
  BY <1>3, <1>4

LEMMA MarkCompletedKeeps ==
  ASSUME IngestionInv, MarkCompleted
  PROVE  IngestionInv'
<1> DEFINE marked == [conn.rows EXCEPT ![conn.row].status = "COMPLETED"]
           v == [conn EXCEPT !.rows[conn.row].status = "COMPLETED", !.row = 0]
           w == [cap |-> conn.cap, row |-> 0, rows |-> marked]
<1>1. /\ at = "mark" /\ TryNext(Candidates, v)
      /\ UNCHANGED <<source, inLoop, stop, frameId, frames, opened>>
  BY DEF MarkCompleted
<1>2. Stray(conn) = {} /\ conn \in Connections /\ conn.row # 0
  BY <1>1, NoStray DEF IngestionInv, IngestionTypes, HeldRow
<1>3. /\ conn \in [cap : Nat \cup {NoCap}, row : Nat, rows : Seq(VideoRows)]
      /\ conn.cap \in Nat \cup {NoCap}
  BY <1>2 DEF Connections
<1>4. /\ w \in Connections /\ Stray(w) = {} /\ Len(w.rows) = Len(conn.rows)
      /\ marked \in Seq(VideoRows)
  BY <1>2, <1>3, MarkedStray, MarkedRow
<1> HIDE DEF marked
<1>5. v.rows = marked /\ v.row = 0 /\ v.cap = conn.cap
  BY <1>3 DEF marked
<1>6. v \in [cap : Nat \cup {NoCap}, row : Nat, rows : Seq(VideoRows)]
  <2>1. [conn EXCEPT !.rows = marked, !.row = 0]
          \in [cap : Nat \cup {NoCap}, row : Nat, rows : Seq(VideoRows)]
    BY <1>3, <1>4
  <2>2. v = [conn EXCEPT !.rows = marked, !.row = 0]
    BY DEF marked
  <2>3. QED
    BY <2>1, <2>2
<1> HIDE DEF v
<1>7. v \in Connections /\ Stray(v) = {}
  BY <1>4, <1>5, <1>6 DEF Connections, Stray
<1>8. QED
  BY <1>1, <1>5, <1>7, AdvanceKeeps

LEMMA MarkRaisesKeeps ==
  ASSUME IngestionInv, MarkRaises
  PROVE  IngestionInv'
<1>1. /\ at = "mark" /\ at' = "raised"
      /\ UNCHANGED <<source, inLoop, index, todo, stop, frameId, frames, opened>>
      /\ \/ /\ faults < MaxFaults /\ faults' = faults + 1
            /\ conn' = [cap |-> NoCap, row |-> 0,
                        rows |-> [conn.rows EXCEPT ![conn.row].status = "COMPLETED"]]
         \/ faults + 2 <= MaxFaults /\ faults' = faults + 2 /\ conn' = conn
  BY DEF MarkRaises
<1>2. /\ IngestionTypes /\ Stray(conn) = {} /\ conn \in Connections /\ conn.row # 0
      /\ faults \in 0..MaxFaults
  BY <1>1, NoStray DEF IngestionInv, IngestionTypes, HeldRow
<1>3. conn' \in Connections /\ Stray(conn') = {} /\ faults' \in 0..MaxFaults /\ faults' > 0
  <2>1. CASE /\ faults < MaxFaults /\ faults' = faults + 1
             /\ conn' = [cap |-> NoCap, row |-> 0,
                         rows |-> [conn.rows EXCEPT ![conn.row].status = "COMPLETED"]]
    <3>1. conn' \in Connections /\ Stray(conn') = {}
      BY <1>2, <2>1, MarkedStray
    <3>2. faults' \in 0..MaxFaults /\ faults' > 0
      BY <1>2, <2>1, IngestionConfigOK
    <3>3. QED
      BY <3>1, <3>2
  <2>2. CASE faults + 2 <= MaxFaults /\ faults' = faults + 2 /\ conn' = conn
    BY <1>2, <2>2, IngestionConfigOK
  <2>3. QED
    BY <1>1, <2>1, <2>2
<1>4. IngestionTypes'
  BY <1>1, <1>2, <1>3 DEF IngestionTypes, Files
<1>5. HeldRow' /\ OthersClosed'
  BY <1>1, <1>3 DEF IngestionInv, HeldRow, Video, OthersClosed, Stray
<1>6. PlayedSoFar'
  BY <1>1 DEF IngestionInv, PlayedSoFar, Video, Files, OpenedUpTo
<1>7. QED
  BY <1>4, <1>5, <1>6 DEF IngestionInv

LEMMA NextFileEmptyKeeps ==
  ASSUME IngestionInv, NextFileEmpty
  PROVE  IngestionInv'
<1>1. /\ Video /\ at = "firstRead" /\ conn.cap = 0 /\ Close("ended", conn)
      /\ UNCHANGED <<source, inLoop, index, todo, stop, frameId, frames, opened>>
  BY DEF NextFileEmpty
<1>2. /\ Stray(conn) = {} /\ conn \in Connections /\ index \in 1..Len(Files) /\ inLoop \in BOOLEAN
  BY <1>1, NoStray DEF IngestionInv, IngestionTypes
<1>3. ~source.loop => conn.cap = Files[index]
  BY <1>1 DEF IngestionInv, PlayedSoFar
<1>4. ~source.loop => \E i \in 1..Len(Files) : Files[i] = 0
  BY <1>1, <1>2, <1>3
<1>5. QED
  BY <1>1, <1>2, <1>4, ClosesKeeps

(* A camera that is reached, lost, or tried again. *)
LEMMA StreamUpKeeps ==
  ASSUME IngestionInv, StreamUp
  PROVE  IngestionInv'
<1> DEFINE v == [conn EXCEPT !.cap = 0]
<1>1. /\ ~Video /\ at = "open" /\ LoopHead(v)
      /\ UNCHANGED <<source, index, todo, stop, frameId, frames, opened>>
  BY DEF StreamUp
<1>2. /\ IngestionTypes /\ Stray(conn) = {} /\ conn \in Connections /\ conn.row = 0
      /\ faults \in 0..MaxFaults
  BY <1>1, NoStray DEF IngestionInv, IngestionTypes, HeldRow
<1>3. v \in Connections /\ v.row = 0 /\ Stray(v) = {}
  BY <1>2 DEF Connections, Stray
<1> HIDE DEF v
<1>4. /\ conn' \in Connections /\ faults' \in 0..MaxFaults /\ inLoop' = TRUE
      /\ Stray(conn') = {} /\ conn'.row = 0
      /\ at' = "read" \/ (at' = "ended" /\ conn'.cap = NoCap)
  BY <1>1, <1>2, <1>3, LoopHeadStep
<1>5. IngestionTypes'
  BY <1>1, <1>2, <1>4 DEF IngestionTypes, Files
<1>6. HeldRow' /\ OthersClosed'
  BY <1>1, <1>4 DEF HeldRow, Video, OthersClosed, Stray
<1>7. PlayedSoFar'
  BY <1>1 DEF PlayedSoFar, Video
<1>8. QED
  BY <1>5, <1>6, <1>7 DEF IngestionInv

(* Between two attempts only the capture is given up. *)
LEMMA WaitsKeeps ==
  ASSUME IngestionInv, ~Video, at \in {"open", "sleep", "read"}, at' \in {"open", "sleep"},
         conn' = conn \/ conn' = [conn EXCEPT !.cap = NoCap],
         UNCHANGED <<source, inLoop, index, todo, stop, frameId, frames, opened, faults>>
  PROVE  IngestionInv'
<1>1. IngestionTypes /\ Stray(conn) = {} /\ conn \in Connections /\ conn.row = 0
  BY NoStray DEF IngestionInv, IngestionTypes, HeldRow
<1>2. conn' \in Connections /\ conn'.row = 0 /\ Stray(conn') = {}
  BY <1>1 DEF Connections, Stray
<1>3. IngestionTypes'
  BY <1>1, <1>2 DEF IngestionTypes, Files
<1>4. HeldRow' /\ OthersClosed' /\ PlayedSoFar'
  BY <1>2 DEF HeldRow, Video, OthersClosed, Stray, PlayedSoFar
<1>5. QED
  BY <1>3, <1>4 DEF IngestionInv

LEMMA StreamWaitsKeep ==
  ASSUME IngestionInv, StreamDown \/ Wake \/ StreamLost
  PROVE  IngestionInv'
<1>1. /\ conn \in Connections /\ Stray(conn) = {} /\ inLoop \in BOOLEAN
      /\ UNCHANGED <<source, inLoop, index, todo, stop, frameId, frames, opened>>
  BY NoStray DEF IngestionInv, IngestionTypes, StreamDown, Wake, StreamLost
<1>2. ~Video /\ at \in {"open", "sleep", "read"} /\ conn.row = 0
  BY DEF IngestionInv, HeldRow, StreamDown, Wake, StreamLost
<1>3. /\ [conn EXCEPT !.cap = NoCap] \in Connections /\ [conn EXCEPT !.cap = NoCap].row = 0
      /\ Stray([conn EXCEPT !.cap = NoCap]) = {}
  BY <1>1, <1>2 DEF Connections, Stray
<1>4. CASE Close("ended", conn) \/ Close("ended", [conn EXCEPT !.cap = NoCap])
  BY <1>1, <1>2, <1>3, <1>4, ClosesKeeps
<1>5. CASE ~(Close("ended", conn) \/ Close("ended", [conn EXCEPT !.cap = NoCap]))
  <2>1. /\ at' \in {"open", "sleep"} /\ UNCHANGED faults
        /\ conn' = conn \/ conn' = [conn EXCEPT !.cap = NoCap]
    BY <1>5 DEF StreamDown, Wake, StreamLost
  <2>2. QED
    BY <1>1, <1>2, <2>1, WaitsKeeps
<1>6. QED
  BY <1>4, <1>5

(* A cancellation, wherever the task waits. *)
LEMMA CancelKeeps ==
  ASSUME IngestionInv, Cancel
  PROVE  IngestionInv'
<1>1. PICK rows \in Orphaned :
        /\ IF inLoop THEN Close("cancelled", [conn EXCEPT !.rows = rows])
           ELSE at' = "cancelled" /\ conn' = [conn EXCEPT !.rows = rows] /\ UNCHANGED faults
        /\ UNCHANGED <<source, inLoop, index, todo, stop, frameId, frames, opened>>
        /\ at \in Awaits
  BY DEF Cancel
<1> DEFINE v == [conn EXCEPT !.rows = rows]
<1>2. /\ IngestionTypes /\ Stray(conn) = {} /\ conn \in Connections /\ inLoop \in BOOLEAN
      /\ ~Video \/ ~inLoop => conn.row = 0
  BY <1>1, NoStray DEF IngestionInv, IngestionTypes, HeldRow
<1>3. /\ v \in Connections /\ v.row = conn.row
      /\ Stray(v) = {} \/ (v.row = 0 /\ Stray(v) \subseteq {Len(v.rows)})
  <2>1. CASE rows = conn.rows
    <3>1. v = conn
      BY <1>2, <2>1 DEF Connections
    <3>2. QED
      BY <1>2, <3>1
  <2>2. CASE at = "insert" /\ rows = Append(conn.rows, Row("INGESTING"))
    <3>1. conn.row = 0
      BY <2>2 DEF IngestionInv, HeldRow
    <3>2. QED
      BY <1>2, <2>2, <3>1, AddedRow
  <2>3. CASE at = "insertFailed" /\ rows = Append(conn.rows, Row("FAILED"))
    <3>1. conn.row = 0
      BY <2>3 DEF IngestionInv, HeldRow
    <3>2. QED
      BY <1>2, <2>3, <3>1, AddedRow
  <2>4. QED
    BY <1>1, <2>1, <2>2, <2>3 DEF Orphaned
<1>4. CASE inLoop
  <2>1. Close("cancelled", v)
    BY <1>1, <1>4
  <2> HIDE DEF v
  <2>2. QED
    BY <1>1, <1>2, <1>3, <2>1, ClosesKeeps
<1>5. CASE ~inLoop
  <2>1. at' = "cancelled" /\ conn' = v /\ UNCHANGED faults
    BY <1>1, <1>5
  <2> HIDE DEF v
  <2>2. IngestionTypes'
    BY <1>1, <1>2, <1>3, <2>1 DEF IngestionTypes, Files
  <2>3. HeldRow'
    BY <1>1, <1>2, <1>3, <1>5, <2>1 DEF HeldRow, Video
  <2>4. OthersClosed'
    BY <1>3, <2>1 DEF OthersClosed, Stray
  <2>5. PlayedSoFar'
    BY <1>1, <2>1 DEF IngestionInv, PlayedSoFar, Video, Files, OpenedUpTo
  <2>6. QED
    BY <2>2, <2>3, <2>4, <2>5 DEF IngestionInv
<1>6. QED
  BY <1>4, <1>5

LEMMA RequestStopKeeps ==
  ASSUME IngestionInv, RequestStop
  PROVE  IngestionInv'
<1>1. IngestionTypes'
  BY DEF IngestionInv, IngestionTypes, RequestStop, Files
<1>2. HeldRow' /\ OthersClosed' /\ PlayedSoFar'
  BY DEF IngestionInv, HeldRow, OthersClosed, PlayedSoFar, RequestStop, Video, Files, Stray, OpenedUpTo
<1>3. QED
  BY <1>1, <1>2 DEF IngestionInv

(* Nothing of it depends on the frames that are still in the topic. *)
LEMMA FramesTaken ==
  ASSUME IngestionInv, frames' \in Seq(0..MaxOpens), Len(frames') <= QueueSize,
         UNCHANGED <<source, at, inLoop, index, todo, conn, stop, frameId, opened, faults>>
  PROVE  IngestionInv'
<1>1. IngestionTypes'
  BY DEF IngestionInv, IngestionTypes, Files
<1>2. HeldRow' /\ OthersClosed' /\ PlayedSoFar'
  BY DEF IngestionInv, HeldRow, OthersClosed, PlayedSoFar, Video, Files, Stray, OpenedUpTo
<1>3. QED
  BY <1>1, <1>2 DEF IngestionInv

LEMMA IngestionStepKeeps ==
  ASSUME IngestionInv, IngestionStep
  PROVE  IngestionInv'
BY ConnectKeeps, OpenFileKeeps, OpenUnreadableKeeps, InsertRowKeeps, InsertFailedRowKeeps,
   InsertRaisesKeeps, ReadsKeep, EndOfFileKeeps, MarkCompletedKeeps, MarkRaisesKeeps,
   NextFileEmptyKeeps, StreamUpKeeps, StreamWaitsKeep
   DEF IngestionStep

----------------------------------------------------------------------------
(* The threads *)

LEMMA WorkersShape ==
  /\ "inference" \in Workers /\ "compliance" \in Workers
  /\ Workers \subseteq {"inference", "compliance", "persistence"}
  /\ "persistence" \in Workers <=> source.db
BY DEF Workers

(* An ingestion step publishes a frame, with an id of its own, or none. *)
LEMMA PublishesOne ==
  ASSUME IngestionInv, IngestionStep \/ Cancel \/ RequestStop
  PROVE  /\ source' = source
         /\ \/ UNCHANGED <<frameId, frames>>
            \/ frameId' = frameId + 1 /\ Len(frames') <= Len(frames) + 1
<1>1. IngestionTypes /\ conn \in Connections
  BY DEF IngestionInv, IngestionTypes
<1>2. CASE ReadFrame
  <2> DEFINE v == [conn EXCEPT !.cap = @ - 1]
  <2>1. Video /\ at \in {"read", "firstRead"} /\ conn.cap > 0 /\ Deliver(v) /\ source' = source
    BY <1>2 DEF ReadFrame
  <2>2. conn.cap \in Nat
    BY <2>1 DEF IngestionInv, HeldRow
  <2>3. conn.cap - 1 \in Nat
    BY <2>1, <2>2
  <2>4. v \in Connections
    BY <1>1, <2>3 DEF Connections
  <2> HIDE DEF v
  <2>5. QED
    BY <1>1, <2>1, <2>4, DeliverStep
<1>3. CASE ReadStream
  BY <1>1, <1>3, DeliverStep DEF ReadStream
<1>4. CASE ~ReadFrame /\ ~ReadStream
  BY <1>4 DEF IngestionStep, Cancel, RequestStop, Connect, OpenFile, OpenUnreadable, InsertRow,
     InsertFailedRow, InsertRaises, EndOfFile, MarkCompleted, MarkRaises, NextFileEmpty,
     StreamUp, StreamDown, Wake, StreamLost
<1>5. QED
  BY <1>2, <1>3, <1>4

(* While the ingestion goes on, the threads keep what they have. *)
LEMMA IngestionDisturbsNoThread ==
  ASSUME LifeInv, IngestionStep \/ Cancel \/ RequestStop, UNCHANGED workerVars,
         main' = main \/ (main = "up" /\ main' = "waitIngestion")
                      \/ (main = "waitIngestion" /\ main' = "raised")
  PROVE  ShutdownInv'
<1>1. /\ source' = source
      /\ \/ UNCHANGED <<frameId, frames>>
         \/ frameId' = frameId + 1 /\ Len(frames') <= Len(frames) + 1
  BY PublishesOne DEF LifeInv
<1>2. WorkerTypes' /\ ToldInOrder' /\ LoopsUntilTold'
  BY <1>1 DEF LifeInv, ShutdownInv, WorkerTypes, ToldInOrder, LoopsUntilTold, workerVars,
     Workers, Shutdown, Sessions
<1>3. Joined' /\ TopicDrained' /\ LateOnlyAfterGivingUp' /\ OneWriter'
  BY <1>1 DEF LifeInv, ShutdownInv, Joined, Joining, TopicDrained, LateOnlyAfterGivingUp,
     OneWriter, ToldInOrder, workerVars, Sessions
<1>4. VideoFrames'
  <2>1. /\ frameId \in Nat /\ frameId' \in Nat /\ Len(frames) \in Nat /\ Len(frames') \in Nat
    <3>1. IngestionInv /\ IngestionInv'
      BY IngestionStepKeeps, CancelKeeps, RequestStopKeeps DEF LifeInv
    <3>2. QED
      BY <3>1, LenProperties DEF IngestionInv, IngestionTypes
  <2>2. SUFFICES ASSUME NEW s \in Sessions
                 PROVE  shown[s] + (IF thread["inference"] = "busy" THEN 1 ELSE 0) + Len(frames')
                          <= frameId'
    BY DEF VideoFrames, workerVars, Sessions
  <2>3. /\ shown[s] + (IF thread["inference"] = "busy" THEN 1 ELSE 0) + Len(frames) <= frameId
        /\ shown[s] \in Nat
    BY DEF LifeInv, ShutdownInv, VideoFrames, WorkerTypes
  <2>4. QED
    BY <1>1, <2>1, <2>3
<1>5. QED
  BY <1>2, <1>3, <1>4 DEF ShutdownInv

(* A thread goes from one place to the next while main stays where it is:  *)
(* what it may reach only when told to, it reaches when told to.           *)
LEMMA ThreadMoves ==
  ASSUME ShutdownInv, NEW w \in Workers, NEW place \in Places,
         thread[w] # "ended", Goto(w, place), UNCHANGED <<source, main, told, gaveUp>>,
         place \in {"drain", "drainBusy", "flush", "ended"} => w \in told,
         place \in {"drain", "drainBusy", "flush"} => w = "compliance"
  PROVE  /\ ToldInOrder' /\ LoopsUntilTold' /\ Joined' /\ thread' \in [Workers' -> Places]
         /\ thread'[w] = place /\ \A u \in Workers \ {w} : thread'[u] = thread[u]
<1>1. thread \in [Workers -> Places] /\ thread' = [thread EXCEPT ![w] = place] /\ Workers' = Workers
  BY DEF ShutdownInv, WorkerTypes, Goto, Workers
<1>2. /\ thread' \in [Workers' -> Places] /\ thread'[w] = place
      /\ \A u \in Workers \ {w} : thread'[u] = thread[u]
  BY <1>1
<1>3. ToldInOrder'
  BY <1>1 DEF ShutdownInv, ToldInOrder
<1>4. LoopsUntilTold'
  BY <1>1, <1>2 DEF ShutdownInv, LoopsUntilTold
<1>5. Joined'
  <2>1. SUFFICES ASSUME NEW u \in told
                 PROVE  u \in Joining' \/ u \in gaveUp \/ thread'[u] = "ended"
    BY DEF Joined
  <2>2. u \in Workers /\ Joining' = Joining
    BY DEF ShutdownInv, WorkerTypes, Joining
  <2>3. u \in Joining \/ u \in gaveUp \/ thread[u] = "ended"
    BY DEF ShutdownInv, Joined
  <2>4. QED
    BY <1>2, <2>2, <2>3
<1>6. QED
  BY <1>2, <1>3, <1>4, <1>5

(* A thread that goes on behind its join makes it one that gave up. *)
LEMMA Outlives ==
  ASSUME ShutdownInv, NEW w \in told, thread[w] # "ended", w \notin Joining
  PROVE  w \in gaveUp
BY DEF ShutdownInv, Joined

(* The inference before or in its join, or given up on. *)
LEMMA InferenceRuns ==
  ASSUME ShutdownInv, thread["inference"] # "ended"
  PROVE  \/ main \in {"up", "raised", "waitIngestion", "joinInference"} /\ told \subseteq {"inference"}
         \/ "inference" \in gaveUp
<1>1. CASE main \in {"up", "raised", "waitIngestion", "joinInference"}
  BY <1>1 DEF ShutdownInv, ToldInOrder
<1>2. CASE main \in {"joinCompliance", "joinPersistence", "down"}
  <2>1. "inference" \in told /\ "inference" \notin Joining
    BY <1>2, WorkersShape DEF ShutdownInv, ToldInOrder, Joining
  <2>2. QED
    BY <2>1, Outlives
<1>3. QED
  BY <1>1, <1>2 DEF ShutdownInv, WorkerTypes, Shutdown

(* An alert that the persistence is too late for comes from a compliance   *)
(* thread that was given up on.                                            *)
LEMMA ComplianceRuns ==
  ASSUME ShutdownInv, thread["compliance"] # "ended", "persistence" \in told
  PROVE  "compliance" \in gaveUp
<1>1. main \in {"joinPersistence", "down"}
  BY DEF ShutdownInv, ToldInOrder, WorkerTypes, Shutdown
<1>2. "compliance" \in told /\ "compliance" \notin Joining
  BY <1>1, WorkersShape DEF ShutdownInv, ToldInOrder, Joining
<1>3. QED
  BY <1>2, Outlives

----------------------------------------------------------------------------
(* The steps of the threads *)

(* The ingestion is not touched by a step of the others. *)
LEMMA IngestionRests ==
  ASSUME IngestionInv, UNCHANGED ingestionVars
  PROVE  IngestionInv'
<1>1. IngestionTypes'
  BY DEF IngestionInv, IngestionTypes, Files, ingestionVars
<1>2. HeldRow' /\ OthersClosed' /\ PlayedSoFar'
  BY DEF IngestionInv, HeldRow, OthersClosed, PlayedSoFar, Video, Files, Stray, OpenedUpTo,
     ingestionVars
<1>3. QED
  BY <1>1, <1>2 DEF IngestionInv

(* The head of a loop. *)
LEMMA LoopAgainGoes ==
  ASSUME NEW w \in Workers, LoopAgain(w)
  PROVE  \E place \in Places :
           /\ Goto(w, place) /\ place \in {"get", "drain", "ended"}
           /\ place # "get" => w \in told
           /\ place = "drain" <=> w = "compliance" /\ w \in told
BY DEF LoopAgain, Places

(* Of the inference: all but what it takes and writes is as it was.        *)
LEMMA InferenceKeeps ==
  ASSUME ShutdownInv, thread["inference"] # "ended",
         NEW place \in Places, Goto("inference", place),
         place = "ended" => "inference" \in told, place \notin {"drain", "drainBusy", "flush"},
         UNCHANGED <<source, main, told, gaveUp, alerts, raised, late, broken>>
  PROVE  /\ ToldInOrder' /\ LoopsUntilTold' /\ Joined' /\ LateOnlyAfterGivingUp'
         /\ thread' \in [Workers' -> Places]
         /\ thread'["inference"] = place /\ thread'["compliance"] = thread["compliance"]
<1>1. /\ ToldInOrder' /\ LoopsUntilTold' /\ Joined' /\ thread' \in [Workers' -> Places]
      /\ thread'["inference"] = place
      /\ \A u \in Workers \ {"inference"} : thread'[u] = thread[u]
  BY ThreadMoves, WorkersShape
<1>2. LateOnlyAfterGivingUp'
  BY DEF ShutdownInv, LateOnlyAfterGivingUp
<1>3. QED
  BY <1>1, <1>2, WorkersShape

LEMMA TakeFrameKeeps ==
  ASSUME LifeInv, TakeFrame
  PROVE  LifeInv'
<1>1. /\ thread["inference"] = "get" /\ frames # <<>> /\ job' = Head(frames)
      /\ frames' = Tail(frames) /\ Goto("inference", "busy")
      /\ UNCHANGED <<source, at, inLoop, index, todo, conn, stop, frameId, opened, faults>>
      /\ UNCHANGED <<main, told, gaveUp, detections, alerts, raised, late, broken, writer, shown, cut>>
  BY DEF TakeFrame
<1>2. ShutdownInv /\ WorkerTypes /\ IngestionInv
  BY DEF LifeInv, ShutdownInv
<1>3. /\ frames \in Seq(0..MaxOpens) /\ Len(frames) <= QueueSize /\ Len(frames) \in Nat
      /\ QueueSize \in Nat
  BY <1>2, LenProperties, IngestionConfigOK DEF IngestionInv, IngestionTypes
<1>4. /\ frames' \in Seq(0..MaxOpens) /\ Len(frames') = Len(frames) - 1 /\ job' \in 0..MaxOpens
  BY <1>1, <1>3, HeadTailProperties
<1>5. IngestionInv'
  BY <1>1, <1>2, <1>3, <1>4, FramesTaken
<1>6. /\ ToldInOrder' /\ LoopsUntilTold' /\ Joined' /\ LateOnlyAfterGivingUp'
      /\ thread' \in [Workers' -> Places]
      /\ thread'["inference"] = "busy" /\ thread'["compliance"] = thread["compliance"]
  BY <1>1, <1>2, InferenceKeeps DEF Places
<1>7. WorkerTypes'
  BY <1>1, <1>2, <1>4, <1>6 DEF WorkerTypes, Workers, Sessions
<1>8. TopicDrained' /\ OneWriter'
  BY <1>1, <1>2, <1>6 DEF ShutdownInv, TopicDrained, OneWriter, Sessions
<1>9. VideoFrames'
  <2>1. SUFFICES ASSUME NEW s \in Sessions
                 PROVE  shown[s] + 1 + Len(frames') <= frameId
    BY <1>1, <1>6 DEF VideoFrames, Sessions
  <2>2. shown[s] + 0 + Len(frames) <= frameId /\ shown[s] \in Nat
    BY <1>1, <1>2 DEF ShutdownInv, VideoFrames, WorkerTypes
  <2>3. QED
    BY <1>3, <1>4, <2>2
<1>10. QED
  BY <1>5, <1>6, <1>7, <1>8, <1>9 DEF LifeInv, ShutdownInv

LEMMA InferFrameKeeps ==
  ASSUME LifeInv, InferFrame
  PROVE  LifeInv'
<1>1. /\ thread["inference"] = "busy" /\ WriteVideo /\ Goto("inference", "publish")
      /\ UNCHANGED <<ingestionVars, main, told, gaveUp, job, detections, alerts, raised, late, broken>>
  BY DEF InferFrame
<1>2. /\ ShutdownInv /\ WorkerTypes /\ IngestionInv /\ IngestionInv' /\ source' = source
      /\ UNCHANGED <<frameId, frames>>
  BY <1>1, IngestionRests DEF LifeInv, ShutdownInv, ingestionVars
<1>3. /\ ToldInOrder' /\ LoopsUntilTold' /\ Joined' /\ LateOnlyAfterGivingUp'
      /\ thread' \in [Workers' -> Places]
      /\ thread'["inference"] = "publish" /\ thread'["compliance"] = thread["compliance"]
  BY <1>1, <1>2, InferenceKeeps DEF Places
<1>4. /\ frameId \in Nat /\ Len(frames) \in Nat
  BY <1>2, LenProperties DEF IngestionInv, IngestionTypes
<1>5. /\ writer' \in 0..MaxOpens /\ cut' \in BOOLEAN /\ shown' \in [Sessions -> Nat]
      /\ \A s \in Sessions : shown'[s] <= shown[s] + 1
      /\ writer' = 0 => writer = 0 /\ UNCHANGED <<shown, cut>>
      /\ cut' = cut \/ (writer = 0 /\ \E s \in Sessions : shown[s] > 0)
  <2>1. /\ job \in 0..MaxOpens /\ writer \in 0..MaxOpens /\ cut \in BOOLEAN
        /\ shown \in [Sessions -> Nat] /\ MaxOpens \in Nat
    BY <1>2, IngestionConfigOK DEF WorkerTypes
  <2>2. CASE UNCHANGED <<writer, shown, cut>>
    BY <2>1, <2>2
  <2>3. CASE /\ writer # 0 /\ job # 0
             /\ shown' = [shown EXCEPT ![writer] = @ + 1] /\ UNCHANGED <<writer, cut>>
    <3>1. writer \in Sessions
      BY <2>1, <2>3 DEF Sessions
    <3>2. shown' \in [Sessions -> Nat] /\ \A s \in Sessions : shown'[s] <= shown[s] + 1
      BY <2>1, <2>3, <3>1
    <3>3. QED
      BY <2>1, <2>3, <3>2
  <2>4. CASE /\ writer = 0 /\ job # 0
             /\ writer' = job /\ shown' = [shown EXCEPT ![job] = 1]
             /\ cut' = (cut \/ shown[job] > 0)
    <3>1. job \in Sessions
      BY <2>1, <2>4 DEF Sessions
    <3>2. shown' \in [Sessions -> Nat] /\ \A s \in Sessions : shown'[s] <= shown[s] + 1
      BY <2>1, <2>4, <3>1
    <3>3. cut' \in BOOLEAN /\ (cut' = cut \/ \E s \in Sessions : shown[s] > 0)
      BY <2>1, <2>4, <3>1
    <3>4. QED
      BY <2>1, <2>4, <3>2, <3>3
  <2>5. QED
    BY <1>1, <2>2, <2>3, <2>4 DEF WriteVideo
<1>6. WorkerTypes'
  BY <1>1, <1>2, <1>3, <1>5 DEF WorkerTypes, Workers, Sessions
<1>7. TopicDrained'
  BY <1>1, <1>2, <1>3 DEF ShutdownInv, TopicDrained
<1>8. OneWriter'
  <2>1. \/ main \in {"up", "raised", "waitIngestion", "joinInference"}
        \/ "inference" \in gaveUp
    BY <1>1, <1>2, InferenceRuns
  <2>2. cut' => "inference" \in gaveUp
    <3>1. CASE cut
      BY <1>2, <3>1 DEF ShutdownInv, OneWriter
    <3>2. CASE writer = 0 /\ \E s \in Sessions : shown[s] > 0
      <4>1. \E s \in Sessions : shown[s] # 0
        BY <1>2, <3>2 DEF WorkerTypes
      <4>2. QED
        BY <1>2, <2>1, <3>2, <4>1 DEF ShutdownInv, OneWriter
    <3>3. QED
      BY <1>5, <3>1, <3>2
  <2>3. QED
    BY <1>1, <1>2, <1>5, <2>2 DEF ShutdownInv, OneWriter, Sessions
<1>9. VideoFrames'
  <2>1. SUFFICES ASSUME NEW s \in Sessions
                 PROVE  shown'[s] + 0 + Len(frames) <= frameId
    BY <1>1, <1>2, <1>3 DEF VideoFrames, Sessions
  <2>2. shown[s] + 1 + Len(frames) <= frameId /\ shown[s] \in Nat
    BY <1>1, <1>2 DEF ShutdownInv, VideoFrames, WorkerTypes
  <2>3. shown'[s] <= shown[s] + 1 /\ shown'[s] \in Nat
    BY <1>5
  <2>4. QED
    BY <1>4, <2>2, <2>3
<1>10. QED
  BY <1>2, <1>3, <1>6, <1>7, <1>8, <1>9 DEF LifeInv, ShutdownInv

(* A frame that is skipped, one whose detection is published, and the turn *)
(* of an idle loop.                                                        *)
LEMMA InferenceGoesOn ==
  ASSUME LifeInv, SkipFrame \/ PublishDetection \/ Idle("inference")
  PROVE  LifeInv'
<1>1. /\ thread["inference"] \in {"busy", "publish", "get"} /\ LoopAgain("inference")
      /\ job' = 0 \/ job' = job
      /\ detections' = detections \/ (thread["inference"] = "publish" /\ detections' = Room(detections))
      /\ UNCHANGED <<ingestionVars, main, told, gaveUp, alerts, raised, late, broken, writer, shown, cut>>
  BY DEF SkipFrame, PublishDetection, Idle
<1>2. /\ ShutdownInv /\ WorkerTypes /\ IngestionInv /\ IngestionInv' /\ source' = source
      /\ UNCHANGED <<frameId, frames>>
  BY <1>1, IngestionRests DEF LifeInv, ShutdownInv, ingestionVars
<1>3. PICK place \in Places :
        /\ Goto("inference", place) /\ place \in {"get", "ended"}
        /\ place # "get" => "inference" \in told
  BY LoopAgainGoes, <1>1, WorkersShape
<1>4. /\ ToldInOrder' /\ LoopsUntilTold' /\ Joined' /\ LateOnlyAfterGivingUp'
      /\ thread' \in [Workers' -> Places]
      /\ thread'["inference"] = place /\ thread'["compliance"] = thread["compliance"]
  BY <1>1, <1>2, <1>3, InferenceKeeps
<1>5. detections' \in 0..QueueSize /\ job' \in 0..MaxOpens
  BY <1>1, <1>2, IngestionConfigOK DEF WorkerTypes, Room
<1>6. WorkerTypes'
  BY <1>1, <1>2, <1>4, <1>5 DEF WorkerTypes, Workers, Sessions
<1>7. TopicDrained'
  <2>1. CASE detections' = detections
    BY <1>1, <1>2, <1>4, <2>1 DEF ShutdownInv, TopicDrained
  <2>2. CASE thread["compliance"] \in {"flush", "ended"}
    <3>1. "compliance" \in told
      BY <1>2, <2>2, WorkersShape DEF ShutdownInv, LoopsUntilTold
    <3>2. "inference" \in gaveUp
      BY <1>1, <1>2, <3>1, InferenceRuns
    <3>3. QED
      BY <1>1, <3>2 DEF TopicDrained
  <2>3. CASE thread["compliance"] \notin {"flush", "ended"}
    BY <1>4, <2>3 DEF TopicDrained
  <2>4. QED
    BY <2>2, <2>3
<1>8. OneWriter'
  BY <1>1, <1>2 DEF ShutdownInv, OneWriter, Sessions
<1>9. VideoFrames'
  <2>1. SUFFICES ASSUME NEW s \in Sessions
                 PROVE  shown[s] + 0 + Len(frames) <= frameId
    BY <1>1, <1>2, <1>3, <1>4 DEF VideoFrames, Sessions
  <2>2. /\ shown[s] + (IF thread["inference"] = "busy" THEN 1 ELSE 0) + Len(frames) <= frameId
        /\ shown[s] \in Nat /\ Len(frames) \in Nat /\ frameId \in Nat
    BY <1>2, LenProperties, SMTT(30) DEF ShutdownInv, VideoFrames, WorkerTypes, IngestionInv, IngestionTypes
  <2>3. QED
    BY <2>2
<1>10. QED
  BY <1>2, <1>4, <1>6, <1>7, <1>8, <1>9 DEF LifeInv, ShutdownInv

(* A step of the compliance thread: it may leave the topic behind its drain *)
(* empty or the drain broken, and be late only when it was given up on.     *)
LEMMA ComplianceKeeps ==
  ASSUME LifeInv, thread["compliance"] # "ended",
         NEW place \in Places, Goto("compliance", place),
         place \in {"drain", "drainBusy", "flush", "ended"} => "compliance" \in told,
         place \in {"flush", "ended"} => detections' = 0 \/ broken' \/ "inference" \in gaveUp,
         UNCHANGED <<ingestionVars, main, told, gaveUp, job, writer, shown, cut>>,
         detections' \in 0..QueueSize, alerts' \in 0..QueueSize, raised' \in 0..MaxAlerts,
         broken' \in BOOLEAN, late' \in BOOLEAN, late' => late \/ "persistence" \in told
  PROVE  LifeInv'
<1>1. /\ ShutdownInv /\ WorkerTypes /\ IngestionInv /\ IngestionInv' /\ source' = source
      /\ UNCHANGED <<frameId, frames>>
  BY IngestionRests DEF LifeInv, ShutdownInv, ingestionVars
<1>2. /\ ToldInOrder' /\ LoopsUntilTold' /\ Joined' /\ thread' \in [Workers' -> Places]
      /\ thread'["compliance"] = place
      /\ \A u \in Workers \ {"compliance"} : thread'[u] = thread[u]
  BY <1>1, ThreadMoves, WorkersShape
<1>3. thread'["inference"] = thread["inference"]
  BY <1>2, WorkersShape
<1>4. WorkerTypes'
  BY <1>1, <1>2 DEF WorkerTypes, Workers, Sessions
<1>5. TopicDrained'
  BY <1>2 DEF TopicDrained
<1>6. LateOnlyAfterGivingUp'
  BY <1>1, ComplianceRuns DEF ShutdownInv, LateOnlyAfterGivingUp
<1>7. OneWriter'
  BY <1>1 DEF ShutdownInv, OneWriter, Sessions
<1>8. VideoFrames'
  BY <1>1, <1>3 DEF ShutdownInv, VideoFrames, Sessions
<1>9. QED
  BY <1>1, <1>2, <1>4, <1>5, <1>6, <1>7, <1>8 DEF LifeInv, ShutdownInv

LEMMA AlertShape ==
  ASSUME WorkerTypes, Alert \/ NoAlert
  PROVE  /\ alerts' \in 0..QueueSize /\ raised' \in 0..MaxAlerts /\ late' \in BOOLEAN
         /\ late' => late \/ "persistence" \in told
<1>1. alerts' \in 0..QueueSize /\ raised' \in 0..MaxAlerts
  BY IngestionConfigOK, LifeConfigOK DEF WorkerTypes, Alert, NoAlert, Room
<1>2. late' \in BOOLEAN /\ (late' => late \/ "persistence" \in told)
  <2>1. CASE late' = late
    BY <2>1 DEF WorkerTypes
  <2>2. CASE late' = (late \/ "persistence" \in told)
    BY <2>2, Zenon
  <2>3. QED
    BY <2>1, <2>2 DEF Alert, NoAlert
<1>3. QED
  BY <1>1, <1>2

LEMMA TakeDetectionKeeps ==
  ASSUME LifeInv, TakeDetection
  PROVE  LifeInv'
<1>1. /\ thread["compliance"] \in {"get", "drain"} /\ detections > 0
      /\ detections' = detections - 1
      /\ UNCHANGED <<ingestionVars, main, told, gaveUp, job, alerts, raised, late, broken, writer, shown, cut>>
  BY DEF TakeDetection
<1>2. ShutdownInv /\ WorkerTypes
  BY DEF LifeInv, ShutdownInv
<1>3. /\ detections' \in 0..QueueSize /\ alerts' \in 0..QueueSize /\ raised' \in 0..MaxAlerts
      /\ broken' \in BOOLEAN /\ late' \in BOOLEAN /\ (late' => late)
  <2>1. detections' \in 0..QueueSize
    BY <1>1, <1>2, IngestionConfigOK DEF WorkerTypes
  <2>2. QED
    BY <1>1, <1>2, <2>1 DEF WorkerTypes
<1>4. PICK place \in {"busy", "drainBusy"} :
        /\ Goto("compliance", place)
        /\ place = "drainBusy" => thread["compliance"] = "drain"
  BY DEF TakeDetection
<1>5. place = "drainBusy" => "compliance" \in told
  BY <1>2, <1>4, WorkersShape DEF ShutdownInv, LoopsUntilTold
<1>6. place \in Places /\ thread["compliance"] # "ended"
  BY <1>1 DEF Places
<1>7. QED
  BY <1>1, <1>3, <1>4, <1>5, <1>6, ComplianceKeeps

LEMMA DrainedKeeps ==
  ASSUME LifeInv, Drained
  PROVE  LifeInv'
<1>1. /\ thread["compliance"] = "drain" /\ detections = 0 /\ Goto("compliance", "flush")
      /\ UNCHANGED <<ingestionVars, main, told, gaveUp, job, detections, alerts, raised, late, broken, writer, shown, cut>>
  BY DEF Drained
<1>2. "compliance" \in told
  BY <1>1, WorkersShape DEF LifeInv, ShutdownInv, LoopsUntilTold
<1>3. /\ detections' \in 0..QueueSize /\ alerts' \in 0..QueueSize /\ raised' \in 0..MaxAlerts
      /\ broken' \in BOOLEAN /\ late' \in BOOLEAN /\ "flush" \in Places
  BY <1>1 DEF LifeInv, ShutdownInv, WorkerTypes, Places
<1>4. QED
  BY <1>1, <1>2, <1>3, ComplianceKeeps

LEMMA EvaluateKeeps ==
  ASSUME LifeInv, Evaluate \/ EvaluateRaises
  PROVE  LifeInv'
<1>1. /\ thread["compliance"] \in {"busy", "drainBusy"}
      /\ Alert \/ NoAlert
      /\ UNCHANGED <<ingestionVars, main, told, gaveUp, job, detections, writer, shown, cut>>
  BY DEF Evaluate, EvaluateRaises, NoAlert
<1>2. ShutdownInv /\ WorkerTypes
  BY DEF LifeInv, ShutdownInv
<1>3. /\ alerts' \in 0..QueueSize /\ raised' \in 0..MaxAlerts /\ late' \in BOOLEAN
      /\ late' => late \/ "persistence" \in told
  BY <1>1, <1>2, AlertShape
<1>4. /\ broken' \in BOOLEAN /\ detections' \in 0..QueueSize
  BY <1>1, <1>2 DEF WorkerTypes, Evaluate, EvaluateRaises
<1>5. PICK place \in Places :
        /\ Goto("compliance", place)
        /\ place \in {"drain", "drainBusy", "flush", "ended"} => "compliance" \in told
        /\ place \in {"flush", "ended"} => broken'
  <2>1. CASE thread["compliance"] = "busy"
    <3>1. LoopAgain("compliance")
      BY <2>1 DEF Evaluate, EvaluateRaises
    <3>2. PICK p \in Places :
            /\ Goto("compliance", p) /\ p \in {"get", "drain", "ended"}
            /\ p # "get" => "compliance" \in told
            /\ p = "drain" <=> "compliance" = "compliance" /\ "compliance" \in told
      BY <3>1, LoopAgainGoes, WorkersShape
    <3>3. QED
      BY <3>2
  <2>2. CASE thread["compliance"] = "drainBusy"
    <3>1. "compliance" \in told
      BY <1>2, <2>2, WorkersShape DEF ShutdownInv, LoopsUntilTold
    <3>2. CASE Goto("compliance", "drain")
      BY <3>1, <3>2 DEF Places
    <3>3. CASE Goto("compliance", "flush") /\ broken' = TRUE
      BY <3>1, <3>3 DEF Places
    <3>4. QED
      BY <2>2, <3>2, <3>3 DEF Evaluate, EvaluateRaises
  <2>3. QED
    BY <1>1, <2>1, <2>2
<1>6. QED
  BY <1>1, <1>3, <1>4, <1>5, ComplianceKeeps

LEMMA FlushKeeps ==
  ASSUME LifeInv, Flush
  PROVE  LifeInv'
<1>1. /\ thread["compliance"] = "flush" /\ Goto("compliance", "ended")
      /\ Alert \/ NoAlert
      /\ UNCHANGED <<ingestionVars, main, told, gaveUp, job, detections, broken, writer, shown, cut>>
  BY DEF Flush
<1>2. ShutdownInv /\ WorkerTypes
  BY DEF LifeInv, ShutdownInv
<1>3. /\ alerts' \in 0..QueueSize /\ raised' \in 0..MaxAlerts /\ late' \in BOOLEAN
      /\ late' => late \/ "persistence" \in told
  BY <1>1, <1>2, AlertShape
<1>4. "compliance" \in told /\ (detections' = 0 \/ broken' \/ "inference" \in gaveUp)
  BY <1>1, <1>2, WorkersShape DEF ShutdownInv, LoopsUntilTold, TopicDrained
<1>5. detections' \in 0..QueueSize /\ broken' \in BOOLEAN /\ "ended" \in Places
  BY <1>1, <1>2 DEF WorkerTypes, Places
<1>6. QED
  BY <1>1, <1>3, <1>4, <1>5, ComplianceKeeps

LEMMA ComplianceIdleKeeps ==
  ASSUME LifeInv, Idle("compliance")
  PROVE  LifeInv'
<1>1. /\ thread["compliance"] = "get" /\ LoopAgain("compliance")
      /\ UNCHANGED <<ingestionVars, main, told, gaveUp, job, detections, alerts, raised, late, broken, writer, shown, cut>>
  BY DEF Idle
<1>2. /\ detections' \in 0..QueueSize /\ alerts' \in 0..QueueSize /\ raised' \in 0..MaxAlerts
      /\ broken' \in BOOLEAN /\ late' \in BOOLEAN
  BY <1>1 DEF LifeInv, ShutdownInv, WorkerTypes
<1>3. PICK place \in Places :
        /\ Goto("compliance", place) /\ place \in {"get", "drain", "ended"}
        /\ place # "get" => "compliance" \in told
        /\ place = "drain" <=> "compliance" = "compliance" /\ "compliance" \in told
  BY <1>1, LoopAgainGoes, WorkersShape
<1>4. QED
  BY <1>1, <1>2, <1>3, ComplianceKeeps

(* The persistence takes alerts and ends when told. *)
LEMMA PersistenceKeeps ==
  ASSUME LifeInv, Persistence
  PROVE  LifeInv'
<1>1. /\ source.db /\ thread["persistence"] \in {"get", "busy"}
      /\ UNCHANGED <<ingestionVars, main, told, gaveUp, job, detections, raised, late, broken, writer, shown, cut>>
      /\ alerts' = alerts \/ (alerts > 0 /\ alerts' = alerts - 1)
  BY DEF Persistence, TakeAlert, Persist, Idle
<1>2. /\ ShutdownInv /\ WorkerTypes /\ IngestionInv /\ IngestionInv' /\ source' = source
      /\ UNCHANGED <<frameId, frames>> /\ "persistence" \in Workers
  BY <1>1, IngestionRests, WorkersShape DEF LifeInv, ShutdownInv, ingestionVars
<1>3. PICK place \in Places :
        /\ Goto("persistence", place) /\ place \in {"get", "busy", "ended"}
        /\ place = "ended" => "persistence" \in told
  <2>1. CASE LoopAgain("persistence")
    <3>1. PICK p \in Places :
            /\ Goto("persistence", p) /\ p \in {"get", "drain", "ended"}
            /\ p # "get" => "persistence" \in told
            /\ p = "drain" <=> "persistence" = "compliance" /\ "persistence" \in told
      BY <1>2, <2>1, LoopAgainGoes
    <3>2. p # "drain"
      BY <3>1
    <3>3. QED
      BY <3>1, <3>2
  <2>2. CASE Goto("persistence", "busy")
    BY <2>2 DEF Places
  <2>3. QED
    BY <2>1, <2>2 DEF Persistence, TakeAlert, Persist, Idle
<1>4. /\ ToldInOrder' /\ LoopsUntilTold' /\ Joined' /\ thread' \in [Workers' -> Places]
      /\ \A u \in Workers \ {"persistence"} : thread'[u] = thread[u]
  BY <1>1, <1>2, <1>3, ThreadMoves
<1>5. thread'["inference"] = thread["inference"] /\ thread'["compliance"] = thread["compliance"]
  BY <1>4, WorkersShape
<1>6. alerts' \in 0..QueueSize
  BY <1>1, <1>2, IngestionConfigOK DEF WorkerTypes
<1>7. WorkerTypes'
  BY <1>1, <1>2, <1>4, <1>6 DEF WorkerTypes, Workers, Sessions
<1>8. TopicDrained' /\ LateOnlyAfterGivingUp' /\ OneWriter'
  BY <1>1, <1>2, <1>5 DEF ShutdownInv, TopicDrained, LateOnlyAfterGivingUp, OneWriter, Sessions
<1>9. VideoFrames'
  BY <1>1, <1>2, <1>5 DEF ShutdownInv, VideoFrames, Sessions
<1>10. QED
  BY <1>2, <1>4, <1>7, <1>8, <1>9 DEF LifeInv, ShutdownInv

----------------------------------------------------------------------------
(* The steps of the shutdown *)

(* A join that is made and the next worker that is told: more are told,    *)
(* more were given up on, and the threads stay where they are.             *)
LEMMA JoinKeeps ==
  ASSUME LifeInv, main' \in {"joinInference", "joinCompliance", "joinPersistence", "down"},
         told \subseteq told', told' \subseteq Workers, gaveUp \subseteq gaveUp', gaveUp' \subseteq told',
         ToldInOrder', Joined', writer' \in 0..MaxOpens,
         main' = "joinInference" => main = "waitIngestion" /\ writer' = writer,
         UNCHANGED <<ingestionVars, thread, job, detections, alerts, raised, late, broken, shown, cut>>
  PROVE  LifeInv'
<1>1. /\ ShutdownInv /\ WorkerTypes /\ IngestionInv /\ IngestionInv' /\ source' = source
      /\ UNCHANGED <<frameId, frames>>
  BY IngestionRests DEF LifeInv, ShutdownInv, ingestionVars
<1>2. WorkerTypes'
  BY <1>1 DEF WorkerTypes, Workers, Sessions, Shutdown
<1>3. LoopsUntilTold'
  BY <1>1 DEF ShutdownInv, LoopsUntilTold, Workers
<1>4. TopicDrained' /\ LateOnlyAfterGivingUp'
  BY <1>1 DEF ShutdownInv, TopicDrained, LateOnlyAfterGivingUp
<1>5. OneWriter'
  BY <1>1 DEF ShutdownInv, OneWriter, Sessions
<1>6. VideoFrames'
  BY <1>1 DEF ShutdownInv, VideoFrames, Sessions
<1>7. QED
  BY <1>1, <1>2, <1>3, <1>4, <1>5, <1>6 DEF LifeInv, ShutdownInv

LEMMA IngestionDoneKeeps ==
  ASSUME LifeInv, IngestionDone
  PROVE  LifeInv'
<1>1. /\ main = "waitIngestion" /\ main' = "joinInference" /\ told' = told \cup {"inference"}
      /\ UNCHANGED <<ingestionVars, gaveUp, thread, job, detections, alerts, raised, late, broken, writer, shown, cut>>
  BY DEF IngestionDone, Tell
<1>2. ShutdownInv /\ WorkerTypes /\ told = {} /\ gaveUp = {}
  BY <1>1 DEF LifeInv, ShutdownInv, ToldInOrder, WorkerTypes
<1>3. told' = {"inference"} /\ gaveUp' = {} /\ told' \subseteq Workers
  BY <1>1, <1>2, WorkersShape
<1>4. ToldInOrder'
  BY <1>1, <1>3 DEF ToldInOrder
<1>5. Joined'
  BY <1>1, <1>3 DEF Joined, Joining
<1>6. writer' \in 0..MaxOpens
  BY <1>1, <1>2 DEF WorkerTypes
<1>7. QED
  BY <1>1, <1>2, <1>3, <1>4, <1>5, <1>6, JoinKeeps

LEMMA InferenceJoinedKeeps ==
  ASSUME LifeInv, InferenceJoined
  PROVE  LifeInv'
<1>1. /\ main = "joinInference" /\ main' = "joinCompliance" /\ told' = told \cup {"compliance"}
      /\ gaveUp' = gaveUp \/ gaveUp' = gaveUp \cup {"inference"}
      /\ thread["inference"] = "ended" \/ "inference" \in gaveUp'
      /\ writer' = 0
      /\ UNCHANGED <<ingestionVars, thread, job, detections, alerts, raised, late, broken, shown, cut>>
  BY DEF InferenceJoined, Join, Tell
<1>2. ShutdownInv /\ WorkerTypes /\ told = {"inference"} /\ gaveUp \subseteq {"inference"}
  BY <1>1 DEF LifeInv, ShutdownInv, ToldInOrder, WorkerTypes
<1>3. /\ told' = {"inference", "compliance"} /\ told' \subseteq Workers
      /\ gaveUp \subseteq gaveUp' /\ gaveUp' \subseteq {"inference"}
  BY <1>1, <1>2, WorkersShape
<1>4. ToldInOrder'
  BY <1>1, <1>3 DEF ToldInOrder
<1>5. Joined'
  BY <1>1, <1>3 DEF Joined, Joining
<1>6. writer' \in 0..MaxOpens
  BY <1>1, IngestionConfigOK
<1>7. QED
  BY <1>1, <1>2, <1>3, <1>4, <1>5, <1>6, JoinKeeps

LEMMA ComplianceJoinedKeeps ==
  ASSUME LifeInv, ComplianceJoined
  PROVE  LifeInv'
<1>1. /\ main = "joinCompliance"
      /\ \/ source.db /\ main' = "joinPersistence" /\ told' = told \cup {"persistence"}
         \/ ~source.db /\ main' = "down" /\ told' = told
      /\ gaveUp' = gaveUp \/ gaveUp' = gaveUp \cup {"compliance"}
      /\ thread["compliance"] = "ended" \/ "compliance" \in gaveUp'
      /\ UNCHANGED <<ingestionVars, thread, job, detections, alerts, raised, late, broken, writer, shown, cut>>
  BY DEF ComplianceJoined, Join, Tell
<1>2. /\ ShutdownInv /\ WorkerTypes /\ told = {"inference", "compliance"}
      /\ gaveUp \subseteq {"inference", "compliance"} /\ source' = source
  BY <1>1 DEF LifeInv, ShutdownInv, ToldInOrder, WorkerTypes, ingestionVars
<1>3. /\ told' = Workers /\ told \subseteq told' /\ Workers' = Workers
      /\ gaveUp \subseteq gaveUp' /\ gaveUp' \subseteq told'
  BY <1>1, <1>2 DEF Workers
<1>4. ToldInOrder'
  BY <1>1, <1>2, <1>3 DEF ToldInOrder
<1>5. thread["inference"] = "ended" \/ "inference" \in gaveUp
  BY <1>1, <1>2 DEF ShutdownInv, Joined, Joining
<1>6. Joined'
  <2>1. SUFFICES ASSUME NEW w \in told'
                 PROVE  w \in Joining' \/ w \in gaveUp' \/ thread'[w] = "ended"
    BY DEF Joined
  <2>2. CASE w = "persistence"
    <3>1. source.db
      BY <1>3, <2>2, WorkersShape
    <3>2. main' = "joinPersistence"
      BY <1>1, <3>1
    <3>3. QED
      BY <2>2, <3>2 DEF Joining
  <2>3. CASE w \in {"inference", "compliance"}
    BY <1>1, <1>3, <1>5, <2>3
  <2>4. QED
    BY <1>3, <2>2, <2>3, WorkersShape
<1>7. writer' \in 0..MaxOpens
  BY <1>1, <1>2 DEF WorkerTypes
<1>8. QED
  BY <1>1, <1>2, <1>3, <1>4, <1>6, <1>7, JoinKeeps

LEMMA PersistenceJoinedKeeps ==
  ASSUME LifeInv, PersistenceJoined
  PROVE  LifeInv'
<1>1. /\ main = "joinPersistence" /\ main' = "down"
      /\ gaveUp' = gaveUp \/ gaveUp' = gaveUp \cup {"persistence"}
      /\ thread["persistence"] = "ended" \/ "persistence" \in gaveUp'
      /\ UNCHANGED <<ingestionVars, told, thread, job, detections, alerts, raised, late, broken, writer, shown, cut>>
  BY DEF PersistenceJoined, Join
<1>2. /\ ShutdownInv /\ WorkerTypes /\ told = Workers /\ source' = source
      /\ gaveUp \subseteq told
  BY <1>1 DEF LifeInv, ShutdownInv, ToldInOrder, WorkerTypes, ingestionVars
<1>3. source.db /\ "persistence" \in Workers /\ Workers' = Workers
  BY <1>1, <1>2, WorkersShape DEF ShutdownInv, ToldInOrder, Workers
<1>4. told' = Workers /\ gaveUp \subseteq gaveUp' /\ gaveUp' \subseteq told'
  BY <1>1, <1>2, <1>3
<1>5. ToldInOrder'
  BY <1>1, <1>3, <1>4 DEF ToldInOrder
<1>6. Joined'
  <2>1. SUFFICES ASSUME NEW w \in told'
                 PROVE  w \in Joining' \/ w \in gaveUp' \/ thread'[w] = "ended"
    BY DEF Joined
  <2>2. CASE w = "persistence"
    BY <1>1, <2>2
  <2>3. CASE w # "persistence"
    <3>1. w \in told /\ w \notin Joining
      BY <1>1, <2>3 DEF Joining
    <3>2. w \in gaveUp \/ thread[w] = "ended"
      BY <1>2, <3>1 DEF ShutdownInv, Joined
    <3>3. QED
      BY <1>1, <3>2
  <2>4. QED
    BY <2>2, <2>3
<1>7. writer' \in 0..MaxOpens
  BY <1>1, <1>2 DEF WorkerTypes
<1>8. QED
  BY <1>1, <1>2, <1>4, <1>5, <1>6, <1>7, JoinKeeps

(* The request to stop, the cancellation, and the exception of the task    *)
(* that comes out where it is awaited.                                     *)
LEMMA IngestionIsStopped ==
  ASSUME LifeInv, BeginShutdown \/ CancelIngestion \/ ShutdownRaises
  PROVE  LifeInv'
<1>1. CASE BeginShutdown
  <2>1. main = "up" /\ main' = "waitIngestion" /\ RequestStop /\ UNCHANGED workerVars
    BY <1>1 DEF BeginShutdown
  <2>2. IngestionInv' /\ ShutdownInv'
    BY <2>1, RequestStopKeeps, IngestionDisturbsNoThread DEF LifeInv
  <2>3. QED
    BY <2>2 DEF LifeInv
<1>2. CASE CancelIngestion
  <2>1. main' = main /\ Cancel /\ UNCHANGED workerVars
    BY <1>2 DEF CancelIngestion
  <2>2. IngestionInv' /\ ShutdownInv'
    BY <2>1, CancelKeeps, IngestionDisturbsNoThread DEF LifeInv
  <2>3. QED
    BY <2>2 DEF LifeInv
<1>3. CASE ShutdownRaises
  <2>1. /\ main = "waitIngestion" /\ main' = "raised"
        /\ UNCHANGED <<ingestionVars, workerVars>>
    BY <1>3 DEF ShutdownRaises
  <2>2. IngestionInv' /\ source' = source /\ UNCHANGED <<frameId, frames>>
    BY <2>1, IngestionRests DEF LifeInv, ingestionVars
  <2>3. WorkerTypes' /\ ToldInOrder' /\ LoopsUntilTold'
    BY <2>1, <2>2 DEF LifeInv, ShutdownInv, WorkerTypes, ToldInOrder, LoopsUntilTold, workerVars,
       Workers, Shutdown, Sessions
  <2>4. Joined' /\ TopicDrained' /\ LateOnlyAfterGivingUp' /\ OneWriter'
    BY <2>1, <2>2 DEF LifeInv, ShutdownInv, Joined, Joining, TopicDrained, LateOnlyAfterGivingUp,
       OneWriter, ToldInOrder, workerVars, Sessions
  <2>5. VideoFrames'
    BY <2>1, <2>2 DEF LifeInv, ShutdownInv, VideoFrames, workerVars, Sessions
  <2>6. QED
    BY <2>2, <2>3, <2>4, <2>5 DEF LifeInv, ShutdownInv
<1>4. QED
  BY <1>1, <1>2, <1>3

----------------------------------------------------------------------------
(* The invariant *)

LEMMA LifeInit ==
  ASSUME Init
  PROVE  LifeInv
<1>1. /\ source \in Sources /\ Files \in Seq(Nat \cup {Unreadable}) /\ Len(Files) \in Nat \ {0}
  BY FilesShape DEF Init, IngestionInit
<1>2. <<>> \in Seq(1..Len(Files)) /\ <<>> \in Seq(0..MaxOpens) /\ <<>> \in Seq(VideoRows)
  BY EmptySeq
<1>3. Len(<<>>) = 0
  OBVIOUS
<1>4. conn \in Connections /\ Len(conn.rows) = 0 /\ Len(opened) = 0 /\ conn.row = 0
  BY <1>2, <1>3 DEF Init, IngestionInit, Connections
<1>5. IngestionTypes
  <2>1. /\ at \in Awaits \cup Ended /\ inLoop \in BOOLEAN /\ stop \in BOOLEAN
    BY DEF Init, IngestionInit
  <2>2. /\ index \in 1..Len(Files) /\ todo \in Seq(1..Len(Files))
        /\ frames \in Seq(0..MaxOpens) /\ opened \in Seq(1..Len(Files))
    BY <1>1, <1>2 DEF Init, IngestionInit
  <2>3. frameId \in 0..MaxFrames /\ faults \in 0..MaxFaults
    BY IngestionConfigOK DEF Init, IngestionInit
  <2>4. Len(frames) <= QueueSize /\ Len(opened) <= MaxOpens
    BY <1>3, IngestionConfigOK DEF Init, IngestionInit
  <2>5. QED
    BY <1>1, <1>4, <2>1, <2>2, <2>3, <2>4 DEF IngestionTypes
<1>6. HeldRow /\ OthersClosed
  BY <1>4 DEF Init, IngestionInit, HeldRow, OthersClosed, Stray
<1>7. PlayedSoFar
  BY <1>4 DEF Init, IngestionInit, PlayedSoFar, OpenedUpTo
<1>8. WorkerTypes
  <2>1. thread \in [Workers -> Places] /\ shown \in [Sessions -> Nat]
    BY DEF Init, Started, Places
  <2>2. /\ job \in 0..MaxOpens /\ writer \in 0..MaxOpens /\ detections \in 0..QueueSize
        /\ alerts \in 0..QueueSize /\ raised \in 0..MaxAlerts
    BY IngestionConfigOK, LifeConfigOK DEF Init
  <2>3. /\ main \in {"up", "raised"} \cup Shutdown /\ told \subseteq Workers /\ gaveUp \subseteq told
        /\ late \in BOOLEAN /\ broken \in BOOLEAN /\ cut \in BOOLEAN
    BY DEF Init
  <2>4. QED
    BY <2>1, <2>2, <2>3 DEF WorkerTypes
<1>9. thread["inference"] = "get" /\ thread["compliance"] = "get" /\ \A w \in Workers : thread[w] = "get"
  BY WorkersShape DEF Init, Started
<1>10. ToldInOrder /\ LoopsUntilTold /\ Joined /\ TopicDrained /\ LateOnlyAfterGivingUp
  BY <1>9 DEF Init, ToldInOrder, LoopsUntilTold, Joined, TopicDrained, LateOnlyAfterGivingUp
<1>11. VideoFrames /\ OneWriter
  BY <1>3, <1>9 DEF Init, IngestionInit, VideoFrames, OneWriter
<1>12. QED
  BY <1>5, <1>6, <1>7, <1>8, <1>10, <1>11 DEF LifeInv, IngestionInv, ShutdownInv

LEMMA LifeStep ==
  ASSUME LifeInv, [Next]_lifeVars
  PROVE  LifeInv'
<1>1. CASE Ingestion
  <2>1. IngestionStep /\ main' = main /\ UNCHANGED workerVars
    BY <1>1 DEF Ingestion
  <2>2. IngestionInv' /\ ShutdownInv'
    BY <2>1, IngestionStepKeeps, IngestionDisturbsNoThread DEF LifeInv
  <2>3. QED
    BY <2>2 DEF LifeInv
<1>2. CASE Inference
  BY <1>2, TakeFrameKeeps, InferFrameKeeps, InferenceGoesOn DEF Inference
<1>3. CASE Compliance
  BY <1>3, TakeDetectionKeeps, DrainedKeeps, EvaluateKeeps, FlushKeeps, ComplianceIdleKeeps
     DEF Compliance
<1>4. CASE Persistence
  BY <1>4, PersistenceKeeps
<1>5. CASE BeginShutdown \/ CancelIngestion \/ ShutdownRaises
  BY <1>5, IngestionIsStopped
<1>6. CASE IngestionDone \/ InferenceJoined \/ ComplianceJoined \/ PersistenceJoined
  BY <1>6, IngestionDoneKeeps, InferenceJoinedKeeps, ComplianceJoinedKeeps, PersistenceJoinedKeeps
<1>7. CASE UNCHANGED lifeVars
  <2>1. UNCHANGED <<ingestionVars, main, workerVars>>
    BY <1>7 DEF lifeVars
  <2>2. IngestionInv' /\ source' = source /\ UNCHANGED <<frameId, frames>>
    BY <2>1, IngestionRests DEF LifeInv, ingestionVars
  <2>3. WorkerTypes' /\ ToldInOrder' /\ LoopsUntilTold'
    BY <2>1, <2>2 DEF LifeInv, ShutdownInv, WorkerTypes, ToldInOrder, LoopsUntilTold, workerVars,
       Workers, Shutdown, Sessions
  <2>4. Joined' /\ TopicDrained' /\ LateOnlyAfterGivingUp' /\ OneWriter'
    BY <2>1, <2>2 DEF LifeInv, ShutdownInv, Joined, Joining, TopicDrained, LateOnlyAfterGivingUp,
       OneWriter, workerVars, Sessions
  <2>5. VideoFrames'
    BY <2>1, <2>2 DEF LifeInv, ShutdownInv, VideoFrames, workerVars, Sessions
  <2>6. QED
    BY <2>2, <2>3, <2>4, <2>5 DEF LifeInv, ShutdownInv
<1>8. QED
  BY <1>1, <1>2, <1>3, <1>4, <1>5, <1>6, <1>7 DEF Next, Shutting

LEMMA LifeInvariant == Spec => []LifeInv
<1>1. Init => LifeInv
  BY LifeInit
<1>2. LifeInv /\ [Next]_lifeVars => LifeInv'
  BY LifeStep
<1>3. QED
  BY <1>1, <1>2, PTL DEF Spec

----------------------------------------------------------------------------
(* What follows from it *)

LEMMA LifeTyped ==
  ASSUME LifeInv
  PROVE  LifeTypeOK
<1>1. IngestionTypes /\ WorkerTypes /\ VideoFrames
  BY DEF LifeInv, IngestionInv, ShutdownInv
<1>2. IngestionTypeOK
  <2>1. \A i \in DOMAIN todo : todo[i] \in DOMAIN Files
    BY <1>1, FilesShape, LenProperties, ElementOfSeq DEF IngestionTypes
  <2>2. conn.rows \in Seq(VideoRows) /\ conn.cap \in Nat \cup {NoCap} /\ conn.row \in 0..Len(conn.rows)
    BY <1>1, LenProperties DEF IngestionTypes, Connections
  <2>3. \A i \in DOMAIN conn.rows : conn.rows[i] \in VideoRows
    BY <2>2, LenProperties, ElementOfSeq
  <2>4. \A i \in DOMAIN conn.rows : conn.rows[i].status \in {"INGESTING", "COMPLETED", "FAILED"}
    BY <2>3 DEF VideoRows
  <2>5. QED
    BY <1>1, <2>1, <2>2, <2>4 DEF IngestionTypes, IngestionTypeOK
<1>3. job \in {0} \cup Sessions /\ writer \in {0} \cup Sessions
  BY <1>1, IngestionConfigOK DEF WorkerTypes, Sessions
<1>4. shown \in [Sessions -> 0..MaxFrames]
  <2>1. SUFFICES ASSUME NEW s \in Sessions
                 PROVE  shown[s] \in 0..MaxFrames
    BY <1>1 DEF WorkerTypes
  <2>2. shown[s] + (IF thread["inference"] = "busy" THEN 1 ELSE 0) + Len(frames) <= frameId
    BY <1>1 DEF VideoFrames
  <2>3. shown[s] \in Nat /\ Len(frames) \in Nat /\ frameId \in 0..MaxFrames /\ MaxFrames \in Nat
    BY <1>1, LenProperties, IngestionConfigOK DEF WorkerTypes, IngestionTypes
  <2>4. QED
    BY <2>2, <2>3
<1>5. QED
  BY <1>1, <1>2, <1>3, <1>4 DEF WorkerTypes, LifeTypeOK

(* A file whose row says INGESTING is being played, at most one row apart,  *)
(* which was being inserted when the task was cancelled; a task that is     *)
(* over holds a row only if the database failed, and one that ended by      *)
(* itself neither a row nor a capture: the bookkeeping of video.py          *)
(* (_open_current, _mark_current_completed, close) for every playlist and   *)
(* any number of failures of the database.                                  *)
THEOREM RowsAreClosed == Spec => []RowsClosed
<1>1. LifeInv => RowsClosed
  <2> SUFFICES ASSUME LifeInv
               PROVE  RowsClosed
    OBVIOUS
  <2>1. conn \in Connections /\ faults \in Nat /\ DOMAIN conn.rows = 1..Len(conn.rows)
    BY LenProperties DEF LifeInv, IngestionInv, IngestionTypes, Connections
  <2>2. Playing \ {conn.row} = Stray(conn)
    BY <2>1 DEF Playing, Stray
  <2>3. Stray(conn) \subseteq IF at = "cancelled" THEN {Len(conn.rows)} ELSE {}
    BY DEF LifeInv, IngestionInv, OthersClosed
  <2>4. Cardinality(Stray(conn)) <= IF at = "cancelled" THEN 1 ELSE 0
    <3>1. CASE Stray(conn) = {}
      <4>1. Cardinality(Stray(conn)) = 0
        BY <3>1, FS_EmptySet
      <4>2. QED
        BY <2>1, <4>1
    <3>2. CASE at = "cancelled" /\ Stray(conn) = {Len(conn.rows)}
      <4>1. Cardinality(Stray(conn)) = 1
        BY <3>2, FS_Singleton
      <4>2. QED
        BY <2>1, <3>2, <4>1
    <3>3. QED
      BY <2>3, <3>1, <3>2
  <2>5. /\ at \in Ended /\ conn.row # 0 => faults > 0
        /\ at = "ended" => conn.cap = NoCap /\ conn.row = 0
    BY DEF LifeInv, IngestionInv, HeldRow
  <2>6. QED
    BY <2>2, <2>4, <2>5, LifeTyped DEF RowsClosed
<1>2. QED
  BY <1>1, LifeInvariant, PTL

(* A folder that is played to its end, without a request to stop, had every *)
(* readable file opened, in order and none twice, unless one of them has no *)
(* frame (video.py, _advance and _open_current): for folders of any length. *)
THEOREM FolderPlayed == Spec => []PlaylistPlayed
<1>1. LifeInv => PlaylistPlayed
  <2> SUFFICES ASSUME LifeInv, at = "ended", Video, ~stop, ~source.loop,
                      \A i \in DOMAIN Files : Files[i] # 0
               PROVE  /\ {opened[i] : i \in DOMAIN opened} = {i \in DOMAIN Files : Files[i] # Unreadable}
                      /\ \A i, j \in DOMAIN opened : i < j => opened[i] < opened[j]
    BY DEF PlaylistPlayed
  <2>1. DOMAIN Files = 1..Len(Files) /\ DOMAIN opened = 1..Len(opened)
    BY FilesShape, LenProperties DEF LifeInv, IngestionInv, IngestionTypes
  <2>2. OpenedUpTo(Len(Files)) /\ \A i, j \in 1..Len(opened) : i < j => opened[i] < opened[j]
    BY <2>1 DEF LifeInv, IngestionInv, PlayedSoFar
  <2>3. QED
    BY <2>1, <2>2 DEF OpenedUpTo
<1>2. QED
  BY <1>1, LifeInvariant, PTL

(* As long as no join gives up, the shutdown of main.py (lifespan) loses no *)
(* detection, raises no alert behind the persistence and closes nothing a   *)
(* thread still uses; and a result video is written over only by an         *)
(* inference that outlived its join.                                        *)
THEOREM ShutdownFollowsPipeline == Spec => []NothingProducedLate
<1>1. LifeInv => NothingProducedLate
  <2> SUFFICES ASSUME LifeInv
               PROVE  NothingProducedLate
    OBVIOUS
  <2>1. cut => "inference" \in gaveUp
    BY DEF LifeInv, ShutdownInv, OneWriter
  <2>2. ASSUME gaveUp = {}
        PROVE  ~late
    BY <2>2 DEF LifeInv, ShutdownInv, LateOnlyAfterGivingUp
  <2>3. ASSUME gaveUp = {}, main = "down"
        PROVE  \A w \in Workers : thread[w] = "ended"
    BY <2>3 DEF LifeInv, ShutdownInv, ToldInOrder, Joined, Joining
  <2>4. ASSUME gaveUp = {}, main = "down", ~broken
        PROVE  detections = 0
    <3>1. thread["compliance"] = "ended"
      BY <2>3, <2>4, WorkersShape
    <3>2. QED
      BY <2>4, <3>1 DEF LifeInv, ShutdownInv, TopicDrained
  <2>5. QED
    BY <2>1, <2>2, <2>3, <2>4 DEF NothingProducedLate
<1>2. QED
  BY <1>1, LifeInvariant, PTL

=============================================================================
