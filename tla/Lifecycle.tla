------------------------------ MODULE Lifecycle ------------------------------
(***************************************************************************)
(* The life of the application after its start (main.py, lifespan): the    *)
(* ingestion task, the three worker threads, and the shutdown, which stops *)
(* and joins them in the order of the pipeline and closes what they use.   *)
(* A join gives up after five seconds; the thread goes on. An exception of *)
(* the ingestion task comes out where the shutdown awaits it.              *)
(*                                                                         *)
(* What the workers do with a message is another module's; here they only  *)
(* take it, work, and pass something on or not. The inference engine       *)
(* writes the result video of a session (inference/engine.py).             *)
(***************************************************************************)
EXTENDS StreamIngestion, FiniteSets

CONSTANTS MaxAlerts    (* bound: alerts *)

ASSUME LifeConfigOK == MaxAlerts \in Nat

VARIABLES
  main,        (* where lifespan() is *)
  told,        (* the workers whose stop event is set *)
  gaveUp,      (* the workers whose join has timed out *)
  thread,      (* worker -> where its thread is *)
  job,         (* session of the frame the inference has in hand *)
  detections,  (* topic inference.detections: how many events *)
  alerts,      (* topic compliance.alert *)
  raised,      (* history: alerts published *)
  late,        (* history: the persistence was already told to stop then *)
  broken,      (* history: the drain was left with an exception *)
  writer,      (* _video_writer: the session of its file, 0 when there is none *)
  shown,       (* session -> frames in its result video *)
  cut          (* history: a result video was written over *)

workerVars == <<told, gaveUp, thread, job, detections, alerts, raised, late, broken, writer, shown, cut>>
lifeVars == <<ingestionVars, main, workerVars>>

Workers == {"inference", "compliance"} \cup (IF source.db THEN {"persistence"} ELSE {})
Sessions == 1..MaxOpens

Shutdown == {"waitIngestion", "joinInference", "joinCompliance", "joinPersistence", "down"}
Places == {"get", "busy", "publish", "drain", "drainBusy", "flush", "ended"}

LifeTypeOK ==
  /\ IngestionTypeOK
  /\ main \in {"up", "raised"} \cup Shutdown
  /\ told \subseteq Workers /\ gaveUp \subseteq told /\ thread \in [Workers -> Places]
  /\ job \in {0} \cup Sessions /\ writer \in {0} \cup Sessions
  /\ detections \in 0..QueueSize /\ alerts \in 0..QueueSize /\ raised \in 0..MaxAlerts
  /\ late \in BOOLEAN /\ broken \in BOOLEAN /\ cut \in BOOLEAN
  /\ shown \in [Sessions -> 0..MaxFrames]

(* state_store.close() is behind the last join. *)
StoreClosed == main = "down"

Goto(w, place) == thread' = [thread EXCEPT ![w] = place]

(* The head of a worker's loop. *)
LoopAgain(w) == Goto(w, IF w \in told THEN (IF w = "compliance" THEN "drain" ELSE "ended") ELSE "get")

Room(n) == IF n < QueueSize THEN n + 1 ELSE n

Alert ==
  /\ raised < MaxAlerts /\ raised' = raised + 1 /\ alerts' = Room(alerts)
  /\ late' = (late \/ "persistence" \in told)

NoAlert == UNCHANGED <<raised, alerts, late>>

----------------------------------------------------------------------------
(* Inference: the thread may take one event more after it is told to stop.  *)
TakeFrame ==
  /\ thread["inference"] = "get" /\ frames # <<>>
  /\ job' = Head(frames) /\ frames' = Tail(frames) /\ Goto("inference", "busy")
  /\ UNCHANGED <<source, at, inLoop, index, todo, conn, stop, frameId, opened, faults>>
  /\ UNCHANGED <<main, told, gaveUp, detections, alerts, raised, late, broken, writer, shown, cut>>

(* _write_video_frame(): the writer is opened at the first frame, over a    *)
(* file that is there, and kept whatever the session of the next frames.    *)
(* No video may be asked for, and a failure to open or write is swallowed.  *)
WriteVideo ==
  \/ UNCHANGED <<writer, shown, cut>>
  \/ /\ writer # 0 /\ job # 0
     /\ shown' = [shown EXCEPT ![writer] = @ + 1] /\ UNCHANGED <<writer, cut>>
  \/ /\ writer = 0 /\ job # 0
     /\ writer' = job /\ shown' = [shown EXCEPT ![job] = 1]
     /\ cut' = (cut \/ shown[job] > 0)

InferFrame ==
  /\ thread["inference"] = "busy" /\ WriteVideo /\ Goto("inference", "publish")
  /\ UNCHANGED <<ingestionVars, main, told, gaveUp, job, detections, alerts, raised, late, broken>>

(* The frame is gone, no model is resolved, or the engine raises. *)
SkipFrame ==
  /\ thread["inference"] = "busy" /\ job' = 0 /\ LoopAgain("inference")
  /\ UNCHANGED <<ingestionVars, main, told, gaveUp, detections, alerts, raised, late, broken, writer, shown, cut>>

PublishDetection ==
  /\ thread["inference"] = "publish" /\ job' = 0
  /\ detections' = Room(detections) /\ LoopAgain("inference")
  /\ UNCHANGED <<ingestionVars, main, told, gaveUp, alerts, raised, late, broken, writer, shown, cut>>

----------------------------------------------------------------------------
(* Compliance: when told to stop it empties the topic and flushes.          *)
TakeDetection ==
  /\ thread["compliance"] \in {"get", "drain"} /\ detections > 0
  /\ detections' = detections - 1
  /\ Goto("compliance", IF thread["compliance"] = "get" THEN "busy" ELSE "drainBusy")
  /\ UNCHANGED <<ingestionVars, main, told, gaveUp, job, alerts, raised, late, broken, writer, shown, cut>>

DrainedEarly ==
  /\ thread["compliance"] = "drain" /\ Goto("compliance", "flush")
  /\ UNCHANGED <<ingestionVars, main, told, gaveUp, job, detections, alerts, raised, late, broken, writer, shown, cut>>

Drained ==
  /\ thread["compliance"] = "drain" /\ detections = 0 /\ Goto("compliance", "flush")
  /\ UNCHANGED <<ingestionVars, main, told, gaveUp, job, detections, alerts, raised, late, broken, writer, shown, cut>>

Evaluate ==
  /\ thread["compliance"] \in {"busy", "drainBusy"} /\ ~StoreClosed
  /\ Alert \/ NoAlert
  /\ IF thread["compliance"] = "busy" THEN LoopAgain("compliance") ELSE Goto("compliance", "drain")
  /\ UNCHANGED <<ingestionVars, main, told, gaveUp, job, detections, broken, writer, shown, cut>>

(* process() raises, as it must once the store is closed: the loop goes on, *)
(* the drain does not.                                                      *)
EvaluateRaises ==
  /\ thread["compliance"] \in {"busy", "drainBusy"}
  /\ IF thread["compliance"] = "busy" THEN LoopAgain("compliance") /\ UNCHANGED broken
     ELSE Goto("compliance", "flush") /\ broken' = TRUE
  /\ UNCHANGED <<ingestionVars, main, told, gaveUp, job, detections, alerts, raised, late, writer, shown, cut>>

(* flush(); with the store closed it raises and the thread ends of that.    *)
Flush ==
  /\ thread["compliance"] = "flush" /\ Goto("compliance", "ended")
  /\ NoAlert \/ (~StoreClosed /\ Alert)
  /\ UNCHANGED <<ingestionVars, main, told, gaveUp, job, detections, broken, writer, shown, cut>>

----------------------------------------------------------------------------
(* Persistence: the look at the stop event is at the head of the loop only; *)
(* nothing is drained.                                                      *)
TakeAlert ==
  /\ source.db /\ thread["persistence"] = "get" /\ alerts > 0
  /\ alerts' = alerts - 1 /\ Goto("persistence", "busy")
  /\ UNCHANGED <<ingestionVars, main, told, gaveUp, job, detections, raised, late, broken, writer, shown, cut>>

Persist ==
  /\ source.db /\ thread["persistence"] = "busy" /\ LoopAgain("persistence")
  /\ UNCHANGED <<ingestionVars, main, told, gaveUp, job, detections, alerts, raised, late, broken, writer, shown, cut>>

(* get() times out, or the persistence has slept: the loop begins again.    *)
Idle(w) ==
  /\ thread[w] = "get" /\ w \in told /\ LoopAgain(w)
  /\ CASE w = "inference" -> frames = <<>> [] w = "compliance" -> detections = 0
       [] OTHER -> alerts = 0
  /\ UNCHANGED <<ingestionVars, main, told, gaveUp, job, detections, alerts, raised, late, broken, writer, shown, cut>>

----------------------------------------------------------------------------
(* The shutdown. *)
BeginShutdown ==
  /\ main = "up" /\ main' = "waitIngestion" /\ RequestStop /\ UNCHANGED workerVars

(* stop() of a worker sets its event. *)
Tell(w) == told' = told \cup {w}

CancelIngestionNever == main = "waitIngestion" /\ at \in Ended /\ UNCHANGED lifeVars

(* wait_for(): after its timeout the task is cancelled and awaited. *)
CancelIngestion == main = "waitIngestion" /\ Cancel /\ UNCHANGED <<main, workerVars>>

IngestionDone ==
  /\ main = "waitIngestion" /\ at \in {"ended", "cancelled"}
  /\ main' = "joinInference" /\ Tell("inference")
  /\ UNCHANGED <<ingestionVars, gaveUp, thread, job, detections, alerts, raised, late, broken, writer, shown, cut>>

(* Neither TimeoutError nor CancelledError: lifespan() ends here. *)
ShutdownRaises ==
  /\ main = "waitIngestion" /\ at = "raised" /\ main' = "raised"
  /\ UNCHANGED <<ingestionVars, workerVars>>

JoinWaitsNot(w) == gaveUp' = gaveUp

(* join(timeout=5.0) *)
Join(w) == IF thread[w] = "ended" THEN gaveUp' = gaveUp ELSE gaveUp' = gaveUp \cup {w}

(* engine.close() releases the video writer. *)
InferenceJoined ==
  /\ main = "joinInference" /\ Join("inference") /\ writer' = 0
  /\ main' = "joinCompliance" /\ Tell("compliance")
  /\ UNCHANGED <<ingestionVars, thread, job, detections, alerts, raised, late, broken, shown, cut>>

ComplianceJoined ==
  /\ main = "joinCompliance" /\ Join("compliance")
  /\ IF source.db THEN main' = "joinPersistence" /\ Tell("persistence")
     ELSE main' = "down" /\ UNCHANGED told
  /\ UNCHANGED <<ingestionVars, thread, job, detections, alerts, raised, late, broken, writer, shown, cut>>

PersistenceJoined ==
  /\ main = "joinPersistence" /\ Join("persistence") /\ main' = "down"
  /\ UNCHANGED <<ingestionVars, told, thread, job, detections, alerts, raised, late, broken, writer, shown, cut>>

----------------------------------------------------------------------------
Started == [w \in Workers |-> "get"]

Init ==
  /\ IngestionInit /\ main = "up" /\ told = {} /\ gaveUp = {}
  /\ thread = Started /\ job = 0 /\ detections = 0 /\ alerts = 0
  /\ raised = 0 /\ late = FALSE /\ broken = FALSE
  /\ writer = 0 /\ shown = [s \in Sessions |-> 0] /\ cut = FALSE

Ingestion == IngestionStep /\ UNCHANGED <<main, workerVars>>
Inference == TakeFrame \/ InferFrame \/ SkipFrame \/ PublishDetection \/ Idle("inference")
Compliance == TakeDetection \/ Drained \/ Evaluate \/ EvaluateRaises \/ Flush \/ Idle("compliance")
Persistence == TakeAlert \/ Persist \/ (source.db /\ Idle("persistence"))
Shutting ==
  CancelIngestion \/ IngestionDone \/ ShutdownRaises
  \/ InferenceJoined \/ ComplianceJoined \/ PersistenceJoined

Next == Ingestion \/ Inference \/ Compliance \/ Persistence \/ BeginShutdown \/ Shutting

(* Every thread runs on. Of the ingestion nothing is assumed: its awaits    *)
(* may take any time. That the shutdown is asked for is not assumed.        *)
Spec ==
  /\ Init /\ [][Next]_lifeVars
  /\ WF_lifeVars(Inference) /\ WF_lifeVars(Compliance) /\ WF_lifeVars(Persistence)
  /\ WF_lifeVars(Shutting)

----------------------------------------------------------------------------
(* Properties *)

Playing == {i \in DOMAIN conn.rows : conn.rows[i].status = "INGESTING"}

(* A file whose row says INGESTING is being played, but one row that was    *)
(* being inserted when the task was cancelled. A task that is over has let  *)
(* go of its row, unless the database failed, and one that ended by itself  *)
(* of its capture.                                                          *)
RowsClosed ==
  /\ LifeTypeOK
  /\ Cardinality(Playing \ {conn.row}) <= IF at = "cancelled" THEN 1 ELSE 0
  /\ at \in Ended /\ conn.row # 0 => faults > 0
  /\ at = "ended" => conn.cap = NoCap /\ conn.row = 0

(* When a folder is played to its end, without a request to stop, every     *)
(* readable file was opened, in order, and none twice -- unless one of them *)
(* has no frame, which ends it at once.                                     *)
PlaylistPlayed ==
  at = "ended" /\ Video /\ ~stop /\ ~source.loop /\ (\A i \in DOMAIN Files : Files[i] # 0) =>
    /\ {opened[i] : i \in DOMAIN opened} = {i \in DOMAIN Files : Files[i] # Unreadable}
    /\ \A i, j \in DOMAIN opened : i < j => opened[i] < opened[j]

(* The shutdown follows the pipeline: as long as no join gives up, nothing  *)
(* a stage has published is left to the next when that was in time to take  *)
(* it, no alert comes after the persistence was told to stop (main.py:293), *)
(* and no thread runs when what it uses is closed.  A result video is       *)
(* finished once and for all, unless the inference outlived its join: the   *)
(* next frame then opens the file anew.                                     *)
NothingProducedLate ==
  /\ gaveUp = {} =>
       /\ ~late
       /\ main = "down" => \A w \in Workers : thread[w] = "ended"
       /\ main = "down" /\ ~broken => detections = 0
  /\ cut => "inference" \in gaveUp

(* A shutdown comes to its end, though a camera never answers, and leaves   *)
(* no thread that it told to stop.                                          *)
ShutdownEnds ==
  /\ stop ~> main \in {"down", "raised"}
  /\ \A w \in {"inference", "compliance", "persistence"} :
       w \in told ~> (w \in Workers => thread[w] = "ended")
=============================================================================
