--------------------------- MODULE StreamIngestion ---------------------------
(***************************************************************************)
(* The ingestion task: StreamIngestionService.run (ingestion/service.py)   *)
(* over one of the two connectors, VideoConnector (connectors/video.py),   *)
(* which plays a list of files and keeps a row of video_ingestion for each,*)
(* and RTSPConnector (connectors/rtsp.py), which reconnects for ever.      *)
(*                                                                         *)
(* It is one coroutine: an action is what it does from one await to the    *)
(* next. stop() runs in the same event loop and is seen only where the     *)
(* code looks. A cancellation is delivered at the await the task is in; a  *)
(* call that waits in the executor is carried out all the same.            *)
(*                                                                         *)
(* A file is Unreadable or the number of its frames. The back-off, the     *)
(* throttle to the native rate and the saving of pictures are left out;    *)
(* whether a frame is valid and due (FpsSampler) is a choice.              *)
(***************************************************************************)
EXTENDS Integers, Sequences, SequencesExt

CONSTANTS
  Sources,       (* [kind : {"video", "rtsp"}, files, loop, db] *)
  Unreadable, NoCap,
  QueueSize,     (* max_size_per_topic of ingestion.frames *)
  MaxFrames,     (* bound: frames published *)
  MaxOpens,      (* bound: files opened *)
  MaxFaults      (* bound: calls of the database that fail *)

(* A playlist is never empty (_collect_videos raises), that of a camera has *)
(* one entry that nobody reads. A topic without bound is one of a QueueSize *)
(* that MaxFrames does not reach.                                           *)
ASSUME IngestionConfigOK ==
  /\ Sources \subseteq [kind : {"video", "rtsp"}, files : Seq(Nat \cup {Unreadable}),
                        loop : BOOLEAN, db : BOOLEAN]
  /\ \A s \in Sources : s.files # <<>>
  /\ Unreadable \notin Nat /\ NoCap \notin Nat
  /\ QueueSize \in Nat \ {0} /\ MaxFrames \in Nat /\ MaxOpens \in Nat /\ MaxFaults \in Nat

VARIABLES
  source,   (* the stream section of the configuration *)
  at,       (* the await the task is in, or how it ended *)
  inLoop,   (* connect() has returned *)
  index,    (* _playlist_index *)
  todo,     (* candidates left to _advance() *)
  conn,     (* [cap: frames left in _cap, row: _current_video_uuid, rows] *)
  stop,     (* _stop *)
  frameId,  (* _frame_id *)
  frames,   (* topic ingestion.frames: the session of each event *)
  opened,   (* history: the files that were opened; its length is the session *)
  faults    (* history: calls of the database that failed *)

ingestionVars ==
  <<source, at, inLoop, index, todo, conn, stop, frameId, frames, opened, faults>>

Awaits == {"new", "open", "sleep", "insert", "insertFailed", "read", "mark", "firstRead"}
Ended == {"ended", "raised", "cancelled"}

Video == source.kind = "video"
Files == source.files
Session == IF Video THEN Len(opened) ELSE 0     (* an RTSP stream has none *)

IngestionTypeOK ==
  /\ source \in Sources /\ at \in Awaits \cup Ended /\ inLoop \in BOOLEAN
  /\ index \in 1..Len(Files) /\ \A i \in DOMAIN todo : todo[i] \in DOMAIN Files
  /\ conn.cap \in Nat \cup {NoCap} /\ conn.row \in 0..Len(conn.rows)
  /\ \A i \in DOMAIN conn.rows : conn.rows[i].status \in {"INGESTING", "COMPLETED", "FAILED"}
  /\ stop \in BOOLEAN /\ frameId \in 0..MaxFrames /\ Len(frames) <= QueueSize
  /\ Len(opened) <= MaxOpens /\ faults \in 0..MaxFaults

----------------------------------------------------------------------------
Row(status) == [file |-> index, status |-> status]

(* In a full topic the oldest event makes room. *)
Enqueue(topic, m) == Append(IF Len(topic) < QueueSize THEN topic ELSE Tail(topic), m)

Fault == faults < MaxFaults /\ faults' = faults + 1

CloseForgetsRow(how, v) ==
  /\ at' = how /\ faults' = faults
  /\ conn' = [v EXCEPT !.cap = NoCap, !.row = 0]

(* close() in the finally block of run(): the row first, then the capture,  *)
(* which stays open if the database fails.                                  *)
Close(how, v) ==
  \/ /\ at' = how /\ faults' = faults
     /\ conn' = [cap |-> NoCap, row |-> 0,
                 rows |-> IF v.row = 0 THEN v.rows
                          ELSE [v.rows EXCEPT ![v.row].status = "COMPLETED"]]
  \/ v.row # 0 /\ Fault /\ at' = "raised" /\ conn' = v

(* The head of _loop(). *)
LoopHead(v) ==
  /\ inLoop' = TRUE
  /\ IF stop THEN Close("ended", v)
     ELSE at' = "read" /\ conn' = v /\ UNCHANGED faults

Invalid == UNCHANGED <<frameId, frames>>
NotDue  == UNCHANGED <<frameId, frames>>

PublishFrame ==
  /\ frameId < MaxFrames /\ frameId' = frameId + 1
  /\ frames' = Enqueue(frames, Session)

(* A frame was read: validate, sample, publish; only a frame that is        *)
(* published takes an id.                                                   *)
Deliver(v) == (Invalid \/ NotDue \/ PublishFrame) /\ LoopHead(v)

(* _open_current() begins by releasing the capture it has. *)
TryNext(candidates, v) ==
  IF candidates = <<>>
  THEN Close("ended", v) /\ UNCHANGED <<index, todo>>
  ELSE /\ index' = Head(candidates) /\ todo' = Tail(candidates)
       /\ at' = "open" /\ conn' = [v EXCEPT !.cap = NoCap] /\ UNCHANGED faults

Range1(a, b) == [i \in 1..(b - a + 1) |-> a + i - 1]

CandidatesSkipOne == Range1(index + 2, Len(Files))

Candidates ==
  Range1(index + 1, Len(Files)) \o (IF source.loop THEN Range1(1, index) ELSE <<>>)

(* RuntimeError out of _open_current(): _advance() tries the next file, but *)
(* connect() lets it through, and run() is not yet in its try.              *)
OpenRaises(v) ==
  IF inLoop THEN TryNext(todo, v)
  ELSE at' = "raised" /\ conn' = v /\ UNCHANGED <<index, todo, faults>>

(* The file is open and has its row, if there is a database. *)
FileReady(v) ==
  IF inLoop THEN at' = "firstRead" /\ conn' = v /\ UNCHANGED <<inLoop, faults>> ELSE LoopHead(v)

----------------------------------------------------------------------------
Connect ==
  /\ at = "new" /\ at' = "open"
  /\ UNCHANGED <<source, inLoop, index, todo, conn, stop, frameId, frames, opened, faults>>

OpenFile ==
  /\ Video /\ at = "open" /\ Files[index] # Unreadable /\ Len(opened) < MaxOpens
  /\ opened' = Append(opened, index)
  /\ LET v == [conn EXCEPT !.cap = Files[index]] IN
     IF source.db
     THEN at' = "insert" /\ conn' = v /\ UNCHANGED <<inLoop, faults>>
     ELSE FileReady(v)
  /\ UNCHANGED <<source, index, todo, stop, frameId, frames>>

OpenUnreadable ==
  /\ Video /\ at = "open" /\ Files[index] = Unreadable
  /\ IF source.db
     THEN at' = "insertFailed" /\ UNCHANGED <<conn, index, todo, faults>>
     ELSE OpenRaises(conn)
  /\ UNCHANGED <<source, inLoop, stop, frameId, frames, opened>>

InsertRow ==
  /\ at = "insert"
  /\ FileReady([conn EXCEPT !.rows = Append(@, Row("INGESTING")), !.row = Len(conn.rows) + 1])
  /\ UNCHANGED <<source, index, todo, stop, frameId, frames, opened>>

InsertFailedRow ==
  /\ at = "insertFailed"
  /\ OpenRaises([conn EXCEPT !.rows = Append(@, Row("FAILED"))])
  /\ UNCHANGED <<source, inLoop, stop, frameId, frames, opened>>

(* The database fails: not a RuntimeError, so _advance() lets it through.   *)
InsertRaises ==
  /\ at \in {"insert", "insertFailed"} /\ Fault
  /\ at' = "raised" /\ conn' = IF inLoop THEN [conn EXCEPT !.cap = NoCap] ELSE conn
  /\ UNCHANGED <<source, inLoop, index, todo, stop, frameId, frames, opened>>

ReadFrame ==
  /\ Video /\ at \in {"read", "firstRead"} /\ conn.cap > 0
  /\ Deliver([conn EXCEPT !.cap = @ - 1])
  /\ UNCHANGED <<source, index, todo, stop, opened>>

(* The end of the file: mark its row, then _advance(). *)
EndOfFile ==
  /\ Video /\ at = "read" /\ conn.cap = 0
  /\ IF conn.row # 0
     THEN at' = "mark" /\ UNCHANGED <<index, todo, conn, faults>>
     ELSE TryNext(Candidates, conn)
  /\ UNCHANGED <<source, inLoop, stop, frameId, frames, opened>>

MarkCompleted ==
  /\ at = "mark"
  /\ TryNext(Candidates, [conn EXCEPT !.rows[conn.row].status = "COMPLETED", !.row = 0])
  /\ UNCHANGED <<source, inLoop, stop, frameId, frames, opened>>

(* close() meets the row a second time. *)
MarkRaises ==
  /\ at = "mark" /\ faults < MaxFaults
  /\ \/ /\ faults' = faults + 1 /\ at' = "raised"
        /\ conn' = [cap |-> NoCap, row |-> 0,
                    rows |-> [conn.rows EXCEPT ![conn.row].status = "COMPLETED"]]
     \/ /\ faults + 2 <= MaxFaults /\ faults' = faults + 2
        /\ at' = "raised" /\ conn' = conn
  /\ UNCHANGED <<source, inLoop, index, todo, stop, frameId, frames, opened>>

(* The next file opens but has no frame: END_OF_STREAM, whatever follows.   *)
NextFileEmpty ==
  /\ Video /\ at = "firstRead" /\ conn.cap = 0
  /\ Close("ended", conn)
  /\ UNCHANGED <<source, inLoop, index, todo, stop, frameId, frames, opened>>

----------------------------------------------------------------------------
StreamUp ==
  /\ ~Video /\ at = "open" /\ LoopHead([conn EXCEPT !.cap = 0])
  /\ UNCHANGED <<source, index, todo, stop, frameId, frames, opened>>

(* connect() sleeps and tries again without a look at _stop, reconnect()    *)
(* looks before it sleeps and after.                                        *)
StreamDown ==
  /\ ~Video /\ at = "open"
  /\ IF inLoop /\ stop THEN Close("ended", conn) ELSE at' = "sleep" /\ UNCHANGED <<conn, faults>>
  /\ UNCHANGED <<source, inLoop, index, todo, stop, frameId, frames, opened>>

Wake ==
  /\ at = "sleep"
  /\ IF inLoop /\ stop THEN Close("ended", conn) ELSE at' = "open" /\ UNCHANGED <<conn, faults>>
  /\ UNCHANGED <<source, inLoop, index, todo, stop, frameId, frames, opened>>

ReadStream ==
  /\ ~Video /\ at = "read" /\ Deliver(conn)
  /\ UNCHANGED <<source, index, todo, stop, opened>>

StreamLost ==
  /\ ~Video /\ at = "read"
  /\ LET v == [conn EXCEPT !.cap = NoCap] IN
     IF stop THEN Close("ended", v) ELSE at' = "sleep" /\ conn' = v /\ UNCHANGED faults
  /\ UNCHANGED <<source, inLoop, index, todo, stop, frameId, frames, opened>>

----------------------------------------------------------------------------
(* What the executor still does for a task that waits no longer. *)
Orphaned ==
  IF at = "insert" THEN {conn.rows, Append(conn.rows, Row("INGESTING"))}
  ELSE IF at = "insertFailed" THEN {conn.rows, Append(conn.rows, Row("FAILED"))}
  ELSE {conn.rows}

(* cancel(): run() closes the connector only if it has come to its try.     *)
Cancel ==
  /\ at \in Awaits
  /\ \E rows \in Orphaned :
       LET v == [conn EXCEPT !.rows = rows] IN
       IF inLoop THEN Close("cancelled", v)
       ELSE at' = "cancelled" /\ conn' = v /\ UNCHANGED faults
  /\ UNCHANGED <<source, inLoop, index, todo, stop, frameId, frames, opened>>

RequestStop ==
  /\ stop' = TRUE
  /\ UNCHANGED <<source, at, inLoop, index, todo, conn, frameId, frames, opened, faults>>

IngestionInit ==
  /\ source \in Sources
  /\ at = "new" /\ inLoop = FALSE /\ index = 1 /\ todo = <<>>
  /\ conn = [cap |-> NoCap, row |-> 0, rows |-> <<>>]
  /\ stop = FALSE /\ frameId = 0 /\ frames = <<>> /\ opened = <<>> /\ faults = 0

IngestionStep ==
  \/ Connect \/ OpenFile \/ OpenUnreadable \/ InsertRow \/ InsertFailedRow \/ InsertRaises
  \/ ReadFrame \/ EndOfFile \/ MarkCompleted \/ MarkRaises \/ NextFileEmpty
  \/ StreamUp \/ StreamDown \/ Wake \/ ReadStream \/ StreamLost
=============================================================================
