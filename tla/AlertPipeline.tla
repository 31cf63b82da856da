--------------------------- MODULE AlertPipeline ---------------------------
(***************************************************************************)
(* From a verdict to the database: the compliance thread publishes the     *)
(* evidence of a violation and then its alert, through two topics of the   *)
(* in-memory queue (ComplianceRuleEngine._publish_violation); the          *)
(* persistence thread joins the two again and stores them                  *)
(* (infrastructure/database/persistence_worker.py).                        *)
(*                                                                         *)
(* Both topics lose their oldest message when full, attempts to store fail *)
(* before, while or after they take effect, the process may die and start  *)
(* again: rows and files stay, queues and pending evidence do not.         *)
(*                                                                         *)
(* Left out: notifications, audit entries and the clip (written in the     *)
(* same transaction, no decision reads them), metrics, and the delays.     *)
(***************************************************************************)
EXTENDS Integers, Sequences, FiniteSets, Functions

CONSTANTS
  Unknown,      (* the group id of violations without a group                 *)
  MaxSize,      (* max_size_per_topic                                         *)
  MaxLooks,     (* times an alert looks for its evidence                      *)
  MaxRetries,   (* _MAX_RETRIES                                               *)
  NoMessage,    (* no message                                                 *)
  MaxAlerts,    (* bound: violations raised                                   *)
  MaxBoots      (* bound: processes started                                   *)

ASSUME PipelineConfigOK ==
  /\ MaxSize \in Nat /\ MaxLooks \in Nat \ {0} /\ MaxRetries \in Nat \ {0}
  /\ MaxAlerts \in Nat /\ MaxBoots \in Nat \ {0}
  /\ Unknown \notin 1..MaxAlerts /\ NoMessage \notin 1..MaxAlerts \cup {Unknown}
  /\ NoMessage \notin [n : 1..MaxAlerts, group : 1..MaxAlerts \cup {Unknown}]

(* A group id made by uuid4 is named after the first violation that has it. *)
Groups == 1..MaxAlerts

(* An alert is the number of the violation and its group, an               *)
(* EvidenceCaptureEvent is its group.                                      *)
GroupIds == Groups \cup {Unknown}

Alerts == [n : 1..MaxAlerts, group : GroupIds]

compliance == "compliance"   (* the only publishing thread *)

VARIABLES
  evItems, evDropped, evAt, evHolding,   (* topic evidence.capture           *)
  alItems, alDropped, alAt, alHolding,   (* topic compliance.alert           *)
  due,         (* the alert to publish once its evidence is out, or NoMessage *)
  raised,      (* violations raised so far                                    *)
  worker,      (* where the persistence thread is                             *)
  stop,        (* _stop_event                                                 *)
  alert,       (* the alert being stored                                      *)
  found,       (* its evidence was found in pending                           *)
  count,       (* looks, then attempts, made for it                           *)
  keyed,       (* the files of the attempt were written                       *)
  pending,     (* _pending_evidence, the groups in it                         *)
  rows,        (* table violations, with whether evidence was stored          *)
  files,       (* groups with evidence files on disk                          *)
  boot,        (* number of the process                                       *)
  used,        (* history: groups an alert was raised for                     *)
  shown,       (* history: groups (not "unknown") with published evidence     *)
  forfeited,   (* history: groups whose evidence was evicted, lost in a crash *)
               (* or given up with its alert                                  *)
  settled,     (* history: alerts after which the worker found or made a row  *)
  unstored     (* history: alerts evicted, lost in a crash, or given up after *)
               (* the last attempt                                            *)

evTopic == <<evItems, evDropped, evAt, evHolding>>
alTopic == <<alItems, alDropped, alAt, alHolding>>
engine  == <<due, raised, used, shown>>
task    == <<alert, found, count, keyed>>
db      == <<rows, files>>
history == <<settled, unstored>>
vars == <<evTopic, alTopic, engine, worker, stop, task, pending, db, boot, forfeited, history>>

EvidenceQ == INSTANCE InMemoryMessageQueue WITH
  Publishers <- {compliance}, Messages <- GroupIds,
  items <- evItems, dropped <- evDropped, at <- evAt, holding <- evHolding

AlertQ == INSTANCE InMemoryMessageQueue WITH
  Publishers <- {compliance}, Messages <- Alerts,
  items <- alItems, dropped <- alDropped, at <- alAt, holding <- alHolding

TypeOK ==
  /\ EvidenceQ!QueueTypeOK /\ AlertQ!QueueTypeOK
  /\ due \in Alerts \cup {NoMessage} /\ raised \in 0..MaxAlerts
  /\ worker \in {"head", "alerts", "look", "guard", "files", "commit", "stopped"}
  /\ stop \in BOOLEAN /\ found \in BOOLEAN /\ keyed \in BOOLEAN
  /\ alert \in Alerts \cup {NoMessage}
  /\ count \in IF worker = "look" THEN 0..(MaxLooks - 1) ELSE 0..MaxRetries
  /\ pending \in SUBSET GroupIds /\ forfeited \in SUBSET Groups
  /\ used \in SUBSET GroupIds /\ shown \in SUBSET Groups
  /\ rows \in SUBSET [group : GroupIds, evidence : BOOLEAN, keyed : BOOLEAN]
  /\ files \in SUBSET GroupIds
  /\ boot \in 1..MaxBoots
  /\ settled \in SUBSET Alerts /\ unstored \in SUBSET Alerts

(* Alerts on their way: about to be published, queued, or at work. *)
InFlight ==
  ({due, alert, alHolding[compliance]} \cap Alerts) \cup Range(alItems)

----------------------------------------------------------------------------
(* The compliance thread.  Evidence comes with a group at most once, and   *)
(* never after an alert without it (ComplianceEngine!OneEvidencePerVisit,  *)
(* EvidenceNotMixed); without evidence an alert may come first, after a    *)
(* restart has lost the buffer, or again, after a failed write of the      *)
(* state.  A failed write may also leave a visit without its group while   *)
(* its buffer is live: then there is evidence under "unknown".             *)

Raise(g, shows) ==
  /\ evAt[compliance] = "idle" /\ alAt[compliance] = "idle" /\ due = NoMessage
  /\ raised < MaxAlerts
  /\ g \in used \cup {raised + 1, Unknown}
  /\ raised' = raised + 1 /\ used' = used \cup {g}
  /\ LET a == [n |-> raised + 1, group |-> g] IN
     IF shows
     THEN /\ g \in {raised + 1, Unknown}
          /\ EvidenceQ!Publish(compliance, g)
          /\ due' = a /\ shown' = shown \cup ({g} \cap Groups)
          /\ UNCHANGED alTopic
     ELSE /\ AlertQ!Publish(compliance, a)
          /\ UNCHANGED <<evTopic, due, shown>>
  /\ UNCHANGED <<worker, stop, task, pending, db, boot, forfeited, history>>

PublishEvidence ==
  /\ EvidenceQ!PublishStep(compliance)
  /\ forfeited' = forfeited \cup (Groups \cap IF Len(evItems') < Len(evItems) THEN {Head(evItems)} ELSE {})
  /\ UNCHANGED <<alTopic, engine, worker, stop, task, pending, db, boot, history>>

(* publish() of the evidence has returned: the alert follows. *)
AlertFollows ==
  /\ due # NoMessage /\ evAt[compliance] = "idle"
  /\ AlertQ!Publish(compliance, due)
  /\ due' = NoMessage
  /\ UNCHANGED <<evTopic, raised, used, shown, worker, stop, task, pending, db, boot,
                 forfeited, history>>

PublishAlert ==
  /\ AlertQ!PublishStep(compliance)
  /\ unstored' = unstored \cup IF Len(alItems') < Len(alItems) THEN {Head(alItems)} ELSE {}
  /\ UNCHANGED <<evTopic, engine, worker, stop, task, pending, db, boot, forfeited,
                 settled>>

----------------------------------------------------------------------------
(* The persistence thread *)

(* _drain_evidence_topic: one message, if there is one, goes to pending,   *)
(* of which the groups in taken are then popped.                           *)
DrainEvidence(taken) ==
  IF evItems = <<>>
  THEN pending' = pending \ taken /\ UNCHANGED evTopic
  ELSE EvidenceQ!Get /\ pending' = (pending \cup {Head(evItems)}) \ taken

Arrived(g) == g \in pending \/ (evItems # <<>> /\ Head(evItems) = g)

(* The head of the loop: the only place where the stop event is looked at. *)
LoopHead ==
  /\ worker = "head"
  /\ IF stop THEN worker' = "stopped" /\ UNCHANGED <<pending, evTopic>>
     ELSE worker' = "alerts" /\ DrainEvidence({})
  /\ UNCHANGED <<alTopic, engine, stop, task, db, boot, forfeited, history>>

(* _drain_alert_topic takes the next alert. *)
TakeAlert ==
  /\ worker = "alerts"
  /\ IF alItems = <<>> THEN worker' = "head" /\ UNCHANGED <<alTopic, task>>
     ELSE /\ AlertQ!Get
          /\ alert' = Head(alItems) /\ found' = FALSE /\ count' = 0
          /\ worker' = "look" /\ UNCHANGED keyed
  /\ UNCHANGED <<evTopic, engine, stop, pending, db, boot, forfeited, history>>

(* Mutant: pending is looked at without draining the topic first. *)
LookWithoutDraining ==
  /\ worker = "look"
  /\ IF alert.group \in pending
     THEN found' = TRUE /\ count' = 1 /\ worker' = "guard"
     ELSE /\ found' = FALSE
          /\ IF count + 1 < MaxLooks THEN count' = count + 1 /\ UNCHANGED worker
             ELSE count' = 1 /\ worker' = "guard"
  /\ pending' = pending \ {alert.group}
  /\ UNCHANGED <<evTopic, alTopic, engine, stop, alert, keyed, db, boot, forfeited, history>>

(* Mutant: an alert waits for its evidence as long as it takes. *)
LookForever ==
  /\ worker = "look"
  /\ DrainEvidence({alert.group})
  /\ IF Arrived(alert.group)
     THEN found' = TRUE /\ count' = 1 /\ worker' = "guard"
     ELSE found' = FALSE /\ UNCHANGED <<count, worker>>
  /\ UNCHANGED <<alTopic, engine, stop, alert, keyed, db, boot, forfeited, history>>

(* One look for the evidence: drain a message, pop the group of the alert. *)
Look ==
  /\ worker = "look"
  /\ DrainEvidence({alert.group})
  /\ IF Arrived(alert.group)
     THEN found' = TRUE /\ count' = 1 /\ worker' = "guard"
     ELSE /\ found' = FALSE
          /\ IF count + 1 < MaxLooks THEN count' = count + 1 /\ UNCHANGED worker
             ELSE count' = 1 /\ worker' = "guard"
  /\ UNCHANGED <<alTopic, engine, stop, alert, keyed, db, boot, forfeited, history>>

Stored(g) == \E r \in rows : r.group = g

Settle ==
  /\ settled' = settled \cup {alert}
  /\ worker' = "head" /\ alert' = NoMessage /\ count' = 0 /\ found' = FALSE /\ keyed' = FALSE

(* Mutants: an attempt goes on where the last one failed, after the guard; *)
(* the last failure settles the alert.                                     *)
AttemptFailsPastGuard ==
  IF count < MaxRetries
  THEN /\ count' = count + 1 /\ worker' = "files" /\ keyed' = FALSE
       /\ UNCHANGED <<alert, found, settled, unstored, forfeited>>
  ELSE /\ unstored' = unstored \cup {alert}
       /\ forfeited' = forfeited \cup (Groups \cap IF found THEN {alert.group} ELSE {})
       /\ worker' = "head" /\ alert' = NoMessage /\ count' = 0 /\ found' = FALSE /\ keyed' = FALSE
       /\ UNCHANGED settled

AttemptFailsSettles ==
  IF count < MaxRetries
  THEN /\ count' = count + 1 /\ worker' = "guard" /\ keyed' = FALSE
       /\ UNCHANGED <<alert, found, settled, unstored, forfeited>>
  ELSE Settle /\ UNCHANGED <<unstored, forfeited>>

(* _persist_violation raised: the transaction is rolled back, and it is    *)
(* tried again from the start or given up.                                 *)
AttemptFails ==
  IF count < MaxRetries
  THEN /\ count' = count + 1 /\ worker' = "guard" /\ keyed' = FALSE
       /\ UNCHANGED <<alert, found, settled, unstored, forfeited>>
  ELSE /\ unstored' = unstored \cup {alert}
       /\ forfeited' = forfeited \cup (Groups \cap IF found THEN {alert.group} ELSE {})
       /\ worker' = "head" /\ alert' = NoMessage /\ count' = 0 /\ found' = FALSE /\ keyed' = FALSE
       /\ UNCHANGED settled

Attempting(step) ==
  /\ worker = step
  /\ UNCHANGED <<evTopic, alTopic, engine, stop, pending, boot>>

(* The idempotency guard: a group that is stored already is left alone. *)
Guard ==
  /\ Attempting("guard")
  /\ \/ Stored(alert.group) /\ Settle /\ UNCHANGED <<unstored, forfeited>>
     \/ ~Stored(alert.group) /\ worker' = "files"
        /\ UNCHANGED <<task, settled, unstored, forfeited>>
     \/ AttemptFails
  /\ UNCHANGED db

(* The rows are flushed and the files written.  A file that cannot be      *)
(* written leaves its storage_key empty; a directory that cannot be made,  *)
(* or the database, fails the attempt, with or without files behind.       *)
WriteFiles ==
  /\ Attempting("files")
  /\ \E wrote \in (IF found THEN BOOLEAN ELSE {FALSE}) :
       /\ files' = files \cup IF wrote THEN {alert.group} ELSE {}
       /\ \/ /\ worker' = "commit" /\ keyed' = wrote
             /\ UNCHANGED <<alert, found, count, settled, unstored, forfeited>>
          \/ AttemptFails
  /\ UNCHANGED rows

(* Mutant: the row names its files whether or not they were written. *)
CommitKeysAlways ==
  /\ Attempting("commit")
  /\ \E applied \in BOOLEAN :
       /\ rows' = rows \cup IF applied
                            THEN {[group |-> alert.group, evidence |-> found, keyed |-> found]}
                            ELSE {}
       /\ IF applied THEN (Settle /\ UNCHANGED <<unstored, forfeited>>) \/ AttemptFails
          ELSE AttemptFails
  /\ UNCHANGED files

(* The commit: takes effect and returns, takes effect but its answer is    *)
(* lost, or fails.                                                         *)
Commit ==
  /\ Attempting("commit")
  /\ \E applied \in BOOLEAN :
       /\ rows' = rows \cup IF applied
                            THEN {[group |-> alert.group, evidence |-> found, keyed |-> keyed]}
                            ELSE {}
       /\ IF applied THEN (Settle /\ UNCHANGED <<unstored, forfeited>>) \/ AttemptFails
          ELSE AttemptFails
  /\ UNCHANGED files

----------------------------------------------------------------------------
(* The process *)

(* lifespan: persistence is stopped after the compliance worker has been   *)
(* joined; the join gives up after five seconds, so the compliance thread  *)
(* may still be publishing.                                                *)
Stop ==
  /\ ~stop
  /\ stop' = TRUE
  /\ UNCHANGED <<evTopic, alTopic, engine, worker, task, pending, db, boot, forfeited, history>>

(* The process ends, killed or after its shutdown, and a new one starts:   *)
(* what was in memory is gone.                                             *)
Restart ==
  /\ boot < MaxBoots
  /\ boot' = boot + 1
  /\ worker' = "head" /\ stop' = FALSE
  /\ forfeited' = forfeited \cup
       (Groups \cap (Range(evItems) \cup {evHolding[compliance]} \cup pending
                     \cup IF found THEN {alert.group} ELSE {}))
  /\ unstored' = unstored \cup InFlight
  /\ evItems' = <<>> /\ evDropped' = 0
  /\ evAt' = [p \in {compliance} |-> "idle"] /\ evHolding' = [p \in {compliance} |-> NoMessage]
  /\ alItems' = <<>> /\ alDropped' = 0
  /\ alAt' = [p \in {compliance} |-> "idle"] /\ alHolding' = [p \in {compliance} |-> NoMessage]
  /\ due' = NoMessage /\ pending' = {}
  /\ alert' = NoMessage /\ found' = FALSE /\ count' = 0 /\ keyed' = FALSE
  /\ UNCHANGED <<raised, used, shown, db, settled>>

Init ==
  /\ EvidenceQ!QueueInit /\ AlertQ!QueueInit
  /\ due = NoMessage /\ raised = 0
  /\ worker = "head" /\ stop = FALSE
  /\ alert = NoMessage /\ found = FALSE /\ count = 0 /\ keyed = FALSE
  /\ pending = {} /\ rows = {} /\ files = {} /\ boot = 1
  /\ used = {} /\ shown = {} /\ forfeited = {} /\ settled = {} /\ unstored = {}

WorkerStep == LoopHead \/ TakeAlert \/ Look \/ Guard \/ WriteFiles \/ Commit

ComplianceStep == PublishEvidence \/ AlertFollows \/ PublishAlert

Next ==
  \/ \E g \in GroupIds, shows \in BOOLEAN : Raise(g, shows)
  \/ ComplianceStep
  \/ WorkerStep
  \/ Stop \/ Restart

(* The two threads are scheduled; no attempt is assumed to succeed, and    *)
(* nothing is assumed of Stop and Restart.                                 *)
Spec == Init /\ [][Next]_vars /\ WF_vars(WorkerStep) /\ WF_vars(ComplianceStep)

----------------------------------------------------------------------------
(* Properties *)

(* "avoiding a race where the worker looks for evidence that hasn't been   *)
(* enqueued yet": a violation with a group of its own is stored without    *)
(* the evidence published for it only if that evidence was evicted, lost   *)
(* with the process, or given up with an earlier alert; never because it   *)
(* was looked for too early.  It rests on the queue not being longer than  *)
(* the looks are many.  And a row that names evidence files is never       *)
(* without them, whichever attempt or process wrote them.                  *)
EvidenceJoined ==
  /\ \A r \in rows : r.group \in shown /\ ~r.evidence => r.group \in forfeited
  /\ \A r \in rows : r.keyed => r.group \in files

(* A retry after a lost commit answer, or an alert raised again after a    *)
(* restart, never inserts a group that is stored: violations.group_id is   *)
(* UNIQUE, so each would fail every attempt.                               *)
InsertNeverCollides == worker \in {"files", "commit"} => ~Stored(alert.group)

(* Every alert is in one place: about to be published, queued, at work,    *)
(* settled with a row of its group, or given up or lost.                   *)
AlertsAccounted ==
  /\ TypeOK
  /\ {a.n : a \in InFlight \cup settled \cup unstored} = 1..raised
  /\ \A a \in settled : Stored(a.group)
  /\ settled \cap (unstored \cup InFlight) = {}
  /\ unstored \cap InFlight = {}

(* However often the database fails, the alerts that were raised leave the *)
(* queue and the worker, unless the worker is stopped: retries and looks   *)
(* end.  (The alerts of a run are bounded; with an unbounded number of     *)
(* them the pipeline need never be empty.)                                 *)
AlertsLeave == InFlight # {} ~> InFlight = {} \/ worker = "stopped"
=============================================================================
