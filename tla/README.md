# BH_CV Compliance Detector: TLA+ models and proofs

The repository watches the sinks of a kitchen with a camera: YOLO models detect
persons, hands and sinks, a rule engine follows every person through a visit to
a sink, and a visit without enough hand washing becomes a violation with
evidence pictures in a database, which a dashboard shows.  This directory models
the program along the way of a frame, from the connector that reads it to the
page that announces the violation, and the lives of the threads, models and
tables around it.  Paths below are relative to `backend/app/`, unless they begin
with `frontend/`, `alembic/` or `skills/`.

## 1. The system

| Component (code) | State it keeps | Operations | Talks to |
|---|---|---|---|
| Ingestion (`ingestion/`) | connection, playlist, row of the file that plays, frame counter | connect, read, advance, reconnect, publish, stop, cancel | frame store, topic `ingestion.frames`, table `video_ingestion` |
| Frame stores (`infrastructure/frame_store`, `redis/frame_store.py`) | frames with a TTL | put, get | ingestion, inference |
| Message queues (`infrastructure/message_queue`, `redis/message_queue.py`) | one bounded FIFO per topic, or Redis streams with a consumer group | publish, get, recover | every thread |
| Model registry and resolver (`inference/registry.py`, `inference/resolver/`) | loaded detectors and a lock by path; the models of each zone | get, close; resolve | start-up, inference |
| Inference worker and engine (`inference/`) | result video, ByteTrack state | take a frame event, infer, publish a detection event, close | frame store, registry, topic `inference.detections` |
| Compliance worker (`compliance/worker.py`) | stop event | take a detection event, process, drain, flush | compliance engine |
| Compliance engine (`compliance/engine.py`) | known zones, time of the last event | process, flush | all of the following |
| Person tracker (`compliance/tracker.py`) | tracks, next id | update | engine |
| Observation builder (`compliance/observation.py`, `spatial.py`) | per person: evidence counts, last hand near the sink, last seen | build, evict_stale | engine |
| State machine (`compliance/state_machine.py`) | none | transition | engine |
| Analyzer (`compliance/temporal/analyzer.py`) | none (works on the person record) | update_and_analyze | engine |
| Handwash rule (`compliance/rules/handwash.py`) | evidence buffers by person | evaluate | engine |
| State stores (`infrastructure/state_store/`) | per zone: the person records | get, set | engine |
| Persistence worker (`infrastructure/database/persistence_worker.py`) | pending evidence, stop event | drain, join, persist, retry | topics `evidence.capture` and `compliance.alert`, PostgreSQL, files |
| Database (`infrastructure/database`, `alembic/versions`) | tables, revision | transactions, migrations | persistence, ingestion, API |
| Lifecycle and API (`main.py`) | references to all of the above | start, shut down, read-only HTTP | everything |
| Dashboard (`frontend/`) | the session: groups seen, notices, selection | refresh, announce, view, dismiss | API |

One thread runs each worker, ingestion is an asyncio task; they only meet in the
queues and stores.  A frame goes through as follows: ingestion puts the picture
in the frame store and its event in a topic; inference takes the event, fetches
the picture, runs the models of the zone and publishes detections; the compliance
thread runs tracker, builder, state machine, analyzer and rule, and publishes
evidence, then the alert, before it saves the zone state; the persistence thread
joins the two by group id and writes rows and files in one transaction; the page
finds the row when it asks the next time.

What is hard here:

- *The visit lives in two places.*  The record (with its group id) is in the
  state store, the evidence buffer in the memory of the rule.  A restart, a
  failed write, an expired key or a new visit can leave one without the other.
- *Time.*  A visit ends only after a cooldown, persons are missed in frames,
  frames are dropped, gaps and restarts happen, the clock may be stepped back.
- *Effects before the save.*  Evidence and alert are published before the state
  is written; a crash between the two repeats the evaluation.
- *Pixels and envelope apart.*  A frame is in two stores, each of which forgets
  in its own way, and frame ids start over with the process.
- *Lossy topics.*  A full topic drops its oldest message, and the two topics do so
  independently; publishing is not atomic.
- *Redis.*  Every command may fail with or without effect; messages are
  acknowledged before they are processed, streams are trimmed under a reader,
  recovery looks at one entry at a time.
- *Retries* of a transaction whose commit may have taken effect, with files
  written in it.
- *Two sources of person ids*, ByteTrack's and the tracker's own.
- *A double-checked lock* around loads that fail and a registry that is closed.
- *Shutdown* of a task that is awaited, cancelled or has raised, and of threads
  with joins that give up.
- *A schema changed by hand* under an application that does not look at it.

What makes each component correct is stated by its properties in section 3; the
code's exposure, line by line, is the list `hazards` of `PROJECT.json`.

## 2. Modules

| Module | Models | State / actions |
|---|---|---|
| `StreamIngestion` | `ingestion/service.py`, both connectors, publisher, sampler | one coroutine: an action is what it does between two awaits |
| `FramePath` | publisher, both frame stores, `inference/worker.py`, `engine.py` | a frame from `publish()` to its `DetectionEvent`; actions below |
| `ModelRegistry` | `inference/registry.py`, loader | `get()` step by step for any threads, `Close` |
| `StaticModelResolver` | `resolver/static.py`, `model_spec.py` | operators: the specs of a configuration, whether it fits together, what a zone resolves to |
| `ModelServing` | start-up and frames over the two | composition; `Construct`, `NextZone`, `StartWorkers`, `Frame`, `NextModel` |
| `Geometry` | `compliance/spatial.py`, `_iou` | operators on boxes, in whole pixels |
| `IoUTracker` | `tracker.py` | `tracks`, `nextId`, `returned`; `Update` with its two paths |
| `ObservationBuilder` | `observation.py` | `tracking`, `seenNow`; `Build` is `build()` and then `evict_stale()` |
| `PersonTracking` | the first half of `_process` | composition of the two above; one action, `Frame` |
| `HandwashStateMachine` | `state_machine.py` | operators only: `NextState` is the transition table, `StartsNewVisit` the two reasons the engine acts on |
| `SpatioTemporalAnalyzer` | `temporal/analyzer.py` | operators on the person record: `InitialPersonState`, `UpdateState`, the two durations |
| `HandwashRule` | `rules/handwash.py` | one operator per handler; each returns the record, the buffer, the verdict, the evidence |
| `ComplianceEngine` | `engine.py`, `worker.py`, both state stores | variables and actions below |
| `VisitLedger` | the promise of the engine | visits open, are judged once, for good |
| `InMemoryMessageQueue` | one topic of `message_queue/in_memory.py` | `items`, `dropped`, and for each publisher where it is in `publish()`; `Put`, `Evict`, `Count` are its queue operations, `Get` the consumer's |
| `LossyChannel` | the promise of a topic | FIFO of bounded length that may forget its oldest message |
| `TopicTraffic` | several publishers and a consumer on one topic | composition, with histories of what was got and lost |
| `EventSerialization` | `redis/serialization.py` | operators: the encoder and the decoder of each event |
| `RedisStreamQueue` | one topic of `redis/message_queue.py` | `publish()`, and `get()` one Redis command at a time |
| `AlertPipeline` | `_publish_violation` and `persistence_worker.py` | two instances of `InMemoryMessageQueue`; actions below |
| `Migrations` | `alembic/versions` | operators: the statements of each revision, what each does to schema and rows |
| `OrmModels` | `infrastructure/database/models` | what each mapped class expects of its table |
| `DatabaseSchema` | migrations against transactions | alembic, the flushes of the persistence, the rows of the ingestion |
| `Dashboard` | `frontend/app.py`, its API client, handlers in `main.py` | the script of a page over the above, a request at a time |
| `Lifecycle` | `lifespan()` in `main.py`, the loops of the workers | composition with `StreamIngestion`: running and shutting down |
| `MC...` | | the instances TLC checks |
| `ComplianceEngineProofs` | | theorems of the engine with either state store; lemmas on every handler |
| `TopicTrafficProofs`, `AlertPipelineProofs`, `RedisStreamQueueProofs`, `FramePathProofs`, `LifecycleProofs`, `PersonTrackingProofs` | | theorems of the module each is named after |
| `ModelRegistryProofs` | | theorems of `ModelRegistry` and of `ModelServing` |

*Engine.*  `HandwashRule` extends `SpatioTemporalAnalyzer`, which extends
`HandwashStateMachine`; `ComplianceEngine` extends `HandwashRule` and adds the
variables: `store` (the zone state), `saved` (when it was written, for the TTL),
`buffers`, the published `alerts` and `evidence`, the `completed` lines of the
action log, and `phase`, `boot`, `now`, `frame`.  `truth` and `insideAt` are
histories for the properties: how long a person really was in WASHING during the
visit, and when last taken to be at a sink.  `Process` is one event through
`process()` and `_process()` to the end, the save included (`Complete`);
`ProcessReadFails` is an event whose read of Redis raises; `Flush` the flush at the
end of the stream; `Die` a death between events (or a flush that raises);
`DieMidFrame` a death inside `_process`, after any set of persons, with the
evidence of one more out or not; `Restart` a new process, with the records of the
old one if they are in Redis.  The input of an event is what `PersonTracking`
produces: each person is not seen, away from a sink, at one, or at one with
confirmed washing.  The engine is checked for every sequence of these; that
sequences the tracker and the builder cannot produce are among them only makes
the result stronger.

*Frames.*  In `FramePath` a frame is the process that published it and its id;
the key in the store is the id alone, so that frames of two processes meet in
Redis.  `PublishFrame` is `put` and then `publish`, two steps; the inference
thread is `Get`, `Fetch` (which takes the pixels out), `RunModel` for each model,
`Thumbnail`, `Publish`, with the ways out of each.  Every command to Redis may fail
with or without effect; the stores and queues swallow the exception, so that pixels,
an envelope, or in the end the event (`dropped`) are missing without anybody's
noticing.

*Models.*  `ModelRegistry` has a step for every access to shared state: the look
into the cache without a lock, the meta lock, the creation and the taking of the
lock of the path, the second look, load, warm-up and registration.  `ModelServing`
puts the thread of `lifespan()` before the threads of the engine, and
also has the registry alone, asked by any thread for anything.  `NextZone` is the outer of
the two loops of the start: one zone at a time is resolved and its models got.

*Tracking.*  `Frame` is one `update()` of the tracker and the builder's work on what it
returns.  `Matching` is the one assignment in which each track, in their order, has the
best detection that those before it have left (`Greedy`); sequences are picked from by the
ascending numbers of a set (`Ascending`, `At`).  Overlap is a rank that the model takes as a
parameter, of which it assumes what the IoU of a box of positive area with itself gives:
`Overlap(a, a) > 0`.

*Pipeline.*  `Raise` starts a publication, `PublishEvidence`, `AlertFollows` and
`PublishAlert` carry it out one queue operation at a time; the persistence thread
is `LoopHead` (the only look at the stop event), `TakeAlert`, `Look` (drain one
message, pop the group), `Guard`, `WriteFiles`, `Commit`.  An attempt may fail in
each of the last three, with files written or not and with the commit applied or
not.  `Restart` loses topics and pending evidence and keeps rows and files.  A
group id stands for the violation that first had it, so that the random ids need
no set of their own; the group `Unknown` is the id "unknown".  The topics are the
in-memory ones; the shipped `config.yaml` selects Redis.  There a topic may hand a
message over twice or not at all, and its length is that of the stream:
`RedisStreamQueue` says so of one topic, and no module joins two of these.

*Redis queue.*  An entry is its position in the stream.  `pc` says where the
worker is in `get()`; trimming, publications, ageing of pending entries and the
death of the process come between any two commands.  `forgets` chooses between
Redis 7, whose XCLAIM drops ids of trimmed entries, and older ones.

*Lifecycle.*  The workers only take, work and pass on: what a message says is in
the other modules.  `NothingProducedLate`, `RowsClosed` and `ShutdownEnds` relate
the four flows of control to the order of the shutdown.  Result videos are written
by the inference thread and closed by the shutdown.

*Database.*  A schema is a function from tables to what they demand; a migration
is a sequence of statements run in one transaction, up or down, from and to any
revision; a flush is accepted if the table has the columns of the class, the keys
it refers to are there and its unique key is new.

What is abstracted throughout: pictures, thumbnails and payload details (an
evidence item is its capture time), logging and metrics, time as integer ticks.
Boxes are whole pixels and thresholds percents (`Geometry`).  The random group id
is the person, the process and the operation that made it: a person gets at most
one group per operation.

## 3. Runs

| Run | Question | Properties |
|---|---|---|
| `engine_memory` | one person, in-memory store, two processes | `TypeOK`, `LiveBufferIffOpen`, `EvidenceIsOfItsVisit`, `NoOverdueExit`, `VerdictFollowsWashing`, `CooldownRespected` |
| `engine_crowd` | two persons in a zone, crashes in mid-frame | `OneAlertPerVisit`, `AlertHasEvidence`, `KeepsLedger` (refinement of `VisitLedger`) |
| `engine_redis` | Redis store: failing reads and writes, expiry, restart, clock stepped back | `OneEvidencePerVisit`, `EvidenceNotMixed`, `NoExitInFuture` |
| `queue_traffic` | publishers racing on a full topic | `EveryMessageAccounted`, `KeepsChannel` (refinement of `LossyChannel`), `PublishReturns` |
| `alert_pipeline` | loss, retries and restarts on the way to the database | `EvidenceJoined`, `InsertNeverCollides`, `AlertsAccounted`, `AlertsLeave` |
| `person_tracking` | ids, hands and sinks, grace, confirmation | `OneIdPerPerson`, `InsideIffHandLately`, `ConfirmedByEvidence`, `NewIdsAreNew` |
| `redis_stream` | a Redis topic whose commands fail, stream trimmed, process dies | `EveryEntryAccounted`, `TwiceOnlyUnacknowledged`, `HandedWhole`, `EntriesLeave` |
| `frame_path` | pixels and envelopes, in memory and in Redis, models and thumbnails that raise | `FramesExplained`, `OneEventPerFrame`, `FetchedIsPublished` |
| `model_registry` | threads in `get()`, loads that fail, `close()`; the models of a zone | `OneDetectorPerPath`, `ServedAsConfigured`, `GetReturns` |
| `lifecycle` | playlists and a camera, shutdown at any moment, joins that give up | `RowsClosed`, `PlaylistPlayed`, `NothingProducedLate`, `ShutdownEnds` |
| `database_schema` | migrations up and down between transactions, a page that reads meanwhile | `RejectedOnlyBelowHead`, `AnnouncedOnce`, `StoredAndShownWhole` |
| `flush_leaves_open` | the claim that the flush finalises every visit (`compliance/engine.py:172`) | `FlushFinalises`, which TLC refutes |

A module's type invariant is a conjunct of its first invariant where it is not a
property of its own.  `flush_leaves_open` ends in a short trace: the flush only opens the
cooldown of the visit.  With a high `source_fps` it does not even do that: six
lost frames are within the grace period.

Bounds, and why they are enough.

- *Engine.*  A tick stands for several seconds; what is kept is that the cooldown,
  the washing time and the grace period are each longer than the smallest gap and
  shorter than the run.  `MaxTime` = 10 with one person leaves room for a whole
  visit (debounce 2, washing 2, cooldown 2) and the beginning of a second one,
  with a gap of two ticks anywhere; `MaxBoots` = 2 for one crash at every point.
  `BufferMax` = 2 makes the evidence ring overflow.  The Redis run needs only the end
  of one process and the start of the next, at most two ticks back, and has a
  TTL of 3, shorter than the run.  In the run with two persons debounce, washing time
  and cooldown are one tick, so that both complete a visit.
- *Queue.*  Two publishers of three messages on two places: both can be in the
  middle of an eviction at once, and the topic can be empty for a publisher that
  meant to evict.
- *Pipeline.*  Three alerts on topics of two, two looks, two attempts, two
  processes: eviction on either topic, evidence behind other evidence, a first, a
  retried and a last failure, a repeated alert after a restart.  Looks are as many
  as places, the code has 20 looks for the 10 places of `config.yaml`:
  `EvidenceJoined` depends on the topic not being the longer one, which nothing
  in the code enforces.
- *Tracking.*  Two persons, three places in a row of which neighbours overlap, four
  frames, tracks that outlive one missed frame; one place for a hand, within
  reach of two of them, and a frame that shows no sink or a near one behind a far
  one.  Enough for a person lost, forgotten and back, for two persons that
  cross, for a hand that passes from one to the other, and for evidence
  interrupted for less and for as long as the hold.  The detector numbers no person
  or all of them; see Divergences for the mixed one.
- *Redis queue.*  Three messages in a stream that may be trimmed to one, one of them
  written by another program; two commands that fail and two processes: an
  acknowledgement that fails and then a recovery that does, a crash with entries
  pending, an entry trimmed while pending, the foreign entry pending before others.
- *Frames.*  Three frames in a topic of two, a TTL of one tick in two; with and
  without thumbnails, without models, and Redis with a second process that
  publishes a frame of an id the first has used.  Two commands that fail: an envelope
  that comes again and then an event that cannot be added, or two events.
- *Models.*  Three threads, of which one is that of the start, and two paths, one of
  them with two specifications; two loads that fail for each path.  Six
  configurations: zones that share a path, a zone that names it twice, a camera
  without zones, and three that do not fit together; and the registry on its own.
- *Lifecycle.*  Folders of up to three files that are unreadable, empty or have one
  or two frames, looping or not, with or without a database, and a camera that
  may never answer; topics of two, three frames, three files opened, two failing
  calls of the database, two alerts.
- *Database.*  Two alerts, with no item, two items or without evidence, one file; all
  revisions in every order.  A page asks for one violation in a refresh and for two in the
  detail, so that one may be overlooked.  The two have different times.  Alerts of one
  frame share theirs, and the module lists such alerts in any order; an instance with
  equal times allows every answer the other does and was found to hold as well.

Deadlock checking is off but for `database_schema`: the bounds (last frame, last
message, last process) let the other instances stop, and so does the program when its
stream ends or it is shut down.

Fairness, in each case of threads that the operating system schedules:

| Module | Assumed | Not assumed |
|---|---|---|
| `ComplianceEngine`, `PersonTracking`, `FramePath`, `DatabaseSchema`, `Dashboard` | nothing: safety only | |
| `TopicTraffic` | each publisher's own steps | that the consumer takes anything |
| `AlertPipeline` | steps of the two threads | that an attempt succeeds, `Stop`, `Restart` |
| `RedisStreamQueue` | the worker's steps; the recovery interval and the idle time pass | that a command succeeds, publications, restarts |
| `ModelServing` | steps of a thread in `get()` | who gets a lock (bounded failing loads do), frames, `close()` |
| `Lifecycle` | steps of the worker threads and of the shutdown once begun | anything of the ingestion: its awaits may take any time; that a shutdown is asked for |

Every property was also checked to fail for a plausible mistake in a definition
that models code; these mistakes are the definitions marked "Mutant" next to the
ones they spoil, and `PROJECT.json` says which property each is for.

## 4. Theorems

Each theorem is about every value of the constants: any persons, threads, messages and
sizes, any number of restarts and failures.  Hypotheses are given in the tables,
and explained below them.  The property named is one that a run checks on a small
instance; the inductive invariants were checked by TLC on the same instances first.

Assumptions on constants are stated in the modules that declare them and evaluated in the
runs: sizes and bounds are naturals, sentinels are no values, a playlist has a file
(`IngestionConfigOK`, `LifeConfigOK`), what an accepted configuration names is a
specification (`ServingConfigOK`), the events offered to a topic are ones its publisher makes
(`EventsOffered`), a box overlaps itself (`TrackerConfigOK`).

### Engine

| Theorem | Property | Store |
|---|---|---|
| `TypeCorrect` | `TypeOK` | either |
| `EvidenceHandedOnce` | `OneEvidencePerVisit` | either |
| `EvidenceKeptApart` | `EvidenceNotMixed` | either; `MinEntry >= 2` |
| `NoExitAhead` | `NoExitInFuture` | either |
| `BuffersFollowVisits` | `LiveBufferIffOpen` | in-memory |
| `VisitsAlertedOnce` | `OneAlertPerVisit` | in-memory |
| `VerdictsMeasured` | `VerdictFollowsWashing` | in-memory |
| `CooldownKept` | `CooldownRespected` | in-memory |
| `ExitsJudgedInTime` | `NoOverdueExit` | in-memory |
| `EvidenceOfTheVisit` | `EvidenceIsOfItsVisit` | in-memory |
| `AlertsEvidenced` | `AlertHasEvidence` | in-memory |
| `EngineKeepsLedger` | `KeepsLedger`, the refinement of `VisitLedger` | in-memory |

Hypotheses.  `~Durable` (in-memory) is needed: with Redis a crash or a failed write
leaves a record whose buffer is gone, or a record of an older moment, and the same
visit may be alerted again (the guard of the persistence worker is there for
that, `InsertNeverCollides`).  `MinEntry >= 2` holds of the constant in
`rules/handwash.py:65`; it is needed because a visit opened by its very first frame,
whose record is then not saved, leaves its buffer to the record of the visit before.  TLC
finds that with `MinEntry` = 1.

The proofs follow the code.  There is a lemma for each handler of the rule, one for
`Evaluate`, one for a person in a frame from the stored record to the result
(`EvaluatePerson...`), one for `Results` of all persons, and then a step for each
action.  None of the properties but `TypeOK` is inductive.  The invariants:

- `TypeOK`, inductive.
- `EvidenceInv`, for `EvidenceHandedOnce`: groups of buffers and of published packages
  were made in the past, so that a new group is new (`BuffersPast`, `EvidencePast`),
  and a live buffer of a process that goes on has not been handed out (`LiveNotShown`).
  It says nothing of the store: whatever the store forgets, evidence comes from a buffer,
  and a buffer is frozen when it is handed out.
- `MixInv`, for `EvidenceKeptApart`: a stored record is `Settled` (what a judged or a
  pending record looks like), and a live buffer next to an open visit is of its group
  (`BuffersMatch`).  Either may be there without the other.
- `ExitInv`, for `NoExitAhead`: settled records, and frame ids that are behind
  the clock and bounded (`FramesBounded`).  The flush takes the newest record of a zone
  (`FlushFrame`), which exists because ids are bounded; `LeastElement` gets that
  from the well-foundedness of the naturals.
- `VisitInv`, for `BuffersFollowVisits` and `VisitsAlertedOnce`: for every person the
  record and the buffer agree (`Linked`: an open visit has a live buffer of its group and
  a live buffer belongs to an open visit) and the record is `Settled`; groups of open
  visits and of alerts are past; an open visit has not been alerted
  (`OpenNotAlerted`, which is what a second alert would contradict).  The last is required
  only while the process runs: a death in mid-frame may leave an open visit in the
  store whose alert has gone out, but nothing is evaluated until `Restart`.
- `MemoryInv` on top of `VisitInv`, for the next five: nobody with a pending exit has
  been at the sink since, and no record is ahead of the process (`Timely`); what is in a live
  buffer are frames of its visit, in order (`BuffersFit`); a visit is not judged
  before it is closed, nor both cleared and alerted (`LedgerInv`).  `StepCases`
  reduces the actions to four: an event that runs to its end, one that is cut by a death,
  an end, a restart.  `Event` says what is common to the first two, so that each of the
  five properties is proved once for both.
- `AllMeasured` besides these, for `VerdictsMeasured`: the record of a visit in progress
  has counted exactly the ticks of the history `truth`, and the record of someone away
  without a visit has counted nothing.  `Timely` is needed once more: a
  record in WASHING that is passed over would stop counting, and is passed over only
  if it is ahead of the frame.

### Queues, pipeline, frames, models

| Theorem | Property | Hypothesis |
|---|---|---|
| `MessagesAccounted` (`TopicTrafficProofs`) | `EveryMessageAccounted` | |
| `ImplementsChannel` (`TopicTrafficProofs`) | `KeepsChannel`, the refinement of `LossyChannel` | |
| `PipelineTyped` (`AlertPipelineProofs`) | the type invariant | |
| `NoAlertVanishes` (`AlertPipelineProofs`) | `AlertsAccounted` | |
| `NoInsertCollides` (`AlertPipelineProofs`) | `InsertNeverCollides` | |
| `EvidenceFound` (`AlertPipelineProofs`) | `EvidenceJoined` | `MaxSize \in 1..MaxLooks` |
| `NoEntryVanishes` (`RedisStreamQueueProofs`) | `EveryEntryAccounted` | |
| `AtMostTwice` (`RedisStreamQueueProofs`) | `TwiceOnlyUnacknowledged` | |
| `PixelsExplained` (`FramePathProofs`) | `FramesExplained` | |
| `FramesPublishedOnce` (`FramePathProofs`) | `OneEventPerFrame` | |
| `NothingFetchedIsLost` (`FramePathProofs`) | `FetchedIsPublished` | |
| `EventsArriveWhole` (`RedisStreamQueueProofs`) | `HandedWhole` | |
| `OneDetector` (`ModelRegistryProofs`) | `OneDetectorPerPath`, of the registry alone | |
| `OneDetectorServed` (`ModelRegistryProofs`) | `OneDetectorPerPath`, of the process | |
| `ServedAsZoneConfigures` (`ModelRegistryProofs`) | `ServedAsConfigured` | |
| `RowsAreClosed` (`LifecycleProofs`) | `RowsClosed` | |
| `FolderPlayed` (`LifecycleProofs`) | `PlaylistPlayed` | |
| `ShutdownFollowsPipeline` (`LifecycleProofs`) | `NothingProducedLate` | |
| `AtSinkFollowsHands` (`PersonTrackingProofs`) | `InsideIffHandLately` | |
| `WashingConfirmed` (`PersonTrackingProofs`) | `ConfirmedByEvidence` | |
| `PersonsKeptApart` (`PersonTrackingProofs`) | `OneIdPerPerson` | `OneKind` |
| `NewIdsNeverReused` (`PersonTrackingProofs`) | `NewIdsAreNew` | `OneKind` |

A topic of size 0 is unbounded, as in the code, and the theorems on topics hold
of it, too.  `EvidenceFound` is about a bounded topic that is no longer than the
looks of the worker: ten messages and twenty looks in the configuration, though nothing
checks that.  That there are finitely many publishers (`TrafficConfigOK`) is
used to count those between an eviction and its counting.  `OneKind` says of the detector
that it numbers all detections of every frame or none of any: ids of ByteTrack and the
tracker's own may otherwise meet (Divergences).  The theorems on the builder need no such
thing.

- *Topics.*  `IInv` of `TopicTrafficProofs` adds to the property that a publisher holds the
  last message it has begun (`Hands`) and that a message is in one place (`Apart`).
  With it every step is one of `LossyChannel`: the interleavings of `put_nowait`, `get_nowait`
  and the count are appends, losses and stutters.
- *Pipeline.*  `Hands` and `Apart` are the same for two topics and two threads.
  `EvidenceFound` needs `Joined`: published evidence is stored, given up or somewhere in
  memory; evidence about to be queued is ahead of the first alert of its
  group (`Ahead`), and while the worker looks, what it looks for is at most
  `MaxSize - count` places deep (`Closer`).  This is where the order of the two
  publications, the two topics and the number of looks come together.
- *Redis.*  An entry is read once, a pending one has been handed over at most if its
  acknowledgement failed, and what the worker recovers is still pending (`Once`).
  `HasDecoded` adds that what the worker has in hand could be decoded, and the lemmas on the
  encoders say of each of the four kinds of event what decoding gives back.
- *Frames.*  Each event that Redis did not add cost a command that failed (`Counted`);
  an envelope under way was put in the store first (`PutFirst`); pixels are in
  one place (`OnePlace`); in memory nothing of an earlier process is left (`OwnOnly`) and
  frames are handled in the order in which they were made (`Ordered`).
- *Models.*  `RegistryInv`: a thread behind the lock of its path owns it (`Held`), from
  the second look to the registration the path is not cached (`Unloaded`), what
  is cached was loaded from its path (`CachedByPath`), and a successful load is cached
  or in its warm-up (`Counted`); `close()` empties the cache, hence the second load.
  `OneDetectorServed` is the refinement: every step of `ModelServing` is one of
  `ModelRegistry`, whose threads may ask for anything at any time, or leaves it alone.
- *Serving.*  `ServingInv` adds to it that the start asks before the workers do and not
  after (`OneAtATime`), that a path found in the cache stays there until `close()`
  (`ReadFound`), and for the configurations of the application (`ForConfiguration`) that
  workers ask for models of the engine's zone alone, and that of their paths nobody else's
  specification is cached or under way.  The engine works with its own zone's
  specification because that zone is the first to be loaded (`FirstZoneFirst`), and of a
  path the first specification is the one kept:
  `FirstOfEachPath` is stated without recursion, by the least place of each path.
- *Lifecycle.*  `IngestionInv` is about the ingestion alone: at each await it says
  which capture and which row are held (`HeldRow`), that no other row is INGESTING but the one
  of a cancelled insertion (`OthersClosed`), and what of the folder has been opened
  (`PlayedSoFar`).  The threads disturb it only by taking a frame.  `ShutdownInv` has the
  joins: workers are told in the order of the pipeline (`ToldInOrder`), a join that is over
  and did not give up has seen its thread end (`Joined`), the topic of detections is empty when
  the compliance has drained it (`TopicDrained`), a result video is begun when no session has
  one (`OneWriter`).  The two meet in `VideoFrames`.  `RowsClosed` was made stronger for
  the proof: a task that is over holds no row unless a statement failed.
- *Builder.*  A record of a person is a count, a run length and a time.  `Follows` relates it
  to the whole history of the person (`NearFollows`, `RunFollows`, `CountFollows`), and
  `Recalled` says that this holds of every person and that record and history are dropped
  together.  `BuilderInv` adds to it what the last frame has told the engine (`Told`).
- *Tracker.*  That a greedy matching exists is shown by a minimal counterexample
  (`GreedyExists`): the shortest list of tracks without one is one longer than a list that has
  one, and the last track only has to choose.  Of it
  `MatchingFacts` says that no detection is given to two tracks, and that a
  detection nobody got is where no missed track has been, which uses that a box overlaps
  itself.  So the lookup of a new track by box and age finds that track (`NewApart`),
  and every detection comes back once.  `TrackerInv` keeps the ids of tracks apart and, without
  a detector's ids, all below the next one (`OwnIds`), which is why forgetting a track sets
  no id free.

### Only model-checked

- Liveness (`PublishReturns`, `AlertsLeave`, `EntriesLeave`, `GetReturns`, `ShutdownEnds`):
  beyond the proof system used here.
- `RejectedOnlyBelowHead`: the schema is a fold over the statements of the migrations, which
  has to be computed, not reasoned about.
- `AnnouncedOnce` and `StoredAndShownWhole`: the rows a page lists are sorted and
  filtered sequences, what is true of them is an induction over data; and `Dashboard`
  extends `DatabaseSchema`.
- `OneIdPerPerson` of a detector that numbers the persons of some frames only is neither
  proved nor checked: the run leaves it out as well.
- `FlushFinalises` is refuted.
- With Redis, what the table says of the in-memory store alone.

## 5. Divergences

Where the code does not do what the repository says of it, or what a reader would
expect, the models follow the code.  The first has a run of its own; the
others are in the models as exceptions in a property, or as the choice named, but
for the unit of `frames_lost` and the null `washing_duration`, which no model has.

- The flush does not finalise visits (`compliance/engine.py:172`): `flush_leaves_open`.
- "camera_id scopes frame_id to a specific camera so that after restart [...] old
  frame_ids do not collide" (`redis/keys.py:11`): they do, while the pixels of the last
  process have not expired or its envelopes are still in the stream; `skills/redisstream.md:294`
  asks for a key with the ingestion session, which "prevents collisions after [...]
  Application restart".  No run refutes the claim by itself: `FramesExplained` has
  these frames as an exception, and says that there are no others.  Asked for
  `frame # Nothing => frame = envelope` instead, the instance of `frame_path` fails after
  seven steps: a process dies behind its first envelope, the next one stores its first
  frame under the same key, takes the old envelope and fetches the new picture.
  The comment in `keys.py` trusts the short TTL, which the trace does not let run out.
- "New detections get a new `track_id`" (`tracker.py:78`): ids of the fallback collide
  with ByteTrack's when ByteTrack has confirmed no track in some frame
  (`tracker.py:225`).  The run leaves that detector, "mixed", out, so no property
  covers this: with it `NewIdsAreNew` fails after two frames.  A person whom the detector numbers 1
  is followed by one out of their reach whom it does not number, and to whom the
  tracker gives its own first id, which is 1.
- A person who left and is missed in a frame is put back at the sink by the synthetic
  observation meant to let the cooldown tick (`engine.py:270`, 283, 311):
  `StillInside` in `ComplianceEngine`.
- "One alert per group_id" (`rules/handwash.py:41`): visits that end before their entry is
  debounced share the id "unknown" (`engine.py:459`); the second is skipped as a
  duplicate: `PublishedGroup`, and `Guard` of the pipeline.
- `frames_lost` counts ids of sampled frames, `source_fps` may be the native rate
  (`engine.py:311`): the grace period is then longer than the one second it "must
  match" (`engine.py:91`).
- `washing_duration` in the answer of the API is always null: nobody writes the table
  it is read from (`main.py:371`).
- The shutdown does not flush pending persistence, as `skills/database.md:1934` and
  2853 ask: the loop of the worker just ends (`persistence_worker.py:133`).
- "At-least-once delivery" (`redis/message_queue.py:52`): a message is
  acknowledged before it is processed (line 247), so a crash loses it; and recovery
  throws a message away whose acknowledgement has taken effect without an answer.
  `EveryEntryAccounted` has both as fates.
- With a Redis before 7, the oldest pending entry blocks recovery for good once it is
  trimmed (line 135): `Blocked` in `EntriesLeave`.
- Through Redis a detection loses its track id and its event the shape of the frame
  (`redis/serialization.py:113`): `AsReceived`.
- With Redis the detections of a frame are lost when adding their event fails: `publish()`
  logs it and returns (`redis/message_queue.py:189`), the engine reports success
  (`inference/engine.py:279`), and the pixels are out of the store already.  `dropped` in
  `FetchedIsPublished`.
- With thumbnails disabled and boxes wanted, every frame with a detection to show ends
  in an exception (`main.py:311` has no `generate_annotated`): the exception in
  `FetchedIsPublished`.
- "Configuration errors fail fast" (`inference/resolver/static.py:38`): a camera that
  names a zone which is not configured is found out when the zone is resolved, which
  the start does for every zone (`Resolves` in `ModelServing`).
- Specifications of one path share the detector of the first that was loaded, with its
  thresholds (`registry.py:75`).  `ServedAsConfigured` shows that the engine, which
  serves the first zone only, never sees it.
- An exception of the ingestion comes out of the shutdown where the task is awaited and
  skips the rest of it (`main.py:272`): the state "raised" of `Lifecycle`.
- A task cancelled while it inserts, or a failure of the database in `connect()`, leaves a
  row INGESTING for good: the exceptions of `RowsClosed`.  An empty file, or an error of the
  database, ends the playlist: `PlaylistPlayed`.
- A frame behind a join that gave up opens the result video anew, over what is
  there (`inference/engine.py:322`): `cut`.  Without that, the frames of all sessions go
  into the video of the first.
- Nothing migrates or looks at the revision when the application starts:
  `RejectedOnlyBelowHead` says from where on each write fails.
- A request of the dashboard that fails looks like one that found nothing
  (`GetViolations`).  A violation that is stored late, behind as many later ones as
  are listed, is never announced: the second half of `AnnouncedOnce`.

## 6. Not modelled, and plan

Not modelled:

- neural networks and image processing, which only provide inputs; the running
  average of hand movement in the builder, whether a frame is valid and whether the
  sampler lets it through, which are choices;
- the evidence clip and the files of thumbnails beyond their being there;
- logging, metrics, correlation ids and configuration parsing;
- `ingestion/buffering`, which no code uses, and the repositories nobody calls;
- the other pages of the dashboard, layout and formatting;
- the generators of documents at the top of the repository: text in, files out.

What is left to do, in this order:

1. `AnnouncedOnce` of the dashboard over an abstract table, without the migrations: a
   refinement of its own, whose list is given by the properties of a sorted one.
2. An invariant for the detector that numbers some frames, which says when ids of the two
   kinds meet.
3. Evidence clips and the files of thumbnails in the pipeline.
