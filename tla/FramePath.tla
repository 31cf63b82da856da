------------------------------ MODULE FramePath ------------------------------
(***************************************************************************)
(* The way of a frame from ingestion to the detections: the publisher      *)
(* splits it into pixels, for the frame store, and an envelope, for a      *)
(* topic (ingestion/publishing/message_queue_publisher.py); the inference  *)
(* thread (inference/worker.py, inference/engine.py) joins them, runs the  *)
(* models, makes a thumbnail and publishes a DetectionEvent.               *)
(*                                                                         *)
(* Two set-ups: everything in memory (frame_store/in_memory.py and         *)
(* InMemoryMessageQueue) or in Redis (redis/frame_store.py and             *)
(* RedisStreamQueue, here a queue that may hand an envelope over a second  *)
(* time, see RedisStreamQueue!TwiceOnlyUnacknowledged).  Redis outlives    *)
(* the process; frame ids start over with it.                              *)
(*                                                                         *)
(* Left out: the boxes of the detections, debug pictures and the result    *)
(* video (see Lifecycle), metrics.                                       *)
(***************************************************************************)
EXTENDS Integers, Sequences, FiniteSets

CONSTANTS
  Setups,      (* configurations, one is chosen at the start  *)
  Nothing,     (* no envelope, no pixels                      *)
  MaxSize,     (* max_size_per_topic of the in-memory queue   *)
  TTL,         (* ttl_seconds of the frame store              *)
  MaxTime,     (* bound: the clock                            *)
  MaxFailures, (* bound: commands to Redis that fail          *)
  MaxFrames,   (* bound: frames published by the first process *)
  MaxLater,    (* bound: frames published by a later one      *)
  MaxBoots     (* bound: processes started                    *)

(* durable: the Redis backends; thumbs: thumbnails enabled; draw:          *)
(* draw_bboxes; specs: how many models the zone has.                       *)
ASSUME FramePathConfigOK ==
  /\ Setups \subseteq [durable : BOOLEAN, thumbs : BOOLEAN, draw : BOOLEAN, specs : Nat]
  /\ MaxSize \in Nat \ {0} /\ TTL \in Nat \ {0}
  /\ MaxTime \in Nat /\ MaxFailures \in Nat /\ MaxFrames \in Nat /\ MaxLater \in 0..MaxFrames
  /\ MaxBoots \in Nat \ {0}
  /\ Nothing \notin [boot : 1..MaxBoots, id : 1..MaxFrames]

Ids == 1..MaxFrames

(* A frame, and its envelope: the process that published it and its id. *)
Frames == [boot : 1..MaxBoots, id : Ids]

VARIABLES
  setup,      (* the configuration *)
  boot, now, fails,
  nextId,     (* _frame_id: frames published by this process                  *)
  stored,     (* the publisher is between put and publish                     *)
  topic,      (* ingestion.frames: envelopes, the oldest first                *)
  again,      (* envelopes pending in Redis: handed over, XACK failed         *)
  store,      (* frame store: id -> the frame and when it was put             *)
  at,         (* where the inference thread is                                *)
  envelope, frame, todo, shown,   (* its locals in process(): envelope,       *)
              (* pixels, models left, some detection is above its display     *)
              (* threshold                                                    *)
  events,     (* DetectionEvents published                                    *)
  missed,     (* history: envelopes for which the store had no pixels         *)
  gone,       (* history: frames no longer in the store, or never put in it   *)
  fetched,    (* history: frames fetched by the engine                        *)
  dropped,    (* history: frames whose event could not be published           *)
  cut         (* history: frames in the engine when the process died          *)

publisher == <<nextId, stored>>
worker == <<at, envelope, frame, todo, shown>>
history == <<missed, gone, fetched, dropped, cut>>
vars == <<setup, boot, now, fails, publisher, topic, again, store, worker, events, history>>

Idle == at = "get"

(* A command to Redis fails: it may have taken effect all the same. *)
Fails == setup.durable /\ fails < MaxFailures /\ fails' = fails + 1
Works == fails' = fails

TypeOK ==
  /\ setup \in Setups
  /\ boot \in 1..MaxBoots /\ now \in 0..MaxTime /\ fails \in 0..MaxFailures
  /\ nextId \in 0..MaxFrames /\ stored \in BOOLEAN
  /\ topic \in Seq(Frames) /\ again \subseteq Frames
  /\ ~setup.durable => Len(topic) <= MaxSize /\ again = {}
  /\ DOMAIN store \subseteq Ids
  /\ \A i \in DOMAIN store : store[i] \in [frame : Frames, since : 0..now] /\ store[i].frame.id = i
  /\ at \in {"get", "fetch", "models", "thumbnail", "publish", "down"}
  /\ envelope \in Frames \cup {Nothing} /\ (envelope = Nothing <=> at \in {"get", "down"})
  /\ frame \in Frames \cup {Nothing}
  /\ (frame = Nothing <=> at \in {"get", "fetch", "down"})
  /\ todo \in 0..setup.specs /\ shown \in BOOLEAN
  /\ events \in Seq([envelope : Frames, frame : Frames, thumbnail : BOOLEAN])
  /\ missed \subseteq Frames /\ gone \subseteq Frames
  /\ fetched \subseteq gone /\ dropped \subseteq fetched /\ cut \subseteq fetched

Without(ids) == [i \in DOMAIN store \ ids |-> store[i]]
Stored(ids) == {store[i].frame : i \in ids}
Published == {events[k].frame : k \in DOMAIN events}

----------------------------------------------------------------------------
(* Frame store.  In memory, put() evicts what has expired and get() does    *)
(* not look at the age; Redis has no expired keys.                          *)
Expired == {i \in DOMAIN store : now - store[i].since > TTL}

(* put() of a frame. *)
Put(f) ==
  LET lost == Expired \cup (DOMAIN store \cap {f.id}) IN
  /\ store' = [i \in (DOMAIN store \ lost) \cup {f.id} |->
                 IF i = f.id THEN [frame |-> f, since |-> now] ELSE store[i]]
  /\ gone' = gone \cup Stored(lost)

(* An exception of Redis is swallowed and the pixels are lost. *)
PutFails(f) == store' = store /\ gone' = gone \cup {f}

(* get() takes the frame out, under the id of the envelope. *)
Has(id) == id \in DOMAIN store /\ (setup.durable => id \notin Expired)

(* Mutant: the frame stays (GET instead of GETDEL). *)
TakeLeaves(id) ==
  /\ store' = store /\ gone' = gone \cup Stored(DOMAIN store \cap {id})

Take(id) ==
  /\ store' = Without({id}) /\ gone' = gone \cup Stored(DOMAIN store \cap {id})

(* GETDEL fails, before or after it took effect. *)
TakeFails(id) == UNCHANGED <<store, gone>> \/ (Has(id) /\ Take(id))

----------------------------------------------------------------------------
(* MessageQueuePublisher.publish(): pixels first, then the envelope. *)

(* A full topic in memory loses its oldest message; a failed XADD is        *)
(* swallowed, and the envelope is lost unless it was added.                 *)
SendEnvelope(e) ==
  \/ /\ Works \/ Fails
     /\ topic' = Append(IF ~setup.durable /\ Len(topic) = MaxSize THEN Tail(topic) ELSE topic, e)
  \/ Fails /\ topic' = topic

StoreFrame(f) == ((Works \/ Fails) /\ Put(f)) \/ (Fails /\ PutFails(f))

Current == [boot |-> boot, id |-> nextId]

(* Mutant: the envelope goes first. *)
PublishFrameLate ==
  /\ at # "down" /\ stored' = ~stored
  /\ IF stored
     THEN StoreFrame(Current) /\ UNCHANGED <<nextId, topic>>
     ELSE /\ nextId < (IF boot = 1 THEN MaxFrames ELSE MaxLater) /\ nextId' = nextId + 1
          /\ SendEnvelope([boot |-> boot, id |-> nextId']) /\ UNCHANGED <<store, gone>>
  /\ UNCHANGED <<setup, boot, now, again, worker, events, missed, fetched, dropped, cut>>

PublishFrame ==
  /\ at # "down" /\ stored' = ~stored
  /\ IF stored
     THEN SendEnvelope(Current) /\ UNCHANGED <<nextId, store, gone>>
     ELSE /\ nextId < (IF boot = 1 THEN MaxFrames ELSE MaxLater) /\ nextId' = nextId + 1
          /\ StoreFrame([boot |-> boot, id |-> nextId']) /\ UNCHANGED topic
  /\ UNCHANGED <<setup, boot, now, again, worker, events, missed, fetched, dropped, cut>>

----------------------------------------------------------------------------
(* CPUInferenceWorker._run *)

Receive(e) ==
  /\ Idle /\ at' = "fetch" /\ envelope' = e
  /\ UNCHANGED <<frame, todo, shown>>

Get ==
  /\ topic # <<>> /\ topic' = Tail(topic) /\ Receive(Head(topic))
  /\ \/ Works /\ again' = again
     \/ Fails /\ again' = again \cup {Head(topic)}
  /\ UNCHANGED <<setup, boot, now, publisher, store, events, history>>

GetAgain(e) ==
  /\ e \in again /\ again' = again \ {e} /\ Receive(e)
  /\ UNCHANGED <<setup, boot, now, fails, publisher, topic, store, events, history>>

(* Back to the loop, from wherever process() ended, with an exception or    *)
(* without.                                                                 *)
Done ==
  /\ at' = "get" /\ envelope' = Nothing /\ frame' = Nothing
  /\ todo' = 0 /\ shown' = FALSE

----------------------------------------------------------------------------
(* YoloInferenceEngine.process *)

(* Resolve the models: none is no error, but no event either. *)
NoModels ==
  /\ at = "fetch" /\ setup.specs = 0 /\ Done
  /\ UNCHANGED <<setup, boot, now, fails, publisher, topic, again, store, events, history>>

(* Fetch the pixels. *)
Fetch ==
  /\ at = "fetch" /\ setup.specs > 0 /\ Has(envelope.id) /\ Take(envelope.id)
  /\ at' = "models" /\ frame' = store[envelope.id].frame /\ todo' = setup.specs
  /\ fetched' = fetched \cup {frame'}
  /\ UNCHANGED <<setup, boot, now, fails, publisher, topic, again, envelope, shown, events, missed,
                 dropped, cut>>

FetchMisses ==
  /\ at = "fetch" /\ setup.specs > 0 /\ Done
  /\ \/ Works /\ ~Has(envelope.id) /\ Take(envelope.id) /\ missed' = missed \cup {envelope}
     \/ Fails /\ TakeFails(envelope.id) /\ missed' = missed
  /\ UNCHANGED <<setup, boot, now, publisher, topic, again, events, fetched, dropped, cut>>

(* Mutant: a model that raises ends process(). *)
RunModelRaises ==
  /\ at = "models"
  /\ \/ /\ todo' = todo - 1 /\ shown' \in {shown, TRUE}
        /\ at' = IF todo' = 0 THEN "thumbnail" ELSE "models"
        /\ UNCHANGED <<envelope, frame>>
     \/ Done
  /\ UNCHANGED <<setup, boot, now, fails, publisher, topic, again, store, events, history>>

(* _run_model: a model that cannot be loaded or raises adds nothing; one    *)
(* that works adds detections, some of them above the display threshold,    *)
(* or none.                                                                 *)
RunModel ==
  /\ at = "models" /\ todo' = todo - 1
  /\ shown' \in {shown, TRUE}
  /\ at' = IF todo' = 0 THEN "thumbnail" ELSE "models"
  /\ UNCHANGED <<setup, boot, now, fails, publisher, topic, again, store, envelope, frame, events, history>>

(* Boxes are drawn if there are any to draw; _NullThumbnailGenerator, which *)
(* main.py puts in when thumbnails are disabled, has no generate_annotated: *)
(* the exception ends process().                                            *)
Annotates == setup.draw /\ shown

Thumbnail ==
  /\ at = "thumbnail" /\ (Annotates => setup.thumbs) /\ at' = "publish"
  /\ UNCHANGED <<setup, boot, now, fails, publisher, topic, again, store, envelope, frame, todo,
                 shown, events, history>>

ThumbnailRaises ==
  /\ at = "thumbnail" /\ Annotates /\ ~setup.thumbs /\ Done
  /\ UNCHANGED <<setup, boot, now, fails, publisher, topic, again, store, events, history>>

(* The thumbnail is missing if disabled, or if it could not be encoded.     *)
AddEvent ==
  \E thumbnail \in {FALSE, setup.thumbs} :
    events' = Append(events, [envelope |-> envelope, frame |-> frame, thumbnail |-> thumbnail])

(* publish() swallows a failed XADD to inference.detections: unless it was  *)
(* added, the event is lost, and its pixels are out of the store already.   *)
Publish ==
  /\ at = "publish" /\ Done
  /\ \/ (Works \/ Fails) /\ AddEvent /\ dropped' = dropped
     \/ Fails /\ events' = events /\ dropped' = dropped \cup {frame}
  /\ UNCHANGED <<setup, boot, now, publisher, topic, again, store, missed, gone, fetched, cut>>

----------------------------------------------------------------------------
Tick ==
  /\ now < MaxTime /\ now' = now + 1
  /\ UNCHANGED <<setup, boot, fails, publisher, topic, again, store, worker, events, history>>

(* The process dies with its memory; what is in Redis stays. *)
Crash ==
  /\ at # "down" /\ boot < MaxBoots
  /\ at' = "down" /\ envelope' = Nothing /\ frame' = Nothing
  /\ todo' = 0 /\ shown' = FALSE
  /\ cut' = cut \cup ({frame} \ {Nothing})
  /\ nextId' = 0 /\ stored' = FALSE
  /\ IF setup.durable THEN UNCHANGED <<topic, store, gone>>
     ELSE topic' = <<>> /\ store' = Without(Ids) /\ gone' = gone \cup Stored(DOMAIN store)
  /\ UNCHANGED <<setup, boot, now, fails, again, events, missed, fetched, dropped>>

Restart ==
  /\ at = "down" /\ at' = "get" /\ boot' = boot + 1
  /\ UNCHANGED <<setup, now, fails, publisher, topic, again, store, envelope, frame, todo,
                 shown, events, history>>

----------------------------------------------------------------------------
Init ==
  /\ setup \in Setups
  /\ boot = 1 /\ now = 0 /\ fails = 0 /\ nextId = 0 /\ stored = FALSE
  /\ topic = <<>> /\ again = {} /\ store = <<>>
  /\ at = "get" /\ envelope = Nothing /\ frame = Nothing
  /\ todo = 0 /\ shown = FALSE
  /\ events = <<>> /\ missed = {} /\ gone = {} /\ fetched = {}
  /\ dropped = {} /\ cut = {}

Inference ==
  \/ Get \/ Fetch \/ FetchMisses \/ NoModels \/ RunModel \/ Thumbnail \/ ThumbnailRaises
  \/ Publish \/ \E e \in again : GetAgain(e)

Next == PublishFrame \/ Inference \/ Tick \/ Crash \/ Restart

Spec == Init /\ [][Next]_vars

----------------------------------------------------------------------------
(* Properties *)

(* An envelope finds no pixels only if they are gone: expired, overwritten, *)
(* never stored, already taken, or lost in a crash.  A fast consumer never  *)
(* looks for a frame that is still to be stored (publish() puts first).     *)
(* redis/keys.py:11 says that "after restart [...] old frame_ids do not     *)
(* collide".  They do, ids start over and the key is camera and id: an      *)
(* envelope may be joined with the pixels of another frame.  This claims    *)
(* only what is left of it: that happens in Redis alone, and between frames *)
(* of the same id from two processes.                                       *)
FramesExplained ==
  /\ missed \subseteq gone
  /\ frame # Nothing /\ frame # envelope =>
       setup.durable /\ frame.boot # envelope.boot /\ frame.id = envelope.id

(* A frame is in at most one event, also when its envelope is handed over   *)
(* twice: the pixels are taken out of the store with the first. In memory   *)
(* events follow the order of the frames, on which the engine's clock and   *)
(* frame gaps depend.                                                       *)
Before(f, g) == f.boot < g.boot \/ (f.boot = g.boot /\ f.id < g.id)

OneEventPerFrame ==
  /\ TypeOK
  /\ \A k, l \in DOMAIN events : events[k].frame = events[l].frame => k = l
  /\ ~setup.durable =>
       \A k, l \in DOMAIN events : k < l => Before(events[k].frame, events[l].frame)

(* No frame that was fetched is without an event: not if models fail, nor   *)
(* if the thumbnail does (engine.py: "detections are still published").     *)
(* The exceptions: the process dies; thumbnails are disabled, boxes wanted; *)
(* the XADD of the event fails (redis/message_queue.py: publish() logs it   *)
(* and returns), which costs one frame for each command that fails.         *)
FetchedIsPublished ==
  /\ fetched \ (Published \cup cut \cup dropped \cup {frame}) # {} =>
       setup.draw /\ ~setup.thumbs
  /\ dropped # {} => setup.durable
  /\ Cardinality(dropped) <= fails
=============================================================================
