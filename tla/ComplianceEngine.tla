-------------------------- MODULE ComplianceEngine --------------------------
(***************************************************************************)
(* The compliance engine of one camera zone                                *)
(* (backend/app/compliance/engine.py, driven by compliance/worker.py): one *)
(* detection event at a time it loads the zone state, evaluates every      *)
(* person seen in the frame and every remembered person who is not, and    *)
(* publishes evidence and alerts for the violations it confirms.           *)
(*                                                                         *)
(* A frame is abstracted to what ObservationBuilder says of each person:   *)
(* not seen, away from a sink, at a sink, or at a sink with confirmed      *)
(* washing.  Any such input is allowed in any frame.                       *)
(*                                                                         *)
(* Durable chooses the state store: TRUE is Redis (the state survives a    *)
(* restart, a failed write is logged and forgotten, a read may raise, an   *)
(* idle key expires), FALSE is the in-memory dict.  The evidence buffers   *)
(* are always process memory.                                              *)
(***************************************************************************)
EXTENDS HandwashRule, FiniteSets

CONSTANTS
  Persons,        (* track ids                                            *)
  SourceFps,      (* event.source_fps; 0 when the source does not say     *)
  GraceSeconds,   (* _ZONE_EXIT_GRACE_SECONDS                             *)
  MaxLostFrames,  (* _MAX_LOST_FRAMES                                     *)
  Durable,        (* the state store is Redis                             *)
  StoreTTL,       (* ttl_seconds of the Redis state store                 *)
  NoPerson,       (* no record under this person id                       *)
  Unknown,        (* the group id "unknown"                               *)
  MaxTime,        (* bound: no frame is captured after this time          *)
  MaxSkip,        (* bound: frame ids advance by 1..MaxSkip               *)
  MaxGap,         (* bound: ticks between two frames that are processed   *)
  MaxBoots,       (* bound: process starts                                *)
  MaxStepBack     (* bound: how far a restart may step the clock back     *)

ASSUME EngineConfigOK ==
  /\ SourceFps \in Nat /\ GraceSeconds \in Nat /\ MaxLostFrames \in Nat
  /\ Durable \in BOOLEAN /\ StoreTTL \in Nat
  /\ MaxTime \in Nat /\ MaxSkip \in Nat /\ MaxGap \in Nat
  /\ MaxBoots \in Nat /\ MaxStepBack \in Nat

VARIABLES
  phase,      (* "booted" until the first event, "streaming", "stopped"   *)
  boot,       (* number of the current process                            *)
  now,        (* capture time of the last event                           *)
  frame,      (* frame id of the last event, 0 before the first           *)
  store,      (* StateStore: the persons of the zone                      *)
  saved,      (* time of the last write to the store                      *)
  buffers,    (* HandwashRuleEvaluator._buffers                           *)
  alerts,     (* every ComplianceEvent published so far                   *)
  evidence,   (* every EvidenceCaptureEvent published so far              *)
  completed,  (* every "PROCESS COMPLETE" line of the action log          *)
  truth,      (* history: ticks each person spent in WASHING this visit   *)
  insideAt    (* history: last time each person was taken to be at a sink *)

process == <<phase, boot, now, frame>>
output  == <<alerts, evidence, completed>>
history == <<truth, insideAt>>
vars    == <<process, store, saved, buffers, output, history>>

----------------------------------------------------------------------------
(* Types *)

(* When, in which process and by which operation a thing was made.  It     *)
(* stands for the randomness of uuid4 in a group id: a person gets at most *)
(* one group per operation.                                                *)
Stamps == [boot : Nat, at : Nat, by : {"process", "flush"}]
Groups == [owner : Persons, made : Stamps]
GroupIds == Groups \cup {None, Missing}

PersonStates ==
  [current : HandwashState, started : Nat, atSink : Nat, washing : Nat,
   lastFrame : Nat \cup {-1}, absence : Nat, pending : Nat \cup {None},
   group : GroupIds, confirmed : BOOLEAN]

Buffers == [group : Groups, frozen : BOOLEAN, items : Seq(Nat)]

Payloads == [group : Groups, items : Seq(Nat)]

PublishedIds == Groups \cup {None, Unknown}

(* The special values are not mistaken for records or times. *)
ASSUME SpecialValues ==
  /\ None \notin Groups \cup Nat \cup {Missing}
  /\ Missing \notin Groups /\ Unknown \notin Groups
  /\ NoBuffer \notin Buffers
  /\ NoPerson \notin PersonStates
  /\ NoEvidence \notin Payloads
  /\ None \notin {"COMPLIANT", "VIOLATION"}

ProcessTypeOK ==
  /\ phase \in {"booted", "streaming", "stopped"}
  /\ boot \in Nat /\ now \in Nat /\ frame \in Nat

StateTypeOK ==
  /\ saved \in Nat
  /\ store \in [Persons -> PersonStates \cup {NoPerson}]
  /\ buffers \in [Persons -> Buffers \cup {NoBuffer}]

OutputTypeOK ==
  /\ alerts \subseteq [group : PublishedIds, person : Persons, made : Stamps]
  /\ evidence \subseteq [group : PublishedIds, person : Persons, made : Stamps,
                         payload : Payloads]
  /\ completed \subseteq [group : PublishedIds, person : Persons, made : Stamps,
                          result : {"COMPLIANT", "VIOLATION"}]

HistoryTypeOK == truth \in [Persons -> Nat] /\ insideAt \in [Persons -> Nat]

TypeOK == ProcessTypeOK /\ StateTypeOK /\ OutputTypeOK /\ HistoryTypeOK

----------------------------------------------------------------------------
(* Observations *)

Sightings == {"unseen", "away", "near", "washing"}

(* How long an unseen person is still taken to be at the sink: a time when *)
(* the frame rate of the source is known, a frame count otherwise.         *)
StillInside(lost) ==
  IF SourceFps > 0 THEN lost <= GraceSeconds * SourceFps ELSE lost <= MaxLostFrames

(* Mutant: everyone who is NOT_NEAR_SINK is at rest. *)
NeedsSyntheticOnlyAtSink(ps, f) ==
  /\ ps # NoPerson
  /\ ps.current \in {NEAR_SINK_NOT_WASHING, WASHING}
  /\ f >= ps.lastFrame

(* Persons at rest get no synthetic observation; one with an open cooldown *)
(* is not at rest.  A record from a later frame is a stale one.            *)
NeedsSynthetic(ps, f) ==
  /\ ps # NoPerson
  /\ \/ ps.current \in {NEAR_SINK_NOT_WASHING, WASHING}
     \/ ps.current = NOT_NEAR_SINK /\ ps.pending # None
  /\ f >= ps.lastFrame

HasObservation(sight, ps, f) == sight # "unseen" \/ NeedsSynthetic(ps, f)

ObservationOf(sight, ps, f) ==
  [inside |-> IF sight = "unseen" THEN StillInside(f - ps.lastFrame)
              ELSE sight \in {"near", "washing"},
   hands  |-> sight = "washing",
   real   |-> sight # "unseen"]

----------------------------------------------------------------------------
(* One person in one frame: the body of the per-person loop of _process.   *)

Loaded(ps, t) == IF ps = NoPerson THEN InitialPersonState(t) ELSE ps

Seen(ps, obs, f) == IF obs.real THEN [ps EXCEPT !.lastFrame = f] ELSE ps

(* Mutant: every re-entry starts a new visit, cooldown or not. *)
OpensFreshVisitAlways(ps, buf, obs) == StartsNewVisit(ps.current, obs)

(* A new visit starts from a clean record, unless it continues the session *)
(* whose cooldown is running.                                              *)
OpensFreshVisit(ps, buf, obs) ==
  StartsNewVisit(ps.current, obs) /\ ~(ps.pending # None /\ Live(buf))

VisitState(ps, buf, obs, t) ==
  IF OpensFreshVisit(ps, buf, obs)
  THEN [InitialPersonState(t) EXCEPT !.lastFrame = ps.lastFrame]
  ELSE ps

EvaluatePerson(ps, buf, obs, fresh, t, f) ==
  LET seen == Seen(Loaded(ps, t), obs, f)
      base == VisitState(seen, buf, obs, t)
  IN  Evaluate(UpdateState(base, NextState(seen.current, obs), t), buf, fresh, t)

(* result.person_state.get("group_id", "unknown") *)
PublishedGroup(group) == IF group = Missing THEN Unknown ELSE group

----------------------------------------------------------------------------
(* One event: load, evaluate everyone, publish, save.                      *)

Stamp(t, by) == [boot |-> boot, at |-> t, by |-> by]

(* The zone state as read at time t: an expired key reads as no state.     *)
ZoneState(t) ==
  IF Durable /\ t >= saved + StoreTTL THEN [p \in Persons |-> NoPerson] ELSE store

Results(sights, zone, t, f, by) ==
  [p \in Persons |->
     IF HasObservation(sights[p], zone[p], f)
     THEN EvaluatePerson(zone[p], buffers[p], ObservationOf(sights[p], zone[p], f),
                         [owner |-> p, made |-> Stamp(t, by)], t, f)
     ELSE Keep(zone[p], buffers[p])]

Violators(res) == {p \in Persons : res[p].result = "VIOLATION"}

(* Evidence of the persons in shown and alerts of those in told go out.    *)
Publish(res, made, shown, told) ==
  /\ evidence' = evidence \cup
       {[group |-> PublishedGroup(res[p].person.group), person |-> p, made |-> made,
         payload |-> res[p].evidence] : p \in {q \in shown : res[q].evidence # NoEvidence}}
  /\ alerts' = alerts \cup
       {[group |-> PublishedGroup(res[p].person.group), person |-> p, made |-> made] : p \in told}

LogVerdicts(res, made, judged) ==
  completed' = completed \cup
    {[group |-> PublishedGroup(res[p].closed), person |-> p, made |-> made,
      result |-> res[p].result] : p \in {q \in judged : res[q].result # None}}

(* History: the washing time of the visit runs while the stored state is   *)
(* WASHING and starts over when a fresh visit is stored.                   *)
Observe(sights, zone, t, f, writes) ==
  /\ truth' = [p \in Persons |->
       LET ps  == Loaded(zone[p], t)
           obs == ObservationOf(sights[p], zone[p], f)
       IN  IF /\ writes
              /\ HasObservation(sights[p], zone[p], f)
              /\ OpensFreshVisit(ps, buffers[p], obs)
           THEN 0
           ELSE truth[p] + IF ps.current = WASHING THEN t - now ELSE 0]
  /\ insideAt' = [p \in Persons |->
       IF /\ HasObservation(sights[p], zone[p], f)
          /\ ObservationOf(sights[p], zone[p], f).inside
       THEN t ELSE insideAt[p]]

(* The zone state is written only if there was somebody to evaluate.  A    *)
(* failed write to Redis leaves the old state in place.                    *)
Save(sights, zone, res, t, f, writes) ==
  IF writes /\ \E p \in Persons : HasObservation(sights[p], zone[p], f)
  THEN store' = [p \in Persons |-> res[p].person] /\ saved' = t
  ELSE store' = zone /\ UNCHANGED saved

(* _process, run to its end *)
Complete(sights, t, f, by, writes) ==
  LET zone == ZoneState(t)
      res  == Results(sights, zone, t, f, by)
  IN  /\ Publish(res, Stamp(t, by), Violators(res), Violators(res))
      /\ LogVerdicts(res, Stamp(t, by), Persons)
      /\ Observe(sights, zone, t, f, writes)
      /\ Save(sights, zone, res, t, f, writes)
      /\ buffers' = [p \in Persons |-> res[p].buffer]

----------------------------------------------------------------------------
(* Actions *)

WriteOutcomes == IF Durable THEN BOOLEAN ELSE {TRUE}

Arrives(df, dt) ==
  /\ phase # "stopped"
  /\ now + dt <= MaxTime
  /\ now' = now + dt
  /\ frame' = frame + df
  /\ UNCHANGED boot

(* process(event): the worker hands over the next detection event. *)
Process(sights, df, dt) ==
  /\ Arrives(df, dt)
  /\ phase' = "streaming"
  /\ \E writes \in WriteOutcomes :
       Complete(sights, now + dt, frame + df, "process", writes)

(* The state store raises on read: process() counts a failure and goes on. *)
ProcessReadFails(df, dt) ==
  /\ Durable
  /\ Arrives(df, dt)
  /\ phase' = "streaming"
  /\ store' = ZoneState(now + dt)
  /\ truth' = [p \in Persons |->
       truth[p] + IF store'[p] # NoPerson /\ store'[p].current = WASHING THEN dt ELSE 0]
  /\ UNCHANGED <<saved, buffers, output, insideAt>>

(* The worker was told to stop: the queue is drained (Process), then every *)
(* known zone gets one last event without detections, a few frames past    *)
(* the newest record and with the time of the last event.                  *)
FlushFrame(zone) ==
  LET last == {zone[p].lastFrame : p \in {q \in Persons : zone[q] # NoPerson}}
  IN  (CHOOSE m \in last : \A n \in last : n <= m) + MaxLostFrames + 1

Flush ==
  /\ phase = "streaming"
  /\ phase' = "stopped"
  /\ UNCHANGED <<boot, now, frame>>
  /\ LET zone == ZoneState(now) IN
     IF \A p \in Persons : zone[p] = NoPerson
     THEN UNCHANGED <<store, saved, buffers, output, history>>
     ELSE \E writes \in WriteOutcomes :
            Complete([p \in Persons |-> "unseen"], now, FlushFrame(zone), "flush", writes)

(* The process dies between two events, or stops before the first one, or  *)
(* its flush cannot read the store.                                        *)
Die ==
  /\ phase # "stopped"
  /\ phase' = "stopped"
  /\ UNCHANGED <<boot, now, frame, store, saved, buffers, output, history>>

(* The process dies inside _process.  The persons in done were dealt with; *)
(* of at most one more the verdict is logged, and its evidence may be out  *)
(* (it goes first).  Nothing is saved.                                     *)
DieMidFrame(sights, df, dt) ==
  LET t    == now + dt
      f    == frame + df
      zone == ZoneState(t)
      res  == Results(sights, zone, t, f, "process")
  IN  /\ Arrives(df, dt)
      /\ phase' = "stopped"
      /\ \E done \in SUBSET Persons : \E current \in SUBSET (Persons \ done) :
         \E shown \in SUBSET current :
           /\ \A p, q \in current : p = q
           /\ Publish(res, Stamp(t, "process"), Violators(res) \cap (done \cup shown),
                      Violators(res) \cap done)
           /\ LogVerdicts(res, Stamp(t, "process"), done \cup current)
      /\ Observe(sights, zone, t, f, FALSE)
      /\ store' = zone
      /\ UNCHANGED <<saved, buffers>>

(* A new process: buffers and frame counter start over; the state starts   *)
(* over unless it is in Redis.  The clock may have been stepped back.      *)
Restart(back) ==
  /\ phase = "stopped"
  /\ boot < MaxBoots
  /\ phase' = "booted"
  /\ boot' = boot + 1
  /\ now' = now - back
  /\ now' >= 0
  /\ frame' = 0
  /\ store' = IF Durable THEN store ELSE [p \in Persons |-> NoPerson]
  /\ buffers' = [p \in Persons |-> NoBuffer]
  /\ UNCHANGED <<saved, output, history>>

Init ==
  /\ phase = "booted" /\ boot = 1 /\ now = 0 /\ frame = 0 /\ saved = 0
  /\ store = [p \in Persons |-> NoPerson]
  /\ buffers = [p \in Persons |-> NoBuffer]
  /\ alerts = {} /\ evidence = {} /\ completed = {}
  /\ truth = [p \in Persons |-> 0]
  /\ insideAt = [p \in Persons |-> 0]

Next ==
  \/ \E sights \in [Persons -> Sightings], df \in 1..MaxSkip : \E dt \in df..MaxGap :
       Process(sights, df, dt) \/ DieMidFrame(sights, df, dt)
  \/ \E df \in 1..MaxSkip : \E dt \in df..MaxGap : ProcessReadFails(df, dt)
  \/ Flush
  \/ Die
  \/ \E back \in 0..MaxStepBack : Restart(back)

Spec == Init /\ [][Next]_vars

----------------------------------------------------------------------------
(* Properties *)

IsOpen(ps) == ps # NoPerson /\ HasGroup(ps) /\ ~ps.confirmed

OpenGroups == {store[p].group : p \in {q \in Persons : IsOpen(store[q])}}

(* A visit is judged compliant exactly when the person washed for          *)
(* minimum_washing_duration_seconds during that visit.                     *)
VerdictFollowsWashing ==
  [][\A c \in completed' \ completed :
       c.result = "COMPLIANT" <=> truth'[c.person] >= MinWashing]_vars

(* With an unbroken state store, a group id made by uuid4 is alerted once. *)
OneAlertPerVisit ==
  \A a, b \in alerts : a.group = b.group /\ a.group # Unknown => a = b

(* Evidence for a visit is handed out once, even when the process dies     *)
(* before saving, a write fails, or an old state is evaluated again.       *)
OneEvidencePerVisit ==
  \A e, g \in evidence : e.payload.group = g.payload.group => e = g

(* Whatever is lost, the package published under the id of a visit is the  *)
(* buffer opened for that visit and not one of a visit before or after.    *)
EvidenceNotMixed ==
  \A e \in evidence : e.group \in {e.payload.group, Unknown}

(* The package published for a group is the buffer opened for that group,  *)
(* with at least one frame, all of them captured during the visit and in   *)
(* order: buffers live in memory and group ids in the store, so the two    *)
(* could come apart.                                                       *)
EvidenceIsOfItsVisit ==
  \A e \in evidence :
    LET items == e.payload.items IN
    /\ e.payload.group = e.group
    /\ e.group.owner = e.person
    /\ items # <<>>
    /\ \A i \in 1..Len(items) : items[i] \in e.group.made.at .. e.made.at
    /\ \A i, j \in 1..Len(items) : i < j => items[i] < items[j]

(* The evidence of an alerted visit has been published by then, unless the *)
(* visit never had a group.                                                *)
AlertHasEvidence ==
  \A a \in alerts : a.group # Unknown => \E e \in evidence : e.group = a.group

(* An alert for a visit with a group is raised only after the person has   *)
(* been away from the sink for the whole cooldown.                         *)
CooldownRespected ==
  [][\A a \in alerts' \ alerts :
       a.group # Unknown => a.made.at - insideAt[a.person] >= Cooldown]_vars

(* ... and no later: once an event has been processed, no cooldown that has *)
(* run out is still waiting for its verdict.                               *)
NoOverdueExit ==
  phase = "streaming" =>
    \A p \in Persons :
      store[p] # NoPerson /\ store[p].pending # None =>
        store[p].pending = now \/ now - store[p].pending < Cooldown

(* A pending exit that lies in the future (a record from before the clock  *)
(* was stepped back) would never run out: no event leaves one behind,      *)
(* except on a record whose frame ids the new process has not reached yet. *)
NoExitInFuture ==
  [][saved' # saved =>
       \A p \in Persons :
         store'[p] # NoPerson /\ store'[p].pending # None /\ store'[p].pending > now'
           => frame' < store'[p].lastFrame]_vars

(* An open visit has a live buffer of its own, and a live buffer belongs   *)
(* to an open visit: no visit collects frames for another one, no buffer   *)
(* outlives its visit.                                                     *)
LiveBufferIffOpen ==
  \A p \in Persons :
    /\ IsOpen(store[p]) => Live(buffers[p]) /\ buffers[p].group = store[p].group
    /\ Live(buffers[p]) => IsOpen(store[p])

(* The engine keeps the promise of VisitLedger. *)
alertedGroups == {a.group : a \in alerts} \ {Unknown}
clearedGroups == {c.group : c \in {d \in completed : d.result = "COMPLIANT"}} \ {Unknown}

Ledger == INSTANCE VisitLedger WITH
  open    <- OpenGroups \ (alertedGroups \cup clearedGroups),
  cleared <- clearedGroups,
  alerted <- alertedGroups

KeepsLedger == Ledger!Spec

----------------------------------------------------------------------------
(* What the documentation says and the code does not do (run flush_leaves_open) *)

(* engine.py:172 "every in-progress visit is finalised (WASHED or          *)
(* NOT_WASHED) rather than silently discarded" when the stream ends.       *)
FlushFinalises == [][Flush => OpenGroups' = {}]_vars
=============================================================================
