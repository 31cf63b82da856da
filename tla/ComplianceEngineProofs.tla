----------------------- MODULE ComplianceEngineProofs -----------------------
(***************************************************************************)
(* Proofs about ComplianceEngine for every set of persons, every value of  *)
(* its parameters and either state store: types, what evidence goes out    *)
(* and when, and that no exit is pending in the future whatever happens to *)
(* the clock; then, of the in-memory engine, what becomes of the visits.   *)
(***************************************************************************)
EXTENDS ComplianceEngine, SequenceTheorems, WellFoundedInduction, TLAPS

----------------------------------------------------------------------------
(* Types of the operators the engine is built from *)

(* max(0, to - from) is a natural number. *)
LEMMA ElapsedType ==
  ASSUME NEW a \in Nat, NEW b \in Nat
  PROVE  Elapsed(a, b) \in Nat
BY DEF Elapsed

(* The record of a person first seen at t is well formed. *)
LEMMA InitialType ==
  ASSUME NEW t \in Nat
  PROVE  InitialPersonState(t) \in PersonStates
BY DEF InitialPersonState, PersonStates, GroupIds, HandwashState, NOT_NEAR_SINK

(* The transition table stays within the states of the person. *)
LEMMA NextStateType ==
  ASSUME NEW s \in HandwashState, NEW obs
  PROVE  NextState(s, obs) \in HandwashState
BY DEF NextState, HandwashState, NOT_NEAR_SINK, WASHING, NEAR_SINK_NOT_WASHING

(* Folding a transition into a record keeps it well formed. *)
LEMMA UpdateType ==
  ASSUME NEW ps \in PersonStates, NEW new \in HandwashState, NEW t \in Nat
  PROVE  UpdateState(ps, new, t) \in PersonStates
<1> DEFINE a == IF ps.current = NEAR_SINK_NOT_WASHING THEN Elapsed(ps.started, t) ELSE 0
           w == IF ps.current = WASHING THEN Elapsed(ps.started, t) ELSE 0
<1>1. a \in Nat /\ w \in Nat
  BY ElapsedType DEF PersonStates
<1>2. UpdateState(ps, new, t) =
        IF new = ps.current THEN ps
        ELSE [ps EXCEPT !.atSink = ps.atSink + a, !.washing = ps.washing + w,
                        !.started = t, !.current = new]
  BY DEF UpdateState, PersonStates
<1> HIDE DEF a, w
<1>3. ps.atSink + a \in Nat /\ ps.washing + w \in Nat
  BY <1>1 DEF PersonStates
<1>4. QED
  BY <1>2, <1>3 DEF PersonStates

(* Adding an item to a buffer keeps it a buffer of the same group. *)
LEMMA AddType ==
  ASSUME NEW buf \in Buffers, NEW t \in Nat
  PROVE  /\ BufferAdd(buf, t) \in Buffers
         /\ BufferAdd(buf, t).group = buf.group
         /\ BufferAdd(buf, t).frozen = buf.frozen
<1> DEFINE kept == IF Len(buf.items) < BufferMax THEN buf.items ELSE Tail(buf.items)
<1>1. buf.items \in Seq(Nat) /\ Len(buf.items) \in Nat
  BY DEF Buffers
<1>2. BufferMax \in Nat \ {0}
  BY RuleConfigOK
<1>3. kept \in Seq(Nat)
  <2>1. CASE Len(buf.items) < BufferMax
    BY <1>1, <2>1
  <2>2. CASE ~(Len(buf.items) < BufferMax)
    <3>1. buf.items # <<>>
      BY <1>1, <1>2, <2>2
    <3>2. QED
      BY <1>1, <2>2, <3>1
  <2>3. QED
    BY <2>1, <2>2
<1>4. Append(kept, t) \in Seq(Nat)
  BY <1>3
<1>5. BufferAdd(buf, t) = [buf EXCEPT !.items = Append(kept, t)]
  BY DEF BufferAdd
<1> HIDE DEF kept
<1>6. QED
  BY <1>4, <1>5 DEF Buffers
(* RuleEvaluationResult, with the buffer and the log line. *)
EvaluationResults ==
  [person : PersonStates, buffer : Buffers \cup {NoBuffer},
   result : {None, "COMPLIANT", "VIOLATION"}, closed : GroupIds,
   evidence : Payloads \cup {NoEvidence}]

(* A frame that reaches no verdict yields a well formed result. *)
LEMMA KeepType ==
  ASSUME NEW ps \in PersonStates, NEW buf \in Buffers \cup {NoBuffer}
  PROVE  Keep(ps, buf) \in EvaluationResults
BY DEF Keep, EvaluationResults, GroupIds

(* A live buffer is a buffer. *)
LEMMA LiveType ==
  ASSUME NEW buf \in Buffers \cup {NoBuffer}, Live(buf)
  PROVE  buf \in Buffers
BY DEF Live

(* Clearing the counters of a visit keeps the record well formed. *)
LEMMA ResetType ==
  ASSUME NEW ps \in PersonStates
  PROVE  ResetVisit(ps) \in PersonStates
BY DEF ResetVisit, PersonStates

(* A verdict yields a well formed record, buffer and package. *)
LEMMA VerdictType ==
  ASSUME NEW ps \in PersonStates, NEW buf \in Buffers \cup {NoBuffer}, NEW t \in Nat
  PROVE  Verdict(ps, buf, t) \in EvaluationResults
<1> DEFINE kept == DiscardBuffer(ps)
           good == [kept EXCEPT !.current = WASHED]
           bad  == [ps EXCEPT !.current = NOT_WASHED, !.confirmed = TRUE]
<1>0. kept \in PersonStates
  BY DEF DiscardBuffer, PersonStates, GroupIds
<1>1. good \in PersonStates /\ bad \in PersonStates
  <2> HIDE DEF kept
  <2> QED
    BY <1>0 DEF PersonStates, GroupIds, HandwashState, WASHED, NOT_WASHED
<1>2. ps.group \in GroupIds
  BY DEF PersonStates
<1>3. CompliantExit(ps) \in EvaluationResults
  <2>1. ResetVisit(good) \in PersonStates
    BY <1>1, ResetType
  <2>2. QED
    BY <1>2, <2>1 DEF CompliantExit, EvaluationResults
<1>4. ConfirmViolation(ps, buf) \in EvaluationResults
  <2>1. ResetVisit(bad) \in PersonStates
    BY <1>1, ResetType
  <2>2. CASE Live(buf)
    <3>1. buf \in Buffers
      BY <2>2, LiveType
    <3>2. /\ [buf EXCEPT !.frozen = TRUE] \in Buffers
          /\ [group |-> buf.group, items |-> buf.items] \in Payloads
      BY <3>1 DEF Buffers, Payloads
    <3>3. QED
      BY <1>2, <2>1, <2>2, <3>2 DEF ConfirmViolation, EvaluationResults
  <2>3. CASE ~Live(buf)
    BY <1>2, <2>1, <2>3 DEF ConfirmViolation, EvaluationResults
  <2>4. QED
    BY <2>2, <2>3
<1>5. QED
  BY <1>3, <1>4 DEF Verdict

(* Leaving the sink zone: every branch yields a well formed result. *)
LEMMA ZoneExitType ==
  ASSUME NEW ps \in PersonStates, NEW buf \in Buffers \cup {NoBuffer}, NEW t \in Nat
  PROVE  HandleZoneExit(ps, buf, t) \in EvaluationResults
<1> DEFINE idle    == [ps EXCEPT !.absence = 0]
           waiting == [ps EXCEPT !.pending = t]
           stale   == [ps EXCEPT !.pending = None, !.group = None]
           over    == [ps EXCEPT !.pending = None]
<1>1. idle \in PersonStates /\ waiting \in PersonStates
  BY DEF PersonStates
<1>2. stale \in PersonStates /\ over \in PersonStates
  BY DEF PersonStates, GroupIds
<1>3. ResetVisit(ps) \in PersonStates /\ ResetVisit(stale) \in PersonStates
  BY <1>2, ResetType
<1>4. /\ Keep(idle, buf) \in EvaluationResults
      /\ Keep(waiting, buf) \in EvaluationResults
      /\ Keep(ps, buf) \in EvaluationResults
      /\ Keep(ResetVisit(ps), buf) \in EvaluationResults
      /\ Keep(ResetVisit(stale), NoBuffer) \in EvaluationResults
  BY <1>1, <1>3, KeepType
<1>5. Verdict(ps, buf, t) \in EvaluationResults /\ Verdict(over, buf, t) \in EvaluationResults
  BY <1>2, VerdictType
<1>6. QED
  BY <1>4, <1>5 DEF HandleZoneExit

(* A new buffer that took one frame is a buffer of its group, not frozen. *)
LEMMA OpenedType ==
  ASSUME NEW g \in Groups, NEW t \in Nat
  PROVE  /\ BufferAdd(NewBuffer(g), t) \in Buffers
         /\ BufferAdd(NewBuffer(g), t).group = g
         /\ BufferAdd(NewBuffer(g), t).frozen = FALSE
<1>1. NewBuffer(g) \in Buffers /\ NewBuffer(g).group = g /\ NewBuffer(g).frozen = FALSE
  BY DEF NewBuffer, Buffers
<1>2. QED
  BY <1>1, AddType

(* Adding to a buffer only if it is live keeps the type. *)
LEMMA AddIfLiveType ==
  ASSUME NEW buf \in Buffers \cup {NoBuffer}, NEW t \in Nat
  PROVE  AddIfLive(buf, t) \in Buffers \cup {NoBuffer}
BY LiveType, AddType DEF AddIfLive

(* Being at the sink: every branch yields a well formed result. *)
LEMMA AtSinkType ==
  ASSUME NEW ps \in PersonStates, NEW buf \in Buffers \cup {NoBuffer},
         NEW fresh \in Groups, NEW t \in Nat
  PROVE  /\ HandleWashingActive(ps, buf, fresh, t) \in EvaluationResults
         /\ DebounceEntry(ps, buf, fresh, t) \in EvaluationResults
         /\ HandleNearSinkNotWashing(ps, buf, fresh, t) \in EvaluationResults
<1>1. BufferAdd(NewBuffer(fresh), t) \in Buffers \cup {NoBuffer}
  BY OpenedType
<1>2. AddIfLive(buf, t) \in Buffers \cup {NoBuffer}
  BY AddIfLiveType
<1>3. HandleWashingActive(ps, buf, fresh, t) \in EvaluationResults
  <2> DEFINE open == [ps EXCEPT !.pending = None, !.absence = 0]
  <2>1. open \in PersonStates
    BY DEF PersonStates
  <2>2. [open EXCEPT !.group = fresh] \in PersonStates
    BY <2>1 DEF PersonStates, GroupIds
  <2>3. QED
    BY <1>1, <1>2, <2>1, <2>2, KeepType DEF HandleWashingActive
<1>4. ASSUME NEW q \in PersonStates
      PROVE  DebounceEntry(q, buf, fresh, t) \in EvaluationResults
  <2> DEFINE counted == [q EXCEPT !.absence = q.absence + 1]
  <2>1. counted \in PersonStates
    BY <1>4 DEF PersonStates
  <2>2. [counted EXCEPT !.group = fresh] \in PersonStates
    BY <2>1 DEF PersonStates, GroupIds
  <2>3. /\ Keep(counted, buf) \in EvaluationResults
        /\ Keep([counted EXCEPT !.group = fresh], BufferAdd(NewBuffer(fresh), t))
             \in EvaluationResults
    BY <1>1, <2>1, <2>2, KeepType
  <2>4. DebounceEntry(q, buf, fresh, t) =
          IF counted.absence < MinEntry THEN Keep(counted, buf)
          ELSE Keep([counted EXCEPT !.group = fresh], BufferAdd(NewBuffer(fresh), t))
    BY DEF DebounceEntry
  <2>5. QED
    BY <2>3, <2>4
<1>5. HandleNearSinkNotWashing(ps, buf, fresh, t) \in EvaluationResults
  <2> DEFINE back  == [ps EXCEPT !.pending = None, !.absence = 0]
             stale == [ps EXCEPT !.pending = None, !.group = None]
  <2>1. back \in PersonStates /\ stale \in PersonStates
    BY DEF PersonStates, GroupIds
  <2>2. Live(buf) => BufferAdd(buf, t) \in Buffers \cup {NoBuffer}
    BY LiveType, AddType
  <2>3. DebounceEntry(ps, buf, fresh, t) \in EvaluationResults
        /\ DebounceEntry(stale, buf, fresh, t) \in EvaluationResults
    BY <1>4, <2>1
  <2>4. /\ Keep(ps, buf) \in EvaluationResults
        /\ Keep(ps, AddIfLive(buf, t)) \in EvaluationResults
        /\ Live(buf) => Keep(back, BufferAdd(buf, t)) \in EvaluationResults
    BY <1>2, <2>1, <2>2, KeepType
  <2>5. QED
    BY <2>3, <2>4 DEF HandleNearSinkNotWashing
<1>6. QED
  BY <1>3, <1>4, <1>5

(* The rule yields a well formed result for any record it is given. *)
LEMMA EvaluateType ==
  ASSUME NEW ps \in PersonStates, NEW buf \in Buffers \cup {NoBuffer},
         NEW fresh \in Groups, NEW t \in Nat
  PROVE  Evaluate(ps, buf, fresh, t) \in EvaluationResults
BY ZoneExitType, AtSinkType, KeepType DEF Evaluate

----------------------------------------------------------------------------
(* Types of one event *)

PersonRecords == PersonStates \cup {NoPerson}
Zones == [Persons -> PersonRecords]

(* What the engine hands to the rule for one person is well formed, so the *)
(* result of the per-person step is.                                       *)
LEMMA EvaluatePersonType ==
  ASSUME NEW ps \in PersonRecords, NEW buf \in Buffers \cup {NoBuffer}, NEW obs,
         NEW fresh \in Groups, NEW t \in Nat, NEW f, obs.real => f \in Nat
  PROVE  EvaluatePerson(ps, buf, obs, fresh, t, f) \in EvaluationResults
<1> DEFINE seen == Seen(Loaded(ps, t), obs, f)
           base == VisitState(seen, buf, obs, t)
           next == UpdateState(base, NextState(seen.current, obs), t)
<1>1. Loaded(ps, t) \in PersonStates
  BY InitialType DEF Loaded, PersonRecords
<1>2. seen \in PersonStates
  BY <1>1 DEF Seen, PersonStates
<1> HIDE DEF seen
<1>3. base \in PersonStates
  <2>1. seen.lastFrame \in Nat \cup {-1}
    BY <1>2 DEF PersonStates
  <2>2. [InitialPersonState(t) EXCEPT !.lastFrame = seen.lastFrame] \in PersonStates
    BY <2>1, InitialType DEF PersonStates
  <2>3. QED
    BY <1>2, <2>2 DEF VisitState
<1>4. NextState(seen.current, obs) \in HandwashState
  BY <1>2, NextStateType DEF PersonStates
<1> HIDE DEF base
<1>5. next \in PersonStates
  BY <1>3, <1>4, UpdateType
<1> HIDE DEF next
<1>6. Evaluate(next, buf, fresh, t) \in EvaluationResults
  BY <1>5, EvaluateType
<1>7. QED
  BY <1>6 DEF EvaluatePerson, seen, base, next

(* The result for a person: evaluated, or left as it was. *)
StepResults ==
  [person : PersonRecords, buffer : Buffers \cup {NoBuffer},
   result : {None, "COMPLIANT", "VIOLATION"}, closed : GroupIds,
   evidence : Payloads \cup {NoEvidence}]

(* A stamp made now is a stamp. *)
LEMMA StampType ==
  ASSUME TypeOK, NEW t \in Nat, NEW by \in {"process", "flush"}
  PROVE  Stamp(t, by) \in Stamps
BY DEF TypeOK, ProcessTypeOK, Stamp, Stamps

(* The results of an event are well formed for every person, and only a    *)
(* person with a record gets a verdict.                                    *)
LEMMA ResultsType ==
  ASSUME TypeOK, NEW zone \in Zones, NEW sights \in [Persons -> Sightings],
         NEW t \in Nat, NEW f, NEW by \in {"process", "flush"},
         \A p \in Persons : sights[p] # "unseen" => f \in Nat
  PROVE  /\ Results(sights, zone, t, f, by) \in [Persons -> StepResults]
         /\ \A p \in Persons : Results(sights, zone, t, f, by)[p].result # None
              => Results(sights, zone, t, f, by)[p].person \in PersonStates
<1>1. Stamp(t, by) \in Stamps
  BY StampType
<1>2. ASSUME NEW p \in Persons
      PROVE  EvaluatePerson(zone[p], buffers[p], ObservationOf(sights[p], zone[p], f),
                            [owner |-> p, made |-> Stamp(t, by)], t, f) \in EvaluationResults
  <2>1. zone[p] \in PersonRecords /\ buffers[p] \in Buffers \cup {NoBuffer}
    BY DEF Zones, TypeOK, StateTypeOK
  <2>2. ObservationOf(sights[p], zone[p], f).real => f \in Nat
    BY DEF ObservationOf
  <2>3. [owner |-> p, made |-> Stamp(t, by)] \in Groups
    BY <1>1 DEF Groups
  <2>4. QED
    BY <2>1, <2>2, <2>3, EvaluatePersonType
<1>3. ASSUME NEW p \in Persons
      PROVE  Keep(zone[p], buffers[p]) \in StepResults /\ Keep(zone[p], buffers[p]).result = None
  <2>1. zone[p] \in PersonRecords /\ buffers[p] \in Buffers \cup {NoBuffer}
    BY DEF Zones, TypeOK, StateTypeOK
  <2>2. QED
    BY <2>1 DEF Keep, StepResults, GroupIds
<1>4. EvaluationResults \subseteq StepResults
  BY DEF EvaluationResults, StepResults, PersonRecords
<1>5. \A r \in EvaluationResults : r.person \in PersonStates
  BY DEF EvaluationResults
<1>6. QED
  BY <1>2, <1>3, <1>4, <1>5 DEF Results

(* Expired or not, what is read from the store is a zone state. *)
LEMMA ZoneStateType ==
  ASSUME TypeOK, NEW t
  PROVE  ZoneState(t) \in Zones
BY DEF TypeOK, StateTypeOK, ZoneState, Zones, PersonRecords

(* Publishing and logging the verdicts of an event keep the outputs well   *)
(* formed.                                                                 *)
LEMMA OutputType ==
  ASSUME TypeOK, NEW res \in [Persons -> StepResults], NEW made \in Stamps,
         \A p \in Persons : res[p].result # None => res[p].person \in PersonStates,
         NEW shown \in SUBSET Violators(res), NEW told \in SUBSET Violators(res),
         NEW judged \in SUBSET Persons,
         Publish(res, made, shown, told), LogVerdicts(res, made, judged)
  PROVE  OutputTypeOK'
<1>1. ASSUME NEW g \in GroupIds
      PROVE  PublishedGroup(g) \in PublishedIds
  BY DEF PublishedGroup, PublishedIds, GroupIds
<1>2. ASSUME NEW p \in Violators(res)
      PROVE  p \in Persons /\ PublishedGroup(res[p].person.group) \in PublishedIds
  <2>1. p \in Persons /\ res[p].person \in PersonStates
    BY SpecialValues DEF Violators
  <2>2. QED
    BY <1>1, <2>1 DEF PersonStates
<1>3. alerts' \subseteq [group : PublishedIds, person : Persons, made : Stamps]
  BY <1>2 DEF Publish, TypeOK, OutputTypeOK
<1>4. evidence' \subseteq [group : PublishedIds, person : Persons, made : Stamps,
                          payload : Payloads]
  <2>1. ASSUME NEW p \in shown, res[p].evidence # NoEvidence
        PROVE  res[p].evidence \in Payloads
    BY <2>1, <1>2 DEF StepResults
  <2>2. QED
    BY <1>2, <2>1 DEF Publish, TypeOK, OutputTypeOK
<1>5. completed' \subseteq [group : PublishedIds, person : Persons, made : Stamps,
                           result : {"COMPLIANT", "VIOLATION"}]
  <2>1. ASSUME NEW p \in Persons, res[p].result # None
        PROVE  /\ res[p].result \in {"COMPLIANT", "VIOLATION"}
               /\ PublishedGroup(res[p].closed) \in PublishedIds
    BY <2>1, <1>1 DEF StepResults
  <2>2. QED
    BY <2>1 DEF LogVerdicts, TypeOK, OutputTypeOK
<1>6. QED
  BY <1>3, <1>4, <1>5 DEF OutputTypeOK

(* The history variables stay times. *)
LEMMA HistoryType ==
  ASSUME TypeOK, NEW zone \in Zones, NEW sights \in [Persons -> Sightings],
         NEW t \in Nat, t >= now, NEW f, NEW writes, Observe(sights, zone, t, f, writes)
  PROVE  HistoryTypeOK'
<1>1. now \in Nat /\ truth \in [Persons -> Nat] /\ insideAt \in [Persons -> Nat]
  BY DEF TypeOK, ProcessTypeOK, HistoryTypeOK
<1>2. t - now \in Nat
  BY <1>1
<1>3. QED
  BY <1>1, <1>2 DEF Observe, HistoryTypeOK

(* A completed event keeps state, outputs and history well formed. *)
LEMMA CompleteType ==
  ASSUME TypeOK, NEW sights \in [Persons -> Sightings],
         NEW t \in Nat, t >= now, NEW f, NEW by \in {"process", "flush"}, NEW writes,
         \A p \in Persons : sights[p] # "unseen" => f \in Nat,
         Complete(sights, t, f, by, writes)
  PROVE  StateTypeOK' /\ OutputTypeOK' /\ HistoryTypeOK'
<1> DEFINE zone == ZoneState(t)
           res  == Results(sights, zone, t, f, by)
<1>1. zone \in Zones
  BY ZoneStateType
<1>2. Stamp(t, by) \in Stamps
  BY StampType
<1>3. /\ res \in [Persons -> StepResults]
      /\ \A p \in Persons : res[p].result # None => res[p].person \in PersonStates
  BY <1>1, ResultsType
<1>4. /\ Publish(res, Stamp(t, by), Violators(res), Violators(res))
      /\ LogVerdicts(res, Stamp(t, by), Persons)
      /\ Observe(sights, zone, t, f, writes)
      /\ Save(sights, zone, res, t, f, writes)
      /\ buffers' = [p \in Persons |-> res[p].buffer]
  BY DEF Complete
<1> HIDE DEF zone, res
<1>5. StateTypeOK'
  <2>1. saved' \in Nat /\ store' \in [Persons -> PersonStates \cup {NoPerson}]
    BY <1>1, <1>3, <1>4 DEF Save, TypeOK, StateTypeOK, Zones, PersonRecords, StepResults
  <2>2. buffers' \in [Persons -> Buffers \cup {NoBuffer}]
    BY <1>3, <1>4 DEF StepResults
  <2>3. QED
    BY <2>1, <2>2 DEF StateTypeOK
<1>6. OutputTypeOK'
  BY <1>2, <1>3, <1>4, OutputType
<1>7. HistoryTypeOK'
  BY <1>1, <1>4, HistoryType
<1>8. QED
  BY <1>5, <1>6, <1>7

(* The next event comes later, with a larger frame id. *)
LEMMA ArrivesType ==
  ASSUME TypeOK, NEW df \in 1..MaxSkip, NEW dt \in df..MaxGap, Arrives(df, dt)
  PROVE  /\ now + dt \in Nat /\ frame + df \in Nat
         /\ now + dt > now /\ frame + df > frame
         /\ now' = now + dt /\ frame' = frame + df /\ boot' \in Nat
BY EngineConfigOK DEF Arrives, TypeOK, ProcessTypeOK

(* Every step keeps the types. *)
LEMMA TypeStep ==
  ASSUME TypeOK, Next
  PROVE  TypeOK'
<1>1. ASSUME NEW sights \in [Persons -> Sightings], NEW df \in 1..MaxSkip,
             NEW dt \in df..MaxGap, Process(sights, df, dt)
      PROVE  TypeOK'
  <2>1. PICK writes \in WriteOutcomes :
          Complete(sights, now + dt, frame + df, "process", writes)
    BY <1>1 DEF Process
  <2>2. StateTypeOK' /\ OutputTypeOK' /\ HistoryTypeOK'
    BY <1>1, <2>1, ArrivesType, CompleteType DEF Process, TypeOK, ProcessTypeOK
  <2>3. ProcessTypeOK'
    BY <1>1, ArrivesType DEF Process, ProcessTypeOK
  <2>4. QED
    BY <2>2, <2>3 DEF TypeOK
<1>2. ASSUME NEW sights \in [Persons -> Sightings], NEW df \in 1..MaxSkip,
             NEW dt \in df..MaxGap, DieMidFrame(sights, df, dt)
      PROVE  TypeOK'
  <2> DEFINE t    == now + dt
             f    == frame + df
             zone == ZoneState(t)
             res  == Results(sights, zone, t, f, "process")
  <2>1. /\ t \in Nat /\ t >= now /\ f \in Nat
        /\ ProcessTypeOK'
    BY <1>2, ArrivesType DEF DieMidFrame, ProcessTypeOK, TypeOK
  <2>2. zone \in Zones
    BY ZoneStateType
  <2>3. Stamp(t, "process") \in Stamps
    BY <2>1, StampType
  <2>4. /\ res \in [Persons -> StepResults]
        /\ \A p \in Persons : res[p].result # None => res[p].person \in PersonStates
    BY <2>1, <2>2, ResultsType
  <2>5. PICK done \in SUBSET Persons, current \in SUBSET Persons, shown \in SUBSET Persons :
          /\ Publish(res, Stamp(t, "process"), Violators(res) \cap (done \cup shown),
                     Violators(res) \cap done)
          /\ LogVerdicts(res, Stamp(t, "process"), done \cup current)
    BY <1>2 DEF DieMidFrame
  <2>6. /\ Observe(sights, zone, t, f, FALSE)
        /\ store' = zone /\ saved' = saved /\ buffers' = buffers
    BY <1>2 DEF DieMidFrame
  <2> HIDE DEF t, f, zone, res
  <2>7. OutputTypeOK'
    BY <2>3, <2>4, <2>5, OutputType
  <2>8. HistoryTypeOK'
    BY <2>1, <2>2, <2>6, HistoryType
  <2>9. StateTypeOK'
    BY <2>2, <2>6 DEF TypeOK, StateTypeOK, Zones, PersonRecords
  <2>10. QED
    BY <2>1, <2>7, <2>8, <2>9 DEF TypeOK
<1>3. ASSUME NEW df \in 1..MaxSkip, NEW dt \in df..MaxGap, ProcessReadFails(df, dt)
      PROVE  TypeOK'
  <2>1. ProcessTypeOK'
    BY <1>3, ArrivesType DEF ProcessReadFails, ProcessTypeOK
  <2>2. StateTypeOK'
    <3>1. store' \in Zones
      BY <1>3, ZoneStateType DEF ProcessReadFails
    <3>2. QED
      BY <1>3, <3>1 DEF ProcessReadFails, TypeOK, StateTypeOK, Zones, PersonRecords
  <2>3. OutputTypeOK'
    BY <1>3 DEF ProcessReadFails, output, TypeOK, OutputTypeOK
  <2>4. HistoryTypeOK'
    <3>1. dt \in Nat
      BY EngineConfigOK
    <3>2. QED
      BY <1>3, <3>1 DEF ProcessReadFails, TypeOK, HistoryTypeOK
  <2>5. QED
    BY <2>1, <2>2, <2>3, <2>4 DEF TypeOK
<1>4. ASSUME Flush
      PROVE  TypeOK'
  <2>1. ProcessTypeOK'
    BY <1>4 DEF Flush, TypeOK, ProcessTypeOK
  <2>2. CASE \A p \in Persons : ZoneState(now)[p] = NoPerson
    BY <1>4, <2>1, <2>2 DEF Flush, output, history, TypeOK, StateTypeOK, OutputTypeOK, HistoryTypeOK
  <2>3. CASE ~\A p \in Persons : ZoneState(now)[p] = NoPerson
    <3> DEFINE sights == [p \in Persons |-> "unseen"]
    <3>1. PICK writes \in WriteOutcomes :
            Complete(sights, now, FlushFrame(ZoneState(now)), "flush", writes)
      BY <1>4, <2>3 DEF Flush
    <3>2. sights \in [Persons -> Sightings] /\ \A p \in Persons : sights[p] = "unseen"
      BY DEF Sightings
    <3>3. now \in Nat /\ now >= now
      BY DEF TypeOK, ProcessTypeOK
    <3> HIDE DEF sights
    <3>4. StateTypeOK' /\ OutputTypeOK' /\ HistoryTypeOK'
      BY <3>1, <3>2, <3>3, CompleteType
    <3>5. QED
      BY <2>1, <3>4 DEF TypeOK
  <2>4. QED
    BY <2>2, <2>3
<1>5. ASSUME Die
      PROVE  TypeOK'
  BY <1>5 DEF Die, output, history, TypeOK, ProcessTypeOK, StateTypeOK, OutputTypeOK, HistoryTypeOK
<1>6. ASSUME NEW back \in 0..MaxStepBack, Restart(back)
      PROVE  TypeOK'
  <2>1. ProcessTypeOK'
    BY <1>6, EngineConfigOK DEF Restart, TypeOK, ProcessTypeOK
  <2>2. StateTypeOK'
    BY <1>6 DEF Restart, TypeOK, StateTypeOK
  <2>3. OutputTypeOK' /\ HistoryTypeOK'
    BY <1>6 DEF Restart, output, history, TypeOK, OutputTypeOK, HistoryTypeOK
  <2>4. QED
    BY <2>1, <2>2, <2>3 DEF TypeOK
<1>7. QED
  BY <1>1, <1>2, <1>3, <1>4, <1>5, <1>6 DEF Next

(* Every reachable state of the engine is well formed: the records written *)
(* by one event are records the next event, or the next process, can read. *)
THEOREM TypeCorrect == Spec => []TypeOK
<1>1. Init => TypeOK
  BY DEF Init, TypeOK, ProcessTypeOK, StateTypeOK, OutputTypeOK, HistoryTypeOK
<1>2. TypeOK /\ [Next]_vars => TypeOK'
  <2>1. ASSUME TypeOK, UNCHANGED vars
        PROVE  TypeOK'
    BY <2>1 DEF vars, process, output, history, TypeOK, ProcessTypeOK, StateTypeOK, OutputTypeOK,
                HistoryTypeOK
  <2>2. QED
    BY <2>1, TypeStep
<1>3. QED
  BY <1>1, <1>2, PTL DEF Spec

----------------------------------------------------------------------------
(* Records and groups *)

USE DEF NOT_NEAR_SINK, NEAR_SINK_NOT_WASHING, WASHING, WASHED, NOT_WASHED, Terminal

(* A record is not the absence of one, a buffer not the absence of one,    *)
(* and a group is a group.                                                 *)
LEMMA Distinct ==
  /\ NoPerson \notin PersonStates
  /\ NoBuffer \notin Buffers
  /\ \A g \in Groups : g # None /\ g # Missing
  /\ None # "VIOLATION" /\ None # "COMPLIANT"
  /\ None # Missing
BY SpecialValues

(* A group cleared by the rule leaves nothing behind to raise a violation. *)
Cleared(ps) ==
  \/ ps.current = WASHED
  \/ ps.current = NOT_NEAR_SINK /\ ps.atSink = 0 /\ ps.washing = 0

(* A record as the engine stores it: a violation is confirmed exactly in   *)
(* NOT_WASHED, a compliant person has no group, someone washing has one,   *)
(* and an exit is pending exactly for an open visit away from the sink.    *)
Settled(ps) ==
  /\ ps.confirmed <=> ps.current = NOT_WASHED
  /\ ps.current = WASHED => ~HasGroup(ps)
  /\ ps.current = WASHING => HasGroup(ps)
  /\ ps.pending # None <=> ps.current = NOT_NEAR_SINK /\ HasGroup(ps)
  /\ ps.group = None => Cleared(ps)

(* A transition changes the state and the clocks of a record, nothing else. *)
LEMMA UpdateFields ==
  ASSUME NEW ps \in PersonStates, NEW new, NEW t
  PROVE  LET next == UpdateState(ps, new, t)
         IN  /\ next.current = new
             /\ next.confirmed = ps.confirmed
             /\ next.group = ps.group
             /\ next.pending = ps.pending
             /\ next.absence = ps.absence
             /\ next.lastFrame = ps.lastFrame
             /\ Cleared(ps) /\ new = ps.current => Cleared(next)
<1> DEFINE a == IF ps.current = NEAR_SINK_NOT_WASHING THEN Elapsed(ps.started, t) ELSE 0
           w == IF ps.current = WASHING THEN Elapsed(ps.started, t) ELSE 0
<1>1. UpdateState(ps, new, t) =
        IF new = ps.current THEN ps
        ELSE [ps EXCEPT !.atSink = ps.atSink + a, !.washing = ps.washing + w,
                        !.started = t, !.current = new]
  BY DEF UpdateState, PersonStates
<1> HIDE DEF a, w
<1>2. QED
  BY <1>1 DEF PersonStates, Cleared

(* The record EvaluatePerson hands to the rule. *)
MovedRecord(ps, buf, obs, t, f) ==
  LET seen == Seen(Loaded(ps, t), obs, f)
  IN  UpdateState(VisitState(seen, buf, obs, t), NextState(seen.current, obs), t)

(* A group made by an earlier process, or by this one up to now. *)
Past(g) ==
  \/ g.made.boot < boot
  \/ /\ g.made.boot = boot
     /\ g.made.at <= now
     /\ g.made.by = "flush" => phase = "stopped"

(* The group an event would give to a person. *)
FreshGroup(p, made) == [owner |-> p, made |-> made]

(* What was made before stays so as long as the process goes on and its    *)
(* clock does not go back.                                                 *)
LEMMA PastStays ==
  ASSUME TypeOK, phase # "stopped", boot' = boot, now' \in Nat, now' >= now,
         NEW g \in Groups, Past(g)
  PROVE  Past(g)'
<1>1. g.made.at \in Nat /\ now \in Nat
  BY DEF Groups, Stamps, TypeOK, ProcessTypeOK
<1>2. QED
  BY <1>1 DEF Past

(* A stamp of this very operation is new before it and past after it.      *)
LEMMA StampIsNew ==
  ASSUME TypeOK, NEW t \in Nat, NEW by \in {"process", "flush"},
         t > now \/ (by = "flush" /\ phase # "stopped"),
         boot' = boot, now' = t, by = "flush" => phase' = "stopped",
         NEW made, made = Stamp(t, by)
  PROVE  \A p : ~Past(FreshGroup(p, made)) /\ Past(FreshGroup(p, made))'
<1>1. boot \in Nat /\ now \in Nat
  BY DEF TypeOK, ProcessTypeOK
<1>2. made.boot = boot /\ made.at = t /\ made.by = by
  BY DEF Stamp
<1>3. \A p : FreshGroup(p, made).made = made
  BY DEF FreshGroup
<1>4. QED
  BY <1>1, <1>2, <1>3 DEF Past

----------------------------------------------------------------------------
(* Evidence is handed out once *)

(* The buffer the rule leaves: a live one is the old one, with or without  *)
(* the frame, or a new one of the fresh group with the frame.              *)
Took(buf, fresh, t, left) ==
  Live(left) => \/ Live(buf) /\ left \in {buf, BufferAdd(buf, t)}
                \/ left = BufferAdd(NewBuffer(fresh), t)

(* A package is the live buffer, which is not live any more. *)
Handed(buf, fresh, t, res) ==
  /\ Took(buf, fresh, t, res.buffer)
  /\ res.evidence # NoEvidence =>
       /\ res.result = "VIOLATION"
       /\ Live(buf)
       /\ ~Live(res.buffer)
       /\ res.evidence = [group |-> buf.group, items |-> buf.items]

(* Nothing is handed out without a verdict. *)
LEMMA KeepHands ==
  ASSUME NEW ps, NEW buf, NEW fresh, NEW t, NEW left, Took(buf, fresh, t, left)
  PROVE  Handed(buf, fresh, t, Keep(ps, left))
BY DEF Keep, Handed

(* A live buffer that is left keeps its group or has the fresh one. *)
LEMMA TookGroup ==
  ASSUME NEW buf \in Buffers \cup {NoBuffer}, NEW fresh \in Groups, NEW t \in Nat, NEW left,
         Took(buf, fresh, t, left), Live(left)
  PROVE  (Live(buf) /\ left.group = buf.group) \/ left.group = fresh
<1>1. CASE Live(buf) /\ left = buf
  BY <1>1
<1>2. CASE Live(buf) /\ left = BufferAdd(buf, t)
  <2>1. buf \in Buffers
    BY <1>2, LiveType
  <2>2. left.group = buf.group
    BY <1>2, <2>1, AddType
  <2>3. QED
    BY <1>2, <2>2
<1>3. CASE left = BufferAdd(NewBuffer(fresh), t)
  BY <1>3, OpenedType
<1>4. QED
  BY <1>1, <1>2, <1>3 DEF Took

(* A buffer that takes a frame stays live and keeps its group. *)
LEMMA AddHands ==
  ASSUME NEW buf \in Buffers \cup {NoBuffer}, NEW t \in Nat, Live(buf)
  PROVE  /\ buf \in Buffers
         /\ BufferAdd(buf, t) \in Buffers
         /\ BufferAdd(buf, t).group = buf.group
         /\ Live(BufferAdd(buf, t))
BY LiveType, AddType, Distinct DEF Live

(* A violation freezes the buffer it hands out. *)
LEMMA VerdictHands ==
  ASSUME NEW ps, NEW buf \in Buffers \cup {NoBuffer}, NEW t, NEW fresh
  PROVE  Handed(buf, fresh, t, Verdict(ps, buf, t))
<1>1. Handed(buf, fresh, t, CompliantExit(ps))
  BY DEF CompliantExit, Handed, Took, Live
<1>2. Handed(buf, fresh, t, ConfirmViolation(ps, buf))
  <2>1. CASE Live(buf)
    <3>1. [buf EXCEPT !.frozen = TRUE].frozen = TRUE
      BY <2>1, LiveType DEF Buffers
    <3>2. QED
      BY <2>1, <3>1 DEF ConfirmViolation, Handed, Took, Live
  <2>2. CASE ~Live(buf)
    BY <2>2 DEF ConfirmViolation, Handed, Took
  <2>3. QED
    BY <2>1, <2>2
<1>3. QED
  BY <1>1, <1>2 DEF Verdict

(* A buffer opened for a debounced entry is of the fresh group. *)
LEMMA DebounceHands ==
  ASSUME NEW ps, NEW buf \in Buffers \cup {NoBuffer}, NEW fresh \in Groups, NEW t \in Nat
  PROVE  Handed(buf, fresh, t, DebounceEntry(ps, buf, fresh, t))
<1> DEFINE counted == [ps EXCEPT !.absence = @ + 1]
           opened  == [counted EXCEPT !.group = fresh]
           new     == BufferAdd(NewBuffer(fresh), t)
<1>1. DebounceEntry(ps, buf, fresh, t) =
        IF counted.absence < MinEntry THEN Keep(counted, buf) ELSE Keep(opened, new)
  BY DEF DebounceEntry
<1>2. Took(buf, fresh, t, buf) /\ Took(buf, fresh, t, new)
  BY DEF Took
<1> HIDE DEF counted, opened, new
<1>3. Handed(buf, fresh, t, Keep(counted, buf)) /\ Handed(buf, fresh, t, Keep(opened, new))
  BY <1>2, KeepHands
<1>4. QED
  BY <1>1, <1>3

(* The rule, whatever record it is given. *)
LEMMA EvaluateHands ==
  ASSUME NEW ps, NEW buf \in Buffers \cup {NoBuffer}, NEW fresh \in Groups, NEW t \in Nat
  PROVE  Handed(buf, fresh, t, Evaluate(ps, buf, fresh, t))
<1>1. \A q : Handed(buf, fresh, t, Keep(q, buf)) /\ Handed(buf, fresh, t, Keep(q, NoBuffer))
  BY KeepHands DEF Took, Live
<1>2. \A q : /\ Live(buf) => Handed(buf, fresh, t, Keep(q, BufferAdd(buf, t)))
             /\ Handed(buf, fresh, t, Keep(q, AddIfLive(buf, t)))
  BY KeepHands DEF Took, AddIfLive
<1>3. \A q : Handed(buf, fresh, t, Keep(q, BufferAdd(NewBuffer(fresh), t)))
  BY KeepHands DEF Took
<1>4. Handed(buf, fresh, t, HandleZoneExit(ps, buf, t))
  BY <1>1, VerdictHands DEF HandleZoneExit
<1>5. Handed(buf, fresh, t, HandleWashingActive(ps, buf, fresh, t))
  BY <1>2, <1>3 DEF HandleWashingActive
<1>6. Handed(buf, fresh, t, HandleNearSinkNotWashing(ps, buf, fresh, t))
  BY <1>1, <1>2, DebounceHands DEF HandleNearSinkNotWashing
<1>7. QED
  BY <1>1, <1>4, <1>5, <1>6 DEF Evaluate

(* Everyone's buffer in one event. *)
LEMMA ResultsHand ==
  ASSUME TypeOK, NEW sights, NEW zone, NEW t \in Nat, NEW f, NEW by \in {"process", "flush"},
         NEW p \in Persons
  PROVE  Handed(buffers[p], FreshGroup(p, Stamp(t, by)), t, Results(sights, zone, t, f, by)[p])
<1> DEFINE fresh == FreshGroup(p, Stamp(t, by))
           obs   == ObservationOf(sights[p], zone[p], f)
<1>1. fresh \in Groups /\ buffers[p] \in Buffers \cup {NoBuffer}
  BY StampType DEF FreshGroup, Groups, TypeOK, StateTypeOK
<1>2. Results(sights, zone, t, f, by)[p] =
        IF HasObservation(sights[p], zone[p], f)
        THEN EvaluatePerson(zone[p], buffers[p], obs, fresh, t, f)
        ELSE Keep(zone[p], buffers[p])
  BY DEF Results, FreshGroup
<1> HIDE DEF obs
<1>3. Handed(buffers[p], fresh, t, Keep(zone[p], buffers[p]))
  BY KeepHands DEF Took
<1>4. Handed(buffers[p], fresh, t, EvaluatePerson(zone[p], buffers[p], obs, fresh, t, f))
  <2> HIDE DEF fresh
  <2>1. \A next : Handed(buffers[p], fresh, t, Evaluate(next, buffers[p], fresh, t))
    BY <1>1, EvaluateHands
  <2>2. QED
    BY <2>1 DEF EvaluatePerson
<1> HIDE DEF fresh
<1>5. Handed(buffers[p], fresh, t, Results(sights, zone, t, f, by)[p])
  BY <1>2, <1>3, <1>4
<1>6. QED
  BY <1>5 DEF fresh

(* Buffers and packages are of groups made before, each person has only    *)
(* buffers of the own groups, and while the process goes on no package has *)
(* been made of a buffer that is still live.                               *)
BuffersPast ==
  \A p \in Persons : Live(buffers[p]) =>
    buffers[p].group.owner = p /\ Past(buffers[p].group)

EvidencePast ==
  \A e \in evidence : e.payload.group.owner = e.person /\ Past(e.payload.group)

LiveNotShown ==
  phase # "stopped" =>
    \A p \in Persons : Live(buffers[p]) =>
      \A e \in evidence : e.payload.group # buffers[p].group

EvidenceInv ==
  /\ TypeOK
  /\ BuffersPast
  /\ EvidencePast
  /\ LiveNotShown
  /\ OneEvidencePerVisit

(* The package an event publishes for a person. *)
EvidenceOf(res, made, p) ==
  [group |-> PublishedGroup(res[p].person.group), person |-> p, made |-> made,
   payload |-> res[p].evidence]

Packed(res, shown) == {p \in shown : res[p].evidence # NoEvidence}

(* What becomes of the evidence when an event shows some of its packages,  *)
(* given that each is the live buffer of its person.                       *)
LEMMA EvidenceFollows ==
  ASSUME EvidenceInv, phase # "stopped", NEW res, NEW made, NEW t, NEW shown \in SUBSET Persons,
         \A p \in Persons : Handed(buffers[p], FreshGroup(p, made), t, res[p]),
         evidence' = evidence \cup {EvidenceOf(res, made, p) : p \in Packed(res, shown)},
         \A g \in Groups : Past(g) => Past(g)'
  PROVE  EvidencePast' /\ OneEvidencePerVisit'
<1>1. ASSUME NEW p \in Packed(res, shown)
      PROVE  /\ p \in Persons
             /\ EvidenceOf(res, made, p).person = p
             /\ Live(buffers[p])
             /\ EvidenceOf(res, made, p).payload.group = buffers[p].group
             /\ buffers[p].group \in Groups
             /\ buffers[p].group.owner = p
             /\ Past(buffers[p].group)
             /\ \A e \in evidence : e.payload.group # buffers[p].group
  <2>1. p \in Persons /\ res[p].evidence # NoEvidence
    BY DEF Packed
  <2>2. Live(buffers[p]) /\ res[p].evidence = [group |-> buffers[p].group, items |-> buffers[p].items]
    BY <2>1 DEF Handed
  <2>3. buffers[p] \in Buffers
    BY <2>1, <2>2, LiveType DEF EvidenceInv, TypeOK, StateTypeOK
  <2>4. QED
    BY <2>1, <2>2, <2>3 DEF EvidenceOf, EvidenceInv, BuffersPast, LiveNotShown, Buffers
<1>2. EvidencePast'
  <2>1. ASSUME NEW e \in evidence'
        PROVE  \E g \in Groups : g = e.payload.group /\ g.owner = e.person /\ Past(g)
    <3>1. CASE e \in evidence
      <4>1. e.payload.group \in Groups
        BY <3>1 DEF EvidenceInv, TypeOK, OutputTypeOK, Payloads
      <4>2. QED
        BY <3>1, <4>1 DEF EvidenceInv, EvidencePast
    <3>2. CASE e \notin evidence
      <4>1. PICK p \in Packed(res, shown) : e = EvidenceOf(res, made, p)
        BY <3>2
      <4>2. QED
        BY <1>1, <4>1
    <3>3. QED
      BY <3>1, <3>2
  <2>2. QED
    BY <2>1 DEF EvidencePast
<1>3. ASSUME NEW e \in evidence', NEW g \in evidence', e.payload.group = g.payload.group
      PROVE  e = g
  <2>1. CASE e \in evidence /\ g \in evidence
    BY <1>3, <2>1 DEF EvidenceInv, OneEvidencePerVisit
  <2>2. CASE e \in evidence /\ g \notin evidence
    <3>1. PICK p \in Packed(res, shown) : g = EvidenceOf(res, made, p)
      BY <2>2
    <3>2. QED
      BY <1>1, <1>3, <2>2, <3>1
  <2>3. CASE e \notin evidence /\ g \in evidence
    <3>1. PICK p \in Packed(res, shown) : e = EvidenceOf(res, made, p)
      BY <2>3
    <3>2. QED
      BY <1>1, <1>3, <2>3, <3>1
  <2>4. CASE e \notin evidence /\ g \notin evidence
    <3>1. PICK p \in Packed(res, shown) : e = EvidenceOf(res, made, p)
      BY <2>4
    <3>2. PICK q \in Packed(res, shown) : g = EvidenceOf(res, made, q)
      BY <2>4
    <3>3. p = q
      BY <1>1, <1>3, <3>1, <3>2
    <3>4. QED
      BY <3>1, <3>2, <3>3
  <2>5. QED
    BY <2>1, <2>2, <2>3, <2>4
<1>4. OneEvidencePerVisit'
  BY <1>3 DEF OneEvidencePerVisit
<1>5. QED
  BY <1>2, <1>4

(* A completed event, saved or not, keeps the invariant. *)
LEMMA CompleteHands ==
  ASSUME EvidenceInv, TypeOK', phase # "stopped", NEW sights, NEW t \in Nat, NEW f,
         NEW by \in {"process", "flush"}, NEW writes, Complete(sights, t, f, by, writes),
         \A g \in Groups : Past(g) => Past(g)',
         NEW made, made = Stamp(t, by),
         \A p : ~Past(FreshGroup(p, made)) /\ Past(FreshGroup(p, made))'
  PROVE  EvidenceInv'
<1> DEFINE res == Results(sights, ZoneState(t), t, f, by)
<1>1. \A p \in Persons : Handed(buffers[p], FreshGroup(p, made), t, res[p])
  BY ResultsHand DEF EvidenceInv
<1>2. /\ evidence' = evidence \cup {EvidenceOf(res, made, p) : p \in Packed(res, Violators(res))}
      /\ buffers' = [p \in Persons |-> res[p].buffer]
  BY DEF Complete, Publish, EvidenceOf, Packed
<1>3. Violators(res) \in SUBSET Persons
  BY DEF Violators
<1> HIDE DEF res
<1>4. EvidencePast' /\ OneEvidencePerVisit'
  BY <1>1, <1>2, <1>3, EvidenceFollows
<1>5. ASSUME NEW p \in Persons, Live(res[p].buffer)
      PROVE  \/ /\ Live(buffers[p]) /\ res[p].buffer.group = buffers[p].group
                /\ buffers[p].group \in Groups /\ buffers[p].group.owner = p
                /\ Past(buffers[p].group)
             \/ res[p].buffer.group = FreshGroup(p, made)
  <2>1. buffers[p] \in Buffers \cup {NoBuffer}
    BY DEF EvidenceInv, TypeOK, StateTypeOK
  <2>2. FreshGroup(p, made) \in Groups
    BY StampType DEF EvidenceInv, FreshGroup, Groups
  <2>3. \/ Live(buffers[p]) /\ res[p].buffer.group = buffers[p].group
        \/ res[p].buffer.group = FreshGroup(p, made)
    BY <1>1, <1>5, <2>1, <2>2, TookGroup DEF Handed
  <2>4. Live(buffers[p]) => buffers[p].group \in Groups
    BY <2>1, LiveType DEF Buffers
  <2>5. QED
    BY <2>3, <2>4 DEF EvidenceInv, BuffersPast
<1>6. BuffersPast'
  <2>1. ASSUME NEW p \in Persons, Live(res[p].buffer)
        PROVE  \E g : g = res[p].buffer.group /\ g.owner = p /\ Past(g)'
    <3>1. CASE res[p].buffer.group = FreshGroup(p, made)
      <4>1. PICK g : g = FreshGroup(p, made)
        OBVIOUS
      <4>2. g.owner = p /\ Past(g)'
        BY <4>1 DEF FreshGroup
      <4>3. QED
        BY <3>1, <4>1, <4>2
    <3>2. CASE res[p].buffer.group # FreshGroup(p, made)
      <4>1. PICK g \in Groups : g = buffers[p].group
        BY <1>5, <2>1, <3>2
      <4>2. g.owner = p /\ Past(g)
        BY <1>5, <2>1, <3>2, <4>1
      <4>3. g = res[p].buffer.group /\ Past(g)'
        BY <1>5, <2>1, <3>2, <4>1, <4>2
      <4>4. QED
        BY <4>2, <4>3
    <3>3. QED
      BY <3>1, <3>2
  <2>2. \A p \in Persons : buffers'[p] = res[p].buffer
    BY <1>2
  <2>3. QED
    BY <2>1, <2>2 DEF BuffersPast, Past, Live
<1>7. LiveNotShown'
  <2>1. ASSUME NEW p \in Persons, Live(res[p].buffer), NEW e \in evidence',
               e.payload.group = res[p].buffer.group
        PROVE  FALSE
    <3>1. CASE e \in evidence
      <4>1. e.payload.group \in Groups /\ Past(e.payload.group)
        BY <3>1 DEF EvidenceInv, TypeOK, OutputTypeOK, Payloads, EvidencePast
      <4>2. QED
        BY <1>5, <2>1, <3>1, <4>1 DEF EvidenceInv, LiveNotShown
    <3>2. CASE e \notin evidence
      <4>1. PICK q \in Packed(res, Violators(res)) : e = EvidenceOf(res, made, q)
        BY <1>2, <3>2
      <4>2. q \in Persons /\ res[q].evidence # NoEvidence
        BY <4>1 DEF Packed, Violators
      <4>3. /\ Live(buffers[q]) /\ ~Live(res[q].buffer)
            /\ e.payload.group = buffers[q].group
        <5>1. /\ Live(buffers[q]) /\ ~Live(res[q].buffer)
              /\ res[q].evidence = [group |-> buffers[q].group, items |-> buffers[q].items]
          BY <1>1, <4>2 DEF Handed
        <5>2. e.payload = res[q].evidence
          BY <4>1 DEF EvidenceOf
        <5>3. QED
          BY <5>1, <5>2
      <4>4. buffers[q].group.owner = q /\ Past(buffers[q].group)
        BY <4>2, <4>3 DEF EvidenceInv, BuffersPast
      <4>5. QED
        BY <1>5, <2>1, <4>3, <4>4
    <3>3. QED
      BY <3>1, <3>2
  <2>2. \A p \in Persons : buffers'[p] = res[p].buffer
    BY <1>2
  <2>3. QED
    BY <2>1, <2>2 DEF LiveNotShown, Live
<1>8. QED
  BY <1>4, <1>6, <1>7 DEF EvidenceInv

(* An event or a flush that runs to its end makes groups that are new. *)
LEMMA ProcessIsNew ==
  ASSUME TypeOK, NEW sights, NEW df \in 1..MaxSkip, NEW dt \in df..MaxGap,
         Process(sights, df, dt) \/ DieMidFrame(sights, df, dt),
         NEW made, made = Stamp(now + dt, "process")
  PROVE  /\ now + dt \in Nat /\ frame + df \in Nat /\ now + dt > now
         /\ now' = now + dt /\ frame' = frame + df /\ boot' = boot /\ phase # "stopped"
         /\ \A g \in Groups : Past(g) => Past(g)'
         /\ \A p : ~Past(FreshGroup(p, made)) /\ Past(FreshGroup(p, made))'
<1>1. /\ now + dt \in Nat /\ frame + df \in Nat /\ now + dt > now
      /\ now' = now + dt /\ frame' = frame + df /\ boot' = boot /\ phase # "stopped"
  BY ArrivesType DEF Process, DieMidFrame, Arrives
<1>2. now \in Nat
  BY DEF TypeOK, ProcessTypeOK
<1>3. \A g \in Groups : Past(g) => Past(g)'
  BY <1>1, <1>2, PastStays
<1>4. \A p : ~Past(FreshGroup(p, made)) /\ Past(FreshGroup(p, made))'
  BY <1>1, StampIsNew
<1>5. QED
  BY <1>1, <1>3, <1>4

LEMMA FlushIsNew ==
  ASSUME TypeOK, Flush, NEW made, made = Stamp(now, "flush")
  PROVE  /\ now \in Nat /\ now' = now /\ boot' = boot /\ frame' = frame
         /\ phase = "streaming" /\ phase' = "stopped"
         /\ \A g \in Groups : Past(g) => Past(g)'
         /\ \A p : ~Past(FreshGroup(p, made)) /\ Past(FreshGroup(p, made))'
<1>1. /\ now \in Nat /\ now' = now /\ boot' = boot /\ frame' = frame
      /\ phase = "streaming" /\ phase' = "stopped"
  BY DEF Flush, TypeOK, ProcessTypeOK
<1>2. \A g \in Groups : Past(g) => Past(g)'
  BY <1>1, PastStays
<1>3. \A p : ~Past(FreshGroup(p, made)) /\ Past(FreshGroup(p, made))'
  BY <1>1, StampIsNew
<1>4. QED
  BY <1>1, <1>2, <1>3

(* What was made before a process started is past for it. *)
LEMMA PastSurvivesRestart ==
  ASSUME TypeOK, NEW back, Restart(back), NEW g \in Groups, Past(g)
  PROVE  Past(g)'
<1>1. boot' = boot + 1
  BY DEF Restart
<1>2. boot \in Nat /\ g.made.boot \in Nat
  BY DEF TypeOK, ProcessTypeOK, Groups, Stamps
<1>3. QED
  BY <1>1, <1>2 DEF Past

(* Every step keeps the invariant. *)
LEMMA EvidenceStep ==
  ASSUME EvidenceInv, Next
  PROVE  EvidenceInv'
<1>0. TypeOK /\ TypeOK'
  BY TypeStep DEF EvidenceInv
<1>1. ASSUME NEW sights \in [Persons -> Sightings], NEW df \in 1..MaxSkip,
             NEW dt \in df..MaxGap, Process(sights, df, dt)
      PROVE  EvidenceInv'
  <2>1. PICK writes \in WriteOutcomes :
          Complete(sights, now + dt, frame + df, "process", writes)
    BY <1>1 DEF Process
  <2>2. PICK made : made = Stamp(now + dt, "process")
    OBVIOUS
  <2>3. QED
    BY <1>0, <1>1, <2>1, <2>2, ProcessIsNew, CompleteHands
<1>2. ASSUME NEW sights \in [Persons -> Sightings], NEW df \in 1..MaxSkip,
             NEW dt \in df..MaxGap, DieMidFrame(sights, df, dt)
      PROVE  EvidenceInv'
  <2> DEFINE res == Results(sights, ZoneState(now + dt), now + dt, frame + df, "process")
  <2>1. PICK made : made = Stamp(now + dt, "process")
    OBVIOUS
  <2>2. /\ now + dt \in Nat /\ phase # "stopped"
        /\ \A g \in Groups : Past(g) => Past(g)'
    BY <1>0, <1>2, <2>1, ProcessIsNew
  <2>3. PICK shown \in SUBSET Persons :
          evidence' = evidence \cup {EvidenceOf(res, made, p) : p \in Packed(res, shown)}
    <3>1. PICK done \in SUBSET Persons, shown \in SUBSET Persons :
            Publish(res, made, Violators(res) \cap (done \cup shown), Violators(res) \cap done)
      BY <1>2, <2>1 DEF DieMidFrame
    <3>2. Violators(res) \cap (done \cup shown) \in SUBSET Persons
      OBVIOUS
    <3> HIDE DEF res
    <3>3. QED
      BY <3>1, <3>2 DEF Publish, EvidenceOf, Packed
  <2>4. \A p \in Persons : Handed(buffers[p], FreshGroup(p, made), now + dt, res[p])
    BY <1>0, <2>1, <2>2, ResultsHand
  <2>5. buffers' = buffers /\ phase' = "stopped"
    BY <1>2 DEF DieMidFrame
  <2> HIDE DEF res
  <2>6. EvidencePast' /\ OneEvidencePerVisit'
    BY <2>2, <2>3, <2>4, EvidenceFollows
  <2>7. BuffersPast'
    <3>1. \A p \in Persons : Live(buffers[p]) =>
            \E g \in Groups : g = buffers[p].group /\ g.owner = p /\ Past(g)'
      <4>1. \A p \in Persons : Live(buffers[p]) => buffers[p].group \in Groups
        BY <1>0, LiveType DEF TypeOK, StateTypeOK, Buffers
      <4>2. QED
        BY <2>2, <4>1 DEF EvidenceInv, BuffersPast
    <3>2. QED
      BY <2>5, <3>1 DEF BuffersPast, Past, Live
  <2>8. QED
    BY <1>0, <2>5, <2>6, <2>7 DEF EvidenceInv, LiveNotShown
<1>3. ASSUME NEW df \in 1..MaxSkip, NEW dt \in df..MaxGap, ProcessReadFails(df, dt)
      PROVE  EvidenceInv'
  <2>1. /\ buffers' = buffers /\ evidence' = evidence
        /\ now' \in Nat /\ now' >= now /\ boot' = boot /\ phase # "stopped"
    BY <1>0, <1>3, ArrivesType DEF ProcessReadFails, Arrives, output, TypeOK, ProcessTypeOK
  <2>2. \A g \in Groups : Past(g) => Past(g)'
    BY <1>0, <2>1, PastStays
  <2>3. \A p \in Persons : Live(buffers[p]) =>
          \E g \in Groups : g = buffers[p].group /\ g.owner = p /\ Past(g)'
    <3>1. \A p \in Persons : Live(buffers[p]) => buffers[p].group \in Groups
      BY <1>0, LiveType DEF TypeOK, StateTypeOK, Buffers
    <3>2. QED
      BY <2>2, <3>1 DEF EvidenceInv, BuffersPast
  <2>4. \A e \in evidence : \E g \in Groups :
          g = e.payload.group /\ g.owner = e.person /\ Past(g)'
    <3>1. \A e \in evidence : e.payload.group \in Groups
      BY <1>0 DEF TypeOK, OutputTypeOK, Payloads
    <3>2. QED
      BY <2>2, <3>1 DEF EvidenceInv, EvidencePast
  <2>5. QED
    BY <1>0, <2>1, <2>3, <2>4 DEF EvidenceInv, BuffersPast, EvidencePast, LiveNotShown,
                                  OneEvidencePerVisit, Past, Live
<1>4. ASSUME Flush
      PROVE  EvidenceInv'
  <2>1. PICK made : made = Stamp(now, "flush")
    OBVIOUS
  <2>2. CASE \A p \in Persons : ZoneState(now)[p] = NoPerson
    <3>1. /\ evidence' = evidence /\ buffers' = buffers /\ boot' = boot /\ now' = now
          /\ phase = "streaming" /\ phase' = "stopped"
      BY <1>4, <2>2 DEF Flush, output
    <3>2. QED
      BY <1>0, <3>1 DEF EvidenceInv, BuffersPast, EvidencePast, LiveNotShown,
                        OneEvidencePerVisit, Past, Live
  <2>3. CASE ~\A p \in Persons : ZoneState(now)[p] = NoPerson
    <3>1. PICK writes \in WriteOutcomes :
            Complete([p \in Persons |-> "unseen"], now, FlushFrame(ZoneState(now)), "flush", writes)
      BY <1>4, <2>3 DEF Flush
    <3>2. QED
      BY <1>0, <1>4, <2>1, <3>1, FlushIsNew, CompleteHands
  <2>4. QED
    BY <2>2, <2>3
<1>5. ASSUME Die
      PROVE  EvidenceInv'
  BY <1>0, <1>5 DEF Die, output, EvidenceInv, BuffersPast, EvidencePast, LiveNotShown,
                    OneEvidencePerVisit, Past, Live
<1>6. ASSUME NEW back \in 0..MaxStepBack, Restart(back)
      PROVE  EvidenceInv'
  <2>1. evidence' = evidence /\ buffers' = [p \in Persons |-> NoBuffer]
    BY <1>6 DEF Restart, output
  <2>2. \A e \in evidence : \E g \in Groups :
          g = e.payload.group /\ g.owner = e.person /\ Past(g)'
    <3>1. \A e \in evidence : e.payload.group \in Groups
      BY <1>0 DEF TypeOK, OutputTypeOK, Payloads
    <3>2. QED
      BY <1>0, <1>6, <3>1, PastSurvivesRestart DEF EvidenceInv, EvidencePast
  <2>3. QED
    BY <1>0, <2>1, <2>2 DEF EvidenceInv, BuffersPast, EvidencePast, LiveNotShown,
                            OneEvidencePerVisit, Past, Live
<1>7. QED
  BY <1>1, <1>2, <1>3, <1>4, <1>5, <1>6 DEF Next

(* The evidence of a visit is handed out once, with either state store:    *)
(* whether the process dies between publishing and saving, a write fails   *)
(* and an old state is evaluated again, the state expires under the        *)
(* buffers, or the buffers are lost under the state.                       *)
THEOREM EvidenceHandedOnce == Spec => []OneEvidencePerVisit
<1>1. Init => EvidenceInv
  <2>1. ASSUME Init
        PROVE  TypeOK
    BY <2>1 DEF Init, TypeOK, ProcessTypeOK, StateTypeOK, OutputTypeOK, HistoryTypeOK
  <2>2. QED
    BY <2>1 DEF Init, EvidenceInv, BuffersPast, EvidencePast, LiveNotShown, OneEvidencePerVisit, Live
<1>2. EvidenceInv /\ [Next]_vars => EvidenceInv'
  <2>1. ASSUME EvidenceInv, UNCHANGED vars
        PROVE  EvidenceInv'
    <3>1. TypeOK'
      BY <2>1 DEF vars, process, output, history, EvidenceInv, TypeOK, ProcessTypeOK, StateTypeOK,
                  OutputTypeOK, HistoryTypeOK
    <3>2. QED
      BY <2>1, <3>1 DEF vars, process, output, EvidenceInv, BuffersPast, EvidencePast, LiveNotShown,
                        OneEvidencePerVisit, Past, Live
  <2>2. QED
    BY <2>1, EvidenceStep
<1>3. EvidenceInv => OneEvidencePerVisit
  BY DEF EvidenceInv
<1>4. QED
  BY <1>1, <1>2, <1>3, PTL DEF Spec

----------------------------------------------------------------------------
(* Evidence of one visit is not published as that of another *)

(* A live buffer and an open visit of one person are of the same group.    *)
(* With Redis either may be there without the other.                       *)
Matching(ps, buf) == IsOpen(ps) /\ Live(buf) => ps.group = buf.group

(* A settled record that has been moved to its next state and is about to  *)
(* be evaluated.  A pending exit survives a return to the sink only if the *)
(* buffer of the visit is still there.                                     *)
Ready(ps, buf) ==
  /\ ps.confirmed <=> ps.current = NOT_WASHED
  /\ ps.current = WASHED => ~HasGroup(ps)
  /\ ps.pending # None => HasGroup(ps)
  /\ ps.current \in Terminal => ps.pending = None
  /\ ps.current = NEAR_SINK_NOT_WASHING /\ ps.pending # None => Live(buf)
  /\ ps.group = None => Cleared(ps)

(* The moved record continues the visit of the stored one, or it is fresh: *)
(* then it has no group, counts no frame at the sink yet and is not        *)
(* washing.                                                                *)
Continues(next, ps) ==
  \/ /\ HasGroup(next) <=> ps # NoPerson /\ HasGroup(ps)
     /\ HasGroup(next) => next.group = ps.group /\ next.confirmed = ps.confirmed
  \/ ~HasGroup(next) /\ next.absence = 0 /\ next.current # WASHING

(* Loading, noting the frame, starting a fresh visit and moving to the     *)
(* next state make a stored record ready.                                  *)
LEMMA StoredIsReady ==
  ASSUME NEW ps \in PersonRecords, NEW buf \in Buffers \cup {NoBuffer}, NEW obs,
         NEW t \in Nat, NEW f, obs.real => f \in Nat, ps # NoPerson => Settled(ps)
  PROVE  /\ MovedRecord(ps, buf, obs, t, f) \in PersonStates
         /\ Ready(MovedRecord(ps, buf, obs, t, f), buf)
         /\ Continues(MovedRecord(ps, buf, obs, t, f), ps)
<1> DEFINE seen == Seen(Loaded(ps, t), obs, f)
           base == VisitState(seen, buf, obs, t)
           new  == NextState(seen.current, obs)
           next == UpdateState(base, new, t)
<1>1. InitialPersonState(t) \in PersonStates
  BY InitialType
<1>2. /\ Loaded(ps, t) \in PersonStates /\ Settled(Loaded(ps, t))
      /\ HasGroup(Loaded(ps, t)) <=> ps # NoPerson /\ HasGroup(ps)
      /\ ps # NoPerson => Loaded(ps, t) = ps
  <2>1. CASE ps = NoPerson
    BY <1>1, <2>1, Distinct DEF Loaded, Settled, HasGroup, InitialPersonState
  <2>2. CASE ps # NoPerson
    BY <2>2 DEF Loaded, PersonRecords
  <2>3. QED
    BY <2>1, <2>2
<1>3. /\ seen \in PersonStates /\ Settled(seen)
      /\ HasGroup(seen) <=> ps # NoPerson /\ HasGroup(ps)
      /\ HasGroup(seen) => seen.group = ps.group /\ seen.confirmed = ps.confirmed
  BY <1>2 DEF Seen, PersonStates, Settled, Cleared, HasGroup
<1> HIDE DEF seen
<1>4. /\ seen.current \in HandwashState /\ new \in HandwashState
      /\ base \in PersonStates
  <2>1. [InitialPersonState(t) EXCEPT !.lastFrame = seen.lastFrame] \in PersonStates
    BY <1>1, <1>3 DEF PersonStates
  <2>2. QED
    BY <1>3, <2>1, NextStateType DEF PersonStates, VisitState
<1>5. /\ next \in PersonStates /\ next.current = new
      /\ next.confirmed = base.confirmed /\ next.group = base.group
      /\ next.pending = base.pending /\ next.absence = base.absence
      /\ Cleared(base) /\ new = base.current => Cleared(next)
  BY <1>4, UpdateType, UpdateFields
<1> SUFFICES Ready(next, buf) /\ Continues(next, ps)
  BY <1>5 DEF seen, MovedRecord
<1> HIDE DEF base, new, next
<1>6. CASE OpensFreshVisit(seen, buf, obs)
  <2>1. base = [InitialPersonState(t) EXCEPT !.lastFrame = seen.lastFrame]
    BY <1>6 DEF VisitState, base
  <2>2. base.confirmed = FALSE /\ base.group = Missing /\ base.pending = None /\ base.absence = 0
    BY <1>1, <2>1 DEF InitialPersonState, PersonStates
  <2>3. new \in {NOT_NEAR_SINK, NEAR_SINK_NOT_WASHING}
    BY <1>6 DEF OpensFreshVisit, StartsNewVisit, NextState, new
  <2>4. QED
    BY <1>5, <2>2, <2>3, Distinct DEF Ready, Continues, HasGroup
<1>7. CASE ~OpensFreshVisit(seen, buf, obs)
  <2>1. base = seen
    BY <1>7 DEF VisitState, base
  <2>2. seen.current \in Terminal => new = seen.current
    BY <1>3, <1>7 DEF OpensFreshVisit, StartsNewVisit, NextState, Settled, new
  <2>3. seen.current \notin Terminal => new \notin Terminal
    BY DEF NextState, new
  <2>4. seen.group = None => new = seen.current
    BY <1>3, <1>7 DEF OpensFreshVisit, StartsNewVisit, NextState, Settled, Cleared, HasGroup, new
  <2>5. new = NEAR_SINK_NOT_WASHING /\ seen.pending # None => Live(buf)
    <3>1. ASSUME new = NEAR_SINK_NOT_WASHING, seen.pending # None
          PROVE  obs.inside
      BY <3>1 DEF NextState, new
    <3>2. seen.pending # None => seen.current = NOT_NEAR_SINK
      BY <1>3 DEF Settled
    <3>3. QED
      BY <1>7, <3>1, <3>2 DEF OpensFreshVisit, StartsNewVisit
  <2>6. Ready(next, buf)
    BY <1>3, <1>4, <1>5, <2>1, <2>2, <2>3, <2>4, <2>5 DEF Ready, Settled, HasGroup
  <2>7. Continues(next, ps)
    BY <1>3, <1>5, <2>1 DEF Continues, HasGroup
  <2>8. QED
    BY <2>6, <2>7
<1>8. QED
  BY <1>6, <1>7

(* What the evaluation of a record leaves: a settled record that goes with *)
(* the buffer, whether it is saved or the old record stays, and a package  *)
(* only of the group it will be published under.                           *)
Unmixed(ps, res) ==
  /\ res.person # NoPerson => Settled(res.person)
  /\ Matching(res.person, res.buffer)
  /\ Matching(ps, res.buffer)
  /\ res.evidence # NoEvidence =>
       res.person.group = Missing \/ res.person.group = res.evidence.group

(* A result without a verdict. *)
LEMMA KeepUnmixed ==
  ASSUME NEW ps, NEW next, NEW buf, next # NoPerson => Settled(next), Matching(next, buf),
         Matching(ps, buf)
  PROVE  Unmixed(ps, Keep(next, buf))
BY DEF Keep, Unmixed

(* A verdict on a record that waits for nothing. *)
LEMMA VerdictUnmixed ==
  ASSUME NEW old, NEW ps \in PersonStates, NEW buf \in Buffers \cup {NoBuffer}, NEW t \in Nat,
         Matching(ps, buf), ~ps.confirmed, ps.pending = None, ps.group # None
  PROVE  Unmixed(old, Verdict(ps, buf, t))
<1> USE DEF PersonStates, ResetVisit
<1>1. Unmixed(old, CompliantExit(ps))
  <2>1. /\ CompliantExit(ps).person.current = WASHED
        /\ CompliantExit(ps).person.group = None
        /\ CompliantExit(ps).person.confirmed = FALSE
        /\ CompliantExit(ps).person.pending = None
        /\ CompliantExit(ps).buffer = NoBuffer
        /\ CompliantExit(ps).evidence = NoEvidence
    BY DEF CompliantExit, DiscardBuffer
  <2>2. QED
    BY <2>1 DEF Unmixed, Settled, Cleared, Matching, HasGroup, Live
<1>2. Unmixed(old, ConfirmViolation(ps, buf))
  <2> DEFINE res == ConfirmViolation(ps, buf)
  <2>1. /\ res.person.current = NOT_WASHED
        /\ res.person.group = ps.group
        /\ res.person.confirmed = TRUE
        /\ res.person.pending = None
    BY DEF ConfirmViolation
  <2>2. ~Live(res.buffer)
    BY Distinct, LiveType DEF ConfirmViolation, Live, Buffers
  <2>3. res.evidence # NoEvidence => Live(buf) /\ res.evidence.group = buf.group
    BY DEF ConfirmViolation
  <2>4. HasGroup(ps) \/ ps.group = Missing
    BY DEF HasGroup
  <2>5. HasGroup(ps) => IsOpen(ps)
    BY Distinct DEF IsOpen
  <2> HIDE DEF res
  <2>6. QED
    BY <2>1, <2>2, <2>3, <2>4, <2>5 DEF Unmixed, Settled, Cleared, Matching, IsOpen, res
<1>3. QED
  BY <1>1, <1>2 DEF Verdict

(* Away from the sink. *)
LEMMA ZoneExitUnmixed ==
  ASSUME NEW old, NEW ps \in PersonStates, NEW buf \in Buffers \cup {NoBuffer}, NEW t \in Nat,
         Ready(ps, buf), Matching(ps, buf), Matching(old, buf), ps.current = NOT_NEAR_SINK
  PROVE  Unmixed(old, HandleZoneExit(ps, buf, t))
<1> DEFINE waiting == [ps EXCEPT !.pending = t]
           stale   == ResetVisit([ps EXCEPT !.pending = None, !.group = None])
           over    == [ps EXCEPT !.pending = None]
<1>1. ~ps.confirmed
  BY DEF Ready
<1>2. /\ ResetVisit(ps) \in PersonStates
      /\ waiting \in PersonStates
      /\ stale \in PersonStates
      /\ over \in PersonStates
  BY DEF PersonStates, ResetVisit, GroupIds
<1>3. CASE ~HasGroup(ps) /\ ~ApproachedSink(ps, t)
  <2>1. Settled(ResetVisit(ps)) /\ Matching(ResetVisit(ps), buf)
    BY <1>1, <1>3, Distinct DEF Ready, Settled, Cleared, Matching, IsOpen, HasGroup, ResetVisit,
                                PersonStates
  <2>2. QED
    BY <1>1, <1>3, <2>1, KeepUnmixed DEF HandleZoneExit
<1>4. CASE ~HasGroup(ps) /\ ApproachedSink(ps, t)
  <2>1. ps.pending = None /\ ps.group # None
    BY <1>4 DEF Ready, Cleared, ApproachedSink, WashingDuration, AtSinkDuration, PersonStates
  <2>2. QED
    BY <1>1, <1>4, <2>1, VerdictUnmixed DEF HandleZoneExit
<1>5. CASE HasGroup(ps) /\ ps.pending = None
  <2>1. t # None
    BY SpecialValues
  <2>2. Settled(waiting) /\ Matching(waiting, buf)
    BY <1>1, <1>5, <2>1, Distinct DEF Ready, Settled, Matching, IsOpen, HasGroup, PersonStates
  <2>3. Unmixed(old, Keep(waiting, buf))
    BY <2>2, KeepUnmixed
  <2>4. QED
    BY <1>1, <1>5, <2>3 DEF HandleZoneExit
<1>6. CASE HasGroup(ps) /\ ps.pending # None
  <2>1. Unmixed(old, Keep(stale, NoBuffer))
    <3>1. Settled(stale) /\ Matching(stale, NoBuffer) /\ Matching(old, NoBuffer)
      BY <1>1, Distinct DEF Settled, Cleared, Matching, HasGroup, Live, ResetVisit, PersonStates
    <3>2. QED
      BY <3>1, KeepUnmixed
  <2>2. Unmixed(old, Keep(ps, buf))
    <3>1. Settled(ps)
      BY <1>1, <1>6 DEF Ready, Settled, HasGroup
    <3>2. QED
      BY <3>1, KeepUnmixed
  <2>3. Unmixed(old, Verdict(over, buf, t))
    <3>1. /\ Matching(over, buf) /\ ~over.confirmed /\ over.pending = None
          /\ over.group # None
      BY <1>1, <1>2, <1>6, Distinct DEF Matching, IsOpen, HasGroup, PersonStates
    <3>2. QED
      BY <1>2, <3>1, VerdictUnmixed
  <2>4. QED
    BY <1>1, <1>6, <2>1, <2>2, <2>3 DEF HandleZoneExit
<1>7. QED
  BY <1>3, <1>4, <1>5, <1>6

(* Taking frames does not change what goes with what. *)
LEMMA AddMatches ==
  ASSUME NEW ps, NEW buf \in Buffers \cup {NoBuffer}, NEW t \in Nat, Matching(ps, buf)
  PROVE  /\ Matching(ps, AddIfLive(buf, t))
         /\ Live(buf) => Matching(ps, BufferAdd(buf, t))
BY AddHands DEF Matching, AddIfLive

(* At the sink with confirmed washing: a group is given only to someone    *)
(* whose stored record has no open visit.                                  *)
LEMMA WashingUnmixed ==
  ASSUME NEW old, NEW ps \in PersonStates, NEW buf \in Buffers \cup {NoBuffer}, NEW t \in Nat,
         NEW fresh \in Groups, Ready(ps, buf), Matching(ps, buf), Matching(old, buf),
         ps.current = WASHING, HasGroup(ps) \/ ~IsOpen(old)
  PROVE  Unmixed(old, HandleWashingActive(ps, buf, fresh, t))
<1> DEFINE open   == [ps EXCEPT !.pending = None, !.absence = 0]
           opened == [open EXCEPT !.group = fresh]
           new    == BufferAdd(NewBuffer(fresh), t)
<1>1. ~ps.confirmed
  BY DEF Ready
<1>2. /\ open \in PersonStates /\ opened \in PersonStates
      /\ open.current = WASHING /\ open.group = ps.group
      /\ open.pending = None /\ open.confirmed = FALSE
      /\ opened.current = WASHING /\ opened.group = fresh
      /\ opened.pending = None /\ opened.confirmed = FALSE
  BY <1>1 DEF PersonStates, GroupIds
<1> HIDE DEF open
<1>3. CASE HasGroup(ps)
  <2>1. Settled(open)
    BY <1>2, <1>3 DEF Settled, HasGroup
  <2>2. Matching(open, buf)
    BY <1>1, <1>2, Distinct DEF Matching, IsOpen, HasGroup
  <2>3. Unmixed(old, Keep(open, AddIfLive(buf, t)))
    BY <2>1, <2>2, AddMatches, KeepUnmixed
  <2>4. QED
    BY <1>3, <2>3 DEF HandleWashingActive, open
<1>4. CASE ~HasGroup(ps)
  <2>1. new.group = fresh
    BY OpenedType
  <2> HIDE DEF opened, new
  <2>2. Settled(opened)
    BY <1>2, Distinct DEF Settled, HasGroup
  <2>3. Matching(opened, new) /\ Matching(old, new)
    BY <1>2, <1>4, <2>1 DEF Matching
  <2>4. Unmixed(old, Keep(opened, new))
    BY <2>2, <2>3, KeepUnmixed
  <2>5. QED
    BY <1>4, <2>4 DEF HandleWashingActive, open, opened, new
<1>5. QED
  BY <1>3, <1>4

(* At the sink, not washing: an entry is debounced for more than one frame, *)
(* so that a fresh record gets no group yet.                               *)
LEMMA NearSinkUnmixed ==
  ASSUME MinEntry >= 2,
         NEW old, NEW ps \in PersonStates, NEW buf \in Buffers \cup {NoBuffer}, NEW t \in Nat,
         NEW fresh \in Groups, Ready(ps, buf), Matching(ps, buf), Matching(old, buf),
         ps.current = NEAR_SINK_NOT_WASHING,
         HasGroup(ps) \/ ps.absence = 0 \/ ~IsOpen(old)
  PROVE  Unmixed(old, HandleNearSinkNotWashing(ps, buf, fresh, t))
<1> DEFINE back    == [ps EXCEPT !.pending = None, !.absence = 0]
           counted == [ps EXCEPT !.absence = ps.absence + 1]
           opened  == [counted EXCEPT !.group = fresh]
           new     == BufferAdd(NewBuffer(fresh), t)
<1>1. ~ps.confirmed /\ ps.group # None
  BY DEF Ready, Cleared
<1>2. ps.pending # None => Live(buf)
  BY DEF Ready
<1>3. CASE ps.pending # None
  <2>1. /\ back \in PersonStates /\ back.current = ps.current /\ back.group = ps.group
        /\ back.pending = None /\ back.confirmed = FALSE
    BY <1>1 DEF PersonStates
  <2> HIDE DEF back
  <2>2. Settled(back)
    BY <1>1, <2>1 DEF Settled
  <2>3. Matching(back, buf)
    BY <1>1, <2>1, Distinct DEF Matching, IsOpen, HasGroup
  <2>4. Unmixed(old, Keep(back, BufferAdd(buf, t)))
    BY <1>2, <1>3, <2>2, <2>3, AddMatches, KeepUnmixed
  <2>5. QED
    BY <1>1, <1>2, <1>3, <2>4 DEF HandleNearSinkNotWashing, back
<1>4. CASE ps.pending = None /\ HasGroup(ps)
  <2>1. Settled(ps)
    BY <1>1, <1>4 DEF Settled
  <2>2. Unmixed(old, Keep(ps, AddIfLive(buf, t)))
    BY <2>1, AddMatches, KeepUnmixed
  <2>3. QED
    BY <1>1, <1>4, <2>2 DEF HandleNearSinkNotWashing
<1>5. CASE ps.pending = None /\ ~HasGroup(ps)
  <2>1. /\ counted \in PersonStates /\ counted.current = ps.current /\ counted.group = ps.group
        /\ counted.pending = None /\ counted.confirmed = FALSE
        /\ counted.absence = ps.absence + 1
    BY <1>1, <1>5 DEF PersonStates
  <2>2. /\ opened.current = ps.current /\ opened.group = fresh
        /\ opened.pending = None /\ opened.confirmed = FALSE
    BY <1>1, <1>5 DEF PersonStates
  <2>3. HandleNearSinkNotWashing(ps, buf, fresh, t) =
          IF counted.absence < MinEntry THEN Keep(counted, buf) ELSE Keep(opened, new)
    BY <1>1, <1>5 DEF HandleNearSinkNotWashing, DebounceEntry
  <2>4. new.group = fresh
    BY OpenedType
  <2> HIDE DEF counted, opened, new
  <2>5. Unmixed(old, Keep(counted, buf))
    <3>1. Settled(counted) /\ Matching(counted, buf)
      BY <1>1, <1>5, <2>1 DEF Settled, Matching, IsOpen, HasGroup
    <3>2. QED
      BY <3>1, KeepUnmixed
  <2>6. ASSUME ~(counted.absence < MinEntry)
        PROVE  Unmixed(old, Keep(opened, new))
    <3>1. ps.absence # 0
      <4>1. ps.absence \in Nat /\ MinEntry \in Nat
        BY RuleConfigOK DEF PersonStates
      <4>2. QED
        BY <2>1, <2>6, <4>1
    <3>2. ~IsOpen(old)
      BY <1>5, <3>1
    <3>3. Settled(opened)
      BY <2>2, Distinct DEF Settled, HasGroup
    <3>4. Matching(opened, new) /\ Matching(old, new)
      BY <2>2, <2>4, <3>2 DEF Matching
    <3>5. QED
      BY <3>3, <3>4, KeepUnmixed
  <2>7. QED
    BY <2>3, <2>5, <2>6
<1>6. QED
  BY <1>3, <1>4, <1>5

(* One person in one frame, from the stored record to the result. *)
LEMMA EvaluatePersonUnmixed ==
  ASSUME MinEntry >= 2,
         NEW ps \in PersonRecords, NEW buf \in Buffers \cup {NoBuffer}, NEW obs,
         NEW t \in Nat, NEW f, obs.real => f \in Nat, ps # NoPerson => Settled(ps),
         Matching(ps, buf), NEW fresh \in Groups
  PROVE  Unmixed(ps, EvaluatePerson(ps, buf, obs, fresh, t, f))
<1> DEFINE next == MovedRecord(ps, buf, obs, t, f)
           res  == Evaluate(next, buf, fresh, t)
<1>1. next \in PersonStates /\ Ready(next, buf) /\ Continues(next, ps)
  BY StoredIsReady
<1>2. EvaluatePerson(ps, buf, obs, fresh, t, f) = res
  BY DEF EvaluatePerson, MovedRecord
<1> HIDE DEF next
<1>3. Matching(next, buf)
  BY <1>1 DEF Continues, Matching, IsOpen
<1>4. \/ HasGroup(next)
      \/ next.absence = 0 /\ next.current # WASHING
      \/ ~IsOpen(ps)
  BY <1>1 DEF Continues, IsOpen
<1>5. Unmixed(ps, res)
  <2>1. CASE next.current \in Terminal
    <3>1. Settled(next)
      BY <1>1, <2>1 DEF Ready, Settled
    <3>2. Unmixed(ps, Keep(next, buf))
      BY <1>3, <3>1, KeepUnmixed
    <3>3. QED
      BY <2>1, <3>2 DEF Evaluate
  <2>2. CASE next.current = NOT_NEAR_SINK
    BY <1>1, <1>3, <2>2, ZoneExitUnmixed DEF Evaluate
  <2>3. CASE next.current = WASHING
    BY <1>1, <1>3, <1>4, <2>3, WashingUnmixed DEF Evaluate
  <2>4. CASE next.current = NEAR_SINK_NOT_WASHING
    BY <1>1, <1>3, <1>4, <2>4, NearSinkUnmixed DEF Evaluate
  <2>5. QED
    BY <1>1, <2>1, <2>2, <2>3, <2>4 DEF PersonStates, HandwashState
<1>6. QED
  BY <1>2, <1>5

StoredSettled == \A p \in Persons : store[p] # NoPerson => Settled(store[p])

(* While the process goes on.  (After a death inside an event the buffers  *)
(* no longer matter.)                                                      *)
BuffersMatch == phase # "stopped" => \A p \in Persons : Matching(store[p], buffers[p])

MixInv ==
  /\ TypeOK
  /\ StoredSettled
  /\ BuffersMatch
  /\ EvidenceNotMixed

(* What is read from the store is settled and goes with the buffers, also  *)
(* when it has expired.                                                    *)
LEMMA ZoneMatches ==
  ASSUME MixInv, phase # "stopped", NEW t, NEW p \in Persons
  PROVE  /\ ZoneState(t)[p] \in PersonRecords
         /\ ZoneState(t)[p] # NoPerson => Settled(ZoneState(t)[p])
         /\ Matching(ZoneState(t)[p], buffers[p])
<1>1. ZoneState(t)[p] = store[p] \/ ZoneState(t)[p] = NoPerson
  BY DEF ZoneState
<1>2. QED
  BY <1>1 DEF MixInv, TypeOK, StateTypeOK, StoredSettled, BuffersMatch, Matching, IsOpen, PersonRecords

(* The results of an event, for everyone. *)
LEMMA ResultsUnmixed ==
  ASSUME MinEntry >= 2, MixInv, phase # "stopped", NEW sights \in [Persons -> Sightings],
         NEW t \in Nat, NEW f, NEW by \in {"process", "flush"},
         \A p \in Persons : sights[p] # "unseen" => f \in Nat, NEW p \in Persons
  PROVE  Unmixed(ZoneState(t)[p], Results(sights, ZoneState(t), t, f, by)[p])
<1> DEFINE zone  == ZoneState(t)
           fresh == FreshGroup(p, Stamp(t, by))
           obs   == ObservationOf(sights[p], zone[p], f)
<1>1. fresh \in Groups
  BY StampType DEF FreshGroup, Groups, MixInv
<1>2. /\ zone[p] \in PersonRecords /\ buffers[p] \in Buffers \cup {NoBuffer}
      /\ zone[p] # NoPerson => Settled(zone[p])
      /\ Matching(zone[p], buffers[p])
  BY ZoneMatches DEF MixInv, TypeOK, StateTypeOK
<1>3. obs.real => f \in Nat
  BY DEF ObservationOf
<1>4. Results(sights, zone, t, f, by)[p] =
        IF HasObservation(sights[p], zone[p], f)
        THEN EvaluatePerson(zone[p], buffers[p], obs, fresh, t, f)
        ELSE Keep(zone[p], buffers[p])
  BY DEF Results, FreshGroup
<1> HIDE DEF fresh, obs, zone
<1>5. Unmixed(zone[p], EvaluatePerson(zone[p], buffers[p], obs, fresh, t, f))
  BY <1>1, <1>2, <1>3, EvaluatePersonUnmixed
<1>6. Unmixed(zone[p], Keep(zone[p], buffers[p]))
  BY <1>2, KeepUnmixed
<1>7. Unmixed(zone[p], Results(sights, zone, t, f, by)[p])
  BY <1>4, <1>5, <1>6
<1>8. QED
  BY <1>7 DEF zone

(* The packages an event shows are published under their own group.        *)
LEMMA ShownUnmixed ==
  ASSUME MixInv, NEW res, NEW made, NEW shown \in SUBSET Persons, NEW zone,
         \A p \in Persons : Unmixed(zone[p], res[p]),
         evidence' = evidence \cup {EvidenceOf(res, made, p) : p \in Packed(res, shown)}
  PROVE  EvidenceNotMixed'
<1>1. ASSUME NEW p \in Packed(res, shown)
      PROVE  EvidenceOf(res, made, p).group \in {EvidenceOf(res, made, p).payload.group, Unknown}
  <2>1. p \in Persons /\ res[p].evidence # NoEvidence
    BY DEF Packed
  <2>2. res[p].person.group = Missing \/ res[p].person.group = res[p].evidence.group
    BY <2>1 DEF Unmixed
  <2>3. QED
    BY <2>2 DEF EvidenceOf, PublishedGroup
<1>2. QED
  BY <1>1 DEF MixInv, EvidenceNotMixed

(* A completed event, saved or not, keeps the invariant. *)
LEMMA CompleteUnmixed ==
  ASSUME MinEntry >= 2, MixInv, TypeOK', phase # "stopped", NEW sights \in [Persons -> Sightings],
         NEW t \in Nat, NEW f, NEW by \in {"process", "flush"}, NEW writes,
         \A p \in Persons : sights[p] # "unseen" => f \in Nat,
         Complete(sights, t, f, by, writes)
  PROVE  MixInv'
<1> DEFINE zone == ZoneState(t)
           res  == Results(sights, zone, t, f, by)
<1>1. \A p \in Persons : Unmixed(zone[p], res[p])
  BY ResultsUnmixed
<1>2. PICK made : made = Stamp(t, by)
  OBVIOUS
<1>3. /\ evidence' = evidence \cup {EvidenceOf(res, made, p) : p \in Packed(res, Violators(res))}
      /\ buffers' = [p \in Persons |-> res[p].buffer]
      /\ store' = zone \/ store' = [p \in Persons |-> res[p].person]
  BY <1>2 DEF Complete, Publish, EvidenceOf, Packed, Save
<1>4. Violators(res) \in SUBSET Persons
  BY DEF Violators
<1>5. \A p \in Persons : zone[p] # NoPerson => Settled(zone[p])
  BY ZoneMatches
<1> HIDE DEF res, zone
<1>6. EvidenceNotMixed'
  BY <1>1, <1>3, <1>4, ShownUnmixed
<1>7. \A p \in Persons :
        /\ store'[p] # NoPerson => Settled(store'[p])
        /\ Matching(store'[p], buffers'[p])
  BY <1>1, <1>3, <1>5 DEF Unmixed
<1>8. StoredSettled' /\ BuffersMatch'
  BY <1>7 DEF StoredSettled, BuffersMatch, Settled, Cleared, HasGroup, Matching, IsOpen, Live
<1>9. QED
  BY <1>6, <1>8 DEF MixInv

(* Every step keeps the invariant. *)
LEMMA MixStep ==
  ASSUME MinEntry >= 2, MixInv, Next
  PROVE  MixInv'
<1>0. TypeOK /\ TypeOK'
  BY TypeStep DEF MixInv
<1>1. ASSUME NEW sights \in [Persons -> Sightings], NEW df \in 1..MaxSkip,
             NEW dt \in df..MaxGap, Process(sights, df, dt)
      PROVE  MixInv'
  <2>1. PICK writes \in WriteOutcomes :
          Complete(sights, now + dt, frame + df, "process", writes)
    BY <1>1 DEF Process
  <2>2. now + dt \in Nat /\ frame + df \in Nat /\ phase # "stopped"
    BY <1>0, <1>1, ArrivesType DEF Process, Arrives
  <2>3. QED
    BY <1>0, <2>1, <2>2, CompleteUnmixed
<1>2. ASSUME NEW sights \in [Persons -> Sightings], NEW df \in 1..MaxSkip,
             NEW dt \in df..MaxGap, DieMidFrame(sights, df, dt)
      PROVE  MixInv'
  <2> DEFINE t    == now + dt
             zone == ZoneState(t)
             res  == Results(sights, zone, t, frame + df, "process")
  <2>1. PICK made : made = Stamp(t, "process")
    OBVIOUS
  <2>2. t \in Nat /\ frame + df \in Nat /\ phase # "stopped" /\ phase' = "stopped"
    BY <1>0, <1>2, ArrivesType DEF DieMidFrame, Arrives
  <2>3. PICK shown \in SUBSET Persons :
          evidence' = evidence \cup {EvidenceOf(res, made, p) : p \in Packed(res, shown)}
    <3>1. PICK done \in SUBSET Persons, shown \in SUBSET Persons :
            Publish(res, made, Violators(res) \cap (done \cup shown), Violators(res) \cap done)
      BY <1>2, <2>1 DEF DieMidFrame
    <3>2. Violators(res) \cap (done \cup shown) \in SUBSET Persons
      OBVIOUS
    <3> HIDE DEF res
    <3>3. QED
      BY <3>1, <3>2 DEF Publish, EvidenceOf, Packed
  <2>4. \A p \in Persons : Unmixed(zone[p], res[p])
    BY <2>2, ResultsUnmixed
  <2>5. store' = zone /\ \A p \in Persons : zone[p] # NoPerson => Settled(zone[p])
    BY <1>2, <2>2, ZoneMatches DEF DieMidFrame
  <2> HIDE DEF res, zone
  <2>6. EvidenceNotMixed'
    BY <2>3, <2>4, ShownUnmixed
  <2>7. StoredSettled'
    BY <2>5 DEF StoredSettled, Settled, Cleared, HasGroup
  <2>8. QED
    BY <1>0, <2>2, <2>6, <2>7 DEF MixInv, BuffersMatch
<1>3. ASSUME NEW df \in 1..MaxSkip, NEW dt \in df..MaxGap, ProcessReadFails(df, dt)
      PROVE  MixInv'
  <2> DEFINE zone == ZoneState(now + dt)
  <2>1. store' = zone /\ buffers' = buffers /\ evidence' = evidence /\ phase # "stopped"
    BY <1>3 DEF ProcessReadFails, Arrives, output
  <2>2. \A p \in Persons : /\ zone[p] # NoPerson => Settled(zone[p])
                           /\ Matching(zone[p], buffers[p])
    BY <2>1, ZoneMatches
  <2> HIDE DEF zone
  <2>3. QED
    BY <1>0, <2>1, <2>2 DEF MixInv, StoredSettled, BuffersMatch, EvidenceNotMixed, Settled, Cleared,
                            HasGroup, Matching, IsOpen, Live
<1>4. ASSUME Flush
      PROVE  MixInv'
  <2>1. phase = "streaming" /\ phase' = "stopped" /\ now \in Nat
    BY <1>0, <1>4 DEF Flush, TypeOK, ProcessTypeOK
  <2>2. CASE \A p \in Persons : ZoneState(now)[p] = NoPerson
    <3>1. store' = store /\ evidence' = evidence
      BY <1>4, <2>2 DEF Flush, output
    <3>2. QED
      BY <1>0, <2>1, <3>1 DEF MixInv, StoredSettled, BuffersMatch, EvidenceNotMixed, Settled, Cleared,
                              HasGroup
  <2>3. CASE ~\A p \in Persons : ZoneState(now)[p] = NoPerson
    <3> DEFINE sights == [p \in Persons |-> "unseen"]
    <3>1. PICK writes \in WriteOutcomes :
            Complete(sights, now, FlushFrame(ZoneState(now)), "flush", writes)
      BY <1>4, <2>3 DEF Flush
    <3>2. sights \in [Persons -> Sightings] /\ \A p \in Persons : sights[p] = "unseen"
      BY DEF Sightings
    <3> HIDE DEF sights
    <3>3. QED
      BY <1>0, <2>1, <3>1, <3>2, CompleteUnmixed
  <2>4. QED
    BY <2>2, <2>3
<1>5. ASSUME Die
      PROVE  MixInv'
  BY <1>0, <1>5 DEF Die, output, MixInv, StoredSettled, BuffersMatch, EvidenceNotMixed, Settled,
                    Cleared, HasGroup
<1>6. ASSUME NEW back \in 0..MaxStepBack, Restart(back)
      PROVE  MixInv'
  <2>1. /\ evidence' = evidence /\ buffers' = [p \in Persons |-> NoBuffer]
        /\ store' = store \/ store' = [p \in Persons |-> NoPerson]
    BY <1>6 DEF Restart, output
  <2>2. StoredSettled'
    BY <2>1 DEF MixInv, StoredSettled, Settled, Cleared, HasGroup
  <2>3. BuffersMatch'
    BY <2>1 DEF BuffersMatch, Matching, Live
  <2>4. QED
    BY <1>0, <2>1, <2>2, <2>3 DEF MixInv, EvidenceNotMixed
<1>7. QED
  BY <1>1, <1>2, <1>3, <1>4, <1>5, <1>6 DEF Next

(* The package published under the id of a visit is the buffer opened for  *)
(* that visit, whatever is lost: provided that an entry is debounced for   *)
(* at least two frames, as the constant in the code is.  (A visit opened   *)
(* in its first frame, whose record is not saved, would leave its buffer   *)
(* with the record of the visit before.)                                   *)
THEOREM EvidenceKeptApart ==
  ASSUME MinEntry >= 2
  PROVE  Spec => []EvidenceNotMixed
<1>1. Init => MixInv
  <2>1. ASSUME Init
        PROVE  TypeOK
    BY <2>1 DEF Init, TypeOK, ProcessTypeOK, StateTypeOK, OutputTypeOK, HistoryTypeOK
  <2>2. QED
    BY <2>1 DEF Init, MixInv, StoredSettled, BuffersMatch, EvidenceNotMixed, Matching, Live
<1>2. MixInv /\ [Next]_vars => MixInv'
  <2>1. ASSUME MixInv, UNCHANGED vars
        PROVE  MixInv'
    <3>1. TypeOK'
      BY <2>1 DEF vars, process, output, history, MixInv, TypeOK, ProcessTypeOK, StateTypeOK,
                  OutputTypeOK, HistoryTypeOK
    <3>2. QED
      BY <2>1, <3>1 DEF vars, process, output, MixInv, StoredSettled, BuffersMatch, EvidenceNotMixed,
                        Settled, Cleared, HasGroup, Matching, IsOpen, Live
  <2>2. QED
    BY <2>1, MixStep
<1>3. MixInv => EvidenceNotMixed
  BY DEF MixInv
<1>4. QED
  BY <1>1, <1>2, <1>3, PTL DEF Spec

----------------------------------------------------------------------------
(* No exit is left pending in the future *)

(* Every set of natural numbers that is not empty has a least element, by  *)
(* the well-founded order of the library.                                  *)
Below == {pair \in Nat \X Nat : pair[1] < pair[2]}

LEMMA BelowWellFounded == IsWellFoundedOn(Below, Nat)
<1>1. OpToRel(<, Nat) = Below
  BY DEF OpToRel, Below
<1>2. QED
  BY <1>1, NatLessThanWellFounded, Zenon

LEMMA LeastElement ==
  ASSUME NEW T \in SUBSET Nat, T # {}
  PROVE  \E m \in T : \A n \in T : m <= n
<1>1. PICK m \in T : \A n \in T : <<n, m>> \notin Below
  BY BelowWellFounded, WFMin, Zenon
<1>2. ASSUME NEW n \in T
      PROVE  m <= n
  <2>1. m \in Nat /\ n \in Nat /\ <<n, m>> \in Nat \X Nat
    OBVIOUS
  <2>2. ~(n < m)
    BY <1>1, <2>1 DEF Below
  <2>3. QED
    BY <2>1, <2>2
<1>3. QED
  BY <1>2

(* A set of frame numbers (or -1) up to some bound has a greatest element. *)
LEMMA GreatestElement ==
  ASSUME NEW B \in Nat, NEW T \in SUBSET (Nat \cup {-1}), T # {}, \A n \in T : n <= B
  PROVE  \E m \in T : \A n \in T : n <= m
<1> DEFINE gaps == {B - n : n \in T}
<1>1. gaps \in SUBSET Nat /\ gaps # {}
  <2>1. ASSUME NEW n \in T
        PROVE  B - n \in Nat
    <3>1. n \in Int /\ n <= B
      OBVIOUS
    <3>2. QED
      BY <3>1
  <2>2. QED
    BY <2>1
<1>2. \E g \in gaps : \A h \in gaps : g <= h
  <2> HIDE DEF gaps
  <2>1. QED
    BY <1>1, LeastElement
<1>3. PICK m \in T : \A h \in gaps : B - m <= h
  BY <1>2
<1>4. ASSUME NEW n \in T
      PROVE  n <= m
  <2>2. B - m <= B - n
    BY <1>3
  <2>3. n \in Int /\ m \in Int
    OBVIOUS
  <2>4. QED
    BY <2>2, <2>3
<1>5. QED
  BY <1>4

(* The event of a flush is past every record. *)
LEMMA FlushIsPast ==
  ASSUME NEW zone, \A p \in Persons : zone[p] \in PersonRecords, NEW B \in Nat,
         \A p \in Persons : zone[p] # NoPerson => zone[p].lastFrame <= B,
         NEW q \in Persons, zone[q] # NoPerson
  PROVE  FlushFrame(zone) >= zone[q].lastFrame
<1> DEFINE last == {zone[p].lastFrame : p \in {r \in Persons : zone[r] # NoPerson}}
           top  == CHOOSE m \in last : \A n \in last : n <= m
<1>1. last \in SUBSET (Nat \cup {-1}) /\ zone[q].lastFrame \in last
  BY DEF PersonRecords, PersonStates
<1>2. \A n \in last : n <= B
  OBVIOUS
<1>3. FlushFrame(zone) = top + MaxLostFrames + 1
  BY DEF FlushFrame
<1>4. top \in last /\ \A n \in last : n <= top
  <2> HIDE DEF last
  <2>1. last # {}
    BY <1>1
  <2>2. \E m \in last : \A n \in last : n <= m
    BY <1>1, <1>2, <2>1, GreatestElement
  <2>3. QED
    BY <2>2
<1>5. top \in Nat \cup {-1} /\ zone[q].lastFrame \in Nat \cup {-1} /\ zone[q].lastFrame <= top
  BY <1>1, <1>4
<1> HIDE DEF top
<1>6. QED
  BY <1>3, <1>5, EngineConfigOK

(* What the evaluation of a record leaves: a settled record of the same    *)
(* frame, with no pending exit after the time of the event.                *)
Punctual(ps, t, res) ==
  /\ Settled(res.person)
  /\ res.person.lastFrame = ps.lastFrame
  /\ res.person.pending # None => res.person.pending <= t

(* Away from the sink. *)
LEMMA ZoneExitPunctual ==
  ASSUME NEW ps \in PersonStates, NEW buf \in Buffers \cup {NoBuffer}, NEW t \in Nat,
         Ready(ps, buf), ps.current = NOT_NEAR_SINK
  PROVE  Punctual(ps, t, HandleZoneExit(ps, buf, t))
<1> DEFINE waiting == [ps EXCEPT !.pending = t]
           stale   == ResetVisit([ps EXCEPT !.pending = None, !.group = None])
           over    == [ps EXCEPT !.pending = None]
<1>0. /\ \A s, b : Keep(s, b).person = s
      /\ ps.pending \in Nat \cup {None} /\ ~ps.confirmed /\ t # None
  BY SpecialValues DEF Keep, Ready, PersonStates
<1>1. ASSUME NEW s \in PersonStates, s.pending = None, s.group # None, s.lastFrame = ps.lastFrame
      PROVE  Punctual(ps, t, Verdict(s, buf, t))
  <2>1. /\ CompliantExit(s).person.current = WASHED
        /\ CompliantExit(s).person.group = None
        /\ CompliantExit(s).person.confirmed = FALSE
        /\ CompliantExit(s).person.pending = None
        /\ CompliantExit(s).person.lastFrame = ps.lastFrame
        /\ Cleared(CompliantExit(s).person)
    BY <1>1 DEF CompliantExit, DiscardBuffer, ResetVisit, PersonStates, Cleared
  <2>2. /\ ConfirmViolation(s, buf).person.current = NOT_WASHED
        /\ ConfirmViolation(s, buf).person.group # None
        /\ ConfirmViolation(s, buf).person.confirmed = TRUE
        /\ ConfirmViolation(s, buf).person.pending = None
        /\ ConfirmViolation(s, buf).person.lastFrame = ps.lastFrame
    BY <1>1 DEF ConfirmViolation, ResetVisit, PersonStates
  <2>3. Punctual(ps, t, CompliantExit(s)) /\ Punctual(ps, t, ConfirmViolation(s, buf))
    BY <2>1, <2>2 DEF Punctual, Settled, HasGroup
  <2>4. QED
    BY <2>3 DEF Verdict
<1>2. CASE ~HasGroup(ps) /\ ~ApproachedSink(ps, t)
  <2>1. Settled(ResetVisit(ps)) /\ ResetVisit(ps).lastFrame = ps.lastFrame
        /\ ResetVisit(ps).pending = None
    BY <1>0, <1>2, Distinct DEF Ready, Settled, Cleared, HasGroup, ResetVisit, PersonStates
  <2>2. QED
    BY <1>0, <1>2, <2>1 DEF HandleZoneExit, Punctual
<1>3. CASE ~HasGroup(ps) /\ ApproachedSink(ps, t)
  <2>1. ps.pending = None /\ ps.group # None
    BY <1>3 DEF Ready, Cleared, ApproachedSink, WashingDuration, AtSinkDuration, PersonStates
  <2>2. QED
    BY <1>0, <1>1, <1>3, <2>1 DEF HandleZoneExit
<1>4. CASE HasGroup(ps) /\ ps.pending = None
  <2>1. Settled(waiting) /\ waiting.lastFrame = ps.lastFrame /\ waiting.pending = t
    BY <1>0, <1>4, Distinct DEF Ready, Settled, HasGroup, PersonStates
  <2>2. HandleZoneExit(ps, buf, t) = Keep(waiting, buf)
    BY <1>0, <1>4 DEF HandleZoneExit
  <2>3. waiting.pending <= t
    BY <2>1
  <2> HIDE DEF waiting
  <2>4. QED
    BY <1>0, <2>1, <2>2, <2>3 DEF Punctual
<1>5. CASE HasGroup(ps) /\ ps.pending # None
  <2>1. CASE t < ps.pending
    <3>1. Settled(stale) /\ stale.lastFrame = ps.lastFrame /\ stale.pending = None
      BY <1>0, Distinct DEF Settled, Cleared, HasGroup, ResetVisit, PersonStates
    <3>2. QED
      BY <1>0, <1>5, <2>1, <3>1 DEF HandleZoneExit, Punctual
  <2>2. CASE ~(t < ps.pending) /\ t - ps.pending < Cooldown
    <3>1. Settled(ps) /\ ps.pending <= t
      BY <1>0, <1>5, <2>2 DEF Ready, Settled, HasGroup
    <3>2. QED
      BY <1>0, <1>5, <2>2, <3>1 DEF HandleZoneExit, Punctual
  <2>3. CASE ~(t < ps.pending) /\ ~(t - ps.pending < Cooldown)
    <3>1. over \in PersonStates /\ over.pending = None /\ over.group # None
          /\ over.lastFrame = ps.lastFrame
      BY <1>5 DEF HasGroup, PersonStates
    <3>2. QED
      BY <1>0, <1>1, <1>5, <2>3, <3>1 DEF HandleZoneExit
  <2>4. QED
    BY <2>1, <2>2, <2>3
<1>6. QED
  BY <1>2, <1>3, <1>4, <1>5

(* At the sink no exit is left pending. *)
LEMMA AtSinkPunctual ==
  ASSUME NEW ps \in PersonStates, NEW buf \in Buffers \cup {NoBuffer}, NEW t \in Nat,
         NEW fresh \in Groups, Ready(ps, buf)
  PROVE  /\ ps.current = WASHING => Punctual(ps, t, HandleWashingActive(ps, buf, fresh, t))
         /\ ps.current = NEAR_SINK_NOT_WASHING =>
              Punctual(ps, t, HandleNearSinkNotWashing(ps, buf, fresh, t))
<1> DEFINE back    == [ps EXCEPT !.pending = None, !.absence = 0]
           washing == [back EXCEPT !.group = fresh]
           counted == [ps EXCEPT !.absence = ps.absence + 1]
           opened  == [counted EXCEPT !.group = fresh]
<1>0. \A s, b : Keep(s, b).person = s
  BY DEF Keep
<1>1. ASSUME ps.current = WASHING
      PROVE  Punctual(ps, t, HandleWashingActive(ps, buf, fresh, t))
  <2>1. ~ps.confirmed
    BY <1>1 DEF Ready
  <2>2. /\ HasGroup(ps) => Settled(back)
        /\ back.pending = None /\ back.lastFrame = ps.lastFrame
    BY <1>1, <2>1 DEF Settled, HasGroup, PersonStates
  <2>3. Settled(washing) /\ washing.pending = None /\ washing.lastFrame = ps.lastFrame
    BY <1>1, <2>1, Distinct DEF Settled, HasGroup, PersonStates
  <2>4. QED
    BY <1>0, <2>2, <2>3 DEF HandleWashingActive, Punctual
<1>2. ASSUME ps.current = NEAR_SINK_NOT_WASHING
      PROVE  Punctual(ps, t, HandleNearSinkNotWashing(ps, buf, fresh, t))
  <2>1. ~ps.confirmed /\ ps.group # None /\ (ps.pending # None => Live(buf) /\ HasGroup(ps))
    BY <1>2 DEF Ready, Cleared
  <2>2. CASE ps.pending # None
    <3>1. Settled(back) /\ back.pending = None /\ back.lastFrame = ps.lastFrame
      BY <1>2, <2>1, <2>2 DEF Settled, HasGroup, PersonStates
    <3>2. QED
      BY <1>0, <2>1, <2>2, <3>1 DEF HandleNearSinkNotWashing, Punctual
  <2>3. CASE ps.pending = None
    <3>1. Settled(ps)
      BY <1>2, <2>1, <2>3 DEF Settled
    <3>2. Settled(counted) /\ counted.pending = None /\ counted.lastFrame = ps.lastFrame
      BY <1>2, <2>1, <2>3 DEF Settled, HasGroup, PersonStates
    <3>3. Settled(opened) /\ opened.pending = None /\ opened.lastFrame = ps.lastFrame
      BY <1>2, <2>1, <2>3, Distinct DEF Settled, HasGroup, PersonStates
    <3>4. Punctual(ps, t, DebounceEntry(ps, buf, fresh, t))
      BY <1>0, <3>2, <3>3 DEF DebounceEntry, Punctual
    <3>5. Punctual(ps, t, Keep(ps, AddIfLive(buf, t)))
      BY <1>0, <2>3, <3>1 DEF Punctual
    <3>6. QED
      BY <2>1, <2>3, <3>4, <3>5 DEF HandleNearSinkNotWashing
  <2>4. QED
    BY <2>2, <2>3
<1>3. QED
  BY <1>1, <1>2

(* A record is of the frame in which the person was seen, or of the frame  *)
(* it was of before, or of none.                                           *)
FrameOf(ps, obs, f, n) ==
  \/ obs.real /\ n = f
  \/ n = -1
  \/ ps # NoPerson /\ n = ps.lastFrame

LEMMA MovedFrame ==
  ASSUME NEW ps \in PersonRecords, NEW buf \in Buffers \cup {NoBuffer}, NEW obs,
         NEW t \in Nat, NEW f, obs.real => f \in Nat
  PROVE  FrameOf(ps, obs, f, MovedRecord(ps, buf, obs, t, f).lastFrame)
<1> DEFINE seen == Seen(Loaded(ps, t), obs, f)
           base == VisitState(seen, buf, obs, t)
           new  == NextState(seen.current, obs)
<1>1. InitialPersonState(t) \in PersonStates /\ InitialPersonState(t).lastFrame = -1
  BY InitialType DEF InitialPersonState
<1>2. Loaded(ps, t) \in PersonStates
  BY <1>1 DEF Loaded, PersonRecords
<1>3. Loaded(ps, t).lastFrame = -1 \/ (ps # NoPerson /\ Loaded(ps, t).lastFrame = ps.lastFrame)
  BY <1>1 DEF Loaded
<1>4. /\ seen \in PersonStates
      /\ (obs.real /\ seen.lastFrame = f) \/ seen.lastFrame = Loaded(ps, t).lastFrame
  BY <1>2 DEF Seen, PersonStates
<1> HIDE DEF seen
<1>5. base \in PersonStates /\ base.lastFrame = seen.lastFrame
  BY <1>1, <1>4 DEF VisitState, PersonStates
<1>6. UpdateState(base, new, t).lastFrame = base.lastFrame
  BY <1>5, UpdateFields
<1>7. QED
  BY <1>3, <1>4, <1>5, <1>6 DEF MovedRecord, seen, FrameOf

(* One person in one frame. *)
LEMMA EvaluatePersonPunctual ==
  ASSUME NEW ps \in PersonRecords, NEW buf \in Buffers \cup {NoBuffer}, NEW obs,
         NEW t \in Nat, NEW f, obs.real => f \in Nat, ps # NoPerson => Settled(ps),
         NEW fresh \in Groups, NEW next, next = EvaluatePerson(ps, buf, obs, fresh, t, f).person
  PROVE  /\ Settled(next)
         /\ FrameOf(ps, obs, f, next.lastFrame)
         /\ next.pending # None => next.pending <= t
<1> DEFINE moved == MovedRecord(ps, buf, obs, t, f)
           res   == Evaluate(moved, buf, fresh, t)
<1>1. moved \in PersonStates /\ Ready(moved, buf)
  BY StoredIsReady
<1>2. FrameOf(ps, obs, f, moved.lastFrame)
  BY MovedFrame
<1>3. next = res.person
  BY DEF EvaluatePerson, MovedRecord
<1> HIDE DEF moved
<1>4. Punctual(moved, t, res)
  <2>1. CASE moved.current \in Terminal
    <3>1. Settled(moved) /\ moved.pending = None
      BY <1>1, <2>1 DEF Ready, Settled
    <3>2. res.person = moved
      BY <2>1 DEF Evaluate, Keep
    <3>3. QED
      BY <3>1, <3>2 DEF Punctual
  <2>2. CASE moved.current = NOT_NEAR_SINK
    BY <1>1, <2>2, ZoneExitPunctual DEF Evaluate
  <2>3. CASE moved.current \in {WASHING, NEAR_SINK_NOT_WASHING}
    BY <1>1, <2>3, AtSinkPunctual DEF Evaluate
  <2>4. QED
    BY <1>1, <2>1, <2>2, <2>3 DEF PersonStates, HandwashState
<1> HIDE DEF res
<1>5. QED
  BY <1>2, <1>3, <1>4 DEF Punctual

(* Frame ids do not run ahead of the clock, and no record is of a frame    *)
(* beyond the last.                                                        *)
FramesBounded ==
  /\ frame <= now /\ now <= MaxTime
  /\ \A p \in Persons : store[p] # NoPerson => store[p].lastFrame <= MaxTime

ExitInv == TypeOK /\ StoredSettled /\ FramesBounded

(* What is read from the store, expired or not. *)
LEMMA ZoneBounded ==
  ASSUME ExitInv, NEW t, NEW p \in Persons
  PROVE  /\ ZoneState(t)[p] \in PersonRecords
         /\ ZoneState(t)[p] # NoPerson =>
              Settled(ZoneState(t)[p]) /\ ZoneState(t)[p].lastFrame <= MaxTime
<1>1. ZoneState(t)[p] = store[p] \/ ZoneState(t)[p] = NoPerson
  BY DEF ZoneState
<1>2. QED
  BY <1>1 DEF ExitInv, TypeOK, StateTypeOK, StoredSettled, FramesBounded, PersonRecords

(* A record after an event: a pending exit lies in the future only if the  *)
(* record is ahead of the event.                                           *)
LEMMA ResultsPunctual ==
  ASSUME ExitInv, NEW sights \in [Persons -> Sightings], NEW t \in Nat, NEW f,
         NEW by \in {"process", "flush"}, NEW p \in Persons,
         sights[p] # "unseen" => f \in Nat /\ f <= MaxTime,
         NEW next, next = Results(sights, ZoneState(t), t, f, by)[p].person, next # NoPerson
  PROVE  /\ Settled(next) /\ next.lastFrame <= MaxTime
         /\ \/ next.pending # None => next.pending <= t
            \/ ZoneState(t)[p] # NoPerson /\ next = ZoneState(t)[p] /\ ~(f >= next.lastFrame)
<1> DEFINE zone  == ZoneState(t)
           fresh == FreshGroup(p, Stamp(t, by))
           obs   == ObservationOf(sights[p], zone[p], f)
<1>1. fresh \in Groups
  BY StampType DEF FreshGroup, Groups, ExitInv
<1>2. /\ zone[p] \in PersonRecords /\ buffers[p] \in Buffers \cup {NoBuffer}
      /\ zone[p] # NoPerson => Settled(zone[p]) /\ zone[p].lastFrame <= MaxTime
  BY ZoneBounded DEF ExitInv, TypeOK, StateTypeOK
<1>3. obs.real => f \in Nat /\ f <= MaxTime
  BY DEF ObservationOf
<1>4. next = IF HasObservation(sights[p], zone[p], f)
             THEN EvaluatePerson(zone[p], buffers[p], obs, fresh, t, f).person
             ELSE zone[p]
  BY DEF Results, FreshGroup, Keep
<1>5. HasObservation(sights[p], zone[p], f) \/ ~NeedsSynthetic(zone[p], f)
  BY DEF HasObservation
<1> HIDE DEF fresh, obs, zone
<1>6. CASE HasObservation(sights[p], zone[p], f)
  <2>1. /\ Settled(next) /\ FrameOf(zone[p], obs, f, next.lastFrame)
        /\ next.pending # None => next.pending <= t
    BY <1>1, <1>2, <1>3, <1>4, <1>6, EvaluatePersonPunctual
  <2>2. next.lastFrame <= MaxTime
    <3>1. CASE obs.real /\ next.lastFrame = f
      BY <1>3, <3>1
    <3>2. CASE next.lastFrame = -1
      BY <3>2, EngineConfigOK
    <3>3. CASE zone[p] # NoPerson /\ next.lastFrame = zone[p].lastFrame
      BY <1>2, <3>3
    <3>4. QED
      BY <2>1, <3>1, <3>2, <3>3 DEF FrameOf
  <2>3. QED
    BY <2>1, <2>2
<1>7. CASE ~HasObservation(sights[p], zone[p], f)
  <2>1. next = zone[p] /\ Settled(next) /\ next.lastFrame <= MaxTime
    BY <1>2, <1>4, <1>7
  <2>2. next.pending # None => ~(f >= next.lastFrame)
    BY <1>5, <1>7, <2>1 DEF NeedsSynthetic, Settled
  <2>3. QED
    BY <2>1, <2>2 DEF zone
<1>8. QED
  BY <1>6, <1>7

(* A completed event, saved or not. *)
LEMMA CompletePunctual ==
  ASSUME ExitInv, NEW sights \in [Persons -> Sightings], NEW t \in Nat, NEW f,
         NEW by \in {"process", "flush"}, NEW writes,
         \A p \in Persons : sights[p] # "unseen" => f \in Nat /\ f <= MaxTime,
         Complete(sights, t, f, by, writes)
  PROVE  /\ \A p \in Persons : store'[p] # NoPerson =>
              Settled(store'[p]) /\ store'[p].lastFrame <= MaxTime
         /\ saved' # saved => \A p \in Persons : store'[p] # NoPerson =>
              \/ store'[p].pending # None => store'[p].pending <= t
              \/ /\ ZoneState(t)[p] # NoPerson /\ store'[p] = ZoneState(t)[p]
                 /\ ~(f >= store'[p].lastFrame)
<1> DEFINE zone == ZoneState(t)
           res  == Results(sights, zone, t, f, by)
<1>1. \/ store' = zone /\ saved' = saved
      \/ store' = [p \in Persons |-> res[p].person]
  BY DEF Complete, Save
<1>2. \A p \in Persons : zone[p] # NoPerson => Settled(zone[p]) /\ zone[p].lastFrame <= MaxTime
  BY ZoneBounded
<1>3. ASSUME NEW p \in Persons, NEW next, next = res[p].person, next # NoPerson
      PROVE  /\ Settled(next) /\ next.lastFrame <= MaxTime
             /\ \/ next.pending # None => next.pending <= t
                \/ zone[p] # NoPerson /\ next = zone[p] /\ ~(f >= next.lastFrame)
  BY <1>3, ResultsPunctual
<1> HIDE DEF zone, res
<1>4. CASE store' = zone /\ saved' = saved
  BY <1>2, <1>4
<1>5. CASE store' = [p \in Persons |-> res[p].person]
  <2>1. \A p \in Persons : store'[p] = res[p].person
    BY <1>5
  <2>2. QED
    BY <1>3, <2>1 DEF zone
<1>6. QED
  BY <1>1, <1>4, <1>5

(* Every step keeps the invariant, and saves no exit in the future on a    *)
(* record that is not ahead of the process.                                *)
LEMMA ExitStep ==
  ASSUME ExitInv, Next
  PROVE  /\ ExitInv'
         /\ saved' # saved => \A p \in Persons :
              store'[p] # NoPerson /\ store'[p].pending # None /\ store'[p].pending > now'
                => frame' < store'[p].lastFrame
<1> DEFINE Goal == saved' # saved => \A p \in Persons :
                     store'[p] # NoPerson /\ store'[p].pending # None /\ store'[p].pending > now'
                       => frame' < store'[p].lastFrame
<1> SUFFICES ExitInv' /\ Goal
  OBVIOUS
<1>0. TypeOK /\ TypeOK'
  BY TypeStep DEF ExitInv
<1>a. /\ now \in Nat /\ frame \in Nat /\ frame <= now /\ now <= MaxTime
      /\ \A p \in Persons : store'[p] # NoPerson =>
           /\ store'[p].pending \in Nat \cup {None}
           /\ store'[p].lastFrame \in Nat \cup {-1}
  BY <1>0 DEF ExitInv, FramesBounded, TypeOK, ProcessTypeOK, StateTypeOK, PersonStates
<1>b. ASSUME \A p \in Persons : store'[p] # NoPerson =>
               Settled(store'[p]) /\ store'[p].lastFrame <= MaxTime,
             frame' <= now', now' <= MaxTime
      PROVE  ExitInv'
  BY <1>0, <1>b DEF ExitInv, StoredSettled, FramesBounded, Settled, Cleared, HasGroup
<1>1. ASSUME NEW df \in 1..MaxSkip, NEW dt \in df..MaxGap, Arrives(df, dt)
      PROVE  /\ now + dt \in Nat /\ frame + df \in Nat /\ frame + df <= MaxTime
             /\ now' = now + dt /\ frame' = frame + df
             /\ frame' <= now' /\ now' <= MaxTime
  BY <1>a, <1>1, EngineConfigOK DEF Arrives
<1>2. ASSUME NEW sights \in [Persons -> Sightings], NEW df \in 1..MaxSkip,
             NEW dt \in df..MaxGap, Process(sights, df, dt)
      PROVE  ExitInv' /\ Goal
  <2>1. PICK writes \in WriteOutcomes :
          Complete(sights, now + dt, frame + df, "process", writes)
    BY <1>2 DEF Process
  <2>2. /\ now + dt \in Nat /\ frame + df \in Nat /\ frame + df <= MaxTime
        /\ now' = now + dt /\ frame' = frame + df
        /\ frame' <= now' /\ now' <= MaxTime
    BY <1>1, <1>2 DEF Process
  <2>3. /\ \A p \in Persons : store'[p] # NoPerson =>
             Settled(store'[p]) /\ store'[p].lastFrame <= MaxTime
        /\ saved' # saved => \A p \in Persons : store'[p] # NoPerson =>
             \/ store'[p].pending # None => store'[p].pending <= now'
             \/ ~(frame' >= store'[p].lastFrame)
    BY <2>1, <2>2, CompletePunctual DEF ExitInv
  <2>4. Goal
    BY <1>a, <2>2, <2>3
  <2>5. QED
    BY <1>b, <2>2, <2>3, <2>4
<1>3. ASSUME NEW sights \in [Persons -> Sightings], NEW df \in 1..MaxSkip,
             NEW dt \in df..MaxGap, DieMidFrame(sights, df, dt) \/ ProcessReadFails(df, dt)
      PROVE  ExitInv' /\ Goal
  <2>1. store' = ZoneState(now + dt) /\ saved' = saved /\ Arrives(df, dt)
    BY <1>3 DEF DieMidFrame, ProcessReadFails
  <2>2. \A p \in Persons : store'[p] # NoPerson =>
          Settled(store'[p]) /\ store'[p].lastFrame <= MaxTime
    BY <2>1, ZoneBounded
  <2>3. QED
    BY <1>1, <1>b, <2>1, <2>2
<1>4. ASSUME Flush
      PROVE  ExitInv' /\ Goal
  <2>1. now' = now /\ frame' = frame
    BY <1>4 DEF Flush
  <2>2. CASE \A p \in Persons : ZoneState(now)[p] = NoPerson
    <3>1. store' = store /\ saved' = saved
      BY <1>4, <2>2 DEF Flush
    <3>2. \A p \in Persons : store'[p] # NoPerson =>
            Settled(store'[p]) /\ store'[p].lastFrame <= MaxTime
      BY <3>1 DEF ExitInv, StoredSettled, FramesBounded
    <3>3. QED
      BY <1>a, <1>b, <2>1, <3>1, <3>2
  <2>3. CASE ~\A p \in Persons : ZoneState(now)[p] = NoPerson
    <3> DEFINE sights == [p \in Persons |-> "unseen"]
               zone   == ZoneState(now)
    <3>1. PICK writes \in WriteOutcomes :
            Complete(sights, now, FlushFrame(zone), "flush", writes)
      BY <1>4, <2>3 DEF Flush
    <3>2. sights \in [Persons -> Sightings] /\ \A p \in Persons : sights[p] = "unseen"
      BY DEF Sightings
    <3>3. \A p \in Persons : zone[p] # NoPerson => FlushFrame(zone) >= zone[p].lastFrame
      <4>1. \A p \in Persons : /\ zone[p] \in PersonRecords
                               /\ zone[p] # NoPerson => zone[p].lastFrame <= MaxTime
        BY ZoneBounded
      <4>2. MaxTime \in Nat
        BY EngineConfigOK
      <4> HIDE DEF zone
      <4>3. QED
        BY <4>1, <4>2, FlushIsPast
    <3> HIDE DEF sights
    <3>a. /\ now \in Nat /\ "flush" \in {"process", "flush"}
          /\ \A p \in Persons : sights[p] # "unseen" =>
               FlushFrame(zone) \in Nat /\ FlushFrame(zone) <= MaxTime
      BY <1>a, <3>2
    <3>4. /\ \A p \in Persons : store'[p] # NoPerson =>
               Settled(store'[p]) /\ store'[p].lastFrame <= MaxTime
          /\ saved' # saved => \A p \in Persons : store'[p] # NoPerson =>
               \/ store'[p].pending # None => store'[p].pending <= now
               \/ /\ zone[p] # NoPerson /\ store'[p] = zone[p]
                  /\ ~(FlushFrame(zone) >= store'[p].lastFrame)
      BY <3>1, <3>2, <3>a, CompletePunctual, Zenon
    <3> HIDE DEF zone
    <3>5. saved' # saved => \A p \in Persons :
            store'[p] # NoPerson /\ store'[p].pending # None => store'[p].pending <= now
      BY <3>3, <3>4
    <3>6. Goal
      BY <1>a, <2>1, <3>5
    <3>7. QED
      BY <1>a, <1>b, <2>1, <3>4, <3>6
  <2>4. QED
    BY <2>2, <2>3
<1>5. ASSUME Die
      PROVE  ExitInv' /\ Goal
  <2>1. store' = store /\ saved' = saved /\ now' = now /\ frame' = frame
    BY <1>5 DEF Die
  <2>2. \A p \in Persons : store'[p] # NoPerson =>
          Settled(store'[p]) /\ store'[p].lastFrame <= MaxTime
    BY <2>1 DEF ExitInv, StoredSettled, FramesBounded
  <2>3. QED
    BY <1>a, <1>b, <2>1, <2>2
<1>6. ASSUME NEW back \in 0..MaxStepBack, Restart(back)
      PROVE  ExitInv' /\ Goal
  <2>1. /\ saved' = saved /\ frame' = 0 /\ now' = now - back /\ now' >= 0
        /\ store' = store \/ store' = [p \in Persons |-> NoPerson]
    BY <1>6 DEF Restart
  <2>2. \A p \in Persons : store'[p] # NoPerson =>
          Settled(store'[p]) /\ store'[p].lastFrame <= MaxTime
    BY <2>1 DEF ExitInv, StoredSettled, FramesBounded
  <2>3. frame' <= now' /\ now' <= MaxTime
    BY <1>a, <2>1, EngineConfigOK
  <2>4. QED
    BY <1>b, <2>1, <2>2, <2>3
<1>7. ASSUME NEW df \in 1..MaxSkip, NEW dt \in df..MaxGap, ProcessReadFails(df, dt)
      PROVE  ExitInv' /\ Goal
  <2>1. [p \in Persons |-> "unseen"] \in [Persons -> Sightings]
    BY DEF Sightings
  <2>2. QED
    BY <1>3, <1>7, <2>1
<1>8. QED
  BY <1>2, <1>3, <1>4, <1>5, <1>6, <1>7 DEF Next

(* No event saves an exit that is pending since a time in the future (it   *)
(* would never run out), whatever records Redis has kept from before the   *)
(* clock was stepped back: HandleZoneExit drops such an exit, a return to  *)
(* the sink clears it, and only the record of a frame which the new        *)
(* process has not reached yet is left alone.                              *)
THEOREM NoExitAhead == Spec => NoExitInFuture
<1>1. Init => ExitInv
  <2>1. ASSUME Init
        PROVE  TypeOK
    BY <2>1 DEF Init, TypeOK, ProcessTypeOK, StateTypeOK, OutputTypeOK, HistoryTypeOK
  <2>2. QED
    BY <2>1, EngineConfigOK DEF Init, ExitInv, StoredSettled, FramesBounded
<1>2. ExitInv /\ [Next]_vars => ExitInv'
  <2>1. ASSUME ExitInv, UNCHANGED vars
        PROVE  ExitInv'
    BY <2>1 DEF vars, process, output, history, ExitInv, TypeOK, ProcessTypeOK, StateTypeOK,
                OutputTypeOK, HistoryTypeOK, StoredSettled, FramesBounded, Settled, Cleared, HasGroup
  <2>2. QED
    BY <2>1, ExitStep
<1>3. ExitInv /\ [Next]_vars =>
        [saved' # saved => \A p \in Persons :
           store'[p] # NoPerson /\ store'[p].pending # None /\ store'[p].pending > now'
             => frame' < store'[p].lastFrame]_vars
  BY ExitStep
<1>4. QED
  BY <1>1, <1>2, <1>3, PTL DEF Spec, NoExitInFuture

----------------------------------------------------------------------------
(***************************************************************************)
(* What the in-memory engine (~Durable) guarantees about the visits of     *)
(* every set of persons: a visit and its evidence buffer live and die      *)
(* together, no visit is alerted twice, an exit is judged when its         *)
(* cooldown is over and nobody is alerted before, whoever is alerted has   *)
(* evidence of that very visit, and frame by frame the engine implements   *)
(* VisitLedger.                                                            *)
(*                                                                         *)
(* The first two rest on an invariant of one person (which states go with  *)
(* a group, a pending exit, a confirmed violation and a live buffer); the  *)
(* others on what a whole event does to the visit of a person (Event), and *)
(* on three invariants of a process that goes on: of its times, of the     *)
(* contents of its buffers, and of what it has judged.  That verdicts      *)
(* follow the washing time needs one more: what each record has counted.   *)
(***************************************************************************)

(* The invariant of one person *)

(* A buffer is live exactly for an open visit, and belongs to it. *)
Linked(ps, buf) ==
  /\ IsOpen(ps) => Live(buf) /\ buf.group = ps.group
  /\ Live(buf) => IsOpen(ps)

PersonInv(ps, buf) == (ps # NoPerson => Settled(ps)) /\ Linked(ps, buf)

(* The same of a record that has just been moved to its next state and is  *)
(* about to be evaluated: a pending exit may now be one to cancel, washing *)
(* may have begun before there was a group.                                *)
Moved(ps, buf) ==
  /\ ps.confirmed <=> ps.current = NOT_WASHED
  /\ ps.current = WASHED => ~HasGroup(ps)
  /\ ps.pending # None => HasGroup(ps)
  /\ ps.current \in Terminal => ps.pending = None
  /\ ps.group = None => Cleared(ps)
  /\ Linked(ps, buf)

(* Moving opens no visit. *)
SameVisit(next, ps) == IsOpen(next) => IsOpen(ps) /\ next.group = ps.group

(* Loading, noting the frame, starting a fresh visit and moving to the     *)
(* next state turn a stored record into a moved one.                       *)
LEMMA MoveKeeps ==
  ASSUME NEW ps \in PersonRecords, NEW buf \in Buffers \cup {NoBuffer}, NEW obs,
         NEW t \in Nat, NEW f, obs.real => f \in Nat, PersonInv(ps, buf)
  PROVE  /\ MovedRecord(ps, buf, obs, t, f) \in PersonStates
         /\ Moved(MovedRecord(ps, buf, obs, t, f), buf)
         /\ SameVisit(MovedRecord(ps, buf, obs, t, f), ps)
<1>0. NoPerson \notin PersonStates
  BY SpecialValues
<1> DEFINE seen == Seen(Loaded(ps, t), obs, f)
           base == VisitState(seen, buf, obs, t)
           new  == NextState(seen.current, obs)
           next == UpdateState(base, new, t)
<1>1. InitialPersonState(t) \in PersonStates
  BY InitialType
<1>2. /\ Loaded(ps, t) \in PersonStates /\ PersonInv(Loaded(ps, t), buf)
      /\ IsOpen(Loaded(ps, t)) => IsOpen(ps) /\ Loaded(ps, t).group = ps.group
  <2>1. CASE ps = NoPerson
    BY <1>0, <1>1, <2>1, Distinct DEF Loaded, PersonInv, Settled, Linked, IsOpen, HasGroup,
                                      InitialPersonState
  <2>2. CASE ps # NoPerson
    BY <2>2 DEF Loaded, PersonRecords
  <2>3. QED
    BY <2>1, <2>2
<1>3. /\ seen \in PersonStates /\ PersonInv(seen, buf)
      /\ IsOpen(seen) => IsOpen(ps) /\ seen.group = ps.group
  BY <1>0, <1>2 DEF Seen, PersonStates, PersonInv, Settled, Cleared, Linked, IsOpen, HasGroup
<1> HIDE DEF seen
<1>4. Settled(seen) /\ Linked(seen, buf)
  BY <1>0, <1>3 DEF PersonInv
<1>5. /\ seen.current \in HandwashState /\ new \in HandwashState
      /\ base \in PersonStates
  <2>1. [InitialPersonState(t) EXCEPT !.lastFrame = seen.lastFrame] \in PersonStates
    BY <1>1, <1>3 DEF PersonStates
  <2>2. QED
    BY <1>3, <2>1, NextStateType DEF PersonStates, VisitState
<1>6. /\ next \in PersonStates /\ next.current = new
      /\ next.confirmed = base.confirmed /\ next.group = base.group /\ next.pending = base.pending
      /\ Cleared(base) /\ new = base.current => Cleared(next)
  BY <1>5, UpdateType, UpdateFields
<1> SUFFICES Moved(next, buf) /\ SameVisit(next, ps)
  BY <1>6 DEF seen, MovedRecord
<1> HIDE DEF base, new, next
<1>7. CASE OpensFreshVisit(seen, buf, obs)
  <2>1. base = [InitialPersonState(t) EXCEPT !.lastFrame = seen.lastFrame]
    BY <1>7 DEF VisitState, base
  <2>2. base.confirmed = FALSE /\ base.group = Missing /\ base.pending = None
    BY <1>1, <2>1 DEF InitialPersonState, PersonStates
  <2>3. new \in {NOT_NEAR_SINK, NEAR_SINK_NOT_WASHING}
    BY <1>7 DEF OpensFreshVisit, StartsNewVisit, NextState, new
  <2>4. ~Live(buf)
    BY <1>4, <1>7 DEF OpensFreshVisit, StartsNewVisit, Settled, Linked, IsOpen
  <2>5. QED
    BY <1>6, <2>2, <2>3, <2>4, Distinct DEF Moved, SameVisit, Linked, IsOpen, HasGroup
<1>8. CASE ~OpensFreshVisit(seen, buf, obs)
  <2>1. base = seen
    BY <1>8 DEF VisitState, base
  <2>2. seen.current \in Terminal => new = seen.current
    BY <1>4, <1>8 DEF OpensFreshVisit, StartsNewVisit, NextState, Settled, new
  <2>3. seen.current \notin Terminal => new \notin Terminal
    BY DEF NextState, new
  <2>4. IsOpen(next) <=> IsOpen(seen)
    BY <1>0, <1>3, <1>6, <2>1 DEF IsOpen, HasGroup
  <2>5. seen.group = None => new = seen.current
    BY <1>4, <1>8 DEF OpensFreshVisit, StartsNewVisit, NextState, Settled, Cleared, HasGroup, new
  <2>6. QED
    BY <1>3, <1>4, <1>5, <1>6, <2>1, <2>2, <2>3, <2>4, <2>5 DEF Moved, SameVisit, Settled, Linked,
                                                                    IsOpen, HasGroup
<1>9. QED
  BY <1>7, <1>8

(* What evaluating a record and a buffer may do to a visit: the result is  *)
(* settled and linked, a visit that is open afterwards was open before or  *)
(* has the fresh group, and a violation closes the visit it is raised for, *)
(* which was open unless it never had a group.                             *)
Follows(ps, fresh, res) ==
  /\ PersonInv(res.person, res.buffer)
  /\ IsOpen(res.person) =>
       res.person.group = fresh \/ (IsOpen(ps) /\ res.person.group = ps.group)
  /\ res.result = "VIOLATION" =>
       /\ ~IsOpen(res.person)
       /\ res.person.group # None
       /\ HasGroup(res.person) => IsOpen(ps) /\ res.person.group = ps.group

(* A verdict on a record that waits for nothing closes its visit. *)
LEMMA VerdictFollows ==
  ASSUME NEW ps \in PersonStates, NEW buf \in Buffers \cup {NoBuffer}, NEW t \in Nat, NEW fresh,
         Linked(ps, buf), ~ps.confirmed, ps.pending = None, ps.group # None
  PROVE  Follows(ps, fresh, Verdict(ps, buf, t))
<1> USE DEF PersonStates, ResetVisit
<1>1. Follows(ps, fresh, CompliantExit(ps))
  <2>1. /\ CompliantExit(ps).person.current = WASHED
        /\ CompliantExit(ps).person.group = None
        /\ CompliantExit(ps).person.confirmed = FALSE
        /\ CompliantExit(ps).person.pending = None
        /\ CompliantExit(ps).buffer = NoBuffer
        /\ CompliantExit(ps).result = "COMPLIANT"
    BY DEF CompliantExit, DiscardBuffer
  <2>2. QED
    BY <2>1 DEF Follows, PersonInv, Settled, Cleared, Linked, IsOpen, HasGroup, Live
<1>2. Follows(ps, fresh, ConfirmViolation(ps, buf))
  <2> DEFINE res == ConfirmViolation(ps, buf)
  <2>1. /\ res.person.current = NOT_WASHED
        /\ res.person.group = ps.group
        /\ res.person.confirmed = TRUE
        /\ res.person.pending = None
        /\ res.result = "VIOLATION"
    BY DEF ConfirmViolation
  <2>2. ~Live(res.buffer)
    BY Distinct, LiveType DEF ConfirmViolation, Live, Buffers
  <2> HIDE DEF res
  <2>3. HasGroup(res.person) => IsOpen(ps)
    BY <2>1, Distinct DEF IsOpen, HasGroup
  <2>4. QED
    BY <2>1, <2>2, <2>3 DEF Follows, PersonInv, Settled, Linked, IsOpen, HasGroup, res
<1>3. QED
  BY <1>1, <1>2 DEF Verdict

(* A result that reaches no verdict follows if its record and buffer do.   *)
LEMMA KeepFollows ==
  ASSUME NEW ps, NEW fresh, NEW next, NEW buf, PersonInv(next, buf),
         IsOpen(next) => next.group = fresh \/ (IsOpen(ps) /\ next.group = ps.group)
  PROVE  Follows(ps, fresh, Keep(next, buf))
BY Distinct DEF Keep, Follows

(* ... and so it does if it opens a visit with the fresh group. *)
LEMMA OpenFollows ==
  ASSUME NEW ps, NEW fresh, NEW next \in PersonStates, NEW buf, PersonInv(next, buf),
         next.group = fresh
  PROVE  Follows(ps, fresh, Keep(next, buf))
BY KeepFollows

(* Away from the sink. *)
LEMMA ZoneExitFollows ==
  ASSUME NEW ps \in PersonStates, NEW buf \in Buffers \cup {NoBuffer}, NEW t \in Nat, NEW fresh,
         Moved(ps, buf), ps.current = NOT_NEAR_SINK
  PROVE  Follows(ps, fresh, HandleZoneExit(ps, buf, t))
<1> DEFINE waiting == [ps EXCEPT !.pending = t]
           stale   == ResetVisit([ps EXCEPT !.pending = None, !.group = None])
           over    == [ps EXCEPT !.pending = None]
<1>1. ~ps.confirmed /\ Linked(ps, buf)
  BY DEF Moved
<1>2. /\ ResetVisit(ps) \in PersonStates
      /\ waiting \in PersonStates
      /\ stale \in PersonStates
      /\ over \in PersonStates
  BY DEF PersonStates, ResetVisit, GroupIds
<1>3. CASE ~HasGroup(ps) /\ ~ApproachedSink(ps, t)
  <2>1. PersonInv(ResetVisit(ps), buf) /\ ~IsOpen(ResetVisit(ps))
    BY <1>1, <1>3, Distinct DEF Moved, PersonInv, Settled, Cleared, Linked, IsOpen, HasGroup,
                                ResetVisit, PersonStates
  <2>2. QED
    BY <1>1, <1>2, <1>3, <2>1, KeepFollows DEF HandleZoneExit
<1>4. CASE ~HasGroup(ps) /\ ApproachedSink(ps, t)
  <2>1. ps.pending = None /\ ps.group # None
    BY <1>4 DEF Moved, Cleared, ApproachedSink, WashingDuration, AtSinkDuration, PersonStates
  <2>2. QED
    BY <1>1, <1>4, <2>1, VerdictFollows DEF HandleZoneExit
<1>5. CASE HasGroup(ps) /\ ps.pending = None
  <2>1. t # None
    BY SpecialValues
  <2>2. PersonInv(waiting, buf) /\ waiting.group = ps.group
    BY <1>1, <1>5, <2>1, Distinct DEF Moved, PersonInv, Settled, Linked, IsOpen, HasGroup, PersonStates
  <2>3. IsOpen(ps)
    BY <1>1, <1>5, Distinct DEF IsOpen
  <2>4. Follows(ps, fresh, Keep(waiting, buf))
    BY <1>2, <2>2, <2>3, KeepFollows
  <2>5. QED
    BY <1>1, <1>5, <2>4 DEF HandleZoneExit
<1>6. CASE HasGroup(ps) /\ ps.pending # None
  <2>1. Follows(ps, fresh, Keep(stale, NoBuffer))
    <3>1. PersonInv(stale, NoBuffer) /\ ~IsOpen(stale)
      BY <1>1, Distinct DEF PersonInv, Settled, Cleared, Linked, IsOpen, HasGroup, Live,
                           ResetVisit, PersonStates
    <3>2. QED
      BY <1>2, <3>1, KeepFollows
  <2>2. Follows(ps, fresh, Keep(ps, buf))
    <3>1. PersonInv(ps, buf) /\ IsOpen(ps)
      BY <1>1, <1>6, Distinct DEF PersonInv, Settled, IsOpen, Moved, HasGroup
    <3>2. QED
      BY <3>1, KeepFollows
  <2>3. Follows(ps, fresh, Verdict(over, buf, t))
    <3>1. /\ Linked(over, buf) /\ ~over.confirmed /\ over.pending = None
          /\ over.group # None /\ over.group = ps.group /\ (IsOpen(over) <=> IsOpen(ps))
      BY <1>1, <1>2, <1>6, Distinct DEF Linked, IsOpen, HasGroup, PersonStates
    <3>2. Follows(over, fresh, Verdict(over, buf, t))
      BY <1>2, <3>1, VerdictFollows
    <3>3. QED
      BY <3>1, <3>2 DEF Follows
  <2>4. QED
    BY <1>1, <1>6, <2>1, <2>2, <2>3 DEF HandleZoneExit
<1>7. QED
  BY <1>3, <1>4, <1>5, <1>6

(* At the sink with confirmed washing. *)
LEMMA WashingFollows ==
  ASSUME NEW ps \in PersonStates, NEW buf \in Buffers \cup {NoBuffer}, NEW t \in Nat,
         NEW fresh \in Groups, Moved(ps, buf), ps.current = WASHING
  PROVE  Follows(ps, fresh, HandleWashingActive(ps, buf, fresh, t))
<1> DEFINE open   == [ps EXCEPT !.pending = None, !.absence = 0]
           opened == [open EXCEPT !.group = fresh]
           new    == BufferAdd(NewBuffer(fresh), t)
<1>1. ~ps.confirmed /\ Linked(ps, buf)
  BY DEF Moved
<1>2. open \in PersonStates /\ opened \in PersonStates
  <2>1. open \in PersonStates
    BY DEF PersonStates
  <2> HIDE DEF open
  <2>2. QED
    BY <2>1 DEF PersonStates, GroupIds
<1>3. CASE HasGroup(ps)
  <2>1. IsOpen(ps)
    BY <1>1, <1>3, Distinct DEF IsOpen
  <2>2. Live(buf) /\ buf.group = ps.group /\ buf \in Buffers
    BY <1>1, <2>1, LiveType DEF Linked
  <2>3. AddIfLive(buf, t) \in Buffers /\ Live(AddIfLive(buf, t)) /\ AddIfLive(buf, t).group = ps.group
    BY <2>2, AddType, Distinct DEF AddIfLive, Live
  <2>4. PersonInv(open, AddIfLive(buf, t)) /\ open.group = ps.group
    BY <1>1, <1>2, <1>3, <2>3, Distinct DEF PersonInv, Settled, Cleared, Linked, IsOpen, HasGroup,
                                            PersonStates
  <2>5. QED
    BY <1>2, <1>3, <2>1, <2>4, KeepFollows DEF HandleWashingActive
<1>4. CASE ~HasGroup(ps)
  <2>1. Live(new) /\ new.group = fresh
    BY OpenedType, Distinct DEF Live
  <2>2. /\ opened.current = WASHING /\ opened.group = fresh /\ opened.pending = None
        /\ opened.confirmed = FALSE
    BY <1>1, <1>2 DEF PersonStates
  <2>3. PersonInv(opened, new)
    BY <2>1, <2>2, <1>2, Distinct DEF PersonInv, Settled, Linked, IsOpen, HasGroup
  <2>4. Follows(ps, fresh, Keep(opened, new))
    BY <1>2, <2>2, <2>3, OpenFollows
  <2>5. QED
    BY <1>4, <2>4 DEF HandleWashingActive
<1>5. QED
  BY <1>3, <1>4

(* At the sink, not washing. *)
LEMMA NearSinkFollows ==
  ASSUME NEW ps \in PersonStates, NEW buf \in Buffers \cup {NoBuffer}, NEW t \in Nat,
         NEW fresh \in Groups, Moved(ps, buf), ps.current = NEAR_SINK_NOT_WASHING
  PROVE  Follows(ps, fresh, HandleNearSinkNotWashing(ps, buf, fresh, t))
<1> DEFINE back    == [ps EXCEPT !.pending = None, !.absence = 0]
           counted == [ps EXCEPT !.absence = ps.absence + 1]
           opened  == [counted EXCEPT !.group = fresh]
           new     == BufferAdd(NewBuffer(fresh), t)
<1>1. ~ps.confirmed /\ Linked(ps, buf) /\ ps.group # None
  BY DEF Moved, Cleared
<1>2. back \in PersonStates /\ counted \in PersonStates /\ opened \in PersonStates
  <2>1. back \in PersonStates
    BY DEF PersonStates
  <2>2. counted \in PersonStates
    BY DEF PersonStates
  <2> HIDE DEF back, counted
  <2>3. QED
    BY <2>1, <2>2 DEF PersonStates, GroupIds
<1>3. CASE HasGroup(ps)
  <2>1. IsOpen(ps)
    BY <1>1, <1>3, Distinct DEF IsOpen
  <2>2. Live(buf) /\ buf.group = ps.group /\ buf \in Buffers
    BY <1>1, <2>1, LiveType DEF Linked
  <2>3. /\ Live(BufferAdd(buf, t)) /\ BufferAdd(buf, t).group = ps.group
        /\ AddIfLive(buf, t) = BufferAdd(buf, t)
    BY <2>2, AddType, Distinct DEF AddIfLive, Live
  <2>4. CASE ps.pending # None
    <3>1. PersonInv(back, BufferAdd(buf, t)) /\ back.group = ps.group
      BY <1>1, <1>2, <1>3, <2>3, Distinct DEF PersonInv, Settled, Linked, IsOpen, HasGroup, PersonStates
    <3>2. QED
      BY <1>1, <1>2, <2>1, <2>2, <2>4, <3>1, KeepFollows DEF HandleNearSinkNotWashing
  <2>5. CASE ps.pending = None
    <3>1. PersonInv(ps, BufferAdd(buf, t))
      BY <1>1, <1>3, <2>3, <2>5, Distinct DEF PersonInv, Settled, Linked, IsOpen, HasGroup
    <3>2. QED
      BY <1>1, <1>3, <2>1, <2>3, <2>5, <3>1, KeepFollows DEF HandleNearSinkNotWashing
  <2>6. QED
    BY <2>4, <2>5
<1>4. CASE ~HasGroup(ps)
  <2>1. ps.pending = None
    BY <1>4 DEF Moved
  <2>2. Follows(ps, fresh, Keep(counted, buf))
    <3>1. PersonInv(counted, buf) /\ ~IsOpen(counted)
      BY <1>1, <1>2, <1>4, <2>1, Distinct DEF PersonInv, Settled, Linked, IsOpen, HasGroup, PersonStates
    <3>2. QED
      BY <1>2, <3>1, KeepFollows
  <2>3. Follows(ps, fresh, Keep(opened, new))
    <3>1. Live(new) /\ new.group = fresh
      BY OpenedType, Distinct DEF Live
    <3>2. /\ opened.current = NEAR_SINK_NOT_WASHING /\ opened.group = fresh
          /\ opened.pending = None /\ opened.confirmed = FALSE
      BY <1>1, <2>1 DEF PersonStates
    <3>3. PersonInv(opened, new)
      BY <1>2, <3>1, <3>2, Distinct DEF PersonInv, Settled, Linked, IsOpen, HasGroup
    <3>4. QED
      BY <1>2, <3>2, <3>3, OpenFollows
  <2>4. DebounceEntry(ps, buf, fresh, t) =
          IF counted.absence < MinEntry THEN Keep(counted, buf) ELSE Keep(opened, new)
    BY DEF DebounceEntry
  <2>5. HandleNearSinkNotWashing(ps, buf, fresh, t) = DebounceEntry(ps, buf, fresh, t)
    BY <1>1, <1>4, <2>1 DEF HandleNearSinkNotWashing
  <2>6. QED
    BY <2>2, <2>3, <2>4, <2>5
<1>5. QED
  BY <1>3, <1>4

(* The rule, whatever the state of the record. *)
LEMMA EvaluateFollows ==
  ASSUME NEW ps \in PersonStates, NEW buf \in Buffers \cup {NoBuffer}, NEW t \in Nat,
         NEW fresh \in Groups, Moved(ps, buf)
  PROVE  Follows(ps, fresh, Evaluate(ps, buf, fresh, t))
<1>1. CASE ps.current \in Terminal
  <2>1. PersonInv(ps, buf)
    BY <1>1 DEF Moved, PersonInv, Settled
  <2>2. IsOpen(ps) => ps.group = fresh \/ (IsOpen(ps) /\ ps.group = ps.group)
    OBVIOUS
  <2>3. Follows(ps, fresh, Keep(ps, buf))
    BY <2>1, <2>2, KeepFollows
  <2>4. QED
    BY <1>1, <2>3 DEF Evaluate
<1>2. CASE ps.current \notin Terminal
  <2>1. ps.current \in {NOT_NEAR_SINK, NEAR_SINK_NOT_WASHING, WASHING}
    BY <1>2 DEF PersonStates, HandwashState
  <2>2. QED
    BY <2>1, ZoneExitFollows, WashingFollows, NearSinkFollows DEF Evaluate
<1>3. QED
  BY <1>1, <1>2

(* One person in one frame, from the stored record to the result. *)
LEMMA EvaluatePersonFollows ==
  ASSUME NEW ps \in PersonRecords, NEW buf \in Buffers \cup {NoBuffer}, NEW obs,
         NEW t \in Nat, NEW f, obs.real => f \in Nat, PersonInv(ps, buf), NEW fresh \in Groups
  PROVE  Follows(ps, fresh, EvaluatePerson(ps, buf, obs, fresh, t, f))
<1> DEFINE next == MovedRecord(ps, buf, obs, t, f)
           res  == Evaluate(next, buf, fresh, t)
<1>1. next \in PersonStates /\ Moved(next, buf) /\ SameVisit(next, ps)
  BY MoveKeeps
<1>2. EvaluatePerson(ps, buf, obs, fresh, t, f) = res
  BY DEF EvaluatePerson, MovedRecord
<1> HIDE DEF next
<1>3. Follows(next, fresh, res)
  BY <1>1, EvaluateFollows
<1> HIDE DEF res
<1>4. Follows(ps, fresh, res)
  BY <1>1, <1>3 DEF Follows, SameVisit
<1>5. QED
  BY <1>2, <1>4

----------------------------------------------------------------------------
(* The invariant of the engine *)

Paired == \A p \in Persons : PersonInv(store[p], buffers[p])

OpenGroupsPast ==
  \A p \in Persons : IsOpen(store[p]) => store[p].group.owner = p /\ Past(store[p].group)

AlertsPast ==
  \A a \in alerts : a.group # Unknown =>
    a.group \in Groups /\ a.group.owner = a.person /\ Past(a.group)

(* A process that goes on has not alerted a visit that is still open. *)
OpenNotAlerted ==
  phase # "stopped" =>
    \A p \in Persons : IsOpen(store[p]) => \A a \in alerts : a.group # store[p].group

VisitInv ==
  /\ TypeOK
  /\ Paired
  /\ OpenGroupsPast
  /\ AlertsPast
  /\ OpenNotAlerted
  /\ OneAlertPerVisit

(* The results of an event follow from the state it found, for everyone.   *)
LEMMA ResultsFollow ==
  ASSUME TypeOK, Paired, NEW sights \in [Persons -> Sightings],
         NEW t \in Nat, NEW f, NEW by \in {"process", "flush"},
         \A p \in Persons : sights[p] # "unseen" => f \in Nat
  PROVE  \A p \in Persons :
           Follows(store[p], FreshGroup(p, Stamp(t, by)), Results(sights, store, t, f, by)[p])
<1> SUFFICES ASSUME NEW p \in Persons
             PROVE  Follows(store[p], FreshGroup(p, Stamp(t, by)), Results(sights, store, t, f, by)[p])
  OBVIOUS
<1> DEFINE fresh == FreshGroup(p, Stamp(t, by))
           obs   == ObservationOf(sights[p], store[p], f)
<1>1. fresh \in Groups
  BY StampType DEF FreshGroup, Groups
<1>2. store[p] \in PersonRecords /\ buffers[p] \in Buffers \cup {NoBuffer}
  BY DEF TypeOK, StateTypeOK, PersonRecords
<1>3. PersonInv(store[p], buffers[p])
  BY DEF Paired
<1>4. obs.real => f \in Nat
  BY DEF ObservationOf
<1>5. Results(sights, store, t, f, by)[p] =
        IF HasObservation(sights[p], store[p], f)
        THEN EvaluatePerson(store[p], buffers[p], obs, fresh, t, f)
        ELSE Keep(store[p], buffers[p])
  BY DEF Results, FreshGroup
<1> HIDE DEF fresh, obs
<1>6. Follows(store[p], fresh, EvaluatePerson(store[p], buffers[p], obs, fresh, t, f))
  BY <1>1, <1>2, <1>3, <1>4, EvaluatePersonFollows
<1>7. Follows(store[p], fresh, Keep(store[p], buffers[p]))
  BY <1>3, KeepFollows
<1>8. Follows(store[p], fresh, Results(sights, store, t, f, by)[p])
  BY <1>5, <1>6, <1>7
<1>9. QED
  BY <1>8 DEF fresh

(* The alert an event raises for a person. *)
AlertOf(res, made, p) ==
  [group |-> PublishedGroup(res[p].person.group), person |-> p, made |-> made]

(* A violation with a group is raised for the visit that was open.         *)
LEMMA ViolationFollows ==
  ASSUME TypeOK, NEW res, NEW made, NEW p \in Persons,
         Follows(store[p], FreshGroup(p, made), res[p]), res[p].result = "VIOLATION"
  PROVE  /\ ~IsOpen(res[p].person)
         /\ AlertOf(res, made, p).group # Unknown =>
              /\ IsOpen(store[p])
              /\ AlertOf(res, made, p).group = store[p].group
              /\ store[p].group \in Groups
<1> DEFINE g == res[p].person.group
<1>1. ~IsOpen(res[p].person) /\ g # None
  BY DEF Follows
<1>2. CASE g = Missing
  BY <1>1, <1>2 DEF AlertOf, PublishedGroup
<1>3. CASE g # Missing
  <2>1. IsOpen(store[p]) /\ g = store[p].group
    BY <1>1, <1>3 DEF Follows, HasGroup
  <2>2. AlertOf(res, made, p).group = g
    BY <1>3 DEF AlertOf, PublishedGroup
  <2>3. store[p].group \in Groups
    BY <2>1 DEF TypeOK, StateTypeOK, PersonStates, GroupIds, IsOpen, HasGroup
  <2>4. QED
    BY <1>1, <2>1, <2>2, <2>3
<1>4. QED
  BY <1>2, <1>3

(* What becomes of the alerts when some violations of an event are told:   *)
(* none of them repeats a visit, and none of them is of a later visit.     *)
LEMMA AlertsFollow ==
  ASSUME VisitInv, phase # "stopped", NEW res, NEW made, NEW told \in SUBSET Violators(res),
         \A p \in Persons : Follows(store[p], FreshGroup(p, made), res[p]),
         alerts' = alerts \cup {AlertOf(res, made, p) : p \in told},
         \A g \in Groups : Past(g) => Past(g)'
  PROVE  OneAlertPerVisit' /\ AlertsPast'
<1>1. ASSUME NEW p \in told, AlertOf(res, made, p).group # Unknown
      PROVE  /\ p \in Persons
             /\ AlertOf(res, made, p).group \in Groups
             /\ AlertOf(res, made, p).group.owner = p
             /\ AlertOf(res, made, p).person = p
             /\ Past(AlertOf(res, made, p).group)
             /\ \A a \in alerts : a.group # AlertOf(res, made, p).group
  <2>1. p \in Persons /\ res[p].result = "VIOLATION"
    BY DEF Violators
  <2>2. /\ IsOpen(store[p])
        /\ AlertOf(res, made, p).group = store[p].group
        /\ store[p].group \in Groups
    BY <1>1, <2>1, ViolationFollows DEF VisitInv
  <2>3. AlertOf(res, made, p).person = p
    BY DEF AlertOf
  <2>4. QED
    BY <2>1, <2>2, <2>3 DEF VisitInv, OpenGroupsPast, OpenNotAlerted
<1>2. AlertsPast'
  BY <1>1 DEF VisitInv, AlertsPast
<1>3. ASSUME NEW a \in alerts', NEW b \in alerts', a.group = b.group, a.group # Unknown
      PROVE  a = b
  <2>1. CASE a \in alerts /\ b \in alerts
    BY <1>3, <2>1 DEF VisitInv, OneAlertPerVisit
  <2>2. CASE a \in alerts /\ b \notin alerts
    <3>1. PICK p \in told : b = AlertOf(res, made, p)
      BY <2>2
    <3>2. QED
      BY <1>1, <1>3, <2>2, <3>1
  <2>3. CASE a \notin alerts /\ b \in alerts
    <3>1. PICK p \in told : a = AlertOf(res, made, p)
      BY <2>3
    <3>2. QED
      BY <1>1, <1>3, <2>3, <3>1
  <2>4. CASE a \notin alerts /\ b \notin alerts
    <3>1. PICK p \in told : a = AlertOf(res, made, p)
      BY <2>4
    <3>2. PICK q \in told : b = AlertOf(res, made, q)
      BY <2>4
    <3>3. p = q
      BY <1>1, <1>3, <3>1, <3>2
    <3>4. QED
      BY <3>1, <3>2, <3>3
  <2>5. QED
    BY <2>1, <2>2, <2>3, <2>4
<1>4. OneAlertPerVisit'
  BY <1>3 DEF OneAlertPerVisit
<1>5. QED
  BY <1>2, <1>4

(* A completed event keeps the invariant, if the groups it gives out are   *)
(* new: everyone's record and buffer are replaced together.                *)
LEMMA CompleteFollows ==
  ASSUME VisitInv, ~Durable, phase # "stopped", NEW sights \in [Persons -> Sightings],
         NEW t \in Nat, NEW f, NEW by \in {"process", "flush"}, NEW writes \in WriteOutcomes,
         \A p \in Persons : sights[p] # "unseen" => f \in Nat,
         Complete(sights, t, f, by, writes),
         \A g \in Groups : Past(g) => Past(g)',
         NEW made, made = Stamp(t, by),
         \A p : ~Past(FreshGroup(p, made)) /\ Past(FreshGroup(p, made))'
  PROVE  Paired' /\ OpenGroupsPast' /\ AlertsPast' /\ OpenNotAlerted' /\ OneAlertPerVisit'
<1> DEFINE res == Results(sights, store, t, f, by)
<1>1. ZoneState(t) = store /\ writes = TRUE
  BY DEF ZoneState, WriteOutcomes
<1>2. \A p \in Persons : Follows(store[p], FreshGroup(p, made), res[p])
  BY ResultsFollow DEF VisitInv
<1>3. buffers' = [p \in Persons |-> res[p].buffer]
  BY <1>1 DEF Complete
<1>4. store' = [p \in Persons |-> res[p].person]
  <2>1. CASE \E p \in Persons : HasObservation(sights[p], store[p], f)
    BY <1>1, <2>1 DEF Complete, Save
  <2>2. CASE ~\E p \in Persons : HasObservation(sights[p], store[p], f)
    <3>1. store' = store
      BY <1>1, <2>2 DEF Complete, Save
    <3>2. \A p \in Persons : res[p].person = store[p]
      BY <2>2 DEF Results, Keep
    <3>3. store = [p \in Persons |-> store[p]]
      BY DEF VisitInv, TypeOK, StateTypeOK
    <3> HIDE DEF res
    <3>4. QED
      BY <3>1, <3>2, <3>3
  <2>3. QED
    BY <2>1, <2>2
<1>5. alerts' = alerts \cup {AlertOf(res, made, p) : p \in Violators(res)}
  BY <1>1 DEF Complete, Publish, AlertOf
<1> HIDE DEF res
<1>6. OneAlertPerVisit' /\ AlertsPast'
  BY <1>2, <1>5, AlertsFollow
<1>7. Paired'
  BY <1>2, <1>3, <1>4 DEF Paired, Follows
<1>8. ASSUME NEW p \in Persons, IsOpen(res[p].person)
      PROVE  \/ res[p].person.group = FreshGroup(p, made)
             \/ IsOpen(store[p]) /\ res[p].person.group = store[p].group
  BY <1>2, <1>8 DEF Follows
<1>9. OpenGroupsPast'
  <2>1. ASSUME NEW p \in Persons, IsOpen(store[p])', NEW g, g = store'[p].group
        PROVE  g.owner = p /\ Past(g)'
    <3>1. IsOpen(res[p].person) /\ g = res[p].person.group
      BY <1>4, <2>1 DEF IsOpen, HasGroup
    <3>2. CASE g = FreshGroup(p, made)
      BY <3>2 DEF FreshGroup
    <3>3. CASE IsOpen(store[p]) /\ g = store[p].group
      <4>1. g \in Groups
        BY <3>3 DEF VisitInv, TypeOK, StateTypeOK, PersonStates, GroupIds, IsOpen, HasGroup
      <4>2. QED
        BY <3>3, <4>1 DEF VisitInv, OpenGroupsPast
    <3>4. QED
      BY <1>8, <3>1, <3>2, <3>3
  <2>2. QED
    BY <2>1 DEF OpenGroupsPast, Past
<1>10. OpenNotAlerted'
  <2>1. ASSUME NEW p \in Persons, IsOpen(res[p].person),
               NEW a \in alerts', a.group = res[p].person.group
        PROVE  FALSE
    <3>1. FreshGroup(p, made) \in Groups /\ ~Past(FreshGroup(p, made))
      BY StampType DEF VisitInv, FreshGroup, Groups
    <3>2. IsOpen(store[p]) =>
            store[p].group \in Groups /\ store[p].group.owner = p /\ Past(store[p].group)
      BY DEF VisitInv, OpenGroupsPast, TypeOK, StateTypeOK, PersonStates, GroupIds, IsOpen, HasGroup
    <3>3. a.group \in Groups /\ a.group # Unknown
      BY <1>8, <2>1, <3>1, <3>2, SpecialValues
    <3>4. CASE a \in alerts
      <4>1. Past(a.group)
        BY <3>3, <3>4 DEF VisitInv, AlertsPast
      <4>2. QED
        BY <1>8, <2>1, <3>1, <3>4, <4>1 DEF VisitInv, OpenNotAlerted
    <3>5. CASE a \notin alerts
      <4>1. PICK q \in Violators(res) : a = AlertOf(res, made, q)
        BY <1>5, <3>5
      <4>2. q \in Persons /\ res[q].result = "VIOLATION"
        BY <4>1 DEF Violators
      <4>3. ~IsOpen(res[q].person) /\ IsOpen(store[q]) /\ a.group = store[q].group
        BY <1>2, <3>3, <4>1, <4>2, ViolationFollows DEF VisitInv
      <4>4. a.group.owner = q /\ Past(a.group)
        BY <4>2, <4>3 DEF VisitInv, OpenGroupsPast
      <4>5. QED
        BY <1>8, <2>1, <3>1, <3>2, <4>3, <4>4
    <3>6. QED
      BY <3>4, <3>5
  <2>2. QED
    BY <1>4, <2>1 DEF OpenNotAlerted
<1>11. QED
  BY <1>6, <1>7, <1>9, <1>10

(* Every step of the in-memory engine keeps the invariant. *)
LEMMA VisitStep ==
  ASSUME VisitInv, ~Durable, Next
  PROVE  VisitInv'
<1>1. TypeOK'
  BY TypeStep DEF VisitInv
<1>2. ASSUME NEW sights \in [Persons -> Sightings], NEW df \in 1..MaxSkip,
             NEW dt \in df..MaxGap, Process(sights, df, dt)
      PROVE  VisitInv'
  <2>1. PICK writes \in WriteOutcomes :
          Complete(sights, now + dt, frame + df, "process", writes)
    BY <1>2 DEF Process
  <2>2. PICK made : made = Stamp(now + dt, "process")
    OBVIOUS
  <2>3. /\ now + dt \in Nat /\ frame + df \in Nat /\ now + dt > now
        /\ now' = now + dt /\ boot' = boot /\ phase # "stopped"
    BY <1>2, ArrivesType DEF Process, Arrives, VisitInv
  <2>4. \A g \in Groups : Past(g) => Past(g)'
    BY <2>3, PastStays DEF VisitInv, TypeOK, ProcessTypeOK
  <2>5. \A p : ~Past(FreshGroup(p, made)) /\ Past(FreshGroup(p, made))'
    BY <2>2, <2>3, StampIsNew DEF VisitInv
  <2>6. QED
    BY <1>1, <2>1, <2>2, <2>3, <2>4, <2>5, CompleteFollows DEF VisitInv
<1>3. ASSUME NEW sights \in [Persons -> Sightings], NEW df \in 1..MaxSkip,
             NEW dt \in df..MaxGap, DieMidFrame(sights, df, dt)
      PROVE  VisitInv'
  <2> DEFINE t   == now + dt
             f   == frame + df
             res == Results(sights, store, t, f, "process")
  <2>1. /\ t \in Nat /\ f \in Nat /\ t > now
        /\ now' = t /\ boot' = boot /\ phase # "stopped" /\ phase' = "stopped"
    BY <1>3, ArrivesType DEF DieMidFrame, Arrives, VisitInv
  <2>2. ZoneState(t) = store
    BY DEF ZoneState
  <2>3. PICK done \in SUBSET Persons :
          alerts' = alerts \cup
            {AlertOf(res, Stamp(t, "process"), p) : p \in Violators(res) \cap done}
    <3>1. PICK done \in SUBSET Persons : \E shown \in SUBSET Persons :
            Publish(res, Stamp(t, "process"), Violators(res) \cap (done \cup shown),
                    Violators(res) \cap done)
      BY <1>3, <2>2 DEF DieMidFrame
    <3> HIDE DEF res, t
    <3>2. QED
      BY <3>1 DEF Publish, AlertOf
  <2>4. store' = store /\ buffers' = buffers
    BY <1>3, <2>2 DEF DieMidFrame
  <2>5. \A p \in Persons : Follows(store[p], FreshGroup(p, Stamp(t, "process")), res[p])
    BY <2>1, ResultsFollow DEF VisitInv
  <2>6. \A g \in Groups : Past(g) => Past(g)'
    BY <2>1, PastStays DEF VisitInv, TypeOK, ProcessTypeOK
  <2> HIDE DEF t, f, res
  <2>7. PICK made : made = Stamp(t, "process")
    OBVIOUS
  <2>8. OneAlertPerVisit' /\ AlertsPast'
    BY <2>1, <2>3, <2>5, <2>6, <2>7, AlertsFollow
  <2>9. Paired' /\ OpenNotAlerted'
    BY <2>1, <2>4 DEF VisitInv, Paired, OpenNotAlerted
  <2>10. OpenGroupsPast'
    <3>1. \A p \in Persons : IsOpen(store[p]) => store[p].group \in Groups
      BY DEF VisitInv, TypeOK, StateTypeOK, PersonStates, GroupIds, IsOpen, HasGroup
    <3>2. \A p \in Persons : IsOpen(store[p]) =>
            \E g \in Groups : g = store[p].group /\ g.owner = p /\ Past(g)'
      BY <2>6, <3>1 DEF VisitInv, OpenGroupsPast
    <3>3. QED
      BY <2>4, <3>2 DEF OpenGroupsPast, Past, IsOpen, HasGroup
  <2>11. QED
    BY <1>1, <2>8, <2>9, <2>10 DEF VisitInv
<1>4. ASSUME Flush
      PROVE  VisitInv'
  <2>1. /\ phase = "streaming" /\ phase' = "stopped" /\ boot' = boot /\ now' = now
        /\ now \in Nat
    BY <1>4 DEF Flush, VisitInv, TypeOK, ProcessTypeOK
  <2>2. CASE \A p \in Persons : ZoneState(now)[p] = NoPerson
    <3>1. store' = store /\ buffers' = buffers /\ alerts' = alerts
      BY <1>4, <2>2 DEF Flush, output
    <3>2. QED
      BY <1>1, <2>1, <3>1 DEF VisitInv, Paired, OpenGroupsPast, AlertsPast, OpenNotAlerted,
                              OneAlertPerVisit, Past, IsOpen, HasGroup
  <2>3. CASE ~\A p \in Persons : ZoneState(now)[p] = NoPerson
    <3> DEFINE sights == [p \in Persons |-> "unseen"]
    <3>1. PICK writes \in WriteOutcomes :
            Complete(sights, now, FlushFrame(ZoneState(now)), "flush", writes)
      BY <1>4, <2>3 DEF Flush
    <3>2. sights \in [Persons -> Sightings] /\ \A p \in Persons : sights[p] = "unseen"
      BY DEF Sightings
    <3>3. \A g \in Groups : Past(g) => Past(g)'
      BY <2>1, PastStays DEF VisitInv
    <3>4. PICK made : made = Stamp(now, "flush")
      OBVIOUS
    <3>5. \A p : ~Past(FreshGroup(p, made)) /\ Past(FreshGroup(p, made))'
      BY <2>1, <3>4, StampIsNew DEF VisitInv
    <3> HIDE DEF sights
    <3>6. QED
      BY <1>1, <2>1, <3>1, <3>2, <3>3, <3>4, <3>5, CompleteFollows DEF VisitInv
  <2>4. QED
    BY <2>2, <2>3
<1>5. ASSUME Die
      PROVE  VisitInv'
  BY <1>1, <1>5 DEF Die, output, VisitInv, Paired, OpenGroupsPast, AlertsPast, OpenNotAlerted,
                    OneAlertPerVisit, Past, IsOpen, HasGroup
<1>6. ASSUME NEW back \in 0..MaxStepBack, Restart(back)
      PROVE  VisitInv'
  <2>1. /\ boot' = boot + 1 /\ alerts' = alerts
        /\ store' = [p \in Persons |-> NoPerson]
        /\ buffers' = [p \in Persons |-> NoBuffer]
    BY <1>6 DEF Restart, output
  <2>2. Paired' /\ OpenGroupsPast' /\ OpenNotAlerted'
    BY <2>1 DEF Paired, OpenGroupsPast, OpenNotAlerted, PersonInv, Linked, IsOpen, Live
  <2>3. \A g \in Groups : Past(g) => Past(g)'
    <3>1. boot \in Nat /\ \A g \in Groups : g.made.boot \in Nat
      BY DEF VisitInv, TypeOK, ProcessTypeOK, Groups, Stamps
    <3>2. QED
      BY <2>1, <3>1 DEF Past
  <2>4. AlertsPast' /\ OneAlertPerVisit'
    BY <2>1, <2>3 DEF VisitInv, AlertsPast, OneAlertPerVisit
  <2>5. QED
    BY <1>1, <2>2, <2>4 DEF VisitInv
<1>7. ASSUME NEW df \in 1..MaxSkip, NEW dt \in df..MaxGap, ProcessReadFails(df, dt)
      PROVE  VisitInv'
  BY <1>7 DEF ProcessReadFails
<1>8. QED
  BY <1>2, <1>3, <1>4, <1>5, <1>6, <1>7 DEF Next

(* The invariant holds throughout. *)
LEMMA VisitInvariant ==
  ASSUME ~Durable
  PROVE  Spec => []VisitInv
<1>1. Init => VisitInv
  <2>1. ASSUME Init
        PROVE  TypeOK
    BY <2>1 DEF Init, TypeOK, ProcessTypeOK, StateTypeOK, OutputTypeOK, HistoryTypeOK
  <2>2. QED
    BY <2>1 DEF Init, VisitInv, Paired, OpenGroupsPast, AlertsPast, OpenNotAlerted, OneAlertPerVisit,
                PersonInv, Linked, IsOpen, Live
<1>2. VisitInv /\ [Next]_vars => VisitInv'
  <2>1. ASSUME VisitInv, UNCHANGED vars
        PROVE  VisitInv'
    BY <2>1 DEF vars, process, output, history, VisitInv, TypeOK, ProcessTypeOK, StateTypeOK,
                OutputTypeOK, HistoryTypeOK, Paired, OpenGroupsPast, AlertsPast, OpenNotAlerted,
                OneAlertPerVisit, Past, IsOpen, HasGroup
  <2>2. QED
    BY <2>1, VisitStep
<1>3. QED
  BY <1>1, <1>2, PTL DEF Spec

----------------------------------------------------------------------------
(* Theorems: visits, buffers and alerts *)

(* Visits and evidence buffers live and die together: whatever is seen or  *)
(* not seen of any number of persons, and wherever the process dies, an    *)
(* open visit has a live buffer of its own and no live buffer is without   *)
(* its visit.                                                              *)
THEOREM BuffersFollowVisits ==
  ASSUME ~Durable
  PROVE  Spec => []LiveBufferIffOpen
<1>1. VisitInv => LiveBufferIffOpen
  BY DEF VisitInv, Paired, PersonInv, Linked, LiveBufferIffOpen
<1>2. QED
  BY <1>1, VisitInvariant, PTL

(* No visit is alerted twice, over any number of events, crashes within an *)
(* event and restarts, whatever the clock does at a restart.               *)
THEOREM VisitsAlertedOnce ==
  ASSUME ~Durable
  PROVE  Spec => []OneAlertPerVisit
<1>1. VisitInv => OneAlertPerVisit
  BY DEF VisitInv
<1>2. QED
  BY <1>1, VisitInvariant, PTL

----------------------------------------------------------------------------
(* What becomes of an open visit, and when *)

(* What a moved record takes over from the stored one: an open visit goes  *)
(* on with its pending exit, and the record is away from the sink exactly  *)
(* when the person is.                                                     *)
Carries(next, ps, obs, t, f) ==
  /\ next.current = NOT_NEAR_SINK <=> ~obs.inside
  /\ next.pending # None => ps # NoPerson /\ next.pending = ps.pending
  /\ IsOpen(ps) => IsOpen(next) /\ next.group = ps.group /\ next.pending = ps.pending
  /\ HasGroup(next) => ps # NoPerson /\ HasGroup(ps)
  /\ next.lastFrame = IF obs.real THEN f ELSE Loaded(ps, t).lastFrame

LEMMA MoveCarries ==
  ASSUME NEW ps \in PersonRecords, NEW buf \in Buffers \cup {NoBuffer}, NEW obs,
         NEW t \in Nat, NEW f, obs.real => f \in Nat, PersonInv(ps, buf)
  PROVE  Carries(MovedRecord(ps, buf, obs, t, f), ps, obs, t, f)
<1>0. NoPerson \notin PersonStates
  BY SpecialValues
<1> DEFINE old  == Loaded(ps, t)
           seen == Seen(old, obs, f)
           base == VisitState(seen, buf, obs, t)
           new  == NextState(seen.current, obs)
           next == UpdateState(base, new, t)
<1>1. InitialPersonState(t) \in PersonStates
  BY InitialType
<1>2. /\ old \in PersonStates /\ PersonInv(old, buf)
      /\ HasGroup(old) => ps # NoPerson /\ HasGroup(ps)
      /\ old.pending # None => ps # NoPerson
      /\ ps # NoPerson => old = ps
  <2>1. CASE ps = NoPerson
    BY <1>0, <1>1, <2>1, Distinct DEF Loaded, PersonInv, Settled, Linked, IsOpen, HasGroup,
                                      InitialPersonState
  <2>2. CASE ps # NoPerson
    BY <2>2 DEF Loaded, PersonRecords
  <2>3. QED
    BY <2>1, <2>2
<1> HIDE DEF old
<1>3. /\ seen \in PersonStates
      /\ seen.current = old.current /\ seen.group = old.group /\ seen.pending = old.pending
      /\ seen.confirmed = old.confirmed
      /\ seen.lastFrame = IF obs.real THEN f ELSE old.lastFrame
  BY <1>2 DEF Seen, PersonStates
<1> HIDE DEF seen
<1>4. seen.current \in HandwashState /\ new \in HandwashState /\ base \in PersonStates
  <2>1. [InitialPersonState(t) EXCEPT !.lastFrame = seen.lastFrame] \in PersonStates
    BY <1>1, <1>3 DEF PersonStates
  <2>2. QED
    BY <1>3, <2>1, NextStateType DEF PersonStates, VisitState
<1>5. /\ next \in PersonStates /\ next.current = new
      /\ next.confirmed = base.confirmed /\ next.group = base.group
      /\ next.pending = base.pending /\ next.lastFrame = base.lastFrame
  BY <1>4, UpdateType, UpdateFields
<1>6. new = NOT_NEAR_SINK <=> ~obs.inside
  BY DEF NextState
<1> SUFFICES Carries(next, ps, obs, t, f)
  BY DEF old, seen, MovedRecord
<1> HIDE DEF base, new, next
<1>7. CASE OpensFreshVisit(seen, buf, obs)
  <2>1. base = [InitialPersonState(t) EXCEPT !.lastFrame = seen.lastFrame]
    BY <1>7 DEF VisitState, base
  <2>2. base.pending = None /\ base.group = Missing /\ base.lastFrame = seen.lastFrame
    BY <1>1, <2>1 DEF InitialPersonState, PersonStates
  <2>3. ~IsOpen(old)
    BY <1>2, <1>3, <1>7, <1>0 DEF OpensFreshVisit, StartsNewVisit, PersonInv, Settled, Linked, IsOpen
  <2>4. ~IsOpen(ps)
    BY <1>2, <2>3 DEF IsOpen
  <2>5. QED
    BY <1>3, <1>5, <1>6, <2>2, <2>4, Distinct DEF Carries, HasGroup, old
<1>8. CASE ~OpensFreshVisit(seen, buf, obs)
  <2>1. base = seen
    BY <1>8 DEF VisitState, base
  <2>2. HasGroup(next) <=> HasGroup(old)
    BY <1>3, <1>5, <2>1 DEF HasGroup
  <2>3. IsOpen(ps) => IsOpen(next) /\ next.group = ps.group /\ next.pending = ps.pending
    BY <1>0, <1>2, <1>3, <1>5, <2>1 DEF IsOpen, HasGroup
  <2>4. next.pending # None => ps # NoPerson /\ next.pending = ps.pending
    BY <1>2, <1>3, <1>5, <2>1
  <2>5. next.lastFrame = IF obs.real THEN f ELSE old.lastFrame
    BY <1>3, <1>5, <2>1
  <2>6. QED
    BY <1>2, <1>5, <1>6, <2>2, <2>3, <2>4, <2>5 DEF Carries, old
<1>9. QED
  BY <1>7, <1>8

(* The exit of an open visit is over: it has been pending for the cooldown. *)
Overdue(pending, t) == pending # None /\ t - pending >= Cooldown

(* What the rule concludes from a moved record: an open visit stays open   *)
(* until its exit is overdue, and is then judged under its own group; a    *)
(* violation of a visit with a group comes with evidence; no exit is left  *)
(* pending that is overdue.                                                *)
Concludes(ps, t, res) ==
  /\ res.result = None /\ IsOpen(ps) => IsOpen(res.person) /\ res.person.group = ps.group
  /\ res.result # None =>
       /\ ps.current = NOT_NEAR_SINK
       /\ ~IsOpen(res.person)
       /\ res.closed = IF IsOpen(ps) THEN ps.group ELSE Missing
       /\ IsOpen(ps) => Overdue(ps.pending, t)
  /\ res.result = "VIOLATION" =>
       /\ res.person.group = res.closed
       /\ IsOpen(ps) => res.evidence # NoEvidence
  /\ res.person.pending # None =>
       /\ ps.current = NOT_NEAR_SINK
       /\ \/ res.person.pending = t
          \/ res.person.pending = ps.pending /\ ~Overdue(ps.pending, t)
  /\ HasGroup(res.person) => HasGroup(ps) \/ ps.current # NOT_NEAR_SINK
  /\ res.person.lastFrame = ps.lastFrame

(* A result without a verdict. *)
LEMMA KeepConcludes ==
  ASSUME NEW ps, NEW t, NEW next, NEW buf,
         IsOpen(ps) => IsOpen(next) /\ next.group = ps.group,
         next.pending # None =>
           /\ ps.current = NOT_NEAR_SINK
           /\ \/ next.pending = t
              \/ next.pending = ps.pending /\ ~Overdue(ps.pending, t),
         HasGroup(next) => HasGroup(ps) \/ ps.current # NOT_NEAR_SINK,
         next.lastFrame = ps.lastFrame
  PROVE  Concludes(ps, t, Keep(next, buf))
BY Distinct DEF Keep, Concludes

(* A verdict on a record of someone away who waits for nothing, or has     *)
(* waited long enough (over is the record without its pending exit).       *)
LEMMA VerdictConcludes ==
  ASSUME NEW ps \in PersonStates, NEW over \in PersonStates, NEW buf \in Buffers \cup {NoBuffer},
         NEW t \in Nat, ps.current = NOT_NEAR_SINK, ps.group # None, ~ps.confirmed, Linked(ps, buf),
         over.group = ps.group, over.pending = None, over.lastFrame = ps.lastFrame,
         HasGroup(ps) => Overdue(ps.pending, t)
  PROVE  Concludes(ps, t, Verdict(over, buf, t))
<1> USE DEF PersonStates, ResetVisit
<1>1. IsOpen(ps) <=> HasGroup(ps)
  BY Distinct DEF IsOpen
<1>2. ps.group = IF IsOpen(ps) THEN ps.group ELSE Missing
  BY <1>1 DEF HasGroup
<1>3. Concludes(ps, t, CompliantExit(over))
  <2>1. /\ CompliantExit(over).person.group = None
        /\ CompliantExit(over).person.pending = None
        /\ CompliantExit(over).person.lastFrame = ps.lastFrame
        /\ CompliantExit(over).result = "COMPLIANT"
        /\ CompliantExit(over).closed = ps.group
    BY DEF CompliantExit, DiscardBuffer
  <2>2. QED
    BY <1>1, <1>2, <2>1, Distinct DEF Concludes, IsOpen, HasGroup
<1>4. Concludes(ps, t, ConfirmViolation(over, buf))
  <2> DEFINE res == ConfirmViolation(over, buf)
  <2>1. /\ res.person.group = ps.group
        /\ res.person.confirmed = TRUE
        /\ res.person.pending = None
        /\ res.person.lastFrame = ps.lastFrame
        /\ res.result = "VIOLATION"
        /\ res.closed = ps.group
    BY DEF ConfirmViolation
  <2>2. IsOpen(ps) => res.evidence # NoEvidence
    <3>1. ASSUME IsOpen(ps)
          PROVE  res.evidence \in Payloads
      <4>1. Live(buf)
        BY <3>1 DEF Linked
      <4>2. res.evidence = [group |-> buf.group, items |-> buf.items]
        BY <4>1 DEF ConfirmViolation
      <4>3. buf \in Buffers
        BY <4>1, LiveType
      <4>4. QED
        BY <4>2, <4>3 DEF Buffers, Payloads
    <3>2. QED
      BY <3>1, SpecialValues
  <2> HIDE DEF res
  <2>3. QED
    BY <1>1, <1>2, <2>1, <2>2, Distinct DEF Concludes, IsOpen, HasGroup, res
<1>5. QED
  BY <1>3, <1>4 DEF Verdict

(* Away from the sink.  A pending exit in the future is a leftover of a    *)
(* stepped back clock, which the in-memory state does not survive.         *)
LEMMA ZoneExitConcludes ==
  ASSUME NEW ps \in PersonStates, NEW buf \in Buffers \cup {NoBuffer}, NEW t \in Nat,
         Moved(ps, buf), ps.current = NOT_NEAR_SINK, ps.pending # None => ps.pending <= t
  PROVE  Concludes(ps, t, HandleZoneExit(ps, buf, t))
<1> DEFINE waiting == [ps EXCEPT !.pending = t]
           over    == [ps EXCEPT !.pending = None]
<1>1. ~ps.confirmed /\ Linked(ps, buf) /\ (ps.pending # None => HasGroup(ps))
  BY DEF Moved
<1>2. ps.pending \in Nat \cup {None}
  BY DEF PersonStates
<1>3. CASE ~HasGroup(ps) /\ ~ApproachedSink(ps, t)
  <2>1. /\ ResetVisit(ps).group = ps.group /\ ResetVisit(ps).pending = None
        /\ ResetVisit(ps).lastFrame = ps.lastFrame
    BY <1>1, <1>3 DEF ResetVisit, PersonStates
  <2>2. ~IsOpen(ps) /\ ~HasGroup(ResetVisit(ps))
    BY <1>3, <2>1 DEF IsOpen, HasGroup
  <2>3. Concludes(ps, t, Keep(ResetVisit(ps), buf))
    BY <2>1, <2>2, KeepConcludes
  <2>4. QED
    BY <1>1, <1>3, <2>3 DEF HandleZoneExit
<1>4. CASE ~HasGroup(ps) /\ ApproachedSink(ps, t)
  <2>1. ps.pending = None /\ ps.group # None
    BY <1>4 DEF Moved, Cleared, ApproachedSink, WashingDuration, AtSinkDuration, PersonStates
  <2>2. QED
    BY <1>1, <1>4, <2>1, VerdictConcludes DEF HandleZoneExit
<1>5. CASE HasGroup(ps) /\ ps.pending = None
  <2>1. /\ waiting \in PersonStates /\ waiting.group = ps.group /\ waiting.pending = t
        /\ waiting.confirmed = ps.confirmed /\ waiting.lastFrame = ps.lastFrame
    BY DEF PersonStates
  <2> HIDE DEF waiting
  <2>2. IsOpen(waiting)
    BY <1>1, <1>5, <2>1, Distinct DEF IsOpen, HasGroup
  <2>3. Concludes(ps, t, Keep(waiting, buf))
    BY <1>5, <2>1, <2>2, KeepConcludes
  <2>4. QED
    BY <1>1, <1>5, <2>3 DEF HandleZoneExit, waiting
<1>6. CASE HasGroup(ps) /\ ps.pending # None
  <2>1. ps.pending \in Nat /\ ~(t < ps.pending)
    BY <1>2, <1>6
  <2>2. CASE t - ps.pending < Cooldown
    <3>1. ~Overdue(ps.pending, t)
      BY <2>1, <2>2, RuleConfigOK DEF Overdue
    <3>2. Concludes(ps, t, Keep(ps, buf))
      BY <3>1, KeepConcludes
    <3>3. QED
      BY <1>1, <1>6, <2>1, <2>2, <3>2 DEF HandleZoneExit
  <2>3. CASE ~(t - ps.pending < Cooldown)
    <3>1. Overdue(ps.pending, t)
      BY <1>6, <2>1, <2>3, RuleConfigOK DEF Overdue
    <3>2. /\ over \in PersonStates /\ over.group = ps.group /\ over.pending = None
          /\ over.lastFrame = ps.lastFrame
      BY DEF PersonStates
    <3>3. ps.group # None
      BY <1>6 DEF HasGroup
    <3> HIDE DEF over
    <3>4. Concludes(ps, t, Verdict(over, buf, t))
      BY <1>1, <3>1, <3>2, <3>3, VerdictConcludes
    <3>5. QED
      BY <1>1, <1>6, <2>1, <2>3, <3>4 DEF HandleZoneExit, over
  <2>4. QED
    BY <2>2, <2>3
<1>7. QED
  BY <1>3, <1>4, <1>5, <1>6

(* At the sink nothing is judged, and no exit is left pending. *)
LEMMA AtSinkConcludes ==
  ASSUME NEW ps \in PersonStates, NEW buf \in Buffers \cup {NoBuffer}, NEW t \in Nat,
         NEW fresh \in Groups, Moved(ps, buf)
  PROVE  /\ ps.current = WASHING => Concludes(ps, t, HandleWashingActive(ps, buf, fresh, t))
         /\ ps.current = NEAR_SINK_NOT_WASHING =>
              Concludes(ps, t, HandleNearSinkNotWashing(ps, buf, fresh, t))
<1> DEFINE back    == [ps EXCEPT !.pending = None, !.absence = 0]
           washing == [back EXCEPT !.group = fresh]
           counted == [ps EXCEPT !.absence = ps.absence + 1]
           opened  == [counted EXCEPT !.group = fresh]
           new     == BufferAdd(NewBuffer(fresh), t)
<1>1. Linked(ps, buf) /\ (ps.pending # None => HasGroup(ps))
  BY DEF Moved
<1>2. /\ back.group = ps.group /\ back.pending = None /\ back.confirmed = ps.confirmed
      /\ back.lastFrame = ps.lastFrame /\ back \in PersonStates
      /\ washing.pending = None /\ washing.lastFrame = ps.lastFrame
      /\ counted.group = ps.group /\ counted.pending = ps.pending
      /\ counted.lastFrame = ps.lastFrame
      /\ opened.pending = ps.pending /\ opened.lastFrame = ps.lastFrame
  BY DEF PersonStates
<1>3. IsOpen(ps) => IsOpen(back)
  BY <1>2, Distinct DEF IsOpen, HasGroup
<1> HIDE DEF washing, back, counted, opened, new
<1>4. ASSUME ps.current = WASHING
      PROVE  Concludes(ps, t, HandleWashingActive(ps, buf, fresh, t))
  <2>1. CASE HasGroup(ps)
    <3>1. Concludes(ps, t, Keep(back, AddIfLive(buf, t)))
      BY <1>2, <1>3, <1>4, KeepConcludes
    <3>2. QED
      BY <2>1, <3>1 DEF HandleWashingActive, back
  <2>2. CASE ~HasGroup(ps)
    <3>1. ~IsOpen(ps)
      BY <2>2 DEF IsOpen
    <3>2. Concludes(ps, t, Keep(washing, new))
      BY <1>2, <1>4, <3>1, KeepConcludes
    <3>3. QED
      BY <2>2, <3>2 DEF HandleWashingActive, back, washing, new
  <2>3. QED
    BY <2>1, <2>2
<1>5. ASSUME ps.current = NEAR_SINK_NOT_WASHING
      PROVE  Concludes(ps, t, HandleNearSinkNotWashing(ps, buf, fresh, t))
  <2>1. ~ps.confirmed
    BY <1>5 DEF Moved
  <2>2. CASE ps.pending # None
    <3>1. Live(buf)
      BY <1>1, <2>1, <2>2, Distinct DEF Linked, IsOpen
    <3>2. Concludes(ps, t, Keep(back, BufferAdd(buf, t)))
      BY <1>2, <1>3, <1>5, KeepConcludes
    <3>3. QED
      BY <2>1, <2>2, <3>1, <3>2 DEF HandleNearSinkNotWashing, back
  <2>3. CASE ps.pending = None /\ HasGroup(ps)
    <3>1. Concludes(ps, t, Keep(ps, AddIfLive(buf, t)))
      BY <2>3, KeepConcludes
    <3>2. QED
      BY <2>1, <2>3, <3>1 DEF HandleNearSinkNotWashing
  <2>4. CASE ps.pending = None /\ ~HasGroup(ps)
    <3>1. HandleNearSinkNotWashing(ps, buf, fresh, t) =
            IF counted.absence < MinEntry THEN Keep(counted, buf) ELSE Keep(opened, new)
      BY <2>1, <2>4 DEF HandleNearSinkNotWashing, DebounceEntry, counted, opened, new
    <3>2. ~IsOpen(ps)
      BY <2>4 DEF IsOpen
    <3>3. Concludes(ps, t, Keep(counted, buf)) /\ Concludes(ps, t, Keep(opened, new))
      BY <1>2, <1>5, <2>4, <3>2, KeepConcludes
    <3>4. QED
      BY <3>1, <3>3
  <2>5. QED
    BY <2>2, <2>3, <2>4
<1>6. QED
  BY <1>4, <1>5

(* What one event does to the visit of a person, seen from the stored      *)
(* record: inside says whether the person is taken to be at the sink.      *)
Concluded(ps, inside, t, f, res) ==
  /\ res.result = None /\ IsOpen(ps) => IsOpen(res.person) /\ res.person.group = ps.group
  /\ res.result # None =>
       /\ ~inside
       /\ ~IsOpen(res.person)
       /\ res.closed = IF IsOpen(ps) THEN ps.group ELSE Missing
       /\ IsOpen(ps) => Overdue(ps.pending, t)
  /\ res.result = "VIOLATION" =>
       /\ res.person.group = res.closed
       /\ IsOpen(ps) => res.evidence # NoEvidence
  /\ res.person # NoPerson /\ res.person.pending # None =>
       /\ ~inside
       /\ \/ res.person.pending = t
          \/ /\ ps # NoPerson /\ res.person.pending = ps.pending
             /\ ~Overdue(ps.pending, t) \/ ~(f >= ps.lastFrame)
  /\ res.person # NoPerson /\ HasGroup(res.person) => inside \/ (ps # NoPerson /\ HasGroup(ps))
  /\ res.person # NoPerson =>
       res.person.lastFrame \in {f, -1} \/ (ps # NoPerson /\ res.person.lastFrame = ps.lastFrame)

LEMMA EvaluatePersonConcludes ==
  ASSUME NEW ps \in PersonRecords, NEW buf \in Buffers \cup {NoBuffer}, NEW obs,
         NEW t \in Nat, NEW f, obs.real => f \in Nat, PersonInv(ps, buf), NEW fresh \in Groups,
         ps # NoPerson /\ ps.pending # None => ps.pending <= t
  PROVE  Concluded(ps, obs.inside, t, f, EvaluatePerson(ps, buf, obs, fresh, t, f))
<1> DEFINE next == MovedRecord(ps, buf, obs, t, f)
           res  == Evaluate(next, buf, fresh, t)
<1>1. /\ next \in PersonStates /\ Moved(next, buf) /\ SameVisit(next, ps)
      /\ Carries(next, ps, obs, t, f)
  BY MoveKeeps, MoveCarries
<1>2. EvaluatePerson(ps, buf, obs, fresh, t, f) = res
  BY DEF EvaluatePerson, MovedRecord
<1>3. Loaded(ps, t).lastFrame = -1 \/ (ps # NoPerson /\ Loaded(ps, t).lastFrame = ps.lastFrame)
  BY DEF Loaded, InitialPersonState
<1> HIDE DEF next
<1>4. next.pending # None => next.pending <= t
  BY <1>1 DEF Carries
<1>5. Concludes(next, t, res)
  <2>1. CASE next.current \in Terminal
    <3>1. next.pending = None
      BY <1>1, <2>1 DEF Moved
    <3>2. Concludes(next, t, Keep(next, buf))
      BY <3>1, KeepConcludes
    <3>3. QED
      BY <2>1, <3>2 DEF Evaluate
  <2>2. CASE next.current = NOT_NEAR_SINK
    BY <1>1, <1>4, <2>2, ZoneExitConcludes DEF Evaluate
  <2>3. CASE next.current \in {WASHING, NEAR_SINK_NOT_WASHING}
    BY <1>1, <2>3, AtSinkConcludes DEF Evaluate
  <2>4. QED
    BY <1>1, <2>1, <2>2, <2>3 DEF PersonStates, HandwashState
<1> HIDE DEF res
<1>6. IsOpen(next) <=> IsOpen(ps)
  BY <1>1 DEF Carries, SameVisit
<1>7. Concluded(ps, obs.inside, t, f, res)
  BY <1>1, <1>3, <1>5, <1>6 DEF Concludes, Concluded, Carries
<1>8. QED
  BY <1>2, <1>7

----------------------------------------------------------------------------
(* The steps of the in-memory engine *)

(* No record is ahead of the process that holds it, and nobody with a      *)
(* pending exit has been at the sink since.                                *)
Timely ==
  phase # "stopped" =>
    \A p \in Persons : store[p] # NoPerson =>
      /\ store[p].lastFrame <= frame
      /\ HasGroup(store[p]) => insideAt[p] <= now
      /\ store[p].pending # None =>
           insideAt[p] <= store[p].pending /\ store[p].pending <= now

VerdictOf(res, made, p) ==
  [group |-> PublishedGroup(res[p].closed), person |-> p, made |-> made,
   result |-> res[p].result]

JudgedOf(res, judged) == {p \in judged : res[p].result # None}

(* An event of time t, as far as it goes: violations of told are alerted,  *)
(* packages of shown published, verdicts of judged logged, and the persons *)
(* of inside are at the sink.                                              *)
Event(t, f, made, res, told, shown, judged, inside) ==
  /\ phase # "stopped"
  /\ t \in Nat /\ t >= now /\ now' = t /\ boot' = boot
  /\ made \in Stamps /\ made.at = t
  /\ \A g \in Groups : Past(g) => Past(g)'
  /\ \A p : ~Past(FreshGroup(p, made))
  /\ told \subseteq shown /\ shown \subseteq Violators(res)
  /\ told \subseteq judged /\ judged \subseteq Persons
  /\ alerts' = alerts \cup {AlertOf(res, made, p) : p \in told}
  /\ evidence' = evidence \cup {EvidenceOf(res, made, p) : p \in Packed(res, shown)}
  /\ completed' = completed \cup {VerdictOf(res, made, p) : p \in JudgedOf(res, judged)}
  /\ insideAt' = [p \in Persons |-> IF inside[p] THEN t ELSE insideAt[p]]
  /\ \A p \in Persons : res[p].result \in {None, "COMPLIANT", "VIOLATION"}
  /\ \A p \in Persons : Follows(store[p], FreshGroup(p, made), res[p])
  /\ \A p \in Persons : Handed(buffers[p], FreshGroup(p, made), t, res[p])
  /\ \A p \in Persons : Concluded(store[p], inside[p], t, f, res[p])

(* The event runs to its end and is saved; the last one of a process is    *)
(* its flush, which sees nobody.                                           *)
Whole(t, f, res, told, judged) ==
  /\ told = Violators(res) /\ judged = Persons
  /\ store' = [p \in Persons |-> res[p].person]
  /\ buffers' = [p \in Persons |-> res[p].buffer]
  /\ \/ phase' = "streaming" /\ t > now /\ f \in Nat /\ f > frame /\ frame' = f
     \/ phase' = "stopped"

(* The process dies during the event. *)
Cut == phase' = "stopped" /\ store' = store /\ buffers' = buffers

(* The process ends between two events. *)
Halt == phase' = "stopped" /\ UNCHANGED <<boot, now, frame, store, buffers, output, history>>

Insides(sights, f) ==
  [p \in Persons |-> /\ HasObservation(sights[p], store[p], f)
                     /\ ObservationOf(sights[p], store[p], f).inside]

(* What an event concludes for everyone. *)
LEMMA ResultsConclude ==
  ASSUME TypeOK, Paired, Timely, phase # "stopped", NEW sights \in [Persons -> Sightings],
         NEW t \in Nat, t >= now, NEW f, NEW by \in {"process", "flush"},
         \A p \in Persons : sights[p] # "unseen" => f \in Nat, NEW p \in Persons
  PROVE  Concluded(store[p], Insides(sights, f)[p], t, f, Results(sights, store, t, f, by)[p])
<1> DEFINE fresh == FreshGroup(p, Stamp(t, by))
           obs   == ObservationOf(sights[p], store[p], f)
<1>1. fresh \in Groups
  BY StampType DEF FreshGroup, Groups
<1>2. store[p] \in PersonRecords /\ buffers[p] \in Buffers \cup {NoBuffer}
  BY DEF TypeOK, StateTypeOK, PersonRecords
<1>3. PersonInv(store[p], buffers[p])
  BY DEF Paired
<1>4. obs.real => f \in Nat
  BY DEF ObservationOf
<1>5. store[p] # NoPerson /\ store[p].pending # None => store[p].pending <= t
  <2>1. ASSUME store[p] # NoPerson, store[p].pending # None
        PROVE  store[p].pending \in Nat /\ store[p].pending <= now
    BY <1>2, <2>1 DEF PersonRecords, PersonStates, Timely
  <2>2. now \in Nat
    BY DEF TypeOK, ProcessTypeOK
  <2>3. QED
    BY <2>1, <2>2
<1>6. Results(sights, store, t, f, by)[p] =
        IF HasObservation(sights[p], store[p], f)
        THEN EvaluatePerson(store[p], buffers[p], obs, fresh, t, f)
        ELSE Keep(store[p], buffers[p])
  BY DEF Results, FreshGroup
<1>7. HasObservation(sights[p], store[p], f) => (Insides(sights, f)[p] <=> obs.inside)
  BY Zenon DEF Insides
<1>8. ~HasObservation(sights[p], store[p], f) => ~Insides(sights, f)[p]
  BY Zenon DEF Insides
<1> HIDE DEF fresh, obs
<1>9. CASE HasObservation(sights[p], store[p], f)
  <2>1. Concluded(store[p], obs.inside, t, f, EvaluatePerson(store[p], buffers[p], obs, fresh, t, f))
    BY <1>1, <1>2, <1>3, <1>4, <1>5, EvaluatePersonConcludes
  <2>2. QED
    BY <1>6, <1>7, <1>9, <2>1 DEF Concluded
<1>10. CASE ~HasObservation(sights[p], store[p], f)
  <2>1. store[p] # NoPerson /\ store[p].pending # None => ~(f >= store[p].lastFrame)
    <3>1. store[p] # NoPerson => Settled(store[p])
      BY <1>3 DEF PersonInv
    <3>2. QED
      BY <1>10, <3>1 DEF HasObservation, NeedsSynthetic, Settled
  <2>2. Concluded(store[p], FALSE, t, f, Keep(store[p], buffers[p]))
    BY <2>1, Distinct DEF Keep, Concluded
  <2>3. QED
    BY <1>6, <1>8, <1>10, <2>2 DEF Concluded
<1>11. QED
  BY <1>9, <1>10

(* A completed event is a whole one. *)
LEMMA CompleteIsWhole ==
  ASSUME VisitInv, Timely, ~Durable, phase # "stopped", NEW sights \in [Persons -> Sightings],
         NEW t \in Nat, t >= now, NEW f, NEW by \in {"process", "flush"}, NEW writes \in WriteOutcomes,
         \A p \in Persons : sights[p] # "unseen" => f \in Nat,
         now' = t, boot' = boot,
         Complete(sights, t, f, by, writes),
         \A g \in Groups : Past(g) => Past(g)',
         NEW made, made = Stamp(t, by),
         \A p : ~Past(FreshGroup(p, made)),
         NEW res, res = Results(sights, store, t, f, by)
  PROVE  /\ Event(t, f, made, res, Violators(res), Violators(res), Persons, Insides(sights, f))
         /\ store' = [p \in Persons |-> res[p].person]
         /\ buffers' = [p \in Persons |-> res[p].buffer]
<1>1. ZoneState(t) = store /\ writes = TRUE
  BY DEF ZoneState, WriteOutcomes
<1>2. made \in Stamps /\ made.at = t
  <2>1. made \in Stamps
    BY StampType DEF VisitInv
  <2>2. QED
    BY <2>1 DEF Stamp
<1>3. /\ Publish(res, made, Violators(res), Violators(res))
      /\ LogVerdicts(res, made, Persons)
      /\ Observe(sights, store, t, f, writes)
      /\ Save(sights, store, res, t, f, writes)
      /\ buffers' = [p \in Persons |-> res[p].buffer]
  BY <1>1 DEF Complete
<1>4. store' = [p \in Persons |-> res[p].person]
  <2>1. CASE \E p \in Persons : HasObservation(sights[p], store[p], f)
    BY <1>1, <1>3, <2>1 DEF Save
  <2>2. CASE ~\E p \in Persons : HasObservation(sights[p], store[p], f)
    <3>1. store' = store
      BY <1>3, <2>2 DEF Save
    <3>2. \A p \in Persons : res[p].person = store[p]
      BY <2>2 DEF Results, Keep
    <3>3. store = [p \in Persons |-> store[p]]
      BY DEF VisitInv, TypeOK, StateTypeOK
    <3>4. QED
      BY <3>1, <3>2, <3>3
  <2>3. QED
    BY <2>1, <2>2
<1>5. /\ alerts' = alerts \cup {AlertOf(res, made, p) : p \in Violators(res)}
      /\ evidence' = evidence \cup {EvidenceOf(res, made, p) : p \in Packed(res, Violators(res))}
      /\ completed' = completed \cup {VerdictOf(res, made, p) : p \in JudgedOf(res, Persons)}
  BY <1>3 DEF Publish, LogVerdicts, AlertOf, EvidenceOf, Packed, VerdictOf, JudgedOf
<1>6. insideAt' = [p \in Persons |-> IF Insides(sights, f)[p] THEN t ELSE insideAt[p]]
  BY <1>3 DEF Observe, Insides
<1>a. \A p \in Persons : res[p].result \in {None, "COMPLIANT", "VIOLATION"}
  <2>1. store \in Zones
    BY DEF VisitInv, TypeOK, StateTypeOK, Zones, PersonRecords
  <2>2. res \in [Persons -> StepResults]
    BY <2>1, ResultsType DEF VisitInv
  <2>3. QED
    BY <2>2 DEF StepResults
<1>7. \A p \in Persons :
        /\ Follows(store[p], FreshGroup(p, made), res[p])
        /\ Handed(buffers[p], FreshGroup(p, made), t, res[p])
        /\ Concluded(store[p], Insides(sights, f)[p], t, f, res[p])
  BY ResultsFollow, ResultsHand, ResultsConclude DEF VisitInv
<1>8. Violators(res) \subseteq Persons
  BY DEF Violators
<1>9. QED
  BY <1>2, <1>3, <1>4, <1>5, <1>6, <1>a, <1>7, <1>8 DEF Event

(* Every step is a whole event, a cut one, a halt or a restart. *)
LEMMA StepCases ==
  ASSUME VisitInv, Timely, ~Durable, Next
  PROVE  \/ \E t, f, made, res, told, shown, judged, inside :
              /\ Event(t, f, made, res, told, shown, judged, inside)
              /\ Whole(t, f, res, told, judged) \/ Cut
         \/ Halt
         \/ \E back \in 0..MaxStepBack : Restart(back)
<1>0. TypeOK
  BY DEF VisitInv
<1>1. ASSUME NEW sights \in [Persons -> Sightings], NEW df \in 1..MaxSkip,
             NEW dt \in df..MaxGap, Process(sights, df, dt)
      PROVE  \E t, f, made, res, told, shown, judged, inside :
               /\ Event(t, f, made, res, told, shown, judged, inside)
               /\ Whole(t, f, res, told, judged) \/ Cut
  <2>1. PICK writes \in WriteOutcomes :
          Complete(sights, now + dt, frame + df, "process", writes)
    BY <1>1 DEF Process
  <2>2. PICK made, res : /\ made = Stamp(now + dt, "process")
                         /\ res = Results(sights, store, now + dt, frame + df, "process")
    OBVIOUS
  <2>3. /\ now + dt \in Nat /\ frame + df \in Nat /\ now + dt > now
        /\ now' = now + dt /\ frame' = frame + df /\ boot' = boot /\ phase # "stopped"
        /\ \A g \in Groups : Past(g) => Past(g)'
        /\ \A p : ~Past(FreshGroup(p, made))
    BY <1>0, <1>1, <2>2, ProcessIsNew
  <2>4. now \in Nat /\ now + dt >= now /\ frame + df > frame /\ phase' = "streaming"
    BY <1>0, <1>1, <2>3, ArrivesType DEF Process, TypeOK, ProcessTypeOK
  <2>5. /\ Event(now + dt, frame + df, made, res, Violators(res), Violators(res), Persons,
                 Insides(sights, frame + df))
        /\ store' = [p \in Persons |-> res[p].person]
        /\ buffers' = [p \in Persons |-> res[p].buffer]
    BY <2>1, <2>2, <2>3, <2>4, CompleteIsWhole
  <2>6. Whole(now + dt, frame + df, res, Violators(res), Persons)
    BY <2>3, <2>4, <2>5 DEF Whole
  <2>7. QED
    BY <2>5, <2>6
<1>2. ASSUME NEW sights \in [Persons -> Sightings], NEW df \in 1..MaxSkip,
             NEW dt \in df..MaxGap, DieMidFrame(sights, df, dt)
      PROVE  \E t, f, made, res, told, shown, judged, inside :
               /\ Event(t, f, made, res, told, shown, judged, inside)
               /\ Whole(t, f, res, told, judged) \/ Cut
  <2> DEFINE t == now + dt
             f == frame + df
  <2>1. PICK made, res : /\ made = Stamp(t, "process")
                         /\ res = Results(sights, store, t, f, "process")
    OBVIOUS
  <2>2. /\ t \in Nat /\ f \in Nat /\ t > now
        /\ now' = t /\ frame' = f /\ boot' = boot /\ phase # "stopped"
        /\ \A g \in Groups : Past(g) => Past(g)'
        /\ \A p : ~Past(FreshGroup(p, made))
    BY <1>0, <1>2, <2>1, ProcessIsNew
  <2>3. ZoneState(t) = store /\ now \in Nat /\ t >= now
    BY <1>0, <2>2 DEF ZoneState, TypeOK, ProcessTypeOK
  <2>4. PICK done \in SUBSET Persons, current \in SUBSET Persons, seen \in SUBSET Persons :
          /\ Publish(res, made, Violators(res) \cap (done \cup seen), Violators(res) \cap done)
          /\ LogVerdicts(res, made, done \cup current)
    BY <1>2, <2>1, <2>3 DEF DieMidFrame
  <2>5. /\ Observe(sights, store, t, f, FALSE)
        /\ Cut
    BY <1>2, <2>3 DEF DieMidFrame, Cut
  <2>6. made \in Stamps /\ made.at = t
    <3>1. made \in Stamps
      BY <1>0, <2>1, <2>2, StampType
    <3>2. QED
      BY <2>1, <3>1 DEF Stamp
  <2>a. \A p \in Persons : res[p].result \in {None, "COMPLIANT", "VIOLATION"}
    <3>1. store \in Zones
      BY <1>0 DEF TypeOK, StateTypeOK, Zones, PersonRecords
    <3>2. res \in [Persons -> StepResults]
      BY <1>0, <2>1, <2>2, <3>1, ResultsType
    <3>3. QED
      BY <3>2 DEF StepResults
  <2>7. \A p \in Persons :
          /\ Follows(store[p], FreshGroup(p, made), res[p])
          /\ Handed(buffers[p], FreshGroup(p, made), t, res[p])
          /\ Concluded(store[p], Insides(sights, f)[p], t, f, res[p])
    BY <2>1, <2>2, <2>3, ResultsFollow, ResultsHand, ResultsConclude DEF VisitInv
  <2> DEFINE told  == Violators(res) \cap done
             shown == Violators(res) \cap (done \cup seen)
  <2> HIDE DEF t, f
  <2>8. /\ alerts' = alerts \cup {AlertOf(res, made, p) : p \in told}
        /\ evidence' = evidence \cup {EvidenceOf(res, made, p) : p \in Packed(res, shown)}
        /\ completed' = completed \cup
             {VerdictOf(res, made, p) : p \in JudgedOf(res, done \cup current)}
    BY <2>4 DEF Publish, LogVerdicts, AlertOf, EvidenceOf, Packed, VerdictOf, JudgedOf
  <2>9. insideAt' = [p \in Persons |-> IF Insides(sights, f)[p] THEN t ELSE insideAt[p]]
    BY <2>5 DEF Observe, Insides
  <2>10. /\ told \subseteq shown /\ shown \subseteq Violators(res)
         /\ told \subseteq done \cup current /\ done \cup current \subseteq Persons
    OBVIOUS
  <2> HIDE DEF told, shown
  <2>11. Event(t, f, made, res, told, shown, done \cup current, Insides(sights, f))
    BY <2>2, <2>3, <2>6, <2>a, <2>7, <2>8, <2>9, <2>10 DEF Event
  <2>12. QED
    BY <2>5, <2>11
<1>3. ASSUME Flush
      PROVE  \/ \E t, f, made, res, told, shown, judged, inside :
                  /\ Event(t, f, made, res, told, shown, judged, inside)
                  /\ Whole(t, f, res, told, judged) \/ Cut
             \/ Halt
  <2>1. CASE \A p \in Persons : ZoneState(now)[p] = NoPerson
    BY <1>3, <2>1 DEF Flush, Halt, output, history
  <2>2. CASE ~\A p \in Persons : ZoneState(now)[p] = NoPerson
    <3> DEFINE sights == [p \in Persons |-> "unseen"]
               f      == FlushFrame(ZoneState(now))
    <3>1. PICK writes \in WriteOutcomes : Complete(sights, now, f, "flush", writes)
      BY <1>3, <2>2 DEF Flush
    <3>2. sights \in [Persons -> Sightings] /\ \A p \in Persons : sights[p] = "unseen"
      BY DEF Sightings
    <3> HIDE DEF sights, f
    <3>3. PICK made, res : /\ made = Stamp(now, "flush")
                           /\ res = Results(sights, store, now, f, "flush")
      OBVIOUS
    <3>4. /\ now \in Nat /\ now' = now /\ boot' = boot
          /\ phase = "streaming" /\ phase' = "stopped"
          /\ \A g \in Groups : Past(g) => Past(g)'
          /\ \A p : ~Past(FreshGroup(p, made))
      BY <1>0, <1>3, <3>3, FlushIsNew
    <3>5. /\ Event(now, f, made, res, Violators(res), Violators(res), Persons, Insides(sights, f))
          /\ store' = [p \in Persons |-> res[p].person]
          /\ buffers' = [p \in Persons |-> res[p].buffer]
      BY <3>1, <3>2, <3>3, <3>4, CompleteIsWhole
    <3>6. Whole(now, f, res, Violators(res), Persons)
      BY <3>4, <3>5 DEF Whole
    <3>7. QED
      BY <3>5, <3>6
  <2>3. QED
    BY <2>1, <2>2
<1>4. ASSUME Die
      PROVE  Halt
  BY <1>4 DEF Die, Halt, output, history
<1>5. ASSUME NEW df \in 1..MaxSkip, NEW dt \in df..MaxGap, ProcessReadFails(df, dt)
      PROVE  FALSE
  BY <1>5 DEF ProcessReadFails
<1>6. QED
  BY <1>1, <1>2, <1>3, <1>4, <1>5 DEF Next

----------------------------------------------------------------------------
(* Times: the cooldown *)

(* A person in an event that runs to its end, before and after. *)
LEMMA EventTimes ==
  ASSUME VisitInv, Timely, NEW t, NEW f, NEW made, NEW res, NEW told, NEW shown, NEW judged, NEW inside,
         Event(t, f, made, res, told, shown, judged, inside), NEW p \in Persons,
         NEW ps, ps = res[p].person, ps # NoPerson
  PROVE  /\ HasGroup(ps) => insideAt'[p] <= t
         /\ ps.pending # None => insideAt'[p] <= ps.pending /\ ps.pending <= t
         /\ f \in Nat /\ f > frame => ps.lastFrame <= f
         /\ f \in Nat /\ f > frame /\ ps.pending # None =>
              ps.pending = t \/ t - ps.pending < Cooldown
<1> DEFINE old == store[p]
<1>1. /\ t \in Nat /\ t >= now /\ now \in Nat /\ frame \in Nat /\ insideAt[p] \in Nat
      /\ insideAt'[p] = IF inside[p] THEN t ELSE insideAt[p]
      /\ phase # "stopped"
  BY DEF Event, VisitInv, TypeOK, ProcessTypeOK, HistoryTypeOK
<1>2. Concluded(old, inside[p], t, f, res[p]) /\ Follows(old, FreshGroup(p, made), res[p])
  BY DEF Event
<1>3. ps.pending # None => HasGroup(ps)
  BY <1>2 DEF Follows, PersonInv, Settled
<1>4. old # NoPerson =>
        /\ old.lastFrame \in Nat \cup {-1} /\ old.lastFrame <= frame
        /\ HasGroup(old) => insideAt[p] <= now
        /\ old.pending # None => /\ old.pending \in Nat
                                 /\ insideAt[p] <= old.pending /\ old.pending <= now
  BY <1>1 DEF Timely, VisitInv, TypeOK, StateTypeOK, PersonStates
<1>5. HasGroup(ps) => insideAt'[p] <= t
  <2>1. HasGroup(ps) => inside[p] \/ (old # NoPerson /\ HasGroup(old))
    BY <1>2 DEF Concluded
  <2>2. inside[p] => insideAt'[p] <= t
    BY <1>1
  <2>3. old # NoPerson /\ HasGroup(old) => insideAt'[p] <= t
    BY <1>1, <1>4
  <2>4. QED
    BY <2>1, <2>2, <2>3
<1>6. ps.pending # None =>
        /\ insideAt'[p] = insideAt[p]
        /\ \/ ps.pending = t
           \/ /\ old # NoPerson /\ ps.pending = old.pending
              /\ ~Overdue(old.pending, t) \/ ~(f >= old.lastFrame)
  <2>1. ps.pending # None => ~inside[p]
    BY <1>2 DEF Concluded
  <2>2. QED
    BY <1>1, <1>2, <2>1 DEF Concluded
<1>7. ps.pending # None => insideAt'[p] <= ps.pending /\ ps.pending <= t
  BY <1>1, <1>3, <1>4, <1>5, <1>6
<1>8. f \in Nat /\ f > frame => ps.lastFrame <= f
  <2>1. ps.lastFrame \in {f, -1} \/ (old # NoPerson /\ ps.lastFrame = old.lastFrame)
    BY <1>2 DEF Concluded
  <2>2. QED
    BY <1>1, <1>4, <2>1
<1>9. f \in Nat /\ f > frame /\ ps.pending # None => ps.pending = t \/ t - ps.pending < Cooldown
  <2>1. ASSUME f \in Nat, f > frame, ps.pending # None, ps.pending # t
        PROVE  t - ps.pending < Cooldown
    <3>1. old # NoPerson /\ ps.pending = old.pending
      BY <1>6, <2>1
    <3>2. f >= old.lastFrame
      BY <1>1, <1>4, <2>1, <3>1
    <3>3. ~(t - old.pending >= Cooldown)
      BY <1>6, <2>1, <3>1, <3>2 DEF Overdue
    <3>4. old.pending \in Nat
      BY <1>4, <2>1, <3>1
    <3>5. QED
      BY <1>1, <3>1, <3>3, <3>4, RuleConfigOK
  <2>2. QED
    BY <2>1
<1>10. QED
  BY <1>5, <1>7, <1>8, <1>9

(* Every step keeps the times in order. *)
LEMMA TimelyStep ==
  ASSUME VisitInv, Timely, ~Durable, Next
  PROVE  Timely' /\ NoOverdueExit'
<1>1. ASSUME NEW t, NEW f, NEW made, NEW res, NEW told, NEW shown, NEW judged, NEW inside,
             Event(t, f, made, res, told, shown, judged, inside),
             Whole(t, f, res, told, judged) \/ Cut
      PROVE  Timely' /\ NoOverdueExit'
  <2>1. CASE phase' = "stopped"
    BY <2>1 DEF Timely, NoOverdueExit
  <2>2. CASE phase' # "stopped"
    <3>1. /\ f \in Nat /\ f > frame /\ frame' = f /\ now' = t
          /\ store' = [p \in Persons |-> res[p].person]
      BY <1>1, <2>2 DEF Whole, Cut, Event
    <3>2. ASSUME NEW p \in Persons, NEW ps, ps = store'[p], ps # NoPerson
          PROVE  /\ ps.lastFrame <= frame'
                 /\ HasGroup(ps) => insideAt'[p] <= now'
                 /\ ps.pending # None => insideAt'[p] <= ps.pending /\ ps.pending <= now'
                 /\ ps.pending # None => ps.pending = now' \/ now' - ps.pending < Cooldown
      <4>1. ps = res[p].person
        BY <3>1, <3>2
      <4>2. QED
        BY <1>1, <3>1, <3>2, <4>1, EventTimes
    <3>3. QED
      BY <3>2 DEF Timely, NoOverdueExit, HasGroup
  <2>3. QED
    BY <2>1, <2>2
<1>2. ASSUME Halt
      PROVE  Timely' /\ NoOverdueExit'
  BY <1>2 DEF Halt, Timely, NoOverdueExit
<1>3. ASSUME NEW back \in 0..MaxStepBack, Restart(back)
      PROVE  Timely' /\ NoOverdueExit'
  BY <1>3 DEF Restart, Timely, NoOverdueExit
<1>4. QED
  BY <1>1, <1>2, <1>3, StepCases

(* Every alert of a step comes when the cooldown is over. *)
LEMMA CooldownStep ==
  ASSUME VisitInv, Timely, ~Durable, Next, NEW a \in alerts' \ alerts, a.group # Unknown
  PROVE  a.made.at - insideAt[a.person] >= Cooldown
<1>1. ASSUME NEW t, NEW f, NEW made, NEW res, NEW told, NEW shown, NEW judged, NEW inside,
             Event(t, f, made, res, told, shown, judged, inside)
      PROVE  a.made.at - insideAt[a.person] >= Cooldown
  <2>1. PICK p \in told : a = AlertOf(res, made, p)
    BY <1>1 DEF Event
  <2>2. /\ p \in Persons /\ res[p].result = "VIOLATION"
        /\ a.person = p /\ a.made = made /\ made.at = t
        /\ t \in Nat /\ phase # "stopped"
    BY <1>1, <2>1 DEF Event, Violators, AlertOf
  <2>3. IsOpen(store[p])
    BY <1>1, <2>1, <2>2, ViolationFollows DEF Event, VisitInv
  <2>4. Overdue(store[p].pending, t)
    BY <1>1, <2>2, <2>3, Distinct DEF Event, Concluded
  <2>5. store[p] # NoPerson /\ store[p].pending # None
    BY <2>3, <2>4 DEF IsOpen, Overdue
  <2>6. store[p].pending \in Nat /\ insideAt[p] \in Nat
    BY <2>2, <2>5 DEF VisitInv, TypeOK, StateTypeOK, HistoryTypeOK, PersonStates
  <2>7. insideAt[p] <= store[p].pending /\ t - store[p].pending >= Cooldown
    BY <2>2, <2>4, <2>5 DEF Timely, Overdue
  <2>8. QED
    BY <2>2, <2>6, <2>7, RuleConfigOK
<1>2. ASSUME Halt
      PROVE  FALSE
  BY <1>2 DEF Halt, output
<1>3. ASSUME NEW back \in 0..MaxStepBack, Restart(back)
      PROVE  FALSE
  BY <1>3 DEF Restart, output
<1>4. QED
  BY <1>1, <1>2, <1>3, StepCases

----------------------------------------------------------------------------
(* Evidence: frames of the visit, in order *)

Ordered(items) ==
  \A i, j \in 1..Len(items) : i < j => items[i] < items[j]

(* At least one item, all of them between two times and in order.          *)
Fits(items, from, to) ==
  /\ items # <<>>
  /\ \A i \in 1..Len(items) : items[i] \in from..to
  /\ Ordered(items)

(* Dropping the oldest item keeps the rest in order. *)
LEMMA TailFits ==
  ASSUME NEW s \in Seq(Nat), s # <<>>, NEW from \in Nat, NEW to \in Nat,
         \A i \in 1..Len(s) : s[i] \in from..to, Ordered(s)
  PROVE  /\ Tail(s) \in Seq(Nat)
         /\ \A i \in 1..Len(Tail(s)) : Tail(s)[i] \in from..to
         /\ Ordered(Tail(s))
<1>1. /\ Tail(s) \in Seq(Nat) /\ Len(s) \in Nat /\ Len(s) >= 1
      /\ Len(Tail(s)) = Len(s) - 1
      /\ \A i \in 1..Len(Tail(s)) : Tail(s)[i] = s[i + 1]
  BY HeadTailProperties, LenProperties, EmptySeq
<1>2. \A i \in 1..Len(Tail(s)) : i \in Nat /\ i + 1 \in 1..Len(s)
  BY <1>1
<1>3. \A i \in 1..Len(Tail(s)) : Tail(s)[i] \in from..to
  BY <1>1, <1>2
<1>4. ASSUME NEW i \in 1..Len(Tail(s)), NEW j \in 1..Len(Tail(s)), i < j
      PROVE  Tail(s)[i] < Tail(s)[j]
  <2>1. i + 1 \in 1..Len(s) /\ j + 1 \in 1..Len(s) /\ i + 1 < j + 1
    BY <1>1, <1>2, <1>4
  <2>2. s[i + 1] < s[j + 1]
    BY <2>1 DEF Ordered
  <2>3. Tail(s)[i] = s[i + 1] /\ Tail(s)[j] = s[j + 1]
    BY <1>1
  <2>4. QED
    BY <2>2, <2>3
<1>5. QED
  BY <1>1, <1>3, <1>4 DEF Ordered

(* Adding a later item keeps them in order. *)
LEMMA AppendFits ==
  ASSUME NEW s \in Seq(Nat), NEW from \in Nat, NEW to \in Nat, NEW t \in Nat, t > to, from <= t,
         \A i \in 1..Len(s) : s[i] \in from..to, Ordered(s)
  PROVE  Fits(Append(s, t), from, t)
<1> DEFINE a == Append(s, t)
<1>1. /\ Len(s) \in Nat /\ Len(a) = Len(s) + 1
      /\ \A i \in 1..Len(s) : a[i] = s[i]
      /\ a[Len(a)] = t /\ a # <<>>
  <2>1. /\ Len(s) \in Nat /\ Len(a) = Len(s) + 1 /\ a \in Seq(Nat)
        /\ \A i \in 1..Len(s) : a[i] = s[i]
        /\ a[Len(s) + 1] = t
    BY AppendProperties, LenProperties
  <2>2. a # <<>>
    BY <2>1, EmptySeq
  <2>3. QED
    BY <2>1, <2>2
<1> HIDE DEF a
<1>2. ASSUME NEW i \in 1..Len(a)
      PROVE  i \in 1..Len(s) \/ i = Len(a)
  BY <1>1
<1>3. ASSUME NEW i \in 1..Len(a)
      PROVE  a[i] \in from..t
  BY <1>1, <1>2
<1>4. ASSUME NEW i \in 1..Len(a), NEW j \in 1..Len(a), i < j
      PROVE  a[i] < a[j]
  <2>1. i \in 1..Len(s)
    BY <1>1, <1>4
  <2>2. CASE j \in 1..Len(s)
    BY <1>1, <1>4, <2>1, <2>2 DEF Ordered
  <2>3. CASE j = Len(a)
    BY <1>1, <2>1, <2>3
  <2>4. QED
    BY <1>2, <2>2, <2>3
<1>5. QED
  BY <1>1, <1>3, <1>4 DEF Fits, Ordered, a

(* The buffer after a later frame. *)
LEMMA AddFits ==
  ASSUME NEW buf \in Buffers, NEW from \in Nat, NEW to \in Nat, NEW t \in Nat, t > to,
         Fits(buf.items, from, to)
  PROVE  Fits(BufferAdd(buf, t).items, from, t)
<1> DEFINE kept == IF Len(buf.items) < BufferMax THEN buf.items ELSE Tail(buf.items)
<1>1. buf.items \in Seq(Nat) /\ buf.items # <<>> /\ Len(buf.items) \in Nat
  BY DEF Buffers, Fits
<1>2. from <= t
  <2>1. 1 \in 1..Len(buf.items)
    BY <1>1
  <2>2. buf.items[1] \in from..to
    BY <2>1 DEF Fits
  <2>3. QED
    BY <2>2
<1>3. /\ Tail(buf.items) \in Seq(Nat)
      /\ \A i \in 1..Len(Tail(buf.items)) : Tail(buf.items)[i] \in from..to
      /\ Ordered(Tail(buf.items))
  BY <1>1, TailFits DEF Fits
<1>4. kept \in Seq(Nat) /\ (\A i \in 1..Len(kept) : kept[i] \in from..to) /\ Ordered(kept)
  <2>1. CASE Len(buf.items) < BufferMax
    BY <1>1, <2>1 DEF Fits
  <2>2. CASE ~(Len(buf.items) < BufferMax)
    BY <1>3, <2>2
  <2>3. QED
    BY <2>1, <2>2
<1>5. BufferAdd(buf, t).items = Append(kept, t)
  BY DEF BufferAdd, Buffers
<1> HIDE DEF kept
<1>6. QED
  BY <1>2, <1>4, <1>5, AppendFits

(* A new buffer after its first frame. *)
LEMMA OpenedFits ==
  ASSUME NEW g \in Groups, NEW t \in Nat
  PROVE  Fits(BufferAdd(NewBuffer(g), t).items, t, t)
<1>1. BufferAdd(NewBuffer(g), t).items = <<t>>
  <2>1. NewBuffer(g).items = <<>> /\ Len(NewBuffer(g).items) < BufferMax
    BY RuleConfigOK DEF NewBuffer
  <2>2. BufferAdd(NewBuffer(g), t).items = Append(<<>>, t)
    BY <2>1 DEF BufferAdd, NewBuffer
  <2>3. QED
    BY <2>2
<1>2. QED
  BY <1>1 DEF Fits, Ordered

(* What fits until some time fits until a later one. *)
LEMMA FitsLater ==
  ASSUME NEW items, NEW from \in Nat, NEW to \in Nat, NEW t \in Nat, t >= to, Fits(items, from, to)
  PROVE  Fits(items, from, t)
BY DEF Fits

(* While the process goes on, every live buffer holds frames of its visit. *)
BuffersFit ==
  phase # "stopped" =>
    \A p \in Persons : Live(buffers[p]) =>
      Fits(buffers[p].items, buffers[p].group.made.at, now)

LEMMA BuffersFitStep ==
  ASSUME VisitInv, Timely, BuffersFit, ~Durable, Next
  PROVE  BuffersFit'
<1>1. ASSUME NEW t, NEW f, NEW made, NEW res, NEW told, NEW shown, NEW judged, NEW inside,
             Event(t, f, made, res, told, shown, judged, inside),
             Whole(t, f, res, told, judged) \/ Cut
      PROVE  BuffersFit'
  <2>1. CASE phase' = "stopped"
    BY <2>1 DEF BuffersFit
  <2>2. CASE phase' # "stopped"
    <3>1. /\ t > now /\ now' = t /\ t \in Nat /\ now \in Nat /\ phase # "stopped"
          /\ made \in Stamps /\ made.at = t
          /\ buffers' = [p \in Persons |-> res[p].buffer]
      BY <1>1, <2>2 DEF Whole, Cut, Event, VisitInv, TypeOK, ProcessTypeOK
    <3>2. ASSUME NEW p \in Persons, NEW left, left = res[p].buffer, Live(left)
          PROVE  Fits(left.items, left.group.made.at, t)
      <4>1. Took(buffers[p], FreshGroup(p, made), t, left)
        BY <1>1, <3>2 DEF Event, Handed
      <4>2. CASE Live(buffers[p]) /\ left \in {buffers[p], BufferAdd(buffers[p], t)}
        <5>1. buffers[p] \in Buffers
          BY <4>2, LiveType DEF VisitInv, TypeOK, StateTypeOK
        <5>2. /\ buffers[p].group.made.at \in Nat
              /\ Fits(buffers[p].items, buffers[p].group.made.at, now)
          BY <3>1, <4>2, <5>1 DEF BuffersFit, Buffers, Groups, Stamps
        <5>3. CASE left = buffers[p]
          BY <3>1, <5>2, <5>3, FitsLater
        <5>4. CASE left = BufferAdd(buffers[p], t)
          <6>1. left.group = buffers[p].group
            BY <3>1, <5>1, <5>4, AddType
          <6>2. QED
            BY <3>1, <5>1, <5>2, <5>4, <6>1, AddFits
        <5>5. QED
          BY <4>2, <5>3, <5>4
      <4>3. CASE left = BufferAdd(NewBuffer(FreshGroup(p, made)), t)
        <5>1. FreshGroup(p, made) \in Groups /\ FreshGroup(p, made).made.at = t
          BY <3>1 DEF FreshGroup, Groups
        <5>2. left.group = FreshGroup(p, made)
          BY <3>1, <4>3, <5>1, OpenedType
        <5>3. QED
          BY <3>1, <4>3, <5>1, <5>2, OpenedFits
      <4>4. QED
        BY <3>2, <4>1, <4>2, <4>3 DEF Took
    <3>3. ASSUME NEW p \in Persons, NEW left, left = buffers'[p], Live(left)
          PROVE  Fits(left.items, left.group.made.at, now')
      BY <3>1, <3>2, <3>3
    <3>4. QED
      BY <3>3 DEF BuffersFit, Live, Fits, Ordered
  <2>3. QED
    BY <2>1, <2>2
<1>2. ASSUME Halt
      PROVE  BuffersFit'
  BY <1>2 DEF Halt, BuffersFit
<1>3. ASSUME NEW back \in 0..MaxStepBack, Restart(back)
      PROVE  BuffersFit'
  BY <1>3 DEF Restart, BuffersFit, Live
<1>4. QED
  BY <1>1, <1>2, <1>3, StepCases

(* The package an event shows for a person is the buffer of the visit the  *)
(* violation is raised for. *)
LEMMA ShownFollows ==
  ASSUME VisitInv, BuffersFit, NEW t, NEW f, NEW made, NEW res, NEW told, NEW shown, NEW judged,
         NEW inside, Event(t, f, made, res, told, shown, judged, inside),
         NEW p \in Packed(res, shown), NEW e, e = EvidenceOf(res, made, p)
  PROVE  /\ e.payload.group = e.group /\ e.group.owner = e.person
         /\ Fits(e.payload.items, e.group.made.at, e.made.at)
<1>1. /\ p \in Persons /\ res[p].evidence # NoEvidence
      /\ t \in Nat /\ t >= now /\ now \in Nat /\ phase # "stopped" /\ made.at = t
  BY DEF Event, Packed, Violators, VisitInv, TypeOK, ProcessTypeOK
<1>2. /\ res[p].result = "VIOLATION" /\ Live(buffers[p])
      /\ res[p].evidence = [group |-> buffers[p].group, items |-> buffers[p].items]
  BY <1>1 DEF Event, Handed
<1>3. IsOpen(store[p]) /\ buffers[p].group = store[p].group
  BY <1>1, <1>2 DEF VisitInv, Paired, PersonInv, Linked
<1>4. res[p].person.group = store[p].group
  BY <1>1, <1>2, <1>3, Distinct DEF Event, Concluded
<1>5. store[p].group \in Groups /\ store[p].group.owner = p /\ store[p].group.made.at \in Nat
  BY <1>1, <1>3 DEF VisitInv, OpenGroupsPast, TypeOK, StateTypeOK, PersonStates, GroupIds, IsOpen,
                    HasGroup, Groups, Stamps
<1>6. PublishedGroup(res[p].person.group) = store[p].group
  BY <1>4, <1>5, SpecialValues DEF PublishedGroup
<1>7. /\ e.group = store[p].group /\ e.person = p /\ e.made = made
      /\ e.payload.group = buffers[p].group /\ e.payload.items = buffers[p].items
  BY <1>2, <1>6 DEF EvidenceOf
<1>8. Fits(buffers[p].items, buffers[p].group.made.at, now)
  BY <1>1, <1>2 DEF BuffersFit
<1>9. Fits(buffers[p].items, buffers[p].group.made.at, t)
  BY <1>1, <1>3, <1>5, <1>8, FitsLater
<1>10. QED
  BY <1>1, <1>3, <1>5, <1>7, <1>9

LEMMA EvidenceFitsStep ==
  ASSUME VisitInv, Timely, BuffersFit, EvidenceIsOfItsVisit, ~Durable, Next
  PROVE  EvidenceIsOfItsVisit'
<1>1. ASSUME NEW t, NEW f, NEW made, NEW res, NEW told, NEW shown, NEW judged, NEW inside,
             Event(t, f, made, res, told, shown, judged, inside)
      PROVE  EvidenceIsOfItsVisit'
  <2>1. ASSUME NEW e \in evidence'
        PROVE  /\ e.payload.group = e.group /\ e.group.owner = e.person
               /\ Fits(e.payload.items, e.group.made.at, e.made.at)
    <3>1. CASE e \in evidence
      BY <3>1 DEF EvidenceIsOfItsVisit, Fits, Ordered
    <3>2. CASE e \notin evidence
      <4>1. PICK p \in Packed(res, shown) : e = EvidenceOf(res, made, p)
        BY <1>1, <3>2 DEF Event
      <4>2. QED
        BY <1>1, <4>1, ShownFollows
    <3>3. QED
      BY <3>1, <3>2
  <2>2. QED
    BY <2>1 DEF EvidenceIsOfItsVisit, Fits, Ordered
<1>2. ASSUME Halt
      PROVE  EvidenceIsOfItsVisit'
  BY <1>2 DEF Halt, output, EvidenceIsOfItsVisit
<1>3. ASSUME NEW back \in 0..MaxStepBack, Restart(back)
      PROVE  EvidenceIsOfItsVisit'
  BY <1>3 DEF Restart, output, EvidenceIsOfItsVisit
<1>4. QED
  BY <1>1, <1>2, <1>3, StepCases

(* Whoever is alerted has been shown. *)
LEMMA AlertEvidenceStep ==
  ASSUME VisitInv, Timely, AlertHasEvidence, ~Durable, Next
  PROVE  AlertHasEvidence'
<1>1. ASSUME NEW t, NEW f, NEW made, NEW res, NEW told, NEW shown, NEW judged, NEW inside,
             Event(t, f, made, res, told, shown, judged, inside)
      PROVE  AlertHasEvidence'
  <2>1. ASSUME NEW a \in alerts', a.group # Unknown
        PROVE  \E e \in evidence' : e.group = a.group
    <3>1. CASE a \in alerts
      BY <1>1, <2>1, <3>1 DEF AlertHasEvidence, Event
    <3>2. CASE a \notin alerts
      <4>1. PICK p \in told : a = AlertOf(res, made, p)
        BY <1>1, <3>2 DEF Event
      <4>2. p \in shown /\ p \in Persons /\ res[p].result = "VIOLATION"
        BY <1>1, <4>1 DEF Event, Violators
      <4>3. IsOpen(store[p])
        BY <1>1, <2>1, <4>1, <4>2, ViolationFollows DEF Event, VisitInv
      <4>4. res[p].evidence # NoEvidence
        BY <1>1, <4>2, <4>3 DEF Event, Concluded
      <4>5. EvidenceOf(res, made, p) \in evidence'
        BY <1>1, <4>2, <4>4 DEF Event, Packed
      <4>6. EvidenceOf(res, made, p).group = a.group
        BY <4>1 DEF EvidenceOf, AlertOf
      <4>7. QED
        BY <4>5, <4>6
    <3>3. QED
      BY <3>1, <3>2
  <2>2. QED
    BY <2>1 DEF AlertHasEvidence
<1>2. ASSUME Halt
      PROVE  AlertHasEvidence'
  BY <1>2 DEF Halt, output, AlertHasEvidence
<1>3. ASSUME NEW back \in 0..MaxStepBack, Restart(back)
      PROVE  AlertHasEvidence'
  BY <1>3 DEF Restart, output, AlertHasEvidence
<1>4. QED
  BY <1>1, <1>2, <1>3, StepCases

----------------------------------------------------------------------------
(* Verdicts: the ledger of visits *)

(* Verdicts are of visits of the person they are about, opened before. *)
VerdictsPast ==
  \A c \in completed : c.group # Unknown =>
    c.group \in Groups /\ c.group.owner = c.person /\ Past(c.group)

(* A process that goes on has not cleared a visit that is still open. *)
OpenNotCleared ==
  phase # "stopped" =>
    \A p \in Persons : IsOpen(store[p]) =>
      \A c \in completed : c.result = "COMPLIANT" => c.group # store[p].group

ClearedOrAlerted == clearedGroups \cap alertedGroups = {}

LedgerInv == VerdictsPast /\ OpenNotCleared /\ ClearedOrAlerted

LEMMA LedgerSets ==
  /\ \A g : g \in clearedGroups <=>
       g # Unknown /\ \E c \in completed : c.result = "COMPLIANT" /\ c.group = g
  /\ \A g : g \in alertedGroups <=> g # Unknown /\ \E a \in alerts : a.group = g
  /\ \A g : g \in OpenGroups <=> \E p \in Persons : IsOpen(store[p]) /\ g = store[p].group
BY DEF clearedGroups, alertedGroups, OpenGroups

(* The group of an open visit. *)
LEMMA OpenGroup ==
  ASSUME VisitInv, NEW p \in Persons, IsOpen(store[p])
  PROVE  /\ store[p].group \in Groups /\ store[p].group # Unknown
         /\ store[p].group.owner = p /\ Past(store[p].group)
<1>1. store[p].group \in Groups
  BY DEF VisitInv, TypeOK, StateTypeOK, PersonStates, GroupIds, IsOpen, HasGroup
<1>2. QED
  BY <1>1, SpecialValues DEF VisitInv, OpenGroupsPast

(* A verdict with a group is of the visit that was open, and closes it.    *)
LEMMA JudgedFollows ==
  ASSUME VisitInv, NEW t, NEW f, NEW made, NEW res, NEW told, NEW shown, NEW judged, NEW inside,
         Event(t, f, made, res, told, shown, judged, inside),
         NEW p \in JudgedOf(res, judged), NEW c, c = VerdictOf(res, made, p), c.group # Unknown
  PROVE  /\ p \in Persons /\ IsOpen(store[p]) /\ c.group = store[p].group
         /\ c.person = p /\ c.result = res[p].result /\ ~IsOpen(res[p].person)
<1>1. p \in Persons /\ res[p].result # None
  BY DEF Event, JudgedOf
<1>2. /\ ~IsOpen(res[p].person)
      /\ res[p].closed = IF IsOpen(store[p]) THEN store[p].group ELSE Missing
  BY <1>1 DEF Event, Concluded
<1>3. /\ c.group = PublishedGroup(res[p].closed) /\ c.person = p
      /\ c.result = res[p].result
  BY DEF VerdictOf
<1>4. IsOpen(store[p])
  BY <1>2, <1>3 DEF PublishedGroup
<1>5. c.group = store[p].group
  BY <1>1, <1>2, <1>3, <1>4, OpenGroup, SpecialValues DEF PublishedGroup
<1>6. QED
  BY <1>1, <1>2, <1>3, <1>4, <1>5

(* The alerts of an event, likewise. *)
LEMMA ToldFollows ==
  ASSUME VisitInv, NEW t, NEW f, NEW made, NEW res, NEW told, NEW shown, NEW judged, NEW inside,
         Event(t, f, made, res, told, shown, judged, inside),
         NEW p \in told, NEW a, a = AlertOf(res, made, p), a.group # Unknown
  PROVE  /\ p \in Persons /\ IsOpen(store[p]) /\ a.group = store[p].group
         /\ res[p].result = "VIOLATION"
<1>1. p \in Persons /\ res[p].result = "VIOLATION"
  BY DEF Event, Violators
<1>2. QED
  BY <1>1, ViolationFollows DEF Event, VisitInv

(* What an event judges was open until then and had not been judged.       *)
LEMMA JudgedWasOpen ==
  ASSUME VisitInv, LedgerInv, NEW t, NEW f, NEW made, NEW res, NEW told, NEW shown, NEW judged,
         NEW inside, Event(t, f, made, res, told, shown, judged, inside)
  PROVE  /\ clearedGroups \subseteq clearedGroups' /\ alertedGroups \subseteq alertedGroups'
         /\ \A g \in clearedGroups' \ clearedGroups : \E p \in Persons :
              /\ IsOpen(store[p]) /\ g = store[p].group
              /\ res[p].result = "COMPLIANT"
         /\ \A g \in alertedGroups' \ alertedGroups : \E p \in Persons :
              /\ IsOpen(store[p]) /\ g = store[p].group
              /\ res[p].result = "VIOLATION"
<1>1. completed \subseteq completed' /\ alerts \subseteq alerts'
  BY DEF Event
<1>2. /\ \A g : g \in clearedGroups' <=>
           g # Unknown /\ \E c \in completed' : c.result = "COMPLIANT" /\ c.group = g
      /\ \A g : g \in alertedGroups' <=> g # Unknown /\ \E a \in alerts' : a.group = g
  BY DEF clearedGroups, alertedGroups
<1>3. clearedGroups \subseteq clearedGroups' /\ alertedGroups \subseteq alertedGroups'
  BY <1>1, <1>2, LedgerSets
<1>4. ASSUME NEW g \in clearedGroups', g \notin clearedGroups
      PROVE  \E p \in Persons : /\ IsOpen(store[p]) /\ g = store[p].group
                                /\ res[p].result = "COMPLIANT"
  <2>1. PICK c \in completed' : c.result = "COMPLIANT" /\ c.group = g /\ g # Unknown
    BY <1>2, <1>4
  <2>2. c \notin completed
    BY <1>4, <2>1, LedgerSets
  <2>3. PICK p \in JudgedOf(res, judged) : c = VerdictOf(res, made, p)
    BY <2>1, <2>2 DEF Event
  <2>4. QED
    BY <2>1, <2>3, JudgedFollows
<1>5. ASSUME NEW g \in alertedGroups', g \notin alertedGroups
      PROVE  \E p \in Persons : /\ IsOpen(store[p]) /\ g = store[p].group
                                /\ res[p].result = "VIOLATION"
  <2>1. PICK a \in alerts' : a.group = g /\ g # Unknown
    BY <1>2, <1>5
  <2>2. a \notin alerts
    BY <1>5, <2>1, LedgerSets
  <2>3. PICK p \in told : a = AlertOf(res, made, p)
    BY <2>1, <2>2 DEF Event
  <2>4. QED
    BY <2>1, <2>3, ToldFollows
<1>6. QED
  BY <1>3, <1>4, <1>5

(* Two open visits are not of the same group, and none has been judged.    *)
LEMMA OpenIsOne ==
  ASSUME VisitInv, LedgerInv, phase # "stopped", NEW p \in Persons, IsOpen(store[p])
  PROVE  /\ store[p].group \notin clearedGroups /\ store[p].group \notin alertedGroups
         /\ \A q \in Persons : IsOpen(store[q]) /\ store[q].group = store[p].group => q = p
<1>1. store[p].group \notin clearedGroups
  BY LedgerSets DEF LedgerInv, OpenNotCleared
<1>2. store[p].group \notin alertedGroups
  BY LedgerSets DEF VisitInv, OpenNotAlerted
<1>3. \A q \in Persons : IsOpen(store[q]) => store[q].group.owner = q
  BY OpenGroup
<1>4. QED
  BY <1>1, <1>2, <1>3

(* An event is a Frame of the ledger. *)
LEMMA EventIsFrame ==
  ASSUME VisitInv, LedgerInv, NEW t, NEW f, NEW made, NEW res, NEW told, NEW shown, NEW judged,
         NEW inside, Event(t, f, made, res, told, shown, judged, inside),
         Whole(t, f, res, told, judged) \/ Cut
  PROVE  ClearedOrAlerted' /\ Ledger!Frame
<1>0. phase # "stopped"
  BY DEF Event
<1>1. /\ clearedGroups \subseteq clearedGroups' /\ alertedGroups \subseteq alertedGroups'
      /\ \A g \in clearedGroups' \ clearedGroups : \E p \in Persons :
           /\ IsOpen(store[p]) /\ g = store[p].group
           /\ res[p].result = "COMPLIANT"
      /\ \A g \in alertedGroups' \ alertedGroups : \E p \in Persons :
           /\ IsOpen(store[p]) /\ g = store[p].group
           /\ res[p].result = "VIOLATION"
  BY JudgedWasOpen
<1>2. clearedGroups' \cap alertedGroups' = {}
  <2>1. SUFFICES ASSUME NEW g \in clearedGroups', g \in alertedGroups'
                 PROVE  FALSE
    OBVIOUS
  <2>2. CASE g \in clearedGroups /\ g \in alertedGroups
    BY <2>2 DEF LedgerInv, ClearedOrAlerted
  <2>3. CASE g \notin clearedGroups /\ g \in alertedGroups
    BY <1>0, <1>1, <2>1, <2>3, OpenIsOne
  <2>4. CASE g \in clearedGroups /\ g \notin alertedGroups
    BY <1>0, <1>1, <2>1, <2>4, OpenIsOne
  <2>5. CASE g \notin clearedGroups /\ g \notin alertedGroups
    <3>1. PICK p \in Persons : /\ IsOpen(store[p]) /\ g = store[p].group
                               /\ res[p].result = "COMPLIANT"
      BY <1>1, <2>1, <2>5
    <3>2. PICK q \in Persons : /\ IsOpen(store[q]) /\ g = store[q].group
                               /\ res[q].result = "VIOLATION"
      BY <1>1, <2>1, <2>5
    <3>3. p = q
      BY <1>0, <3>1, <3>2, OpenIsOne
    <3>4. QED
      BY <3>1, <3>2, <3>3
  <2>6. QED
    BY <2>2, <2>3, <2>4, <2>5
<1>3. (clearedGroups' \cup alertedGroups') \ (clearedGroups \cup alertedGroups) \subseteq
        OpenGroups \ (alertedGroups \cup clearedGroups)
  BY <1>1, LedgerSets
<1>4. ASSUME NEW g \in OpenGroups, g \notin alertedGroups' \cup clearedGroups'
      PROVE  g \in OpenGroups'
  <2>1. PICK p \in Persons : IsOpen(store[p]) /\ g = store[p].group
    BY LedgerSets
  <2>2. \A q \in Persons : IsOpen(store'[q]) /\ g = store'[q].group => g \in OpenGroups'
    BY DEF OpenGroups, IsOpen, HasGroup
  <2>3. CASE Cut
    BY <2>1, <2>2, <2>3 DEF Cut
  <2>4. CASE Whole(t, f, res, told, judged)
    <3>1. /\ told = Violators(res) /\ judged = Persons
          /\ store'[p] = res[p].person
      BY <2>4 DEF Whole
    <3>2. g \in Groups /\ g # Unknown /\ g # Missing
      BY <2>1, OpenGroup, SpecialValues
    <3>3. Concluded(store[p], inside[p], t, f, res[p])
      BY DEF Event
    <3>4. CASE res[p].result = None
      BY <2>1, <2>2, <3>1, <3>3, <3>4 DEF Concluded
    <3>5. CASE res[p].result # None
      <4>1. res[p].closed = g
        BY <2>1, <3>3, <3>5 DEF Concluded
      <4>2. CASE res[p].result = "VIOLATION"
        <5>1. p \in told /\ AlertOf(res, made, p).group = g
          BY <2>1, <3>1, <3>2, <3>3, <4>1, <4>2, Distinct DEF Concluded, Violators, AlertOf, PublishedGroup
        <5>2. AlertOf(res, made, p) \in alerts'
          BY <5>1 DEF Event
        <5>3. g \in alertedGroups'
          BY <3>2, <5>1, <5>2 DEF alertedGroups
        <5>4. QED
          BY <1>4, <5>3
      <4>3. CASE res[p].result = "COMPLIANT"
        <5>1. /\ p \in JudgedOf(res, judged) /\ VerdictOf(res, made, p).group = g
              /\ VerdictOf(res, made, p).result = "COMPLIANT"
          BY <3>1, <3>2, <3>5, <4>1, <4>3 DEF JudgedOf, VerdictOf, PublishedGroup
        <5>2. VerdictOf(res, made, p) \in completed'
          BY <5>1 DEF Event
        <5>3. g \in clearedGroups'
          BY <3>2, <5>1, <5>2 DEF clearedGroups
        <5>4. QED
          BY <1>4, <5>3
      <4>4. res[p].result \in {None, "COMPLIANT", "VIOLATION"}
        BY DEF Event
      <4>5. QED
        BY <3>5, <4>2, <4>3, <4>4
    <3>6. QED
      BY <3>4, <3>5
  <2>5. QED
    BY <2>3, <2>4
<1>5. ClearedOrAlerted'
  BY <1>2 DEF ClearedOrAlerted
<1>6. Ledger!Frame
  BY <1>1, <1>2, <1>3, <1>4 DEF Ledger!Frame, Ledger!judged
<1>7. QED
  BY <1>5, <1>6
(* Verdicts stay verdicts of past visits. *)
LEMMA VerdictsPastStep ==
  ASSUME VisitInv, Timely, VerdictsPast, ~Durable, Next
  PROVE  VerdictsPast'
<1>0. TypeOK
  BY DEF VisitInv
<1>1. ASSUME NEW t, NEW f, NEW made, NEW res, NEW told, NEW shown, NEW judged, NEW inside,
             Event(t, f, made, res, told, shown, judged, inside)
      PROVE  VerdictsPast'
  <2>1. ASSUME NEW c \in completed', c.group # Unknown
        PROVE  c.group \in Groups /\ c.group.owner = c.person /\ Past(c.group)
    <3>1. CASE c \in completed
      BY <2>1, <3>1 DEF VerdictsPast
    <3>2. CASE c \notin completed
      <4>1. PICK p \in JudgedOf(res, judged) : c = VerdictOf(res, made, p)
        BY <1>1, <3>2 DEF Event
      <4>2. /\ p \in Persons /\ IsOpen(store[p]) /\ c.group = store[p].group /\ c.person = p
        BY <1>1, <2>1, <4>1, JudgedFollows
      <4>3. QED
        BY <4>2, OpenGroup
    <3>3. QED
      BY <3>1, <3>2
  <2>2. ASSUME NEW c \in completed', c.group # Unknown
        PROVE  c.group \in Groups /\ c.group.owner = c.person /\ Past(c.group)'
    <3>1. PICK g \in Groups : g = c.group /\ Past(g)
      BY <2>1, <2>2
    <3>2. Past(g)'
      BY <1>1, <3>1 DEF Event
    <3>3. QED
      BY <2>1, <2>2, <3>1, <3>2
  <2>3. QED
    BY <2>2 DEF VerdictsPast, Past
<1>2. ASSUME Halt
      PROVE  VerdictsPast'
  BY <1>2 DEF Halt, output, VerdictsPast, Past
<1>3. ASSUME NEW back \in 0..MaxStepBack, Restart(back)
      PROVE  VerdictsPast'
  <2>1. completed' = completed
    BY <1>3 DEF Restart, output
  <2>2. ASSUME NEW c \in completed, c.group # Unknown
        PROVE  c.group \in Groups /\ c.group.owner = c.person /\ Past(c.group)'
    <3>1. PICK g \in Groups : g = c.group /\ g.owner = c.person /\ Past(g)
      BY <2>2 DEF VerdictsPast
    <3>2. Past(g)'
      BY <1>0, <1>3, <3>1, PastSurvivesRestart
    <3>3. QED
      BY <3>1, <3>2
  <2>3. QED
    BY <2>1, <2>2 DEF VerdictsPast, Past
<1>4. QED
  BY <1>1, <1>2, <1>3, StepCases

(* The visits an event leaves open are not among those it cleared. *)
LEMMA OpenNotClearedStep ==
  ASSUME VisitInv, Timely, VerdictsPast, OpenNotCleared, ~Durable, Next
  PROVE  OpenNotCleared'
<1>1. ASSUME NEW t, NEW f, NEW made, NEW res, NEW told, NEW shown, NEW judged, NEW inside,
             Event(t, f, made, res, told, shown, judged, inside),
             Whole(t, f, res, told, judged) \/ Cut, phase' # "stopped"
      PROVE  OpenNotCleared'
  <2>1. phase # "stopped" /\ store' = [p \in Persons |-> res[p].person]
    BY <1>1 DEF Event, Whole, Cut
  <2>2. ASSUME NEW p \in Persons, IsOpen(res[p].person),
               NEW c \in completed', c.result = "COMPLIANT", c.group = res[p].person.group
        PROVE  FALSE
    <3>1. /\ ~Past(FreshGroup(p, made)) /\ FreshGroup(p, made) \in Groups
      BY <1>1 DEF Event, FreshGroup, Groups
    <3>2. \/ c.group = FreshGroup(p, made)
          \/ IsOpen(store[p]) /\ c.group = store[p].group
      BY <1>1, <2>2 DEF Event, Follows
    <3>3. c.group # Unknown
      BY <3>1, <3>2, OpenGroup, SpecialValues
    <3>4. CASE c \in completed
      <4>1. Past(c.group)
        BY <3>3, <3>4 DEF VerdictsPast
      <4>2. QED
        BY <2>1, <2>2, <3>1, <3>2, <3>4, <4>1 DEF OpenNotCleared
    <3>5. CASE c \notin completed
      <4>1. PICK q \in JudgedOf(res, judged) : c = VerdictOf(res, made, q)
        BY <1>1, <3>5 DEF Event
      <4>2. /\ q \in Persons /\ IsOpen(store[q]) /\ c.group = store[q].group
            /\ ~IsOpen(res[q].person)
        BY <1>1, <3>3, <4>1, JudgedFollows
      <4>3. Past(c.group) /\ c.group.owner = q
        BY <4>2, OpenGroup
      <4>4. IsOpen(store[p]) /\ c.group = store[p].group
        BY <3>1, <3>2, <4>3
      <4>5. p = q
        BY <4>3, <4>4, OpenGroup
      <4>6. QED
        BY <2>2, <4>2, <4>5
    <3>6. QED
      BY <3>4, <3>5
  <2>3. QED
    BY <2>1, <2>2 DEF OpenNotCleared, IsOpen, HasGroup
<1>2. ASSUME Halt
      PROVE  OpenNotCleared'
  BY <1>2 DEF Halt, OpenNotCleared
<1>3. ASSUME NEW back \in 0..MaxStepBack, Restart(back)
      PROVE  OpenNotCleared'
  BY <1>3 DEF Restart, OpenNotCleared, IsOpen
<1>4. CASE phase' = "stopped"
  BY <1>4 DEF OpenNotCleared
<1>5. CASE phase' # "stopped"
  BY <1>1, <1>2, <1>3, <1>5, StepCases
<1>6. QED
  BY <1>4, <1>5

(* Every step is one of the ledger, or leaves it as it is. *)
LEMMA LedgerStep ==
  ASSUME VisitInv, Timely, LedgerInv, ~Durable, Next
  PROVE  /\ ClearedOrAlerted'
         /\ \/ Ledger!Next
            \/ UNCHANGED <<OpenGroups \ (alertedGroups \cup clearedGroups),
                           clearedGroups, alertedGroups>>
<1>1. ASSUME NEW t, NEW f, NEW made, NEW res, NEW told, NEW shown, NEW judged, NEW inside,
             Event(t, f, made, res, told, shown, judged, inside),
             Whole(t, f, res, told, judged) \/ Cut
      PROVE  ClearedOrAlerted' /\ Ledger!Next
  BY <1>1, EventIsFrame DEF Ledger!Next
<1>2. ASSUME Halt
      PROVE  /\ ClearedOrAlerted'
             /\ UNCHANGED <<OpenGroups \ (alertedGroups \cup clearedGroups),
                            clearedGroups, alertedGroups>>
  <2>1. alerts' = alerts /\ completed' = completed /\ store' = store
    BY <1>2 DEF Halt, output
  <2>2. clearedGroups' = clearedGroups /\ alertedGroups' = alertedGroups /\ OpenGroups' = OpenGroups
    BY <2>1 DEF clearedGroups, alertedGroups, OpenGroups, IsOpen, HasGroup
  <2>3. QED
    BY <2>2 DEF LedgerInv, ClearedOrAlerted
<1>3. ASSUME NEW back \in 0..MaxStepBack, Restart(back)
      PROVE  ClearedOrAlerted' /\ Ledger!Next
  <2>1. /\ alerts' = alerts /\ completed' = completed
        /\ \A p \in Persons : ~IsOpen(store'[p])
    BY <1>3 DEF Restart, output, IsOpen
  <2>2. clearedGroups' = clearedGroups /\ alertedGroups' = alertedGroups
    BY <2>1 DEF clearedGroups, alertedGroups
  <2>3. OpenGroups' = {}
    BY <2>1 DEF OpenGroups, IsOpen, HasGroup
  <2>4. QED
    BY <2>2, <2>3 DEF LedgerInv, ClearedOrAlerted, Ledger!Next, Ledger!Lose
<1>4. QED
  BY <1>1, <1>2, <1>3, StepCases

----------------------------------------------------------------------------
(* Theorems: times, evidence and verdicts *)

(* What a process that goes on knows of times, evidence and verdicts. *)
MemoryInv ==
  /\ Timely /\ NoOverdueExit
  /\ BuffersFit /\ EvidenceIsOfItsVisit /\ AlertHasEvidence
  /\ LedgerInv

LEMMA MemoryInvariant ==
  ASSUME ~Durable
  PROVE  Spec => [](VisitInv /\ MemoryInv)
<1>1. Init => MemoryInv
  BY DEF Init, MemoryInv, Timely, NoOverdueExit, BuffersFit, EvidenceIsOfItsVisit,
         AlertHasEvidence, LedgerInv, VerdictsPast, OpenNotCleared, ClearedOrAlerted,
         clearedGroups, alertedGroups, Live, IsOpen
<1>2. VisitInv /\ MemoryInv /\ [Next]_vars => MemoryInv'
  <2>1. ASSUME VisitInv, MemoryInv, Next
        PROVE  MemoryInv'
    BY <2>1, TimelyStep, BuffersFitStep, EvidenceFitsStep, AlertEvidenceStep, VerdictsPastStep,
       OpenNotClearedStep, LedgerStep DEF MemoryInv, LedgerInv
  <2>2. ASSUME MemoryInv, UNCHANGED vars
        PROVE  MemoryInv'
    <3>1. Timely' /\ NoOverdueExit'
      BY <2>2 DEF vars, process, history, MemoryInv, Timely, NoOverdueExit, HasGroup
    <3>2. BuffersFit' /\ EvidenceIsOfItsVisit' /\ AlertHasEvidence'
      BY <2>2 DEF vars, process, output, MemoryInv, BuffersFit, Fits, Ordered, Live,
                  EvidenceIsOfItsVisit, AlertHasEvidence
    <3>3. LedgerInv'
      BY <2>2 DEF vars, process, output, MemoryInv, LedgerInv, VerdictsPast, OpenNotCleared,
                  ClearedOrAlerted, clearedGroups, alertedGroups, Past, IsOpen, HasGroup
    <3>4. QED
      BY <3>1, <3>2, <3>3 DEF MemoryInv
  <2>3. QED
    BY <2>1, <2>2
<1>3. QED
  BY <1>1, <1>2, VisitInvariant, PTL DEF Spec

(* Nobody is alerted before the cooldown is over, counted from the last    *)
(* moment they were taken to be at the sink: HandleZoneExit waits, and a   *)
(* return, a downtime or a stepped back clock does not shorten the wait.   *)
THEOREM CooldownKept ==
  ASSUME ~Durable
  PROVE  Spec => CooldownRespected
<1>1. VisitInv /\ MemoryInv /\ [Next]_vars =>
        [\A a \in alerts' \ alerts :
           a.group # Unknown => a.made.at - insideAt[a.person] >= Cooldown]_vars
  <2>1. ASSUME VisitInv, MemoryInv, Next
        PROVE  \A a \in alerts' \ alerts :
                 a.group # Unknown => a.made.at - insideAt[a.person] >= Cooldown
    BY <2>1, CooldownStep DEF MemoryInv
  <2>2. QED
    BY <2>1
<1>2. QED
  BY <1>1, MemoryInvariant, PTL DEF Spec, CooldownRespected

(* An exit whose cooldown has run out is judged by the very next event the *)
(* engine processes: the person who left need not be seen, the engine      *)
(* makes an observation for everyone with a pending exit.                  *)
THEOREM ExitsJudgedInTime ==
  ASSUME ~Durable
  PROVE  Spec => []NoOverdueExit
<1>1. MemoryInv => NoOverdueExit
  BY DEF MemoryInv
<1>2. QED
  BY <1>1, MemoryInvariant, PTL

(* A published package is the buffer of the visit it is published for: at  *)
(* least one frame, only frames of that visit, in the order of capture,    *)
(* however often the ring buffer has dropped its oldest frame.             *)
THEOREM EvidenceOfTheVisit ==
  ASSUME ~Durable
  PROVE  Spec => []EvidenceIsOfItsVisit
<1>1. MemoryInv => EvidenceIsOfItsVisit
  BY DEF MemoryInv
<1>2. QED
  BY <1>1, MemoryInvariant, PTL

(* Whoever is alerted has evidence published before, although the process  *)
(* may die between the two: _process publishes the evidence first.         *)
THEOREM AlertsEvidenced ==
  ASSUME ~Durable
  PROVE  Spec => []AlertHasEvidence
<1>1. MemoryInv => AlertHasEvidence
  BY DEF MemoryInv
<1>2. QED
  BY <1>1, MemoryInvariant, PTL

(* The engine implements VisitLedger: frame by frame, through crashes      *)
(* within an event, flushes and restarts, a visit is judged at most once,  *)
(* only while it is open, and none disappears unjudged from a process that *)
(* lives.                                                                  *)
THEOREM EngineKeepsLedger ==
  ASSUME ~Durable
  PROVE  Spec => KeepsLedger
<1>1. Init => Ledger!Init
  BY DEF Init, Ledger!Init, OpenGroups, clearedGroups, alertedGroups, IsOpen
<1>2. VisitInv /\ MemoryInv /\ [Next]_vars =>
        [Ledger!Next]_<<OpenGroups \ (alertedGroups \cup clearedGroups),
                        clearedGroups, alertedGroups>>
  <2>1. ASSUME VisitInv, MemoryInv, Next
        PROVE  [Ledger!Next]_<<OpenGroups \ (alertedGroups \cup clearedGroups),
                               clearedGroups, alertedGroups>>
    BY <2>1, LedgerStep DEF MemoryInv
  <2>2. ASSUME UNCHANGED vars
        PROVE  UNCHANGED <<OpenGroups \ (alertedGroups \cup clearedGroups),
                           clearedGroups, alertedGroups>>
    BY <2>2 DEF vars, output, OpenGroups, clearedGroups, alertedGroups, IsOpen, HasGroup
  <2>3. QED
    BY <2>1, <2>2
<1>3. QED
  BY <1>1, <1>2, MemoryInvariant, PTL DEF Spec, KeepsLedger, Ledger!Spec

----------------------------------------------------------------------------
(* Verdicts: the time spent washing *)

(* Ticks of washing in a record up to some time. *)
Washed(ps, at) == ps.washing + IF ps.current = WASHING THEN at - ps.started ELSE 0

(* Someone at the sink, or away with a visit that is not over. *)
InVisit(ps) == \/ ps.current \in {NEAR_SINK_NOT_WASHING, WASHING}
               \/ ps.current = NOT_NEAR_SINK /\ HasGroup(ps)

(* The record of a visit has counted the given ticks, and that of someone  *)
(* away and without a visit counts nothing.                                *)
WashedFor(ps, at, ticks) ==
  /\ ps.started <= at
  /\ InVisit(ps) => Washed(ps, at) = ticks
  /\ ps.current = NOT_NEAR_SINK /\ ~HasGroup(ps) => ps.washing = 0 /\ ps.atSink = 0

(* What the rule measures is what is counted. *)
LEMMA Measured ==
  ASSUME NEW ps \in PersonStates, NEW t \in Nat, ps.started <= t
  PROVE  WashingDuration(ps, t) = Washed(ps, t) /\ Washed(ps, t) \in Nat
BY DEF WashingDuration, Elapsed, Washed, PersonStates

(* The ticks after an event: those before and the time since, if the       *)
(* record found was washing.                                               *)
Ticks(old, ticks, n, t) == ticks + IF old.current = WASHING THEN t - n ELSE 0

(* A moved record goes on counting, or it is of a visit already judged, or *)
(* of nobody, or of a fresh visit.                                         *)
Counts(next, fresh, t, later) ==
  /\ next.started <= t
  /\ \/ next.current \in Terminal
     \/ next.current = NOT_NEAR_SINK /\ ~HasGroup(next) /\ next.washing = 0 /\ next.atSink = 0
     \/ Washed(next, t) = later
     \/ next.current = NEAR_SINK_NOT_WASHING /\ fresh /\ later # 0

LEMMA MovedCounts ==
  ASSUME NEW ps \in PersonRecords, NEW buf \in Buffers \cup {NoBuffer}, NEW obs,
         NEW t \in Nat, NEW f, obs.real => f \in Nat, PersonInv(ps, buf),
         NEW n \in Nat, n <= t, NEW ticks \in Nat, ps # NoPerson => WashedFor(ps, n, ticks),
         NEW later \in Nat,
         \/ OpensFreshVisit(Loaded(ps, t), buf, obs)
         \/ later = Ticks(Loaded(ps, t), ticks, n, t)
  PROVE  Counts(MovedRecord(ps, buf, obs, t, f), OpensFreshVisit(Loaded(ps, t), buf, obs), t, later)
<1>0. NoPerson \notin PersonStates
  BY SpecialValues
<1> DEFINE old   == Loaded(ps, t)
           seen  == Seen(old, obs, f)
           base  == VisitState(seen, buf, obs, t)
           new   == NextState(seen.current, obs)
           next  == UpdateState(base, new, t)
           fresh == OpensFreshVisit(old, buf, obs)
<1>1. InitialPersonState(t) \in PersonStates
  BY InitialType
<1>2. /\ old \in PersonStates /\ PersonInv(old, buf)
      /\ old.started <= t
      /\ InVisit(old) => Washed(old, n) = ticks /\ (old.current = WASHING => old.started <= n)
      /\ old.current = NOT_NEAR_SINK /\ ~HasGroup(old) => old.washing = 0 /\ old.atSink = 0
  <2>1. CASE ps = NoPerson
    BY <1>0, <1>1, <2>1, Distinct DEF Loaded, PersonInv, Settled, Linked, IsOpen, HasGroup,
                                      InVisit, InitialPersonState
  <2>2. CASE ps # NoPerson
    <3>1. old = ps /\ ps \in PersonStates /\ ps.started \in Nat
      BY <2>2 DEF Loaded, PersonRecords, PersonStates
    <3>2. ps.started <= n
      BY <2>2 DEF WashedFor, InVisit
    <3>3. QED
      BY <2>2, <3>1, <3>2 DEF WashedFor, InVisit
  <2>3. QED
    BY <2>1, <2>2
<1> HIDE DEF old
<1>3. /\ seen \in PersonStates
      /\ seen.current = old.current /\ seen.group = old.group /\ seen.pending = old.pending
      /\ seen.started = old.started /\ seen.washing = old.washing /\ seen.atSink = old.atSink
  BY <1>2 DEF Seen, PersonStates
<1>4. OpensFreshVisit(seen, buf, obs) <=> fresh
  BY <1>3 DEF OpensFreshVisit
<1> HIDE DEF seen, fresh
<1> SUFFICES Counts(next, fresh, t, later)
  BY DEF old, seen, fresh, MovedRecord
<1>5. CASE fresh
  <2>1. base = [InitialPersonState(t) EXCEPT !.lastFrame = seen.lastFrame]
    BY <1>4, <1>5 DEF VisitState
  <2>2. /\ base.current = NOT_NEAR_SINK /\ base.washing = 0 /\ base.atSink = 0
        /\ base.started = t /\ base.group = Missing
    BY <2>1 DEF InitialPersonState
  <2>3. base \in PersonStates
    BY <1>1, <1>3, <2>1 DEF PersonStates
  <2>4. new \in {NOT_NEAR_SINK, NEAR_SINK_NOT_WASHING}
    BY <1>3, <1>5 DEF fresh, OpensFreshVisit, StartsNewVisit, NextState
  <2> HIDE DEF base, new
  <2>5. /\ next.current = new /\ next.washing = 0 /\ next.atSink = 0 /\ next.started = t
        /\ next.group = Missing
    BY <2>2, <2>3, <2>4 DEF UpdateState, PersonStates
  <2> HIDE DEF next
  <2>6. ~HasGroup(next) /\ Washed(next, t) = 0
    BY <2>4, <2>5 DEF HasGroup, Washed
  <2>7. QED
    BY <1>5, <2>4, <2>5, <2>6 DEF Counts
<1>6. CASE ~fresh
  <2>1. base = seen
    BY <1>4, <1>6 DEF VisitState
  <2>2. later = Ticks(old, ticks, n, t)
    BY <1>6 DEF fresh, old
  <2>3. old.pending # None => old.current = NOT_NEAR_SINK
    BY <1>0, <1>2 DEF PersonInv, Settled
  <2> HIDE DEF base
  <2>4. CASE old.current \in Terminal
    <3>1. new = old.current
      BY <1>3, <1>6, <2>3, <2>4 DEF fresh, OpensFreshVisit, StartsNewVisit, NextState
    <3>2. next = seen
      BY <1>3, <2>1, <3>1 DEF UpdateState
    <3>3. QED
      BY <1>2, <1>3, <2>4, <3>2 DEF Counts
  <2>5. CASE old.current = NOT_NEAR_SINK /\ ~HasGroup(old)
    <3>1. old.pending = None
      BY <1>0, <1>2, <2>5 DEF PersonInv, Settled
    <3>2. ~obs.inside
      BY <1>6, <2>5, <3>1 DEF fresh, OpensFreshVisit, StartsNewVisit
    <3>3. new = old.current
      BY <2>5, <3>2 DEF NextState
    <3>4. next = seen
      BY <1>3, <2>1, <3>3 DEF UpdateState
    <3>5. ~HasGroup(seen)
      BY <1>3, <2>5 DEF HasGroup
    <3>6. QED
      BY <1>2, <1>3, <2>5, <3>4, <3>5 DEF Counts
  <2>6. CASE InVisit(old)
    <3>1. Washed(old, n) = ticks /\ (old.current = WASHING => old.started <= n)
      BY <1>2, <2>6
    <3>2. Washed(old, t) = later
      <4>1. old.washing \in Nat /\ old.started \in Nat
        BY <1>2 DEF PersonStates
      <4>2. QED
        BY <2>2, <3>1, <4>1 DEF Washed, Ticks
    <3>3. CASE new = old.current
      <4>1. next = seen
        BY <1>3, <2>1, <3>3 DEF UpdateState
      <4>2. Washed(seen, t) = Washed(old, t)
        BY <1>3 DEF Washed
      <4>3. QED
        BY <1>2, <1>3, <3>2, <4>1, <4>2 DEF Counts
    <3>4. CASE new # old.current
      <4>1. /\ next.started = t /\ next.current = new
            /\ next.washing = seen.washing +
                 IF seen.current = WASHING THEN Elapsed(seen.started, t) ELSE 0
        BY <1>3, <2>1, <3>4 DEF UpdateState, PersonStates
      <4>2. next.washing = Washed(old, t)
        BY <1>2, <1>3, <4>1 DEF Washed, Elapsed
      <4>3. next.washing \in Nat
        BY <1>2, <4>2, Measured
      <4> HIDE DEF next
      <4>4. Washed(next, t) = next.washing
        BY <4>1, <4>3 DEF Washed
      <4>5. QED
        BY <3>2, <4>1, <4>2, <4>4 DEF Counts
    <3>5. QED
      BY <3>3, <3>4
  <2>7. QED
    BY <1>2, <2>4, <2>5, <2>6 DEF InVisit, PersonStates, HandwashState
<1>7. QED
  BY <1>5, <1>6

(* A verdict is compliant exactly if the ticks are enough. *)
Judges(res, later) ==
  res.result # None => (res.result = "COMPLIANT" <=> later >= MinWashing)

LEMMA KeepJudges ==
  ASSUME NEW ps, NEW buf, NEW later
  PROVE  Judges(Keep(ps, buf), later) /\ Keep(ps, buf).person = ps
BY DEF Keep, Judges

LEMMA ZoneExitCounts ==
  ASSUME NEW ps \in PersonStates, NEW buf \in Buffers \cup {NoBuffer}, NEW t \in Nat,
         NEW later \in Nat, NEW fresh, Moved(ps, buf), ps.current = NOT_NEAR_SINK,
         Counts(ps, fresh, t, later)
  PROVE  /\ Judges(HandleZoneExit(ps, buf, t), later)
         /\ WashedFor(HandleZoneExit(ps, buf, t).person, t, later)
<1> DEFINE waiting == [ps EXCEPT !.pending = t]
           stale   == ResetVisit([ps EXCEPT !.pending = None, !.group = None])
           over    == [ps EXCEPT !.pending = None]
<1>0. /\ ~ps.confirmed /\ ps.started <= t /\ ps.started \in Nat /\ ps.washing \in Nat
      /\ Washed(ps, t) = ps.washing
  BY DEF Moved, Counts, Washed, PersonStates
<1>1. ASSUME NEW s \in PersonStates, s.current = NOT_NEAR_SINK, s.washing = ps.washing,
             s.started = ps.started, ps.washing = later
      PROVE  /\ Judges(Verdict(s, buf, t), later)
             /\ WashedFor(Verdict(s, buf, t).person, t, later)
  <2>1. WashingDuration(s, t) = later
    BY <1>0, <1>1 DEF WashingDuration
  <2>2. /\ CompliantExit(s).result = "COMPLIANT" /\ CompliantExit(s).person.current = WASHED
        /\ CompliantExit(s).person.started <= t
    BY <1>0, <1>1 DEF CompliantExit, DiscardBuffer, ResetVisit, PersonStates
  <2>3. /\ ConfirmViolation(s, buf).result = "VIOLATION"
        /\ ConfirmViolation(s, buf).person.current = NOT_WASHED
        /\ ConfirmViolation(s, buf).person.started <= t
    BY <1>0, <1>1 DEF ConfirmViolation, ResetVisit, PersonStates
  <2>4. WashedFor(CompliantExit(s).person, t, later) /\ WashedFor(ConfirmViolation(s, buf).person, t, later)
    BY <2>2, <2>3 DEF WashedFor, InVisit
  <2>5. CASE later >= MinWashing
    <3>1. Verdict(s, buf, t) = CompliantExit(s)
      BY <2>1, <2>5 DEF Verdict
    <3>2. QED
      BY <2>2, <2>4, <2>5, <3>1 DEF Judges
  <2>6. CASE ~(later >= MinWashing)
    <3>1. Verdict(s, buf, t) = ConfirmViolation(s, buf)
      BY <2>1, <2>6 DEF Verdict
    <3>2. QED
      BY <2>3, <2>4, <2>6, <3>1 DEF Judges
  <2>7. QED
    BY <2>5, <2>6
<1>2. \/ ~HasGroup(ps) /\ ps.washing = 0 /\ ps.atSink = 0
      \/ ps.washing = later
  BY <1>0 DEF Counts
<1>3. CASE ~HasGroup(ps) /\ ~ApproachedSink(ps, t)
  <2>1. /\ ResetVisit(ps).current = NOT_NEAR_SINK /\ ResetVisit(ps).group = ps.group
        /\ ResetVisit(ps).washing = 0 /\ ResetVisit(ps).atSink = 0
        /\ ResetVisit(ps).started = ps.started
    BY DEF ResetVisit, PersonStates
  <2>2. WashedFor(ResetVisit(ps), t, later)
    BY <1>0, <1>3, <2>1 DEF WashedFor, InVisit, HasGroup
  <2>3. HandleZoneExit(ps, buf, t) = Keep(ResetVisit(ps), buf)
    BY <1>0, <1>3 DEF HandleZoneExit
  <2>4. QED
    BY <2>2, <2>3, KeepJudges
<1>4. CASE ~HasGroup(ps) /\ ApproachedSink(ps, t)
  <2>1. ~(ps.washing = 0 /\ ps.atSink = 0)
    BY <1>4 DEF ApproachedSink, WashingDuration, AtSinkDuration
  <2>2. HandleZoneExit(ps, buf, t) = Verdict(ps, buf, t)
    BY <1>0, <1>4 DEF HandleZoneExit
  <2>3. QED
    BY <1>1, <1>2, <2>1, <2>2
<1>5. CASE HasGroup(ps)
  <2>0. ps.washing = later
    BY <1>2, <1>5
  <2>1. CASE ps.pending = None
    <3>1. /\ waiting.current = NOT_NEAR_SINK /\ waiting.group = ps.group
          /\ waiting.washing = later /\ waiting.started = ps.started
      BY <2>0 DEF PersonStates
    <3>2. HandleZoneExit(ps, buf, t) = Keep(waiting, buf)
      BY <1>0, <1>5, <2>1 DEF HandleZoneExit
    <3> HIDE DEF waiting
    <3>3. WashedFor(waiting, t, later)
      BY <1>0, <1>5, <3>1 DEF WashedFor, InVisit, Washed, HasGroup
    <3>4. QED
      BY <3>2, <3>3, KeepJudges
  <2>2. CASE ps.pending # None /\ t < ps.pending
    <3>1. /\ stale.current = NOT_NEAR_SINK /\ stale.group = None
          /\ stale.washing = 0 /\ stale.atSink = 0 /\ stale.started = ps.started
      BY DEF ResetVisit, PersonStates
    <3>2. HandleZoneExit(ps, buf, t) = Keep(stale, NoBuffer)
      BY <1>0, <1>5, <2>2 DEF HandleZoneExit
    <3> HIDE DEF stale
    <3>3. WashedFor(stale, t, later)
      BY <1>0, <3>1 DEF WashedFor, InVisit, HasGroup
    <3>4. QED
      BY <3>2, <3>3, KeepJudges
  <2>3. CASE ps.pending # None /\ ~(t < ps.pending) /\ t - ps.pending < Cooldown
    <3>1. HandleZoneExit(ps, buf, t) = Keep(ps, buf)
      BY <1>0, <1>5, <2>3 DEF HandleZoneExit
    <3>2. WashedFor(ps, t, later)
      BY <1>0, <1>5, <2>0 DEF WashedFor, InVisit
    <3>3. QED
      BY <3>1, <3>2, KeepJudges
  <2>4. CASE ps.pending # None /\ ~(t < ps.pending) /\ ~(t - ps.pending < Cooldown)
    <3>1. /\ over \in PersonStates /\ over.current = NOT_NEAR_SINK
          /\ over.washing = ps.washing /\ over.started = ps.started
      BY DEF PersonStates
    <3>2. HandleZoneExit(ps, buf, t) = Verdict(over, buf, t)
      BY <1>0, <1>5, <2>4 DEF HandleZoneExit
    <3> HIDE DEF over
    <3>3. QED
      BY <1>1, <2>0, <3>1, <3>2
  <2>5. QED
    BY <2>1, <2>2, <2>3, <2>4
<1>6. QED
  BY <1>3, <1>4, <1>5

(* At the sink the counters are left alone, and nothing is judged. *)
LEMMA AtSinkCounts ==
  ASSUME NEW ps \in PersonStates, NEW buf \in Buffers \cup {NoBuffer}, NEW t \in Nat,
         NEW later \in Nat, NEW fresh, NEW group, Moved(ps, buf), Counts(ps, fresh, t, later)
  PROVE  /\ ps.current = WASHING =>
              /\ Judges(HandleWashingActive(ps, buf, group, t), later)
              /\ WashedFor(HandleWashingActive(ps, buf, group, t).person, t, later)
         /\ ps.current = NEAR_SINK_NOT_WASHING =>
              /\ Judges(HandleNearSinkNotWashing(ps, buf, group, t), later)
              /\ (fresh => later = 0) =>
                   WashedFor(HandleNearSinkNotWashing(ps, buf, group, t).person, t, later)
<1> DEFINE back    == [ps EXCEPT !.pending = None, !.absence = 0]
           washing == [back EXCEPT !.group = group]
           counted == [ps EXCEPT !.absence = ps.absence + 1]
           opened  == [counted EXCEPT !.group = group]
           new     == BufferAdd(NewBuffer(group), t)
<1>1. /\ back.current = ps.current /\ back.washing = ps.washing /\ back.started = ps.started
      /\ washing.current = ps.current /\ washing.washing = ps.washing
      /\ washing.started = ps.started
      /\ counted.current = ps.current /\ counted.washing = ps.washing
      /\ counted.started = ps.started
      /\ opened.current = ps.current /\ opened.washing = ps.washing
      /\ opened.started = ps.started
  BY DEF PersonStates
<1> HIDE DEF back, washing, counted, opened, new
<1>2. ASSUME ps.current \in {WASHING, NEAR_SINK_NOT_WASHING},
             ps.current = NEAR_SINK_NOT_WASHING => (fresh => later = 0),
             NEW s, s.current = ps.current, s.washing = ps.washing, s.started = ps.started
      PROVE  WashedFor(s, t, later)
  <2>1. ps.started <= t /\ Washed(ps, t) = later
    BY <1>2 DEF Counts
  <2>2. Washed(s, t) = Washed(ps, t)
    BY <1>2 DEF Washed
  <2>3. QED
    BY <1>2, <2>1, <2>2 DEF WashedFor
<1>3. ASSUME ps.current = WASHING
      PROVE  /\ Judges(HandleWashingActive(ps, buf, group, t), later)
             /\ WashedFor(HandleWashingActive(ps, buf, group, t).person, t, later)
  <2>1. WashedFor(back, t, later) /\ WashedFor(washing, t, later)
    BY <1>1, <1>2, <1>3
  <2>2. \/ HandleWashingActive(ps, buf, group, t) = Keep(back, AddIfLive(buf, t))
        \/ HandleWashingActive(ps, buf, group, t) = Keep(washing, new)
    BY DEF HandleWashingActive, back, washing, new
  <2>3. QED
    BY <2>1, <2>2, KeepJudges
<1>4. ASSUME ps.current = NEAR_SINK_NOT_WASHING
      PROVE  /\ Judges(HandleNearSinkNotWashing(ps, buf, group, t), later)
             /\ (fresh => later = 0) =>
                  WashedFor(HandleNearSinkNotWashing(ps, buf, group, t).person, t, later)
  <2>1. (fresh => later = 0) =>
          /\ WashedFor(back, t, later) /\ WashedFor(counted, t, later)
          /\ WashedFor(opened, t, later) /\ WashedFor(ps, t, later)
    BY <1>1, <1>2, <1>4
  <2>2. ps.pending # None => Live(buf)
    BY <1>4, Distinct DEF Moved, Linked, IsOpen
  <2>3. PICK s, b : /\ s \in {ps, back, counted, opened}
                    /\ HandleNearSinkNotWashing(ps, buf, group, t) = Keep(s, b)
    <3>1. CASE ps.confirmed
      <4>1. HandleNearSinkNotWashing(ps, buf, group, t) = Keep(ps, buf)
        BY <3>1 DEF HandleNearSinkNotWashing
      <4>2. QED
        BY <4>1
    <3>2. CASE ~ps.confirmed /\ ps.pending # None
      <4>1. HandleNearSinkNotWashing(ps, buf, group, t) = Keep(back, BufferAdd(buf, t))
        BY <2>2, <3>2 DEF HandleNearSinkNotWashing, back
      <4>2. QED
        BY <4>1
    <3>3. CASE ~ps.confirmed /\ ps.pending = None /\ HasGroup(ps)
      <4>1. HandleNearSinkNotWashing(ps, buf, group, t) = Keep(ps, AddIfLive(buf, t))
        BY <3>3 DEF HandleNearSinkNotWashing
      <4>2. QED
        BY <4>1
    <3>4. CASE ~ps.confirmed /\ ps.pending = None /\ ~HasGroup(ps)
      <4>1. HandleNearSinkNotWashing(ps, buf, group, t) =
              IF counted.absence < MinEntry THEN Keep(counted, buf) ELSE Keep(opened, new)
        BY <3>4 DEF HandleNearSinkNotWashing, DebounceEntry, counted, opened, new
      <4>2. QED
        BY <4>1
    <3>5. QED
      BY <3>1, <3>2, <3>3, <3>4
  <2>4. (fresh => later = 0) => WashedFor(s, t, later)
    BY <2>1, <2>3
  <2>5. QED
    BY <2>3, <2>4, KeepJudges
<1>5. QED
  BY <1>3, <1>4

(* One person in one frame: the verdict, if there is one, follows the      *)
(* ticks, and the record counts them, from nothing if the visit is fresh.  *)
LEMMA EvaluatePersonCounts ==
  ASSUME NEW ps \in PersonRecords, NEW buf \in Buffers \cup {NoBuffer}, NEW obs,
         NEW t \in Nat, NEW f, obs.real => f \in Nat, PersonInv(ps, buf), NEW group,
         NEW n \in Nat, n <= t, NEW ticks \in Nat, ps # NoPerson => WashedFor(ps, n, ticks),
         NEW later \in Nat,
         \/ OpensFreshVisit(Loaded(ps, t), buf, obs)
         \/ later = Ticks(Loaded(ps, t), ticks, n, t)
  PROVE  /\ Judges(EvaluatePerson(ps, buf, obs, group, t, f), later)
         /\ (OpensFreshVisit(Loaded(ps, t), buf, obs) => later = 0) =>
              WashedFor(EvaluatePerson(ps, buf, obs, group, t, f).person, t, later)
<1> DEFINE next  == MovedRecord(ps, buf, obs, t, f)
           fresh == OpensFreshVisit(Loaded(ps, t), buf, obs)
           res   == Evaluate(next, buf, group, t)
<1>1. next \in PersonStates /\ Moved(next, buf) /\ Counts(next, fresh, t, later)
  BY MoveKeeps, MovedCounts
<1>2. EvaluatePerson(ps, buf, obs, group, t, f) = res
  BY DEF EvaluatePerson, MovedRecord
<1> HIDE DEF next, fresh
<1>3. Judges(res, later) /\ ((fresh => later = 0) => WashedFor(res.person, t, later))
  <2>1. CASE next.current \in Terminal
    <3>1. res = Keep(next, buf)
      BY <2>1 DEF Evaluate
    <3>2. WashedFor(next, t, later)
      BY <1>1, <2>1 DEF Counts, WashedFor, InVisit
    <3>3. QED
      BY <3>1, <3>2, KeepJudges
  <2>2. CASE next.current = NOT_NEAR_SINK
    <3>1. res = HandleZoneExit(next, buf, t)
      BY <2>2 DEF Evaluate
    <3>2. QED
      BY <1>1, <2>2, <3>1, ZoneExitCounts
  <2>3. CASE next.current = WASHING
    <3>1. res = HandleWashingActive(next, buf, group, t)
      BY <2>3 DEF Evaluate
    <3>2. QED
      BY <1>1, <2>3, <3>1, AtSinkCounts
  <2>4. CASE next.current = NEAR_SINK_NOT_WASHING
    <3>1. res = HandleNearSinkNotWashing(next, buf, group, t)
      BY <2>4 DEF Evaluate
    <3>2. QED
      BY <1>1, <2>4, <3>1, AtSinkCounts
  <2>5. QED
    BY <1>1, <2>1, <2>2, <2>3, <2>4 DEF PersonStates, HandwashState
<1> HIDE DEF res
<1>4. QED
  BY <1>2, <1>3 DEF fresh

(* While the process goes on, every record counts the ticks of its visit.  *)
AllMeasured ==
  phase # "stopped" =>
    \A p \in Persons : store[p] # NoPerson => WashedFor(store[p], now, truth[p])

(* What an event measures of a person: the verdict follows the washing     *)
(* time, and if the event is written the record goes on counting.          *)
LEMMA ResultsMeasure ==
  ASSUME TypeOK, Paired, Timely, AllMeasured, phase # "stopped",
         NEW sights \in [Persons -> Sightings], NEW t \in Nat, t >= now, NEW f,
         NEW by \in {"process", "flush"}, NEW writes \in BOOLEAN,
         \A p \in Persons : sights[p] # "unseen" => f \in Nat,
         Observe(sights, store, t, f, writes), NEW later, later = truth', NEW p \in Persons,
         NEW res, res = Results(sights, store, t, f, by)[p]
  PROVE  /\ Judges(res, later[p])
         /\ writes /\ f \in Nat /\ f > frame /\ res.person # NoPerson =>
              WashedFor(res.person, t, later[p])
<1> DEFINE group == FreshGroup(p, Stamp(t, by))
           obs   == ObservationOf(sights[p], store[p], f)
           old   == Loaded(store[p], t)
           opens == OpensFreshVisit(old, buffers[p], obs)
<1>1. /\ store[p] \in PersonRecords /\ buffers[p] \in Buffers \cup {NoBuffer}
      /\ truth[p] \in Nat /\ now \in Nat /\ frame \in Nat
  BY DEF TypeOK, StateTypeOK, ProcessTypeOK, HistoryTypeOK, PersonRecords
<1>2. PersonInv(store[p], buffers[p])
  BY DEF Paired
<1>3. store[p] # NoPerson => WashedFor(store[p], now, truth[p])
  BY DEF AllMeasured
<1>4. obs.real => f \in Nat
  BY DEF ObservationOf
<1>5. later[p] = IF writes /\ HasObservation(sights[p], store[p], f) /\ opens
                 THEN 0 ELSE Ticks(old, truth[p], now, t)
  BY DEF Observe, Ticks
<1>6. res = IF HasObservation(sights[p], store[p], f)
            THEN EvaluatePerson(store[p], buffers[p], obs, group, t, f)
            ELSE Keep(store[p], buffers[p])
  BY DEF Results, FreshGroup
<1> HIDE DEF group, obs, old, opens
<1>7. Ticks(old, truth[p], now, t) \in Nat
  BY <1>1 DEF Ticks
<1>8. CASE HasObservation(sights[p], store[p], f)
  <2>1. later[p] \in Nat
    BY <1>5, <1>7
  <2>2. opens \/ later[p] = Ticks(old, truth[p], now, t)
    BY <1>5
  <2>3. /\ Judges(EvaluatePerson(store[p], buffers[p], obs, group, t, f), later[p])
        /\ (opens => later[p] = 0) =>
             WashedFor(EvaluatePerson(store[p], buffers[p], obs, group, t, f).person, t, later[p])
    BY <1>1, <1>2, <1>3, <1>4, <2>1, <2>2, EvaluatePersonCounts DEF opens, old
  <2>4. writes => (opens => later[p] = 0)
    BY <1>5, <1>8
  <2>5. QED
    BY <1>6, <1>8, <2>3, <2>4
<1>9. CASE ~HasObservation(sights[p], store[p], f)
  <2>1. res = Keep(store[p], buffers[p])
    BY <1>6, <1>9
  <2>2. ASSUME f \in Nat, f > frame, store[p] # NoPerson
        PROVE  WashedFor(store[p], t, later[p])
    <3>1. store[p] \in PersonStates /\ store[p].lastFrame \in Nat \cup {-1} /\ store[p].started \in Nat
      BY <1>1, <2>2 DEF PersonRecords, PersonStates
    <3>2. store[p].lastFrame <= frame
      BY <2>2 DEF Timely
    <3>3. f >= store[p].lastFrame
      BY <1>1, <2>2, <3>1, <3>2
    <3>4. store[p].current # WASHING
      BY <1>9, <2>2, <3>3 DEF HasObservation, NeedsSynthetic
    <3>5. later[p] = truth[p]
      BY <1>1, <1>5, <1>9, <2>2, <3>4 DEF Ticks, old, Loaded
    <3>6. Washed(store[p], t) = Washed(store[p], now)
      BY <3>4 DEF Washed
    <3>7. store[p].started <= t
      BY <1>1, <1>3, <2>2, <3>1 DEF WashedFor
    <3>8. QED
      BY <1>3, <2>2, <3>5, <3>6, <3>7 DEF WashedFor
  <2>3. QED
    BY <2>1, <2>2, KeepJudges
<1>10. QED
  BY <1>8, <1>9

(* The verdicts an event logs, whatever it gets to.                        *)
LEMMA LoggedMeasured ==
  ASSUME NEW res, NEW made, NEW judged \in SUBSET Persons, LogVerdicts(res, made, judged),
         NEW later, \A p \in Persons : Judges(res[p], later[p]),
         NEW c \in completed' \ completed
  PROVE  c.result = "COMPLIANT" <=> later[c.person] >= MinWashing
<1>1. PICK p \in judged : c = VerdictOf(res, made, p) /\ res[p].result # None
  BY DEF LogVerdicts, VerdictOf
<1>2. c.person = p /\ c.result = res[p].result /\ p \in Persons
  BY <1>1 DEF VerdictOf
<1>3. QED
  BY <1>1, <1>2 DEF Judges

(* Every verdict of a step follows the washing time, and every step keeps  *)
(* the records counting.                                                   *)
LEMMA MeasuredStep ==
  ASSUME VisitInv, Timely, AllMeasured, ~Durable, Next
  PROVE  /\ AllMeasured'
         /\ \A c \in completed' \ completed : c.result = "COMPLIANT" <=> truth'[c.person] >= MinWashing
<1>0. TypeOK /\ Paired
  BY DEF VisitInv
<1>1. PICK later : later = truth'
  OBVIOUS
<1> DEFINE Right == \A c \in completed' \ completed :
                      c.result = "COMPLIANT" <=> later[c.person] >= MinWashing
<1> SUFFICES AllMeasured' /\ Right
  BY <1>1
<1>2. ASSUME NEW sights \in [Persons -> Sightings], NEW df \in 1..MaxSkip,
             NEW dt \in df..MaxGap, Process(sights, df, dt)
      PROVE  AllMeasured' /\ Right
  <2> DEFINE t == now + dt
             f == frame + df
  <2>1. /\ t \in Nat /\ f \in Nat /\ now' = t /\ phase # "stopped"
        /\ now \in Nat /\ frame \in Nat /\ t >= now /\ f > frame
    BY <1>0, <1>2, ArrivesType DEF Process, Arrives, TypeOK, ProcessTypeOK
  <2>2. Complete(sights, t, f, "process", TRUE)
    BY <1>2 DEF Process, WriteOutcomes
  <2> HIDE DEF t, f
  <2>3. PICK res, made : res = Results(sights, store, t, f, "process") /\ made = Stamp(t, "process")
    OBVIOUS
  <2>4. ZoneState(t) = store
    BY DEF ZoneState
  <2>5. /\ Observe(sights, store, t, f, TRUE)
        /\ LogVerdicts(res, made, Persons)
        /\ Save(sights, store, res, t, f, TRUE)
    BY <2>2, <2>3, <2>4 DEF Complete
  <2>6. \A p \in Persons :
          /\ Judges(res[p], later[p])
          /\ res[p].person # NoPerson => WashedFor(res[p].person, t, later[p])
    BY <1>0, <1>1, <2>1, <2>3, <2>5, ResultsMeasure
  <2>7. \A p \in Persons : store'[p] = res[p].person
    <3>1. CASE \E p \in Persons : HasObservation(sights[p], store[p], f)
      BY <2>5, <3>1 DEF Save
    <3>2. CASE ~\E p \in Persons : HasObservation(sights[p], store[p], f)
      BY <2>3, <2>5, <3>2 DEF Save, Results, Keep
    <3>3. QED
      BY <3>1, <3>2
  <2>8. AllMeasured'
    BY <1>1, <2>1, <2>6, <2>7 DEF AllMeasured
  <2>9. QED
    BY <2>5, <2>6, <2>8, LoggedMeasured
<1>3. ASSUME NEW sights \in [Persons -> Sightings], NEW df \in 1..MaxSkip,
             NEW dt \in df..MaxGap, DieMidFrame(sights, df, dt)
      PROVE  AllMeasured' /\ Right
  <2> DEFINE t == now + dt
             f == frame + df
  <2>1. /\ t \in Nat /\ f \in Nat /\ t >= now /\ now \in Nat /\ phase # "stopped"
        /\ phase' = "stopped"
    BY <1>0, <1>3, ArrivesType DEF DieMidFrame, Arrives, TypeOK, ProcessTypeOK
  <2>2. PICK res, made : res = Results(sights, store, t, f, "process") /\ made = Stamp(t, "process")
    OBVIOUS
  <2>3. ZoneState(t) = store
    BY DEF ZoneState
  <2>4. Observe(sights, store, t, f, FALSE)
    BY <1>3, <2>3 DEF DieMidFrame
  <2>5. PICK judged \in SUBSET Persons : LogVerdicts(res, made, judged)
    BY <1>3, <2>2, <2>3 DEF DieMidFrame
  <2> HIDE DEF t, f
  <2>6. \A p \in Persons : Judges(res[p], later[p])
    BY <1>0, <1>1, <2>1, <2>2, <2>4, ResultsMeasure
  <2>7. QED
    BY <2>1, <2>5, <2>6, LoggedMeasured DEF AllMeasured
<1>4. ASSUME Flush
      PROVE  AllMeasured' /\ Right
  <2>1. phase = "streaming" /\ phase' = "stopped" /\ now \in Nat
    BY <1>0, <1>4 DEF Flush, TypeOK, ProcessTypeOK
  <2>2. CASE completed' = completed
    BY <2>1, <2>2 DEF AllMeasured
  <2>3. CASE completed' # completed
    <3> DEFINE sights == [p \in Persons |-> "unseen"]
               f      == FlushFrame(ZoneState(now))
    <3>1. Complete(sights, now, f, "flush", TRUE)
      BY <1>4, <2>3 DEF Flush, WriteOutcomes, output
    <3>2. sights \in [Persons -> Sightings] /\ \A p \in Persons : sights[p] = "unseen"
      BY DEF Sightings
    <3> HIDE DEF sights, f
    <3>3. PICK res, made : res = Results(sights, store, now, f, "flush") /\ made = Stamp(now, "flush")
      OBVIOUS
    <3>4. ZoneState(now) = store
      BY DEF ZoneState
    <3>5. /\ Observe(sights, store, now, f, TRUE)
          /\ LogVerdicts(res, made, Persons)
      BY <3>1, <3>3, <3>4 DEF Complete
    <3>6. \A p \in Persons : Judges(res[p], later[p])
      <4>1. now >= now /\ phase # "stopped" /\ now \in Nat
        BY <2>1
      <4>2. \A p \in Persons : sights[p] # "unseen" => f \in Nat
        BY <3>2
      <4>3. QED
        BY <1>0, <1>1, <3>2, <3>3, <3>5, <4>1, <4>2, ResultsMeasure
    <3>7. QED
      BY <2>1, <3>5, <3>6, LoggedMeasured DEF AllMeasured
  <2>4. QED
    BY <2>2, <2>3
<1>5. ASSUME Die
      PROVE  AllMeasured' /\ Right
  BY <1>5 DEF Die, output, AllMeasured
<1>6. ASSUME NEW back \in 0..MaxStepBack, Restart(back)
      PROVE  AllMeasured' /\ Right
  BY <1>6 DEF Restart, output, AllMeasured
<1>7. ASSUME NEW df \in 1..MaxSkip, NEW dt \in df..MaxGap, ProcessReadFails(df, dt)
      PROVE  FALSE
  BY <1>7 DEF ProcessReadFails
<1>8. QED
  BY <1>2, <1>3, <1>4, <1>5, <1>6, <1>7 DEF Next

(* A visit is judged compliant exactly when the person spent               *)
(* minimum_washing_duration_seconds in WASHING during that very visit,     *)
(* counted outside the record: visits continued within the cooldown go on  *)
(* counting, fresh ones start from nothing, frames that miss the person    *)
(* or the hands change nothing of what was counted before.                 *)
THEOREM VerdictsMeasured ==
  ASSUME ~Durable
  PROVE  Spec => VerdictFollowsWashing
<1>1. Init => AllMeasured
  BY DEF Init, AllMeasured
<1>2. VisitInv /\ MemoryInv /\ AllMeasured /\ [Next]_vars => AllMeasured'
  <2>1. ASSUME VisitInv, MemoryInv, AllMeasured, Next
        PROVE  AllMeasured'
    BY <2>1, MeasuredStep DEF MemoryInv
  <2>2. ASSUME AllMeasured, UNCHANGED vars
        PROVE  AllMeasured'
    BY <2>2 DEF vars, process, history, AllMeasured
  <2>3. QED
    BY <2>1, <2>2
<1>3. VisitInv /\ MemoryInv /\ AllMeasured /\ [Next]_vars =>
        [\A c \in completed' \ completed :
           c.result = "COMPLIANT" <=> truth'[c.person] >= MinWashing]_vars
  <2>1. ASSUME VisitInv, MemoryInv, AllMeasured, Next
        PROVE  \A c \in completed' \ completed :
                 c.result = "COMPLIANT" <=> truth'[c.person] >= MinWashing
    BY <2>1, MeasuredStep DEF MemoryInv
  <2>2. QED
    BY <2>1
<1>4. QED
  BY <1>1, <1>2, <1>3, MemoryInvariant, PTL DEF Spec, VerdictFollowsWashing

=============================================================================
