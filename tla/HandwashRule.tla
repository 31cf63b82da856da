---------------------------- MODULE HandwashRule ----------------------------
(***************************************************************************)
(* The handwash rule (backend/app/compliance/rules/handwash.py): what one  *)
(* frame does to the record of a person and to the evidence buffer of that *)
(* person, and the verdict it may reach.  Operators only; the variables    *)
(* are those of ComplianceEngine.                                          *)
(*                                                                         *)
(* The evidence buffer class is not part of the repository tree            *)
(* (compliance/evidence is missing); it is modelled from how the rule uses *)
(* it: a ring of at most BufferMax items that accepts items until frozen.  *)
(* An item is reduced to the capture time of its frame.                    *)
(***************************************************************************)
EXTENDS SpatioTemporalAnalyzer, Sequences

CONSTANTS
  MinWashing,   (* minimum_washing_duration_seconds                *)
  Cooldown,     (* session_cooldown_seconds                        *)
  BufferMax,    (* evidence_buffer_max                             *)
  MinEntry,     (* _MIN_SINK_ENTRY_FRAMES                          *)
  NoBuffer,     (* no entry in the evaluator's dict of buffers     *)
  NoEvidence    (* RuleEvaluationResult.evidence is None           *)

ASSUME RuleConfigOK ==
  /\ MinWashing \in Nat \ {0}
  /\ Cooldown \in Nat
  /\ BufferMax \in Nat \ {0}
  /\ MinEntry \in Nat \ {0}

----------------------------------------------------------------------------
(* EvidenceBuffer *)

NewBuffer(group) == [group |-> group, frozen |-> FALSE, items |-> <<>>]

Live(buf) == buf # NoBuffer /\ ~buf.frozen

BufferAdd(buf, t) ==
  LET kept == IF Len(buf.items) < BufferMax THEN buf.items ELSE Tail(buf.items)
  IN  [buf EXCEPT !.items = Append(kept, t)]

AddIfLive(buf, t) == IF Live(buf) THEN BufferAdd(buf, t) ELSE buf

----------------------------------------------------------------------------
(* RuleEvaluationResult, with the buffer the evaluator is left with and the *)
(* line the verdict writes to the action log ("PROCESS COMPLETE").         *)

Keep(ps, buf) ==
  [person |-> ps, buffer |-> buf, result |-> None, closed |-> None, evidence |-> NoEvidence]

HasGroup(ps) == ps.group \notin {None, Missing}

ResetVisit(ps) == [ps EXCEPT !.absence = 0, !.washing = 0, !.atSink = 0]

(* What is left of the record when its buffer is discarded. *)
DiscardBuffer(ps) == [ps EXCEPT !.group = None, !.confirmed = FALSE, !.absence = 0]

(* Compliant exit: the buffer is dropped, the group is closed. *)
CompliantExit(ps) ==
  [person   |-> ResetVisit([DiscardBuffer(ps) EXCEPT !.current = WASHED]),
   buffer   |-> NoBuffer,
   result   |-> "COMPLIANT",
   closed   |-> ps.group,
   evidence |-> NoEvidence]

(* Mutants: the record does not become NOT_WASHED; the buffer is frozen     *)
(* before it is asked whether it is live; it is never frozen.              *)
ConfirmViolationKeepsState(ps, buf) ==
  [person   |-> ResetVisit(ps),
   buffer   |-> IF Live(buf) THEN [buf EXCEPT !.frozen = TRUE] ELSE buf,
   result   |-> "VIOLATION",
   closed   |-> ps.group,
   evidence |-> IF Live(buf) THEN [group |-> buf.group, items |-> buf.items]
                ELSE NoEvidence]

ConfirmViolationFreezesFirst(ps, buf) ==
  [person   |-> ResetVisit([ps EXCEPT !.current = NOT_WASHED, !.confirmed = TRUE]),
   buffer   |-> IF Live(buf) THEN [buf EXCEPT !.frozen = TRUE] ELSE buf,
   result   |-> "VIOLATION",
   closed   |-> ps.group,
   evidence |-> NoEvidence]

ConfirmViolationNoFreeze(ps, buf) ==
  [person   |-> ResetVisit([ps EXCEPT !.current = NOT_WASHED, !.confirmed = TRUE]),
   buffer   |-> buf,
   result   |-> "VIOLATION",
   closed   |-> ps.group,
   evidence |-> IF Live(buf) THEN [group |-> buf.group, items |-> buf.items]
                ELSE NoEvidence]

(* Non-compliant exit: a live buffer is frozen and handed out, and stays in *)
(* the dict; the group id stays in the record.                             *)
ConfirmViolation(ps, buf) ==
  [person   |-> ResetVisit([ps EXCEPT !.current = NOT_WASHED, !.confirmed = TRUE]),
   buffer   |-> IF Live(buf) THEN [buf EXCEPT !.frozen = TRUE] ELSE buf,
   result   |-> "VIOLATION",
   closed   |-> ps.group,
   evidence |-> IF Live(buf) THEN [group |-> buf.group, items |-> buf.items]
                ELSE NoEvidence]

Verdict(ps, buf, t) ==
  IF WashingDuration(ps, t) >= MinWashing THEN CompliantExit(ps) ELSE ConfirmViolation(ps, buf)

----------------------------------------------------------------------------
(* NOT_NEAR_SINK: nothing for a visit already judged; no group: an         *)
(* immediate verdict if any time was spent at the sink; a group: the       *)
(* cooldown opens, is waited for, and then the verdict falls.  A pending   *)
(* exit in the future is a stale record and is dropped.                    *)

ApproachedSink(ps, t) == WashingDuration(ps, t) # 0 \/ AtSinkDuration(ps, t) # 0

(* Mutant: no guard against a pending exit in the future. *)
HandleZoneExitNoStaleGuard(ps, buf, t) ==
  IF ps.confirmed THEN Keep([ps EXCEPT !.absence = 0], buf)
  ELSE IF ~HasGroup(ps) /\ ~ApproachedSink(ps, t) THEN Keep(ResetVisit(ps), buf)
  ELSE IF ~HasGroup(ps) THEN Verdict(ps, buf, t)
  ELSE IF ps.pending = None THEN Keep([ps EXCEPT !.pending = t], buf)
  ELSE IF t - ps.pending < Cooldown THEN Keep(ps, buf)
  ELSE Verdict([ps EXCEPT !.pending = None], buf, t)

HandleZoneExit(ps, buf, t) ==
  IF ps.confirmed THEN Keep([ps EXCEPT !.absence = 0], buf)
  ELSE IF ~HasGroup(ps) /\ ~ApproachedSink(ps, t) THEN Keep(ResetVisit(ps), buf)
  ELSE IF ~HasGroup(ps) THEN Verdict(ps, buf, t)
  ELSE IF ps.pending = None THEN Keep([ps EXCEPT !.pending = t], buf)
  ELSE IF t < ps.pending
       THEN Keep(ResetVisit([ps EXCEPT !.pending = None, !.group = None]), NoBuffer)
  ELSE IF t - ps.pending < Cooldown THEN Keep(ps, buf)
  ELSE Verdict([ps EXCEPT !.pending = None], buf, t)

(* WASHING: any pending exit is cancelled; a person who got here before the *)
(* entry was debounced gets a group and a buffer now.                      *)
HandleWashingActive(ps, buf, fresh, t) ==
  LET open == [ps EXCEPT !.pending = None, !.absence = 0] IN
  IF HasGroup(ps) THEN Keep(open, AddIfLive(buf, t))
  ELSE Keep([open EXCEPT !.group = fresh], BufferAdd(NewBuffer(fresh), t))

(* Mutants: the frame that opens the group is not added to its buffer; a   *)
(* buffer left in the dict is used again for the new group.                *)
DebounceEntryAddsNothing(ps, buf, fresh, t) ==
  LET counted == [ps EXCEPT !.absence = @ + 1] IN
  IF counted.absence < MinEntry THEN Keep(counted, buf)
  ELSE Keep([counted EXCEPT !.group = fresh], NewBuffer(fresh))

DebounceEntryReusesBuffer(ps, buf, fresh, t) ==
  LET counted == [ps EXCEPT !.absence = @ + 1] IN
  IF counted.absence < MinEntry THEN Keep(counted, buf)
  ELSE Keep([counted EXCEPT !.group = fresh],
            IF buf = NoBuffer THEN BufferAdd(NewBuffer(fresh), t)
            ELSE BufferAdd([buf EXCEPT !.frozen = FALSE], t))

(* A sink entry without a group: counted, and a group is opened once it has *)
(* lasted MinEntry frames.                                                 *)
DebounceEntry(ps, buf, fresh, t) ==
  LET counted == [ps EXCEPT !.absence = @ + 1] IN
  IF counted.absence < MinEntry THEN Keep(counted, buf)
  ELSE Keep([counted EXCEPT !.group = fresh], BufferAdd(NewBuffer(fresh), t))

(* Mutant: the pending exit is not cleared by a return. *)
HandleNearSinkKeepsPending(ps, buf, fresh, t) ==
  IF ps.confirmed THEN Keep(ps, buf)
  ELSE IF ps.pending # None /\ Live(buf)
       THEN Keep([ps EXCEPT !.absence = 0], BufferAdd(buf, t))
  ELSE IF ~HasGroup(ps) THEN DebounceEntry(ps, buf, fresh, t)
  ELSE Keep(ps, AddIfLive(buf, t))

(* NEAR_SINK_NOT_WASHING: a return within the cooldown continues the       *)
(* session if its buffer is still there; otherwise the pending exit is a   *)
(* leftover and its group is dropped.                                      *)
HandleNearSinkNotWashing(ps, buf, fresh, t) ==
  IF ps.confirmed THEN Keep(ps, buf)
  ELSE IF ps.pending # None /\ Live(buf)
       THEN Keep([ps EXCEPT !.pending = None, !.absence = 0], BufferAdd(buf, t))
  ELSE IF ps.pending # None
       THEN DebounceEntry([ps EXCEPT !.pending = None, !.group = None], buf, fresh, t)
  ELSE IF ~HasGroup(ps) THEN DebounceEntry(ps, buf, fresh, t)
  ELSE Keep(ps, AddIfLive(buf, t))

(* HandwashRuleEvaluator.evaluate *)
Evaluate(ps, buf, fresh, t) ==
  IF ps.current = NOT_NEAR_SINK THEN HandleZoneExit(ps, buf, t)
  ELSE IF ps.current = WASHING THEN HandleWashingActive(ps, buf, fresh, t)
  ELSE IF ps.current = NEAR_SINK_NOT_WASHING THEN HandleNearSinkNotWashing(ps, buf, fresh, t)
  ELSE Keep(ps, buf)
=============================================================================
