----------------------------- MODULE OrmModels ------------------------------
(***************************************************************************)
(* The mapped classes (infrastructure/database/models): for each table the *)
(* columns an INSERT or a SELECT names, those a caller must give a value,  *)
(* those that have a default in Python, those that may be NULL, and the    *)
(* unique and the foreign keys the class expects. Relationships are left   *)
(* out.                                                                    *)
(***************************************************************************)
EXTENDS Migrations

Camera == [
  given     |-> {"camera_key", "name"},
  defaulted |-> Stamped \cup {"status", "enabled"},
  nullable  |-> {"description", "location"},
  unique    |-> {<<"camera_key">>},
  refs      |-> NoRefs]

Stream == [
  given     |-> {"camera_id", "stream_type"},
  defaulted |-> Stamped \cup {"enabled"},
  nullable  |-> {"source_reference", "configuration"},
  unique    |-> {},
  refs      |-> [camera_id |-> "cameras"]]

Zone == [
  given     |-> {"camera_id", "zone_key", "name"},
  defaulted |-> Stamped \cup {"zone_type", "enabled"},
  nullable  |-> {"geometry"},
  unique    |-> {},
  refs      |-> [camera_id |-> "cameras"]]

IngestionSession == [
  given     |-> {},
  defaulted |-> Created \cup {"started_at", "status", "frames_read",
                "frames_dropped", "frames_published", "frames_failed",
                "reconnect_count", "error_count"},
  nullable  |-> {"camera_id", "stream_id", "ended_at", "last_frame_at"},
  unique    |-> {},
  refs      |-> [camera_id |-> "cameras", stream_id |-> "streams"]]

ProcessingSession == [
  given     |-> {},
  defaulted |-> Created \cup {"started_at", "status"},
  nullable  |-> {"camera_id", "ended_at", "model_name", "model_version",
                "model_path", "configuration"},
  unique    |-> {},
  refs      |-> [camera_id |-> "cameras"]]

Frame == [
  given     |-> Placed \cup {"frame_id"},
  defaulted |-> Created \cup {"received_at", "processing_status"},
  nullable  |-> {"ingestion_session_id", "captured_at", "width", "height",
                "frame_store_key"},
  unique    |-> {<<"ingestion_session_id", "frame_id">>},
  refs      |-> [ingestion_session_id |-> "ingestion_sessions"]]

Detection == [
  given     |-> Placed \cup {"class_id", "class_name", "confidence", "x1",
                "y1", "x2", "y2", "use_case"},
  defaulted |-> Created,
  nullable  |-> {"frame_db_id", "processing_session_id"},
  unique    |-> {},
  refs      |-> [frame_db_id |-> "frames",
                 processing_session_id |-> "processing_sessions"]]

Track == [
  given     |-> Tracked,
  defaulted |-> Stamped \cup {"first_seen_at", "last_seen_at", "status"},
  nullable  |-> {"processing_session_id"},
  unique    |-> {},
  refs      |-> [processing_session_id |-> "processing_sessions"]]

Observation == [
  given     |-> Tracked \cup {"observed_at"},
  defaulted |-> Created \cup {"inside_sink_zone", "water_detected",
                "soap_detected", "hands_interacting", "observation_type"},
  nullable  |-> {"frame_db_id", "processing_session_id", "track_bbox",
                "metadata"},
  unique    |-> {},
  refs      |-> [frame_db_id |-> "frames",
                 processing_session_id |-> "processing_sessions"]]

StateTransition == [
  given     |-> Tracked \cup {"previous_state", "new_state", "transition_at"},
  defaulted |-> Created \cup {"sequence_valid"},
  nullable  |-> {"processing_session_id", "duration_seconds", "reason",
                "correlation_id"},
  unique    |-> {},
  refs      |-> [processing_session_id |-> "processing_sessions"]]

TemporalMetric == [
  given     |-> Tracked \cup {"evaluated_at", "current_state"},
  defaulted |-> Created \cup {"at_sink_duration", "water_on_duration",
                "soap_applied_duration", "washing_duration",
                "rinsing_duration", "sequence_valid", "continuity_valid",
                "observation_count", "last_gap_seconds"},
  nullable  |-> {"processing_session_id", "metrics"},
  unique    |-> {},
  refs      |-> [processing_session_id |-> "processing_sessions"]]

ComplianceRule == [
  given     |-> {"rule_key", "name", "use_case"},
  defaulted |-> Created \cup {"version", "enabled"},
  nullable  |-> {"configuration"},
  unique    |-> {<<"rule_key">>},
  refs      |-> NoRefs]

ComplianceEvaluation == [
  given     |-> Tracked \cup {"evaluated_at", "result"},
  defaulted |-> Created,
  nullable  |-> {"processing_session_id", "temporal_metrics_id", "rule_id",
                "reason_code", "reason", "correlation_id"},
  unique    |-> {},
  refs      |-> [processing_session_id |-> "processing_sessions",
                 temporal_metrics_id |-> "temporal_metrics",
                 rule_id |-> "compliance_rules"]]

Violation == [
  given     |-> Tracked \cup {"group_id", "confirmed_at"},
  defaulted |-> Stamped \cup {"violation_type", "status"},
  nullable  |-> {"compliance_evaluation_id", "processing_session_id",
                "rule_id", "reason_code", "reason", "started_at"},
  unique    |-> {<<"group_id">>},
  refs      |-> [compliance_evaluation_id |-> "compliance_evaluations",
                 processing_session_id |-> "processing_sessions",
                 rule_id |-> "compliance_rules"]]

EvidenceGroup == [
  given     |-> Tracked \cup {"group_id"},
  defaulted |-> Created \cup {"item_count"},
  nullable  |-> {"violation_id", "processing_session_id", "started_at",
                "frozen_at"},
  unique    |-> {<<"group_id">>},
  refs      |-> [violation_id |-> "violations",
                 processing_session_id |-> "processing_sessions"]]

EvidenceItem == [
  given     |-> {"evidence_group_id", "frame_id", "sequence_number"},
  defaulted |-> Created,
  nullable  |-> {"frame_db_id", "captured_at", "thumbnail_reference",
                "storage_key", "metadata"},
  unique    |-> {},
  refs      |-> [evidence_group_id |-> "evidence_groups",
                 frame_db_id |-> "frames"]]

Notification == [
  given     |-> {"violation_id"},
  defaulted |-> Created \cup {"channel", "status"},
  nullable  |-> {"sent_at", "delivered_at", "failure_reason"},
  unique    |-> {},
  refs      |-> [violation_id |-> "violations"]]

AuditLog == [
  given     |-> {"occurred_at", "action"},
  defaulted |-> Created \cup {"actor_type", "outcome"},
  nullable  |-> {"actor_id", "entity_type", "entity_id", "correlation_id",
                "source", "reason", "metadata"},
  unique    |-> {},
  refs      |-> NoRefs]

VideoIngestion == [
  given     |-> {"video_name", "source_path", "stored_path", "camera_id"},
  defaulted |-> Created \cup {"video_uuid", "status", "modified_at"},
  nullable  |-> {"zone_id", "duration_sec", "total_frame_count", "frame_sec",
                "height", "width", "error_description", "timestamp"},
  unique    |-> {<<"video_uuid">>},
  refs      |-> NoRefs]

(* The class of each table. *)
Models == [
  cameras |-> Camera,
  streams |-> Stream,
  zones |-> Zone,
  ingestion_sessions |-> IngestionSession,
  processing_sessions |-> ProcessingSession,
  frames |-> Frame,
  detections |-> Detection,
  tracks |-> Track,
  observations |-> Observation,
  state_transitions |-> StateTransition,
  temporal_metrics |-> TemporalMetric,
  compliance_rules |-> ComplianceRule,
  compliance_evaluations |-> ComplianceEvaluation,
  violations |-> Violation,
  evidence_groups |-> EvidenceGroup,
  evidence_items |-> EvidenceItem,
  notifications |-> Notification,
  audit_logs |-> AuditLog,
  video_ingestion |-> VideoIngestion]

Mapped(m) == m.given \cup m.defaulted \cup m.nullable

(* A table is what its class takes it for. *)
Fits(table, m) ==
  /\ table.notNull = m.given \cup m.defaulted /\ table.nullable = m.nullable
  /\ table.unique = m.unique /\ table.refs = m.refs
=============================================================================
