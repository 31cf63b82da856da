----------------------------- MODULE Migrations -----------------------------
(***************************************************************************)
(* The migrations of the database (alembic/versions): what every DDL       *)
(* statement does to the schema and to the rows in it, and the statements  *)
(* of each revision, up and down.                                          *)
(*                                                                         *)
(* A table is the columns that must and that may be NULL, the columns that *)
(* are unique together, and the tables its columns refer to. Types,        *)
(* lengths, defaults of the server and indexes are left out. A schema is a *)
(* function from the names of the tables; a row names its table, its id    *)
(* and the ids its columns refer to (see DatabaseSchema).                  *)
(***************************************************************************)
EXTENDS Integers, Sequences, SequencesExt, Functions

Created == {"id", "created_at"}
Stamped == Created \cup {"updated_at"}
Placed  == {"camera_id", "zone_id"}
Tracked == Placed \cup {"track_id"}
NoRefs  == <<>>

Columns(table) == table.notNull \cup table.nullable

----------------------------------------------------------------------------
(* Statements.  What PostgreSQL makes of them is external. *)
Create(name, table)   == [ddl |-> "create", on |-> name, table |-> table]
Drop(name)            == [ddl |-> "drop", on |-> name]
AddColumn(name, c, needed)  == [ddl |-> "add", on |-> name, column |-> c, needed |-> needed]
DropColumn(name, c)   == [ddl |-> "remove", on |-> name, column |-> c]

Refers(schema, t, to) == to \in Range(schema[t].refs)

RowsIn(rows, t) == {r \in rows : r.table = t}

(* The statement is carried out. A table is dropped only if no other table  *)
(* refers to it; a column that must not be NULL has no value in old rows.   *)
Runs(s, schema, rows) ==
  CASE s.ddl = "create" ->
         s.on \notin DOMAIN schema /\ Range(s.table.refs) \subseteq DOMAIN schema
    [] s.ddl = "drop" ->
         s.on \in DOMAIN schema /\ \A t \in DOMAIN schema \ {s.on} : ~Refers(schema, t, s.on)
    [] s.ddl = "add" ->
         /\ s.on \in DOMAIN schema /\ s.column \notin Columns(schema[s.on])
         /\ s.needed => RowsIn(rows, s.on) = {}
    [] s.ddl = "remove" ->
         s.on \in DOMAIN schema /\ s.column \in Columns(schema[s.on])

NewSchema(s, schema) ==
  CASE s.ddl = "create" ->
         [t \in DOMAIN schema \cup {s.on} |-> IF t = s.on THEN s.table ELSE schema[t]]
    [] s.ddl = "drop"   -> Restrict(schema, DOMAIN schema \ {s.on})
    [] s.ddl = "add"    ->
         IF s.needed THEN [schema EXCEPT ![s.on].notNull = @ \cup {s.column}]
         ELSE [schema EXCEPT ![s.on].nullable = @ \cup {s.column}]
    [] s.ddl = "remove" ->
         [schema EXCEPT ![s.on].notNull = @ \ {s.column}, ![s.on].nullable = @ \ {s.column}]

NewRows(s, rows) == IF s.ddl = "drop" THEN rows \ RowsIn(rows, s.on) ELSE rows

----------------------------------------------------------------------------
(* Revision 001 *)

CreateCameras == Create("cameras", [
  notNull  |-> Stamped \cup {"camera_key", "name", "status", "enabled"},
  nullable |-> {"description", "location"},
  unique   |-> {<<"camera_key">>},
  refs     |-> NoRefs])

CreateStreams == Create("streams", [
  notNull  |-> Stamped \cup {"camera_id", "stream_type", "enabled"},
  nullable |-> {"source_reference", "configuration"},
  unique   |-> {},
  refs     |-> [camera_id |-> "cameras"]])

CreateZones == Create("zones", [
  notNull  |-> Stamped \cup {"camera_id", "zone_key", "name", "zone_type",
               "enabled"},
  nullable |-> {"geometry"},
  unique   |-> {},
  refs     |-> [camera_id |-> "cameras"]])

CreateIngestionSessions == Create("ingestion_sessions", [
  notNull  |-> Created \cup {"started_at", "status", "frames_read",
               "frames_dropped", "frames_published", "frames_failed",
               "reconnect_count", "error_count"},
  nullable |-> {"camera_id", "stream_id", "ended_at", "last_frame_at"},
  unique   |-> {},
  refs     |-> [camera_id |-> "cameras", stream_id |-> "streams"]])

CreateProcessingSessions == Create("processing_sessions", [
  notNull  |-> Created \cup {"started_at", "status"},
  nullable |-> {"camera_id", "ended_at", "model_name", "model_version",
               "model_path", "configuration"},
  unique   |-> {},
  refs     |-> [camera_id |-> "cameras"]])

CreateFrames == Create("frames", [
  notNull  |-> Created \cup Placed \cup {"frame_id", "received_at",
               "processing_status"},
  nullable |-> {"ingestion_session_id", "captured_at", "width", "height",
               "frame_store_key"},
  unique   |-> {<<"ingestion_session_id", "frame_id">>},
  refs     |-> [ingestion_session_id |-> "ingestion_sessions"]])

CreateDetections == Create("detections", [
  notNull  |-> Created \cup Placed \cup {"class_id", "class_name",
               "confidence", "x1", "y1", "x2", "y2", "use_case"},
  nullable |-> {"frame_db_id", "processing_session_id"},
  unique   |-> {},
  refs     |-> [frame_db_id |-> "frames",
                processing_session_id |-> "processing_sessions"]])

CreateTracks == Create("tracks", [
  notNull  |-> Stamped \cup Tracked \cup {"first_seen_at", "last_seen_at",
               "status"},
  nullable |-> {"processing_session_id"},
  unique   |-> {},
  refs     |-> [processing_session_id |-> "processing_sessions"]])

CreateObservations == Create("observations", [
  notNull  |-> Created \cup Tracked \cup {"observed_at", "inside_sink_zone",
               "water_detected", "soap_detected", "hands_interacting",
               "observation_type"},
  nullable |-> {"frame_db_id", "processing_session_id", "track_bbox",
               "metadata"},
  unique   |-> {},
  refs     |-> [frame_db_id |-> "frames",
                processing_session_id |-> "processing_sessions"]])

CreateStateTransitions == Create("state_transitions", [
  notNull  |-> Created \cup Tracked \cup {"previous_state", "new_state",
               "transition_at", "sequence_valid"},
  nullable |-> {"processing_session_id", "duration_seconds", "reason",
               "correlation_id"},
  unique   |-> {},
  refs     |-> [processing_session_id |-> "processing_sessions"]])

CreateTemporalMetrics == Create("temporal_metrics", [
  notNull  |-> Created \cup Tracked \cup {"evaluated_at", "current_state",
               "at_sink_duration", "water_on_duration",
               "soap_applied_duration", "washing_duration",
               "rinsing_duration", "sequence_valid", "continuity_valid",
               "observation_count", "last_gap_seconds"},
  nullable |-> {"processing_session_id", "metrics"},
  unique   |-> {},
  refs     |-> [processing_session_id |-> "processing_sessions"]])

CreateComplianceRules == Create("compliance_rules", [
  notNull  |-> Created \cup {"rule_key", "name", "use_case", "version",
               "enabled"},
  nullable |-> {"configuration"},
  unique   |-> {<<"rule_key">>},
  refs     |-> NoRefs])

CreateComplianceEvaluations == Create("compliance_evaluations", [
  notNull  |-> Created \cup Tracked \cup {"evaluated_at", "result"},
  nullable |-> {"processing_session_id", "temporal_metrics_id", "rule_id",
               "reason_code", "reason", "correlation_id"},
  unique   |-> {},
  refs     |-> [processing_session_id |-> "processing_sessions",
                temporal_metrics_id |-> "temporal_metrics",
                rule_id |-> "compliance_rules"]])

CreateViolations == Create("violations", [
  notNull  |-> Stamped \cup Tracked \cup {"group_id", "violation_type",
               "confirmed_at", "status"},
  nullable |-> {"compliance_evaluation_id", "processing_session_id",
               "rule_id", "reason_code", "reason", "started_at"},
  unique   |-> {<<"group_id">>},
  refs     |-> [compliance_evaluation_id |-> "compliance_evaluations",
                processing_session_id |-> "processing_sessions",
                rule_id |-> "compliance_rules"]])

CreateEvidenceGroups == Create("evidence_groups", [
  notNull  |-> Created \cup Tracked \cup {"group_id", "item_count"},
  nullable |-> {"violation_id", "processing_session_id", "started_at",
               "frozen_at"},
  unique   |-> {<<"group_id">>},
  refs     |-> [violation_id |-> "violations",
                processing_session_id |-> "processing_sessions"]])

CreateEvidenceItems == Create("evidence_items", [
  notNull  |-> Created \cup {"evidence_group_id", "frame_id",
               "sequence_number"},
  nullable |-> {"frame_db_id", "captured_at", "thumbnail_reference",
               "storage_key", "metadata"},
  unique   |-> {},
  refs     |-> [evidence_group_id |-> "evidence_groups",
                frame_db_id |-> "frames"]])

CreateNotifications == Create("notifications", [
  notNull  |-> Created \cup {"violation_id", "channel", "status"},
  nullable |-> {"sent_at", "delivered_at", "failure_reason"},
  unique   |-> {},
  refs     |-> [violation_id |-> "violations"]])

CreateAuditLogs == Create("audit_logs", [
  notNull  |-> Created \cup {"occurred_at", "actor_type", "action",
               "outcome"},
  nullable |-> {"actor_id", "entity_type", "entity_id", "correlation_id",
               "source", "reason", "metadata"},
  unique   |-> {},
  refs     |-> NoRefs])

Initial == <<
  CreateCameras, CreateStreams, CreateZones, CreateIngestionSessions,
  CreateProcessingSessions, CreateFrames, CreateDetections, CreateTracks,
  CreateObservations, CreateStateTransitions, CreateTemporalMetrics,
  CreateComplianceRules, CreateComplianceEvaluations, CreateViolations,
  CreateEvidenceGroups, CreateEvidenceItems, CreateNotifications, CreateAuditLogs>>

(* Mutant: the tables are dropped in the order they were created in.        *)
DropInitialInOrder == [i \in 1..Len(Initial) |-> Drop(Initial[i].on)]

DropInitial == <<
  Drop("audit_logs"), Drop("notifications"), Drop("evidence_items"),
  Drop("evidence_groups"), Drop("violations"), Drop("compliance_evaluations"),
  Drop("compliance_rules"), Drop("temporal_metrics"), Drop("state_transitions"),
  Drop("observations"), Drop("tracks"), Drop("detections"), Drop("frames"),
  Drop("processing_sessions"), Drop("ingestion_sessions"), Drop("zones"),
  Drop("streams"), Drop("cameras")>>

(* Revision 002 *)

CreateVideoIngestion == Create("video_ingestion", [
  notNull  |-> Created \cup {"video_uuid", "video_name", "source_path",
               "stored_path", "camera_id", "status", "modified_at"},
  nullable |-> {"zone_id", "duration_sec", "total_frame_count", "frame_sec",
               "height", "width", "timestamp"},
  unique   |-> {<<"video_uuid">>},
  refs     |-> NoRefs])

DropVideoIngestion == Drop("video_ingestion")

(* Revision 003 *)

AddErrorDescription == AddColumn("video_ingestion", "error_description", FALSE)
DropErrorDescription == DropColumn("video_ingestion", "error_description")

----------------------------------------------------------------------------
HeadRevision == 3

Upgrade(r) == CASE r = 1 -> Initial [] r = 2 -> <<CreateVideoIngestion>> [] r = 3 -> <<AddErrorDescription>>
Downgrade(r) ==
  CASE r = 1 -> DropInitial [] r = 2 -> <<DropVideoIngestion>> [] r = 3 -> <<DropErrorDescription>>

(* What alembic runs to get from one revision to another. *)
Script(from, to) ==
  IF from < to THEN FlattenSeq([i \in 1..(to - from) |-> Upgrade(from + i)])
  ELSE FlattenSeq([i \in 1..(from - to) |-> Downgrade(from + 1 - i)])
=============================================================================
