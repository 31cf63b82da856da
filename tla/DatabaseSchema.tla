--------------------------- MODULE DatabaseSchema ---------------------------
(***************************************************************************)
(* The database between those who change its schema and those who write    *)
(* to it: alembic, run by hand, takes it from one revision to another in   *)
(* one transaction (alembic/env.py); the persistence thread stores a       *)
(* violation with everything that belongs to it in one transaction         *)
(* (persistence_worker.py), one flush after the other; the ingestion keeps *)
(* the rows of the files it plays (connectors/video.py). Nothing looks at  *)
(* the revision when the application starts.                               *)
(*                                                                         *)
(* External: PostgreSQL rolls DDL back with its transaction and makes a    *)
(* migration and the transactions of the application look as if they ran   *)
(* one after the other. A connection may be lost at any point.             *)
(***************************************************************************)
EXTENDS OrmModels, FiniteSets

CONSTANTS
  Groups,          (* group ids of alerts *)
  Sizes,           (* numbers of items an evidence may have *)
  NoEvidence,      (* the evidence of an alert was not found *)
  Videos,          (* files to play *)
  Idle, NoKey

ASSUME SchemaConfigOK ==
  Sizes \subseteq Nat /\ NoEvidence \notin Sizes /\ NoKey \notin Groups \cup Videos

Alerts == [group : Groups, items : Sizes \cup {NoEvidence}]

VARIABLES
  schema, rows, revision,   (* what is committed *)
  migration,   (* Idle, or [to, todo, schema, rows] of the run of alembic *)
  txn,         (* Idle, or [alert, todo, own] of the persistence thread *)
  rejected     (* history: whose statement the last step rejected, at which revision *)

vars == <<schema, rows, revision, migration, txn, rejected>>

Reject(who) == rejected' = {[who |-> who, at |-> revision]}
Accept == rejected' = {}

----------------------------------------------------------------------------
(* Rows.  size is the item_count of a group, the sequence_number of an item *)
Row(table, id, key, refs, size, status) ==
  [table |-> table, id |-> id, key |-> key, refs |-> refs, size |-> size, status |-> status]

(* The class can be selected: every column it has is there. *)
Readable(t) == t \in DOMAIN schema /\ Mapped(Models[t]) \subseteq Columns(schema[t])

(* session.flush() of a new object: an INSERT of every mapped column.       *)
Accepted(i, all) ==
  LET t == i.row.table IN
  /\ Readable(t)
  /\ schema[t].notNull \subseteq i.given \cup Models[t].defaulted
  /\ \A c \in DOMAIN i.row.refs :
       \E r \in RowsIn(all, schema[t].refs[c]) : r.id = i.row.refs[c]
  /\ schema[t].unique # {} => \A r \in RowsIn(all, t) : r.key # i.row.key

----------------------------------------------------------------------------
(* What is stored of an alert *)

InsertViolation(a) ==
  [row |-> Row("violations", <<a.group>>, a.group, NoRefs, 0, "CONFIRMED"),
   given |-> Tracked \cup {"group_id", "violation_type", "reason", "reason_code", "confirmed_at"}
             \cup IF a.items \in Nat \ {0} THEN {"started_at"} ELSE {}]

InsertEvidenceGroup(a) ==
  [row |-> Row("evidence_groups", <<a.group>>, a.group, [violation_id |-> <<a.group>>], a.items, ""),
   given |-> Tracked \cup {"group_id", "violation_id", "frozen_at", "item_count"}
             \cup IF a.items # 0 THEN {"started_at"} ELSE {}]

(* storage_key is NULL when the file could not be written. *)
InsertEvidenceItem(a, seq) ==
  [row |-> Row("evidence_items", <<a.group, seq>>, NoKey, [evidence_group_id |-> <<a.group>>], seq, ""),
   given |-> {"evidence_group_id", "frame_id", "sequence_number", "captured_at",
              "thumbnail_reference"}]

InsertNotification(a) ==
  [row |-> Row("notifications", <<a.group>>, NoKey, [violation_id |-> <<a.group>>], 0, "PENDING"),
   given |-> {"violation_id", "channel", "status"}]

(* AuditService.record() *)
InsertAudit(a, n) ==
  [row |-> Row("audit_logs", <<a.group, n>>, NoKey, NoRefs, 0, "SUCCESS"),
   given |-> {"occurred_at", "actor_type", "action", "entity_type", "entity_id",
              "correlation_id", "source", "outcome", "metadata"}]

(* The flushes of _persist_violation, each with the rows it inserts. *)
Flushes(a) ==
  LET found == a.items # NoEvidence IN
  <<{InsertViolation(a)}>>
  \o (IF found
      THEN <<{InsertEvidenceGroup(a)},
             {InsertEvidenceItem(a, seq) : seq \in 0..(a.items - 1)}>>
      ELSE <<>>)
  \o <<{InsertNotification(a)}, {InsertAudit(a, 1)}>>
  \o (IF found THEN <<{InsertAudit(a, 2)}>> ELSE <<>>)
  \o <<{InsertAudit(a, 3)}>>

----------------------------------------------------------------------------
(* The persistence thread *)

(* The session opens with the idempotency guard, a SELECT. *)
BeginViolation(a) ==
  /\ txn = Idle /\ migration = Idle
  /\ IF Readable("violations")
     THEN /\ \A r \in RowsIn(rows, "violations") : r.key # a.group
          /\ txn' = [alert |-> a, todo |-> Flushes(a), own |-> {}] /\ Accept
     ELSE Reject("persistence") /\ UNCHANGED txn
  /\ UNCHANGED <<schema, rows, revision, migration>>

(* Mutant: save() commits what it has flushed.                              *)
FlushCommits ==
  /\ txn # Idle /\ txn.todo # <<>>
  /\ rows' = rows \cup {i.row : i \in Head(txn.todo)}
  /\ txn' = [txn EXCEPT !.todo = Tail(@)]
  /\ UNCHANGED <<schema, revision, migration>> /\ Accept

(* save(), save_batch(): one flush. *)
Flush ==
  /\ txn # Idle /\ txn.todo # <<>>
  /\ IF \A i \in Head(txn.todo) : Accepted(i, rows \cup txn.own)
     THEN /\ txn' = [txn EXCEPT !.todo = Tail(@), !.own = @ \cup {i.row : i \in Head(txn.todo)}]
          /\ Accept
     ELSE txn' = Idle /\ Reject("persistence")
  /\ UNCHANGED <<schema, rows, revision, migration>>

CommitViolation ==
  /\ txn # Idle /\ txn.todo = <<>>
  /\ rows' = rows \cup txn.own /\ txn' = Idle
  /\ UNCHANGED <<schema, revision, migration>> /\ Accept

(* The session is left with an exception: a file, the connection. *)
RollBack ==
  /\ txn # Idle /\ txn' = Idle
  /\ UNCHANGED <<schema, rows, revision, migration>> /\ Accept

----------------------------------------------------------------------------
(* The ingestion: VideoIngestionRepository, a session for each call. *)

VideoRow(v, status) == Row("video_ingestion", <<v>>, v, NoRefs, 0, status)

CreateVideo(v, status) ==
  LET i == [row |-> VideoRow(v, status),
            given |-> {"video_name", "source_path", "stored_path", "camera_id", "zone_id",
                       "status", "timestamp"}] IN
  /\ migration = Idle /\ \A r \in RowsIn(rows, "video_ingestion") : r.key # v
  /\ IF Accepted(i, rows)
     THEN rows' = rows \cup {i.row} /\ Accept
     ELSE Reject("ingestion") /\ UNCHANGED rows
  /\ UNCHANGED <<schema, revision, migration, txn>>

(* A row that is no longer there is no error. *)
CompleteVideo(v) ==
  /\ migration = Idle
  /\ IF Readable("video_ingestion")
     THEN /\ rows' = {IF r = VideoRow(v, "INGESTING") THEN VideoRow(v, "COMPLETED") ELSE r : r \in rows}
          /\ Accept
     ELSE Reject("ingestion") /\ UNCHANGED rows
  /\ UNCHANGED <<schema, revision, migration, txn>>

----------------------------------------------------------------------------
(* Alembic *)

BeginMigration(to) ==
  /\ migration = Idle /\ txn = Idle /\ to # revision
  /\ migration' = [to |-> to, todo |-> Script(revision, to), schema |-> schema, rows |-> rows]
  /\ UNCHANGED <<schema, rows, revision, txn>> /\ Accept

Statement ==
  /\ migration # Idle /\ migration.todo # <<>>
  /\ LET s == Head(migration.todo) IN
     IF Runs(s, migration.schema, migration.rows)
     THEN /\ migration' = [migration EXCEPT !.todo = Tail(@), !.schema = NewSchema(s, @),
                                            !.rows = NewRows(s, @)]
          /\ Accept
     ELSE migration' = Idle /\ Reject("alembic")
  /\ UNCHANGED <<schema, rows, revision, txn>>

CommitMigration ==
  /\ migration # Idle /\ migration.todo = <<>>
  /\ schema' = migration.schema /\ rows' = migration.rows /\ revision' = migration.to
  /\ migration' = Idle /\ UNCHANGED <<txn>> /\ Accept

MigrationLost ==
  /\ migration # Idle /\ migration' = Idle
  /\ UNCHANGED <<schema, rows, revision, txn>> /\ Accept

----------------------------------------------------------------------------
Init ==
  /\ schema = <<>> /\ rows = {} /\ revision = 0
  /\ migration = Idle /\ txn = Idle /\ rejected = {}

Next ==
  \/ \E a \in Alerts : BeginViolation(a)
  \/ Flush \/ CommitViolation \/ RollBack
  \/ \E v \in Videos : CompleteVideo(v) \/ \E s \in {"INGESTING", "FAILED"} : CreateVideo(v, s)
  \/ \E to \in 0..HeadRevision : BeginMigration(to)
  \/ Statement \/ CommitMigration \/ MigrationLost

Spec == Init /\ [][Next]_vars

----------------------------------------------------------------------------
(* Properties *)

(* No migration fails, up or down, from and to any revision, with rows in   *)
(* the tables; at the head the tables are what the classes take them for,   *)
(* and nothing the application writes is rejected. Below the head it is:    *)
(* without 001 no violation is stored, without 003 no file is played.       *)
RejectedOnlyBelowHead ==
  /\ \A r \in rejected : r.who # "alembic" /\ r.at < (IF r.who = "persistence" THEN 1 ELSE HeadRevision)
  /\ revision = HeadRevision =>
       DOMAIN schema = DOMAIN Models /\ \A t \in DOMAIN Models : Fits(schema[t], Models[t])

(* A violation is stored whole or not at all: with its notification, its    *)
(* audit trail and, if there is evidence, a group that counts its items     *)
(* right; and nothing is stored of a violation that is not ("one            *)
(* transaction", persistence_worker.py:206).                                *)
About(t, g) == {r \in RowsIn(rows, t) : r.id[1] = g}

WholeViolations ==
  \A g \in Groups :
    LET n == Cardinality(About("violations", g))
        found == About("evidence_groups", g) IN
    /\ Cardinality(About("notifications", g)) = n /\ Cardinality(found) <= n
    /\ Cardinality(About("audit_logs", g)) = 2 * n + Cardinality(found)
    /\ {r.size : r \in About("evidence_items", g)} = UNION {0..(e.size - 1) : e \in found}
=============================================================================
