------------------------------ MODULE Dashboard ------------------------------
(***************************************************************************)
(* The reading side of the database: a page of the Streamlit dashboard     *)
(* (frontend/app.py) is a script that runs from the top whenever its timer *)
(* is up or something is clicked, and keeps nothing but its session_state  *)
(* in between.  A run asks the API (main.py) for the recent violations,    *)
(* announces the ones it has not seen, and loads the violation selected    *)
(* and its evidence in requests of their own, between which the database   *)
(* goes on.  A request that fails answers with nothing (repository/api.py).*)
(*                                                                         *)
(* External: a session that has read a table keeps a migration waiting,    *)
(* and the other way round.                                                *)
(* Left out: the thumbnails and the clip, which come from files, and the   *)
(* health and camera cards, which no decision reads.                       *)
(***************************************************************************)
EXTENDS DatabaseSchema, SequencesExt

CONSTANTS
  ConfirmedAt,   (* confirmed_at of each violation                           *)
  RecentLimit,   (* violations asked for by a run                            *)
  ListLimit      (* violations asked for to find the selected one            *)

ASSUME DashboardConfigOK ==
  /\ ConfirmedAt \in [Groups -> Nat]
  /\ RecentLimit \in Nat \ {0} /\ ListLimit \in Nat \ {0}

VARIABLES
  seen,         (* seen_groups                                               *)
  notices,      (* cv_notifications: groups, the oldest notice first         *)
  selected,     (* selected_violation, or NoKey                              *)
  script,       (* where the script is: "top", or about to ask for something *)
  panel,        (* Idle, or [counted, frames] of the evidence read so far    *)
  toasts,       (* history: how often a violation was announced              *)
  overlooked    (* history: stored, but not seen by the last run that asked  *)

page == <<seen, notices, selected, script, panel, toasts, overlooked>>

----------------------------------------------------------------------------
(* Requests *)

(* ViolationRepository.list_recent(): the groups of the newest violations,  *)
(* in any order where they were confirmed in the same frame.                *)
ListRecent(limit) ==
  {[i \in 1..(IF Len(q) < limit THEN Len(q) ELSE limit) |-> q[i].key] :
     q \in {p \in SetToSeqs(RowsIn(rows, "violations")) :
              \A i, j \in DOMAIN p : i < j => ConfirmedAt[p[i].key] >= ConfirmedAt[p[j].key]}}

(* GET /api/violations, GET /api/events/recent; answered once no migration  *)
(* is at work.                                                              *)
Answered(t) == migration = Idle /\ Readable(t)

(* get_violations(), get_recent_events(): the answer, or nothing.           *)
GetViolations(limit) ==
  {<<>>} \cup IF Answered("violations") THEN ListRecent(limit) ELSE {}

GroupRow(g) == {r \in RowsIn(rows, "evidence_groups") : r.key = g}

(* EvidenceItemRepository.list_for_group() *)
ListForGroup(id) ==
  {r.size : r \in {i \in RowsIn(rows, "evidence_items") : i.refs["evidence_group_id"] = id}}

----------------------------------------------------------------------------
(* Notifications *)

(* register_notification for each violation not seen before.                *)
Unseen(recent) == SelectSeq(recent, LAMBDA g : g \notin seen)

Register(new) == notices \o SelectSeq(new, LAMBDA g : g \notin ToSet(notices))

(* render_notifications drops the first k, older than five minutes.         *)
Active(new, k) == SubSeq(Register(new), k + 1, Len(Register(new)))

(* Mutant: the groups seen are those of the last answer. *)
AnnounceLatest(recent) ==
  LET new == Unseen(recent) IN
  /\ seen' = ToSet(recent)
  /\ toasts' = [g \in Groups |->
       toasts[g] + IF g \in ToSet(new) /\ g \notin ToSet(notices) THEN 1 ELSE 0]

Announce(recent) ==
  LET new == Unseen(recent) IN
  /\ seen' = seen \cup ToSet(new)
  /\ toasts' = [g \in Groups |->
       toasts[g] + IF g \in ToSet(new) /\ g \notin ToSet(notices) THEN 1 ELSE 0]

(* What the user has clicked takes effect in the run it causes, if what was *)
(* clicked is still on the page.                                            *)
View(g, onPage) ==
  /\ g \in onPage /\ selected' = g /\ script' = "top"

Close ==
  /\ selected # NoKey /\ selected' = NoKey /\ script' = "top"

Continue ==
  /\ UNCHANGED selected /\ script' = IF selected = NoKey THEN "top" ELSE "list"

(* A run of main(), up to the details. *)
Run ==
  /\ script = "top" /\ panel' = Idle
  /\ \E recent \in GetViolations(RecentLimit), k \in 0..Len(notices) :
       LET active == Active(Unseen(recent), k) IN
       /\ Announce(recent)
       /\ overlooked' = IF recent = <<>> THEN overlooked
                        ELSE {r.key : r \in RowsIn(rows, "violations")} \ seen'
       /\ \/ /\ notices' = active
             /\ Continue \/ Close \/ \E g \in Groups : View(g, ToSet(active) \cup ToSet(recent))
          \/ \E g \in ToSet(active) :
               /\ notices' = SelectSeq(active, LAMBDA h : h # g)   (* dismissed *)
               /\ UNCHANGED selected /\ script' = "top"
  /\ UNCHANGED vars

(* The browser was reloaded: a new session_state. *)
NewSession ==
  /\ seen' = {} /\ notices' = <<>> /\ selected' = NoKey
  /\ script' = "top" /\ panel' = Idle
  /\ toasts' = [g \in Groups |-> 0] /\ overlooked' = {}
  /\ UNCHANGED vars

----------------------------------------------------------------------------
(* The selected violation *)

Details == UNCHANGED <<seen, notices, selected, toasts, overlooked>> /\ UNCHANGED vars

(* _show_violation_detail: nothing, if it is not among those listed.        *)
FindSelected ==
  /\ script = "list"
  /\ \E listed \in GetViolations(ListLimit) :
       script' = IF selected \in ToSet(listed) THEN "group" ELSE "top"
  /\ UNCHANGED panel /\ Details

(* GET /api/violations/{group_id}/evidence: the group, and in the same      *)
(* session its items.                                                       *)
ReadGroup ==
  /\ script = "group" /\ Answered("evidence_groups")
  /\ IF GroupRow(selected) = {}
     THEN panel' = [counted |-> 0, frames |-> {}] /\ script' = "top"
     ELSE /\ \E r \in GroupRow(selected) : panel' = [counted |-> r.size, frames |-> {}]
          /\ script' = "items"
  /\ Details

ReadItems ==
  /\ script = "items" /\ Readable("evidence_items")
  /\ \E r \in GroupRow(selected) : panel' = [panel EXCEPT !.frames = ListForGroup(r.id)]
  /\ script' = "top" /\ Details

(* "Evidence Unavailable" *)
RequestFails ==
  /\ script \in {"group", "items"} /\ script' = "top" /\ panel' = Idle /\ Details

----------------------------------------------------------------------------
DashboardInit ==
  /\ Init
  /\ seen = {} /\ notices = <<>> /\ selected = NoKey /\ script = "top" /\ panel = Idle
  /\ toasts = [g \in Groups |-> 0] /\ overlooked = {}

(* A migration waits for a session that has read. *)
DatabaseStep == Next /\ (script = "items" => migration' = Idle) /\ UNCHANGED page

DashboardNext ==
  DatabaseStep \/ Run \/ NewSession \/ FindSelected \/ ReadGroup \/ ReadItems \/ RequestFails

DashboardSpec == DashboardInit /\ [][DashboardNext]_<<vars, page>>

----------------------------------------------------------------------------
(* Properties *)

(* In a session a violation is announced once, however long it stays among  *)
(* the recent ones after its notice is gone; and a stored violation goes    *)
(* unannounced only behind RecentLimit announced ones confirmed no earlier, *)
(* as one that was stored late may.                                         *)
AnnouncedOnce ==
  /\ \A g \in Groups : toasts[g] <= 1
  /\ \A g \in overlooked :
       Cardinality({h \in seen \ {g} : ConfirmedAt[h] >= ConfirmedAt[g]}) >= RecentLimit

(* A violation is stored whole, and its evidence is shown whole: all items  *)
(* its group counts, though group and items are read in two statements      *)
(* while the persistence thread goes on.                                    *)
StoredAndShownWhole ==
  /\ WholeViolations
  /\ script = "top" /\ panel # Idle => panel.frames = 0..(panel.counted - 1)
=============================================================================
