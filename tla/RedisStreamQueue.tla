-------------------------- MODULE RedisStreamQueue --------------------------
(***************************************************************************)
(* One topic of RedisStreamMessageQueue                                    *)
(* (infrastructure/redis/message_queue.py) between the thread that         *)
(* publishes and the worker that gets.  Every Redis command is a step of   *)
(* its own, so that trimming, publications and the death of the process    *)
(* come in between; every command may fail, before or after it took        *)
(* effect.                                                                 *)
(*                                                                         *)
(* External: what Redis does for XADD with MAXLEN, XGROUP CREATE,          *)
(* XPENDING, XCLAIM, XREADGROUP and XACK, for one group with one consumer  *)
(* name (the hostname, the same after a restart).  Left out: metrics, the  *)
(* blocking of XREADGROUP.                                                 *)
(***************************************************************************)
EXTENDS EventSerialization, FiniteSets

CONSTANTS
  Topics,           (* topics, keys of TopicToEventType: the run is for one  *)
  Offered,          (* topic -> the messages published on it, in this order  *)
  Foreign,          (* positions at which another program writes data that   *)
                    (* is not an event                                       *)
  MaxLength,        (* streams.max_length                                    *)
  MaxEntries,       (* bound: messages published                             *)
  MaxFailures,      (* bound: commands that fail                             *)
  MaxBoots          (* bound: processes started                              *)

ASSUME StreamConfigOK ==
  /\ Topics \subseteq DOMAIN TopicToEventType
  /\ MaxEntries \in Nat /\ \A t \in Topics : Len(Offered[t]) \in 0..MaxEntries
  /\ MaxLength \in Nat \ {0} /\ MaxFailures \in Nat /\ MaxBoots \in Nat \ {0}

(* What is published are events of the topic, and no event is None.         *)
ASSUME EventsOffered ==
  \A t \in Topics : \A i \in 1..Len(Offered[t]) :
    IsEvent(t, Offered[t][i]) /\ Serialize(t, Offered[t][i]).data # None

VARIABLES
  topic,     (* the topic *)
  forgets,   (* XCLAIM drops the pending ids of trimmed entries (Redis 7) *)
  offered,   (* publications begun *)
  log,       (* entry id -> the publication it holds: all entries ever added *)
  trimmed,   (* entries up to this id are no longer in the stream *)
  group,     (* the consumer group exists in Redis *)
  cursor,    (* its last delivered id *)
  pel,       (* its pending entries: delivered and not acknowledged *)
  idle,      (* those of them delivered pending_idle_timeout_ms ago *)
  marked,    (* the group is in _groups_initialised *)
  due,       (* recovery_interval_seconds are over since _last_recovery *)
  pc,        (* where the worker is in get() *)
  msg,       (* the entry it has in hand, 0 for none *)
  fails,     (* commands that failed *)
  boot,      (* number of the process *)
  fate,      (* history: what became of each entry *)
  handed,    (* history: how often each entry was returned to the worker *)
  unacked    (* history: entries returned although their XACK failed *)

redis   == <<log, trimmed, group, cursor, pel, idle>>
process == <<marked, due, pc, msg>>
history == <<fate, handed, unacked>>
vars == <<topic, forgets, offered, redis, process, fails, boot, history>>

Entries == DOMAIN log
MaxOf(a, b) == IF a > b THEN a ELSE b
Oldest(S) == CHOOSE m \in S : \A n \in S : m <= n

TypeOK ==
  /\ topic \in Topics /\ forgets \in BOOLEAN /\ offered \in 0..Len(Offered[topic])
  /\ log \in Seq(1..offered) /\ trimmed \in 0..Len(log) /\ cursor \in 0..Len(log)
  /\ group \in BOOLEAN /\ marked \in BOOLEAN /\ due \in BOOLEAN
  /\ pel \subseteq 1..cursor /\ idle \subseteq pel
  /\ pc \in {"out", "ensure", "due", "pending", "claim", "settle", "read", "ack",
             "work", "down"}
  /\ msg \in 0..cursor /\ (msg = 0 <=> pc \notin {"claim", "settle", "ack", "work"})
  /\ fails \in 0..MaxFailures /\ boot \in 1..MaxBoots
  /\ fate \in [Entries -> {"open", "done", "trimmed", "undecodable", "crashed", "unanswered"}]
  /\ handed \in [Entries -> Nat] /\ unacked \subseteq Entries

Fate(m, f) == [fate EXCEPT ![m] = IF @ = "open" THEN f ELSE @]

(* What the entry holds, and what deserialize() makes of it. *)
Data(m) == IF log[m] \in Foreign THEN [event_type |-> "other", data |-> None]
                                 ELSE Serialize(topic, Offered[topic][log[m]])
Decoded(m) == Deserialize(Data(m))
Undecodable(m) == log[m] \in Foreign

(* A command that fails: the bound on failures, and whether it took effect. *)
Fails == fails < MaxFailures /\ fails' = fails + 1
Works == fails' = fails

----------------------------------------------------------------------------
(* publish(): XADD, which trims approximately: never below MaxLength, and   *)
(* not always as far.  A message whose command fails without effect is gone.*)
Publish ==
  /\ pc # "down" /\ offered < Len(Offered[topic])
  /\ offered' = offered + 1
  /\ \/ /\ Works \/ Fails
        /\ log' = Append(log, offered')
        /\ trimmed' \in trimmed..MaxOf(trimmed, Len(log') - MaxLength)
        /\ fate' = [m \in DOMAIN log' |->
             IF m > Len(log) THEN "open"
             ELSE IF m \in (MaxOf(cursor, trimmed) + 1)..trimmed' THEN "trimmed"
             ELSE fate[m]]
        /\ handed' = [m \in DOMAIN log' |-> IF m > Len(log) THEN 0 ELSE handed[m]]
     \/ Fails /\ UNCHANGED <<log, trimmed, fate, handed>>
  /\ UNCHANGED <<topic, forgets, group, cursor, pel, idle, process, boot, unacked>>

----------------------------------------------------------------------------
(* get() *)

Goto(where) == pc' = where

(* The worker calls get(); a group created once is not created again. *)
Call ==
  /\ pc = "out" /\ Goto(IF marked THEN "due" ELSE "ensure")
  /\ UNCHANGED <<topic, forgets, offered, redis, marked, due, msg, fails, boot, history>>

(* Mutant: the group starts at the end of the stream ("$").                 *)
EnsureGroupAtEnd ==
  /\ pc = "ensure" /\ Goto("due") /\ marked' = TRUE
  /\ \/ (Works \/ Fails) /\ group' = TRUE /\ cursor' = IF group THEN cursor ELSE Len(log)
     \/ Fails /\ group' = group /\ cursor' = cursor
  /\ UNCHANGED <<topic, forgets, offered, log, trimmed, pel, idle, due, msg, boot, history>>

(* XGROUP CREATE from the beginning of the stream; BUSYGROUP is no error.   *)
(* The group is marked whatever came of it.                                 *)
EnsureGroup ==
  /\ pc = "ensure" /\ Goto("due") /\ marked' = TRUE
  /\ \/ (Works \/ Fails) /\ group' = TRUE
     \/ Fails /\ group' = group
  /\ UNCHANGED <<topic, forgets, offered, log, trimmed, cursor, pel, idle, due, msg, boot, history>>

IsRecoveryDue ==
  /\ pc = "due" /\ Goto(IF due THEN "pending" ELSE "read") /\ due' = FALSE
  /\ UNCHANGED <<topic, forgets, offered, redis, marked, msg, fails, boot, history>>

(* Mutant: the idle test is the wrong way round.                            *)
LookAtPendingFresh ==
  /\ pc = "pending"
  /\ \/ /\ Works
        /\ IF group /\ pel # {} /\ Oldest(pel) \notin idle
           THEN Goto("claim") /\ msg' = Oldest(pel)
           ELSE Goto("read") /\ msg' = msg
     \/ Fails /\ Goto("read") /\ msg' = msg
  /\ UNCHANGED <<topic, forgets, offered, redis, marked, due, boot, history>>

(* XPENDING of one entry, the oldest; without a group it is an error. *)
LookAtPending ==
  /\ pc = "pending"
  /\ \/ /\ Works
        /\ IF group /\ pel # {} /\ Oldest(pel) \in idle
           THEN Goto("claim") /\ msg' = Oldest(pel)
           ELSE Goto("read") /\ msg' = msg
     \/ Fails /\ Goto("read") /\ msg' = msg
  /\ UNCHANGED <<topic, forgets, offered, redis, marked, due, boot, history>>

(* XCLAIM.  An entry that was trimmed is forgotten by Redis 7; older ones   *)
(* answer with nothing in its place, which the client turns into an entry   *)
(* without fields: an exception, and the entry stays pending.               *)
Claim ==
  /\ pc = "claim" /\ idle' = idle \ {msg}
  /\ IF msg > trimmed
     THEN /\ \/ Works /\ Goto("settle") /\ msg' = msg
             \/ Fails /\ Goto("read") /\ msg' = 0
          /\ UNCHANGED <<pel, fate>>
     ELSE /\ (Works \/ Fails) /\ Goto("read") /\ msg' = 0
          /\ IF forgets
             THEN pel' = pel \ {msg} /\ fate' = Fate(msg, "trimmed")
             ELSE UNCHANGED <<pel, fate>>
  /\ UNCHANGED <<topic, forgets, offered, log, trimmed, group, cursor, marked, due, boot, handed, unacked>>

ClaimFails ==
  /\ pc = "claim" /\ Fails /\ Goto("read") /\ msg' = 0
  /\ UNCHANGED <<topic, forgets, offered, redis, marked, due, boot, history>>

(* The entry becomes the worker's, or is skipped if it does not decode. *)
HandOver(skipTo) ==
  IF Undecodable(msg)
  THEN /\ Goto(skipTo) /\ msg' = 0 /\ fate' = Fate(msg, "undecodable") /\ handed' = handed
  ELSE /\ Goto("work") /\ msg' = msg /\ fate' = fate
       /\ handed' = [handed EXCEPT ![msg] = @ + 1]

(* Mutant: a failed XACK is only logged, as in get(), and the object is     *)
(* returned.                                                                *)
SettleHandsOverAnyway ==
  /\ pc = "settle" /\ HandOver("read")
  /\ \/ (Works \/ Fails) /\ pel' = pel \ {msg} /\ idle' = idle \ {msg}
     \/ Fails /\ UNCHANGED <<pel, idle>>
  /\ UNCHANGED <<topic, forgets, offered, log, trimmed, group, cursor, marked, due, boot, unacked>>

(* XACK of a recovered entry.  If it fails the object is thrown away: the   *)
(* entry is still pending, or, when only the answer was lost, it is not.    *)
Settle ==
  /\ pc = "settle"
  /\ \/ Works /\ pel' = pel \ {msg} /\ idle' = idle \ {msg} /\ HandOver("read")
     \/ /\ Fails /\ Goto("read") /\ msg' = 0 /\ handed' = handed
        /\ \/ UNCHANGED <<pel, idle, fate>>
           \/ /\ pel' = pel \ {msg} /\ idle' = idle \ {msg}
              /\ fate' = Fate(msg, IF Undecodable(msg) THEN "undecodable" ELSE "unanswered")
  /\ UNCHANGED <<topic, forgets, offered, log, trimmed, group, cursor, marked, due, boot, unacked>>

(* XREADGROUP of one new entry; queue.Empty if there is none, the group is  *)
(* missing, or the command fails.                                           *)
Unread == MaxOf(cursor, trimmed) + 1

Read ==
  /\ pc = "read"
  /\ IF group /\ Unread \in Entries
     THEN /\ cursor' = Unread /\ pel' = pel \cup {Unread}
          /\ \/ Works /\ Goto("ack") /\ msg' = Unread
             \/ Fails /\ Goto("out") /\ msg' = msg
     ELSE Works /\ Goto("out") /\ UNCHANGED <<cursor, pel, msg>>
  /\ UNCHANGED <<topic, forgets, offered, log, trimmed, group, idle, marked, due, boot, history>>

ReadFails ==
  /\ pc = "read" /\ Fails /\ Goto("out")
  /\ UNCHANGED <<topic, forgets, offered, redis, marked, due, msg, boot, history>>

(* XACK of a new entry, before the worker has it.  A failure is only logged. *)
Ack ==
  /\ pc = "ack" /\ HandOver("out")
  /\ \/ (Works \/ Fails) /\ pel' = pel \ {msg} /\ idle' = idle \ {msg} /\ unacked' = unacked
     \/ Fails /\ unacked' = unacked \cup {msg} /\ UNCHANGED <<pel, idle>>
  /\ UNCHANGED <<topic, forgets, offered, log, trimmed, group, cursor, marked, due, boot>>

(* The worker is done with the message, well or not, and calls get() again. *)
Finish ==
  /\ pc = "work" /\ Goto("out") /\ msg' = 0 /\ fate' = Fate(msg, "done")
  /\ UNCHANGED <<topic, forgets, offered, redis, marked, due, fails, boot, handed, unacked>>

----------------------------------------------------------------------------
(* Time and restarts *)

RecoveryDue ==
  /\ ~due /\ pc # "down" /\ due' = TRUE
  /\ UNCHANGED <<topic, forgets, offered, redis, marked, pc, msg, fails, boot, history>>

Age(m) ==
  /\ m \in pel \ idle /\ idle' = idle \cup {m}
  /\ UNCHANGED <<topic, forgets, offered, log, trimmed, group, cursor, pel, process, fails, boot, history>>

Crash ==
  /\ pc # "down" /\ boot < MaxBoots
  /\ Goto("down") /\ msg' = 0
  /\ fate' = IF pc = "work" THEN Fate(msg, "crashed") ELSE fate
  /\ UNCHANGED <<topic, forgets, offered, redis, marked, due, fails, boot, handed, unacked>>

Restart ==
  /\ pc = "down" /\ Goto("out") /\ boot' = boot + 1
  /\ marked' = FALSE /\ due' = TRUE
  /\ UNCHANGED <<topic, forgets, offered, redis, msg, fails, history>>

----------------------------------------------------------------------------
Init ==
  /\ topic \in Topics /\ forgets \in BOOLEAN /\ offered = 0
  /\ log = <<>> /\ trimmed = 0 /\ group = FALSE /\ cursor = 0 /\ pel = {} /\ idle = {}
  /\ marked = FALSE /\ due = TRUE /\ pc = "out" /\ msg = 0
  /\ fails = 0 /\ boot = 1
  /\ fate = <<>> /\ handed = <<>> /\ unacked = {}

Get == Call \/ EnsureGroup \/ IsRecoveryDue \/ LookAtPending \/ Claim \/ ClaimFails
       \/ Settle \/ Read \/ ReadFails \/ Ack \/ Finish

Next == Publish \/ Get \/ RecoveryDue \/ (\E m \in Entries : Age(m)) \/ Crash \/ Restart

(* The worker's thread runs, and time passes; whether commands succeed,     *)
(* publications and restarts are left open.                                 *)
Spec == Init /\ [][Next]_vars /\ WF_vars(Get) /\ WF_vars(RecoveryDue)
             /\ \A m \in 1..MaxEntries : WF_vars(m \in Entries /\ Age(m))

----------------------------------------------------------------------------
(* Properties *)

(* No entry disappears: one that is neither finished nor lost in a way the  *)
(* code cannot help waits to be read, is pending, or is being worked on     *)
(* (_ensure_group starts the group at the beginning of the stream; an entry *)
(* is pending until its XACK).                                              *)
EveryEntryAccounted ==
  /\ TypeOK
  /\ \A m \in Entries : fate[m] = "open" =>
       m > MaxOf(cursor, trimmed) \/ m \in pel \/ (pc = "work" /\ msg = m)

(* A message is returned to the worker a second time only if the XACK of    *)
(* the first time failed, and never a third time: a recovered message is    *)
(* returned only once its XACK has succeeded.                               *)
TwiceOnlyUnacknowledged ==
  \A m \in Entries : handed[m] <= IF m \in unacked THEN 2 ELSE 1

(* What the worker gets for a message: what was published, up to times that *)
(* had no zone; detections without track ids and frame shape.               *)
InUtc(t) == [t EXCEPT !.aware = TRUE]
ItemInUtc(item) == [item EXCEPT !.timestamp = InUtc(@)]

AsReceived(t, message) ==
  CASE t = "frames" -> [message EXCEPT !.captured_at = InUtc(@), !.received_at = InUtc(@)]
    [] t = "detections" ->
         [message EXCEPT !.captured_at = InUtc(@), !.processed_at = InUtc(@),
            !.frame_shape = <<0, 0>>,
            !.detections = [i \in DOMAIN @ |-> [@[i] EXCEPT !.track_id = None]]]
    [] t = "alerts" -> [message EXCEPT !.timestamp = InUtc(@)]
    [] t = "evidence" ->
         [message EXCEPT !.timestamp = InUtc(@),
            !.payload.items = [i \in DOMAIN @ |-> ItemInUtc(@[i])]]

HandedWhole ==
  pc = "work" => /\ ~Undecodable(msg)
                 /\ Decoded(msg) = AsReceived(topic, Offered[topic][log[msg]])

(* Once the group exists every entry is read, unless it is trimmed first or *)
(* the process dies: neither recovery nor failed commands starve new ones.  *)
NewEntriesRead ==
  \A m \in 1..MaxEntries :
    (group /\ m \in Entries) ~> (m <= MaxOf(cursor, trimmed) \/ pc = "down")

(* A pending entry is recovered by the process or the next one, unless the  *)
(* oldest pending entry was trimmed from the stream of an old Redis: XCLAIM *)
(* of it fails for ever, and recovery looks at no other.                    *)
Blocked == ~forgets /\ pel # {} /\ Oldest(pel) <= trimmed

PendingRecovered ==
  \A m \in 1..MaxEntries : m \in pel ~> (m \notin pel \/ Blocked \/ pc = "down")

(* No entry stays in the stream or in the pending list for ever. *)
EntriesLeave == NewEntriesRead /\ PendingRecovered
=============================================================================
