----------------------- MODULE RedisStreamQueueProofs -----------------------
(***************************************************************************)
(* One topic of the Redis queue, for any number of entries, failures of    *)
(* commands and deaths of the process: no entry disappears, none is handed *)
(* over again but after a failed XACK, and what is handed over is the      *)
(* event that was published, for each of the four kinds of event.          *)
(***************************************************************************)
EXTENDS RedisStreamQueue, SequenceTheorems, TLAPS

Fates == {"open", "done", "trimmed", "undecodable", "crashed", "unanswered"}

(* Typing, and what the type invariant needs to be inductive: the process   *)
(* that is down is not the last one.                                        *)
Typed == TypeOK /\ (pc = "down" => boot < MaxBoots)

(* An entry is read but once, pending entries are handed over but once, if  *)
(* their XACK failed then, and the worker gets what it took from pel.       *)
Once ==
  /\ \A m \in Entries : m > cursor => handed[m] = 0 /\ m \notin unacked
  /\ \A m \in pel : handed[m] <= IF m \in unacked THEN 1 ELSE 0
  /\ pc \in {"claim", "settle", "ack"} => msg \in pel
  /\ pc = "ack" => handed[msg] = 0

(* Entries are numbers, and no more than were offered. *)
LEMMA EntryNumbers ==
  ASSUME TypeOK
  PROVE  /\ Entries = 1..Len(log) /\ Len(log) \in Nat
         /\ MaxOf(cursor, trimmed) \in 0..Len(log)
         /\ MaxOf(cursor, trimmed) >= cursor /\ MaxOf(cursor, trimmed) >= trimmed
         /\ cursor \in 0..Len(log) /\ trimmed \in 0..Len(log)
         /\ pel \subseteq Entries /\ (msg # 0 => msg \in Entries) /\ msg \in 0..Len(log)
BY LenProperties DEF TypeOK, Entries, MaxOf

LEMMA TypedInit == Init => Typed
<1> SUFFICES ASSUME Init PROVE Typed
  OBVIOUS
<1>1. Len(log) = 0 /\ log \in Seq(1..offered) /\ Entries = {}
  BY EmptySeq DEF Init, Entries
<1>2. offered \in 0..Len(Offered[topic])
  BY StreamConfigOK DEF Init
<1>3. fate \in [Entries -> Fates] /\ handed \in [Entries -> Nat]
  BY <1>1 DEF Init
<1>4. /\ fails \in 0..MaxFailures /\ boot \in 1..MaxBoots /\ trimmed \in 0..Len(log)
      /\ cursor \in 0..Len(log)
  BY <1>1, StreamConfigOK DEF Init
<1>5. msg = 0 /\ 0 \in 0..cursor
  BY <1>4 DEF Init
<1>6. /\ group \in BOOLEAN /\ marked \in BOOLEAN /\ due \in BOOLEAN
      /\ pc = "out" /\ pel = {} /\ idle = {} /\ unacked = {}
      /\ topic \in Topics /\ forgets \in BOOLEAN
  BY DEF Init
<1>7. QED
  BY <1>1, <1>2, <1>3, <1>4, <1>5, <1>6 DEF Typed, TypeOK, Fates

(* A publication extends the stream and may trim it.                        *)
LEMMA PublishCases ==
  ASSUME Typed, Publish
  PROVE  /\ UNCHANGED <<topic, forgets, group, cursor, pel, idle, process, boot, unacked>>
         /\ offered' \in 0..Len(Offered[topic]) /\ log' \in Seq(1..offered')
         /\ fails' \in 0..MaxFailures /\ pc # "down"
         /\ \/ UNCHANGED <<log, trimmed, fate, handed>>
            \/ /\ Len(log') = Len(log) + 1 /\ Entries' = Entries \cup {Len(log) + 1}
               /\ \A m \in Entries : log'[m] = log[m]
               /\ trimmed' \in trimmed..Len(log)
               /\ fate' \in [Entries' -> Fates] /\ handed' \in [Entries' -> Nat]
               /\ \A m \in Entries : handed'[m] = handed[m]
               /\ handed'[Len(log) + 1] = 0
               /\ \A m \in Entries : fate'[m] = "open" =>
                    fate[m] = "open" /\ m \notin (MaxOf(cursor, trimmed) + 1)..trimmed'
<1>1. /\ offered' = offered + 1 /\ offered < Len(Offered[topic]) /\ pc # "down"
      /\ UNCHANGED <<topic, forgets, group, cursor, pel, idle, process, boot, unacked>>
  BY DEF Publish
<1>2. offered \in Nat /\ offered' \in 1..Len(Offered[topic]) /\ Len(Offered[topic]) \in Nat
  BY <1>1, StreamConfigOK DEF Typed, TypeOK
<1>3. fails' \in 0..MaxFailures
  BY StreamConfigOK DEF Publish, Works, Fails, Typed, TypeOK
<1>4. log \in Seq(1..offered')
  <2>1. log \in Seq(1..offered) /\ (1..offered) \subseteq (1..offered')
    BY <1>1, <1>2 DEF Typed, TypeOK
  <2>2. QED
    BY <2>1, SeqMonotonic
<1>5. CASE UNCHANGED <<log, trimmed, fate, handed>>
  BY <1>1, <1>2, <1>3, <1>4, <1>5
<1>6. CASE /\ log' = Append(log, offered')
           /\ trimmed' \in trimmed..MaxOf(trimmed, Len(log') - MaxLength)
           /\ fate' = [m \in DOMAIN log' |->
                IF m > Len(log) THEN "open"
                ELSE IF m \in (MaxOf(cursor, trimmed) + 1)..trimmed' THEN "trimmed"
                ELSE fate[m]]
           /\ handed' = [m \in DOMAIN log' |-> IF m > Len(log) THEN 0 ELSE handed[m]]
  <2>1. /\ log' \in Seq(1..offered') /\ Len(log') = Len(log) + 1
        /\ \A m \in 1..Len(log) : log'[m] = log[m]
    BY <1>2, <1>4, <1>6, AppendProperties
  <2>2. /\ Entries = 1..Len(log) /\ Len(log) \in Nat /\ Entries' = 1..(Len(log) + 1)
        /\ trimmed \in 0..Len(log)
    BY <2>1, EntryNumbers, LenProperties DEF Typed, Entries
  <2>3. trimmed' \in trimmed..Len(log)
    BY <1>6, <2>1, <2>2, StreamConfigOK DEF MaxOf
  <2>4. Entries' = Entries \cup {Len(log) + 1}
    BY <2>2
  <2>5. fate \in [Entries -> Fates] /\ handed \in [Entries -> Nat]
    BY DEF Typed, TypeOK, Fates
  <2>6. fate' \in [Entries' -> Fates] /\ handed' \in [Entries' -> Nat]
    BY <1>6, <2>2, <2>5 DEF Entries, Fates
  <2>7. \A m \in Entries : handed'[m] = handed[m]
    BY <1>6, <2>2 DEF Entries
  <2>8. handed'[Len(log) + 1] = 0
    BY <1>6, <2>2 DEF Entries
  <2>9. \A m \in Entries : fate'[m] = "open" =>
          fate[m] = "open" /\ m \notin (MaxOf(cursor, trimmed) + 1)..trimmed'
    BY <1>6, <2>2 DEF Entries
  <2>10. QED
    BY <1>1, <1>2, <1>3, <2>1, <2>2, <2>3, <2>4, <2>6, <2>7, <2>8, <2>9, SMTT(30)
<1>7. QED
  BY <1>5, <1>6 DEF Publish

(* The part of EveryEntryAccounted that is not typing. *)
Kept ==
  \A m \in Entries : fate[m] = "open" =>
    m > MaxOf(cursor, trimmed) \/ m \in pel \/ (pc = "work" /\ msg = m)

IInv == Typed /\ Kept /\ Once /\ TwiceOnlyUnacknowledged

(* A publication: the new entry waits to be read; what was trimmed before   *)
(* it was read has its fate.                                                *)
LEMMA PublishStep ==
  ASSUME IInv, Publish
  PROVE  IInv'
<1>1. CASE UNCHANGED <<log, trimmed, fate, handed>>
  <2>1. Typed'
    BY <1>1, PublishCases DEF IInv, Typed, TypeOK, Entries, process
  <2>2. Kept' /\ Once' /\ TwiceOnlyUnacknowledged'
    BY <1>1, PublishCases
    DEF IInv, Kept, Once, TwiceOnlyUnacknowledged, Entries, process
  <2>3. QED
    BY <2>1, <2>2 DEF IInv
<1>2. CASE ~UNCHANGED <<log, trimmed, fate, handed>>
  <2>1. /\ UNCHANGED <<topic, forgets, group, cursor, pel, idle, marked, due, pc, msg, boot, unacked>>
        /\ offered' \in 0..Len(Offered[topic]) /\ log' \in Seq(1..offered')
        /\ fails' \in 0..MaxFailures /\ pc # "down"
        /\ Len(log') = Len(log) + 1 /\ Entries' = Entries \cup {Len(log) + 1}
        /\ trimmed' \in trimmed..Len(log)
        /\ fate' \in [Entries' -> Fates] /\ handed' \in [Entries' -> Nat]
        /\ \A m \in Entries : handed'[m] = handed[m]
        /\ handed'[Len(log) + 1] = 0
        /\ \A m \in Entries : fate'[m] = "open" =>
             fate[m] = "open" /\ m \notin (MaxOf(cursor, trimmed) + 1)..trimmed'
    BY <1>2, PublishCases DEF IInv, process
  <2>2. /\ Entries = 1..Len(log) /\ Len(log) \in Nat /\ cursor \in 0..Len(log)
        /\ trimmed \in 0..Len(log) /\ pel \subseteq Entries /\ msg \in 0..Len(log)
        /\ Len(log) + 1 \notin Entries
    BY EntryNumbers DEF IInv, Typed
  <2>3. Typed'
    <3>1. trimmed' \in 0..Len(log') /\ cursor' \in 0..Len(log')
      BY <2>1, <2>2
    <3>2. unacked' \subseteq Entries'
      BY <2>1 DEF IInv, Typed, TypeOK
    <3>3. QED
      BY <2>1, <3>1, <3>2 DEF IInv, Typed, TypeOK, Fates
  <2>4. ASSUME NEW m \in Entries', fate'[m] = "open"
        PROVE  m > MaxOf(cursor, trimmed)' \/ m \in pel' \/ (pc = "work" /\ msg = m)'
    <3>1. CASE m = Len(log) + 1
      BY <2>1, <2>2, <3>1 DEF MaxOf
    <3>2. CASE m \in Entries
      <4>1. fate[m] = "open" /\ m \notin (MaxOf(cursor, trimmed) + 1)..trimmed'
        BY <2>1, <2>4, <3>2
      <4>2. CASE m > MaxOf(cursor, trimmed)
        BY <2>1, <2>2, <3>2, <4>1, <4>2, SMTT(30) DEF MaxOf
      <4>3. QED
        BY <2>1, <3>2, <4>1, <4>2 DEF IInv, Kept
    <3>3. QED
      BY <2>1, <3>1, <3>2
  <2>5. Kept'
    BY <2>4 DEF Kept
  <2>6. Once'
    BY <2>1, <2>2 DEF IInv, Once, Typed, TypeOK
  <2>7. TwiceOnlyUnacknowledged'
    BY <2>1, <2>2, SMTT(30) DEF IInv, TwiceOnlyUnacknowledged, Typed, TypeOK
  <2>8. QED
    BY <2>3, <2>5, <2>6, <2>7 DEF IInv
<1>3. QED
  BY <1>1, <1>2

(* Steps that leave the entries, and what the worker has in hand, as they   *)
(* are.                                                                     *)
Calls == {"out", "ensure", "due", "pending", "read"}

LEMMA QuietStep ==
  ASSUME IInv, UNCHANGED <<topic, forgets, offered, log, trimmed, cursor, pel, fate, handed, unacked>>,
         group' \in BOOLEAN, marked' \in BOOLEAN, due' \in BOOLEAN, idle' \subseteq pel,
         fails' \in 0..MaxFailures, boot' \in 1..MaxBoots,
         \/ pc' = pc /\ msg' = msg /\ boot' = boot
         \/ /\ pc \notin {"work"} /\ pc' \in Calls /\ msg' = 0
         \/ /\ pc = "pending" /\ pc' = "claim" /\ msg' \in pel
         \/ /\ pc = "claim" /\ pc' = "settle" /\ msg' = msg
  PROVE  IInv'
<1>1. pel \subseteq 1..cursor /\ cursor \in Nat
  BY DEF IInv, Typed, TypeOK
<1>2. msg' \in 0..cursor /\ (msg' = 0 <=> pc' \notin {"claim", "settle", "ack", "work"})
  <2>1. CASE pc' = pc /\ msg' = msg
    BY <2>1 DEF IInv, Typed, TypeOK
  <2>2. CASE pc' \in Calls /\ msg' = 0
    BY <1>1, <2>2 DEF Calls
  <2>3. CASE pc' = "claim" /\ msg' \in pel
    BY <1>1, <2>3
  <2>4. CASE pc = "claim" /\ pc' = "settle" /\ msg' = msg
    BY <2>4 DEF IInv, Typed, TypeOK
  <2>5. QED
    BY <2>1, <2>2, <2>3, <2>4
<1>3. pc' \in {"out", "ensure", "due", "pending", "claim", "settle", "read", "ack", "work", "down"}
  BY DEF IInv, Typed, TypeOK, Calls
<1>4. pc' = "down" => boot' < MaxBoots
  BY DEF IInv, Typed, Calls
<1>5. Typed'
  BY <1>2, <1>3, <1>4 DEF IInv, Typed, TypeOK, Entries
<1>6. Kept'
  BY DEF IInv, Kept, Entries, Calls
<1>7. Once'
  BY DEF IInv, Once, Entries, Calls
<1>8. TwiceOnlyUnacknowledged'
  BY DEF IInv, TwiceOnlyUnacknowledged, Entries
<1>9. QED
  BY <1>5, <1>6, <1>7, <1>8 DEF IInv

(* What Fate does: it settles what is open, of one entry. *)
LEMMA FateOf ==
  ASSUME Typed, NEW m \in Entries, NEW f \in Fates
  PROVE  /\ Fate(m, f) \in [Entries -> Fates]
         /\ \A n \in Entries : n # m => Fate(m, f)[n] = fate[n]
         /\ f # "open" => Fate(m, f)[m] # "open"
BY DEF Typed, TypeOK, Fate, Fates

(* The worker is handed the entry it has in hand, or skips it.              *)
LEMMA HandOverStep ==
  ASSUME IInv, pc \in {"settle", "ack"}, NEW skipTo \in {"read", "out"}, HandOver(skipTo),
         UNCHANGED <<topic, forgets, offered, log, trimmed, group, cursor, marked, due, boot>>,
         fails' \in 0..MaxFailures, idle' \subseteq pel',
         \/ pel' = pel \ {msg} /\ unacked' = unacked
         \/ pc = "ack" /\ pel' = pel /\ unacked' = unacked \cup {msg}
  PROVE  IInv'
<1>1. /\ msg \in pel /\ msg \in Entries /\ msg # 0 /\ msg \in 0..cursor
      /\ pel \subseteq 1..cursor /\ 1..cursor \subseteq Entries /\ Entries' = Entries
      /\ cursor \in Nat
  <2>1. Entries' = Entries
    BY DEF Entries
  <2>2. cursor \in 0..Len(log) /\ Len(log) \in Nat /\ Entries = 1..Len(log)
    BY EntryNumbers DEF IInv, Typed
  <2>3. QED
    BY <2>1, <2>2 DEF IInv, Once, Typed, TypeOK
<1>2. fate' \in [Entries -> Fates] /\ handed' \in [Entries -> Nat]
  <2>1. fate \in [Entries -> Fates] /\ handed \in [Entries -> Nat]
    BY DEF IInv, Typed, TypeOK, Fates
  <2>2. Fate(msg, "undecodable") \in [Entries -> Fates]
    BY <1>1, FateOf DEF Fates, IInv
  <2>3. QED
    BY <1>1, <2>1, <2>2 DEF HandOver
<1>3. /\ pc' \in {"read", "out", "work"} /\ msg' \in {0, msg}
      /\ msg' = 0 <=> pc' \in {"read", "out"}
  BY <1>1 DEF HandOver, Goto
<1>4. Typed'
  <2>1. msg' \in 0..cursor /\ (msg' = 0 <=> pc' \notin {"claim", "settle", "ack", "work"})
    BY <1>1, <1>3
  <2>2. unacked' \subseteq Entries /\ pel' \subseteq 1..cursor
    BY <1>1 DEF IInv, Typed, TypeOK
  <2>3. QED
    BY <1>1, <1>2, <1>3, <2>1, <2>2 DEF IInv, Typed, TypeOK, Fates
<1>5. Kept'
  <2>1. ASSUME NEW m \in Entries, m # msg, fate'[m] = "open"
        PROVE  m > MaxOf(cursor, trimmed) \/ m \in pel'
    <3>1. fate[m] = "open" /\ pc # "work"
      BY <1>1, <2>1, FateOf DEF HandOver, IInv, Fates
    <3>2. QED
      BY <2>1, <3>1 DEF IInv, Kept
  <2>2. fate'[msg] = "open" => pc' = "work" /\ msg' = msg
    BY <1>1, FateOf DEF HandOver, Goto, IInv, Fates
  <2>3. MaxOf(cursor, trimmed)' = MaxOf(cursor, trimmed)
    BY DEF MaxOf
  <2>4. QED
    BY <1>1, <2>1, <2>2, <2>3 DEF Kept
<1>6. /\ \A m \in Entries : m # msg => handed'[m] = handed[m]
      /\ handed'[msg] \in {handed[msg], handed[msg] + 1}
      /\ handed \in [Entries -> Nat]
  BY <1>1 DEF HandOver, IInv, Typed, TypeOK
<1>7. Once'
  <2>1. ASSUME NEW m \in Entries, m > cursor
        PROVE  handed'[m] = 0 /\ m \notin unacked'
    BY <1>1, <1>6, <2>1 DEF IInv, Once
  <2>2. ASSUME NEW m \in pel'
        PROVE  handed'[m] <= IF m \in unacked' THEN 1 ELSE 0
    <3>1. CASE m # msg
      BY <1>1, <1>6, <2>2, <3>1 DEF IInv, Once
    <3>2. CASE m = msg
      <4>1. pc = "ack" /\ m \in unacked' /\ handed[m] = 0
        BY <2>2, <3>2 DEF IInv, Once
      <4>2. QED
        BY <1>1, <1>6, <3>2, <4>1
    <3>3. QED
      BY <3>1, <3>2
  <2>3. QED
    BY <1>1, <1>3, <2>1, <2>2 DEF Once
<1>8. TwiceOnlyUnacknowledged'
  <2>1. ASSUME NEW m \in Entries
        PROVE  handed'[m] <= IF m \in unacked' THEN 2 ELSE 1
    <3>1. CASE m # msg
      BY <1>6, <3>1 DEF IInv, TwiceOnlyUnacknowledged
    <3>2. CASE m = msg
      <4>1. handed[msg] <= IF msg \in unacked THEN 1 ELSE 0
        BY <1>1 DEF IInv, Once
      <4>2. QED
        BY <1>1, <1>6, <3>2, <4>1
    <3>3. QED
      BY <3>1, <3>2
  <2>2. QED
    BY <1>1, <2>1 DEF TwiceOnlyUnacknowledged
<1>9. QED
  BY <1>4, <1>5, <1>7, <1>8 DEF IInv

(* An entry leaves the worker, or pel, with a fate.                         *)
LEMMA SettledStep ==
  ASSUME IInv, msg # 0, NEW f \in Fates \ {"open"}, fate' = Fate(msg, f),
         UNCHANGED <<topic, forgets, offered, log, trimmed, group, cursor, handed, unacked,
                     marked, due, boot>>,
         fails' \in 0..MaxFailures, idle' \subseteq pel', pel' \in {pel, pel \ {msg}},
         msg' = 0, pc' \in Calls \/ (pc' = "down" /\ boot < MaxBoots)
  PROVE  IInv'
<1>1. msg \in Entries /\ Entries' = Entries /\ pel \subseteq 1..cursor
  BY EntryNumbers DEF IInv, Typed, TypeOK, Entries
<1>2. Typed'
  <2>1. fate' \in [Entries -> Fates]
    BY <1>1, FateOf DEF IInv
  <2>2. cursor \in Nat
    BY DEF IInv, Typed, TypeOK
  <2>3. msg' \in 0..cursor
    BY <2>2
  <2>4. QED
    BY <1>1, <2>1, <2>3 DEF IInv, Typed, TypeOK, Fates, Calls
<1>3. ASSUME NEW m \in Entries, fate'[m] = "open"
      PROVE  m > MaxOf(cursor, trimmed) \/ m \in pel'
  <2>1. m # msg /\ fate[m] = "open"
    BY <1>1, <1>3, FateOf DEF IInv
  <2>2. QED
    BY <2>1 DEF IInv, Kept
<1>4. MaxOf(cursor, trimmed)' = MaxOf(cursor, trimmed)
  BY DEF MaxOf
<1>5. Kept'
  BY <1>1, <1>3, <1>4 DEF Kept
<1>6. Once' /\ TwiceOnlyUnacknowledged'
  BY <1>1 DEF IInv, Once, TwiceOnlyUnacknowledged, Calls
<1>7. QED
  BY <1>2, <1>5, <1>6 DEF IInv

(* XREADGROUP: the next entry that is still in the stream becomes pending.  *)
LEMMA ReadStep ==
  ASSUME IInv, Read
  PROVE  IInv'
<1>1. CASE group /\ Unread \in Entries
  <2>1. /\ cursor' = Unread /\ pel' = pel \cup {Unread} /\ fails' \in 0..MaxFailures
        /\ \/ pc' = "ack" /\ msg' = Unread
           \/ pc' = "out" /\ msg' = 0
        /\ UNCHANGED <<topic, forgets, offered, log, trimmed, group, idle, marked, due, boot,
                       fate, handed, unacked>>
        /\ pc = "read"
    BY <1>1, StreamConfigOK DEF Read, Goto, Works, Fails, IInv, Typed, TypeOK, history
  <2>a. /\ Entries = 1..Len(log) /\ Len(log) \in Nat /\ cursor \in 0..Len(log)
        /\ trimmed \in 0..Len(log) /\ MaxOf(cursor, trimmed) \in 0..Len(log)
        /\ MaxOf(cursor, trimmed) >= cursor /\ MaxOf(cursor, trimmed) >= trimmed
    BY EntryNumbers DEF IInv, Typed
  <2>b. /\ Unread = MaxOf(cursor, trimmed) + 1 /\ Unread \in 1..Len(log)
        /\ Unread > cursor /\ Unread > trimmed
    BY <1>1, <2>a DEF Unread
  <2>c. pel \subseteq 1..cursor /\ idle \subseteq pel /\ Entries' = Entries
    BY <2>1 DEF IInv, Typed, TypeOK, Entries
  <2>d. MaxOf(cursor, trimmed)' = Unread
    BY <2>1, <2>a, <2>b DEF MaxOf
  <2>2. /\ Entries = 1..Len(log) /\ Len(log) \in Nat /\ Entries' = Entries
        /\ cursor \in 0..Len(log) /\ trimmed \in 0..Len(log) /\ pel \subseteq 1..cursor
        /\ Unread \in 1..Len(log) /\ Unread > cursor /\ Unread > trimmed
        /\ Unread = MaxOf(cursor, trimmed) + 1 /\ idle \subseteq pel
        /\ MaxOf(cursor, trimmed)' = Unread /\ MaxOf(cursor, trimmed) \in Nat
    <3>1. MaxOf(cursor, trimmed) \in Nat
      BY <2>a
    <3>2. QED
      BY <2>a, <2>b, <2>c, <2>d, <3>1, Zenon
  <2>3. Typed'
    <3>1. msg' \in 0..cursor' /\ (msg' = 0 <=> pc' \notin {"claim", "settle", "ack", "work"})
      <4>1. CASE pc' = "ack" /\ msg' = Unread
        BY <2>1, <2>b, <4>1
      <4>2. CASE pc' = "out" /\ msg' = 0
        BY <2>1, <2>b, <4>2
      <4>3. QED
        BY <2>1, <4>1, <4>2
    <3>a. pel' \subseteq 1..cursor' /\ cursor' \in 0..Len(log)
      <4>1. cursor' = Unread /\ pel' = pel \cup {Unread}
        BY <2>1
      <4>2. \A m \in pel : m \in 1..Unread
        BY <2>a, <2>b, <2>c
      <4>3. Unread \in 1..Unread /\ Unread \in 0..Len(log)
        BY <2>a, <2>b
      <4>4. QED
        BY <4>1, <4>2, <4>3
    <3>2. idle' \subseteq pel' /\ pc' \in {"ack", "out"}
      BY <2>1, <2>2
    <3>3. QED
      BY <2>1, <2>2, <3>1, <3>a, <3>2 DEF IInv, Typed, TypeOK
  <2>4. Kept'
    <3>1. ASSUME NEW m \in Entries, fate[m] = "open"
          PROVE  m > Unread \/ m \in pel'
      <4>1. m > MaxOf(cursor, trimmed) \/ m \in pel
        BY <2>1, <3>1 DEF IInv, Kept
      <4>2. QED
        BY <2>1, <2>2, <3>1, <4>1
    <3>2. QED
      BY <2>1, <2>2, <3>1 DEF Kept
  <2>5. Once'
    <3>1. handed[Unread] = 0 /\ Unread \notin unacked
      BY <1>1, <2>2 DEF IInv, Once
    <3>2. \A m \in Entries : m > Unread => m > cursor
      BY <2>2
    <3>3. QED
      BY <2>1, <2>2, <3>1, <3>2 DEF IInv, Once
  <2>6. TwiceOnlyUnacknowledged'
    BY <2>1, <2>2 DEF IInv, TwiceOnlyUnacknowledged
  <2>7. QED
    BY <2>3, <2>4, <2>5, <2>6 DEF IInv
<1>2. CASE ~(group /\ Unread \in Entries)
  BY <1>2, QuietStep
  DEF Read, Goto, Works, Calls, history, IInv, Typed, TypeOK
<1>3. QED
  BY <1>1, <1>2

(* A death of the process: what the worker had is the crash's. *)
LEMMA CrashStep ==
  ASSUME IInv, Crash
  PROVE  IInv'
<1>1. CASE pc = "work"
  <2>1. msg # 0
    BY <1>1 DEF IInv, Typed, TypeOK
  <2>2. QED
    BY <1>1, <2>1, SettledStep
    DEF Crash, Goto, Fates, redis, IInv, Typed, TypeOK
<1>2. CASE pc # "work"
  <2>1. /\ UNCHANGED <<topic, forgets, offered, log, trimmed, group, cursor, pel, idle, marked,
                       due, fails, boot, fate, handed, unacked>>
        /\ pc' = "down" /\ msg' = 0 /\ boot < MaxBoots
    BY <1>2 DEF Crash, Goto, redis
  <2>2. cursor \in Nat
    BY DEF IInv, Typed, TypeOK
  <2>3. msg' \in 0..cursor
    BY <2>1, <2>2
  <2>4. Typed'
    BY <2>1, <2>3 DEF IInv, Typed, TypeOK, Entries
  <2>5. Kept' /\ Once' /\ TwiceOnlyUnacknowledged'
    BY <1>2, <2>1 DEF IInv, Kept, Once, TwiceOnlyUnacknowledged, Entries
  <2>6. QED
    BY <2>4, <2>5 DEF IInv
<1>3. QED
  BY <1>1, <1>2

(* XCLAIM: only an entry that was trimmed leaves pel. *)
LEMMA ClaimStep ==
  ASSUME IInv, Claim
  PROVE  IInv'
<1>1. /\ pc = "claim" /\ msg # 0 /\ idle' = idle \ {msg} /\ idle \subseteq pel
      /\ UNCHANGED <<topic, forgets, offered, log, trimmed, group, cursor, marked, due, boot,
                     handed, unacked>>
      /\ group \in BOOLEAN /\ marked \in BOOLEAN /\ due \in BOOLEAN /\ boot \in 1..MaxBoots
  BY DEF Claim, IInv, Typed, TypeOK
<1>2. fails' \in 0..MaxFailures
  BY StreamConfigOK DEF Claim, Works, Fails, IInv, Typed, TypeOK
<1>3. CASE UNCHANGED <<pel, fate>>
  <2>1. (pc' = "settle" /\ msg' = msg) \/ (pc' = "read" /\ msg' = 0)
    BY DEF Claim, Goto
  <2>2. QED
    BY <1>1, <1>2, <1>3, <2>1, QuietStep DEF Calls
<1>4. CASE /\ pel' = pel \ {msg} /\ fate' = Fate(msg, "trimmed")
           /\ pc' = "read" /\ msg' = 0
  BY <1>1, <1>2, <1>4, SettledStep DEF Calls, Fates
<1>5. QED
  BY <1>3, <1>4 DEF Claim, Goto

(* XACK of a recovered entry. *)
LEMMA SettleStep ==
  ASSUME IInv, Settle
  PROVE  IInv'
<1>1. /\ pc = "settle" /\ msg # 0 /\ idle \subseteq pel
      /\ UNCHANGED <<topic, forgets, offered, log, trimmed, group, cursor, marked, due, boot,
                     unacked>>
      /\ group \in BOOLEAN /\ marked \in BOOLEAN /\ due \in BOOLEAN /\ boot \in 1..MaxBoots
  BY DEF Settle, IInv, Typed, TypeOK
<1>2. fails' \in 0..MaxFailures
  BY StreamConfigOK DEF Settle, Works, Fails, IInv, Typed, TypeOK
<1>3. CASE pel' = pel \ {msg} /\ idle' = idle \ {msg} /\ HandOver("read")
  BY <1>1, <1>2, <1>3, HandOverStep
<1>4. CASE pc' = "read" /\ msg' = 0 /\ handed' = handed /\ UNCHANGED <<pel, idle, fate>>
  BY <1>1, <1>2, <1>4, QuietStep DEF Calls
<1>5. CASE /\ pc' = "read" /\ msg' = 0 /\ handed' = handed
           /\ pel' = pel \ {msg} /\ idle' = idle \ {msg}
           /\ fate' = Fate(msg, IF Undecodable(msg) THEN "undecodable" ELSE "unanswered")
  <2>1. PICK f \in {"undecodable", "unanswered"} : fate' = Fate(msg, f)
    BY <1>5
  <2>2. f \in Fates \ {"open"}
    BY <2>1 DEF Fates
  <2>3. QED
    BY <1>1, <1>2, <1>5, <2>1, <2>2, SettledStep DEF Calls
<1>6. QED
  BY <1>3, <1>4, <1>5 DEF Settle, Goto

(* The other commands, and time, leave the entries alone. *)
LEMMA QuietSteps ==
  ASSUME IInv,
         \/ Call \/ EnsureGroup \/ IsRecoveryDue \/ LookAtPending \/ ClaimFails \/ ReadFails
         \/ RecoveryDue \/ (\E m \in Entries : Age(m)) \/ Restart
  PROVE  IInv'
<1>1. /\ group \in BOOLEAN /\ marked \in BOOLEAN /\ due \in BOOLEAN /\ idle \subseteq pel
      /\ fails \in 0..MaxFailures /\ boot \in 1..MaxBoots
      /\ (msg = 0 <=> pc \notin {"claim", "settle", "ack", "work"})
      /\ (pc = "down" => boot < MaxBoots)
  BY DEF IInv, Typed, TypeOK
<1>2. Fails \/ Works => fails' \in 0..MaxFailures
  BY <1>1, StreamConfigOK DEF Fails, Works
<1>3. CASE Call
  <2>1. (pc' = "due" \/ pc' = "ensure") /\ pc = "out" /\ msg' = 0
    BY <1>1, <1>3 DEF Call, Goto
  <2>2. QED
    BY <1>1, <1>3, <2>1, QuietStep DEF Call, Calls, redis, history
<1>4. CASE EnsureGroup
  <2>1. group' \in BOOLEAN /\ fails' \in 0..MaxFailures /\ msg' = 0
    BY <1>1, <1>2, <1>4 DEF EnsureGroup
  <2>2. QED
    BY <1>1, <1>4, <2>1, QuietStep DEF EnsureGroup, Goto, Calls, history
<1>5. CASE IsRecoveryDue
  <2>1. (pc' = "pending" \/ pc' = "read") /\ pc = "due" /\ msg' = 0
    BY <1>1, <1>5 DEF IsRecoveryDue, Goto
  <2>2. QED
    BY <1>1, <1>5, <2>1, QuietStep DEF IsRecoveryDue, Calls, redis, history
<1>6. CASE LookAtPending
  <2>1. \/ pc' = "claim" /\ msg' = Oldest(pel) /\ pel # {} /\ Oldest(pel) \in idle
        \/ pc' = "read" /\ msg' = 0
    BY <1>1, <1>6 DEF LookAtPending, Goto
  <2>2. pc = "pending" /\ fails' \in 0..MaxFailures
    BY <1>2, <1>6 DEF LookAtPending
  <2>3. /\ UNCHANGED <<topic, forgets, offered, log, trimmed, cursor, pel, fate, handed, unacked>>
        /\ UNCHANGED <<group, marked, due, idle, boot>>
    BY <1>6 DEF LookAtPending, redis, history
  <2>4. CASE pc' = "claim" /\ msg' \in pel
    BY <1>1, <2>2, <2>3, <2>4, QuietStep
  <2>5. CASE pc' = "read" /\ msg' = 0
    BY <1>1, <2>2, <2>3, <2>5, QuietStep DEF Calls
  <2>6. QED
    BY <1>1, <2>1, <2>4, <2>5
<1>7. CASE ClaimFails
  BY <1>1, <1>2, <1>7, QuietStep DEF ClaimFails, Goto, Calls, redis, history
<1>8. CASE ReadFails
  BY <1>1, <1>2, <1>8, QuietStep DEF ReadFails, Goto, Calls, redis, history
<1>9. CASE RecoveryDue
  BY <1>1, <1>9, QuietStep DEF RecoveryDue, redis, history
<1>10. CASE \E m \in Entries : Age(m)
  <2>1. PICK m \in Entries : Age(m)
    BY <1>10
  <2>2. idle' \subseteq pel
    BY <1>1, <2>1 DEF Age
  <2>3. QED
    BY <1>1, <2>1, <2>2, QuietStep DEF Age, process, history
<1>11. CASE Restart
  <2>1. boot' \in 1..MaxBoots
    BY <1>1, <1>11, StreamConfigOK DEF Restart
  <2>2. msg' = 0 /\ pc' = "out" /\ pc = "down" /\ marked' \in BOOLEAN /\ due' \in BOOLEAN
    BY <1>1, <1>11 DEF Restart, Goto
  <2>3. QED
    BY <1>1, <1>11, <2>1, <2>2, QuietStep DEF Restart, Calls, redis, history
<1>12. QED
  BY <1>3, <1>4, <1>5, <1>6, <1>7, <1>8, <1>9, <1>10, <1>11

LEMMA IInvInit == Init => IInv
<1> SUFFICES ASSUME Init PROVE IInv
  OBVIOUS
<1>1. Entries = {} /\ pel = {} /\ pc = "out"
  BY EmptySeq DEF Init, Entries
<1>2. Kept /\ Once /\ TwiceOnlyUnacknowledged
  BY <1>1 DEF Kept, Once, TwiceOnlyUnacknowledged
<1>3. QED
  BY <1>2, TypedInit DEF IInv

LEMMA IInvStep == IInv /\ [Next]_vars => IInv'
<1> SUFFICES ASSUME IInv, [Next]_vars PROVE IInv'
  OBVIOUS
<1>1. CASE Publish
  BY <1>1, PublishStep
<1>2. CASE Claim
  BY <1>2, ClaimStep
<1>3. CASE Settle
  BY <1>3, SettleStep
<1>4. CASE Read
  BY <1>4, ReadStep
<1>5. CASE Ack
  <2>1. /\ pc = "ack" /\ HandOver("out") /\ idle \subseteq pel
        /\ UNCHANGED <<topic, forgets, offered, log, trimmed, group, cursor, marked, due, boot>>
    BY <1>5 DEF Ack, IInv, Typed, TypeOK
  <2>2. fails' \in 0..MaxFailures
    BY <1>5, StreamConfigOK DEF Ack, Works, Fails, IInv, Typed, TypeOK
  <2>3. QED
    BY <1>5, <2>1, <2>2, HandOverStep DEF Ack
<1>6. CASE Finish
  <2>1. msg # 0 /\ fails' \in 0..MaxFailures /\ idle \subseteq pel
    BY <1>6 DEF Finish, IInv, Typed, TypeOK
  <2>2. QED
    BY <1>6, <2>1, SettledStep DEF Finish, Goto, Fates, Calls, redis
<1>7. CASE Crash
  BY <1>7, CrashStep
<1>8. CASE UNCHANGED vars
  BY <1>8, QuietStep DEF vars, redis, process, history, IInv, Typed, TypeOK
<1>9. QED
  BY <1>1, <1>2, <1>3, <1>4, <1>5, <1>6, <1>7, <1>8, QuietSteps DEF Next, Get

LEMMA IInvAlways == Spec => []IInv
BY IInvInit, IInvStep, PTL DEF Spec

(* No entry of the stream disappears: what was not finished, and not lost   *)
(* in one of the ways `fate' names, waits to be read, is pending, or is     *)
(* with the worker (publish(), get(), _recover_pending(): whatever command  *)
(* fails, whatever is trimmed and whenever the process dies).               *)
THEOREM NoEntryVanishes == Spec => []EveryEntryAccounted
<1>1. IInv => EveryEntryAccounted
  BY DEF IInv, Typed, Kept, EveryEntryAccounted
<1>2. QED
  BY <1>1, IInvAlways, PTL

(* A message is returned a second time only after its XACK failed, and      *)
(* never a third time.                                                      *)
THEOREM AtMostTwice == Spec => []TwiceOnlyUnacknowledged
<1>1. IInv => TwiceOnlyUnacknowledged
  BY DEF IInv
<1>2. QED
  BY <1>1, IInvAlways, PTL

----------------------------------------------------------------------------
(* What is written is read *)

(* A time comes back in UTC. *)
LEMMA TimeReturns ==
  ASSUME NEW dt, IsTime(dt)
  PROVE  StrToDt(DtToStr(dt)) = InUtc(dt)
<1>1. PICK at, aware : dt = [at |-> at, aware |-> aware]
  BY DEF IsTime
<1>2. InUtc(dt) = [at |-> at, aware |-> TRUE]
  <2>1. PICK yes : yes = TRUE
    OBVIOUS
  <2>2. [[at |-> at, aware |-> aware] EXCEPT !.aware = yes] = [at |-> at, aware |-> yes]
    OBVIOUS
  <2>3. QED
    BY <1>1, <2>1, <2>2, Zenon DEF InUtc
<1>3. StrToDt(DtToStr(dt)) = [at |-> at, aware |-> TRUE]
  BY <1>1 DEF StrToDt, DtToStr
<1>4. QED
  BY <1>2, <1>3

(* The fields of an object. *)
LEMMA ObjectFields ==
  ASSUME NEW obj, NEW fields, IsObject(obj, fields)
  PROVE  DOMAIN obj = fields
<1>1. PICK g : obj = [h \in fields |-> g[h]]
  BY DEF IsObject
<1>2. QED
  BY <1>1

(* An object is one still with another value of a field. *)
LEMMA ObjectWith ==
  ASSUME NEW obj, NEW fields, IsObject(obj, fields), NEW f, NEW v
  PROVE  IsObject([obj EXCEPT ![f] = v], fields)
<1>1. PICK g : obj = [h \in fields |-> g[h]]
  BY DEF IsObject
<1>2. DOMAIN [obj EXCEPT ![f] = v] = fields
  BY <1>1
<1>3. QED
  BY <1>1, <1>2 DEF IsObject

(* The defaults are for fields that are not there. *)
LEMMA NoDefaults ==
  ASSUME NEW obj, NEW fields, IsObject(obj, fields),
         NEW defaults, DOMAIN defaults \subseteq fields
  PROVE  WithDefaults(obj, defaults) = obj
BY DEF IsObject, WithDefaults

(* A field that is not written has its default again. *)
LEMMA DefaultReturns ==
  ASSUME NEW obj, NEW fields, IsObject(obj, fields), NEW f \in fields, NEW defaults,
         DOMAIN defaults \subseteq fields, f \in DOMAIN defaults
  PROVE  WithDefaults(Without(obj, {f}), defaults) = [obj EXCEPT ![f] = defaults[f]]
BY DEF IsObject, WithDefaults, Without, Restrict

LEMMA FrameReturns ==
  ASSUME NEW m, IsEvent("frames", m)
  PROVE  DecodeFrameEnvelope(EncodeFrameEnvelope(m)) = AsReceived("frames", m)
<1> DEFINE F == EventFields["frames"]
           d == [EncodeFrameEnvelope(m) EXCEPT !.captured_at = StrToDt(@), !.received_at = StrToDt(@)]
<1>1. /\ IsObject(m, F) /\ IsTime(m.captured_at) /\ IsTime(m.received_at)
      /\ {"captured_at", "received_at", "correlation_id", "session_id", "source_fps"} \subseteq F
  BY DEF IsEvent, EventFields, TimeFields
<1> HIDE DEF F
<1>2. d = [m EXCEPT !.captured_at = StrToDt(DtToStr(@)), !.received_at = StrToDt(DtToStr(@))]
  BY <1>1 DEF IsObject, EncodeFrameEnvelope
<1>3. d = [m EXCEPT !.captured_at = InUtc(@), !.received_at = InUtc(@)]
  <2>1. /\ StrToDt(DtToStr(m.captured_at)) = InUtc(m.captured_at)
        /\ StrToDt(DtToStr(m.received_at)) = InUtc(m.received_at)
    BY <1>1, TimeReturns
  <2>2. QED
    BY <1>2, <2>1
<1> HIDE DEF d
<1>4. IsObject(d, F)
  BY <1>1, <1>3, ObjectWith
<1>5. DecodeFrameEnvelope(EncodeFrameEnvelope(m)) = d
  <2> DEFINE defaults == [correlation_id |-> "", session_id |-> "", source_fps |-> 0]
  <2>1. DOMAIN defaults \subseteq F
    BY <1>1
  <2> HIDE DEF defaults
  <2>2. WithDefaults(d, defaults) = d
    BY <1>4, <2>1, NoDefaults
  <2>3. QED
    BY <2>2, Zenon DEF DecodeFrameEnvelope, d, defaults
<1>6. QED
  BY <1>3, <1>5 DEF AsReceived

LEMMA AlertReturns ==
  ASSUME NEW m, IsEvent("alerts", m)
  PROVE  DecodeComplianceEvent(EncodeComplianceEvent(m)) = AsReceived("alerts", m)
<1>1. /\ IsObject(m, EventFields["alerts"]) /\ IsTime(m.timestamp)
      /\ "timestamp" \in EventFields["alerts"]
  BY DEF IsEvent, EventFields, TimeFields
<1>2. DecodeComplianceEvent(EncodeComplianceEvent(m)) = [m EXCEPT !.timestamp = StrToDt(DtToStr(@))]
  BY <1>1 DEF IsObject, DecodeComplianceEvent, EncodeComplianceEvent
<1>3. QED
  BY <1>1, <1>2, TimeReturns DEF AsReceived

(* A detection comes back without the track id of ByteTrack. *)
LEMMA DetectionReturns ==
  ASSUME NEW d, IsObject(d, DetectionFields)
  PROVE  DecodeDetection(EncodeDetection(d)) = [d EXCEPT !.track_id = None]
<1> DEFINE defaults == [track_id |-> None]
<1>1. /\ DOMAIN defaults = {"track_id"} /\ defaults["track_id"] = None
      /\ "track_id" \in DetectionFields
  BY DEF DetectionFields
<1> HIDE DEF defaults
<1>2. WithDefaults(Without(d, {"track_id"}), defaults) = [d EXCEPT !["track_id"] = defaults["track_id"]]
  BY <1>1, DefaultReturns
<1>3. QED
  BY <1>1, <1>2 DEF DecodeDetection, EncodeDetection, defaults

(* A field that is left out does not matter for the others. *)
LEMMA WithoutWith ==
  ASSUME NEW obj, NEW fields, IsObject(obj, fields), NEW f, NEW g \in fields, f # g, NEW v
  PROVE  /\ [Without(obj, {f}) EXCEPT ![g] = v] = Without([obj EXCEPT ![g] = v], {f})
         /\ Without(obj, {f})[g] = obj[g]
BY DEF IsObject, Without, Restrict

LEMMA DetectionEventReturns ==
  ASSUME NEW m, IsEvent("detections", m)
  PROVE  DecodeDetectionEvent(EncodeDetectionEvent(m)) = AsReceived("detections", m)
<1> DEFINE F == EventFields["detections"]
           written == [i \in DOMAIN m.detections |-> EncodeDetection(m.detections[i])]
           back == [i \in DOMAIN m.detections |-> [m.detections[i] EXCEPT !.track_id = None]]
           w == [m EXCEPT !.captured_at = DtToStr(@), !.processed_at = DtToStr(@),
                          !.detections = written]
           r == [m EXCEPT !.captured_at = InUtc(@), !.processed_at = InUtc(@), !.detections = back]
           defaults == [thumbnail |-> None, correlation_id |-> "", source_fps |-> 0,
                        frame_shape |-> <<0, 0>>]
<1>1. /\ IsObject(m, F) /\ IsTime(m.captured_at) /\ IsTime(m.processed_at)
      /\ {"captured_at", "processed_at", "detections", "frame_shape"} \subseteq F
      /\ \A i \in DOMAIN m.detections : IsObject(m.detections[i], DetectionFields)
  BY DEF IsEvent, EventFields, TimeFields
<1>2. /\ DOMAIN defaults \subseteq F /\ "frame_shape" \in DOMAIN defaults
      /\ defaults["frame_shape"] = <<0, 0>>
  BY DEF EventFields
<1>3. [i \in DOMAIN written |-> DecodeDetection(written[i])] = back
  BY <1>1, DetectionReturns
<1>4. /\ StrToDt(DtToStr(m.captured_at)) = InUtc(m.captured_at)
      /\ StrToDt(DtToStr(m.processed_at)) = InUtc(m.processed_at)
  BY <1>1, TimeReturns
<1>5. EncodeDetectionEvent(m) = Without(w, {"frame_shape"})
  BY <1>1, Zenon DEF EncodeDetectionEvent, IsObject
<1> HIDE DEF F, written, back, defaults
<1>6. IsObject(w, F) /\ IsObject(r, F) /\ DOMAIN m = F
  <2>1. IsObject(w, F) /\ IsObject(r, F)
    BY <1>1, ObjectWith
  <2>2. QED
    BY <1>1, <2>1, ObjectFields
<1>7. [w EXCEPT !.captured_at = StrToDt(@), !.processed_at = StrToDt(@), !.detections = back] = r
  BY <1>1, <1>4, <1>6
<1>8. /\ w.captured_at = DtToStr(m.captured_at) /\ w.processed_at = DtToStr(m.processed_at)
      /\ w.detections = written
  BY <1>1, <1>6
<1> HIDE DEF w, r
<1>9. DecodeDetectionEvent(Without(w, {"frame_shape"})) = WithDefaults(Without(r, {"frame_shape"}), defaults)
  <2> DEFINE a == Without(w, {"frame_shape"})
  <2>1. /\ a = [f \in F \ {"frame_shape"} |-> w[f]]
        /\ Without(r, {"frame_shape"}) = [f \in F \ {"frame_shape"} |-> r[f]]
    BY <1>6, ObjectFields DEF Without, Restrict
  <2> HIDE DEF a
  <2>2. /\ a.captured_at = w.captured_at /\ a.processed_at = w.processed_at
        /\ a.detections = w.detections
    BY <1>1, <2>1
  <2>3. [a EXCEPT !.captured_at = StrToDt(w.captured_at), !.processed_at = StrToDt(w.processed_at),
                  !.detections = back]
          = Without(r, {"frame_shape"})
    <3>1. DOMAIN w = F
      BY <1>6, ObjectFields
    <3>2. /\ r["captured_at"] = StrToDt(w.captured_at)
          /\ r["processed_at"] = StrToDt(w.processed_at) /\ r["detections"] = back
          /\ \A f \in F \ {"captured_at", "processed_at", "detections"} : r[f] = w[f]
      BY <1>1, <1>7, <3>1
    <3>3. QED
      BY <1>1, <2>1, <3>2
  <2>4. [a EXCEPT !.captured_at = StrToDt(@), !.processed_at = StrToDt(@),
                  !.detections = [i \in DOMAIN @ |-> DecodeDetection(@[i])]]
          = Without(r, {"frame_shape"})
    BY <1>3, <1>8, <2>2, <2>3
  <2>5. QED
    BY <2>4, Zenon DEF DecodeDetectionEvent, a, defaults
<1>10. WithDefaults(Without(r, {"frame_shape"}), defaults) = [r EXCEPT !["frame_shape"] = defaults["frame_shape"]]
  BY <1>1, <1>2, <1>6, DefaultReturns
<1>11. [r EXCEPT !["frame_shape"] = defaults["frame_shape"]] = AsReceived("detections", m)
  BY <1>1, <1>2, <1>6 DEF AsReceived, r, back
<1>12. QED
  BY <1>5, <1>9, <1>10, <1>11

(* An item comes back as it was, its time in UTC. *)
LEMMA ItemReturns ==
  ASSUME NEW item, IsObject(item, ItemFields), IsTime(item.timestamp)
  PROVE  DecodeEvidenceItem(EncodeEvidenceItem(item)) = ItemInUtc(item)
<1> DEFINE d == [EncodeEvidenceItem(item) EXCEPT !.timestamp = StrToDt(@)]
           defaults == [thumbnail |-> None]
<1>1. DOMAIN item = ItemFields /\ "timestamp" \in ItemFields /\ DOMAIN defaults \subseteq ItemFields
  BY ObjectFields DEF ItemFields
<1>2. StrToDt(DtToStr(item.timestamp)) = InUtc(item.timestamp)
  BY TimeReturns
<1>3. d = [item EXCEPT !.timestamp = InUtc(@)]
  BY <1>1, <1>2 DEF EncodeEvidenceItem
<1> HIDE DEF d, defaults
<1>4. WithDefaults(d, defaults) = d
  <2>1. IsObject(d, ItemFields)
    BY <1>3, ObjectWith
  <2>2. QED
    BY <1>1, <2>1, NoDefaults
<1>5. DecodeEvidenceItem(EncodeEvidenceItem(item)) = d
  BY <1>4, Zenon DEF DecodeEvidenceItem, d, defaults
<1>6. QED
  BY <1>3, <1>5 DEF ItemInUtc

LEMMA EvidenceReturns ==
  ASSUME NEW m, IsEvent("evidence", m)
  PROVE  DecodeEvidenceCaptureEvent(EncodeEvidenceCaptureEvent(m)) = AsReceived("evidence", m)
<1> DEFINE items == m.payload.items
           written == [i \in DOMAIN items |-> EncodeEvidenceItem(items[i])]
           back == [i \in DOMAIN items |-> ItemInUtc(items[i])]
           w == [m EXCEPT !.timestamp = DtToStr(@), !.payload.items = written]
<1>1. /\ IsObject(m, EventFields["evidence"]) /\ IsTime(m.timestamp)
      /\ {"timestamp", "payload"} \subseteq EventFields["evidence"]
      /\ IsObject(m.payload, PayloadFields) /\ "items" \in PayloadFields
      /\ \A i \in DOMAIN items : IsObject(items[i], ItemFields) /\ IsTime(items[i].timestamp)
  BY DEF IsEvent, EventFields, TimeFields, PayloadFields
<1>2. [i \in DOMAIN written |-> DecodeEvidenceItem(written[i])] = back
  BY <1>1, ItemReturns
<1>3. StrToDt(DtToStr(m.timestamp)) = InUtc(m.timestamp)
  BY <1>1, TimeReturns
<1>4. EncodeEvidenceCaptureEvent(m) = w
  BY <1>1, Zenon DEF EncodeEvidenceCaptureEvent
<1> HIDE DEF written, back
<1>5. DOMAIN m = EventFields["evidence"] /\ DOMAIN m.payload = PayloadFields
  BY <1>1, ObjectFields
<1>6. w.timestamp = DtToStr(m.timestamp) /\ w.payload.items = written
  BY <1>1, <1>5
<1>7. [w EXCEPT !.timestamp = StrToDt(w.timestamp), !.payload.items = back]
        = [m EXCEPT !.timestamp = InUtc(@), !.payload.items = back]
  BY <1>1, <1>3, <1>5, <1>6
<1> HIDE DEF w
<1>8. DecodeEvidenceCaptureEvent(w) = [w EXCEPT !.timestamp = StrToDt(w.timestamp), !.payload.items = back]
  BY <1>2, <1>6 DEF DecodeEvidenceCaptureEvent
<1>9. AsReceived("evidence", m) = [m EXCEPT !.timestamp = InUtc(@), !.payload.items = back]
  BY <1>1, <1>5 DEF AsReceived, back
<1>10. QED
  BY <1>4, <1>7, <1>8, <1>9

(* An event of a topic is read as it was written. *)
LEMMA EventReturns ==
  ASSUME NEW t \in DOMAIN TopicToEventType, NEW m, IsEvent(t, m), Serialize(t, m).data # None
  PROVE  Deserialize(Serialize(t, m)) = AsReceived(t, m)
<1>1. t \in {"frames", "detections", "alerts", "evidence"}
  BY DEF TopicToEventType
<1>2. CASE t = "frames"
  <2>1. Serialize(t, m) = [event_type |-> "frame.ingested", data |-> EncodeFrameEnvelope(m)]
    BY <1>2 DEF Serialize, TopicToEventType
  <2>2. Deserialize(Serialize(t, m)) = DecodeFrameEnvelope(EncodeFrameEnvelope(m))
    BY <2>1 DEF Deserialize
  <2>3. QED
    BY <1>2, <2>2, FrameReturns
<1>3. CASE t = "detections"
  <2>1. Serialize(t, m) = [event_type |-> "detection.created", data |-> EncodeDetectionEvent(m)]
    BY <1>3 DEF Serialize, TopicToEventType
  <2>2. Deserialize(Serialize(t, m)) = DecodeDetectionEvent(EncodeDetectionEvent(m))
    BY <2>1 DEF Deserialize
  <2>3. QED
    BY <1>3, <2>2, DetectionEventReturns
<1>4. CASE t = "alerts"
  <2>1. Serialize(t, m) = [event_type |-> "compliance.alert", data |-> EncodeComplianceEvent(m)]
    BY <1>4 DEF Serialize, TopicToEventType
  <2>2. Deserialize(Serialize(t, m)) = DecodeComplianceEvent(EncodeComplianceEvent(m))
    BY <2>1 DEF Deserialize
  <2>3. QED
    BY <1>4, <2>2, AlertReturns
<1>5. CASE t = "evidence"
  <2>1. Serialize(t, m) = [event_type |-> "evidence.capture", data |-> EncodeEvidenceCaptureEvent(m)]
    BY <1>5 DEF Serialize, TopicToEventType
  <2>2. Deserialize(Serialize(t, m)) = DecodeEvidenceCaptureEvent(EncodeEvidenceCaptureEvent(m))
    BY <2>1 DEF Deserialize
  <2>3. QED
    BY <1>5, <2>2, EvidenceReturns
<1>6. QED
  BY <1>1, <1>2, <1>3, <1>4, <1>5

----------------------------------------------------------------------------
(* What the worker gets *)

(* What the worker has in hand was decoded when it was handed over.         *)
HasDecoded == pc = "work" => ~Undecodable(msg)

LEMMA HasDecodedStep ==
  ASSUME IInv, HasDecoded, [Next]_vars
  PROVE  HasDecoded'
<1>1. CASE UNCHANGED vars
  BY <1>1 DEF vars, redis, process, HasDecoded, Undecodable
<1>2. CASE Publish
  <2>1. /\ pc' = pc /\ msg' = msg
        /\ log' = log \/ \A m \in Entries : log'[m] = log[m]
    BY <1>2, PublishCases DEF IInv, process
  <2>2. pc = "work" => msg \in Entries
    BY EntryNumbers DEF IInv, Typed, TypeOK
  <2>3. QED
    BY <2>1, <2>2 DEF HasDecoded, Undecodable
<1>3. ASSUME NEW skipTo \in {"read", "out"}, HandOver(skipTo), log' = log
      PROVE  HasDecoded'
  BY <1>3 DEF HandOver, Goto, HasDecoded, Undecodable
<1>4. CASE Settle
  BY <1>3, <1>4 DEF Settle, Goto, HasDecoded
<1>5. CASE Ack
  BY <1>3, <1>5 DEF Ack
<1>6. CASE Call \/ EnsureGroup \/ IsRecoveryDue \/ LookAtPending \/ Claim \/ ClaimFails
           \/ Read \/ ReadFails \/ Finish \/ Crash \/ Restart
  BY <1>6 DEF Call, EnsureGroup, IsRecoveryDue, LookAtPending, Claim, ClaimFails, Read, ReadFails,
              Finish, Crash, Restart, Goto, HasDecoded
<1>7. ASSUME RecoveryDue \/ \E m \in Entries : Age(m)
      PROVE  HasDecoded'
  BY <1>7 DEF RecoveryDue, Age, redis, process, HasDecoded, Undecodable
<1>8. QED
  BY <1>1, <1>2, <1>4, <1>5, <1>6, <1>7 DEF Next, Get

LEMMA WorkIsWhole ==
  ASSUME IInv, HasDecoded
  PROVE  HandedWhole
<1>1. SUFFICES ASSUME pc = "work"
               PROVE  Decoded(msg) = AsReceived(topic, Offered[topic][log[msg]])
  BY DEF HandedWhole, HasDecoded
<1>2. ~Undecodable(msg)
  BY <1>1 DEF HasDecoded
<1>3. msg \in Entries /\ log \in Seq(1..offered) /\ Entries = 1..Len(log)
  BY <1>1, EntryNumbers DEF IInv, Typed, TypeOK
<1>4. log[msg] \in 1..offered
  BY <1>3, ElementOfSeq
<1>5. PICK n \in 1..Len(Offered[topic]) : n = log[msg]
  <2>1. offered \in 0..Len(Offered[topic]) /\ Len(Offered[topic]) \in Nat
    BY StreamConfigOK DEF IInv, Typed, TypeOK
  <2>2. QED
    BY <1>4, <2>1
<1>6. /\ topic \in DOMAIN TopicToEventType /\ IsEvent(topic, Offered[topic][n])
      /\ Serialize(topic, Offered[topic][n]).data # None
  BY StreamConfigOK, EventsOffered DEF IInv, Typed, TypeOK
<1>7. Decoded(msg) = Deserialize(Serialize(topic, Offered[topic][n]))
  BY <1>2, <1>5 DEF Decoded, Data, Undecodable
<1>8. QED
  BY <1>5, <1>6, <1>7, EventReturns

(* Whatever travels through a stream, of any of the four topics, reaches    *)
(* the worker as it was published, but for times that had no zone, track    *)
(* ids and frame shapes; foreign data never reaches it (serialize(),        *)
(* deserialize(), and their callers in get() and _recover_pending()).       *)
THEOREM EventsArriveWhole == Spec => []HandedWhole
<1>1. Init => IInv /\ HasDecoded
  BY IInvInit DEF Init, HasDecoded
<1>2. IInv /\ HasDecoded /\ [Next]_vars => (IInv /\ HasDecoded)'
  BY IInvStep, HasDecodedStep
<1>3. IInv /\ HasDecoded => HandedWhole
  BY WorkIsWhole
<1>4. QED
  BY <1>1, <1>2, <1>3, PTL DEF Spec

=============================================================================
