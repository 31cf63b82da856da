------------------------ MODULE InMemoryMessageQueue ------------------------
(***************************************************************************)
(* One topic of the in-memory message queue                                *)
(* (backend/app/infrastructure/message_queue/in_memory.py): a bounded FIFO *)
(* on top of queue.Queue that drops its oldest message rather than block a *)
(* publisher.                                                              *)
(*                                                                         *)
(* publish() is a loop of separate queue.Queue operations (put_nowait,     *)
(* get_nowait, counting the drop), so other threads get in between; each   *)
(* operation of queue.Queue is atomic.  The module is an open system: its  *)
(* users say who publishes what.                                           *)
(***************************************************************************)
EXTENDS Integers, Sequences, FiniteSets

CONSTANTS
  Publishers,   (* threads that call publish                             *)
  Messages,     (* the messages                                          *)
  MaxSize,      (* max_size_per_topic; 0 is unbounded                    *)
  NoMessage     (* no message in hand                                    *)

ASSUME QueueConfigOK == MaxSize \in Nat /\ NoMessage \notin Messages

VARIABLES
  items,     (* the queue.Queue of the topic                             *)
  dropped,   (* _dropped[topic]                                          *)
  at,        (* where each publisher is inside publish()                 *)
  holding    (* the message each publisher is publishing                 *)

queue == <<items, dropped, at, holding>>

QueueTypeOK ==
  /\ items \in Seq(Messages)
  /\ dropped \in Nat
  /\ at \in [Publishers -> {"idle", "put", "evict", "count"}]
  /\ holding \in [Publishers -> Messages \cup {NoMessage}]

QueueInit ==
  /\ items = <<>> /\ dropped = 0
  /\ at = [p \in Publishers |-> "idle"]
  /\ holding = [p \in Publishers |-> NoMessage]

Full == MaxSize > 0 /\ Len(items) >= MaxSize

(* publish() is called. *)
Publish(p, m) ==
  /\ at[p] = "idle"
  /\ at' = [at EXCEPT ![p] = "put"]
  /\ holding' = [holding EXCEPT ![p] = m]
  /\ UNCHANGED <<items, dropped>>

Placed(p) ==
  /\ holding' = [holding EXCEPT ![p] = NoMessage]
  /\ at' = [at EXCEPT ![p] = "idle"]

(* Mutant: the newest message goes in front.                               *)
PutInFront(p) ==
  /\ at[p] = "put"
  /\ \/ ~Full /\ items' = <<holding[p]>> \o items /\ Placed(p)
     \/ Full /\ at' = [at EXCEPT ![p] = "evict"] /\ UNCHANGED <<items, holding>>
  /\ UNCHANGED dropped

(* put_nowait: returns, or raises Full. *)
Put(p) ==
  /\ at[p] = "put"
  /\ \/ ~Full /\ items' = Append(items, holding[p]) /\ Placed(p)
     \/ Full /\ at' = [at EXCEPT ![p] = "evict"] /\ UNCHANGED <<items, holding>>
  /\ UNCHANGED dropped

(* Mutant: a publisher that finds the queue empty waits for a message. *)
EvictBlocks(p) ==
  /\ at[p] = "evict"
  /\ items # <<>>
  /\ items' = Tail(items)
  /\ at' = [at EXCEPT ![p] = "count"]
  /\ UNCHANGED <<dropped, holding>>

(* get_nowait by the publisher: evicts the oldest message there is by now, *)
(* or raises Empty and the put is tried again.                             *)
Evict(p) ==
  /\ at[p] = "evict"
  /\ \/ items # <<>> /\ items' = Tail(items) /\ at' = [at EXCEPT ![p] = "count"]
     \/ items = <<>> /\ at' = [at EXCEPT ![p] = "put"] /\ UNCHANGED items
  /\ UNCHANGED <<dropped, holding>>

(* Mutant: publish() returns after an eviction instead of trying again. *)
CountReturns(p) ==
  /\ at[p] = "count"
  /\ dropped' = dropped + 1
  /\ Placed(p)
  /\ UNCHANGED items

(* The drop is counted under the lock, and the put is tried again. *)
Count(p) ==
  /\ at[p] = "count"
  /\ dropped' = dropped + 1
  /\ at' = [at EXCEPT ![p] = "put"]
  /\ UNCHANGED <<items, holding>>

(* get(): the consumer takes the oldest message; on an empty queue it      *)
(* raises Empty after its timeout and nothing changes.                     *)
Get ==
  /\ items # <<>>
  /\ items' = Tail(items)
  /\ UNCHANGED <<dropped, at, holding>>

PublishStep(p) == Put(p) \/ Evict(p) \/ Count(p)
=============================================================================
