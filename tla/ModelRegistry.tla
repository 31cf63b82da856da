---------------------------- MODULE ModelRegistry ----------------------------
(***************************************************************************)
(* The cache of loaded models (inference/registry.py) under concurrent     *)
(* first requests: the test of the cache without a lock, the table of      *)
(* locks under _meta_lock, the second test under the lock of the path,     *)
(* load and warm-up, which take long and may fail (inference/loader.py).   *)
(* close() empties the cache while threads may still be in get(), as the   *)
(* shutdown does when a join has given up.                                 *)
(*                                                                         *)
(* A specification of a model (inference/model_spec.py) is a name; what    *)
(* identifies it for the registry is its normalised path alone.            *)
(***************************************************************************)
EXTENDS Integers, FiniteSets

CONSTANTS
  Threads,
  Specs,       (* ModelSpecs *)
  PathOf,      (* normalised_path of each *)
  NoSpec, NoThread,
  MaxLoads     (* bound: calls of ModelLoader.load for one path *)

Paths == {PathOf[s] : s \in Specs}

ASSUME RegistryConfigOK ==
  /\ PathOf \in [Specs -> Paths] /\ NoSpec \notin Specs /\ NoThread \notin Threads
  /\ MaxLoads \in Nat

VARIABLES
  cache,      (* path -> the spec whose detector is cached, or NoSpec *)
  locks,      (* _key_locks: paths that have a lock *)
  owner,      (* path -> the thread that holds its lock *)
  meta,       (* the thread that holds _meta_lock *)
  at,         (* thread -> where it is in get() *)
  wants,      (* thread -> the spec it asks for *)
  got,        (* thread -> the spec of the detector it was last given *)
  closed,     (* close() was called *)
  loads       (* history: path -> loads that succeeded, tries that failed *)

vars == <<cache, locks, owner, meta, at, wants, got, closed, loads>>

Places == {"out", "read", "meta", "acquire", "recheck", "load", "warm"}

TypeOK ==
  /\ cache \in [Paths -> Specs \cup {NoSpec}] /\ locks \subseteq Paths
  /\ owner \in [Paths -> Threads \cup {NoThread}] /\ meta \in Threads \cup {NoThread}
  /\ at \in [Threads -> Places]
  /\ wants \in [Threads -> Specs \cup {NoSpec}] /\ got \in [Threads -> Specs \cup {NoSpec}]
  /\ closed \in BOOLEAN
  /\ loads \in [Paths -> [done : 0..MaxLoads, failed : 0..MaxLoads]]

Path(t) == PathOf[wants[t]]
Holds(t, p) == owner[p] = t

Goto(t, place) == at' = [at EXCEPT ![t] = place]

(* get() returns a detector, or raises.                                     *)
Return(t, detector) ==
  /\ Goto(t, "out") /\ got' = [got EXCEPT ![t] = detector]

Release(t) == owner' = [owner EXCEPT ![Path(t)] = NoThread]

----------------------------------------------------------------------------
(* get(spec): the test without a lock. *)
Ask(t, s) ==
  /\ at[t] = "out" /\ wants' = [wants EXCEPT ![t] = s]
  /\ Goto(t, IF cache[PathOf[s]] # NoSpec THEN "read" ELSE "meta")
  /\ UNCHANGED <<cache, locks, owner, meta, got, closed, loads>>

(* The path was in the cache a moment ago: a KeyError if close() has come   *)
(* in between.                                                              *)
ReadCache(t) ==
  /\ at[t] = "read" /\ Return(t, cache[Path(t)])
  /\ UNCHANGED <<cache, locks, owner, meta, wants, closed, loads>>

(* _get_or_create_lock *)
TakeMeta(t) ==
  /\ at[t] = "meta" /\ meta = NoThread /\ meta' = t
  /\ UNCHANGED <<cache, locks, owner, at, wants, got, closed, loads>>

CreateLock(t) ==
  /\ meta = t /\ meta' = NoThread
  /\ locks' = locks \cup {Path(t)} /\ Goto(t, "acquire")
  /\ UNCHANGED <<cache, owner, wants, got, closed, loads>>

Acquire(t) ==
  /\ at[t] = "acquire" /\ owner[Path(t)] = NoThread
  /\ owner' = [owner EXCEPT ![Path(t)] = t] /\ Goto(t, "recheck")
  /\ UNCHANGED <<cache, locks, meta, wants, got, closed, loads>>

RecheckNothing(t) ==
  /\ at[t] = "recheck" /\ Goto(t, "load")
  /\ UNCHANGED <<cache, locks, owner, meta, wants, got, closed, loads>>

Recheck(t) ==
  /\ at[t] = "recheck"
  /\ IF cache[Path(t)] # NoSpec
     THEN Return(t, cache[Path(t)]) /\ Release(t)
     ELSE Goto(t, "load") /\ UNCHANGED <<owner, got>>
  /\ UNCHANGED <<cache, locks, meta, wants, closed, loads>>

LoadFailsHolding(t) ==
  /\ at[t] = "load" /\ loads[Path(t)].failed < MaxLoads
  /\ loads' = [loads EXCEPT ![Path(t)].failed = @ + 1]
  /\ Return(t, NoSpec)
  /\ UNCHANGED <<cache, locks, owner, meta, wants, closed>>

(* ModelLoader.load raises ModelLoadError: the lock is released, nothing is *)
(* cached.                                                                  *)
LoadFails(t) ==
  /\ at[t] = "load" /\ loads[Path(t)].failed < MaxLoads
  /\ loads' = [loads EXCEPT ![Path(t)].failed = @ + 1]
  /\ Release(t) /\ Return(t, NoSpec)
  /\ UNCHANGED <<cache, locks, meta, wants, closed>>

Load(t) ==
  /\ at[t] = "load" /\ loads[Path(t)].done < MaxLoads
  /\ loads' = [loads EXCEPT ![Path(t)].done = @ + 1]
  /\ Goto(t, "warm")
  /\ UNCHANGED <<cache, locks, owner, meta, wants, got, closed>>

(* The warm-up is over, well or not; the detector is cached and returned.   *)
Register(t) ==
  /\ at[t] = "warm"
  /\ cache' = [cache EXCEPT ![Path(t)] = wants[t]]
  /\ Release(t) /\ Return(t, wants[t])
  /\ UNCHANGED <<locks, meta, wants, closed, loads>>

Close ==
  /\ ~closed /\ closed' = TRUE /\ cache' = [p \in Paths |-> NoSpec]
  /\ UNCHANGED <<locks, owner, meta, at, wants, got, loads>>

----------------------------------------------------------------------------
Init ==
  /\ cache = [p \in Paths |-> NoSpec] /\ locks = {} /\ meta = NoThread
  /\ owner = [p \in Paths |-> NoThread]
  /\ at = [t \in Threads |-> "out"] /\ wants = [t \in Threads |-> NoSpec]
  /\ got = [t \in Threads |-> NoSpec] /\ closed = FALSE
  /\ loads = [p \in Paths |-> [done |-> 0, failed |-> 0]]

Proceed(t) ==
  ReadCache(t) \/ TakeMeta(t) \/ CreateLock(t) \/ Acquire(t) \/ Recheck(t)
  \/ Load(t) \/ Register(t)

InGet(t) == Proceed(t) \/ LoadFails(t)

Next == Close \/ \E t \in Threads : InGet(t) \/ \E s \in Specs : Ask(t, s)

(* A thread that can go on does. The locks are not fair: that the failed   *)
(* loads of a path are bounded is what keeps a thread from waiting forever. *)
Spec == Init /\ [][Next]_vars /\ \A t \in Threads : WF_vars(InGet(t))

----------------------------------------------------------------------------
(* Properties *)

(* Two threads never load one path at the same time, whatever becomes of    *)
(* the loads before.                                                        *)
Inside == {"recheck", "load", "warm"}

OneLoaderPerPath ==
  \A t, u \in Threads :
    at[t] \in Inside /\ at[u] \in Inside /\ Path(t) = Path(u) => t = u

(* "Guaranteed to load each model exactly once" (registry.py:68), as long   *)
(* as the registry is not closed; once more after that.                     *)
LoadedOnce == \A p \in Paths : loads[p].done <= IF closed THEN 2 ELSE 1

(* Nobody is given a detector of another path, and all users of a path are  *)
(* given the same one, until the registry is closed.                        *)
SharedDetector ==
  \A t \in Threads : at[t] = "out" /\ got[t] # NoSpec =>
    /\ PathOf[got[t]] = Path(t)
    /\ ~closed => got[t] = cache[Path(t)]

OneDetectorPerPath == TypeOK /\ OneLoaderPerPath /\ LoadedOnce /\ SharedDetector

(* get() returns, whichever loads fail: a failed load releases its lock.    *)
GetReturns == \A t \in Threads : at[t] # "out" ~> at[t] = "out"
=============================================================================
