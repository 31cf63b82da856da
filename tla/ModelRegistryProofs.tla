------------------------- MODULE ModelRegistryProofs -------------------------
(***************************************************************************)
(* The double-checked lock of the model registry, proved for any number of *)
(* threads, specifications and failing loads: one loader and one detector  *)
(* for each path.                                                          *)
(*                                                                         *)
(* What makes it inductive: the thread inside get() owns the lock of its   *)
(* path (Held); between the second test and the registration the path is   *)
(* not cached (Unloaded); a load that was done is cached or about to be    *)
(* (Counted), but for what close() has thrown away.                        *)
(*                                                                         *)
(* Then the application on top of it: whatever the configuration, the      *)
(* engine is given the models its own zone configures.  Two specifications *)
(* of one path never meet in a zone (OneOfEachPath); the engine's zone is  *)
(* loaded first, when nobody else asks (FirstZoneFirst, OneAtATime), so    *)
(* nobody else decides on one of its paths (OwnOrNothing).                 *)
(***************************************************************************)
EXTENDS ModelServing, SequenceTheorems, FiniteSetTheorems, WellFoundedInduction, TLAPS

Asked ==
  \A t \in Threads :
    /\ at[t] # "out" => wants[t] \in Specs
    /\ got[t] # NoSpec => wants[t] \in Specs
    /\ meta = t => at[t] = "meta"

Held == \A t \in Threads : at[t] \in Inside => owner[Path(t)] = t

Unloaded == \A t \in Threads : at[t] \in {"load", "warm"} => cache[Path(t)] = NoSpec

CachedByPath == \A p \in Paths : cache[p] # NoSpec => PathOf[cache[p]] = p

Warming(p) == \E t \in Threads : at[t] = "warm" /\ Path(t) = p

Counted ==
  \A p \in Paths :
    /\ loads[p].done <= IF closed THEN 2 ELSE 1
    /\ cache[p] = NoSpec /\ ~Warming(p) => loads[p].done <= IF closed THEN 1 ELSE 0

RegistryInv ==
  TypeOK /\ Asked /\ Held /\ Unloaded /\ CachedByPath /\ Counted /\ SharedDetector

----------------------------------------------------------------------------
(* The path of a specification is a path. *)
LEMMA PathOfSpec ==
  ASSUME NEW s \in Specs
  PROVE  PathOf[s] \in Paths
BY DEF Paths

(* A thread that is in get() has a path. *)
LEMMA PathInGet ==
  ASSUME TypeOK, Asked, NEW t \in Threads, at[t] # "out"
  PROVE  wants[t] \in Specs /\ Path(t) \in Paths /\ wants[t] # NoSpec
BY PathOfSpec, RegistryConfigOK DEF RegistryConfigOK, Asked, Path

(* No two threads are inside with the same path. *)
LEMMA HeldByOne ==
  ASSUME Held
  PROVE  OneLoaderPerPath
BY DEF Held, OneLoaderPerPath

(* Nothing is loaded in the beginning. *)
LEMMA InitRegistry ==
  ASSUME Init
  PROVE  RegistryInv
<1>1. TypeOK
  <2>1. [done |-> 0, failed |-> 0] \in [done : 0..MaxLoads, failed : 0..MaxLoads]
    BY RegistryConfigOK DEF RegistryConfigOK
  <2>2. QED
    BY <2>1, RegistryConfigOK DEF RegistryConfigOK, Init, TypeOK, Places
<1>2. Asked /\ Held /\ Unloaded /\ CachedByPath /\ SharedDetector
  BY RegistryConfigOK DEF RegistryConfigOK, Init, Asked, Held, Unloaded, CachedByPath, SharedDetector, Inside, Path
<1>3. Counted
  BY DEF Init, Counted
<1>4. QED
  BY <1>1, <1>2, <1>3 DEF RegistryInv

(* get() tests the cache without a lock. *)

LEMMA AskKeeps ==
  ASSUME RegistryInv, NEW t \in Threads, NEW s \in Specs, Ask(t, s)
  PROVE  RegistryInv'
<1> USE DEF RegistryInv
<1>0. meta # t /\ s # NoSpec /\ at'[t] \in {"read", "meta"} /\ wants'[t] = s
  BY RegistryConfigOK DEF RegistryConfigOK, Ask, Goto, TypeOK, Asked, Places
<1>1. \A u \in Threads \ {t} : at'[u] = at[u] /\ wants'[u] = wants[u] /\ Path(u)' = Path(u)
  BY DEF Ask, Goto, TypeOK, Path
<1>2. TypeOK'
  BY DEF Ask, Goto, TypeOK, Places
<1>3. Asked'
  BY <1>0, <1>1 DEF Ask, Asked
<1>4. Held' /\ Unloaded' /\ CachedByPath' /\ SharedDetector'
  BY <1>0, <1>1 DEF Ask, Held, Unloaded, CachedByPath, SharedDetector, Inside
<1>5. \A p \in Paths : Warming(p)' <=> Warming(p)
  BY <1>0, <1>1 DEF Ask, Warming, TypeOK, Places
<1>6. Counted'
  BY <1>5 DEF Ask, Counted
<1>7. QED
  BY <1>2, <1>3, <1>4, <1>6

(* The thread takes _meta_lock. *)
LEMMA TakeMetaKeeps ==
  ASSUME RegistryInv, NEW t \in Threads, TakeMeta(t)
  PROVE  RegistryInv'
<1> USE DEF RegistryInv
<1>1. TypeOK' /\ Asked'
  BY DEF TakeMeta, TypeOK, Asked
<1>2. Held' /\ Unloaded' /\ CachedByPath' /\ Counted' /\ SharedDetector'
  BY DEF TakeMeta, Held, Unloaded, CachedByPath, Counted, SharedDetector, Warming, Path
<1>3. QED
  BY <1>1, <1>2

(* The path has a lock. *)
LEMMA CreateLockKeeps ==
  ASSUME RegistryInv, NEW t \in Threads, CreateLock(t)
  PROVE  RegistryInv'
<1> USE DEF RegistryInv
<1>0. at[t] = "meta" /\ at' = [at EXCEPT ![t] = "acquire"]
  BY DEF CreateLock, Goto, Asked
<1>1. /\ \A u \in Threads \ {t} : at'[u] = at[u]
      /\ at'[t] = "acquire" /\ \A u \in Threads : Path(u)' = Path(u)
  BY <1>0 DEF CreateLock, TypeOK, Path
<1>2. wants[t] \in Specs /\ Path(t) \in Paths
  BY <1>0, PathInGet
<1>3. TypeOK'
  BY <1>0, <1>2 DEF CreateLock, TypeOK, Places
<1>4. Asked'
  BY <1>0, <1>1, <1>2, RegistryConfigOK DEF RegistryConfigOK, CreateLock, Asked, TypeOK
<1>5. Held' /\ Unloaded' /\ CachedByPath' /\ SharedDetector'
  BY <1>0, <1>1 DEF CreateLock, Held, Unloaded, CachedByPath, SharedDetector, Inside
<1>6. \A p \in Paths : Warming(p)' <=> Warming(p)
  BY <1>0, <1>1 DEF Warming
<1>7. Counted'
  BY <1>6 DEF CreateLock, Counted
<1>8. QED
  BY <1>3, <1>4, <1>5, <1>7

(* The lock of the path is free and taken: nobody else is inside. *)
LEMMA AcquireKeeps ==
  ASSUME RegistryInv, NEW t \in Threads, Acquire(t)
  PROVE  RegistryInv'
<1> USE DEF RegistryInv
<1>0. at[t] = "acquire" /\ at' = [at EXCEPT ![t] = "recheck"]
  BY DEF Acquire, Goto, Asked
<1>1. /\ \A u \in Threads \ {t} : at'[u] = at[u]
      /\ at'[t] = "recheck" /\ \A u \in Threads : Path(u)' = Path(u)
  BY <1>0 DEF Acquire, TypeOK, Path
<1>2. wants[t] \in Specs /\ Path(t) \in Paths
  BY <1>0, PathInGet
<1>3. TypeOK'
  BY <1>0, <1>2 DEF Acquire, TypeOK, Places
<1>4. Asked'
  BY <1>0, <1>1, <1>2, RegistryConfigOK DEF RegistryConfigOK, Acquire, Asked, TypeOK
<1>9. \A u \in Threads \ {t} : at[u] \in Inside => owner'[Path(u)] = u
  <2> SUFFICES ASSUME NEW u \in Threads \ {t}, at[u] \in Inside
               PROVE  owner'[Path(u)] = u
    OBVIOUS
  <2>1. owner[Path(u)] = u /\ Path(u) \in Paths
    BY PathInGet DEF Held, Inside
  <2>2. Path(u) # Path(t)
    BY <2>1, RegistryConfigOK DEF RegistryConfigOK, Acquire
  <2>3. QED
    BY <1>2, <2>1, <2>2 DEF Acquire, TypeOK
<1>5. Held' /\ Unloaded' /\ CachedByPath' /\ SharedDetector'
  BY <1>0, <1>1, <1>2, <1>9, RegistryConfigOK DEF RegistryConfigOK, Acquire, TypeOK, Held, Unloaded, CachedByPath, SharedDetector, Inside
<1>6. \A p \in Paths : Warming(p)' <=> Warming(p)
  BY <1>0, <1>1 DEF Warming
<1>7. Counted'
  BY <1>6 DEF Acquire, Counted
<1>8. QED
  BY <1>3, <1>4, <1>5, <1>7

(* A thread that is given the cached detector of its path is out, and has   *)
(* not changed anything for the others.                                     *)
LEMMA ReadCacheKeeps ==
  ASSUME RegistryInv, NEW t \in Threads, ReadCache(t)
  PROVE  RegistryInv'
<1> USE DEF RegistryInv
<1>0. at[t] = "read" /\ at' = [at EXCEPT ![t] = "out"]
  BY DEF ReadCache, Return, Goto
<1>1. /\ \A u \in Threads \ {t} : at'[u] = at[u] /\ got'[u] = got[u]
      /\ at'[t] = "out" /\ got'[t] = cache[Path(t)]
      /\ \A u \in Threads : Path(u)' = Path(u)
  BY <1>0 DEF ReadCache, Return, TypeOK, Path
<1>2. wants[t] \in Specs /\ Path(t) \in Paths
  BY <1>0, PathInGet
<1>3. TypeOK'
  BY <1>0, <1>2 DEF ReadCache, Return, TypeOK, Places
<1>4. Asked'
  BY <1>0, <1>1, <1>2 DEF ReadCache, Asked
<1>5. Held' /\ Unloaded' /\ CachedByPath'
  BY <1>0, <1>1 DEF ReadCache, Held, Unloaded, CachedByPath, Inside
<1>6. SharedDetector'
  BY <1>1, <1>2 DEF ReadCache, SharedDetector, CachedByPath
<1>7. \A p \in Paths : Warming(p)' <=> Warming(p)
  BY <1>0, <1>1 DEF Warming
<1>8. Counted'
  BY <1>7 DEF ReadCache, Counted
<1>9. QED
  BY <1>3, <1>4, <1>5, <1>6, <1>8

(* Who leaves the inside releases the lock of its path; the others inside   *)
(* hold other locks, and keep them.                                         *)
LEMMA OthersHold ==
  ASSUME RegistryInv, NEW t \in Threads, at[t] \in Inside, Release(t),
         NEW u \in Threads \ {t}, at[u] \in Inside
  PROVE  owner'[Path(u)] = u /\ Path(u) # Path(t)
<1> USE DEF RegistryInv
<1>1. /\ owner[Path(u)] = u /\ Path(u) \in Paths
      /\ owner[Path(t)] = t /\ Path(t) \in Paths
  BY PathInGet DEF Held, Inside
<1>2. QED
  BY <1>1 DEF Release, TypeOK

(* The second test: the path is cached by now, or the thread is the one to  *)
(* load it.                                                                 *)
LEMMA RecheckKeeps ==
  ASSUME RegistryInv, NEW t \in Threads, Recheck(t)
  PROVE  RegistryInv'
<1> USE DEF RegistryInv
<1>1. at[t] = "recheck" /\ at[t] \in Inside
  BY DEF Recheck, Inside
<1>2. wants[t] \in Specs /\ Path(t) \in Paths
  BY <1>1, PathInGet
<1>3. \A u \in Threads : Path(u)' = Path(u)
  BY DEF Recheck, Path
<1>4. CASE cache[Path(t)] # NoSpec
  <2>1. at' = [at EXCEPT ![t] = "out"] /\ got' = [got EXCEPT ![t] = cache[Path(t)]] /\ Release(t)
    BY <1>4 DEF Recheck, Return, Goto
  <2>2. /\ \A u \in Threads \ {t} : at'[u] = at[u] /\ got'[u] = got[u]
        /\ at'[t] = "out" /\ got'[t] = cache[Path(t)]
    BY <2>1 DEF TypeOK
  <2>3. TypeOK'
    BY <2>1, <1>2 DEF Recheck, Release, TypeOK, Places
  <2>4. Asked'
    BY <1>1, <1>2, <2>2 DEF Recheck, Asked
  <2>5. Held'
    BY <1>1, <1>3, <2>1, <2>2, OthersHold DEF Held, Inside
  <2>6. Unloaded' /\ CachedByPath'
    BY <1>3, <2>2 DEF Recheck, Unloaded, CachedByPath
  <2>7. SharedDetector'
    BY <1>2, <1>3, <2>2 DEF Recheck, SharedDetector, CachedByPath
  <2>8. \A p \in Paths : Warming(p)' <=> Warming(p)
    BY <1>1, <1>3, <2>2 DEF Warming
  <2>9. Counted'
    BY <2>8 DEF Recheck, Counted
  <2>10. QED
    BY <2>3, <2>4, <2>5, <2>6, <2>7, <2>9
<1>5. CASE cache[Path(t)] = NoSpec
  <2>1. at' = [at EXCEPT ![t] = "load"] /\ UNCHANGED <<owner, got>>
    BY <1>5 DEF Recheck, Goto
  <2>2. \A u \in Threads \ {t} : at'[u] = at[u]
    BY <2>1 DEF TypeOK
  <2>3. at'[t] = "load"
    BY <2>1 DEF TypeOK
  <2>4. TypeOK' /\ Asked'
    BY <1>1, <1>2, <2>1, <2>2, <2>3 DEF Recheck, TypeOK, Places, Asked
  <2>5. Held' /\ Unloaded' /\ CachedByPath' /\ SharedDetector'
    BY <1>1, <1>3, <1>5, <2>1, <2>2, <2>3
       DEF Recheck, Held, Unloaded, CachedByPath, SharedDetector, Inside
  <2>6. \A p \in Paths : Warming(p)' <=> Warming(p)
    BY <1>1, <1>3, <2>2, <2>3 DEF Warming
  <2>7. Counted'
    BY <2>6 DEF Recheck, Counted
  <2>8. QED
    BY <2>4, <2>5, <2>7
<1>6. QED
  BY <1>4, <1>5

(* A load that fails leaves no trace but its lock released. *)
LEMMA LoadFailsKeeps ==
  ASSUME RegistryInv, NEW t \in Threads, LoadFails(t)
  PROVE  RegistryInv'
<1> USE DEF RegistryInv
<1>1. at[t] = "load" /\ at[t] \in Inside
  BY DEF LoadFails, Inside
<1>2. wants[t] \in Specs /\ Path(t) \in Paths
  BY <1>1, PathInGet
<1>3. /\ at' = [at EXCEPT ![t] = "out"] /\ got' = [got EXCEPT ![t] = NoSpec] /\ Release(t)
      /\ loads' = [loads EXCEPT ![Path(t)].failed = @ + 1]
  BY DEF LoadFails, Return, Goto
<1>4. /\ \A u \in Threads \ {t} : at'[u] = at[u] /\ got'[u] = got[u]
      /\ at'[t] = "out" /\ got'[t] = NoSpec
      /\ \A u \in Threads : Path(u)' = Path(u)
  BY <1>3 DEF LoadFails, TypeOK, Path
<1>5. /\ loads' \in [Paths -> [done : 0..MaxLoads, failed : 0..MaxLoads]]
      /\ \A p \in Paths : loads'[p].done = loads[p].done
  <2> DEFINE more == [loads[Path(t)] EXCEPT !.failed = @ + 1]
  <2>1. loads' = [loads EXCEPT ![Path(t)] = more]
    BY <1>3
  <2>2. more \in [done : 0..MaxLoads, failed : 0..MaxLoads] /\ more.done = loads[Path(t)].done
    BY <1>2, RegistryConfigOK DEF RegistryConfigOK, LoadFails, TypeOK
  <2> HIDE DEF more
  <2>3. QED
    BY <1>2, <2>1, <2>2 DEF TypeOK
<1>6. TypeOK'
  BY <1>2, <1>3, <1>5 DEF LoadFails, Release, TypeOK, Places
<1>7. Asked'
  BY <1>1, <1>2, <1>4 DEF LoadFails, Asked
<1>8. Held'
  BY <1>1, <1>3, <1>4, OthersHold DEF Held, Inside
<1>9. Unloaded' /\ CachedByPath' /\ SharedDetector'
  BY <1>4 DEF LoadFails, Unloaded, CachedByPath, SharedDetector
<1>10. \A p \in Paths : Warming(p)' <=> Warming(p)
  BY <1>1, <1>4 DEF Warming
<1>11. Counted'
  BY <1>5, <1>10 DEF LoadFails, Counted
<1>12. QED
  BY <1>6, <1>7, <1>8, <1>9, <1>11

(* A path that is neither cached nor about to be is loaded, for the first   *)
(* time since the start or the close.                                       *)
LEMMA LoadKeeps ==
  ASSUME RegistryInv, NEW t \in Threads, Load(t)
  PROVE  RegistryInv'
<1> USE DEF RegistryInv
<1>1. at[t] = "load" /\ at[t] \in Inside
  BY DEF Load, Inside
<1>2. wants[t] \in Specs /\ Path(t) \in Paths
  BY <1>1, PathInGet
<1>3. at' = [at EXCEPT ![t] = "warm"] /\ loads' = [loads EXCEPT ![Path(t)].done = @ + 1]
  BY DEF Load, Goto
<1>4. /\ \A u \in Threads \ {t} : at'[u] = at[u]
      /\ at'[t] = "warm"
      /\ \A u \in Threads : Path(u)' = Path(u)
  BY <1>3 DEF Load, TypeOK, Path
<1>5. /\ loads' \in [Paths -> [done : 0..MaxLoads, failed : 0..MaxLoads]]
      /\ \A p \in Paths \ {Path(t)} : loads'[p] = loads[p]
      /\ loads'[Path(t)].done = loads[Path(t)].done + 1
  <2> DEFINE more == [loads[Path(t)] EXCEPT !.done = @ + 1]
  <2>1. loads' = [loads EXCEPT ![Path(t)] = more]
    BY <1>3
  <2>2. more \in [done : 0..MaxLoads, failed : 0..MaxLoads]
        /\ more.done = loads[Path(t)].done + 1
    BY <1>2, RegistryConfigOK DEF RegistryConfigOK, Load, TypeOK
  <2> HIDE DEF more
  <2>3. QED
    BY <1>2, <2>1, <2>2 DEF TypeOK
<1>6. TypeOK'
  BY <1>2, <1>3, <1>5 DEF Load, TypeOK, Places
<1>7. Asked'
  BY <1>1, <1>2, <1>4, RegistryConfigOK DEF RegistryConfigOK, Load, Asked, TypeOK
<1>8. Held' /\ Unloaded' /\ CachedByPath' /\ SharedDetector'
  BY <1>1, <1>4 DEF Load, Held, Unloaded, CachedByPath, SharedDetector, Inside
<1>9. cache[Path(t)] = NoSpec /\ ~Warming(Path(t))
  <2>1. cache[Path(t)] = NoSpec
    BY <1>1 DEF Unloaded
  <2>2. ~Warming(Path(t))
    BY <1>1, HeldByOne DEF Warming, OneLoaderPerPath, Inside
  <2>3. QED
    BY <2>1, <2>2
<1>10. \A p \in Paths \ {Path(t)} : Warming(p)' <=> Warming(p)
  BY <1>1, <1>4 DEF Warming
<1>11. Warming(Path(t))'
  BY <1>4 DEF Warming
<1>12. loads[Path(t)].done <= IF closed THEN 1 ELSE 0
  BY <1>2, <1>9 DEF Counted
<1>13. Counted'
  <2> SUFFICES ASSUME NEW p \in Paths
               PROVE  /\ loads'[p].done <= IF closed' THEN 2 ELSE 1
                      /\ cache'[p] = NoSpec /\ ~Warming(p)' =>
                           loads'[p].done <= IF closed' THEN 1 ELSE 0
    BY DEF Counted
  <2>1. loads[p].done \in Nat
    BY DEF TypeOK
  <2>2. CASE p = Path(t)
    BY <1>4, <1>5, <1>11, <1>12, <2>1, <2>2 DEF Load, Warming
  <2>3. CASE p # Path(t)
    BY <1>5, <1>10, <2>3 DEF Load, Counted
  <2>4. QED
    BY <2>2, <2>3
<1>14. QED
  BY <1>6, <1>7, <1>8, <1>13

(* The detector that was loaded is cached, and given to the thread.         *)
LEMMA RegisterKeeps ==
  ASSUME RegistryInv, NEW t \in Threads, Register(t)
  PROVE  RegistryInv'
<1> USE DEF RegistryInv
<1>1. at[t] = "warm" /\ at[t] \in Inside
  BY DEF Register, Inside
<1>2. wants[t] \in Specs /\ Path(t) \in Paths /\ wants[t] # NoSpec
  BY <1>1, PathInGet
<1>3. /\ at' = [at EXCEPT ![t] = "out"] /\ got' = [got EXCEPT ![t] = wants[t]] /\ Release(t)
      /\ cache' = [cache EXCEPT ![Path(t)] = wants[t]]
  BY DEF Register, Return, Goto
<1>4. /\ \A u \in Threads \ {t} : at'[u] = at[u] /\ got'[u] = got[u]
      /\ at'[t] = "out" /\ got'[t] = wants[t]
      /\ \A u \in Threads : Path(u)' = Path(u)
      /\ cache'[Path(t)] = wants[t]
      /\ \A p \in Paths \ {Path(t)} : cache'[p] = cache[p]
  BY <1>2, <1>3 DEF Register, TypeOK, Path
<1>5. cache[Path(t)] = NoSpec
  BY <1>1 DEF Unloaded
<1>6. TypeOK'
  BY <1>2, <1>3 DEF Register, Release, TypeOK, Places
<1>7. Asked'
  BY <1>1, <1>2, <1>4 DEF Register, Asked
<1>8. \A u \in Threads \ {t} : at[u] \in Inside => owner'[Path(u)] = u /\ Path(u) # Path(t)
  BY <1>1, <1>3, OthersHold
<1>9. Held'
  BY <1>4, <1>8 DEF Held, Inside
<1>10. Unloaded'
  <2> SUFFICES ASSUME NEW u \in Threads, at'[u] \in {"load", "warm"}
               PROVE  cache'[Path(u)] = NoSpec
    BY <1>4 DEF Unloaded
  <2>1. u # t /\ at[u] \in {"load", "warm"} /\ at[u] # "out"
    BY <1>4
  <2>2. Path(u) \in Paths \ {Path(t)}
    BY <2>1, <1>8, PathInGet DEF Inside
  <2>3. QED
    BY <1>4, <2>1, <2>2 DEF Unloaded
<1>11. CachedByPath'
  BY <1>2, <1>4 DEF CachedByPath, Path
<1>12. SharedDetector'
  <2> SUFFICES ASSUME NEW u \in Threads, at'[u] = "out", got'[u] # NoSpec
               PROVE  PathOf[got'[u]] = Path(u) /\ (~closed' => got'[u] = cache'[Path(u)])
    BY <1>4 DEF SharedDetector
  <2>1. CASE u = t
    BY <1>4, <2>1 DEF Path
  <2>2. CASE u # t
    <3>1. at[u] = "out" /\ got[u] # NoSpec /\ got'[u] = got[u] /\ wants[u] \in Specs
      BY <1>4, <2>2 DEF Asked
    <3>2. Path(u) \in Paths
      BY <3>1, PathOfSpec DEF Path
    <3>3. QED
      BY <1>4, <1>5, <3>1, <3>2 DEF Register, SharedDetector
  <2>3. QED
    BY <2>1, <2>2
<1>13. \A p \in Paths \ {Path(t)} : Warming(p)' <=> Warming(p)
  BY <1>4 DEF Warming
<1>14. Counted'
  BY <1>2, <1>4, <1>13 DEF Register, Counted
<1>15. QED
  BY <1>6, <1>7, <1>9, <1>10, <1>11, <1>12, <1>14

(* close() forgets all detectors; one more load of each path may come.      *)
LEMMA CloseKeeps ==
  ASSUME RegistryInv, Close
  PROVE  RegistryInv'
<1> USE DEF RegistryInv
<1>1. TypeOK' /\ Asked'
  BY DEF Close, TypeOK, Asked
<1>2. \A p \in Paths : cache'[p] = NoSpec
  BY DEF Close
<1>3. \A u \in Threads : Path(u)' = Path(u)
  BY DEF Close, Path
<1>4. Held' /\ CachedByPath'
  BY <1>2, <1>3 DEF Close, Held, CachedByPath
<1>5. Unloaded'
  BY <1>2, <1>3, PathInGet DEF Close, Unloaded
<1>6. SharedDetector'
  BY <1>3 DEF Close, SharedDetector
<1>7. Counted'
  <2>1. \A p \in Paths : loads[p].done <= 1 /\ loads[p].done \in Nat
    BY DEF Close, Counted, TypeOK
  <2>2. QED
    BY <2>1 DEF Close, Counted
<1>8. QED
  BY <1>1, <1>4, <1>5, <1>6, <1>7

(* Nothing happens. *)
LEMMA StutterKeeps ==
  ASSUME RegistryInv, UNCHANGED vars
  PROVE  RegistryInv'
BY DEF RegistryInv, vars, TypeOK, Asked, Held, Unloaded, CachedByPath, Counted, SharedDetector,
       Warming, Path

LEMMA RegistryKeeps ==
  ASSUME RegistryInv, [Next]_vars
  PROVE  RegistryInv'
<1>1. CASE UNCHANGED vars
  BY <1>1, StutterKeeps
<1>2. CASE Close
  BY <1>2, CloseKeeps
<1>3. ASSUME NEW t \in Threads, NEW s \in Specs, Ask(t, s)
      PROVE  RegistryInv'
  BY <1>3, AskKeeps
<1>4. ASSUME NEW t \in Threads, Proceed(t)
      PROVE  RegistryInv'
  BY <1>4, ReadCacheKeeps, TakeMetaKeeps, CreateLockKeeps, AcquireKeeps, RecheckKeeps,
     LoadKeeps, RegisterKeeps DEF Proceed
<1>5. ASSUME NEW t \in Threads, LoadFails(t)
      PROVE  RegistryInv'
  BY <1>5, LoadFailsKeeps
<1>6. QED
  BY <1>1, <1>2, <1>3, <1>4, <1>5 DEF Next, InGet

LEMMA RegistrySafe ==
  ASSUME RegistryInv
  PROVE  OneDetectorPerPath
<1>1. OneLoaderPerPath
  BY HeldByOne DEF RegistryInv
<1>2. LoadedOnce
  BY DEF RegistryInv, Counted, LoadedOnce
<1>3. QED
  BY <1>1, <1>2 DEF RegistryInv, OneDetectorPerPath

(* However many threads ask for models, and however the loads end: no two   *)
(* of them load a path at once, a path is loaded once (and once more after  *)
(* close()), and all are given the same detector of the path they asked     *)
(* for.                                                                     *)
THEOREM OneDetector == Spec => []OneDetectorPerPath
<1>1. Init => RegistryInv
  BY InitRegistry
<1>2. RegistryInv /\ [Next]_vars => RegistryInv'
  BY RegistryKeeps
<1>3. RegistryInv => OneDetectorPerPath
  BY RegistrySafe
<1>4. QED
  BY <1>1, <1>2, <1>3, PTL DEF Spec

----------------------------------------------------------------------------
(* The engine's own models *)

(* The specifications of the zone that the engine serves, if there are. *)
Own ==
  IF Builds(config) /\ Camera \in DOMAIN config.cameras /\ Resolves(config, Camera, EngineZone)
  THEN ToSet(Resolve(config, Camera, EngineZone)) ELSE {}

InMemory(s) == cache[PathOf[s]] = s

ServingTypes ==
  /\ config \in Configs \cup {Unconfigured}
  /\ phase \in {"registry", "new", "loading", "serving", "failed"}
  /\ phase = "registry" <=> config = Unconfigured
  /\ todo \in [Threads -> Seq(Specs)]
  /\ phase \in {"loading", "serving"} => Builds(config) /\ Camera \in DOMAIN config.cameras
  /\ closed => phase \in {"serving", "registry"}

(* Only lifespan() uses the registry until the workers are started, and     *)
(* never again after that.                                                  *)
OneAtATime ==
  /\ phase # "loading" => at[main] = "out" /\ todo[main] = <<>>
  /\ phase \in {"new", "loading", "failed"} =>
       \A t \in Workers : at[t] = "out" /\ todo[t] = <<>> /\ wants[t] = NoSpec /\ got[t] = NoSpec

(* A worker asks for the models of the engine's zone alone, and has been    *)
(* given what it asked for.                                                 *)
AsksOwn ==
  \A t \in Workers :
    /\ ToSet(todo[t]) \subseteq Own /\ wants[t] \in Own \cup {NoSpec}
    /\ at[t] = "out" /\ got[t] # NoSpec => got[t] = wants[t]

(* Nobody else decides on a path of the engine's zone.                      *)
OwnOrNothing ==
  \A s \in Own :
    /\ cache[PathOf[s]] = NoSpec \/ InMemory(s)
    /\ \A t \in Threads :
         at[t] \notin {"out", "read"} /\ Path(t) = PathOf[s] => wants[t] = s

ReadFound == \A t \in Threads : at[t] = "read" /\ ~closed => cache[Path(t)] # NoSpec

(* The zone that is loaded first is the engine's: none of its models is     *)
(* missing when the next zone begins.                                       *)
FirstZoneFirst ==
  phase = "loading" =>
    /\ zonesLeft \in Seq(STRING) /\ Len(zonesLeft) <= Len(Zones)
    /\ Len(zonesLeft) = Len(Zones) =>
         zonesLeft = Zones /\ at[main] = "out" /\ todo[main] = <<>>
    /\ Len(zonesLeft) = Len(Zones) - 1 =>
         /\ ToSet(todo[main]) \subseteq Own
         /\ at[main] # "out" => wants[main] \in Own
         /\ \A s \in Own : InMemory(s) \/ s \in ToSet(todo[main])
                           \/ (at[main] # "out" /\ wants[main] = s)
    /\ Len(zonesLeft) < Len(Zones) - 1 => \A s \in Own : InMemory(s)

LoadedBeforeServing ==
  phase = "serving" /\ ~closed /\ Zones # <<>> => \A s \in Own : InMemory(s)

ForConfiguration ==
  config \in Configs => AsksOwn /\ OwnOrNothing /\ FirstZoneFirst /\ LoadedBeforeServing

ServingInv == RegistryInv /\ ServingTypes /\ OneAtATime /\ ReadFound /\ ForConfiguration

----------------------------------------------------------------------------
(* Of each path the first *)

(* The least number of a set of them. *)
Below == {p \in Nat \X Nat : p[1] < p[2]}

LEMMA BelowWellFounded == IsWellFoundedOn(Below, Nat)
<1>1. Below = OpToRel(<, Nat)
  BY DEF Below, OpToRel
<1>2. QED
  BY <1>1, NatLessThanWellFounded, Zenon

LEMMA LeastElement ==
  ASSUME NEW T \in SUBSET Nat, T # {}
  PROVE  \E m \in T : \A n \in T : m <= n
<1>1. PICK m \in T : \A n \in T : <<n, m>> \notin Below
  BY BelowWellFounded, WFMin, Zenon
<1>2. ASSUME NEW n \in T
      PROVE  m <= n
  <2>1. m \in Nat /\ n \in Nat /\ <<n, m>> \in Nat \X Nat
    OBVIOUS
  <2>2. ~(n < m)
    BY <1>1, <2>1 DEF Below
  <2>3. QED
    BY <2>1, <2>2
<1>3. QED
  BY <1>2

(* A set of indices has an n-th one. *)
LEMMA NthExists ==
  ASSUME NEW L \in Nat, NEW S \in SUBSET (1..L), NEW n \in 1..Cardinality(S)
  PROVE  \E i \in S : Cardinality({j \in S : j < i}) = n - 1
<1> DEFINE under(k) == {j \in S : j < k}
           T == {k \in 1..(L + 1) : n <= Cardinality(under(k))}
<1>1. /\ under(1) = {} /\ under(L + 1) = S
      /\ \A i \in 1..L : under(i + 1) = under(i) \cup (S \cap {i}) /\ i \notin under(i)
  <2>1. under(1) = {} /\ under(L + 1) = S
    <3>1. \A j \in S : j \in 1..L
      OBVIOUS
    <3>2. \A j \in S : ~(j < 1) /\ j < L + 1
      BY <3>1
    <3>3. QED
      BY <3>2
  <2>2. ASSUME NEW i \in 1..L
        PROVE  under(i + 1) = under(i) \cup (S \cap {i}) /\ i \notin under(i)
    <3>1. \A j \in S : j < i + 1 <=> j < i \/ j = i
      OBVIOUS
    <3>2. i \notin under(i)
      OBVIOUS
    <3>3. under(i + 1) = under(i) \cup (S \cap {i})
      BY <3>1
    <3>4. QED
      BY <3>2, <3>3
  <2>3. QED
    BY <2>1, <2>2
<1>2. IsFiniteSet(S) /\ \A k : IsFiniteSet(under(k)) /\ Cardinality(under(k)) \in Nat
  <2>1. IsFiniteSet(1..L)
    BY FS_Interval
  <2>2. IsFiniteSet(S)
    BY <2>1, FS_Subset
  <2>3. \A k : under(k) \subseteq S
    OBVIOUS
  <2>4. QED
    BY <2>2, <2>3, FS_Subset, FS_CardinalityType
<1> HIDE DEF under
<1>3. n \in Nat /\ n >= 1 /\ n <= Cardinality(S)
  <2>1. Cardinality(S) \in Nat
    BY <1>2, FS_CardinalityType
  <2>2. QED
    BY <2>1
<1>4. T # {} /\ T \in SUBSET Nat
  BY <1>1, <1>3
<1>5. PICK k \in T : \A h \in T : k <= h
  BY <1>4, LeastElement
<1>6. k \in 1..(L + 1) /\ n <= Cardinality(under(k)) /\ k # 1
  <2>1. Cardinality(under(1)) = 0
    BY <1>1, FS_EmptySet
  <2>2. QED
    BY <1>3, <1>5, <2>1
<1>7. PICK i \in 1..L : k = i + 1
  <2>1. k - 1 \in 1..L /\ k = (k - 1) + 1
    BY <1>6
  <2>2. QED
    BY <2>1
<1>8. Cardinality(under(i)) < n
  <2>1. i \notin T /\ i \in 1..(L + 1)
    BY <1>5, <1>7
  <2>2. QED
    BY <1>2, <1>3, <2>1
<1>9. i \in S
  <2>1. ASSUME i \notin S
        PROVE  FALSE
    <3>1. under(k) = under(i)
      BY <1>1, <1>7, <2>1
    <3>2. QED
      BY <1>2, <1>3, <1>6, <1>8, <3>1
  <2>2. QED
    BY <2>1
<1>10. Cardinality(under(k)) = Cardinality(under(i)) + 1
  <2>1. under(k) = under(i) \cup {i} /\ i \notin under(i)
    BY <1>1, <1>7, <1>9
  <2>2. IsFiniteSet(under(i))
    BY <1>2
  <2>3. QED
    BY <2>1, <2>2, FS_AddElement
<1>11. Cardinality(under(i)) = n - 1
  BY <1>2, <1>3, <1>6, <1>8, <1>10
<1>12. QED
  BY <1>9, <1>11 DEF under

(* What a zone has of its models is a sequence of them, one of each path. *)
LEMMA OneOfEachPath ==
  ASSUME NEW S, NEW specs \in Seq(S)
  PROVE  LET kept == FirstOfEachPath(specs) IN
         /\ kept \in Seq(S)
         /\ \A s, r \in ToSet(kept) : s.path = r.path => s = r
<1> DEFINE firsts == {i \in DOMAIN specs : \A j \in 1..(i - 1) : specs[j].path # specs[i].path}
           Nth(n) == CHOOSE i \in firsts : Cardinality({j \in firsts : j < i}) = n - 1
           kept == [n \in 1..Cardinality(firsts) |-> specs[Nth(n)]]
<1>1. DOMAIN specs = 1..Len(specs) /\ Len(specs) \in Nat
  BY LenProperties
<1>2. firsts \in SUBSET (1..Len(specs)) /\ \A i \in firsts : specs[i] \in S
  BY <1>1, ElementOfSeq
<1>3. \A s, r \in firsts : specs[s].path = specs[r].path => s = r
  <2>1. SUFFICES ASSUME NEW s \in firsts, NEW r \in firsts, s < r
                 PROVE  specs[s].path # specs[r].path
    BY <1>2
  <2>2. s \in 1..(r - 1)
    BY <1>2, <2>1
  <2>3. QED
    BY <2>2
<1> HIDE DEF firsts
<1>4. Cardinality(firsts) \in Nat
  <2>1. IsFiniteSet(1..Len(specs))
    BY <1>1, FS_Interval
  <2>2. IsFiniteSet(firsts)
    BY <1>2, <2>1, FS_Subset
  <2>3. QED
    BY <2>2, FS_CardinalityType
<1>5. \A n \in 1..Cardinality(firsts) : Nth(n) \in firsts
  <2>1. SUFFICES ASSUME NEW n \in 1..Cardinality(firsts)
                 PROVE  Nth(n) \in firsts
    OBVIOUS
  <2>2. \E i \in firsts : Cardinality({j \in firsts : j < i}) = n - 1
    BY <1>1, <1>2, NthExists
  <2>3. QED
    BY <2>2
<1> HIDE DEF Nth
<1>6. kept \in Seq(S) /\ DOMAIN kept = 1..Cardinality(firsts)
  <2>1. kept \in [1..Cardinality(firsts) -> S]
    BY <1>2, <1>5
  <2>2. QED
    BY <1>4, <2>1, SeqDef
<1>7. \A s, r \in ToSet(kept) : s.path = r.path => s = r
  <2>1. SUFFICES ASSUME NEW n \in 1..Cardinality(firsts), NEW m \in 1..Cardinality(firsts),
                        kept[n].path = kept[m].path
                 PROVE  kept[n] = kept[m]
    BY <1>6 DEF ToSet
  <2>2. specs[Nth(n)].path = specs[Nth(m)].path
    BY <2>1
  <2>3. Nth(n) = Nth(m)
    BY <1>3, <1>5, <2>2
  <2>4. QED
    BY <2>3
<1>8. FirstOfEachPath(specs) = kept
  BY DEF FirstOfEachPath, firsts, Nth
<1>9. QED
  BY <1>6, <1>7, <1>8

(* The models of a zone, once the constructor has accepted it. *)
LEMMA ZoneShape ==
  ASSUME config \in Configs, Builds(config), NEW zone \in DOMAIN config.zones
  PROVE  /\ Resolve(config, Camera, zone) \in Seq(Specs)
         /\ \A s, r \in ToSet(Resolve(config, Camera, zone)) : s.path = r.path => s = r
<1> DEFINE names == config.zones[zone]
           specs == [i \in DOMAIN names |-> BuildSpecs(config.models)[names[i]]]
<1>1. /\ names \in Seq(Seq(STRING)) /\ ToSet(names) \subseteq ModelNames(config.models)
      /\ \A name \in ModelNames(config.models) : BuildSpecs(config.models)[name] \in Specs
  BY ServingConfigOK DEF Builds
<1>2. DOMAIN names = 1..Len(names) /\ Len(names) \in Nat
  BY <1>1, LenProperties
<1>3. \A i \in 1..Len(names) : BuildSpecs(config.models)[names[i]] \in Specs
  BY <1>1, <1>2 DEF ToSet
<1>4. specs \in [1..Len(names) -> Specs]
  BY <1>2, <1>3
<1>5. specs \in Seq(Specs)
  BY <1>2, <1>4, SeqDef
<1>6. Resolve(config, Camera, zone) = FirstOfEachPath(specs)
  BY DEF Resolve, ZoneModels
<1> HIDE DEF specs, names
<1>7. QED
  BY <1>5, <1>6, OneOfEachPath

LEMMA OwnShape ==
  ASSUME config \in Configs
  PROVE  /\ Own \subseteq Specs /\ NoSpec \notin Own
         /\ \A s, r \in Own : PathOf[s] = PathOf[r] => s = r
<1>1. CASE Builds(config) /\ Camera \in DOMAIN config.cameras /\ Resolves(config, Camera, EngineZone)
  <2>1. EngineZone \in DOMAIN config.zones /\ Own = ToSet(Resolve(config, Camera, EngineZone))
    BY <1>1 DEF Own, Resolves
  <2>2. PICK specs \in Seq(Specs) :
          /\ specs = Resolve(config, Camera, EngineZone)
          /\ \A s, r \in ToSet(specs) : s.path = r.path => s = r
    BY <1>1, <2>1, ZoneShape
  <2>3. ToSet(specs) \subseteq Specs
    BY LenProperties, ElementOfSeq DEF ToSet
  <2>4. QED
    BY <2>1, <2>2, <2>3, ServingConfigOK, RegistryConfigOK
<1>2. CASE ~(Builds(config) /\ Camera \in DOMAIN config.cameras /\ Resolves(config, Camera, EngineZone))
  BY <1>2 DEF Own
<1>3. QED
  BY <1>1, <1>2

(* What is left to be got. *)
LEMMA HeadOfTodo ==
  ASSUME NEW S, NEW q \in Seq(S), q # <<>>
  PROVE  /\ Head(q) \in S /\ Tail(q) \in Seq(S)
         /\ ToSet(q) = {Head(q)} \cup ToSet(Tail(q))
<1>1. /\ Head(q) \in S /\ Tail(q) \in Seq(S) /\ Len(Tail(q)) = Len(q) - 1 /\ Len(q) \in Nat
      /\ \A i \in 1..(Len(q) - 1) : Tail(q)[i] = q[i + 1]
      /\ Head(q) = q[1] /\ Len(q) # 0
  BY HeadTailProperties, LenProperties, EmptySeq
<1>2. DOMAIN q = 1..Len(q) /\ DOMAIN Tail(q) = 1..(Len(q) - 1)
  BY <1>1, LenProperties
<1>3. \A i \in 1..Len(q) : i = 1 \/ (i - 1 \in 1..(Len(q) - 1) /\ i = (i - 1) + 1)
  OBVIOUS
<1>4. ToSet(q) \subseteq {Head(q)} \cup ToSet(Tail(q))
  <2>1. SUFFICES ASSUME NEW i \in 1..Len(q), i # 1
                 PROVE  q[i] \in ToSet(Tail(q))
    BY <1>1, <1>2 DEF ToSet
  <2>2. PICK j \in 1..(Len(q) - 1) : i = j + 1
    BY <1>3, <2>1
  <2>3. q[i] = Tail(q)[j]
    BY <1>1, <2>2
  <2>4. QED
    BY <1>2, <2>3 DEF ToSet
<1>5. {Head(q)} \cup ToSet(Tail(q)) \subseteq ToSet(q)
  <2>1. 1 \in 1..Len(q) /\ \A i \in 1..(Len(q) - 1) : i + 1 \in 1..Len(q)
    BY <1>1
  <2>2. QED
    BY <1>1, <1>2, <2>1 DEF ToSet
<1>6. QED
  BY <1>1, <1>4, <1>5

LEMMA NothingLeft ==
  ASSUME NEW S, NEW q \in Seq(S)
  PROVE  q = <<>> <=> ToSet(q) = {}
<1>1. DOMAIN q = 1..Len(q) /\ Len(q) \in Nat /\ (q = <<>> <=> Len(q) = 0)
  BY LenProperties, EmptySeq
<1>2. CASE Len(q) = 0
  BY <1>1, <1>2 DEF ToSet
<1>3. CASE Len(q) # 0
  <2>1. 1 \in DOMAIN q
    BY <1>1, <1>3
  <2>2. QED
    BY <1>1, <1>3, <2>1 DEF ToSet
<1>4. QED
  BY <1>2, <1>3

----------------------------------------------------------------------------
(* The steps in the registry *)

(* A step of get(): what it may do to the cache and to the thread.         *)
LEMMA GetMoves ==
  ASSUME RegistryInv, NEW t \in Threads, InGet(t)
  PROVE  /\ at[t] # "out" /\ UNCHANGED <<wants, closed>>
         /\ \A u \in Threads \ {t} : at'[u] = at[u] /\ got'[u] = got[u]
         /\ at'[t] # "read"
         /\ \/ cache' = cache
            \/ at[t] = "warm" /\ cache' = [cache EXCEPT ![Path(t)] = wants[t]]
         /\ at[t] = "read" => at'[t] = "out"
         /\ at'[t] = "out" =>
              \/ LoadFails(t) /\ got'[t] = NoSpec
              \/ got'[t] = cache'[Path(t)] /\ (at[t] # "read" => cache'[Path(t)] # NoSpec)
         /\ at'[t] # "out" => got'[t] = got[t]
<1>1. /\ at \in [Threads -> Places] /\ got \in [Threads -> Specs \cup {NoSpec}]
      /\ cache \in [Paths -> Specs \cup {NoSpec}]
  BY DEF RegistryInv, TypeOK
<1>2. CASE ReadCache(t)
  BY <1>1, <1>2 DEF ReadCache, Return, Goto
<1>3. CASE TakeMeta(t)
  BY <1>1, <1>3 DEF TakeMeta
<1>4. CASE CreateLock(t)
  <2>1. at[t] = "meta"
    BY <1>4 DEF CreateLock, RegistryInv, Asked
  <2>2. QED
    BY <1>1, <1>4, <2>1 DEF CreateLock, Goto
<1>5. CASE Acquire(t)
  BY <1>1, <1>5 DEF Acquire, Goto
<1>6. CASE Recheck(t)
  <2>1. CASE cache[Path(t)] # NoSpec
    BY <1>1, <1>6, <2>1 DEF Recheck, Return, Goto
  <2>2. CASE cache[Path(t)] = NoSpec
    BY <1>1, <1>6, <2>2 DEF Recheck, Return, Goto
  <2>3. QED
    BY <2>1, <2>2
<1>7. CASE Load(t)
  BY <1>1, <1>7 DEF Load, Goto
<1>8. CASE Register(t)
  <2>1. at[t] = "warm" /\ wants[t] # NoSpec /\ Path(t) \in Paths
    BY <1>8, PathInGet DEF Register, RegistryInv
  <2>2. cache'[Path(t)] = wants[t]
    BY <1>1, <1>8, <2>1 DEF Register
  <2>3. QED
    BY <1>1, <1>8, <2>1, <2>2 DEF Register, Return, Goto
<1>9. CASE LoadFails(t)
  BY <1>1, <1>9 DEF LoadFails, Return, Goto
<1>10. QED
  BY <1>2, <1>3, <1>4, <1>5, <1>6, <1>7, <1>8, <1>9 DEF InGet, Proceed

(* A step of get() that goes on is not one that fails. *)
LEMMA FailingIsNoProgress ==
  ASSUME RegistryInv, NEW t \in Threads, Proceed(t)
  PROVE  ~LoadFails(t)
<1>1. SUFFICES ASSUME LoadFails(t)
               PROVE  FALSE
  OBVIOUS
<1>2. at[t] = "load" /\ at' = [at EXCEPT ![t] = "out"] /\ at \in [Threads -> Places]
  BY <1>1 DEF LoadFails, Return, Goto, RegistryInv, TypeOK
<1>3. CASE Load(t)
  BY <1>2, <1>3 DEF Load, Goto
<1>4. CASE CreateLock(t)
  BY <1>2, <1>4 DEF CreateLock, RegistryInv, Asked
<1>5. QED
  BY <1>2, <1>3, <1>4 DEF Proceed, ReadCache, TakeMeta, Acquire, Recheck, Register

(* What the lock-free test has found stays until the registry is closed.    *)
LEMMA ReadFoundKeeps ==
  ASSUME RegistryInv, ReadFound, [Next]_vars
  PROVE  ReadFound'
<1>1. CASE UNCHANGED vars
  BY <1>1 DEF ReadFound, vars, Path
<1>2. CASE Close
  BY <1>2 DEF ReadFound, Close
<1>3. ASSUME NEW t \in Threads, NEW s \in Specs, Ask(t, s)
      PROVE  ReadFound'
  <2>1. \A u \in Threads \ {t} : at'[u] = at[u] /\ wants'[u] = wants[u]
    BY <1>3 DEF Ask, Goto, RegistryInv, TypeOK
  <2>2. wants'[t] = s /\ (at'[t] = "read" => cache[PathOf[s]] # NoSpec)
    BY <1>3 DEF Ask, Goto, RegistryInv, TypeOK
  <2>3. cache' = cache /\ closed' = closed
    BY <1>3 DEF Ask
  <2>4. QED
    BY <2>1, <2>2, <2>3 DEF ReadFound, Path
<1>4. ASSUME NEW t \in Threads, InGet(t)
      PROVE  ReadFound'
  <2>1. SUFFICES ASSUME NEW u \in Threads, at'[u] = "read", ~closed'
                 PROVE  cache'[PathOf[wants'[u]]] # NoSpec
    BY DEF ReadFound, Path
  <2>2. /\ UNCHANGED <<wants, closed>> /\ at[u] = "read" /\ at[t] # "out"
        /\ \/ cache' = cache
           \/ cache' = [cache EXCEPT ![Path(t)] = wants[t]]
    BY <1>4, <2>1, GetMoves
  <2>3. cache[Path(u)] # NoSpec /\ wants[t] # NoSpec /\ Path(t) \in Paths /\ Path(u) \in Paths
    BY <2>1, <2>2, PathInGet DEF ReadFound, RegistryInv
  <2>4. cache'[Path(u)] # NoSpec
    BY <2>2, <2>3 DEF RegistryInv, TypeOK
  <2>5. QED
    BY <2>2, <2>4 DEF Path
<1>5. QED
  BY <1>1, <1>2, <1>3, <1>4 DEF Next

----------------------------------------------------------------------------
(* The steps of the application *)

(* The configuration stays, and every step is one of the registry.          *)
LEMMA StepOfRegistry ==
  ASSUME ServingInv, [ServingNext]_<<vars, serving>>
  PROVE  [Next]_vars /\ config' = config
<1>1. CASE UNCHANGED <<vars, serving>>
  BY <1>1 DEF serving
<1>2. CASE Construct \/ NextZone \/ StartWorkers \/ CloseRegistry
  BY <1>2 DEF Construct, NextZone, StartWorkers, CloseRegistry, serving, Next
<1>3. ASSUME NEW t \in Threads, NextModel(t)
      PROVE  [Next]_vars /\ config' = config
  <2>1. Head(todo[t]) \in Specs
    BY <1>3, HeadOfTodo DEF NextModel, ServingInv, ServingTypes
  <2>2. QED
    BY <1>3, <2>1 DEF NextModel, Next
<1>4. ASSUME NEW t \in Threads, Get(t)
      PROVE  [Next]_vars /\ config' = config
  BY <1>4 DEF Get, Next, InGet, serving
<1>5. ASSUME NEW t \in Workers, Frame(t) \/ AskAnything(t)
      PROVE  [Next]_vars /\ config' = config
  <2>1. t \in Threads
    BY DEF Workers
  <2>2. QED
    BY <1>5, <2>1 DEF Frame, AskAnything, Next, serving
<1>6. QED
  BY <1>1, <1>2, <1>3, <1>4, <1>5 DEF ServingNext

LEMMA SameConfiguration ==
  ASSUME config' = config
  PROVE  Own' = Own /\ Zones' = Zones /\ EngineZone' = EngineZone
<1>1. Zones' = Zones
  BY DEF Zones
<1>2. EngineZone' = EngineZone
  BY <1>1 DEF EngineZone
<1>3. QED
  BY <1>1, <1>2 DEF Own

(* Who is where in which phase. *)
LEMMA WhoIsActive ==
  ASSUME ServingInv, config \in Configs, NEW t \in Threads, at[t] # "out" \/ todo[t] # <<>>
  PROVE  phase = IF t = main THEN "loading" ELSE "serving"
<1>1. phase \in {"new", "loading", "serving", "failed"}
  BY ServingConfigOK DEF ServingInv, ServingTypes
<1>2. CASE t = main
  BY <1>2 DEF ServingInv, OneAtATime
<1>3. CASE t # main
  BY <1>1, <1>3 DEF ServingInv, OneAtATime, Workers
<1>4. QED
  BY <1>2, <1>3

(* The constructor of the resolver. *)
LEMMA ConstructKeeps ==
  ASSUME ServingInv, config' = config, Construct
  PROVE  ServingTypes' /\ OneAtATime' /\ ForConfiguration'
<1>1. phase = "new" /\ UNCHANGED vars /\ todo' = todo
  BY DEF Construct
<1>2. UNCHANGED <<cache, at, wants, got, closed>>
  BY <1>1 DEF vars
<1>3. config \in Configs
  BY <1>1 DEF ServingInv, ServingTypes
<1>4. \/ phase' = "loading" /\ zonesLeft' = Zones /\ Builds(config) /\ Camera \in DOMAIN config.cameras
      \/ phase' = "failed"
  BY DEF Construct
<1>5. ServingTypes'
  BY <1>1, <1>2, <1>3, <1>4, ServingConfigOK DEF ServingInv, ServingTypes
<1>6. OneAtATime'
  BY <1>1, <1>2, <1>4 DEF ServingInv, OneAtATime
<1>7. AsksOwn' /\ OwnOrNothing'
  BY <1>1, <1>2, <1>3, SameConfiguration
     DEF ServingInv, ForConfiguration, AsksOwn, OwnOrNothing, InMemory, Path
<1>8. FirstZoneFirst' /\ LoadedBeforeServing'
  <2>1. phase' = "loading" => Zones \in Seq(STRING) /\ Len(Zones) \in Nat
    BY <1>3, <1>4, ServingConfigOK, LenProperties DEF Zones, ZonesForCamera
  <2>2. at[main] = "out" /\ todo[main] = <<>>
    BY <1>1 DEF ServingInv, OneAtATime
  <2>3. Zones' = Zones
    BY SameConfiguration
  <2>4. phase' # "serving"
    BY <1>4
  <2>5. CASE phase' = "loading"
    <3>1. zonesLeft' = Zones'
      BY <1>4, <2>3, <2>5
    <3>2. Len(zonesLeft') # Len(Zones') - 1 /\ ~(Len(zonesLeft') < Len(Zones') - 1)
      BY <2>1, <2>3, <2>5, <3>1
    <3>3. QED
      BY <1>1, <1>2, <2>1, <2>2, <2>3, <2>5, <3>1, <3>2 DEF FirstZoneFirst, LoadedBeforeServing
  <2>6. CASE phase' # "loading"
    BY <2>4, <2>6 DEF FirstZoneFirst, LoadedBeforeServing
  <2>7. QED
    BY <2>5, <2>6
<1>9. QED
  BY <1>5, <1>6, <1>7, <1>8 DEF ForConfiguration

(* The next zone is asked for, or is unknown. *)
LEMMA NextZoneKeeps ==
  ASSUME ServingInv, config' = config, NextZone
  PROVE  ServingTypes' /\ OneAtATime' /\ ForConfiguration'
<1>1. /\ phase = "loading" /\ at[main] = "out" /\ todo[main] = <<>> /\ zonesLeft # <<>>
      /\ UNCHANGED vars
  BY DEF NextZone
<1>2. UNCHANGED <<cache, at, wants, got, closed>>
  BY <1>1 DEF vars
<1>3. /\ config \in Configs /\ Builds(config) /\ Camera \in DOMAIN config.cameras
      /\ main \in Threads /\ todo \in [Threads -> Seq(Specs)]
  BY <1>1, ServingConfigOK DEF ServingInv, ServingTypes
<1>4. PICK first \in STRING : first = Head(zonesLeft)
  BY <1>1, <1>3, HeadTailProperties, EmptySeq
     DEF ServingInv, ForConfiguration, FirstZoneFirst
<1>5. CASE ~Resolves(config, Camera, first)
  <2>1. phase' = "failed" /\ UNCHANGED <<zonesLeft, todo>>
    BY <1>4, <1>5 DEF NextZone
  <2>2. ServingTypes'
    BY <1>1, <1>2, <1>3, <2>1, ServingConfigOK DEF ServingInv, ServingTypes
  <2>3. OneAtATime'
    BY <1>1, <1>2, <2>1 DEF ServingInv, OneAtATime
  <2>4. AsksOwn' /\ OwnOrNothing'
    BY <1>2, <1>3, <2>1, SameConfiguration
       DEF ServingInv, ForConfiguration, AsksOwn, OwnOrNothing, InMemory, Path
  <2>5. FirstZoneFirst' /\ LoadedBeforeServing'
    BY <2>1 DEF FirstZoneFirst, LoadedBeforeServing
  <2>6. QED
    BY <2>2, <2>3, <2>4, <2>5 DEF ForConfiguration
<1>6. CASE Resolves(config, Camera, first)
  <2>1. PICK models \in Seq(Specs) : models = Resolve(config, Camera, first)
    BY <1>3, <1>6, ZoneShape DEF Resolves
  <2>2. /\ todo' = [todo EXCEPT ![main] = models] /\ zonesLeft' = Tail(zonesLeft)
        /\ phase' = phase
    BY <1>4, <1>6, <2>1 DEF NextZone
  <2>3. todo'[main] = models /\ \A t \in Workers : todo'[t] = todo[t]
    BY <1>3, <2>2 DEF Workers
  <2>4. ServingTypes'
    BY <1>1, <1>2, <1>3, <2>1, <2>2, ServingConfigOK DEF ServingInv, ServingTypes
  <2>5. OneAtATime'
    BY <1>1, <1>2, <2>2, <2>3 DEF ServingInv, OneAtATime
  <2>6. AsksOwn' /\ OwnOrNothing'
    BY <1>2, <1>3, <2>3, SameConfiguration
       DEF ServingInv, ForConfiguration, AsksOwn, OwnOrNothing, InMemory, Path
  <2>7. PICK left \in Nat \ {0} : left = Len(zonesLeft)
    BY <1>1, <1>3, LenProperties, EmptySeq DEF ServingInv, ForConfiguration, FirstZoneFirst
  <2>8. zonesLeft' \in Seq(STRING) /\ Len(zonesLeft') = left - 1
    BY <1>1, <1>3, <2>2, <2>7, HeadTailProperties DEF ServingInv, ForConfiguration, FirstZoneFirst
  <2>9. PICK all \in Nat : all = Len(Zones) /\ left <= all
    BY <1>1, <1>3, <2>7, ServingConfigOK, LenProperties
       DEF Zones, ZonesForCamera, ServingInv, ForConfiguration, FirstZoneFirst
  <2>10. ASSUME left = all
         PROVE  ToSet(models) = Own
    <3>1. zonesLeft = Zones
      BY <1>1, <1>3, <2>7, <2>9, <2>10 DEF ServingInv, ForConfiguration, FirstZoneFirst
    <3>2. first = EngineZone
      BY <1>1, <1>4, <3>1 DEF EngineZone
    <3>3. QED
      BY <1>3, <1>6, <2>1, <3>2 DEF Own
  <2>11. ASSUME left <= all - 1
         PROVE  \A s \in Own : InMemory(s)
    <3>1. CASE left = all - 1
      <4>1. ToSet(todo[main]) = {}
        BY <1>1, <1>3, NothingLeft
      <4>2. QED
        BY <1>1, <1>3, <2>7, <2>9, <3>1, <4>1 DEF ServingInv, ForConfiguration, FirstZoneFirst
    <3>2. CASE left < all - 1
      BY <1>1, <1>3, <2>7, <2>9, <3>2 DEF ServingInv, ForConfiguration, FirstZoneFirst
    <3>3. QED
      BY <2>7, <2>9, <2>11, <3>1, <3>2
  <2>12. Zones' = Zones /\ Own' = Own /\ \A s : InMemory(s)' <=> InMemory(s)
    BY <1>2, SameConfiguration DEF InMemory
  <2>13. /\ Len(zonesLeft') <= Len(Zones') /\ Len(zonesLeft') # Len(Zones')
         /\ Len(zonesLeft') = Len(Zones') - 1 <=> left = all
         /\ Len(zonesLeft') < Len(Zones') - 1 <=> left <= all - 1
    BY <2>7, <2>8, <2>9, <2>12
  <2>14. FirstZoneFirst'
    <3>1. CASE left = all
      BY <1>1, <1>2, <2>3, <2>7, <2>8, <2>9, <2>10, <2>12, <2>13, <3>1 DEF FirstZoneFirst
    <3>2. CASE left # all
      <4>1. left <= all - 1
        BY <2>7, <2>9, <3>2
      <4>2. \A s \in Own' : InMemory(s)'
        BY <2>11, <2>12, <4>1
      <4>3. QED
        BY <2>8, <2>13, <3>2, <4>2 DEF FirstZoneFirst
    <3>3. QED
      BY <3>1, <3>2
  <2>15. LoadedBeforeServing'
    BY <1>1, <2>2 DEF LoadedBeforeServing
  <2>16. QED
    BY <2>4, <2>5, <2>6, <2>14, <2>15 DEF ForConfiguration
<1>7. QED
  BY <1>5, <1>6

(* All zones are through: the engine's models are in memory. *)
LEMMA StartWorkersKeeps ==
  ASSUME ServingInv, config' = config, StartWorkers
  PROVE  ServingTypes' /\ OneAtATime' /\ ForConfiguration'
<1>1. /\ phase = "loading" /\ at[main] = "out" /\ todo[main] = <<>> /\ zonesLeft = <<>>
      /\ phase' = "serving" /\ UNCHANGED <<zonesLeft, todo, vars>>
  BY DEF StartWorkers
<1>2. UNCHANGED <<cache, at, wants, got, closed>>
  BY <1>1 DEF vars
<1>3. config \in Configs /\ main \in Threads /\ todo \in [Threads -> Seq(Specs)]
  BY <1>1, ServingConfigOK DEF ServingInv, ServingTypes
<1>4. ServingTypes'
  BY <1>1, <1>2, <1>3, ServingConfigOK DEF ServingInv, ServingTypes
<1>5. OneAtATime'
  BY <1>1, <1>2 DEF OneAtATime
<1>6. AsksOwn' /\ OwnOrNothing'
  BY <1>1, <1>2, <1>3, SameConfiguration
     DEF ServingInv, ForConfiguration, AsksOwn, OwnOrNothing, InMemory, Path
<1>7. FirstZoneFirst'
  BY <1>1 DEF FirstZoneFirst
<1>8. ASSUME Zones # <<>>
      PROVE  \A s \in Own : InMemory(s)
  <2>1. PICK all \in Nat \ {0} : all = Len(Zones)
    BY <1>1, <1>3, <1>8, ServingConfigOK, LenProperties, EmptySeq
       DEF Zones, ZonesForCamera, ServingInv, ServingTypes
  <2>2. Len(zonesLeft) = 0 /\ ToSet(todo[main]) = {}
    BY <1>1, <1>3, NothingLeft, EmptySeq
  <2>3. CASE all = 1
    BY <1>1, <1>3, <2>1, <2>2, <2>3 DEF ServingInv, ForConfiguration, FirstZoneFirst
  <2>4. CASE all # 1
    BY <1>1, <1>3, <2>1, <2>2, <2>4 DEF ServingInv, ForConfiguration, FirstZoneFirst
  <2>5. QED
    BY <2>3, <2>4
<1>9. LoadedBeforeServing'
  BY <1>2, <1>8, SameConfiguration DEF LoadedBeforeServing, InMemory
<1>10. QED
  BY <1>4, <1>5, <1>6, <1>7, <1>9 DEF ForConfiguration

(* The registry is closed while the workers may still be at it. *)
LEMMA CloseRegistryKeeps ==
  ASSUME ServingInv, config' = config, CloseRegistry
  PROVE  ServingTypes' /\ OneAtATime' /\ ForConfiguration'
<1>1. /\ phase' = phase /\ zonesLeft' = zonesLeft /\ todo' = todo
      /\ UNCHANGED <<at, wants, got>> /\ closed' /\ phase \in {"serving", "registry"}
      /\ cache' = [p \in Paths |-> NoSpec]
  BY DEF CloseRegistry, Close, serving, ServingInv, ServingTypes
<1>2. ServingTypes'
  BY <1>1 DEF ServingInv, ServingTypes
<1>3. OneAtATime'
  BY <1>1 DEF ServingInv, OneAtATime
<1>4. ASSUME config \in Configs
      PROVE  AsksOwn' /\ OwnOrNothing' /\ FirstZoneFirst' /\ LoadedBeforeServing'
  <2>1. Own' = Own /\ \A s \in Own : PathOf[s] \in Paths
    BY <1>4, SameConfiguration, OwnShape, PathOfSpec
  <2>2. AsksOwn' /\ OwnOrNothing'
    BY <1>1, <1>4, <2>1 DEF ServingInv, ForConfiguration, AsksOwn, OwnOrNothing, Path
  <2>3. FirstZoneFirst' /\ LoadedBeforeServing'
    BY <1>1 DEF FirstZoneFirst, LoadedBeforeServing
  <2>4. QED
    BY <2>2, <2>3
<1>5. QED
  BY <1>2, <1>3, <1>4 DEF ForConfiguration

(* A frame comes in: the engine resolves its own zone. *)
LEMMA FrameKeeps ==
  ASSUME ServingInv, config' = config, NEW t \in Workers, Frame(t)
  PROVE  ServingTypes' /\ OneAtATime' /\ ForConfiguration'
<1>1. /\ phase = "serving" /\ phase' = phase /\ zonesLeft' = zonesLeft /\ UNCHANGED vars
      /\ Resolves(config, Camera, EngineZone) /\ t \in Threads /\ t # main
  BY DEF Frame, Workers
<1>2. UNCHANGED <<cache, at, wants, got, closed>>
  BY <1>1 DEF vars
<1>3. /\ config \in Configs /\ Builds(config) /\ Camera \in DOMAIN config.cameras
      /\ todo \in [Threads -> Seq(Specs)] /\ main \in Threads
  BY <1>1, ServingConfigOK DEF ServingInv, ServingTypes
<1>4. PICK models \in Seq(Specs) : models = Resolve(config, Camera, EngineZone)
  BY <1>1, <1>3, ZoneShape DEF Resolves
<1>5. Own = ToSet(models)
  BY <1>1, <1>3, <1>4 DEF Own
<1>6. todo' = [todo EXCEPT ![t] = models]
  BY <1>4 DEF Frame
<1>7. todo'[t] = models /\ \A u \in Threads \ {t} : todo'[u] = todo[u]
  BY <1>1, <1>3, <1>6
<1>8. ServingTypes'
  BY <1>1, <1>2, <1>3, <1>4, <1>6, ServingConfigOK DEF ServingInv, ServingTypes
<1>9. OneAtATime'
  BY <1>1, <1>2, <1>3, <1>7 DEF ServingInv, OneAtATime
<1>10. AsksOwn' /\ OwnOrNothing'
  BY <1>2, <1>3, <1>5, <1>7, SameConfiguration
     DEF ServingInv, ForConfiguration, AsksOwn, OwnOrNothing, InMemory, Path, Workers
<1>11. FirstZoneFirst'
  BY <1>1 DEF FirstZoneFirst
<1>12. LoadedBeforeServing'
  BY <1>1, <1>2, <1>3, SameConfiguration
     DEF ServingInv, ForConfiguration, LoadedBeforeServing, InMemory
<1>13. QED
  BY <1>8, <1>9, <1>10, <1>11, <1>12 DEF ForConfiguration

(* The next model is asked for: another thread of the same path asks for    *)
(* the same specification of it.                                            *)
LEMMA NextModelKeeps ==
  ASSUME ServingInv, config' = config, NEW t \in Threads, NextModel(t)
  PROVE  ServingTypes' /\ OneAtATime' /\ ForConfiguration'
<1>1. /\ todo[t] # <<>> /\ at[t] = "out" /\ todo \in [Threads -> Seq(Specs)]
      /\ todo' = [todo EXCEPT ![t] = Tail(@)]
      /\ phase' = phase /\ zonesLeft' = zonesLeft /\ UNCHANGED <<cache, got, closed>>
  BY DEF NextModel, Ask, ServingInv, ServingTypes
<1>2. PICK s \in Specs : s = Head(todo[t])
  BY <1>1, HeadOfTodo
<1>3. Tail(todo[t]) \in Seq(Specs) /\ ToSet(todo[t]) = {s} \cup ToSet(Tail(todo[t]))
  BY <1>1, <1>2, HeadOfTodo
<1>4. /\ \A u \in Threads \ {t} : at'[u] = at[u] /\ wants'[u] = wants[u] /\ todo'[u] = todo[u]
      /\ wants'[t] = s /\ todo'[t] = Tail(todo[t]) /\ at'[t] \in {"read", "meta"}
      /\ at'[t] = "meta" => cache[PathOf[s]] = NoSpec
  BY <1>1, <1>2 DEF NextModel, Ask, Goto, ServingInv, RegistryInv, TypeOK
<1>5. ServingTypes'
  BY <1>1, <1>3 DEF ServingInv, ServingTypes
<1>6. config \in Configs \/ phase = "registry"
  BY DEF ServingInv, ServingTypes
<1>7. phase \in {"loading", "serving", "registry"}
  BY <1>1, <1>6, WhoIsActive
<1>8. main \in Threads /\ (t = main => phase = "loading")
  BY <1>1, <1>7, ServingConfigOK DEF ServingInv, OneAtATime
<1>9. t # main => phase \in {"serving", "registry"}
  BY <1>1, <1>6, WhoIsActive
<1>10. OneAtATime'
  <2>1. phase = "loading" => \A u \in Workers : u # t
    BY <1>9 DEF Workers
  <2>2. QED
    BY <1>1, <1>4, <1>7, <1>8, <2>1 DEF ServingInv, OneAtATime, Workers
<1>11. ASSUME config \in Configs
       PROVE  AsksOwn' /\ OwnOrNothing' /\ FirstZoneFirst' /\ LoadedBeforeServing'
  <2>1. AsksOwn /\ OwnOrNothing /\ FirstZoneFirst /\ LoadedBeforeServing
    BY <1>11 DEF ServingInv, ForConfiguration
  <2>2. phase = IF t = main THEN "loading" ELSE "serving"
    BY <1>1, <1>11, WhoIsActive
  <2>3. Own' = Own /\ Zones' = Zones /\ \A r : InMemory(r)' <=> InMemory(r)
    BY <1>1, SameConfiguration DEF InMemory
  <2>4. /\ \A r \in Own : r \in Specs /\ r # NoSpec
        /\ \A r, q \in Own : PathOf[r] = PathOf[q] => r = q
    BY <1>11, OwnShape
  <2>5. t # main => s \in Own
    BY <1>3, <2>1 DEF AsksOwn, Workers
  <2>6. AsksOwn'
    BY <1>1, <1>3, <1>4, <2>1, <2>3, <2>5 DEF AsksOwn, Workers
  <2>7. ASSUME t = main
        PROVE  s \in Own \/ \A r \in Own : InMemory(r)
    <3>1. PICK left \in Nat : left = Len(zonesLeft)
      BY <2>1, <2>2, <2>7, LenProperties DEF FirstZoneFirst
    <3>2. PICK all \in Nat : all = Len(Zones) /\ left <= all
      BY <1>11, <2>1, <2>2, <2>7, <3>1, ServingConfigOK, LenProperties
         DEF Zones, ZonesForCamera, FirstZoneFirst, ServingInv, ServingTypes
    <3>3. left # all
      BY <1>1, <2>1, <2>2, <2>7, <3>1, <3>2 DEF FirstZoneFirst
    <3>4. CASE left = all - 1
      BY <1>3, <2>1, <2>2, <2>7, <3>1, <3>2, <3>4 DEF FirstZoneFirst
    <3>5. CASE left < all - 1
      BY <2>1, <2>2, <2>7, <3>1, <3>2, <3>5 DEF FirstZoneFirst
    <3>6. QED
      BY <3>1, <3>2, <3>3, <3>4, <3>5
  <2>8. \A r \in Own : at'[t] \notin {"out", "read"} /\ PathOf[s] = PathOf[r] => s = r
    BY <1>4, <2>4, <2>5, <2>7 DEF InMemory
  <2>9. OwnOrNothing'
    <3>1. \A r \in Own : cache'[PathOf[r]] = NoSpec \/ InMemory(r)'
      BY <1>1, <2>1, <2>3 DEF OwnOrNothing
    <3>2. \A r \in Own, u \in Threads :
            at'[u] \notin {"out", "read"} /\ PathOf[wants'[u]] = PathOf[r] => wants'[u] = r
      BY <1>4, <2>1, <2>8 DEF OwnOrNothing, Path
    <3>3. QED
      BY <2>3, <3>1, <3>2 DEF OwnOrNothing, Path
  <2>10. FirstZoneFirst'
    <3>1. CASE t # main
      BY <1>1, <2>2, <3>1 DEF FirstZoneFirst
    <3>2. CASE t = main
      <4>1. phase = "loading" /\ todo'[main] = Tail(todo[main]) /\ wants'[main] = s
            /\ ToSet(todo[main]) = {s} \cup ToSet(todo'[main])
        BY <1>3, <1>4, <2>2, <3>2
      <4>2. Len(zonesLeft) # Len(Zones)
        BY <1>1, <2>1, <3>2, <4>1 DEF FirstZoneFirst
      <4>3. at'[main] # "out" /\ at[main] = "out"
        BY <1>1, <1>4, <3>2
      <4>4. ASSUME Len(zonesLeft) = Len(Zones) - 1
            PROVE  /\ ToSet(todo'[main]) \subseteq Own /\ wants'[main] \in Own
                   /\ \A r \in Own : InMemory(r) \/ r \in ToSet(todo'[main]) \/ wants'[main] = r
        <5>1. /\ ToSet(todo[main]) \subseteq Own
              /\ \A r \in Own : InMemory(r) \/ r \in ToSet(todo[main])
          BY <2>1, <4>1, <4>3, <4>4 DEF FirstZoneFirst
        <5>2. QED
          BY <4>1, <5>1
      <4>5. QED
        BY <1>1, <2>1, <2>3, <4>1, <4>2, <4>3, <4>4 DEF FirstZoneFirst
    <3>3. QED
      BY <3>1, <3>2
  <2>11. LoadedBeforeServing'
    BY <1>1, <2>1, <2>3 DEF LoadedBeforeServing
  <2>12. QED
    BY <2>6, <2>9, <2>10, <2>11
<1>12. QED
  BY <1>5, <1>10, <1>11 DEF ForConfiguration

(* A step of get(): what is cached of the engine's models stays, and what   *)
(* comes is as it was asked for.                                            *)
LEMMA GetCaches ==
  ASSUME ServingInv, config \in Configs, NEW t \in Threads, InGet(t), NEW s \in Own
  PROVE  cache'[PathOf[s]] = cache[PathOf[s]] \/ cache'[PathOf[s]] = s
<1>1. s \in Specs /\ PathOf[s] \in Paths
  BY OwnShape, PathOfSpec
<1>2. CASE cache' = cache
  BY <1>2
<1>3. CASE cache' # cache
  <2>1. at[t] = "warm" /\ cache' = [cache EXCEPT ![Path(t)] = wants[t]]
    BY <1>3, GetMoves DEF ServingInv
  <2>2. Path(t) = PathOf[s] => wants[t] = s
    BY <2>1 DEF ServingInv, ForConfiguration, OwnOrNothing
  <2>3. cache \in [Paths -> Specs \cup {NoSpec}]
    BY DEF ServingInv, RegistryInv, TypeOK
  <2>4. QED
    BY <1>1, <2>1, <2>2, <2>3
<1>4. QED
  BY <1>2, <1>3

LEMMA GetKeeps ==
  ASSUME ServingInv, config' = config, RegistryInv', NEW t \in Threads, Get(t)
  PROVE  ServingTypes' /\ OneAtATime' /\ ForConfiguration'
<1>1. InGet(t) /\ zonesLeft' = zonesLeft /\ main \in Threads
  BY ServingConfigOK DEF Get, InGet, serving
<1>2. /\ at[t] # "out" /\ UNCHANGED <<wants, closed>>
      /\ \A u \in Threads \ {t} : at'[u] = at[u] /\ got'[u] = got[u]
      /\ at[t] = "read" => at'[t] = "out"
      /\ at'[t] = "out" =>
           \/ LoadFails(t) /\ got'[t] = NoSpec
           \/ got'[t] = cache'[Path(t)] /\ (at[t] # "read" => cache'[Path(t)] # NoSpec)
  BY <1>1, GetMoves DEF ServingInv
<1>3. wants[t] \in Specs /\ wants[t] # NoSpec
  BY <1>2, PathInGet DEF ServingInv, RegistryInv
<1>4. config \in Configs => phase = IF t = main THEN "loading" ELSE "serving"
  BY <1>2, WhoIsActive
<1>5. config \in Configs \/ phase = "registry"
  BY DEF ServingInv, ServingTypes
<1>6. phase = "loading" <=> t = main
  BY <1>1, <1>2, <1>4, <1>5 DEF ServingInv, OneAtATime
<1>7. todo \in [Threads -> Seq(Specs)] /\ <<>> \in Seq(Specs)
  BY EmptySeq DEF ServingInv, ServingTypes
<1>8. \/ Proceed(t) /\ phase' = phase /\ todo' = todo
      \/ /\ LoadFails(t) /\ t = main /\ phase' = "failed" /\ at'[main] = "out"
         /\ todo' = [todo EXCEPT ![main] = <<>>]
      \/ LoadFails(t) /\ t # main /\ phase' = phase /\ todo' = todo
  <2>1. LoadFails(t) => at'[t] = "out"
    BY DEF LoadFails, Return, Goto, ServingInv, RegistryInv, TypeOK
  <2>2. QED
    BY <2>1 DEF Get, serving
<1>9. \A u \in Workers : todo'[u] = todo[u]
  BY <1>7, <1>8 DEF Workers
<1>10. \/ phase' = phase
       \/ phase = "loading" /\ phase' = "failed" /\ todo'[main] = <<>> /\ at'[main] = "out"
  BY <1>1, <1>6, <1>7, <1>8
<1>11. ServingTypes'
  <2>1. todo' \in [Threads -> Seq(Specs)]
    BY <1>7, <1>8
  <2>2. closed' => phase \in {"serving", "registry"}
    BY <1>2 DEF ServingInv, ServingTypes
  <2>3. phase = "loading" => config \in Configs /\ config # Unconfigured
    BY ServingConfigOK DEF ServingInv, ServingTypes
  <2>4. CASE phase' = phase
    BY <1>2, <2>1, <2>2, <2>4 DEF ServingInv, ServingTypes
  <2>5. CASE phase = "loading" /\ phase' = "failed"
    BY <1>2, <2>1, <2>2, <2>3, <2>5 DEF ServingInv, ServingTypes
  <2>6. QED
    BY <1>10, <2>4, <2>5
<1>12. OneAtATime'
  <2>1. CASE t = main
    <3>1. \A u \in Workers : at'[u] = at[u] /\ got'[u] = got[u]
      BY <1>2, <2>1 DEF Workers
    <3>2. phase = "loading" /\ phase' \in {"loading", "failed"}
      BY <1>6, <1>10, <2>1
    <3>3. QED
      BY <1>2, <1>9, <1>10, <3>1, <3>2 DEF ServingInv, OneAtATime
  <2>2. CASE t # main
    <3>1. at'[main] = at[main] /\ todo' = todo /\ phase' = phase
      BY <1>1, <1>2, <1>8, <2>2
    <3>2. phase \in {"serving", "registry"}
      BY <1>4, <1>5, <2>2
    <3>3. QED
      BY <3>1, <3>2 DEF ServingInv, OneAtATime
  <2>3. QED
    BY <2>1, <2>2
<1>13. ASSUME config \in Configs
       PROVE  AsksOwn' /\ OwnOrNothing' /\ FirstZoneFirst' /\ LoadedBeforeServing'
  <2>1. AsksOwn /\ OwnOrNothing /\ FirstZoneFirst /\ LoadedBeforeServing
    BY <1>13 DEF ServingInv, ForConfiguration
  <2>2. Own' = Own /\ Zones' = Zones /\ \A u \in Threads : Path(u)' = Path(u)
    BY <1>2, SameConfiguration DEF Path
  <2>3. \A s \in Own : cache'[PathOf[s]] = cache[PathOf[s]] \/ cache'[PathOf[s]] = s
    BY <1>1, <1>13, GetCaches
  <2>4. \A s \in Own : InMemory(s) => InMemory(s)'
    BY <2>3 DEF InMemory
  <2>5. \A s \in Own : cache'[PathOf[s]] = NoSpec \/ cache'[PathOf[s]] = s
    BY <2>1, <2>3 DEF OwnOrNothing, InMemory
  <2>6. OwnOrNothing'
    <3>1. \A s \in Own, u \in Threads :
            at'[u] \notin {"out", "read"} /\ PathOf[wants'[u]] = PathOf[s] => wants'[u] = s
      BY <1>2, <2>1 DEF OwnOrNothing, Path
    <3>2. QED
      BY <2>2, <2>5, <3>1 DEF OwnOrNothing, InMemory, Path
  <2>7. AsksOwn'
    <3>1. \A u \in Workers : ToSet(todo'[u]) \subseteq Own /\ wants'[u] \in Own \cup {NoSpec}
      BY <1>2, <1>9, <2>1 DEF AsksOwn
    <3>2. ASSUME NEW u \in Workers, at'[u] = "out", got'[u] # NoSpec
          PROVE  got'[u] = wants'[u]
      <4>1. CASE u = t
        <5>1. got'[t] = cache'[PathOf[wants[t]]] /\ wants[t] \in Own
          BY <1>2, <1>3, <2>1, <3>2, <4>1 DEF AsksOwn, Path
        <5>2. QED
          BY <1>2, <2>5, <3>2, <4>1, <5>1
      <4>2. CASE u # t
        BY <1>2, <2>1, <3>2, <4>2 DEF AsksOwn, Workers
      <4>3. QED
        BY <4>1, <4>2
    <3>3. QED
      BY <2>2, <3>1, <3>2 DEF AsksOwn
  <2>8. FirstZoneFirst'
    <3>1. SUFFICES ASSUME phase' = "loading"
                   PROVE  FirstZoneFirst'
      BY DEF FirstZoneFirst
    <3>2. phase = "loading" /\ t = main /\ todo' = todo /\ Proceed(t)
      BY <1>6, <1>8, <1>10, <3>1
    <3>3. Len(zonesLeft) # Len(Zones)
      BY <1>2, <2>1, <3>2 DEF FirstZoneFirst
    <3>4. ASSUME Len(zonesLeft) = Len(Zones) - 1
          PROVE  /\ ToSet(todo[main]) \subseteq Own /\ wants[main] \in Own
                 /\ \A s \in Own : InMemory(s)' \/ s \in ToSet(todo[main])
                                   \/ (at'[main] # "out" /\ wants[main] = s)
      <4>1. /\ ToSet(todo[main]) \subseteq Own /\ wants[main] \in Own
            /\ \A s \in Own : InMemory(s) \/ s \in ToSet(todo[main]) \/ wants[main] = s
        BY <1>2, <2>1, <3>2, <3>4 DEF FirstZoneFirst
      <4>2. ASSUME at'[main] = "out"
            PROVE  cache'[PathOf[wants[main]]] = wants[main]
        <5>1. got'[t] = cache'[Path(t)] /\ (at[t] # "read" => cache'[Path(t)] # NoSpec)
          BY <1>2, <3>2, <4>2, FailingIsNoProgress DEF ServingInv
        <5>2. ASSUME at[t] = "read"
              PROVE  cache'[Path(t)] # NoSpec
          <6>1. ~closed
            BY <3>2 DEF ServingInv, ServingTypes
          <6>2. cache[Path(t)] # NoSpec
            BY <5>2, <6>1 DEF ServingInv, ReadFound
          <6>3. cache' = cache
            BY <1>1, <5>2, GetMoves DEF ServingInv
          <6>4. QED
            BY <6>2, <6>3
        <5>3. QED
          BY <2>5, <3>2, <4>1, <5>1, <5>2 DEF Path
      <4>3. QED
        BY <2>4, <4>1, <4>2 DEF InMemory
    <3>5. Len(zonesLeft) < Len(Zones) - 1 => \A s \in Own : InMemory(s)'
      BY <2>1, <2>4, <3>2 DEF FirstZoneFirst
    <3>6. zonesLeft \in Seq(STRING) /\ Len(zonesLeft) <= Len(Zones)
      BY <2>1, <3>2 DEF FirstZoneFirst
    <3>7. QED
      BY <1>1, <1>2, <2>2, <3>2, <3>3, <3>4, <3>5, <3>6 DEF FirstZoneFirst
  <2>9. LoadedBeforeServing'
    <3>1. SUFFICES ASSUME phase' = "serving", ~closed', Zones' # <<>>
                   PROVE  \A s \in Own' : InMemory(s)'
      BY DEF LoadedBeforeServing
    <3>2. phase = "serving" /\ ~closed
      BY <1>2, <1>10, <3>1
    <3>3. QED
      BY <2>1, <2>2, <2>4, <3>1, <3>2 DEF LoadedBeforeServing
  <2>10. QED
    BY <2>6, <2>7, <2>8, <2>9
<1>14. QED
  BY <1>11, <1>12, <1>13 DEF ForConfiguration

(* The application has not begun. *)
LEMMA ServingBegins ==
  ASSUME ServingInit
  PROVE  ServingInv
<1>1. RegistryInv
  BY InitRegistry DEF ServingInit
<1>2. /\ \A t \in Threads : at[t] = "out" /\ todo[t] = <<>> /\ wants[t] = NoSpec /\ got[t] = NoSpec
      /\ ~closed /\ main \in Threads /\ \A p \in Paths : cache[p] = NoSpec
  BY ServingConfigOK DEF ServingInit, Init
<1>3. ServingTypes
  BY <1>2, EmptySeq, ServingConfigOK DEF ServingInit, ServingTypes
<1>4. OneAtATime /\ ReadFound
  BY <1>2 DEF OneAtATime, ReadFound, Workers
<1>5. ASSUME config \in Configs
      PROVE  AsksOwn /\ OwnOrNothing /\ FirstZoneFirst /\ LoadedBeforeServing
  <2>1. phase = "new"
    BY <1>5, ServingConfigOK DEF ServingInit
  <2>2. ToSet(<<>>) = {}
    BY DEF ToSet
  <2>3. AsksOwn
    BY <1>2, <2>2 DEF AsksOwn, Workers
  <2>4. OwnOrNothing
    BY <1>2, <1>5, OwnShape, PathOfSpec DEF OwnOrNothing
  <2>5. QED
    BY <2>1, <2>3, <2>4 DEF FirstZoneFirst, LoadedBeforeServing
<1>6. QED
  BY <1>1, <1>3, <1>4, <1>5 DEF ServingInv, ForConfiguration

LEMMA ServingKeeps ==
  ASSUME ServingInv, [ServingNext]_<<vars, serving>>
  PROVE  ServingInv'
<1>1. [Next]_vars /\ config' = config
  BY StepOfRegistry
<1>2. RegistryInv' /\ ReadFound'
  BY <1>1, RegistryKeeps, ReadFoundKeeps DEF ServingInv
<1>3. CASE UNCHANGED <<vars, serving>>
  <2>1. UNCHANGED <<cache, at, wants, got, closed, phase, zonesLeft, todo>>
    BY <1>3 DEF vars, serving
  <2>2. Own' = Own /\ Zones' = Zones
    BY <1>1, SameConfiguration
  <2>3. ServingTypes' /\ OneAtATime'
    BY <1>1, <2>1 DEF ServingInv, ServingTypes, OneAtATime
  <2>4. ASSUME config \in Configs
        PROVE  AsksOwn' /\ OwnOrNothing' /\ FirstZoneFirst' /\ LoadedBeforeServing'
    BY <2>1, <2>2, <2>4 DEF ServingInv, ForConfiguration, AsksOwn, OwnOrNothing, FirstZoneFirst,
                            LoadedBeforeServing, InMemory, Path
  <2>5. QED
    BY <1>1, <1>2, <2>3, <2>4 DEF ServingInv, ForConfiguration
<1>4. CASE Construct \/ NextZone \/ StartWorkers \/ CloseRegistry
  BY <1>1, <1>2, <1>4, ConstructKeeps, NextZoneKeeps, StartWorkersKeeps, CloseRegistryKeeps DEF ServingInv
<1>5. ASSUME NEW t \in Threads, NextModel(t) \/ Get(t)
      PROVE  ServingInv'
  BY <1>1, <1>2, <1>5, NextModelKeeps, GetKeeps DEF ServingInv
<1>6. ASSUME NEW t \in Workers, Frame(t)
      PROVE  ServingInv'
  BY <1>1, <1>2, <1>6, FrameKeeps DEF ServingInv
<1>7. ASSUME NEW t \in Workers, AskAnything(t)
      PROVE  ServingInv'
  <2>1. /\ config = Unconfigured /\ config \notin Configs /\ t \in Threads /\ t # main
        /\ UNCHANGED <<phase, zonesLeft, todo, closed>>
    BY <1>7, ServingConfigOK DEF AskAnything, Ask, serving, Workers
  <2>2. phase = "registry"
    BY <2>1 DEF ServingInv, ServingTypes
  <2>3. at'[main] = at[main]
    BY <1>7, <2>1 DEF AskAnything, Ask, Goto, ServingInv, RegistryInv, TypeOK
  <2>4. ServingTypes' /\ OneAtATime'
    BY <1>1, <2>1, <2>2, <2>3 DEF ServingInv, ServingTypes, OneAtATime
  <2>5. QED
    BY <1>1, <1>2, <2>1, <2>4 DEF ServingInv, ForConfiguration
<1>8. QED
  BY <1>3, <1>4, <1>5, <1>6, <1>7 DEF ServingNext

(* The promise of the configuration, from what the start has loaded. *)
LEMMA ServingSafe ==
  ASSUME ServingInv
  PROVE  ServedAsConfigured
<1>1. SUFFICES ASSUME config \in Configs, NEW t \in Workers
               PROVE  /\ at[t] = "out" /\ got[t] # NoSpec => got[t] = wants[t]
                      /\ at[t] = "load" => closed \/ Zones = <<>>
  BY DEF ServedAsConfigured
<1>2. AsksOwn /\ LoadedBeforeServing /\ t \in Threads /\ t # main
  BY <1>1 DEF ServingInv, ForConfiguration, Workers
<1>3. ASSUME at[t] = "load", ~closed, Zones # <<>>
      PROVE  FALSE
  <2>1. phase = "serving"
    BY <1>1, <1>2, <1>3, WhoIsActive
  <2>2. wants[t] \in Own /\ wants[t] # NoSpec
    BY <1>1, <1>2, <1>3, PathInGet DEF AsksOwn, ServingInv, RegistryInv
  <2>3. cache[PathOf[wants[t]]] = wants[t]
    BY <1>2, <1>3, <2>1, <2>2 DEF LoadedBeforeServing, InMemory
  <2>4. cache[Path(t)] = NoSpec
    BY <1>2, <1>3 DEF ServingInv, RegistryInv, Unloaded
  <2>5. QED
    BY <2>2, <2>3, <2>4 DEF Path
<1>4. QED
  BY <1>2, <1>3 DEF AsksOwn

(* The registry keeps its promises to the application, whatever the         *)
(* configuration.                                                           *)
THEOREM OneDetectorServed == ServingSpec => []OneDetectorPerPath
<1>1. ServingInit => ServingInv
  BY ServingBegins
<1>2. ServingInv /\ [ServingNext]_<<vars, serving>> => ServingInv'
  BY ServingKeeps
<1>3. ServingInv => OneDetectorPerPath
  BY RegistrySafe DEF ServingInv
<1>4. QED
  BY <1>1, <1>2, <1>3, PTL DEF ServingSpec

(* For every configuration, any number of workers and whichever loads fail: *)
(* the engine works with the specifications its zone configures, though the *)
(* registry tells them apart by their paths alone, and once the workers run *)
(* it never waits for a load, but for a camera without zones or after the   *)
(* registry was closed.                                                     *)
THEOREM ServedAsZoneConfigures == ServingSpec => []ServedAsConfigured
<1>1. ServingInit => ServingInv
  BY ServingBegins
<1>2. ServingInv /\ [ServingNext]_<<vars, serving>> => ServingInv'
  BY ServingKeeps
<1>3. ServingInv => ServedAsConfigured
  BY ServingSafe
<1>4. QED
  BY <1>1, <1>2, <1>3, PTL DEF ServingSpec

=============================================================================
