------------------------ MODULE MediaProfileCacheProofs ------------------------
(***************************************************************************)
(* Theorems about MediaProfileCache, for any finite set of threads, any    *)
(* number of lists and any answers of the camera.                          *)
(***************************************************************************)
EXTENDS MediaProfileCache, FiniteSetTheorems, TLAPS

(* profile_lock is held exactly by the thread inside load_profiles_cache or *)
(* just behind it.                                                          *)
Inside == {"unref", "fetch", "loaded"}

Mutex == \A t \in Threads : pc[t] \in Inside <=> profile_lock = t

(* The cached list is the last one fetched, and only a fault has been       *)
(* replaced or is about to be.                                              *)
Cached ==
    /\ profiles # Null => profiles = loads
    /\ profiles = Null => loads = 0 \/ disposed
    /\ disposed => profiles = Null /\ \A t \in Threads : pc[t] \in {"idle", "use"}
    /\ \A l \in Fetched : l < loads => list[l].fault # "NONE"

Loading ==
    \A t \in Threads :
        /\ pc[t] \in {"unref", "fetch"} => loads < MaxLoads /\ Stale
        /\ pc[t] = "loaded" => profiles # Null

(* What callers hold: a list that was fetched, and, without a race, the one *)
(* they were given; a token of the cached list, which is no fault.          *)
Callers ==
    \A t \in Threads :
        /\ pc[t] \in {"return", "use"} => mine[t] \in Fetched
        /\ ~raced /\ pc[t] = "use" => got[t] = mine[t]
        /\ pc[t] = "request" /\ got[t] # Junk =>
              profiles # Null /\ got[t] = profiles /\ list[profiles].fault = "NONE"

Shape == TypeOK /\ Mutex /\ Cached /\ Loading /\ Callers

IInv == Shape /\ ReferencesExact /\ UseAfterFreeNeedsRace

(* Every step keeps every variable's type; a list is only fetched by a call *)
(* that had room for it.                                                    *)
LEMMA TypeStep == TypeOK /\ Loading /\ [Next]_vars => TypeOK'
<1> SUFFICES ASSUME TypeOK, Loading, [Next]_vars PROVE TypeOK'
  OBVIOUS
<1> USE CacheAssumption DEF TypeOK, Goto, Unlock, Places, Touch, Freed, Unref
<1>1. ASSUME NEW t \in Threads, NEW i \in Indexes \cup {Null}, Lock(t, i)
      PROVE  TypeOK'
  BY <1>1 DEF Lock
<1>2. ASSUME NEW t \in Threads, UnrefOld(t) PROVE TypeOK'
  <2>1. refs' \in [Lists -> Nat]
    BY <1>2 DEF UnrefOld
  <2> QED
    BY <1>2, <2>1 DEF UnrefOld
<1>3. ASSUME NEW t \in Threads, Fetch(t) PROVE TypeOK'
  <2>1. loads' \in 0..MaxLoads /\ loads' \in Lists
    BY <1>3 DEF Fetch, Loading, Lists
  <2>2. list' \in [Lists -> ListRecord]
    BY <1>3, <2>1 DEF Fetch
  <2>3. refs' \in [Lists -> Nat] /\ profiles' \in Lists
    BY <1>3, <2>1 DEF Fetch
  <2> QED
    BY <1>3, <2>1, <2>2, <2>3 DEF Fetch
<1>4. ASSUME NEW t \in Threads, AddRef(t) PROVE TypeOK'
  <2>1. refs' \in [Lists -> Nat]
    <3>1. profiles \in Lists /\ refs[profiles] + 1 \in Nat
      BY <1>4 DEF AddRef, Loading
    <3> QED
      BY <1>4, <3>1 DEF AddRef
  <2>2. mine' \in [Threads -> Lists \cup {Null}]
    BY <1>4 DEF AddRef
  <2> QED
    BY <1>4, <2>1, <2>2 DEF AddRef
<1>5. ASSUME NEW t \in Threads, Return(t) PROVE TypeOK'
  BY <1>5 DEF Return
<1>6. ASSUME NEW t \in Threads, Release(t) PROVE TypeOK'
  <2>1. refs' \in [Lists -> Nat]
    BY <1>6 DEF Release
  <2> QED
    BY <1>6, <2>1 DEF Release
<1>7. ASSUME NEW t \in Threads, ReadToken(t) PROVE TypeOK'
  BY <1>7 DEF ReadToken
<1>8. ASSUME NEW t \in Threads, Request(t) PROVE TypeOK'
  BY <1>8 DEF Request
<1>9. CASE Dispose
  <2>1. refs' \in [Lists -> Nat]
    BY <1>9 DEF Dispose
  <2> QED
    BY <1>9, <2>1 DEF Dispose
<1>10. CASE UNCHANGED vars
  BY <1>10 DEF vars
<1> QED
  BY <1>1, <1>2, <1>3, <1>4, <1>5, <1>6, <1>7, <1>8, <1>9, <1>10 DEF Next, Step

(* The lock is handed over whole. *)
LEMMA MutexStep == TypeOK /\ Mutex /\ [Next]_vars => Mutex'
<1> SUFFICES ASSUME TypeOK, Mutex, [Next]_vars PROVE Mutex'
  OBVIOUS
<1> USE CacheAssumption DEF TypeOK, Mutex, Inside, Goto, Unlock
<1>1. ASSUME NEW t \in Threads, NEW i \in Indexes \cup {Null}, Lock(t, i)
      PROVE  Mutex'
  BY <1>1 DEF Lock
<1>2. ASSUME NEW t \in Threads, UnrefOld(t) \/ Fetch(t) PROVE Mutex'
  BY <1>2 DEF UnrefOld, Fetch
<1>3. ASSUME NEW t \in Threads, AddRef(t) \/ ReadToken(t) PROVE Mutex'
  BY <1>3 DEF AddRef, ReadToken
<1>4. ASSUME NEW t \in Threads, Return(t) \/ Release(t) \/ Request(t)
      PROVE  Mutex'
  BY <1>4 DEF Return, Release, Request
<1>5. CASE Dispose \/ UNCHANGED vars
  BY <1>5 DEF Dispose, vars
<1> QED
  BY <1>1, <1>2, <1>3, <1>4, <1>5 DEF Next, Step

(* A list is replaced only by the thread that holds the lock, and only if   *)
(* it is a fault.                                                           *)
LEMMA CachedStep == Shape /\ [Next]_vars => Cached' /\ Loading'
<1> SUFFICES ASSUME Shape, [Next]_vars PROVE Cached' /\ Loading'
  OBVIOUS
<1> USE CacheAssumption
    DEF Shape, TypeOK, Mutex, Cached, Loading, Inside, Goto, Unlock, Stale, Fetched
<1>1. ASSUME NEW t \in Threads, NEW i \in Indexes \cup {Null}, Lock(t, i)
      PROVE  Cached' /\ Loading'
  <2>1. Cardinality(Busy) \in Nat
    BY FS_Subset, FS_CardinalityType DEF Busy
  <2>2. loads < MaxLoads
    BY <1>1, <2>1 DEF Lock
  <2>3. UNCHANGED <<profiles, loads, list, disposed>> /\ ~disposed
    BY <1>1 DEF Lock
  <2>4. pc' = [pc EXCEPT ![t] = IF Stale THEN "unref" ELSE "loaded"]
    BY <1>1 DEF Lock
  <2> QED
    BY <2>2, <2>3, <2>4
<1>2. ASSUME NEW t \in Threads, UnrefOld(t) PROVE Cached' /\ Loading'
  BY <1>2 DEF UnrefOld
<1>3. ASSUME NEW t \in Threads, Fetch(t) PROVE Cached' /\ Loading'
  <2>1. loads' = loads + 1 /\ profiles' = loads' /\ loads' \in Lists
    BY <1>3 DEF Fetch, Lists
  <2>2. \A l \in Lists : l # loads' => list'[l] = list[l]
    BY <1>3, <2>1 DEF Fetch
  <2>3. \A l \in Fetched : list[l].fault # "NONE"
    <3>1. CASE profiles = Null
      BY <1>3, <3>1 DEF Fetch
    <3>2. CASE profiles # Null
      <4>1. profiles = loads /\ list[loads].fault # "NONE"
        BY <1>3, <3>2 DEF Fetch
      <4>2. \A l \in Fetched : l = loads \/ l < loads
        OBVIOUS
      <4> QED
        BY <4>1, <4>2
    <3> QED
      BY <3>1, <3>2
  <2>4. Cached'
    <3>1. \A l \in Fetched' : l < loads' => l \in Fetched /\ l \in Lists /\ l # loads'
      BY <2>1 DEF Lists
    <3>2. \A l \in Fetched' : l < loads' => list'[l].fault # "NONE"
      BY <2>2, <2>3, <3>1
    <3>3. disposed' = FALSE /\ profiles' # Null
      BY <1>3, <2>1 DEF Fetch
    <3> QED
      BY <2>1, <3>2, <3>3
  <2>5. Loading'
    BY <1>3, <2>1 DEF Fetch
  <2> QED
    BY <2>4, <2>5
<1>4. ASSUME NEW t \in Threads, AddRef(t) \/ ReadToken(t)
      PROVE  Cached' /\ Loading'
  BY <1>4 DEF AddRef, ReadToken
<1>5. ASSUME NEW t \in Threads, Return(t) \/ Release(t) \/ Request(t)
      PROVE  Cached' /\ Loading'
  BY <1>5 DEF Return, Release, Request
<1>6. CASE Dispose
  BY <1>6 DEF Dispose
<1>7. CASE UNCHANGED vars
  BY <1>7 DEF vars
<1> QED
  BY <1>1, <1>2, <1>3, <1>4, <1>5, <1>6, <1>7 DEF Next, Step

(* Nobody else moves a caller's list or replaces a list that gave a token.  *)
LEMMA CallersStep == Shape /\ [Next]_vars => Callers'
<1> SUFFICES ASSUME Shape, [Next]_vars PROVE Callers'
  OBVIOUS
<1> USE CacheAssumption
    DEF Shape, TypeOK, Mutex, Cached, Loading, Callers, Inside, Goto, Unlock,
        Fetched
<1>1. ASSUME NEW t \in Threads, NEW i \in Indexes \cup {Null}, Lock(t, i)
      PROVE  Callers'
  BY <1>1 DEF Lock
<1>2. ASSUME NEW t \in Threads, UnrefOld(t) PROVE Callers'
  BY <1>2 DEF UnrefOld
<1>3. ASSUME NEW t \in Threads, Fetch(t) PROVE Callers'
  <2>1. \A u \in Threads : pc[u] = "request" => got[u] = Junk
    BY <1>3 DEF Fetch, Stale
  <2>2. loads' = loads + 1
    BY <1>3 DEF Fetch
  <2> QED
    BY <1>3, <2>1, <2>2 DEF Fetch
<1>4. ASSUME NEW t \in Threads, AddRef(t) PROVE Callers'
  <2>1. profiles \in 1..loads
    BY <1>4 DEF AddRef, Lists
  <2> QED
    BY <1>4, <2>1 DEF AddRef
<1>5. ASSUME NEW t \in Threads, ReadToken(t) PROVE Callers'
  BY <1>5 DEF ReadToken
<1>6. ASSUME NEW t \in Threads, Return(t) PROVE Callers'
  BY <1>6 DEF Return
<1>7. ASSUME NEW t \in Threads, Release(t) \/ Request(t) PROVE Callers'
  BY <1>7 DEF Release, Request
<1>8. CASE Dispose
  BY <1>8 DEF Dispose
<1>9. CASE UNCHANGED vars
  BY <1>9 DEF vars
<1> QED
  BY <1>1, <1>2, <1>3, <1>4, <1>5, <1>6, <1>7, <1>8, <1>9 DEF Next, Step

(* The shape of the cache holds in every reachable state. *)
LEMMA ShapeInductive == (Init => Shape) /\ (Shape /\ [Next]_vars => Shape')
<1>1. Init => Shape
  <2> SUFFICES ASSUME Init PROVE Shape
    OBVIOUS
  <2> USE CacheAssumption DEF Init
  <2>1. TypeOK
    <3>1. [fault |-> "UNEXPECTED", tokens |-> {}] \in ListRecord
      BY DEF ListRecord, SoapFault
    <3>2. list \in [Lists -> ListRecord]
      BY <3>1
    <3>3. 0 \in 0..MaxLoads
      OBVIOUS
    <3> QED
      BY <3>2, <3>3 DEF TypeOK, Places
  <2>2. Mutex /\ Loading /\ Callers
    BY DEF Mutex, Inside, Loading, Callers
  <2>3. Cached
    BY DEF Cached, Fetched
  <2> QED
    BY <2>1, <2>2, <2>3 DEF Shape
<1>2. Shape /\ [Next]_vars => Shape'
  BY TypeStep, MutexStep, CachedStep, CallersStep DEF Shape
<1> QED
  BY <1>1, <1>2

(* The threads that hold a list are finitely many; one more or one less     *)
(* counts as one.                                                           *)
LEMMA HoldersFinite ==
    ASSUME NEW l
    PROVE  IsFiniteSet(Holders(l)) /\ Cardinality(Holders(l)) \in Nat
<1>1. Holders(l) \subseteq Threads /\ IsFiniteSet(Threads)
  BY CacheAssumption DEF Holders
<1> QED
  BY <1>1, FS_Subset, FS_CardinalityType

(* Without a race the cached list is allocated whenever the lock lets a     *)
(* thread look at it, and a list in use is.                                 *)
LEMMA CachedAlive ==
    ASSUME IInv, ~raced, profiles # Null, \A t \in Threads : pc[t] # "fetch"
    PROVE  profiles \in Fetched /\ refs[profiles] > 0
<1>1. profiles \in Fetched
  BY CacheAssumption DEF IInv, Shape, TypeOK, Cached, Fetched, Lists
<1>2. CacheRefs(profiles) = 1
  BY DEF CacheRefs
<1>3. refs[profiles] = 1 + Cardinality(Holders(profiles))
  BY <1>1, <1>2 DEF IInv, ReferencesExact
<1> QED
  BY <1>1, <1>3, HoldersFinite

LEMMA HeldAlive ==
    ASSUME IInv, ~raced, NEW t \in Threads, pc[t] \in {"return", "use"}
    PROVE  mine[t] \in Fetched /\ refs[mine[t]] > 0
<1>1. mine[t] \in Fetched
  BY DEF IInv, Shape, Callers
<1>2. t \in Holders(mine[t])
  BY DEF Holders
<1>3. Cardinality(Holders(mine[t])) > 0
  BY <1>2, HoldersFinite, FS_EmptySet
<1>4. refs[mine[t]] = CacheRefs(mine[t]) + Cardinality(Holders(mine[t]))
  BY <1>1 DEF IInv, ReferencesExact
<1>5. CacheRefs(mine[t]) \in {0, 1}
  BY DEF CacheRefs
<1> QED
  BY <1>1, <1>3, <1>4, <1>5, HoldersFinite

(* The thread inside load_profiles_cache is alone there. *)
LEMMA Alone ==
    ASSUME Mutex, NEW t \in Threads, NEW u \in Threads,
           pc[t] \in Inside, pc[u] \in Inside
    PROVE  t = u
BY DEF Mutex

(* Every use of a list is of one that is allocated, until a race.           *)
LEMMA AliveStep == IInv /\ [Next]_vars => UseAfterFreeNeedsRace'
<1> SUFFICES ASSUME IInv, [Next]_vars PROVE UseAfterFreeNeedsRace'
  OBVIOUS
<1> USE CacheAssumption DEF UseAfterFreeNeedsRace, Touch, Freed
<1>0. TypeOK /\ Mutex /\ Cached /\ Loading /\ Callers
  BY DEF IInv, Shape
<1>1. ASSUME NEW t \in Threads, NEW i \in Indexes \cup {Null}, Lock(t, i)
      PROVE  UseAfterFreeNeedsRace'
  <2>1. \A u \in Threads : pc[u] # "fetch"
    BY <1>0, <1>1 DEF Lock, Mutex, Inside
  <2>2. ~raced /\ profiles # Null => refs[profiles] # 0
    BY <2>1, <1>0, CachedAlive DEF TypeOK
  <2> QED
    BY <1>1, <2>2 DEF Lock
<1>2. ASSUME NEW t \in Threads, UnrefOld(t) PROVE UseAfterFreeNeedsRace'
  <2>1. \A u \in Threads : pc[u] # "fetch"
    BY <1>0, <1>2, Alone DEF UnrefOld, Inside
  <2>2. ~raced /\ profiles # Null => refs[profiles] # 0
    BY <2>1, <1>0, CachedAlive DEF TypeOK
  <2>3. profiles = Null \/ refs[profiles] # 0 => undefined' = undefined
    BY <1>2 DEF UnrefOld, Unref
  <2>4. raced' = raced
    BY <1>2 DEF UnrefOld
  <2>5. CASE raced
    BY <2>4, <2>5
  <2>6. CASE ~raced
    BY <2>2, <2>3, <2>6 DEF IInv
  <2> QED
    BY <2>5, <2>6
<1>3. ASSUME NEW t \in Threads, AddRef(t) \/ ReadToken(t)
      PROVE  UseAfterFreeNeedsRace'
  <2>1. \A u \in Threads : pc[u] # "fetch"
    BY <1>0, <1>3, Alone DEF AddRef, ReadToken, Inside
  <2>2. ~raced /\ profiles # Null => refs[profiles] # 0
    BY <2>1, <1>0, CachedAlive DEF TypeOK
  <2>3. undefined' = (profiles # Null /\ refs[profiles] = 0) /\ raced' = raced
    BY <1>3 DEF AddRef, ReadToken
  <2> QED
    BY <2>2, <2>3
<1>4. ASSUME NEW t \in Threads, Release(t) PROVE UseAfterFreeNeedsRace'
  <2>1. ~raced => got[t] = mine[t] /\ refs[mine[t]] > 0
    BY <1>0, <1>4, HeldAlive DEF Release, Callers
  <2>2. undefined' => undefined \/ refs[got[t]] = 0
    BY <1>4 DEF Release, Unref
  <2>3. raced' = raced
    BY <1>4 DEF Release
  <2> QED
    BY <2>1, <2>2, <2>3 DEF IInv
<1>5. ASSUME NEW t \in Threads, Request(t) PROVE UseAfterFreeNeedsRace'
  <2>1. CASE got[t] \in Lists
    <3>1. got[t] = profiles /\ profiles # Null /\ ~Stale
      BY <1>0, <1>5, <2>1 DEF Request, Callers, Stale
    <3>2. \A u \in Threads : pc[u] # "fetch"
      BY <1>0, <3>1 DEF Loading
    <3>3. ~raced => refs[profiles] # 0
      BY <3>1, <3>2, <1>0, CachedAlive DEF TypeOK
    <3> QED
      BY <1>5, <3>1, <3>3 DEF Request
  <2>2. CASE got[t] \notin Lists
    BY <1>5, <2>2 DEF Request
  <2> QED
    BY <2>1, <2>2
<1>6. CASE Dispose
  <2>1. \A u \in Threads : pc[u] # "fetch"
    BY <1>6 DEF Dispose
  <2>2. ~raced /\ profiles # Null => refs[profiles] # 0
    BY <2>1, <1>0, CachedAlive DEF TypeOK
  <2>3. profiles = Null \/ refs[profiles] # 0 => undefined' = undefined
    BY <1>6 DEF Dispose, Unref
  <2>4. raced' = raced
    BY <1>6 DEF Dispose
  <2>5. CASE raced
    BY <2>4, <2>5
  <2>6. CASE ~raced
    BY <2>2, <2>3, <2>6 DEF IInv
  <2> QED
    BY <2>5, <2>6
<1>7. ASSUME NEW t \in Threads, Fetch(t) \/ Return(t) PROVE UseAfterFreeNeedsRace'
  BY <1>7 DEF Fetch, Return, IInv
<1>8. CASE UNCHANGED vars
  BY <1>8 DEF vars, IInv
<1> QED
  BY <1>1, <1>2, <1>3, <1>4, <1>5, <1>6, <1>7, <1>8 DEF Next, Step

(* The references stay exact: each step moves the count of one list by as   *)
(* much as its holders.                                                     *)
LEMMA ReferencesStep == IInv /\ [Next]_vars => ReferencesExact'
<1> SUFFICES ASSUME IInv, [Next]_vars, ~raced', NEW l \in Fetched'
             PROVE  (refs[l] = CacheRefs(l) + Cardinality(Holders(l)))'
  BY DEF ReferencesExact
<1> DEFINE Exact(k) == refs[k] = CacheRefs(k) + Cardinality(Holders(k))
           Goal == Exact(l)'
<1>0. TypeOK /\ Mutex /\ Cached /\ Loading /\ Callers
  BY DEF IInv, Shape
<1>q. ~raced
  BY DEF Next, Step, Lock, UnrefOld, Fetch, AddRef, Return, Release, ReadToken,
         Request, Dispose, vars
<1>e. l \in Fetched => Exact(l)
  BY <1>q DEF IInv, ReferencesExact
<1>l. Fetched \subseteq Lists
  BY <1>0, CacheAssumption DEF TypeOK, Fetched, Lists
<1>h. \A k : Cardinality(Holders(k)) \in Nat /\ IsFiniteSet(Holders(k))
  BY HoldersFinite
<1>1. ASSUME NEW t \in Threads, NEW i \in Indexes \cup {Null}, Lock(t, i)
      PROVE  Goal
  <2>1. Holders(l)' = Holders(l)
    BY <1>0, <1>1 DEF Lock, Holders, Goto, TypeOK
  <2>2. (\A u \in Threads : pc[u] # "fetch") <=> \A u \in Threads : pc'[u] # "fetch"
    BY <1>0, <1>1 DEF Lock, Goto, TypeOK
  <2>3. CacheRefs(l)' = CacheRefs(l)
    BY <1>1, <2>2 DEF Lock, CacheRefs
  <2> QED
    BY <1>1, <2>1, <2>3, <1>e DEF Lock, Fetched
<1>2. ASSUME NEW t \in Threads, UnrefOld(t) PROVE Goal
  <2>1. Holders(l)' = Holders(l)
    BY <1>0, <1>2 DEF UnrefOld, Holders, Goto, TypeOK
  <2>2. l \in Fetched /\ profiles' = profiles
    BY <1>2 DEF UnrefOld, Fetched
  <2>3. CacheRefs(l)' = 0
    BY <1>0, <1>2 DEF UnrefOld, CacheRefs, Goto, TypeOK
  <2>4. CASE l = profiles
    <3>1. \A u \in Threads : pc[u] # "fetch"
      BY <1>0, <1>2, Alone DEF UnrefOld, Inside
    <3>2. CacheRefs(l) = 1
      BY <2>4, <3>1 DEF CacheRefs
    <3>3. l # Null /\ refs[l] = 1 + Cardinality(Holders(l)) /\ l \in Lists
      BY <1>0, <1>e, <2>2, <3>2, CacheAssumption DEF TypeOK, Fetched, Lists
    <3>4. refs'[l] = refs[l] - 1
      BY <1>0, <1>2, <1>h, <2>4, <3>3 DEF UnrefOld, Unref, TypeOK
    <3> QED
      BY <1>h, <2>1, <2>3, <3>3, <3>4
  <2>5. CASE l # profiles
    <3>1. refs'[l] = refs[l]
      BY <1>0, <1>l, <1>2, <2>2, <2>5 DEF UnrefOld, Unref, TypeOK
    <3>2. CacheRefs(l) = 0
      BY <2>5 DEF CacheRefs
    <3> QED
      BY <1>e, <2>1, <2>2, <2>3, <3>1, <3>2
  <2> QED
    BY <2>4, <2>5
<1>3. ASSUME NEW t \in Threads, Fetch(t) PROVE Goal
  <2>1. loads' = loads + 1 /\ profiles' = loads' /\ loads' \in Lists
    BY <1>0, <1>3, CacheAssumption DEF Fetch, Lists, Loading, TypeOK
  <2>2. \A u \in Threads : pc'[u] # "fetch"
    BY <1>0, <1>3, Alone DEF Fetch, Goto, TypeOK, Inside
  <2>3. Holders(l)' = Holders(l)
    BY <1>0, <1>3 DEF Fetch, Holders, Goto, TypeOK
  <2>4. CASE l = loads'
    <3>1. Holders(l) = {}
      BY <1>0, <2>1, <2>4 DEF Holders, Callers, Fetched, TypeOK
    <3>2. refs'[l] = 1 /\ CacheRefs(l)' = 1
      BY <1>0, <1>3, <2>1, <2>2, <2>4 DEF Fetch, CacheRefs, TypeOK
    <3> QED
      BY <2>3, <3>1, <3>2, FS_EmptySet
  <2>5. CASE l # loads'
    <3>1. l \in Fetched /\ l \in Lists
      BY <1>0, <1>l, <2>1, <2>5 DEF Fetched, TypeOK
    <3>2. refs'[l] = refs[l]
      BY <1>0, <1>3, <2>1, <2>5, <3>1 DEF Fetch, TypeOK
    <3>3. CacheRefs(l) = 0 /\ CacheRefs(l)' = 0
      BY <1>3, <2>1, <2>5 DEF Fetch, CacheRefs
    <3> QED
      BY <1>e, <2>3, <3>1, <3>2, <3>3
  <2> QED
    BY <2>4, <2>5
<1>4. ASSUME NEW t \in Threads, AddRef(t) PROVE Goal
  <2>1. l \in Fetched /\ l \in Lists /\ profiles \in Lists
    BY <1>0, <1>l, <1>4 DEF AddRef, Fetched, Loading, TypeOK
  <2>2. CacheRefs(l)' = CacheRefs(l)
    <3>1. (\A u \in Threads : pc[u] # "fetch") <=> \A u \in Threads : pc'[u] # "fetch"
      BY <1>0, <1>4 DEF AddRef, Goto, TypeOK
    <3> QED
      BY <1>4, <3>1 DEF AddRef, CacheRefs
  <2>3. CASE l = profiles
    <3>1. Holders(l)' = Holders(l) \cup {t} /\ t \notin Holders(l)
      BY <1>0, <1>4, <2>3 DEF AddRef, Holders, Goto, TypeOK
    <3>2. Cardinality(Holders(l)') = Cardinality(Holders(l)) + 1
      BY <1>h, <3>1, FS_AddElement
    <3>3. refs'[l] = refs[l] + 1
      BY <1>0, <1>4, <2>1, <2>3 DEF AddRef, TypeOK
    <3>4. CacheRefs(l) \in {0, 1}
      BY DEF CacheRefs
    <3> QED
      BY <1>e, <1>h, <2>1, <2>2, <3>2, <3>3, <3>4
  <2>4. CASE l # profiles
    <3>1. Holders(l)' = Holders(l)
      BY <1>0, <1>4, <2>4 DEF AddRef, Holders, Goto, TypeOK
    <3>2. refs'[l] = refs[l]
      BY <1>0, <1>4, <2>1, <2>4 DEF AddRef, TypeOK
    <3> QED
      BY <1>e, <2>1, <2>2, <3>1, <3>2
  <2> QED
    BY <2>3, <2>4
<1>5. ASSUME NEW t \in Threads, Release(t) PROVE Goal
  <2>1. l \in Fetched /\ l \in Lists
    BY <1>l, <1>5 DEF Release, Fetched
  <2>2. got[t] = mine[t] /\ mine[t] \in Lists /\ refs[mine[t]] > 0
    BY <1>0, <1>l, <1>q, <1>5, HeldAlive DEF Release, Callers
  <2>3. CacheRefs(l)' = CacheRefs(l) /\ CacheRefs(l) \in {0, 1}
    <3>1. (\A u \in Threads : pc[u] # "fetch") <=> \A u \in Threads : pc'[u] # "fetch"
      BY <1>0, <1>5 DEF Release, Goto, TypeOK
    <3> QED
      BY <1>5, <3>1 DEF Release, CacheRefs
  <2>4. refs' = [refs EXCEPT ![mine[t]] = @ - 1]
    BY <1>5, <2>2, CacheAssumption DEF Release, Unref
  <2>5. CASE l = mine[t]
    <3>1. Holders(l)' = Holders(l) \ {t} /\ t \in Holders(l)
      BY <1>0, <1>5, <2>5 DEF Release, Holders, Goto, TypeOK
    <3>2. Cardinality(Holders(l)') = Cardinality(Holders(l)) - 1
      BY <1>h, <3>1, FS_RemoveElement
    <3>3. refs'[l] = refs[l] - 1
      BY <1>0, <2>1, <2>4, <2>5 DEF TypeOK
    <3> QED
      BY <1>e, <1>h, <2>1, <2>3, <3>2, <3>3
  <2>6. CASE l # mine[t]
    <3>1. Holders(l)' = Holders(l)
      BY <1>0, <1>5, <2>1, <2>6, CacheAssumption DEF Release, Holders, Goto, TypeOK
    <3>2. refs'[l] = refs[l]
      BY <1>0, <2>1, <2>4, <2>6 DEF TypeOK
    <3> QED
      BY <1>e, <2>1, <2>3, <3>1, <3>2
  <2> QED
    BY <2>5, <2>6
<1>6. ASSUME NEW t \in Threads, Return(t) \/ ReadToken(t) \/ Request(t)
      PROVE  Goal
  <2>1. Holders(l)' = Holders(l)
    BY <1>0, <1>6 DEF Return, ReadToken, Request, Unlock, Holders, Goto, TypeOK
  <2>2. (\A u \in Threads : pc[u] # "fetch") <=> \A u \in Threads : pc'[u] # "fetch"
    BY <1>0, <1>6 DEF Return, ReadToken, Request, Unlock, Goto, TypeOK
  <2>3. UNCHANGED <<profiles, loads, refs>>
    BY <1>6 DEF Return, ReadToken, Request
  <2>4. CacheRefs(l)' = CacheRefs(l)
    BY <2>2, <2>3 DEF CacheRefs
  <2> QED
    BY <1>e, <2>1, <2>3, <2>4 DEF Fetched
<1>7. CASE Dispose
  <2>1. l \in Fetched /\ l \in Lists /\ Holders(l)' = Holders(l)
    BY <1>l, <1>7 DEF Dispose, Fetched, Holders
  <2>2. CacheRefs(l)' = 0
    BY <1>7, <2>1, CacheAssumption DEF Dispose, CacheRefs
  <2>3. \A u \in Threads : pc[u] # "fetch"
    BY <1>7 DEF Dispose
  <2>4. CASE l = profiles
    <3>1. refs[l] = 1 + Cardinality(Holders(l))
      BY <1>e, <2>1, <2>3, <2>4 DEF CacheRefs
    <3>2. refs'[l] = refs[l] - 1
      BY <1>0, <1>h, <1>7, <2>1, <2>4, <3>1, CacheAssumption
      DEF Dispose, Unref, TypeOK
    <3> QED
      BY <1>h, <2>1, <2>2, <3>1, <3>2
  <2>5. CASE l # profiles
    <3>1. refs'[l] = refs[l]
      BY <1>0, <1>7, <2>1, <2>5 DEF Dispose, Unref, TypeOK
    <3>2. CacheRefs(l) = 0
      BY <2>5 DEF CacheRefs
    <3> QED
      BY <1>e, <2>1, <2>2, <3>1, <3>2
  <2> QED
    BY <2>4, <2>5
<1>8. CASE UNCHANGED vars
  <2>1. Holders(l)' = Holders(l) /\ CacheRefs(l)' = CacheRefs(l)
    BY <1>8 DEF vars, Holders, CacheRefs
  <2> QED
    BY <1>8, <1>e, <2>1 DEF vars, Fetched
<1> QED
  BY <1>1, <1>2, <1>3, <1>4, <1>5, <1>6, <1>7, <1>8 DEF Next, Step

(* The inductive invariant. *)
THEOREM Inductive == Spec => []IInv
<1>1. Init => IInv
  <2> SUFFICES ASSUME Init PROVE IInv
    OBVIOUS
  <2>1. ReferencesExact
    BY DEF Init, ReferencesExact, Fetched
  <2>2. UseAfterFreeNeedsRace
    BY DEF Init, UseAfterFreeNeedsRace
  <2> QED
    BY <2>1, <2>2, ShapeInductive DEF IInv
<1>2. IInv /\ [Next]_vars => IInv'
  BY ShapeInductive, AliveStep, ReferencesStep DEF IInv
<1> QED
  BY <1>1, <1>2, PTL DEF Spec

(* The cache's variables keep their types: loads stays within its bound.    *)
THEOREM TypeCorrect == Spec => []TypeOK
<1>1. IInv => TypeOK
  BY DEF IInv, Shape
<1> QED
  BY <1>1, Inductive, PTL

(* No list leaks and none in use is freed, until a get_profiles returned    *)
(* another list than it referenced.                                         *)
THEOREM References == Spec => []ReferencesExact
<1>1. IInv => ReferencesExact
  BY DEF IInv
<1> QED
  BY <1>1, Inductive, PTL

(* No freed list is touched, until then.                                    *)
THEOREM NoUseAfterFree == Spec => []UseAfterFreeNeedsRace
<1>1. IInv => UseAfterFreeNeedsRace
  BY DEF IInv
<1> QED
  BY <1>1, Inductive, PTL

(* A camera's profiles are fetched once, by whatever number of threads.     *)
THEOREM Once == Spec => []FetchedOnce
<1>1. IInv => FetchedOnce
  <2> SUFFICES ASSUME IInv PROVE FetchedOnce
    OBVIOUS
  <2>1. loads \in Nat
    BY CacheAssumption DEF IInv, Shape, TypeOK
  <2>2. Good \subseteq {loads}
    BY <2>1 DEF IInv, Shape, Cached, Good, Fetched
  <2>3. IsFiniteSet({loads}) /\ Cardinality({loads}) = 1
    BY FS_Singleton
  <2> QED
    BY <2>2, <2>3, FS_Subset DEF FetchedOnce
<1> QED
  BY <1>1, Inductive, PTL

(* A token outlives its request, though the lock does not.                  *)
THEOREM TokenOutlives == Spec => []TokenAlive
<1>1. IInv => TokenAlive
  <2> SUFFICES ASSUME IInv, ~raced, NEW t \in Threads,
                      pc[t] = "request", got[t] \in Lists
               PROVE  got[t] = profiles /\ refs[got[t]] > 0
    BY DEF TokenAlive
  <2>1. got[t] = profiles /\ profiles # Null /\ ~Stale
    BY CacheAssumption DEF IInv, Shape, Callers, Stale
  <2>2. \A u \in Threads : pc[u] # "fetch"
    BY <2>1 DEF IInv, Shape, Loading
  <2> QED
    BY <2>1, <2>2, CachedAlive
<1> QED
  BY <1>1, Inductive, PTL

(* Only a caller whose own list was a fault gets another one.               *)
THEOREM RaceIsAfterFault == Spec => RaceNeedsFault
<1> DEFINE HarmlessFor(t) ==
             pc[t] = "return" /\ pc'[t] = "use" /\ got'[t] # mine[t] =>
                 list[mine[t]].fault # "NONE"
           Harmless == \A t \in Threads : HarmlessFor(t)
<1>1. IInv /\ [Next]_vars => Harmless
  <2> SUFFICES ASSUME IInv, [Next]_vars, NEW t \in Threads, pc[t] = "return",
                      pc'[t] = "use", got'[t] # mine[t]
               PROVE  list[mine[t]].fault # "NONE"
    OBVIOUS
  <2>0. TypeOK /\ Cached /\ Callers
    BY DEF IInv, Shape
  <2>1. got'[t] = profiles
    <3>1. ASSUME NEW u \in Threads, Return(u) PROVE got'[t] = profiles
      BY <2>0, <3>1 DEF Return, Goto, TypeOK
    <3>2. ASSUME NEW u \in Threads, NEW i \in Indexes \cup {Null}, Lock(u, i)
          PROVE  FALSE
      BY <2>0, <3>2 DEF Lock, Goto, TypeOK
    <3>3. ASSUME NEW u \in Threads, UnrefOld(u) \/ Fetch(u) \/ AddRef(u) PROVE FALSE
      BY <2>0, <3>3 DEF UnrefOld, Fetch, AddRef, Goto, TypeOK
    <3>4. ASSUME NEW u \in Threads, Release(u) \/ ReadToken(u) \/ Request(u)
          PROVE  FALSE
      BY <2>0, <3>4 DEF Release, ReadToken, Request, Unlock, Goto, TypeOK
    <3>5. CASE Dispose \/ UNCHANGED vars
      BY <3>5 DEF Dispose, vars
    <3> QED
      BY <3>1, <3>2, <3>3, <3>4, <3>5 DEF Next, Step
  <2>2. mine[t] \in Fetched /\ ~disposed
    BY <2>0 DEF Callers, Cached
  <2>3. profiles = loads
    BY <2>0, <2>2 DEF Cached, Fetched, TypeOK
  <2>4. mine[t] < loads
    BY <2>0, <2>1, <2>2, <2>3, CacheAssumption DEF Fetched, TypeOK
  <2> QED
    BY <2>0, <2>2, <2>4 DEF Cached
<1> QED
  BY <1>1, Inductive, PTL DEF RaceNeedsFault, Spec
================================================================================
