--------------------------- MODULE MediaProfileCache ---------------------------
(***************************************************************************)
(* The lazy profile cache of a media service                               *)
(* (src/src/media/onvif_media_service.c, lines 12-98): the threads that    *)
(* share the service call get_profiles, whose result they unref when done  *)
(* (example/client-test.c:410-425), and the calls of the service that need *)
(* a profile token, which read it with get_profile_token and send it.      *)
(*                                                                         *)
(* A profile list is the number of the load that fetched it; refs is its   *)
(* GObject reference count, 0 once it is freed.                            *)
(***************************************************************************)
EXTENDS Naturals, FiniteSets

CONSTANTS
    Threads,        \* the threads that share the service
    NoThread,       \* the owner of a free mutex
    Null,           \* the NULL pointer
    Junk,           \* an indeterminate pointer
    Replies,        \* what GetProfiles can come to: a set of SoapFaults
    MaxProfiles,    \* bound: the profiles of a list
    MaxLoads        \* bound: the lists fetched

SoapFault == {"NONE", "CONNECTION_ERROR", "NOT_VALID", "UNAUTHORIZED",
              "ACTION_NOT_SUPPORTED", "UNEXPECTED"}

Lists == 1..MaxLoads
Indexes == 0..MaxProfiles

ASSUME CacheAssumption ==
    /\ NoThread \notin Threads /\ IsFiniteSet(Threads)
    /\ MaxLoads \in Nat /\ MaxProfiles \in Nat
    /\ Replies \subseteq SoapFault
    /\ Null \notin Lists /\ Junk \notin Lists \cup {Null}

VARIABLES
    profile_lock,   \* priv->profile_lock: owner
    profiles,       \* priv->profiles
    loads,          \* the lists fetched so far
    list,           \* of each list: its fault, and the indexes with a token
    refs,           \* of each list: its reference count
    pc,             \* per thread: its place in the code
    index,          \* per thread: profile_index, Null in get_profiles
    mine,           \* per thread: the list it took a reference on
    got,            \* per thread: the list or token it was given
    disposed,       \* the service is gone
    raced,          \* a get_profiles returned another list than it referenced
    undefined       \* a freed list was used: nothing is known any more

vars == <<profile_lock, profiles, loads, list, refs, pc, index, mine, got,
          disposed, raced, undefined>>

ListRecord == [fault: SoapFault, tokens: SUBSET (Indexes \ {MaxProfiles})]

Places == {"idle", "unref", "fetch", "loaded", "return", "use", "request"}

TypeOK ==
    /\ profile_lock \in Threads \cup {NoThread}
    /\ profiles \in Lists \cup {Null}
    /\ loads \in 0..MaxLoads
    /\ list \in [Lists -> ListRecord]
    /\ refs \in [Lists -> Nat]
    /\ pc \in [Threads -> Places]
    /\ index \in [Threads -> Indexes \cup {Null}]
    /\ mine \in [Threads -> Lists \cup {Null}]
    /\ got \in [Threads -> Lists \cup {Null, Junk}]
    /\ disposed \in BOOLEAN /\ raced \in BOOLEAN /\ undefined \in BOOLEAN

Init ==
    /\ profile_lock = NoThread
    /\ profiles = Null
    /\ loads = 0
    /\ list = [l \in Lists |-> [fault |-> "UNEXPECTED", tokens |-> {}]]
    /\ refs = [l \in Lists |-> 0]
    /\ pc = [t \in Threads |-> "idle"]
    /\ index = [t \in Threads |-> Null]
    /\ mine = [t \in Threads |-> Null]
    /\ got = [t \in Threads |-> Null]
    /\ disposed = FALSE /\ raced = FALSE /\ undefined = FALSE

Goto(t, place) == pc' = [pc EXCEPT ![t] = place]

(* g_object_unref of l; of a freed object it is undefined. *)
Unref(l) ==
    IF l = Null THEN UNCHANGED <<refs, undefined>>
    ELSE IF refs[l] = 0 THEN undefined' = TRUE /\ UNCHANGED refs
    ELSE refs' = [refs EXCEPT ![l] = @ - 1] /\ UNCHANGED undefined

(* The cached list is read; of a freed one nothing is known. *)
Freed == profiles # Null /\ refs[profiles] = 0

Touch == undefined' = Freed

Busy == {t \in Threads : pc[t] # "idle"}

--------------------------------------------------------------------------------
(* Mutated forms, here and below: a copy of the next definition that a      *)
(* check must reject.  Every call fetches.                                  *)
StaleAlways == TRUE

(* load_profiles_cache, line 41: a missing list, or one that is a fault,   *)
(* is fetched again.                                                       *)
Stale == profiles = Null \/ list[profiles].fault # "NONE"

(* Mutated form: without profile_lock. *)
LockUnlocked(t, i) ==
    /\ pc[t] = "idle" /\ ~disposed
    /\ loads + Cardinality(Busy) < MaxLoads
    /\ profile_lock' = t
    /\ index' = [index EXCEPT ![t] = i]
    /\ Goto(t, IF Stale THEN "unref" ELSE "loaded")
    /\ Touch
    /\ UNCHANGED <<profiles, loads, list, refs, mine, got, disposed, raced>>

(* get_profiles and get_profile_token up to line 41: i is the index, Null  *)
(* for get_profiles.  (A call begins while MaxLoads leaves room for it.)   *)
Lock(t, i) ==
    /\ pc[t] = "idle" /\ ~disposed
    /\ loads + Cardinality(Busy) < MaxLoads
    /\ profile_lock = NoThread
    /\ profile_lock' = t
    /\ index' = [index EXCEPT ![t] = i]
    /\ Goto(t, IF Stale THEN "unref" ELSE "loaded")
    /\ Touch
    /\ UNCHANGED <<profiles, loads, list, refs, mine, got, disposed, raced>>

(* line 42; the pointer stays until the fetch returns *)
UnrefOld(t) ==
    /\ pc[t] = "unref"
    /\ Unref(profiles)
    /\ Goto(t, "fetch")
    /\ UNCHANGED <<profile_lock, profiles, loads, list, index, mine, got,
                   disposed, raced>>

(* line 43 *)
Fetch(t) ==
    /\ pc[t] = "fetch"
    /\ loads' = loads + 1
    /\ profiles' = loads'
    /\ refs' = [refs EXCEPT ![loads'] = 1]
    /\ \E r \in {x \in ListRecord : x.fault \in Replies /\
                                    (x.fault # "NONE" => x.tokens = {})} :
        list' = [list EXCEPT ![loads'] = r]
    /\ Goto(t, "loaded")
    /\ UNCHANGED <<profile_lock, index, mine, got, disposed, raced, undefined>>

--------------------------------------------------------------------------------
(* get_profiles *)

(* Mutated form: the caller's reference is forgotten. *)
AddRefMissing(t) ==
    /\ pc[t] = "loaded" /\ index[t] = Null
    /\ mine' = [mine EXCEPT ![t] = profiles]
    /\ profile_lock' = NoThread
    /\ Goto(t, "return")
    /\ UNCHANGED <<profiles, loads, list, refs, index, got, disposed, raced,
                   undefined>>

(* lines 95-96 *)
AddRef(t) ==
    /\ pc[t] = "loaded" /\ index[t] = Null
    /\ refs' = [refs EXCEPT ![profiles] = @ + 1]
    /\ mine' = [mine EXCEPT ![t] = profiles]
    /\ profile_lock' = NoThread
    /\ Goto(t, "return")
    /\ Touch
    /\ UNCHANGED <<profiles, loads, list, index, got, disposed, raced>>

(* line 97: priv->profiles is read again, without the lock *)
Return(t) ==
    /\ pc[t] = "return"
    /\ got' = [got EXCEPT ![t] = profiles]
    /\ raced' = (raced \/ profiles # mine[t])
    /\ Goto(t, "use")
    /\ UNCHANGED <<profile_lock, profiles, loads, list, refs, index, mine,
                   disposed, undefined>>

(* The caller is done with the list it was given. *)
Release(t) ==
    /\ pc[t] = "use"
    /\ Unref(got[t])
    /\ got' = [got EXCEPT ![t] = Null]
    /\ mine' = [mine EXCEPT ![t] = Null]
    /\ Goto(t, "idle")
    /\ UNCHANGED <<profile_lock, profiles, loads, list, index, disposed, raced>>

--------------------------------------------------------------------------------
(* get_profile_token *)

Unlock(t, place) == profile_lock' = NoThread /\ Goto(t, place)

(* lines 61-85: a fault ends the calling operation (macro, line 40); the    *)
(* token of the profile is a pointer into the list; without one *ret keeps  *)
(* the indeterminate value the macro (onvif_media_service.h:38) declared.   *)
ReadToken(t) ==
    /\ pc[t] = "loaded" /\ index[t] # Null
    /\ IF list[profiles].fault # "NONE"
       THEN Unlock(t, "idle") /\ UNCHANGED got
       ELSE /\ Unlock(t, "request")
            /\ got' = [got EXCEPT ![t] =
                        IF index[t] \in list[profiles].tokens
                        THEN profiles ELSE Junk]
    /\ Touch
    /\ UNCHANGED <<profiles, loads, list, refs, index, mine, disposed, raced>>

(* The token is sent, after profile_lock was released, or, if it happens to *)
(* be NULL or empty (macro, line 46), the operation fails.                  *)
Request(t) ==
    /\ pc[t] = "request"
    /\ got' = [got EXCEPT ![t] = Null]
    /\ Goto(t, "idle")
    /\ undefined' = (got[t] \in Lists /\ refs[got[t]] = 0)
    /\ UNCHANGED <<profile_lock, profiles, loads, list, refs, index, mine,
                   disposed, raced>>

(* dispose, lines 12-23: no operation is under way, but a caller may still  *)
(* use the list it was given.                                               *)
Dispose ==
    /\ ~disposed
    /\ \A t \in Threads : pc[t] \in {"idle", "use"}
    /\ disposed' = TRUE
    /\ profiles' = Null
    /\ Unref(profiles)
    /\ UNCHANGED <<profile_lock, loads, list, pc, index, mine, got, raced>>

--------------------------------------------------------------------------------
Step(t) ==
    \/ \E i \in Indexes \cup {Null} : Lock(t, i)
    \/ UnrefOld(t) \/ Fetch(t)
    \/ AddRef(t) \/ Return(t) \/ Release(t)
    \/ ReadToken(t) \/ Request(t)

Next == ~undefined /\ (Dispose \/ \E t \in Threads : Step(t))

Spec == Init /\ [][Next]_vars

--------------------------------------------------------------------------------
(* Properties. *)

Fetched == 1..loads
Good == {l \in Fetched : list[l].fault = "NONE"}

(* The cache's own reference: dropped by line 42 before the pointer is      *)
(* replaced.                                                                *)
CacheRefs(l) ==
    IF profiles = l /\ \A t \in Threads : pc[t] # "fetch" THEN 1 ELSE 0

Holders(l) == {t \in Threads : pc[t] \in {"return", "use"} /\ mine[t] = l}

(* Until a get_profiles has returned the wrong list, the references of      *)
(* every list are exactly the cache's and its users': none leaks and none   *)
(* in use is freed, through reloads by other threads and dispose.           *)
ReferencesExact ==
    ~raced => \A l \in Fetched : refs[l] = CacheRefs(l) + Cardinality(Holders(l))

(* A "lazy cache function" (onvif_media_service.h:65): of all concurrent    *)
(* callers one fetches the profiles, once; only faults are fetched again.   *)
FetchedOnce ==
    Cardinality(Good) <= 1

(* No operation, and no caller, touches a freed list unless a get_profiles  *)
(* returned the wrong one before.                                           *)
UseAfterFreeNeedsRace == undefined => raced

(* The token of a request belongs to a list that is still allocated when    *)
(* the request is made, though the lock is long released: a list that gave  *)
(* a token is never replaced.                                               *)
TokenAlive ==
    ~raced => \A t \in Threads :
        pc[t] = "request" /\ got[t] \in Lists =>
            got[t] = profiles /\ refs[got[t]] > 0

(* A camera that answers GetProfiles is safe: the caller of get_profiles    *)
(* gets another list than it referenced only if its own was a fault.        *)
RaceNeedsFault ==
    [][\A t \in Threads :
        pc[t] = "return" /\ pc'[t] = "use" /\ got'[t] # mine[t] =>
            list[mine[t]].fault # "NONE"]_vars

(* onvif_media_service.c:95, "Adding ref on behalf of the caller": the list *)
(* a caller is given is one it has a reference on.                          *)
CallerHoldsRef ==
    \A t \in Threads : pc[t] = "use" => got[t] = mine[t]
================================================================================
