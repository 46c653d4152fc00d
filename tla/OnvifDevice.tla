------------------------------ MODULE OnvifDevice ------------------------------
(***************************************************************************)
(* The OnvifDevice object (src/src/onvif_device.c): what the threads that  *)
(* share one device do to its private state.  A thread calls               *)
(* authenticate, which stores the camera's clock, creates the media1,      *)
(* media2 and deviceio services and proves the credentials with a          *)
(* GetStreamUri; or is_authenticated, set_credentials, the unlocked        *)
(* getters, getSystemDateTime.  A SOAP call is one step whose outcome is   *)
(* any SoapFault; the machine behind it is module SoapCall.                *)
(*                                                                         *)
(* A service object is a pair <<kind, n>>; a live object that no pointer   *)
(* of the device names has leaked, a pointer to an object that is not live *)
(* dangles.                                                                *)
(***************************************************************************)
EXTENDS Naturals, FiniteSets

CONSTANTS
    Threads,        \* the threads that share the device
    Credentials,    \* the (user, pass) pairs set_credentials is called with
    TimeReaders,    \* the threads that call getSystemDateTime
    MaxAttempts,    \* bound: the runs of createServices
    NoThread,       \* the owner of a free mutex
    Null            \* the NULL pointer

ASSUME ThreadAssumption ==
    /\ NoThread \notin Threads
    /\ TimeReaders \subseteq Threads

Kinds == {"media1", "media2", "deviceio"}

ASSUME NullAssumption == Null \notin Kinds \X Nat

(* SoapObject.h: the fault a response object carries. *)
SoapFault == {"NONE", "CONNECTION_ERROR", "NOT_VALID", "UNAUTHORIZED",
              "ACTION_NOT_SUPPORTED", "UNEXPECTED"}

(* createServices returns these to its caller; after any other fault of    *)
(* GetServices it asks GetCapabilities instead.                            *)
FinalFaults == {"UNAUTHORIZED", "CONNECTION_ERROR"}

Failures == SoapFault \ {"NONE"}

VARIABLES
    auth_lock, media_lock, prop_lock,  \* OnvifDevicePrivate's mutexes: owner
    authenticated,                     \* priv->authenticated
    time_offset,                       \* priv->time_offset was computed
    datetime,                          \* blocks malloc'ed for priv->datetime
    service,                           \* the three service pointers
    live,                              \* service objects with a reference
    created,                           \* numbers the objects of createServices
    username, password,                \* priv->credentials
    pc, fault, offered, arg,           \* per thread: place and locals
    saw, handle,                       \* per thread: what the getters returned
    disposed, crashed                  \* the object, the process, is gone

locks   == <<auth_lock, media_lock, prop_lock>>
clock   == <<time_offset, datetime>>
objects == <<service, live, created>>
creds   == <<username, password, arg>>
seen    == <<saw, handle>>
ended   == <<disposed, crashed>>
vars == <<locks, authenticated, clock, objects, creds, pc, fault, offered,
          seen, ended>>

Objects == Kinds \X Nat

(* The places of authenticate and createServices, in code order, and the   *)
(* second half of set_credentials.                                         *)
CreatePlaces == {"get_services", "get_caps", "media1", "media2", "deviceio",
                 "unlock_media"}
AuthPlaces == CreatePlaces \cup
    {"get_time", "set_offset", "set_date", "check_media", "lock_media",
     "stream_uri", "set_auth", "unref_media1", "clear_media1", "exit"}
Places == AuthPlaces \cup {"idle", "set_pass"}

TypeOK ==
    /\ auth_lock \in Threads \cup {NoThread}
    /\ media_lock \in Threads \cup {NoThread}
    /\ prop_lock \in Threads \cup {NoThread}
    /\ authenticated \in BOOLEAN
    /\ time_offset \in BOOLEAN
    /\ datetime \in Nat
    /\ service \in [Kinds -> Objects \cup {Null}]
    /\ live \subseteq Objects
    /\ created \in Nat
    /\ username \in Credentials \cup {Null}
    /\ password \in Credentials \cup {Null}
    /\ arg \in [Threads -> Credentials \cup {Null}]
    /\ pc \in [Threads -> Places]
    /\ fault \in [Threads -> SoapFault]
    /\ offered \in [Threads -> SUBSET Kinds]
    /\ saw \in [Threads -> BOOLEAN]
    /\ handle \in [Threads -> [obj: Objects \cup {Null}, trusted: BOOLEAN]]
    /\ disposed \in BOOLEAN
    /\ crashed \in BOOLEAN

(* init, set_property: no service but device_service, nobody authenticated *)
Init ==
    /\ auth_lock = NoThread /\ media_lock = NoThread /\ prop_lock = NoThread
    /\ authenticated = FALSE
    /\ time_offset = FALSE /\ datetime = 0
    /\ service = [k \in Kinds |-> Null] /\ live = {} /\ created = 0
    /\ username = Null /\ password = Null
    /\ arg = [t \in Threads |-> Null]
    /\ pc = [t \in Threads |-> "idle"]
    /\ fault = [t \in Threads |-> "NONE"]
    /\ offered = [t \in Threads |-> {}]
    /\ saw = [t \in Threads |-> FALSE]
    /\ handle = [t \in Threads |-> [obj |-> Null, trusted |-> FALSE]]
    /\ disposed = FALSE /\ crashed = FALSE

--------------------------------------------------------------------------------
(* Control flow of one thread. *)

(* t, outside any call, makes one. *)
Calls(t) == pc[t] = "idle" /\ ~disposed

Goto(t, place) == pc' = [pc EXCEPT ![t] = place]

Raise(t, f) == fault' = [fault EXCEPT ![t] = f]

At(t, place) == pc[t] = place

--------------------------------------------------------------------------------
(* authenticate: the date and the time offset. *)

(* Mutated forms, here and below: a copy of the next definition that a     *)
(* check must reject.  No early return for an authenticated device.        *)
AuthenticateAgain(t) ==
    /\ Calls(t)
    /\ authenticated \/ created < MaxAttempts
    /\ auth_lock = NoThread
    /\ auth_lock' = t
    /\ Goto(t, IF datetime = 0 THEN "get_time" ELSE "check_media")
    /\ UNCHANGED <<media_lock, prop_lock, authenticated, clock, objects, creds,
                   fault, offered, seen, ended>>

(* lines 136-142: nothing to do when authenticated; the date is asked for  *)
(* until the camera has given one.                                         *)
AuthenticateLock(t) ==
    /\ Calls(t)
    /\ authenticated \/ created < MaxAttempts
    /\ auth_lock = NoThread
    /\ auth_lock' = t
    /\ Goto(t, IF authenticated THEN "exit"
               ELSE IF datetime = 0 THEN "get_time" ELSE "check_media")
    /\ UNCHANGED <<media_lock, prop_lock, authenticated, clock, objects, creds,
                   fault, offered, seen, ended>>

(* lines 143-174: a fault ends the call; a reply without a date does not. *)
GetSystemDateAndTime(t) ==
    /\ At(t, "get_time")
    /\ \/ \E f \in Failures : Raise(t, f) /\ Goto(t, "exit")
       \/ \E next \in {"set_offset", "check_media"} :
            Goto(t, next) /\ UNCHANGED fault
    /\ UNCHANGED <<locks, authenticated, clock, objects, creds, offered, seen,
                   ended>>

(* lines 150-151 *)
SetTimeOffset(t) ==
    /\ At(t, "set_offset")
    /\ prop_lock = NoThread
    /\ prop_lock' = t
    /\ time_offset' = TRUE
    /\ Goto(t, "set_date")
    /\ UNCHANGED <<auth_lock, media_lock, authenticated, datetime, objects,
                   creds, fault, offered, seen, ended>>

(* The mutex is not released. *)
SetDatetimeNoUnlock(t) ==
    /\ At(t, "set_date")
    /\ datetime' = datetime + 1
    /\ Goto(t, "check_media")
    /\ UNCHANGED <<locks, authenticated, time_offset, objects, creds, fault,
                   offered, seen, ended>>

(* lines 152-159 *)
SetDatetime(t) ==
    /\ At(t, "set_date")
    /\ datetime' = datetime + 1
    /\ prop_lock' = NoThread
    /\ Goto(t, "check_media")
    /\ UNCHANGED <<auth_lock, media_lock, authenticated, time_offset, objects,
                   creds, fault, offered, seen, ended>>

--------------------------------------------------------------------------------
(* createServices, called by authenticate only. *)

(* lines 43-45: the unlocked look at media1_service *)
CreateServicesCheck(t) ==
    /\ At(t, "check_media")
    /\ Goto(t, IF service["media1"] = Null THEN "lock_media" ELSE "stream_uri")
    /\ UNCHANGED <<locks, authenticated, clock, objects, creds, fault, offered,
                   seen, ended>>

(* lines 47-52: the same look again, under media_lock *)
CreateServicesLock(t) ==
    /\ At(t, "lock_media")
    /\ media_lock = NoThread
    /\ media_lock' = t
    /\ Goto(t, IF service["media1"] = Null THEN "get_services"
               ELSE "unlock_media")
    /\ created' = created + 1
    /\ UNCHANGED <<auth_lock, prop_lock, authenticated, clock, service, live,
                   creds, fault, offered, seen, ended>>

(* lines 55-79: the reply names any of the three services *)
GetServices(t) ==
    /\ At(t, "get_services")
    /\ \/ \E S \in SUBSET Kinds :
            /\ offered' = [offered EXCEPT ![t] = S]
            /\ Goto(t, "media1")
            /\ UNCHANGED fault
       \/ \E f \in FinalFaults :
            Raise(t, f) /\ Goto(t, "unlock_media") /\ UNCHANGED offered
       \/ Goto(t, "get_caps") /\ UNCHANGED <<fault, offered>>
    /\ UNCHANGED <<locks, authenticated, clock, objects, creds, seen, ended>>

(* lines 80-100: all three services are created from the reply; a reply    *)
(* without Media, or without DeviceIO, is read through a NULL pointer.     *)
GetCapabilities(t) ==
    /\ At(t, "get_caps")
    /\ \/ /\ offered' = [offered EXCEPT ![t] = Kinds]
          /\ Goto(t, "media1")
          /\ UNCHANGED <<fault, crashed>>
       \/ \E f \in Failures :
            Raise(t, f) /\ Goto(t, "unlock_media") /\ UNCHANGED <<offered, crashed>>
       \/ crashed' = TRUE /\ UNCHANGED <<pc, fault, offered>>
    /\ UNCHANGED <<locks, authenticated, clock, objects, creds, seen, disposed>>

(* lines 60-65 and 86-88: the services are created in this order, each     *)
(* over whatever the pointer held.                                         *)
NextPlace == [media1 |-> "media2", media2 |-> "deviceio",
              deviceio |-> "unlock_media"]

NewService(t, k) ==
    /\ At(t, k)
    /\ IF k \in offered[t]
       THEN /\ service' = [service EXCEPT ![k] = <<k, created>>]
            /\ live' = live \cup {<<k, created>>}
       ELSE UNCHANGED <<service, live>>
    /\ Goto(t, NextPlace[k])
    /\ UNCHANGED <<locks, authenticated, clock, created, creds, fault, offered,
                   seen, ended>>

(* lines 105-107, and authenticate's look at the result, lines 177-195 *)
CreateServicesUnlock(t) ==
    /\ At(t, "unlock_media")
    /\ media_lock' = NoThread
    /\ offered' = [offered EXCEPT ![t] = {}]
    /\ IF fault[t] # "NONE"
       THEN Goto(t, "exit") /\ UNCHANGED fault
       ELSE IF service["media1"] = Null
       THEN Goto(t, "exit") /\ Raise(t, "UNEXPECTED")
       ELSE Goto(t, "stream_uri") /\ UNCHANGED fault
    /\ UNCHANGED <<auth_lock, prop_lock, authenticated, clock, objects, creds,
                   seen, ended>>

--------------------------------------------------------------------------------
(* authenticate: the credentials are good if the camera gives a stream URI *)

(* The failure paths forget the service. *)
GetStreamUriNoCleanup(t) ==
    /\ At(t, "stream_uri")
    /\ \/ Goto(t, "set_auth") /\ UNCHANGED fault
       \/ \E f \in SoapFault : Raise(t, f) /\ Goto(t, "exit")
    /\ UNCHANGED <<locks, authenticated, clock, objects, creds, offered, seen,
                   ended>>

(* lines 198-200; a reply without a URI is not a fault *)
GetStreamUri(t) ==
    /\ At(t, "stream_uri")
    /\ \/ Goto(t, "set_auth") /\ UNCHANGED fault
       \/ \E f \in SoapFault : Raise(t, f) /\ Goto(t, "unref_media1")
    /\ UNCHANGED <<locks, authenticated, clock, objects, creds, offered, seen,
                   ended>>

(* The flag is written without prop_lock. *)
SetAuthenticatedUnlocked(t) ==
    /\ At(t, "set_auth")
    /\ authenticated' = TRUE
    /\ Goto(t, "exit")
    /\ UNCHANGED <<locks, clock, objects, creds, fault, offered, seen, ended>>

(* lines 209-211 *)
SetAuthenticated(t) ==
    /\ At(t, "set_auth")
    /\ prop_lock = NoThread
    /\ authenticated' = TRUE
    /\ Goto(t, "exit")
    /\ UNCHANGED <<locks, clock, objects, creds, fault, offered, seen, ended>>

(* The pointer is dropped without the unref. *)
UnrefMedia1Missing(t) ==
    /\ At(t, "unref_media1")
    /\ Goto(t, "clear_media1")
    /\ UNCHANGED <<locks, authenticated, clock, objects, creds, fault, offered,
                   seen, ended>>

(* lines 205 and 221: the device's reference is the only one *)
UnrefMedia1(t) ==
    /\ At(t, "unref_media1")
    /\ live' = live \ {service["media1"]}
    /\ Goto(t, "clear_media1")
    /\ UNCHANGED <<locks, authenticated, clock, service, created, creds, fault,
                   offered, seen, ended>>

(* The pointer to the freed service stays. *)
ClearMedia1Missing(t) ==
    /\ At(t, "clear_media1")
    /\ Goto(t, "exit")
    /\ UNCHANGED <<locks, authenticated, clock, objects, creds, fault, offered,
                   seen, ended>>

(* lines 206 and 222 *)
ClearMedia1(t) ==
    /\ At(t, "clear_media1")
    /\ service' = [service EXCEPT !["media1"] = Null]
    /\ Goto(t, "exit")
    /\ UNCHANGED <<locks, authenticated, clock, live, created, creds, fault,
                   offered, seen, ended>>

(* lines 228-230: fault[t] is what the caller gets *)
AuthenticateUnlock(t) ==
    /\ At(t, "exit")
    /\ auth_lock' = NoThread
    /\ Raise(t, "NONE")
    /\ Goto(t, "idle")
    /\ UNCHANGED <<media_lock, prop_lock, authenticated, clock, objects, creds,
                   offered, seen, ended>>

--------------------------------------------------------------------------------
(* The other calls. *)

IsAuthenticated(t) ==
    /\ Calls(t)
    /\ auth_lock = NoThread
    /\ saw' = [saw EXCEPT ![t] = authenticated]
    /\ UNCHANGED <<locks, authenticated, clock, objects, creds, pc, fault,
                   offered, handle, ended>>

(* get_media_service, get_media1_service: a bare pointer, no lock, no      *)
(* reference; trusted when the caller had seen the device authenticated.   *)
GetMediaService(t) ==
    /\ Calls(t)
    /\ handle' = [handle EXCEPT ![t] = [obj |-> service["media1"],
                                        trusted |-> saw[t]]]
    /\ UNCHANGED <<locks, authenticated, clock, objects, creds, pc, fault,
                   offered, saw, ended>>

(* set_credentials without prop_lock. *)
SetUsernameUnlocked(t, c) ==
    /\ Calls(t)
    /\ prop_lock' = t
    /\ username' = c
    /\ arg' = [arg EXCEPT ![t] = c]
    /\ Goto(t, "set_pass")
    /\ UNCHANGED <<auth_lock, media_lock, authenticated, clock, objects,
                   password, fault, offered, seen, ended>>

(* set_credentials, lines 250-251 and 252-253 *)
SetUsername(t, c) ==
    /\ Calls(t)
    /\ prop_lock = NoThread
    /\ prop_lock' = t
    /\ username' = c
    /\ arg' = [arg EXCEPT ![t] = c]
    /\ Goto(t, "set_pass")
    /\ UNCHANGED <<auth_lock, media_lock, authenticated, clock, objects,
                   password, fault, offered, seen, ended>>

SetPassword(t) ==
    /\ At(t, "set_pass")
    /\ password' = arg[t]
    /\ prop_lock' = NoThread
    /\ arg' = [arg EXCEPT ![t] = Null]
    /\ Goto(t, "idle")
    /\ UNCHANGED <<auth_lock, media_lock, authenticated, clock, objects,
                   username, fault, offered, seen, ended>>

(* get_host, get_port, get_protocol: a copy of what never changes, but the *)
(* call needs prop_lock.                                                   *)
GetUrlPart(t) ==
    /\ Calls(t)
    /\ prop_lock = NoThread
    /\ UNCHANGED <<locks, authenticated, clock, objects, creds, pc, fault,
                   offered, seen, ended>>

(* The return of line 116 is before the unlock of line 117: the caller     *)
(* leaves with prop_lock.                                                  *)
GetSystemDateTime(t) ==
    /\ t \in TimeReaders
    /\ Calls(t)
    /\ prop_lock = NoThread
    /\ prop_lock' = t
    /\ UNCHANGED <<auth_lock, media_lock, authenticated, clock, objects, creds,
                   pc, fault, offered, seen, ended>>

(* The owner drops the last reference, no call being under way.  What no   *)
(* pointer names stays allocated.                                          *)
Dispose ==
    /\ ~disposed
    /\ \A t \in Threads : pc[t] = "idle"
    /\ disposed' = TRUE
    /\ live' = live \ {service[k] : k \in Kinds}
    /\ service' = [k \in Kinds |-> Null]
    /\ datetime' = 0
    /\ username' = Null /\ password' = Null
    /\ UNCHANGED <<locks, authenticated, time_offset, created, arg, pc, fault,
                   offered, seen, crashed>>

--------------------------------------------------------------------------------
Authenticate(t) ==
    \/ GetSystemDateAndTime(t) \/ SetTimeOffset(t) \/ SetDatetime(t)
    \/ CreateServicesCheck(t) \/ CreateServicesLock(t) \/ GetServices(t)
    \/ GetCapabilities(t) \/ (\E k \in Kinds : NewService(t, k))
    \/ CreateServicesUnlock(t)
    \/ GetStreamUri(t) \/ SetAuthenticated(t) \/ UnrefMedia1(t)
    \/ ClearMedia1(t) \/ AuthenticateUnlock(t)

(* A call that was begun goes on. *)
Continue(t) == ~crashed /\ (Authenticate(t) \/ SetPassword(t))

Begin(t) ==
    /\ ~crashed
    /\ \/ AuthenticateLock(t) \/ IsAuthenticated(t) \/ GetMediaService(t)
       \/ (\E c \in Credentials : SetUsername(t, c))
       \/ GetUrlPart(t) \/ GetSystemDateTime(t)

End == ~crashed /\ Dispose

(* The device, or the whole process, is gone. *)
Gone == (disposed \/ crashed) /\ UNCHANGED vars

Next == (\E t \in Threads : Begin(t) \/ Continue(t)) \/ End \/ Gone

Spec == Init /\ [][Next]_vars

(* The scheduler runs every thread and a SOAP call returns, by its         *)
(* timeouts (onvif_base_service.c:291-292) if need be.  Nobody is bound to *)
(* call again or to drop the device, and a mutex is not fair.              *)
FairSpec == Spec /\ \A t \in Threads : WF_vars(Continue(t))

--------------------------------------------------------------------------------
(* Properties. *)

(* Whoever takes auth_lock finds a media1 service exactly when the device  *)
(* is authenticated: authenticate's failure paths undo createServices.     *)
AuthenticatedIffMedia ==
    auth_lock = NoThread /\ ~disposed =>
        (authenticated <=> service["media1"] # Null)

(* authenticate reports a fault only of a device it left unauthenticated. *)
FaultMeansUnauthenticated ==
    \A t \in Threads :
        pc[t] = "exit" /\ fault[t] # "NONE" =>
            ~authenticated /\ service["media1"] = Null

(* However often authentication is retried, the only live media1 service   *)
(* is the one the device points to: none leaks, none is freed but named,   *)
(* except between the unref and the assignment of NULL after it.           *)
NoMedia1Leak ==
    /\ \A n \in 0..created :
        <<"media1", n>> \in live => service["media1"] = <<"media1", n>>
    /\ service["media1"] \in live \cup {Null}
        \/ \E t \in Threads : pc[t] = "clear_media1"

(* The order of client-test.c, is_authenticated and then                   *)
(* get_media_service, is safe: the bare pointer it yields is not NULL and  *)
(* does not dangle while the device lives, whatever other threads call.    *)
TrustedHandleLive ==
    ~disposed => \A t \in Threads : handle[t].trusted => handle[t].obj \in live

(* An authenticated device stays so and keeps its media1 service: the      *)
(* failure paths of a concurrent or later authenticate cannot touch it.    *)
AuthenticationSticky ==
    [][authenticated /\ ~disposed' =>
        authenticated' /\ service'["media1"] = service["media1"]]_vars

(* Concurrent authenticate calls store the camera's date once, so the      *)
(* pointer getSystemDateTime gave out stays good, and never before the     *)
(* offset that the unlocked getTimeOffset reads.                           *)
DatetimeOnce ==
    datetime <= 1 /\ (datetime = 1 => time_offset)

(* Two set_credentials never mix: user and pass are of one call whenever   *)
(* no set_credentials is between its two assignments.                      *)
CredentialsPaired ==
    (\A t \in Threads : pc[t] # "set_pass") => username = password

(* Whatever fails in authenticate is undone before its lock is released.   *)
FailureUndone == AuthenticatedIffMedia /\ FaultMeansUnauthenticated

(* The data that threads share without a lock of their own is whole.       *)
DataWhole == TypeOK /\ DatetimeOnce /\ CredentialsPaired

(* Only getSystemDateTime leaves a mutex locked behind a returned call. *)
LockedOnlyInsideCalls ==
    \A t \in Threads : pc[t] = "idle" =>
        /\ auth_lock # t /\ media_lock # t
        /\ prop_lock = t => t \in TimeReaders

(* getSystemDateTime has returned, and its mutex is locked: its caller is  *)
(* not where authenticate or set_credentials holds it.                     *)
Abandoned ==
    \E t \in TimeReaders : prop_lock = t /\ pc[t] \notin {"set_date", "set_pass"}

(* What that costs (line 116): from then on no thread is authenticated any *)
(* more and no credentials change; only the getters that take no lock      *)
(* still answer.                                                           *)
AbandonedLockBlocks ==
    [][Abandoned /\ ~disposed' =>
        /\ prop_lock' = prop_lock
        /\ UNCHANGED <<authenticated, username, password, clock>>]_vars

(* Every call returns, unless the process crashes, getSystemDateTime left  *)
(* its mutex locked, or other threads call set_credentials for ever: no    *)
(* order of the mutexes blocks it.                                         *)
CallsReturn ==
    \A t \in Threads :
        <>[](\A u \in Threads \ {t} : pc[u] # "set_pass") =>
            (pc[t] # "idle" ~> (pc[t] = "idle" \/ crashed \/ Abandoned))
================================================================================
