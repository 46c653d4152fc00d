--------------------------- MODULE OnvifDeviceProofs ---------------------------
(***************************************************************************)
(* Theorems about OnvifDevice, for any number of threads, of credentials   *)
(* and of authentication attempts.  The inductive invariant IInv ties each *)
(* thread's place in authenticate to the mutexes it holds and to the state *)
(* of the device there.                                                    *)
(***************************************************************************)
EXTENDS OnvifDevice, TLAPS

(* Who is where holds which mutex; a mutex is held only there, but for     *)
(* getSystemDateTime's prop_lock.                                          *)
Owners ==
    \A t \in Threads :
        /\ pc[t] \in AuthPlaces <=> auth_lock = t
        /\ media_lock = t => pc[t] \in CreatePlaces
        /\ pc[t] \in {"set_date", "set_pass"} => prop_lock = t
        /\ prop_lock = t => pc[t] \in {"set_date", "set_pass"} \/ t \in TimeReaders

(* The places before and after media1_service is created. *)
Before == {"get_time", "set_offset", "set_date", "check_media", "lock_media",
           "get_services", "get_caps", "media1"}
After == {"stream_uri", "set_auth", "unref_media1", "clear_media1"}
NoFault == Before \cup {"media2", "deviceio", "stream_uri", "set_auth",
                        "idle", "set_pass"}

(* How far authenticate is tells whether there is a media1 service, whether *)
(* the device is authenticated and whether a fault is pending.             *)
Phase(t) ==
    /\ pc[t] \in AuthPlaces \ {"exit"} => ~authenticated
    /\ pc[t] \in Before => service["media1"] = Null
    /\ pc[t] \in After => service["media1"] # Null
    /\ pc[t] \in NoFault => fault[t] = "NONE"
    /\ pc[t] = "unlock_media" /\ fault[t] # "NONE" => service["media1"] = Null
    /\ pc[t] = "exit" => /\ authenticated <=> service["media1"] # Null
                         /\ fault[t] # "NONE" => ~authenticated

Phases ==
    /\ \A t \in Threads : Phase(t)
    /\ AuthenticatedIffMedia
    /\ disposed => /\ service["media1"] = Null
                   /\ \A t \in Threads : pc[t] = "idle"

(* NoMedia1Leak for every object number. *)
Media1Objects ==
    /\ service["media1"] \in {Null} \cup ({"media1"} \X Nat)
    /\ \A n \in Nat : <<"media1", n>> \in live => service["media1"] = <<"media1", n>>
    /\ \A t \in Threads : pc[t] = "clear_media1" => service["media1"] \notin live
    /\ \/ service["media1"] \in live \cup {Null}
       \/ \E t \in Threads : pc[t] = "clear_media1"

(* The date is stored by the one thread that found none. *)
ClockState ==
    /\ DatetimeOnce
    /\ \A t \in Threads :
        /\ pc[t] \in {"get_time", "set_offset", "set_date"} => datetime = 0
        /\ pc[t] = "set_date" => time_offset

(* set_credentials between its assignments has the new pair in hand. *)
CredentialState ==
    /\ CredentialsPaired
    /\ \A t \in Threads : pc[t] = "set_pass" => arg[t] = username

(* What is_authenticated returned stays true. *)
Trust ==
    \A t \in Threads :
        /\ saw[t] => authenticated
        /\ handle[t].trusted =>
            authenticated /\ (~disposed => handle[t].obj = service["media1"])

IInv == TypeOK /\ Owners /\ Phases /\ Media1Objects /\ ClockState
            /\ CredentialState /\ Trust

(* A jump leads to a place of the code. *)
LEMMA GotoPlace ==
    ASSUME TypeOK, NEW t \in Threads, NEW place \in Places, Goto(t, place)
    PROVE  pc' \in [Threads -> Places]
BY DEF TypeOK, Goto

(* What a thread reports is a fault of SoapObject.h. *)
LEMMA RaiseFault ==
    ASSUME TypeOK, NEW t \in Threads, NEW f \in SoapFault, Raise(t, f)
    PROVE  fault' \in [Threads -> SoapFault]
BY DEF TypeOK, Raise

(* The places and faults named in the actions are places and faults. *)
LEMMA PlaceNames ==
    /\ Kinds \subseteq Places
    /\ {"media1", "get_services", "get_caps", "unlock_media", "get_time", "set_offset",
        "set_date", "check_media", "lock_media", "stream_uri", "set_auth",
        "unref_media1", "clear_media1", "exit", "idle", "set_pass"} \subseteq Places
    /\ Failures \subseteq SoapFault /\ FinalFaults \subseteq SoapFault
    /\ {"NONE", "UNEXPECTED"} \subseteq SoapFault
    /\ \A k \in Kinds : NextPlace[k] \in Places
BY DEF Kinds, Places, AuthPlaces, CreatePlaces, Failures, FinalFaults, SoapFault,
       NextPlace

(* Every step keeps every variable's type. *)
LEMMA TypeStep == TypeOK /\ [Next]_vars => TypeOK'
<1> SUFFICES ASSUME TypeOK, [Next]_vars PROVE TypeOK'
  OBVIOUS
<1> USE ThreadAssumption DEF locks, clock, objects, creds, seen, ended, Calls, At
<1>1. ASSUME NEW t \in Threads, AuthenticateLock(t) PROVE TypeOK'
  <2>1. pc' \in [Threads -> Places]
    BY <1>1, GotoPlace, PlaceNames DEF AuthenticateLock
  <2> QED
    BY <1>1, <2>1 DEF AuthenticateLock, TypeOK
<1>2. ASSUME NEW t \in Threads, GetSystemDateAndTime(t) PROVE TypeOK'
  <2>1. pc' \in [Threads -> Places]
    BY <1>2, GotoPlace, PlaceNames DEF GetSystemDateAndTime
  <2>2. fault' \in [Threads -> SoapFault]
    BY <1>2, RaiseFault, PlaceNames DEF GetSystemDateAndTime, TypeOK
  <2> QED
    BY <1>2, <2>1, <2>2 DEF GetSystemDateAndTime, TypeOK
<1>3. ASSUME NEW t \in Threads, SetTimeOffset(t) PROVE TypeOK'
  <2>1. pc' \in [Threads -> Places]
    BY <1>3, GotoPlace, PlaceNames DEF SetTimeOffset
  <2> QED
    BY <1>3, <2>1 DEF SetTimeOffset, TypeOK
<1>4. ASSUME NEW t \in Threads, SetDatetime(t) PROVE TypeOK'
  <2>1. pc' \in [Threads -> Places]
    BY <1>4, GotoPlace, PlaceNames DEF SetDatetime
  <2> QED
    BY <1>4, <2>1 DEF SetDatetime, TypeOK
<1>5. ASSUME NEW t \in Threads, CreateServicesCheck(t) PROVE TypeOK'
  <2>1. pc' \in [Threads -> Places]
    BY <1>5, GotoPlace, PlaceNames DEF CreateServicesCheck
  <2> QED
    BY <1>5, <2>1 DEF CreateServicesCheck, TypeOK
<1>6. ASSUME NEW t \in Threads, CreateServicesLock(t) PROVE TypeOK'
  <2>1. pc' \in [Threads -> Places]
    BY <1>6, GotoPlace, PlaceNames DEF CreateServicesLock
  <2> QED
    BY <1>6, <2>1 DEF CreateServicesLock, TypeOK
<1>7. ASSUME NEW t \in Threads, GetServices(t) PROVE TypeOK'
  <2>1. pc' \in [Threads -> Places]
    BY <1>7, GotoPlace, PlaceNames DEF GetServices
  <2>2. fault' \in [Threads -> SoapFault]
    BY <1>7, RaiseFault, PlaceNames DEF GetServices, TypeOK
  <2> QED
    BY <1>7, <2>1, <2>2 DEF GetServices, TypeOK
<1>8. ASSUME NEW t \in Threads, GetCapabilities(t) PROVE TypeOK'
  <2>1. pc' \in [Threads -> Places]
    BY <1>8, GotoPlace, PlaceNames DEF GetCapabilities, TypeOK
  <2>2. fault' \in [Threads -> SoapFault]
    BY <1>8, RaiseFault, PlaceNames DEF GetCapabilities, TypeOK
  <2>3. offered' \in [Threads -> SUBSET Kinds]
    BY <1>8 DEF GetCapabilities, TypeOK
  <2>4. crashed' \in BOOLEAN
    BY <1>8 DEF GetCapabilities, TypeOK
  <2> QED
    BY <1>8, <2>1, <2>2, <2>3, <2>4 DEF GetCapabilities, TypeOK
<1>9. ASSUME NEW t \in Threads, NEW k \in Kinds, NewService(t, k) PROVE TypeOK'
  <2>1. pc' \in [Threads -> Places]
    BY <1>9, GotoPlace, PlaceNames DEF NewService
  <2>2. <<k, created>> \in Objects
    BY DEF Objects, TypeOK
  <2>3. service' \in [Kinds -> Objects \cup {Null}]
    <3>1. CASE k \in offered[t]
      <4>1. service' = [service EXCEPT ![k] = <<k, created>>]
        BY <1>9, <3>1 DEF NewService
      <4> QED
        BY <2>2, <4>1 DEF TypeOK
    <3>2. CASE k \notin offered[t]
      BY <1>9, <3>2 DEF NewService, TypeOK
    <3> QED
      BY <3>1, <3>2
  <2>4. live' \subseteq Objects
    BY <1>9, <2>2 DEF NewService, TypeOK
  <2> QED
    BY <1>9, <2>1, <2>2, <2>3, <2>4 DEF NewService, TypeOK
<1>10. ASSUME NEW t \in Threads, CreateServicesUnlock(t) PROVE TypeOK'
  <2>1. pc' \in [Threads -> Places]
    BY <1>10, GotoPlace, PlaceNames DEF CreateServicesUnlock
  <2>2. fault' \in [Threads -> SoapFault]
    BY <1>10, RaiseFault, PlaceNames DEF CreateServicesUnlock, TypeOK
  <2> QED
    BY <1>10, <2>1, <2>2 DEF CreateServicesUnlock, TypeOK
<1>11. ASSUME NEW t \in Threads, GetStreamUri(t) PROVE TypeOK'
  <2>1. pc' \in [Threads -> Places]
    BY <1>11, GotoPlace, PlaceNames DEF GetStreamUri
  <2>2. fault' \in [Threads -> SoapFault]
    BY <1>11, RaiseFault, PlaceNames DEF GetStreamUri, TypeOK
  <2> QED
    BY <1>11, <2>1, <2>2 DEF GetStreamUri, TypeOK
<1>12. ASSUME NEW t \in Threads, SetAuthenticated(t) PROVE TypeOK'
  <2>1. pc' \in [Threads -> Places]
    BY <1>12, GotoPlace, PlaceNames DEF SetAuthenticated
  <2> QED
    BY <1>12, <2>1 DEF SetAuthenticated, TypeOK
<1>13. ASSUME NEW t \in Threads, UnrefMedia1(t) PROVE TypeOK'
  <2>1. pc' \in [Threads -> Places]
    BY <1>13, GotoPlace, PlaceNames DEF UnrefMedia1
  <2> QED
    BY <1>13, <2>1 DEF UnrefMedia1, TypeOK
<1>14. ASSUME NEW t \in Threads, ClearMedia1(t) PROVE TypeOK'
  <2>1. pc' \in [Threads -> Places]
    BY <1>14, GotoPlace, PlaceNames DEF ClearMedia1
  <2> QED
    BY <1>14, <2>1 DEF ClearMedia1, TypeOK
<1>15. ASSUME NEW t \in Threads, AuthenticateUnlock(t) PROVE TypeOK'
  <2>1. pc' \in [Threads -> Places]
    BY <1>15, GotoPlace, PlaceNames DEF AuthenticateUnlock
  <2>2. fault' \in [Threads -> SoapFault]
    BY <1>15, RaiseFault, PlaceNames DEF AuthenticateUnlock, TypeOK
  <2> QED
    BY <1>15, <2>1, <2>2 DEF AuthenticateUnlock, TypeOK
<1>16. ASSUME NEW t \in Threads, IsAuthenticated(t) PROVE TypeOK'
  BY <1>16 DEF IsAuthenticated, TypeOK
<1>17. ASSUME NEW t \in Threads, GetMediaService(t) PROVE TypeOK'
  <2>1. service["media1"] \in Objects \cup {Null} /\ saw[t] \in BOOLEAN
    BY DEF TypeOK, Kinds
  <2>2. [obj |-> service["media1"], trusted |-> saw[t]]
          \in [obj: Objects \cup {Null}, trusted: BOOLEAN]
    BY <2>1
  <2>3. handle' \in [Threads -> [obj: Objects \cup {Null}, trusted: BOOLEAN]]
    BY <1>17, <2>2 DEF GetMediaService, TypeOK
  <2> QED
    BY <1>17, <2>1, <2>2, <2>3 DEF GetMediaService, TypeOK
<1>18. ASSUME NEW t \in Threads, NEW c \in Credentials, SetUsername(t, c)
       PROVE  TypeOK'
  <2>1. pc' \in [Threads -> Places]
    BY <1>18, GotoPlace, PlaceNames DEF SetUsername
  <2> QED
    BY <1>18, <2>1 DEF SetUsername, TypeOK
<1>19. ASSUME NEW t \in Threads, SetPassword(t) PROVE TypeOK'
  <2>1. pc' \in [Threads -> Places]
    BY <1>19, GotoPlace, PlaceNames DEF SetPassword
  <2> QED
    BY <1>19, <2>1 DEF SetPassword, TypeOK
<1>20. ASSUME NEW t \in Threads, GetUrlPart(t) PROVE TypeOK'
  BY <1>20 DEF GetUrlPart, TypeOK
<1>21. ASSUME NEW t \in Threads, GetSystemDateTime(t) PROVE TypeOK'
  BY <1>21 DEF GetSystemDateTime, TypeOK
<1>22. CASE Dispose
  BY <1>22 DEF Dispose, TypeOK
<1>23. CASE UNCHANGED vars
  BY <1>23 DEF vars, TypeOK
<1> QED
  BY <1>1, <1>2, <1>3, <1>4, <1>5, <1>6, <1>7, <1>8, <1>9, <1>10, <1>11,
     <1>12, <1>13, <1>14, <1>15, <1>16, <1>17, <1>18, <1>19, <1>20, <1>21,
     <1>22, <1>23
  DEF Next, Begin, Continue, Authenticate, End, Gone

(* A jump moves the thread that makes it and no other. *)
LEMMA GotoEffect ==
    ASSUME TypeOK, NEW t \in Threads, NEW place, Goto(t, place)
    PROVE  /\ pc'[t] = place
           /\ \A u \in Threads \ {t} : pc'[u] = pc[u]
BY DEF TypeOK, Goto

(* A thread reports its own fault. *)
LEMMA RaiseEffect ==
    ASSUME TypeOK, NEW t \in Threads, NEW f, Raise(t, f)
    PROVE  /\ fault'[t] = f
           /\ \A u \in Threads \ {t} : fault'[u] = fault[u]
BY DEF TypeOK, Raise

(* Every lock and unlock is where the thread's place says it is. *)
LEMMA OwnersStep == TypeOK /\ Owners /\ [Next]_vars => Owners'
<1> SUFFICES ASSUME TypeOK /\ Owners, [Next]_vars PROVE Owners'
  OBVIOUS
<1> USE ThreadAssumption DEF locks, clock, objects, creds, seen, ended,
        Calls, At, TypeOK, Owners, Places, AuthPlaces, CreatePlaces
<1>1. ASSUME NEW t \in Threads, AuthenticateLock(t) PROVE Owners'
  BY <1>1, GotoEffect DEF AuthenticateLock
<1>2. ASSUME NEW t \in Threads, GetSystemDateAndTime(t) PROVE Owners'
  BY <1>2, GotoEffect DEF GetSystemDateAndTime, TypeOK, Owners, Places,
     AuthPlaces, CreatePlaces
<1>3. ASSUME NEW t \in Threads, SetTimeOffset(t) PROVE Owners'
  BY <1>3, GotoEffect DEF SetTimeOffset
<1>4. ASSUME NEW t \in Threads, SetDatetime(t) PROVE Owners'
  BY <1>4, GotoEffect DEF SetDatetime
<1>5. ASSUME NEW t \in Threads, CreateServicesCheck(t) PROVE Owners'
  BY <1>5, GotoEffect DEF CreateServicesCheck
<1>6. ASSUME NEW t \in Threads, CreateServicesLock(t) PROVE Owners'
  BY <1>6, GotoEffect DEF CreateServicesLock
<1>7. ASSUME NEW t \in Threads, GetServices(t) PROVE Owners'
  BY <1>7, GotoEffect DEF GetServices
<1>8. ASSUME NEW t \in Threads, GetCapabilities(t) PROVE Owners'
  BY <1>8, GotoEffect DEF GetCapabilities
<1>9. ASSUME NEW t \in Threads, NEW k \in Kinds, NewService(t, k) PROVE Owners'
  BY <1>9, GotoEffect DEF NewService, NextPlace, Kinds
<1>10. ASSUME NEW t \in Threads, CreateServicesUnlock(t) PROVE Owners'
  BY <1>10, GotoEffect DEF CreateServicesUnlock
<1>11. ASSUME NEW t \in Threads, GetStreamUri(t) PROVE Owners'
  BY <1>11, GotoEffect DEF GetStreamUri
<1>12. ASSUME NEW t \in Threads, SetAuthenticated(t) PROVE Owners'
  BY <1>12, GotoEffect DEF SetAuthenticated
<1>13. ASSUME NEW t \in Threads, UnrefMedia1(t) PROVE Owners'
  BY <1>13, GotoEffect DEF UnrefMedia1
<1>14. ASSUME NEW t \in Threads, ClearMedia1(t) PROVE Owners'
  BY <1>14, GotoEffect DEF ClearMedia1
<1>15. ASSUME NEW t \in Threads, AuthenticateUnlock(t) PROVE Owners'
  BY <1>15, GotoEffect DEF AuthenticateUnlock
<1>16. ASSUME NEW t \in Threads, IsAuthenticated(t) PROVE Owners'
  BY <1>16 DEF IsAuthenticated
<1>17. ASSUME NEW t \in Threads, GetMediaService(t) PROVE Owners'
  BY <1>17 DEF GetMediaService
<1>18. ASSUME NEW t \in Threads, NEW c \in Credentials, SetUsername(t, c)
       PROVE  Owners'
  BY <1>18, GotoEffect DEF SetUsername
<1>19. ASSUME NEW t \in Threads, SetPassword(t) PROVE Owners'
  BY <1>19, GotoEffect DEF SetPassword
<1>20. ASSUME NEW t \in Threads, GetUrlPart(t) PROVE Owners'
  BY <1>20 DEF GetUrlPart
<1>21. ASSUME NEW t \in Threads, GetSystemDateTime(t) PROVE Owners'
  BY <1>21 DEF GetSystemDateTime
<1>22. CASE Dispose
  BY <1>22 DEF Dispose
<1>23. CASE UNCHANGED vars
  BY <1>23 DEF vars
<1> QED
  BY <1>1, <1>2, <1>3, <1>4, <1>5, <1>6, <1>7, <1>8, <1>9, <1>10, <1>11,
     <1>12, <1>13, <1>14, <1>15, <1>16, <1>17, <1>18, <1>19, <1>20, <1>21,
     <1>22, <1>23
  DEF Next, Begin, Continue, Authenticate, End, Gone

(* Every step of authenticate leaves the device as the next one expects    *)
(* it, other calls do not disturb it, and whoever releases auth_lock       *)
(* leaves authenticated and media1_service in agreement.                   *)
LEMMA PhasesStep == TypeOK /\ Owners /\ Phases /\ [Next]_vars => Phases'
<1> SUFFICES ASSUME TypeOK /\ Owners /\ Phases, [Next]_vars PROVE Phases'
  OBVIOUS
<1> USE ThreadAssumption DEF locks, clock, objects, creds, seen, ended,
        Calls, At, TypeOK, Owners, Phases, Phase, AuthenticatedIffMedia, Before,
        After, NoFault, Places, AuthPlaces, CreatePlaces
<1>1. ASSUME NEW t \in Threads, AuthenticateLock(t) PROVE Phases'
  BY <1>1, GotoEffect DEF AuthenticateLock
<1>2. ASSUME NEW t \in Threads, GetSystemDateAndTime(t) PROVE Phases'
  BY <1>2, GotoEffect, RaiseEffect DEF GetSystemDateAndTime, TypeOK, Owners,
     Phases, Phase, AuthenticatedIffMedia, Before, After, NoFault, Places,
     AuthPlaces, CreatePlaces
<1>3. ASSUME NEW t \in Threads, SetTimeOffset(t) PROVE Phases'
  BY <1>3, GotoEffect DEF SetTimeOffset
<1>4. ASSUME NEW t \in Threads, SetDatetime(t) PROVE Phases'
  BY <1>4, GotoEffect DEF SetDatetime
<1>5. ASSUME NEW t \in Threads, CreateServicesCheck(t) PROVE Phases'
  BY <1>5, GotoEffect DEF CreateServicesCheck
<1>6. ASSUME NEW t \in Threads, CreateServicesLock(t) PROVE Phases'
  BY <1>6, GotoEffect DEF CreateServicesLock
<1>7. ASSUME NEW t \in Threads, GetServices(t) PROVE Phases'
  BY <1>7, GotoEffect, RaiseEffect DEF GetServices
<1>8. ASSUME NEW t \in Threads, GetCapabilities(t) PROVE Phases'
  BY <1>8, GotoEffect, RaiseEffect DEF GetCapabilities
<1>9. ASSUME NEW t \in Threads, NEW k \in Kinds, NewService(t, k) PROVE Phases'
  BY <1>9, GotoEffect DEF NewService, NextPlace, Kinds
<1>10. ASSUME NEW t \in Threads, CreateServicesUnlock(t) PROVE Phases'
  BY <1>10, GotoEffect, RaiseEffect DEF CreateServicesUnlock
<1>11. ASSUME NEW t \in Threads, GetStreamUri(t) PROVE Phases'
  BY <1>11, GotoEffect, RaiseEffect DEF GetStreamUri
<1>12. ASSUME NEW t \in Threads, SetAuthenticated(t) PROVE Phases'
  BY <1>12, GotoEffect DEF SetAuthenticated
<1>13. ASSUME NEW t \in Threads, UnrefMedia1(t) PROVE Phases'
  BY <1>13, GotoEffect DEF UnrefMedia1
<1>14. ASSUME NEW t \in Threads, ClearMedia1(t) PROVE Phases'
  BY <1>14, GotoEffect DEF ClearMedia1, Kinds
<1>15. ASSUME NEW t \in Threads, AuthenticateUnlock(t) PROVE Phases'
  BY <1>15, GotoEffect, RaiseEffect DEF AuthenticateUnlock
<1>16. ASSUME NEW t \in Threads, IsAuthenticated(t) PROVE Phases'
  BY <1>16 DEF IsAuthenticated
<1>17. ASSUME NEW t \in Threads, GetMediaService(t) PROVE Phases'
  BY <1>17 DEF GetMediaService
<1>18. ASSUME NEW t \in Threads, NEW c \in Credentials, SetUsername(t, c)
       PROVE  Phases'
  BY <1>18, GotoEffect DEF SetUsername
<1>19. ASSUME NEW t \in Threads, SetPassword(t) PROVE Phases'
  BY <1>19, GotoEffect DEF SetPassword
<1>20. ASSUME NEW t \in Threads, GetUrlPart(t) PROVE Phases'
  BY <1>20 DEF GetUrlPart
<1>21. ASSUME NEW t \in Threads, GetSystemDateTime(t) PROVE Phases'
  BY <1>21 DEF GetSystemDateTime
<1>22. CASE Dispose
  BY <1>22 DEF Dispose, Kinds
<1>23. CASE UNCHANGED vars
  BY <1>23 DEF vars
<1> QED
  BY <1>1, <1>2, <1>3, <1>4, <1>5, <1>6, <1>7, <1>8, <1>9, <1>10, <1>11,
     <1>12, <1>13, <1>14, <1>15, <1>16, <1>17, <1>18, <1>19, <1>20, <1>21,
     <1>22, <1>23
  DEF Next, Begin, Continue, Authenticate, End, Gone

(* createServices makes a media1 service only when there is none, and a    *)
(* failing authenticate frees the one it clears.                           *)
LEMMA ObjectsStep ==
    TypeOK /\ Owners /\ Phases /\ Media1Objects /\ [Next]_vars => Media1Objects'
<1> SUFFICES ASSUME TypeOK /\ Owners /\ Phases /\ Media1Objects, [Next]_vars
             PROVE  Media1Objects'
  OBVIOUS
<1> USE ThreadAssumption, NullAssumption DEF locks, clock, objects, creds,
        seen, ended, Calls, At, TypeOK, Owners, Phases, Phase, Media1Objects,
        Before, After, Places, AuthPlaces, CreatePlaces
<1>1. ASSUME NEW t \in Threads, AuthenticateLock(t) PROVE Media1Objects'
  BY <1>1, GotoEffect DEF AuthenticateLock
<1>2. ASSUME NEW t \in Threads, GetSystemDateAndTime(t) PROVE Media1Objects'
  BY <1>2, GotoEffect DEF GetSystemDateAndTime, TypeOK, Owners, Phases,
     Phase, Media1Objects, Before, After, Places, AuthPlaces, CreatePlaces
<1>3. ASSUME NEW t \in Threads, SetTimeOffset(t) PROVE Media1Objects'
  BY <1>3, GotoEffect DEF SetTimeOffset
<1>4. ASSUME NEW t \in Threads, SetDatetime(t) PROVE Media1Objects'
  BY <1>4, GotoEffect DEF SetDatetime
<1>5. ASSUME NEW t \in Threads, CreateServicesCheck(t) PROVE Media1Objects'
  BY <1>5, GotoEffect DEF CreateServicesCheck
<1>6. ASSUME NEW t \in Threads, CreateServicesLock(t) PROVE Media1Objects'
  BY <1>6, GotoEffect DEF CreateServicesLock
<1>7. ASSUME NEW t \in Threads, GetServices(t) PROVE Media1Objects'
  BY <1>7, GotoEffect DEF GetServices
<1>8. ASSUME NEW t \in Threads, GetCapabilities(t) PROVE Media1Objects'
  BY <1>8, GotoEffect DEF GetCapabilities
<1>9. ASSUME NEW t \in Threads, NEW k \in Kinds, NewService(t, k)
      PROVE  Media1Objects'
  BY <1>9, GotoEffect DEF NewService, NextPlace, Kinds
<1>10. ASSUME NEW t \in Threads, CreateServicesUnlock(t) PROVE Media1Objects'
  BY <1>10, GotoEffect DEF CreateServicesUnlock
<1>11. ASSUME NEW t \in Threads, GetStreamUri(t) PROVE Media1Objects'
  BY <1>11, GotoEffect DEF GetStreamUri
<1>12. ASSUME NEW t \in Threads, SetAuthenticated(t) PROVE Media1Objects'
  BY <1>12, GotoEffect DEF SetAuthenticated
<1>13. ASSUME NEW t \in Threads, UnrefMedia1(t) PROVE Media1Objects'
  BY <1>13, GotoEffect DEF UnrefMedia1
<1>14. ASSUME NEW t \in Threads, ClearMedia1(t) PROVE Media1Objects'
  <2>1. service'["media1"] = Null /\ live' = live
    BY <1>14 DEF ClearMedia1, TypeOK, Kinds
  <2>2. \A n \in Nat : <<"media1", n>> \notin live
    BY <1>14 DEF ClearMedia1, Media1Objects
  <2>3. \A u \in Threads : pc'[u] # "clear_media1"
    BY <1>14, GotoEffect DEF ClearMedia1, Owners, AuthPlaces, CreatePlaces
  <2> QED
    BY <2>1, <2>2, <2>3 DEF Media1Objects
<1>15. ASSUME NEW t \in Threads, AuthenticateUnlock(t) PROVE Media1Objects'
  BY <1>15, GotoEffect DEF AuthenticateUnlock
<1>16. ASSUME NEW t \in Threads, IsAuthenticated(t) PROVE Media1Objects'
  BY <1>16 DEF IsAuthenticated
<1>17. ASSUME NEW t \in Threads, GetMediaService(t) PROVE Media1Objects'
  BY <1>17 DEF GetMediaService
<1>18. ASSUME NEW t \in Threads, NEW c \in Credentials, SetUsername(t, c)
       PROVE  Media1Objects'
  BY <1>18, GotoEffect DEF SetUsername
<1>19. ASSUME NEW t \in Threads, SetPassword(t) PROVE Media1Objects'
  BY <1>19, GotoEffect DEF SetPassword
<1>20. ASSUME NEW t \in Threads, GetUrlPart(t) PROVE Media1Objects'
  BY <1>20 DEF GetUrlPart
<1>21. ASSUME NEW t \in Threads, GetSystemDateTime(t) PROVE Media1Objects'
  BY <1>21 DEF GetSystemDateTime
<1>22. CASE Dispose
  BY <1>22 DEF Dispose, Kinds
<1>23. CASE UNCHANGED vars
  BY <1>23 DEF vars
<1> QED
  BY <1>1, <1>2, <1>3, <1>4, <1>5, <1>6, <1>7, <1>8, <1>9, <1>10, <1>11,
     <1>12, <1>13, <1>14, <1>15, <1>16, <1>17, <1>18, <1>19, <1>20, <1>21,
     <1>22, <1>23
  DEF Next, Begin, Continue, Authenticate, End, Gone

(* The thread that stores the date is the only one between reading that    *)
(* there is none and storing it.                                           *)
LEMMA ClockStep == TypeOK /\ Owners /\ ClockState /\ [Next]_vars => ClockState'
<1> SUFFICES ASSUME TypeOK /\ Owners /\ ClockState, [Next]_vars PROVE ClockState'
  OBVIOUS
<1> USE ThreadAssumption DEF locks, clock, objects, creds, seen, ended,
        Calls, At, TypeOK, Owners, ClockState, DatetimeOnce, Places, AuthPlaces,
        CreatePlaces
<1>1. ASSUME NEW t \in Threads, AuthenticateLock(t) PROVE ClockState'
  BY <1>1, GotoEffect DEF AuthenticateLock
<1>2. ASSUME NEW t \in Threads, GetSystemDateAndTime(t) PROVE ClockState'
  BY <1>2, GotoEffect DEF GetSystemDateAndTime, TypeOK, Owners, ClockState,
     DatetimeOnce, Places, AuthPlaces, CreatePlaces
<1>3. ASSUME NEW t \in Threads, SetTimeOffset(t) PROVE ClockState'
  BY <1>3, GotoEffect DEF SetTimeOffset
<1>4. ASSUME NEW t \in Threads, SetDatetime(t) PROVE ClockState'
  BY <1>4, GotoEffect DEF SetDatetime
<1>5. ASSUME NEW t \in Threads, CreateServicesCheck(t) PROVE ClockState'
  BY <1>5, GotoEffect DEF CreateServicesCheck
<1>6. ASSUME NEW t \in Threads, CreateServicesLock(t) PROVE ClockState'
  BY <1>6, GotoEffect DEF CreateServicesLock
<1>7. ASSUME NEW t \in Threads, GetServices(t) PROVE ClockState'
  BY <1>7, GotoEffect DEF GetServices
<1>8. ASSUME NEW t \in Threads, GetCapabilities(t) PROVE ClockState'
  BY <1>8, GotoEffect DEF GetCapabilities
<1>9. ASSUME NEW t \in Threads, NEW k \in Kinds, NewService(t, k)
      PROVE  ClockState'
  BY <1>9, GotoEffect DEF NewService, NextPlace, Kinds
<1>10. ASSUME NEW t \in Threads, CreateServicesUnlock(t) PROVE ClockState'
  BY <1>10, GotoEffect DEF CreateServicesUnlock
<1>11. ASSUME NEW t \in Threads, GetStreamUri(t) PROVE ClockState'
  BY <1>11, GotoEffect DEF GetStreamUri
<1>12. ASSUME NEW t \in Threads, SetAuthenticated(t) PROVE ClockState'
  BY <1>12, GotoEffect DEF SetAuthenticated
<1>13. ASSUME NEW t \in Threads, UnrefMedia1(t) PROVE ClockState'
  BY <1>13, GotoEffect DEF UnrefMedia1
<1>14. ASSUME NEW t \in Threads, ClearMedia1(t) PROVE ClockState'
  BY <1>14, GotoEffect DEF ClearMedia1
<1>15. ASSUME NEW t \in Threads, AuthenticateUnlock(t) PROVE ClockState'
  BY <1>15, GotoEffect DEF AuthenticateUnlock
<1>16. ASSUME NEW t \in Threads, IsAuthenticated(t) PROVE ClockState'
  BY <1>16 DEF IsAuthenticated
<1>17. ASSUME NEW t \in Threads, GetMediaService(t) PROVE ClockState'
  BY <1>17 DEF GetMediaService
<1>18. ASSUME NEW t \in Threads, NEW c \in Credentials, SetUsername(t, c)
       PROVE  ClockState'
  BY <1>18, GotoEffect DEF SetUsername
<1>19. ASSUME NEW t \in Threads, SetPassword(t) PROVE ClockState'
  BY <1>19, GotoEffect DEF SetPassword
<1>20. ASSUME NEW t \in Threads, GetUrlPart(t) PROVE ClockState'
  BY <1>20 DEF GetUrlPart
<1>21. ASSUME NEW t \in Threads, GetSystemDateTime(t) PROVE ClockState'
  BY <1>21 DEF GetSystemDateTime
<1>22. CASE Dispose
  BY <1>22 DEF Dispose
<1>23. CASE UNCHANGED vars
  BY <1>23 DEF vars
<1> QED
  BY <1>1, <1>2, <1>3, <1>4, <1>5, <1>6, <1>7, <1>8, <1>9, <1>10, <1>11,
     <1>12, <1>13, <1>14, <1>15, <1>16, <1>17, <1>18, <1>19, <1>20, <1>21,
     <1>22, <1>23
  DEF Next, Begin, Continue, Authenticate, End, Gone

(* The second assignment of set_credentials is of the call that made the   *)
(* first.                                                                  *)
LEMMA CredentialStep ==
    TypeOK /\ Owners /\ CredentialState /\ [Next]_vars => CredentialState'
<1> SUFFICES ASSUME TypeOK /\ Owners /\ CredentialState, [Next]_vars
             PROVE  CredentialState'
  OBVIOUS
<1> USE ThreadAssumption DEF locks, clock, objects, creds, seen, ended,
        Calls, At, TypeOK, Owners, CredentialState, CredentialsPaired
<1>1. ASSUME NEW t \in Threads, AuthenticateLock(t) PROVE CredentialState'
  BY <1>1, GotoEffect DEF AuthenticateLock
<1>2. ASSUME NEW t \in Threads, GetSystemDateAndTime(t) PROVE CredentialState'
  BY <1>2, GotoEffect DEF GetSystemDateAndTime, TypeOK, Owners,
     CredentialState, CredentialsPaired
<1>3. ASSUME NEW t \in Threads, SetTimeOffset(t) PROVE CredentialState'
  BY <1>3, GotoEffect DEF SetTimeOffset
<1>4. ASSUME NEW t \in Threads, SetDatetime(t) PROVE CredentialState'
  BY <1>4, GotoEffect DEF SetDatetime
<1>5. ASSUME NEW t \in Threads, CreateServicesCheck(t) PROVE CredentialState'
  BY <1>5, GotoEffect DEF CreateServicesCheck
<1>6. ASSUME NEW t \in Threads, CreateServicesLock(t) PROVE CredentialState'
  BY <1>6, GotoEffect DEF CreateServicesLock
<1>7. ASSUME NEW t \in Threads, GetServices(t) PROVE CredentialState'
  BY <1>7, GotoEffect DEF GetServices
<1>8. ASSUME NEW t \in Threads, GetCapabilities(t) PROVE CredentialState'
  BY <1>8, GotoEffect DEF GetCapabilities
<1>9. ASSUME NEW t \in Threads, NEW k \in Kinds, NewService(t, k)
      PROVE  CredentialState'
  BY <1>9, GotoEffect DEF NewService, NextPlace, Kinds
<1>10. ASSUME NEW t \in Threads, CreateServicesUnlock(t) PROVE CredentialState'
  BY <1>10, GotoEffect DEF CreateServicesUnlock
<1>11. ASSUME NEW t \in Threads, GetStreamUri(t) PROVE CredentialState'
  BY <1>11, GotoEffect DEF GetStreamUri
<1>12. ASSUME NEW t \in Threads, SetAuthenticated(t) PROVE CredentialState'
  BY <1>12, GotoEffect DEF SetAuthenticated
<1>13. ASSUME NEW t \in Threads, UnrefMedia1(t) PROVE CredentialState'
  BY <1>13, GotoEffect DEF UnrefMedia1
<1>14. ASSUME NEW t \in Threads, ClearMedia1(t) PROVE CredentialState'
  BY <1>14, GotoEffect DEF ClearMedia1
<1>15. ASSUME NEW t \in Threads, AuthenticateUnlock(t) PROVE CredentialState'
  BY <1>15, GotoEffect DEF AuthenticateUnlock
<1>16. ASSUME NEW t \in Threads, IsAuthenticated(t) PROVE CredentialState'
  BY <1>16 DEF IsAuthenticated
<1>17. ASSUME NEW t \in Threads, GetMediaService(t) PROVE CredentialState'
  BY <1>17 DEF GetMediaService
<1>18. ASSUME NEW t \in Threads, NEW c \in Credentials, SetUsername(t, c)
       PROVE  CredentialState'
  BY <1>18, GotoEffect DEF SetUsername
<1>19. ASSUME NEW t \in Threads, SetPassword(t) PROVE CredentialState'
  BY <1>19, GotoEffect DEF SetPassword
<1>20. ASSUME NEW t \in Threads, GetUrlPart(t) PROVE CredentialState'
  BY <1>20 DEF GetUrlPart
<1>21. ASSUME NEW t \in Threads, GetSystemDateTime(t) PROVE CredentialState'
  BY <1>21 DEF GetSystemDateTime
<1>22. CASE Dispose
  BY <1>22 DEF Dispose
<1>23. CASE UNCHANGED vars
  BY <1>23 DEF vars
<1> QED
  BY <1>1, <1>2, <1>3, <1>4, <1>5, <1>6, <1>7, <1>8, <1>9, <1>10, <1>11,
     <1>12, <1>13, <1>14, <1>15, <1>16, <1>17, <1>18, <1>19, <1>20, <1>21,
     <1>22, <1>23
  DEF Next, Begin, Continue, Authenticate, End, Gone

(* No step takes back what is_authenticated said. *)
LEMMA TrustStep == TypeOK /\ Owners /\ Phases /\ Trust /\ [Next]_vars => Trust'
<1> SUFFICES ASSUME TypeOK /\ Owners /\ Phases /\ Trust, [Next]_vars PROVE Trust'
  OBVIOUS
<1> USE ThreadAssumption DEF locks, clock, objects, creds, seen, ended,
        Calls, At, TypeOK, Owners, Phases, Phase, Trust, After, Before, Places,
        AuthPlaces, CreatePlaces
<1>1. ASSUME NEW t \in Threads, AuthenticateLock(t) PROVE Trust'
  BY <1>1, GotoEffect DEF AuthenticateLock
<1>2. ASSUME NEW t \in Threads, GetSystemDateAndTime(t) PROVE Trust'
  BY <1>2, GotoEffect DEF GetSystemDateAndTime, TypeOK, Owners, Phases,
     Phase, Trust, After, Before, Places, AuthPlaces, CreatePlaces
<1>3. ASSUME NEW t \in Threads, SetTimeOffset(t) PROVE Trust'
  BY <1>3, GotoEffect DEF SetTimeOffset
<1>4. ASSUME NEW t \in Threads, SetDatetime(t) PROVE Trust'
  BY <1>4, GotoEffect DEF SetDatetime
<1>5. ASSUME NEW t \in Threads, CreateServicesCheck(t) PROVE Trust'
  BY <1>5, GotoEffect DEF CreateServicesCheck
<1>6. ASSUME NEW t \in Threads, CreateServicesLock(t) PROVE Trust'
  BY <1>6, GotoEffect DEF CreateServicesLock
<1>7. ASSUME NEW t \in Threads, GetServices(t) PROVE Trust'
  BY <1>7, GotoEffect DEF GetServices
<1>8. ASSUME NEW t \in Threads, GetCapabilities(t) PROVE Trust'
  BY <1>8, GotoEffect DEF GetCapabilities
<1>9. ASSUME NEW t \in Threads, NEW k \in Kinds, NewService(t, k) PROVE Trust'
  BY <1>9, GotoEffect DEF NewService, NextPlace, Kinds
<1>10. ASSUME NEW t \in Threads, CreateServicesUnlock(t) PROVE Trust'
  BY <1>10, GotoEffect DEF CreateServicesUnlock
<1>11. ASSUME NEW t \in Threads, GetStreamUri(t) PROVE Trust'
  BY <1>11, GotoEffect DEF GetStreamUri
<1>12. ASSUME NEW t \in Threads, SetAuthenticated(t) PROVE Trust'
  BY <1>12, GotoEffect DEF SetAuthenticated
<1>13. ASSUME NEW t \in Threads, UnrefMedia1(t) PROVE Trust'
  BY <1>13, GotoEffect DEF UnrefMedia1
<1>14. ASSUME NEW t \in Threads, ClearMedia1(t) PROVE Trust'
  BY <1>14, GotoEffect DEF ClearMedia1
<1>15. ASSUME NEW t \in Threads, AuthenticateUnlock(t) PROVE Trust'
  BY <1>15, GotoEffect DEF AuthenticateUnlock
<1>16. ASSUME NEW t \in Threads, IsAuthenticated(t) PROVE Trust'
  BY <1>16 DEF IsAuthenticated
<1>17. ASSUME NEW t \in Threads, GetMediaService(t) PROVE Trust'
  BY <1>17 DEF GetMediaService
<1>18. ASSUME NEW t \in Threads, NEW c \in Credentials, SetUsername(t, c)
       PROVE  Trust'
  BY <1>18, GotoEffect DEF SetUsername
<1>19. ASSUME NEW t \in Threads, SetPassword(t) PROVE Trust'
  BY <1>19, GotoEffect DEF SetPassword
<1>20. ASSUME NEW t \in Threads, GetUrlPart(t) PROVE Trust'
  BY <1>20 DEF GetUrlPart
<1>21. ASSUME NEW t \in Threads, GetSystemDateTime(t) PROVE Trust'
  BY <1>21 DEF GetSystemDateTime
<1>22. CASE Dispose
  BY <1>22 DEF Dispose
<1>23. CASE UNCHANGED vars
  BY <1>23 DEF vars
<1> QED
  BY <1>1, <1>2, <1>3, <1>4, <1>5, <1>6, <1>7, <1>8, <1>9, <1>10, <1>11,
     <1>12, <1>13, <1>14, <1>15, <1>16, <1>17, <1>18, <1>19, <1>20, <1>21,
     <1>22, <1>23
  DEF Next, Begin, Continue, Authenticate, End, Gone

(* The invariant holds of a device just created. *)
LEMMA InitialState == Init => IInv
<1> SUFFICES ASSUME Init PROVE IInv
  OBVIOUS
<1> USE DEF Init
<1>1. TypeOK
  BY DEF TypeOK, Places, SoapFault
<1>2. Owners
  BY ThreadAssumption DEF Owners, AuthPlaces, CreatePlaces
<1>3. Phases
  BY DEF Phases, Phase, AuthenticatedIffMedia, Before, After, NoFault, AuthPlaces,
         CreatePlaces, Kinds
<1>4. Media1Objects
  BY DEF Media1Objects, Kinds
<1>5. ClockState /\ CredentialState /\ Trust
  BY DEF ClockState, DatetimeOnce, CredentialState, CredentialsPaired, Trust
<1> QED
  BY <1>1, <1>2, <1>3, <1>4, <1>5 DEF IInv

(* The inductive invariant: the places of the threads, the mutexes and the *)
(* fields of the device agree after any calls of any number of threads.    *)
THEOREM Invariance == Spec => []IInv
<1>1. IInv /\ [Next]_vars => IInv'
  BY TypeStep, OwnersStep, PhasesStep, ObjectsStep, ClockStep, CredentialStep,
     TrustStep DEF IInv
<1> QED
  BY InitialState, <1>1, PTL DEF Spec

(* Every variable keeps its type. *)
THEOREM TypeCorrect == Spec => []TypeOK
<1>1. IInv => TypeOK
  BY DEF IInv
<1> QED
  BY Invariance, <1>1, PTL

(* Between calls, authenticated and having a media1 service are one (what   *)
(* authenticate's failure paths, lines 205-206 and 221-222, are for).       *)
THEOREM AuthenticatedHasMedia == Spec => []AuthenticatedIffMedia
<1>1. IInv => AuthenticatedIffMedia
  BY DEF IInv, Phases
<1> QED
  BY Invariance, <1>1, PTL

(* A fault returned by authenticate is a fault of an unauthenticated device. *)
THEOREM FaultsAreHonest == Spec => []FaultMeansUnauthenticated
<1>1. IInv => FaultMeansUnauthenticated
  BY DEF IInv, Phases, Phase, FaultMeansUnauthenticated
<1> QED
  BY Invariance, <1>1, PTL

(* What an authenticate did before it failed is undone when it returns. *)
THEOREM FailuresAreUndone == Spec => []FailureUndone
BY AuthenticatedHasMedia, FaultsAreHonest, PTL DEF FailureUndone

(* No sequence of failed and retried authentications leaks a media1 service *)
(* or frees the one the device names.                                       *)
THEOREM Media1IsOwned == Spec => []NoMedia1Leak
<1>1. IInv => NoMedia1Leak
  BY DEF IInv, TypeOK, Media1Objects, NoMedia1Leak
<1> QED
  BY Invariance, <1>1, PTL

(* is_authenticated, then get_media_service: the pointer is good while the  *)
(* device lives.                                                            *)
THEOREM TrustedHandlesLive == Spec => []TrustedHandleLive
<1>1. ASSUME IInv, ~disposed, NEW t \in Threads, handle[t].trusted
      PROVE  handle[t].obj \in live
  <2>1. authenticated /\ handle[t].obj = service["media1"]
    BY <1>1 DEF IInv, Trust
  <2>2. service["media1"] # Null
    <3>1. CASE auth_lock = NoThread
      BY <1>1, <2>1, <3>1 DEF IInv, Phases, AuthenticatedIffMedia
    <3>2. CASE auth_lock \in Threads
      BY <1>1, <2>1, <3>2 DEF IInv, Owners, Phases, Phase
    <3> QED
      BY <1>1, <3>1, <3>2 DEF IInv, TypeOK
  <2>3. \A u \in Threads : pc[u] # "clear_media1"
    BY <1>1, <2>1 DEF IInv, Phases, Phase, AuthPlaces
  <2> QED
    BY <1>1, <2>1, <2>2, <2>3 DEF IInv, Media1Objects
<1>2. IInv => TrustedHandleLive
  BY <1>1 DEF TrustedHandleLive
<1> QED
  BY Invariance, <1>2, PTL

(* The date is stored at most once, and after the offset. *)
THEOREM DateStoredOnce == Spec => []DatetimeOnce
<1>1. IInv => DatetimeOnce
  BY DEF IInv, ClockState
<1> QED
  BY Invariance, <1>1, PTL

(* user and pass always come from one set_credentials. *)
THEOREM CredentialsArePaired == Spec => []CredentialsPaired
<1>1. IInv => CredentialsPaired
  BY DEF IInv, CredentialState
<1> QED
  BY Invariance, <1>1, PTL

(* The date, the offset, user and pass are of their types and whole. *)
THEOREM DataIsWhole == Spec => []DataWhole
BY TypeCorrect, DateStoredOnce, CredentialsArePaired, PTL DEF DataWhole

(* getSystemDateTime is the only call that returns with a mutex held. *)
THEOREM CallsReleaseLocks == Spec => []LockedOnlyInsideCalls
<1>1. IInv => LockedOnlyInsideCalls
  BY DEF IInv, Owners, LockedOnlyInsideCalls, AuthPlaces, CreatePlaces
<1> QED
  BY Invariance, <1>1, PTL

(* No step takes authentication, or the media1 service that proved it, away *)
(* from a living device.                                                    *)
THEOREM AuthenticationLasts == Spec => AuthenticationSticky
<1> DEFINE Kept == authenticated /\ ~disposed' =>
                     authenticated' /\ service'["media1"] = service["media1"]
<1> USE DEF objects, At
<1>1. ASSUME IInv, authenticated, NEW t \in Threads,
             \/ \E k \in Kinds : NewService(t, k)
             \/ UnrefMedia1(t) \/ ClearMedia1(t)
      PROVE  service'["media1"] = service["media1"] /\ authenticated' = authenticated
  BY <1>1 DEF IInv, Phases, Phase, AuthPlaces, CreatePlaces, NewService,
     UnrefMedia1,
              ClearMedia1, Kinds
<1>2. ASSUME IInv, [Next]_vars PROVE Kept
  <2>1. CASE authenticated
    <3>1. CASE Dispose
      BY <3>1 DEF Dispose
    <3>2. CASE UNCHANGED vars
      BY <3>2 DEF vars
    <3>3. CASE \E t \in Threads : Begin(t)
      BY <3>3 DEF Begin, AuthenticateLock, IsAuthenticated, GetMediaService,
                  SetUsername, GetUrlPart, GetSystemDateTime
    <3>4. CASE \E t \in Threads : Continue(t)
      BY <1>1, <1>2, <2>1, <3>4
         DEF Continue, Authenticate, GetSystemDateAndTime, SetTimeOffset,
             SetDatetime, CreateServicesCheck, CreateServicesLock, GetServices,
             GetCapabilities, CreateServicesUnlock, GetStreamUri, SetAuthenticated,
             AuthenticateUnlock, SetPassword
    <3> QED
      BY <1>2, <3>1, <3>2, <3>3, <3>4 DEF Next, End, Gone
  <2> QED
    BY <2>1
<1>3. IInv /\ [Next]_vars => [Kept]_vars
  BY <1>2
<1> QED
  BY Invariance, <1>3, PTL DEF Spec, AuthenticationSticky

(* Once a getSystemDateTime has returned, no thread authenticates the device, *)
(* stores its date or changes its credentials until it is disposed.           *)
THEOREM AbandonedLockIsFinal == Spec => AbandonedLockBlocks
<1> DEFINE Blocked == Abandoned /\ ~disposed' =>
                /\ prop_lock' = prop_lock
                /\ UNCHANGED <<authenticated, username, password, clock>>
<1> USE DEF clock, creds, locks, At, Calls
<1>1. ASSUME IInv, Abandoned
      PROVE  /\ prop_lock # NoThread
             /\ \A t \in Threads : pc[t] \notin {"set_date", "set_pass"}
  BY <1>1, ThreadAssumption DEF IInv, Owners, Abandoned
<1>2. ASSUME IInv, [Next]_vars, Abandoned, ~disposed' PROVE Blocked
  <2>1. CASE UNCHANGED vars
    BY <2>1 DEF vars
  <2>2. CASE \E t \in Threads : Begin(t)
    BY <1>1, <1>2, <2>2
       DEF Begin, AuthenticateLock, IsAuthenticated, GetMediaService, SetUsername,
           GetUrlPart, GetSystemDateTime
  <2>3. CASE \E t \in Threads : Continue(t)
    BY <1>1, <1>2, <2>3
       DEF Continue, Authenticate, GetSystemDateAndTime, SetTimeOffset,
           SetDatetime, CreateServicesCheck, CreateServicesLock, GetServices,
           GetCapabilities, NewService, CreateServicesUnlock, GetStreamUri,
           SetAuthenticated, UnrefMedia1, ClearMedia1, AuthenticateUnlock,
           SetPassword
  <2> QED
    BY <1>2, <2>1, <2>2, <2>3 DEF Next, End, Dispose, Gone
<1>3. IInv /\ [Next]_vars => [Blocked]_vars
  BY <1>2
<1> QED
  BY Invariance, <1>3, PTL DEF Spec, AbandonedLockBlocks
================================================================================
