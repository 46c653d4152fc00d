------------------------------ MODULE Credentials ------------------------------
(***************************************************************************)
(* The user name and password of a device (src/src/onvif_credentials.c)    *)
(* between the threads that set them and the calls that send them:         *)
(* set_wsse_data, http_challenge and soap_new of a service                 *)
(* (src/src/onvif_base_service.c) and the GET of a snapshot                *)
(* (src/src/media/onvif_media_service.c, lines 242-256).                   *)
(*                                                                         *)
(* Each getter and setter is a critical section of its own, in two steps:  *)
(* the buffer is measured, or reallocated, and then copied.  A caller is a *)
(* service, whose service_lock makes its calls a sequence, or a download.  *)
(* A camera asks a caller for the WS-Security token or the HTTP digest,    *)
(* and takes its own account.  (Adding the WS-Security header is taken to  *)
(* succeed; SoapCall has its failure.)                                     *)
(***************************************************************************)
EXTENDS Naturals

CONSTANTS
    Writers,    \* the threads that call OnvifDevice__set_credentials
    Services,   \* the services that make calls
    Downloads,  \* the threads that download a snapshot
    NoThread,   \* the owner of a free mutex
    Names,      \* the strings: the camera's account is a pair of equal ones
    Account,    \* the camera's account
    Null,       \* the NULL pointer
    Junk,       \* the contents of a buffer that is being rewritten
    NoCopy,     \* no copy of a field is held
    MaxSets     \* bound: the calls of set_credentials

Callers == Services \cup Downloads
Values == Names \cup {Null}
Fields == {"user", "pass"}
Pairs == [Fields -> Values]
NoPair == [f \in Fields |-> Null]

ASSUME CredentialsAssumption ==
    /\ Writers \cap Callers = {} /\ Services \cap Downloads = {}
    /\ NoThread \notin Writers \cup Callers
    /\ Account \in Names /\ MaxSets \in Nat
    /\ Null \notin Names /\ Junk \notin Values /\ NoCopy \notin Values \cup {Junk}

VARIABLES
    device_lock,    \* prop_lock of the device
    prop_lock,      \* prop_lock of the credentials
    field,          \* their user and pass
    old,            \* what the field being set was before
    want,           \* per writer: the pair it sets
    sets,           \* the calls of set_credentials so far
    pc,             \* per thread: what it is doing
    step,           \* per thread: 0 and 1 on the user, 2 and 3 on the password
    copy,           \* per caller: its copies of the fields
    da_info,        \* per caller: the pair of the saved digest
    token,          \* per caller: the pair of the WS-Security header
    digest,         \* per caller: the pair of the request's digest
    asks,           \* per caller: what the camera asks it for
    outcome,        \* per caller: of its last call
    \* what happened, per caller, in its last call
    seen,           \* the values each field had
    steady          \* the credentials were the account, and nobody set them

locks == <<device_lock, prop_lock>>
request == <<da_info, token, digest, asks, outcome>>
vars == <<locks, field, old, want, sets, pc, step, copy, request, seen, steady>>

Doing == {"idle", "set", "new", "send", "challenge", "again", "resend"}

TypeOK ==
    /\ device_lock \in Writers \cup {NoThread}
    /\ prop_lock \in Writers \cup Callers \cup {NoThread}
    /\ field \in [Fields -> Values \cup {Junk}]
    /\ old \in Values
    /\ want \in [Writers -> Pairs]
    /\ sets \in 0..MaxSets
    /\ pc \in [Writers \cup Callers -> Doing]
    /\ step \in [Writers \cup Callers -> 0..3]
    /\ copy \in [Callers -> [Fields -> Values \cup {NoCopy}]]
    /\ da_info \in [Callers -> Pairs]
    /\ token \in [Callers -> Pairs]
    /\ digest \in [Callers -> Pairs]
    /\ asks \in [Callers -> {"token", "digest"}]
    /\ outcome \in [Callers -> {"none", "accepted", "refused"}]
    /\ seen \in [Callers -> [Fields -> SUBSET Values]]
    /\ steady \in [Callers -> BOOLEAN]

Init ==
    /\ device_lock = NoThread /\ prop_lock = NoThread
    /\ field = NoPair /\ old = Null
    /\ want = [w \in Writers |-> NoPair] /\ sets = 0
    /\ pc = [t \in Writers \cup Callers |-> "idle"]
    /\ step = [t \in Writers \cup Callers |-> 0]
    /\ copy = [c \in Callers |-> [f \in Fields |-> NoCopy]]
    /\ da_info = [c \in Callers |-> NoPair]
    /\ token = [c \in Callers |-> NoPair]
    /\ digest = [c \in Callers |-> NoPair]
    /\ asks \in [Callers -> {"token", "digest"}]
    /\ \A c \in Downloads : asks[c] = "digest"
    /\ outcome = [c \in Callers |-> "none"]
    /\ seen = [c \in Callers |-> [f \in Fields |-> {}]]
    /\ steady = [c \in Callers |-> FALSE]

At(t) == IF step[t] < 2 THEN "user" ELSE "pass"

--------------------------------------------------------------------------------
(* OnvifDevice__set_credentials *)

(* The device's prop_lock is taken for both fields. *)
SetCredentials(w) ==
    /\ pc[w] = "idle" /\ sets < MaxSets
    /\ device_lock = NoThread /\ device_lock' = w
    /\ sets' = sets + 1
    /\ want' \in {[want EXCEPT ![w] = p] : p \in Pairs}
    /\ pc' = [pc EXCEPT ![w] = "set"]
    /\ step' = [step EXCEPT ![w] = 0]
    /\ UNCHANGED <<prop_lock, field, old, copy, request, seen, steady>>

(* set_username and set_password up to the strcpy: the buffer is freed or   *)
(* reallocated                                                              *)
Realloc(w) ==
    /\ pc[w] = "set" /\ step[w] \in {0, 2}
    /\ prop_lock = NoThread /\ prop_lock' = w
    /\ old' = field[At(w)]
    /\ field' = [field EXCEPT ![At(w)] = Junk]
    /\ step' = [step EXCEPT ![w] = @ + 1]
    /\ steady' = [c \in Callers |-> FALSE]
    /\ UNCHANGED <<device_lock, want, sets, pc, copy, request, seen>>

(* strcpy, or NULL, and the unlock; after the password set_credentials      *)
(* returns                                                                  *)
Assign(w) ==
    /\ pc[w] = "set" /\ step[w] \in {1, 3}
    /\ field' = [field EXCEPT ![At(w)] = want[w][At(w)]]
    /\ prop_lock' = NoThread
    /\ seen' = [c \in Callers |->
                 [seen[c] EXCEPT ![At(w)] = @ \cup {want[w][At(w)]}]]
    /\ IF step[w] = 1
       THEN step' = [step EXCEPT ![w] = 2] /\ UNCHANGED <<device_lock, pc>>
       ELSE /\ device_lock' = NoThread
            /\ step' = [step EXCEPT ![w] = 0]
            /\ pc' = [pc EXCEPT ![w] = "idle"]
    /\ old' = Null
    /\ UNCHANGED <<want, sets, copy, request, steady>>

--------------------------------------------------------------------------------
(* The calls *)

(* The fields as the setters see them: the value before, while one is set. *)
Current(f) == IF field[f] = Junk THEN old ELSE field[f]

(* Mutated form: a digest saved by an earlier call is kept. *)
SavedKept(c, pair) == IF da_info[c] # NoPair THEN da_info[c] ELSE pair

(* http_challenge, lines 268-274: the digest saved is the pair just read    *)
Saved(c, pair) == pair

(* Mutated form: the header of the call before stays. *)
NewHeaderKept(c) == token[c]

(* set_wsse_data, line 241 *)
NewHeader(c) == NoPair

(* A call begins: soap_new restores the saved digest; a download has none.  *)
Begin(c) ==
    /\ pc[c] = "idle"
    /\ pc' = [pc EXCEPT ![c] = IF c \in Downloads THEN "send" ELSE "new"]
    /\ digest' = [digest EXCEPT ![c] = IF c \in Downloads THEN NoPair
                                       ELSE da_info[c]]
    /\ outcome' = [outcome EXCEPT ![c] = "none"]
    /\ token' = [token EXCEPT ![c] = NewHeader(c)]
    /\ seen' = [seen EXCEPT ![c] = [f \in Fields |-> {Current(f)}]]
    /\ steady' = [steady EXCEPT ![c] = \A f \in Fields : field[f] = Account]
    /\ UNCHANGED <<locks, field, old, want, sets, step, copy, da_info, asks>>

Reading == {"new", "challenge", "again"}

(* Mutated form: without the mutex. *)
MeasureUnlocked(c) ==
    /\ pc[c] \in Reading /\ step[c] \in {0, 2}
    /\ copy[c][At(c)] = NoCopy
    /\ step' = [step EXCEPT ![c] = @ + 1]
    /\ UNCHANGED <<locks, field, old, want, sets, pc, copy, request, seen,
                   steady>>

(* get_username and get_password up to the strcpy *)
Measure(c) ==
    /\ pc[c] \in Reading /\ step[c] \in {0, 2}
    /\ copy[c][At(c)] = NoCopy
    /\ prop_lock = NoThread /\ prop_lock' = c
    /\ step' = [step EXCEPT ![c] = @ + 1]
    /\ UNCHANGED <<device_lock, field, old, want, sets, pc, copy, request, seen,
                   steady>>

(* the strcpy and the unlock *)
Copy(c) ==
    /\ pc[c] \in Reading /\ step[c] \in {1, 3}
    /\ copy' = [copy EXCEPT ![c][At(c)] = field[At(c)]]
    /\ prop_lock' = NoThread
    /\ step' = [step EXCEPT ![c] = (@ + 1) % 4]
    /\ UNCHANGED <<device_lock, field, old, want, sets, pc, request, seen,
                   steady>>

HasBoth(c) == step[c] = 0 /\ \A f \in Fields : copy[c][f] # NoCopy

FreeCopies(c) == copy' = [copy EXCEPT ![c] = [f \in Fields |-> NoCopy]]

(* set_wsse_data after both are read: a header only with both of them       *)
AddToken(c) ==
    /\ pc[c] \in {"new", "again"} /\ HasBoth(c)
    /\ token' = [token EXCEPT ![c] = IF \A f \in Fields : copy[c][f] # Null
                                     THEN copy[c] ELSE NewHeader(c)]
    /\ FreeCopies(c)
    /\ pc' = [pc EXCEPT ![c] = IF pc[c] = "new" THEN "send" ELSE "resend"]
    /\ UNCHANGED <<locks, field, old, want, sets, step, da_info, digest, asks,
                   outcome, seen, steady>>

(* http_challenge, or the download, after both are read *)
SaveDigest(c) ==
    /\ pc[c] = "challenge" /\ HasBoth(c)
    /\ digest' = [digest EXCEPT ![c] = Saved(c, copy[c])]
    /\ da_info' = IF c \in Downloads THEN da_info
                  ELSE [da_info EXCEPT ![c] = Saved(c, copy[c])]
    /\ FreeCopies(c)
    /\ pc' = [pc EXCEPT ![c] = IF c \in Downloads THEN "resend" ELSE "again"]
    /\ UNCHANGED <<locks, field, old, want, sets, step, token, asks, outcome,
                   seen, steady>>

Right(c) ==
    \A f \in Fields : (IF asks[c] = "token" THEN token ELSE digest)[c][f] = Account

(* The camera (external) takes its account and challenges a wrong digest,   *)
(* once; the call ends with its second answer, which frees the request.     *)
Answer(c) ==
    /\ pc[c] \in {"send", "resend"}
    /\ IF ~Right(c) /\ asks[c] = "digest" /\ pc[c] = "send"
       THEN /\ pc' = [pc EXCEPT ![c] = "challenge"]
            /\ UNCHANGED <<outcome, digest, seen>>
       ELSE /\ pc' = [pc EXCEPT ![c] = "idle"]
            /\ outcome' = [outcome EXCEPT ![c] =
                            IF Right(c) THEN "accepted" ELSE "refused"]
            /\ digest' = [digest EXCEPT ![c] = NoPair]
            /\ seen' = [seen EXCEPT ![c] = [f \in Fields |-> {}]]
    /\ UNCHANGED <<locks, field, old, want, sets, step, copy, da_info, token,
                   asks, steady>>

--------------------------------------------------------------------------------
Next ==
    \/ \E w \in Writers : SetCredentials(w) \/ Realloc(w) \/ Assign(w)
    \/ \E c \in Callers : \/ Begin(c) \/ Measure(c) \/ Copy(c)
                          \/ AddToken(c) \/ SaveDigest(c) \/ Answer(c)

Spec == Init /\ [][Next]_vars

--------------------------------------------------------------------------------
(* Properties. *)

(* Each critical section is atomic: OnvifCredentials implements a register  *)
(* per field, set by the strcpy and read by the copy.                       *)
Register == INSTANCE CredentialRegister WITH
    Readers <- Callers, value <- [f \in Fields |-> Current(f)]

FieldsAtomic == Register!Spec

(* Whatever digest an earlier call saved, be it of a mixed pair, a call is  *)
(* not refused while the device's credentials are the camera's account: the *)
(* challenge makes it read them again.                                      *)
NeverLockedOut ==
    \A c \in Callers : outcome[c] = "refused" => ~steady[c]

(* A WS-Security header carries no value older than the call, although the  *)
(* two fields may be of two set_credentials: each had its value during the  *)
(* call.  The digest of a call that was challenged does neither.            *)
TokenOfTheCall ==
    \A c \in Callers, f \in Fields :
        /\ pc[c] # "idle" /\ token[c] # NoPair => token[c][f] \in seen[c][f]
        /\ pc[c] \in {"again", "resend"} => digest[c][f] \in seen[c][f]
================================================================================
