----------------------------- MODULE ServiceTables -----------------------------
(***************************************************************************)
(* The tables of addresses from which createServices                       *)
(* (src/src/onvif_device.c, lines 40-108) makes a device's services: the   *)
(* reply of GetServices (src/src/devicemgmt/onvif_device_services.c) and,  *)
(* when GetServices fails, that of GetCapabilities                         *)
(* (src/src/devicemgmt/onvif_device_capabilities.c).                       *)
(*                                                                         *)
(* One thread authenticates, again and again while it fails; OnvifDevice   *)
(* has the threads.  A reply of GetServices is a sequence of namespaces,   *)
(* an entry's place in it standing for its address; a reply of             *)
(* GetCapabilities says which of its parts there are.  gSOAP is not made   *)
(* strict (src/src/onvif_base_service.c, line 290), so either may lack an  *)
(* element that the schema requires, which is then NULL.  The blocks that  *)
(* a table allocates are <<attempt, place>> and <<attempt, part>>.         *)
(***************************************************************************)
EXTENDS Naturals, Sequences

CONSTANTS
    MaxEntries,     \* bound: the entries of a GetServices reply
    MaxAttempts     \* bound: the runs of createServices

(* The services a device makes, those a table knows, and all namespaces *)
Kinds == {"media", "media2", "deviceio"}
Fields == Kinds \cup {"imaging", "events"}

(* An entry is "hollow" if its namespace is missing, or if it is that of a  *)
(* field and the address or the version is missing.                         *)
Namespaces == Fields \cup {"device", "other", "hollow"}

Replies == UNION {[1..n -> Namespaces] : n \in 0..MaxEntries}

Parts == {"media", "device", "system", "deviceio"}

(* A part is "bare" if its address is missing or, for the system's, which   *)
(* is inside the device's, the supported versions are.                      *)
Presence == {"absent", "bare", "whole"}
Capabilities ==
    {c \in [Parts -> Presence] : c["device"] = "absent" => c["system"] = "absent"}

(* The parts whose get_address is called, lines 84-88 *)
Needed == {"media", "deviceio"}

Attempts == 1..MaxAttempts
FromCapabilities == MaxEntries + 1      \* the place of an address that is theirs
Places == 1..FromCapabilities

VARIABLES
    pc,             \* where authenticate is
    attempt,        \* the runs of createServices so far
    reply,          \* per attempt: the GetServices reply, <<>> for none
    field,          \* the table of services: the entry of each field, or 0
    entries,        \* its blocks
    caps,           \* the parts of the table of capabilities that are not NULL
    parts,          \* its blocks
    held,           \* per kind: the attempt whose service the device holds, or 0
    place,          \* per kind: the place its address was read from
    services,       \* the service objects with a reference: <<attempt, kind>>
    lacks           \* what the camera's latest answer lacks of what is read:
                    \* parts of capabilities, or ("required") an element that
                    \* the schema requires

device == <<held, place, services>>
vars == <<pc, attempt, reply, field, entries, caps, parts, device, lacks>>

TypeOK ==
    /\ pc \in {"idle", "get_services", "services", "get_capabilities",
               "capabilities", "created", "failed", "authenticated",
               "crashed", "disposed"}
    /\ attempt \in 0..MaxAttempts
    /\ reply \in [Attempts -> Replies]
    /\ field \in [Fields -> 0..MaxEntries]
    /\ entries \subseteq Attempts \X (1..MaxEntries)
    /\ caps \subseteq Parts /\ parts \subseteq Attempts \X Parts
    /\ held \in [Kinds -> 0..MaxAttempts]
    /\ place \in [Kinds -> {0} \cup Places]
    /\ services \subseteq Attempts \X Kinds
    /\ lacks \subseteq Needed \cup {"required"}

NoFields == [f \in Fields |-> 0]

Init ==
    /\ pc = "idle" /\ attempt = 0
    /\ reply = [a \in Attempts |-> <<>>]
    /\ field = NoFields /\ entries = {}
    /\ caps = {} /\ parts = {}
    /\ held = [k \in Kinds |-> 0] /\ place = [k \in Kinds |-> 0]
    /\ services = {} /\ lacks = {}

--------------------------------------------------------------------------------
(* The table of services *)

(* Mutated form: only while the field is NULL. *)
EntryFirst(r, f) ==
    IF \E i \in DOMAIN r : r[i] = f
    THEN CHOOSE i \in DOMAIN r : r[i] = f /\ \A j \in 1..(i - 1) : r[j] # f
    ELSE 0

(* What the loop over a reply leaves in a field: every entry of its         *)
(* namespace is assigned to it in turn.                                     *)
Entry(r, f) ==
    IF \E i \in DOMAIN r : r[i] = f
    THEN CHOOSE i \in DOMAIN r :
            r[i] = f /\ \A j \in (i + 1)..Len(r) : r[j] # f
    ELSE 0

(* OnvifService__create for each entry that has a field *)
Created(r) == {i \in DOMAIN r : r[i] \in Fields}

(* Mutated form: the events are kept. *)
ResetNotEvents == {<<attempt, field[f]>> : f \in Fields \ {"events"}}

(* What reset frees: the entries the fields name *)
Reset == {<<attempt, field[f]>> : f \in Fields}

(* authenticate reaches createServices, which looks at media1_service *)
CreateServices ==
    /\ pc \in {"idle", "failed"} /\ attempt < MaxAttempts
    /\ attempt' = attempt + 1
    /\ pc' = IF held["media"] # 0 THEN "created" ELSE "get_services"
    /\ UNCHANGED <<reply, field, entries, caps, parts, device, lacks>>

(* strcmp of the namespace, strlen of the address or the version's Major    *)
Hollow(r) == \E i \in DOMAIN r : r[i] = "hollow"

(* The camera (external) answers GetServices, and construct crashes on a    *)
(* NULL or makes the table; or GetServices fails: for good, or so that      *)
(* GetCapabilities is tried.                                                *)
GetServices ==
    /\ pc = "get_services"
    /\ \/ \E r \in Replies :
            /\ ~Hollow(r)
            /\ reply' = [reply EXCEPT ![attempt] = r]
            /\ field' = [f \in Fields |-> Entry(r, f)]
            /\ entries' = entries \cup {<<attempt, i>> : i \in Created(r)}
            /\ lacks' = {} /\ pc' = "services"
       \/ /\ \E r \in Replies : Hollow(r)
          /\ lacks' = {"required"} /\ pc' = "crashed"
          /\ UNCHANGED <<reply, field, entries>>
       \/ /\ pc' \in {"failed", "get_capabilities"}
          /\ UNCHANGED <<reply, field, entries, lacks>>
    /\ UNCHANGED <<attempt, caps, parts, device>>

(* The service made of a kind is made over the one that is held. *)
Hold(K, from) ==
    /\ held' = [k \in Kinds |-> IF k \in K THEN attempt ELSE held[k]]
    /\ place' = [k \in Kinds |-> IF k \in K THEN from[k] ELSE place[k]]
    /\ services' = services \cup {<<attempt, k>> : k \in K}

(* Mutated form: the fields are not tested. *)
OfferedAll == Kinds

(* Mutated form: only the services that the device does not hold. *)
OfferedNew == {k \in Kinds : field[k] # 0 /\ held[k] = 0}

(* if(service), lines 61-65 *)
Offered == {k \in Kinds : field[k] # 0}

(* The services are made from the table, which is disposed. *)
MakeFromServices ==
    /\ pc = "services"
    /\ IF \E k \in Offered : field[k] = 0
       THEN pc' = "crashed" /\ UNCHANGED <<field, entries, device>>
       ELSE /\ Hold(Offered, field)
            /\ entries' = entries \ Reset
            /\ field' = NoFields
            /\ pc' = "created"
    /\ UNCHANGED <<attempt, reply, caps, parts, lacks>>

--------------------------------------------------------------------------------
(* The table of capabilities *)

(* OnvifMedia__create, *)
Media(c) == c["media"] = "whole"

(* OnvifDeviceCapabilities__create *)
Device(c) == c["device"] = "whole"

(* OnvifSystemCapabilities__create *)
System(c) == Device(c) /\ c["system"] # "absent"

(* and OnvifDeviceIOCapabilities__create allocate their part; the first two *)
(* do not without an address.                                               *)
DeviceIO(c) == c["deviceio"] # "absent"

PartsOf(c) ==
    {p \in Parts : CASE p = "media" -> Media(c)   [] p = "device" -> Device(c)
                     [] p = "system" -> System(c) [] p = "deviceio" -> DeviceIO(c)}

(* The two others do not look: at an address, and at the supported versions *)
ReadsNull(c) ==
    c["deviceio"] = "bare" \/ (Device(c) /\ c["system"] = "bare")

Lacking(c) ==
    {p \in Needed : c[p] = "absent"}
        \cup (IF \E p \in Parts : c[p] = "bare" THEN {"required"} ELSE {})

GetCapabilities ==
    /\ pc = "get_capabilities"
    /\ \/ \E c \in Capabilities :
            /\ lacks' = Lacking(c)
            /\ IF ReadsNull(c)
               THEN pc' = "crashed" /\ UNCHANGED <<caps, parts>>
               ELSE /\ caps' = PartsOf(c)
                    /\ parts' = parts \cup {<<attempt, p>> : p \in PartsOf(c)}
                    /\ pc' = "capabilities"
       \/ pc' = "failed" /\ UNCHANGED <<caps, parts, lacks>>
    /\ UNCHANGED <<attempt, reply, field, entries, device>>

(* Mutated form: the system capabilities are kept. *)
FreedPartsKept == {"media", "device"}

(* What the reset of the capabilities frees *)
FreedParts == {"media", "device", "system"}

(* All three services are made, and the table is disposed; a part that is   *)
(* NULL is dereferenced.                                                    *)
MakeFromCapabilities ==
    /\ pc = "capabilities"
    /\ IF ~(Needed \subseteq caps)
       THEN pc' = "crashed" /\ UNCHANGED <<caps, parts, device>>
       ELSE /\ Hold(Kinds, [k \in Kinds |-> FromCapabilities])
            /\ parts' = parts \ ({attempt} \X FreedParts)
            /\ caps' = {}
            /\ pc' = "created"
    /\ UNCHANGED <<attempt, reply, field, entries, lacks>>

--------------------------------------------------------------------------------
(* authenticate *)

(* Mutated form: the media service is forgotten, not dropped. *)
GetStreamUriNoUnref ==
    /\ pc = "created"
    /\ \/ held["media"] # 0 /\ pc' = "authenticated" /\ UNCHANGED held
       \/ pc' = "failed" /\ held' = [held EXCEPT !["media"] = 0]
    /\ UNCHANGED <<attempt, reply, field, entries, caps, parts, place, services, lacks>>

(* lines 177-228: without a media service, or a stream URI, it fails, and   *)
(* the media service is dropped.                                            *)
GetStreamUri ==
    /\ pc = "created"
    /\ \/ held["media"] # 0 /\ pc' = "authenticated" /\ UNCHANGED device
       \/ /\ pc' = "failed"
          /\ services' = services \ {<<held["media"], "media">>}
          /\ held' = [held EXCEPT !["media"] = 0]
          /\ UNCHANGED place
    /\ UNCHANGED <<attempt, reply, field, entries, caps, parts, lacks>>

(* The device's own dispose drops the services it holds. *)
Dispose ==
    /\ pc \in {"idle", "failed", "authenticated"} /\ pc' = "disposed"
    /\ services' = services \ {<<held[k], k>> : k \in Kinds}
    /\ held' = [k \in Kinds |-> 0]
    /\ UNCHANGED <<attempt, reply, field, entries, caps, parts, place, lacks>>

Next ==
    \/ CreateServices \/ GetServices \/ MakeFromServices
    \/ GetCapabilities \/ MakeFromCapabilities \/ GetStreamUri \/ Dispose

Spec == Init /\ [][Next]_vars

--------------------------------------------------------------------------------
(* Properties. *)

(* The service that a device holds has the address of the last entry of its *)
(* namespace in the reply of the attempt that made it, however many entries *)
(* repeat the namespace and however many attempts came after.               *)
LastEntryWins ==
    \A k \in Kinds : held[k] # 0 /\ place[k] # FromCapabilities =>
        LET r == reply[held[k]]
        IN  r[place[k]] = k /\ \A j \in (place[k] + 1)..Len(r) : r[j] # k

(* A media2 or deviceio service is older than the attempt only if that      *)
(* attempt's GetServices did not offer its kind: a retry never keeps a      *)
(* service whose address the camera has given anew.                         *)
NothingOutdated ==
    pc = "authenticated" =>
        \A k \in Kinds, i \in DOMAIN reply[attempt] :
            reply[attempt][i] = k => held[k] = attempt

(* Between calls, what the tables of services leak is exactly the earlier   *)
(* entries of a namespace that a reply repeats.                             *)
EntryLeaksNeedRepeats ==
    pc \in {"created", "failed", "authenticated"} =>
        entries = {b \in Attempts \X (1..MaxEntries) :
                    LET r == reply[b[1]]
                    IN  /\ b[2] \in DOMAIN r /\ r[b[2]] \in Fields
                        /\ \E j \in (b[2] + 1)..Len(r) : r[j] = r[b[2]]}

(* Those of capabilities leak their DeviceIO part and no other.             *)
PartLeaksAreDeviceIO ==
    pc \in {"created", "failed", "authenticated"} =>
        \A b \in parts : b[2] = "deviceio"

(* A camera whose answers lack no element that the schema requires crashes  *)
(* createServices only with capabilities, and only with those that name no  *)
(* Media or no DeviceIO, which the schema allows (onvif.xsd, lines 3007 and *)
(* 3025); the table of services never crashes it.                           *)
CrashNeedsOmission ==
    pc = "crashed" /\ "required" \notin lacks =>
        Needed \cap lacks # {} /\ field = NoFields

(* A device authenticated at its first attempt holds every service object   *)
(* that was made, and disposes of all of them; only a retry leaks, media2   *)
(* and deviceio services and never media.                                   *)
ServiceLeaksNeedRetry ==
    \A s \in services : held[s[2]] # s[1] =>
        s[2] # "media" /\ s[1] < attempt

(* createServices, however often it is run: the services a device ends with *)
(* are those of the latest answer.  It may crash instead, on an answer that *)
(* lacks an element: one the schema requires, or the Media or the DeviceIO  *)
(* of capabilities.                                                         *)
MadeFromLatest ==
    TypeOK /\ LastEntryWins /\ NothingOutdated /\ CrashNeedsOmission

(* What the tables and the retries leave allocated, and nothing else.       *)
LeaksKnown == EntryLeaksNeedRepeats /\ PartLeaksAreDeviceIO /\ ServiceLeaksNeedRetry
================================================================================
