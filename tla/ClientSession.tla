----------------------------- MODULE ClientSession -----------------------------
(***************************************************************************)
(* A whole session of a client with one device, that of                    *)
(* example/client-test.c: it authenticates, asks the device service for    *)
(* its host name, interfaces, scopes and information, takes the profile    *)
(* list, and for each profile asks the media service for its audio         *)
(* configurations, its stream, the service's capabilities, the snapshot's  *)
(* address and the picture.  Every answer is an object of its own, made by *)
(* one of the classes below SoapObject from the reply, with a fault or     *)
(* copies of what the reply held, and the client has to drop it.           *)
(*                                                                         *)
(* The media service is one of either version; it finds the token of the   *)
(* profile a call is about in its own cache of the list (one thread here;  *)
(* MediaProfileCache has several).  A token is <<l, j>>: what the j-th     *)
(* profile of the l-th list fetched is called.  The heap is the set of     *)
(* the blocks of these answers and of the lists that are allocated:        *)
(* <<class, n, j, part>> is a part of the j-th entry (the object's own if  *)
(* 0) of the answer for profile n (0: none).  What the library allocates   *)
(* for itself is elsewhere: createServices' in ServiceTables, the          *)
(* snapshot's address in Snapshot.                                         *)
(***************************************************************************)
EXTENDS Naturals, Sequences

CONSTANTS
    Faults,         \* the SoapFaults a call can come to, besides NONE
    MaxProfiles,    \* bound: the profiles of a list
    MaxEntries      \* bound: the entries of another answer

SoapFault == {"NONE", "CONNECTION_ERROR", "NOT_VALID", "UNAUTHORIZED",
              "ACTION_NOT_SUPPORTED", "UNEXPECTED"}

ASSUME SessionAssumption ==
    /\ Faults \subseteq SoapFault \ {"NONE"} /\ Faults # {}
    /\ MaxProfiles \in Nat /\ MaxEntries \in Nat

(* main, and the body of loop_media_profiles *)
DeviceCalls == <<"hostname", "interfaces", "scopes", "devinfo", "profiles">>
ProfileCalls == <<"sources", "outputs", "options", "stream", "caps", "snapuri",
                  "snapshot">>

InOrder(calls) == {calls[k] : k \in DOMAIN calls}
Classes == InOrder(DeviceCalls) \cup InOrder(ProfileCalls) \cup {"devcaps"}
Places == {"authenticate", "next_profile", "drop_list", "exit", "crashed"}
              \cup Classes

VARIABLES
    media2,         \* the client uses the media2 service
    pc,             \* the call the client makes next, or its place
    phase,          \* how far that call is
    i,              \* loop_media_profiles' index, from 1
    list,           \* the profile lists fetched: a sequence of their answers
    cache,          \* priv->profiles: the number of a list, 0 for NULL
    mine,           \* the list the client holds, 0 for none
    answer,         \* per class: what the client's object of it holds
    heap,           \* the blocks allocated
    asked,          \* the token the last request carried, <<0, 0>> for none
    junk,           \* an indeterminate pointer was taken for a token
    skipped,        \* the profiles left with a continue
    saved           \* the profiles whose picture was written

vars == <<media2, pc, phase, i, list, cache, mine, answer, heap, asked, junk,
          skipped, saved>>

Lists == DOMAIN list
Indexes == 1..MaxProfiles
NoToken == <<0, 0>>

--------------------------------------------------------------------------------
(* The classes of the answers: what their construct copies out of a reply,  *)
(* entry by entry, and what their dispose frees.                            *)

InfoStrings == {"manufacturer", "model", "firmwareVersion", "serialNumber",
                "hardwareId"}
InfoCopies == InfoStrings
InfoFrees == InfoStrings

(* Both configurations are one part, with single addresses; NetworkTables   *)
(* has their lists.                                                         *)
InterfaceCopies == {"token", "name", "mac", "ipv4", "ipv6"}
InterfaceFrees == {"token", "name", "mac", "ipv4", "ipv6"}

ScopeCopies == {"scope"}
ScopeFrees == {"scope"}

HostnameCopies == {"name"}
HostnameFrees == {"name"}

ConfigStrings == {"token", "name", "source_token"}
SourceCopies == ConfigStrings
SourceFrees == ConfigStrings
OutputCopies == ConfigStrings
OutputFrees == ConfigStrings

(* Each entry is a token or a send primacy. *)
OptionCopies == {"output_token", "send_primacy"}
OptionFrees == {"output_token", "send_primacy"}

UriCopies == {"uri"}
UriFrees == {"uri"}
Media1UriCopies == UriCopies \cup {"timeout"}
Media1UriFrees == UriFrees \cup {"timeout"}

(* Mutated forms, here and below: a copy of the next definition that a      *)
(* check must reject.  The audio source is forgotten.                       *)
ProfileFreesNoSource == {"token", "name"}

(* The audio source of a profile is an object of SourceCopies. *)
ProfileCopies == {"token", "name", "source"}
ProfileFrees == {"token", "name", "source"}

(* Mutated form: the reset frees the media alone. *)
DevcapsFreesMedia == {"media"}

(* The parts of a device's capabilities; the reset leaves its DeviceIO.     *)
DevcapsCopies == {"media", "device", "system", "deviceio"}
DevcapsFrees == {"media", "device", "system"}

Copies(c) ==
    CASE c = "devinfo" -> InfoCopies
      [] c = "interfaces" -> InterfaceCopies
      [] c = "scopes" -> ScopeCopies
      [] c = "devcaps" -> DevcapsCopies
      [] c = "hostname" -> HostnameCopies
      [] c = "sources" -> SourceCopies
      [] c = "outputs" -> OutputCopies
      [] c = "options" -> OptionCopies
      [] c \in {"stream", "snapuri"} -> IF media2 THEN UriCopies ELSE Media1UriCopies
      [] c = "profiles" -> ProfileCopies
      [] c = "snapshot" -> {"buffer"}
      [] OTHER -> {}

Frees(c) ==
    CASE c = "devinfo" -> InfoFrees
      [] c = "interfaces" -> InterfaceFrees
      [] c = "scopes" -> ScopeFrees
      [] c = "devcaps" -> DevcapsFrees
      [] c = "hostname" -> HostnameFrees
      [] c = "sources" -> SourceFrees
      [] c = "outputs" -> OutputFrees
      [] c = "options" -> OptionFrees
      [] c \in {"stream", "snapuri"} -> IF media2 THEN UriFrees ELSE Media1UriFrees
      [] c = "profiles" -> ProfileFrees
      [] c = "snapshot" -> {"buffer"}
      [] OTHER -> {}

Arrays == {"interfaces", "scopes", "sources", "outputs", "options", "profiles"}
Objects == {"interfaces", "scopes", "sources", "outputs", "profiles"}

(* The object, its array if anything was inserted, and for each entry the   *)
(* entry's own object and strings.                                          *)
Shell(c, n, entries) ==
    {<<c, n, 0, "object">>}
        \cup (IF c \in Arrays /\ entries # <<>> THEN {<<c, n, 0, "array">>} ELSE {})
        \cup {<<c, n, j, "object">> : j \in IF c \in Objects THEN DOMAIN entries ELSE {}}

Made(c, n, entries) ==
    Shell(c, n, entries)
        \cup UNION {{<<c, n, j, s>> : s \in entries[j]} : j \in DOMAIN entries}

(* g_object_unref of the last reference *)
Freed(c, n, entries) ==
    Shell(c, n, entries) \cup {<<c, n, j, s>> : j \in DOMAIN entries, s \in Frees(c)}

(* What construct needs of an entry *)
Required(c) ==
    CASE c = "interfaces" -> {"token"} [] c = "scopes" -> {"scope"} [] OTHER -> {}

(* An entry with everything, or with one thing missing.  The capabilities   *)
(* of a device have any of their parts, the system's inside the device's.   *)
Entry(c) ==
    CASE c = "options" -> {{s} : s \in Copies(c)}
      [] c = "devcaps" -> {e \in SUBSET Copies(c) : "system" \in e => "device" \in e}
      [] OTHER -> {Copies(c)} \cup {Copies(c) \ {s} : s \in Copies(c) \ Required(c)}

Upto(c) ==
    CASE c = "profiles" -> MaxProfiles
      [] c \in Arrays \ {"profiles"} -> MaxEntries
      [] OTHER -> 1

(* What a call of class c can yield: a fault with nothing in it, or a reply *)
(* with entries; flag tells whether the capabilities offer snapshots and    *)
(* whether a picture has any bytes.  construct makes a host name reply      *)
(* without a name a fault, and a scope without text (it drops the others).  *)
Nothing(f) == [fault |-> f, entries |-> <<>>, flag |-> FALSE]

Filled(c) ==
    [fault: {"NONE"},
     entries: UNION {[1..k -> Entry(c)] :
                        k \in IF c \in Arrays THEN 0..Upto(c) ELSE {1}},
     flag: IF c \in {"caps", "snapshot"} THEN BOOLEAN ELSE {FALSE}]

Answers(c) ==
    Filled(c) \cup {Nothing(f) : f \in Faults \cup
                       (IF c \in {"hostname", "scopes"} THEN {"UNEXPECTED"} ELSE {})}

TypeOK ==
    /\ media2 \in BOOLEAN
    /\ pc \in Places /\ phase \in {"call", "send", "read"}
    /\ i \in 1..(MaxProfiles + 1)
    /\ \A l \in Lists : list[l] \in Answers("profiles")
    /\ cache \in Lists \cup {0} /\ mine \in Lists \cup {0}
    /\ DOMAIN answer = Classes
    /\ \A c \in Classes : answer[c] \in Answers(c) \cup {Nothing("NONE")}
                                              \cup {Nothing("UNEXPECTED")}
    /\ heap \subseteq Classes \X Nat \X Nat \X
            ({"object", "array"} \cup UNION {Copies(c) : c \in Classes})
    /\ asked \in (Lists \X Indexes) \cup {NoToken}
    /\ junk \in BOOLEAN
    /\ skipped \subseteq Indexes /\ saved \subseteq Indexes

Init ==
    /\ media2 \in BOOLEAN
    /\ pc = "authenticate" /\ phase = "call" /\ i = 1
    /\ list = <<>> /\ cache = 0 /\ mine = 0
    /\ answer = [c \in Classes |-> Nothing("NONE")]
    /\ heap = {} /\ asked = NoToken /\ junk = FALSE
    /\ skipped = {} /\ saved = {}

--------------------------------------------------------------------------------
(* Calls. *)

Goto(place) == pc' = place /\ phase' = "call"

(* The call in script order after c. *)
Following(calls, c) ==
    LET k == CHOOSE x \in DOMAIN calls : calls[x] = c IN calls[k + 1]

(* The profile the answer of class c is for. *)
Of(c) == IF c \in InOrder(ProfileCalls) THEN i ELSE 0

(* The answer a arrives, with the heap as h. *)
Receive(c, a, h) ==
    /\ answer' = [answer EXCEPT ![c] = a]
    /\ heap' = h \cup Made(c, Of(c), a.entries)
    /\ phase' = "read" /\ pc' = pc

Stale == cache = 0 \/ list[cache].fault # "NONE"

(* getProfiles of either version *)
Fetched(a) ==
    [list |-> Append(list, a), cache |-> Len(list) + 1,
     heap |-> (IF cache \in {0, mine} THEN heap
               ELSE heap \ Freed("profiles", cache, list[cache].entries))
              \cup Made("profiles", Len(list) + 1, a.entries)]

(* load_profiles_cache: what it can leave *)
Loads ==
    IF Stale THEN {Fetched(a) : a \in Answers("profiles")}
    ELSE {[list |-> list, cache |-> cache, heap |-> heap]}

(* Mutated form: off by one. *)
HasTokenAfter(load, k) ==
    LET entries == load.list[load.cache].entries
    IN k + 1 \in DOMAIN entries /\ "token" \in entries[k + 1]

(* The k-th profile of the cached list has a token. *)
HasToken(load, k) ==
    LET entries == load.list[load.cache].entries
    IN k \in DOMAIN entries /\ "token" \in entries[k]

--------------------------------------------------------------------------------
(* main *)

(* Up to the check: authenticate asks the media1 service for the stream of  *)
(* the first profile, unless createServices crashes (ServiceTables).  A     *)
(* device that is not authenticated is dropped with its lists.              *)
Authenticate ==
    /\ pc = "authenticate"
    /\ \/ /\ Goto("exit") \/ Goto("crashed")
          /\ UNCHANGED <<list, cache, heap, junk>>
       \/ /\ Goto("hostname")
          /\ IF media2 THEN UNCHANGED <<list, cache, heap, junk>>
             ELSE \E a \in Filled("profiles") :
                    LET load == Fetched(a)
                    IN /\ list' = load.list /\ cache' = load.cache
                       /\ heap' = load.heap
                       /\ junk' = ~HasToken(load, 1)
    /\ UNCHANGED <<media2, i, mine, answer, asked, skipped, saved>>

(* The calls that name no profile; the media1 service lists the audio       *)
(* configurations of all of them whatever index it is called with.          *)
Plain(c) ==
    \/ c \in InOrder(DeviceCalls) \ {"profiles"}
    \/ c \in {"devcaps", "caps"}
    \/ c \in {"sources", "outputs"} /\ ~media2

Call(c) ==
    /\ pc = c /\ phase = "call" /\ Plain(c)
    /\ \E a \in Answers(c) : Receive(c, a, heap)
    /\ asked' = NoToken
    /\ UNCHANGED <<media2, i, list, cache, mine, junk, skipped, saved>>

(* A reply lacks an element that construct reads unseen: the token of an    *)
(* interface; the address of a DeviceIO, or the versions of a system        *)
(* (ServiceTables).  Several addresses in a list of an interface are        *)
(* undefined behaviour (NetworkTables) and are not followed further either. *)
Malformed(c) ==
    /\ pc = c /\ phase = "call" /\ c \in {"interfaces", "devcaps"}
    /\ Goto("crashed")
    /\ UNCHANGED <<media2, i, list, cache, mine, answer, heap, asked, junk,
                   skipped, saved>>

(* g_object_unref of the client's object of each class of cs, then place *)
Drop(cs, place) ==
    /\ heap' = heap \ UNION {Freed(c, Of(c), answer[c].entries) : c \in cs}
    /\ answer' = [c \in Classes |-> IF c \in cs THEN Nothing("NONE") ELSE answer[c]]
    /\ Goto(place)

(* The print functions and main: what was answered, or an error, is         *)
(* printed.                                                                 *)
Report(c) ==
    /\ pc = c /\ phase = "read" /\ c \in InOrder(DeviceCalls) \ {"profiles"}
    /\ Drop({c}, Following(DeviceCalls, c))
    /\ UNCHANGED <<media2, i, list, cache, mine, asked, junk, skipped, saved>>

(* get_profiles, with a reference for the client *)
GetProfiles ==
    /\ pc = "profiles"
    /\ \E load \in Loads :
          /\ list' = load.list /\ cache' = load.cache /\ heap' = load.heap
          /\ mine' = load.cache
          /\ Goto(IF load.list[load.cache].fault = "NONE"
                  THEN "next_profile" ELSE "drop_list")
    /\ UNCHANGED <<media2, i, answer, asked, junk, skipped, saved>>

DropList ==
    /\ pc = "drop_list"
    /\ mine' = 0
    /\ heap' = IF mine = cache THEN heap
               ELSE heap \ Freed("profiles", mine, list[mine].entries)
    /\ Goto("devcaps")
    /\ UNCHANGED <<media2, i, list, cache, answer, asked, junk, skipped, saved>>

(* print_device_capabilites, and the end of main: the device goes, with its *)
(* services and their cached list                                           *)
Leave ==
    /\ pc = "devcaps" /\ phase = "read"
    /\ heap' = heap \ (Freed("devcaps", 0, answer["devcaps"].entries)
                          \cup Freed("profiles", cache, list[cache].entries))
    /\ answer' = [answer EXCEPT !["devcaps"] = Nothing("NONE")]
    /\ Goto("exit")
    /\ UNCHANGED <<media2, i, list, cache, mine, asked, junk, skipped, saved>>

--------------------------------------------------------------------------------
(* loop_media_profiles *)

NextProfile ==
    /\ pc = "next_profile"
    /\ Goto(IF i \in DOMAIN list[mine].entries THEN "sources" ELSE "drop_list")
    /\ UNCHANGED <<media2, i, list, cache, mine, answer, heap, asked, junk,
                   skipped, saved>>

(* Mutated form: the token of the next profile. *)
TokenAtNext(load) == <<load.cache, i + 1>>

TokenAt(load) == <<load.cache, i>>

(* GET_PROFILE_TOKEN_OR_GOTO of the calls that name a profile: a fault of   *)
(* the list is the fault of the call; so is a token that is missing, if the *)
(* indeterminate pointer happens to be NULL or empty.                       *)
GetToken(c) ==
    /\ pc = c /\ phase = "call" /\ c \in InOrder(ProfileCalls) /\ ~Plain(c)
    /\ \E load \in Loads :
          LET fault == load.list[load.cache].fault
              found == fault = "NONE" /\ HasToken(load, i)
              send == phase' = "send" /\ heap' = load.heap /\ UNCHANGED <<pc, answer>>
          IN /\ list' = load.list /\ cache' = load.cache
             /\ asked' = IF found THEN TokenAt(load) ELSE NoToken
             /\ \/ fault # "NONE" /\ Receive(c, Nothing(fault), load.heap)
                                  /\ UNCHANGED junk
                \/ found /\ send /\ UNCHANGED junk
                \/ /\ fault = "NONE" /\ ~found
                   /\ \/ /\ Receive(c, Nothing("UNEXPECTED"), load.heap)
                         /\ UNCHANGED junk
                      \/ send /\ junk' = TRUE
    /\ UNCHANGED <<media2, i, mine, skipped, saved>>

(* The request is made, of media1 or media2; for the picture there are two. *)
Send(c) ==
    /\ pc = c /\ phase = "send"
    /\ \E a \in Answers(c) : Receive(c, a, heap)
    /\ UNCHANGED <<media2, i, list, cache, mine, asked, junk, skipped, saved>>

(* The audio configurations and the stream are printed and dropped; the     *)
(* capabilities are kept.                                                   *)
Show(c) ==
    /\ pc = c /\ phase = "read"
    /\ c \in InOrder(ProfileCalls) \ {"snapuri", "snapshot"}
    /\ Drop({c} \ {"caps"}, Following(ProfileCalls, c))
    /\ UNCHANGED <<media2, i, list, cache, mine, asked, junk, skipped, saved>>

HasUri ==
    answer["snapuri"].fault = "NONE" /\ "uri" \in answer["snapuri"].entries[1]

(* Mutated form: break in place of continue. *)
SnapshotUriBreaks ==
    /\ pc = "snapuri" /\ phase = "read"
    /\ IF HasUri
       THEN Drop({"caps", "snapuri"}, "snapshot") /\ UNCHANGED skipped
       ELSE Drop({"snapuri"}, "drop_list") /\ skipped' = skipped \cup {i}
    /\ UNCHANGED <<media2, i, list, cache, mine, asked, junk, saved>>

(* With an address for the picture the client goes on; otherwise it         *)
(* continues with the next profile, and the capabilities stay.              *)
SnapshotUri ==
    /\ pc = "snapuri" /\ phase = "read"
    /\ IF HasUri
       THEN Drop({"caps", "snapuri"}, "snapshot") /\ UNCHANGED <<i, skipped>>
       ELSE /\ Drop({"snapuri"}, "next_profile")
            /\ i' = i + 1 /\ skipped' = skipped \cup {i}
    /\ UNCHANGED <<media2, list, cache, mine, asked, junk, saved>>

(* The picture is written to a file of the profile's number, which may not  *)
(* open: nobody looks (line 210).                                           *)
Snapshot ==
    /\ pc = "snapshot" /\ phase = "read"
    /\ \/ /\ Drop({"snapshot"}, "next_profile")
          /\ i' = i + 1
          /\ saved' = IF answer["snapshot"].fault = "NONE" /\ answer["snapshot"].flag
                      THEN saved \cup {i} ELSE saved
       \/ /\ answer["snapshot"].fault = "NONE" /\ answer["snapshot"].flag
          /\ Goto("crashed")
          /\ UNCHANGED <<i, answer, heap, saved>>
    /\ UNCHANGED <<media2, list, cache, mine, asked, junk, skipped>>

Next ==
    \/ Authenticate \/ GetProfiles \/ NextProfile \/ DropList \/ Leave
    \/ SnapshotUri \/ Snapshot
    \/ \E c \in Classes : \/ Call(c) \/ Malformed(c) \/ Report(c)
                          \/ GetToken(c) \/ Send(c) \/ Show(c)

(* One thread; every call returns (SoapCall, Snapshot). *)
Spec == Init /\ [][Next]_vars

--------------------------------------------------------------------------------
(* Properties. *)

(* client-test.c: what a session leaves of the answers it was given and of  *)
(* the lists of profiles, through every class of answer and every fault in  *)
(* between.  It is the capabilities of the profiles that were left with a   *)
(* continue (lines 182, 188 and 196), one object each, and the DeviceIO of  *)
(* the device's capabilities, which their reset forgets.                    *)
LeaksAreCapabilities ==
    [][pc # "exit" /\ pc' = "exit" =>
          heap' = {<<"caps", n, 0, "object">> : n \in skipped'}
                      \cup {b \in Made("devcaps", 0, answer["devcaps"].entries) :
                               b[4] = "deviceio"}]_vars

(* get_profile_token: a call the client makes for a profile of the list it  *)
(* holds is made with the token of that very profile, though the service    *)
(* takes it from its own cache.                                             *)
TokenOfTheProfile ==
    phase # "call" /\ asked # NoToken => asked = <<mine, i>>

(* An indeterminate pointer is only ever sent as a token for a profile that *)
(* has none, or by authenticate for a camera without any profile.           *)
JunkNeedsNameless ==
    junk => \E l \in Lists :
        \/ list[l].entries = <<>>
        \/ \E k \in DOMAIN list[l].entries : "token" \notin list[l].entries[k]

(* Whatever fails, a session that gets through saw every profile of its     *)
(* list, once and in order: each ended with a picture, without one, or was  *)
(* skipped.                                                                 *)
EveryProfileSeen ==
    /\ saved \cap skipped = {}
    /\ pc = "drop_list" /\ list[mine].fault = "NONE" =>
          i = Len(list[mine].entries) + 1

(* The loop over the profiles: each is seen in its turn, and every call     *)
(* made for it carries its token, or none the camera gave.                  *)
ProfilesInTurn ==
    TypeOK /\ EveryProfileSeen /\ TokenOfTheProfile /\ JunkNeedsNameless
================================================================================
