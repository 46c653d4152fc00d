--------------------------- MODULE ClientSessionProofs ---------------------------
(***************************************************************************)
(* Theorems about ClientSession, for any faults, any number of profiles    *)
(* and any size of the answers.                                            *)
(***************************************************************************)
EXTENDS ClientSession, SequenceTheorems, TLAPS

Before == {"authenticate", "hostname", "interfaces", "scopes", "devinfo", "profiles"}
Steps == {"sources", "outputs", "options", "stream", "caps", "snapuri", "snapshot"}

(* The list is fetched once, and is no fault while the loop goes on: the    *)
(* service's list and the client's are one.                                 *)
Listed ==
    /\ \/ list = <<>> /\ cache = 0
       \/ DOMAIN list = {1} /\ cache = 1
    /\ pc = "authenticate" => cache = 0 /\ answer["devcaps"].entries = <<>>
    /\ pc \in Before => mine = 0 /\ i = 1
    /\ pc \in Before /\ cache = 1 => list[1].fault = "NONE"
    /\ pc \in Steps \cup {"next_profile", "drop_list"} => cache = 1 /\ mine = 1
    /\ pc \in Steps \cup {"next_profile"} => list[1].fault = "NONE"
    /\ pc = "devcaps" => cache = 1

(* Where the loop is. *)
InTurn ==
    /\ skipped \subseteq 1..(i - 1) /\ saved \subseteq 1..(i - 1)
    /\ saved \cap skipped = {}
    /\ pc \in Steps => i \in DOMAIN list[1].entries
    /\ pc = "next_profile" => i \in 1..(Len(list[1].entries) + 1)
    /\ pc = "drop_list" /\ list[1].fault = "NONE" => i = Len(list[1].entries) + 1

(* Whose answers the client has. *)
LiveAnswers ==
    (IF phase = "read" THEN {pc} ELSE {})
        \cup (IF pc = "snapuri" THEN {"caps"} ELSE {})

Phases ==
    /\ phase = "read" => pc \in Classes \ {"profiles"}
    /\ phase = "send" => pc \in Steps

Leaked == {<<"caps", n, 0, "object">> : n \in skipped}

Cached == IF cache = 1 THEN Made("profiles", 1, list[1].entries) ELSE {}

(* What of the answers of cs is allocated *)
Answered(cs) == UNION {Made(c, Of(c), answer[c].entries) : c \in cs}

(* Until the end, the heap is what was leaked, the list, and the answers    *)
(* the client has.                                                          *)
HeapExact ==
    pc \notin {"crashed", "exit"} => heap = Leaked \cup Cached \cup Answered(LiveAnswers)

IInv ==
    TypeOK /\ Listed /\ InTurn /\ Phases /\ HeapExact
    /\ TokenOfTheProfile /\ JunkNeedsNameless

--------------------------------------------------------------------------------
(* The calls, and the order of those that are made in turn. *)
LEMMA Orders ==
    /\ InOrder(DeviceCalls) = {"hostname", "interfaces", "scopes", "devinfo", "profiles"}
    /\ InOrder(ProfileCalls) = Steps
<1>1. DOMAIN DeviceCalls = 1..5 /\ DOMAIN ProfileCalls = 1..7
  BY DEF DeviceCalls, ProfileCalls
<1>2. \A x : x \in InOrder(DeviceCalls) <=>
             x \in {"hostname", "interfaces", "scopes", "devinfo", "profiles"}
  <2>1. \A x : x \in InOrder(DeviceCalls) <=> \E k \in 1..5 : x = DeviceCalls[k]
    BY <1>1 DEF InOrder
  <2>2. \A k \in 1..5 : k = 1 \/ k = 2 \/ k = 3 \/ k = 4 \/ k = 5
    OBVIOUS
  <2> QED
    BY <2>1, <2>2 DEF DeviceCalls
<1>3. \A x : x \in InOrder(ProfileCalls) <=> x \in Steps
  <2>1. \A x : x \in InOrder(ProfileCalls) <=> \E k \in 1..7 : x = ProfileCalls[k]
    BY <1>1 DEF InOrder
  <2>2. \A k \in 1..7 : k = 1 \/ k = 2 \/ k = 3 \/ k = 4 \/ k = 5 \/ k = 6 \/ k = 7
    OBVIOUS
  <2> QED
    BY <2>1, <2>2 DEF ProfileCalls, Steps
<1> QED
  BY <1>2, <1>3

(* What is called after c. *)
LEMMA Follows ==
    /\ \A c \in {"hostname", "interfaces", "scopes", "devinfo"} :
          Following(DeviceCalls, c) \in Before \ {"authenticate", "hostname"}
    /\ \A c \in Steps \ {"caps", "snapuri", "snapshot"} :
          Following(ProfileCalls, c) \in Steps \ {"snapuri", "snapshot"}
    /\ Following(ProfileCalls, "caps") = "snapuri"
<1>1. ASSUME NEW n \in 1..4 PROVE Following(DeviceCalls, DeviceCalls[n]) = DeviceCalls[n + 1]
  <2>1. \A x \in DOMAIN DeviceCalls : DeviceCalls[x] = DeviceCalls[n] <=> x = n
    BY DEF DeviceCalls
  <2>2. n \in DOMAIN DeviceCalls
    BY DEF DeviceCalls
  <2> QED
    BY <2>1, <2>2 DEF Following
<1>2. ASSUME NEW n \in 1..6 PROVE Following(ProfileCalls, ProfileCalls[n]) = ProfileCalls[n + 1]
  <2>1. \A x \in DOMAIN ProfileCalls : ProfileCalls[x] = ProfileCalls[n] <=> x = n
    BY DEF ProfileCalls
  <2>2. n \in DOMAIN ProfileCalls
    BY DEF ProfileCalls
  <2> QED
    BY <2>1, <2>2 DEF Following
<1>3. /\ DeviceCalls[1] = "hostname" /\ DeviceCalls[2] = "interfaces"
      /\ DeviceCalls[3] = "scopes" /\ DeviceCalls[4] = "devinfo"
      /\ DeviceCalls[5] = "profiles"
  BY DEF DeviceCalls
<1>4. /\ ProfileCalls[1] = "sources" /\ ProfileCalls[2] = "outputs"
      /\ ProfileCalls[3] = "options" /\ ProfileCalls[4] = "stream"
      /\ ProfileCalls[5] = "caps" /\ ProfileCalls[6] = "snapuri"
  BY DEF ProfileCalls
<1>5. /\ Following(DeviceCalls, "hostname") = "interfaces"
      /\ Following(DeviceCalls, "interfaces") = "scopes"
      /\ Following(DeviceCalls, "scopes") = "devinfo"
      /\ Following(DeviceCalls, "devinfo") = "profiles"
  <2>1. Following(DeviceCalls, DeviceCalls[1]) = DeviceCalls[2]
    BY <1>1
  <2>2. Following(DeviceCalls, DeviceCalls[2]) = DeviceCalls[3]
    BY <1>1
  <2>3. Following(DeviceCalls, DeviceCalls[3]) = DeviceCalls[4]
    BY <1>1
  <2>4. Following(DeviceCalls, DeviceCalls[4]) = DeviceCalls[5]
    BY <1>1
  <2> QED
    BY <1>3, <2>1, <2>2, <2>3, <2>4
<1>6. /\ Following(ProfileCalls, "sources") = "outputs"
      /\ Following(ProfileCalls, "outputs") = "options"
      /\ Following(ProfileCalls, "options") = "stream"
      /\ Following(ProfileCalls, "stream") = "caps"
      /\ Following(ProfileCalls, "caps") = "snapuri"
  <2>1. Following(ProfileCalls, ProfileCalls[1]) = ProfileCalls[2]
    BY <1>2
  <2>2. Following(ProfileCalls, ProfileCalls[2]) = ProfileCalls[3]
    BY <1>2
  <2>3. Following(ProfileCalls, ProfileCalls[3]) = ProfileCalls[4]
    BY <1>2
  <2>4. Following(ProfileCalls, ProfileCalls[4]) = ProfileCalls[5]
    BY <1>2
  <2>5. Following(ProfileCalls, ProfileCalls[5]) = ProfileCalls[6]
    BY <1>2
  <2> QED
    BY <1>4, <2>1, <2>2, <2>3, <2>4, <2>5
<1> QED
  BY <1>5, <1>6 DEF Before, Steps

--------------------------------------------------------------------------------
(* Every class but that of the device's capabilities frees what it copies,  *)
(* and that one all but the DeviceIO.                                       *)
LEMMA FreesCopies ==
    /\ \A c : c # "devcaps" => Frees(c) = Copies(c)
    /\ Frees("devcaps") = Copies("devcaps") \ {"deviceio"}
BY DEF Frees, Copies, DevcapsFrees, DevcapsCopies, InterfaceFrees, InterfaceCopies,
       ScopeFrees, ScopeCopies, InfoFrees, InfoCopies, HostnameFrees, HostnameCopies,
       SourceFrees, SourceCopies, OutputFrees, OutputCopies, OptionFrees,
       OptionCopies, UriFrees, UriCopies, Media1UriFrees, Media1UriCopies,
       ProfileFrees, ProfileCopies

(* The entries of an answer have no part that its class does not copy. *)
LEMMA EntryParts == \A c : \A e \in Entry(c) : e \subseteq Copies(c)
BY DEF Entry

LEMMA AnswerParts ==
    ASSUME NEW c, NEW a \in Answers(c) \cup {Nothing("NONE"), Nothing("UNEXPECTED")}
    PROVE  /\ DOMAIN a.entries \subseteq Nat
           /\ \A j \in DOMAIN a.entries : a.entries[j] \subseteq Copies(c)
<1>1. CASE a \in Filled(c)
  <2>1. PICK k \in IF c \in Arrays THEN 0..Upto(c) ELSE {1} :
            a.entries \in [1..k -> Entry(c)]
    BY <1>1 DEF Filled
  <2> QED
    BY <2>1, EntryParts
<1>2. CASE a \notin Filled(c)
  <2>1. PICK f : a = Nothing(f)
    BY <1>2 DEF Answers
  <2>2. a.entries = <<>>
    BY <2>1 DEF Nothing
  <2> QED
    BY <2>2
<1> QED
  BY <1>1, <1>2

(* What is made of an answer is freed with it. *)
LEMMA MadeIsFreed ==
    ASSUME NEW c, c # "devcaps", NEW n, NEW a \in Answers(c) \cup {Nothing("NONE"), Nothing("UNEXPECTED")}
    PROVE  Made(c, n, a.entries) \subseteq Freed(c, n, a.entries)
<1> SUFFICES ASSUME NEW b \in Made(c, n, a.entries) PROVE b \in Freed(c, n, a.entries)
  OBVIOUS
<1>1. CASE b \in Shell(c, n, a.entries)
  BY <1>1 DEF Freed
<1>2. CASE b \notin Shell(c, n, a.entries)
  <2>1. PICK j \in DOMAIN a.entries : b \in {<<c, n, j, s>> : s \in a.entries[j]}
    BY <1>2 DEF Made
  <2>2. PICK s \in a.entries[j] : b = <<c, n, j, s>>
    BY <2>1
  <2>3. s \in Frees(c)
    BY <2>2, AnswerParts, FreesCopies
  <2> QED
    BY <2>1, <2>2, <2>3 DEF Freed
<1> QED
  BY <1>1, <1>2

(* What is made of a device's capabilities is freed but for their DeviceIO. *)
LEMMA DeviceIOIsKept ==
    ASSUME NEW a \in Answers("devcaps") \cup {Nothing("NONE"), Nothing("UNEXPECTED")}, NEW n
    PROVE  Made("devcaps", n, a.entries) \ Freed("devcaps", n, a.entries)
               = {b \in Made("devcaps", n, a.entries) : b[4] = "deviceio"}
<1> DEFINE M == Made("devcaps", n, a.entries)
           F == Freed("devcaps", n, a.entries)
<1>1. ASSUME NEW b \in Shell("devcaps", n, a.entries) PROVE b \in F /\ b[4] # "deviceio"
  BY DEF Freed, Shell
<1>2. ASSUME NEW b \in M, b \notin Shell("devcaps", n, a.entries)
      PROVE  b \in F <=> b[4] # "deviceio"
  <2>1. PICK j \in DOMAIN a.entries : b \in {<<"devcaps", n, j, s>> : s \in a.entries[j]}
    BY <1>2 DEF Made
  <2>2. PICK s \in a.entries[j] : b = <<"devcaps", n, j, s>>
    BY <2>1
  <2>3. s \in Copies("devcaps") /\ b[4] = s
    BY <2>2, AnswerParts
  <2>4. b \in F <=> \E k \in DOMAIN a.entries, t \in Frees("devcaps") :
                        b = <<"devcaps", n, k, t>>
    BY <1>2 DEF Freed
  <2>5. b \in F <=> s \in Frees("devcaps")
    BY <2>1, <2>2, <2>4
  <2> QED
    BY <2>3, <2>5, FreesCopies
<1> QED
  BY <1>1, <1>2

(* Each block says whose it is. *)
LEMMA Keyed ==
    ASSUME NEW c, NEW n, NEW e, NEW b \in Made(c, n, e) \cup Freed(c, n, e)
    PROVE  b[1] = c /\ b[2] = n
BY DEF Made, Freed, Shell

(* The capabilities are one object. *)
LEMMA CapsAreOneObject ==
    ASSUME NEW a \in Answers("caps") \cup {Nothing("NONE"), Nothing("UNEXPECTED")}, NEW n
    PROVE  Made("caps", n, a.entries) = {<<"caps", n, 0, "object">>}
<1>1. Copies("caps") = {}
  BY DEF Copies
<1>2. \A j \in DOMAIN a.entries : a.entries[j] = {}
  BY <1>1, AnswerParts
<1> QED
  BY <1>2 DEF Made, Shell, Arrays, Objects

(* The blocks there can be. *)
Blocks ==
    Classes \X Nat \X Nat \X ({"object", "array"} \cup UNION {Copies(c) : c \in Classes})

LEMMA MadeIsTyped ==
    ASSUME NEW c \in Classes, NEW n \in Nat,
           NEW a \in Answers(c) \cup {Nothing("NONE"), Nothing("UNEXPECTED")}
    PROVE  Made(c, n, a.entries) \subseteq Blocks
<1> SUFFICES ASSUME NEW b \in Made(c, n, a.entries) PROVE b \in Blocks
  OBVIOUS
<1>1. CASE b \in Shell(c, n, a.entries)
  <2>1. \/ b = <<c, n, 0, "object">> \/ b = <<c, n, 0, "array">>
        \/ \E j \in DOMAIN a.entries : b = <<c, n, j, "object">>
    BY <1>1 DEF Shell
  <2> QED
    BY <2>1, AnswerParts DEF Blocks
<1>2. CASE b \notin Shell(c, n, a.entries)
  <2>1. PICK j \in DOMAIN a.entries : b \in {<<c, n, j, s>> : s \in a.entries[j]}
    BY <1>2 DEF Made
  <2>2. PICK s \in a.entries[j] : b = <<c, n, j, s>>
    BY <2>1
  <2>3. j \in Nat /\ s \in Copies(c)
    BY <2>1, <2>2, AnswerParts
  <2> QED
    BY <2>2, <2>3 DEF Blocks
<1> QED
  BY <1>1, <1>2

(* What an answer can be depends on nothing that changes. *)
LEMMA Fixed ==
    ASSUME media2' = media2
    PROVE  /\ \A c : Answers(c)' = Answers(c)
           /\ Blocks' = Blocks
<1>1. \A c : Copies(c)' = Copies(c)
  BY DEF Copies
<1>2. \A c : Entry(c)' = Entry(c)
  BY <1>1 DEF Entry
<1>3. ASSUME NEW c PROVE Filled(c)' = Filled(c)
  <2> DEFINE G(E) ==
          [fault: {"NONE"},
           entries: UNION {[1..k -> E] : k \in IF c \in Arrays THEN 0..Upto(c) ELSE {1}},
           flag: IF c \in {"caps", "snapshot"} THEN BOOLEAN ELSE {FALSE}]
  <2>1. Entry(c)' = Entry(c)
    BY <1>2
  <2>2. Filled(c) = G(Entry(c)) /\ Filled(c)' = G(Entry(c)')
    BY Zenon DEF Filled
  <2> HIDE DEF G
  <2> QED
    BY <2>1, <2>2
<1> QED
  BY <1>1, <1>3 DEF Answers, Blocks

(* A list of profiles has a length. *)
LEMMA ListLength ==
    ASSUME NEW a \in Answers("profiles"), MaxProfiles \in Nat
    PROVE  /\ Len(a.entries) \in 0..MaxProfiles
           /\ DOMAIN a.entries = 1..Len(a.entries)
           /\ Len(a.entries) = 0 => a.entries = <<>>
<1>1. CASE a \in Filled("profiles")
  <2>1. PICK k \in 0..MaxProfiles : a.entries \in [1..k -> Entry("profiles")]
    <3>1. "profiles" \in Arrays /\ Upto("profiles") = MaxProfiles
      BY DEF Arrays, Upto
    <3>2. a.entries \in UNION {[1..k -> Entry("profiles")] :
                                 k \in IF "profiles" \in Arrays THEN 0..Upto("profiles")
                                       ELSE {1}}
      BY <1>1 DEF Filled
    <3> QED
      BY <3>1, <3>2
  <2>2. a.entries \in Seq(Entry("profiles")) /\ k \in Nat
    BY <2>1
  <2> QED
    BY <2>1, <2>2, LenProperties
<1>2. CASE a \notin Filled("profiles")
  <2>1. PICK f : a = Nothing(f)
    BY <1>2 DEF Answers
  <2> QED
    BY <2>1 DEF Nothing
<1> QED
  BY <1>1, <1>2

(* The first load fetches a list. *)
LEMMA FetchedFirst ==
    ASSUME list = <<>>, cache = 0
    PROVE  /\ Loads = {Fetched(a) : a \in Answers("profiles")}
           /\ \A a : Fetched(a) = [list |-> <<a>>, cache |-> 1,
                                   heap |-> heap \cup Made("profiles", 1, a.entries)]
<1>1. Stale
  BY DEF Stale
<1>2. Len(list) = 0 /\ \A a : Append(list, a) = <<a>>
  OBVIOUS
<1> QED
  BY <1>1, <1>2 DEF Loads, Fetched

(* A list that is no fault is not fetched again. *)
LEMMA LoadsFixed ==
    ASSUME cache = 1, list[1].fault = "NONE"
    PROVE  Loads = {[list |-> list, cache |-> cache, heap |-> heap]}
BY DEF Loads, Stale

(* The answers a client has, after some are dropped. *)
LEMMA Dropping ==
    ASSUME IInv, pc \notin {"crashed", "exit"}, NEW cs \in SUBSET (LiveAnswers \ {"devcaps"})
    PROVE  heap \ UNION {Freed(c, Of(c), answer[c].entries) : c \in cs}
               = Leaked \cup Cached \cup Answered(LiveAnswers \ cs)
<1> DEFINE F(c) == Freed(c, Of(c), answer[c].entries)
           M(c) == Made(c, Of(c), answer[c].entries)
           Gone == UNION {F(c) : c \in cs}
<1>1. \A b \in Gone : b[1] \in cs /\ b[2] = Of(b[1])
  BY Keyed
<1>2. LiveAnswers \subseteq Classes \ {"profiles"}
  <2>1. "caps" \in Classes
    BY Orders DEF Classes, Steps
  <2> QED
    BY <2>1 DEF LiveAnswers, IInv, Phases
<1>3. Leaked \cap Gone = {}
  <2>1. ASSUME NEW b \in Leaked, b \in Gone PROVE FALSE
    <3>1. PICK n \in skipped : b = <<"caps", n, 0, "object">>
      BY <2>1 DEF Leaked
    <3>2. n = Of("caps")
      BY <3>1, <2>1, <1>1
    <3>3. Of("caps") = i
      BY Orders DEF Of, Steps
    <3>4. i \notin skipped
      BY DEF IInv, InTurn, TypeOK
    <3> QED
      BY <3>1, <3>2, <3>3, <3>4
  <2> QED
    BY <2>1
<1>4. Cached \cap Gone = {}
  <2>1. ASSUME NEW b \in Cached PROVE b[1] = "profiles"
    BY <2>1, Keyed DEF Cached
  <2> QED
    BY <2>1, <1>1, <1>2
<1>5. \A c \in LiveAnswers \ cs : M(c) \cap Gone = {}
  BY <1>1, Keyed
<1>6. \A c \in cs : M(c) \subseteq F(c)
  BY <1>2, MadeIsFreed DEF IInv, TypeOK
<1>7. heap = Leaked \cup Cached \cup UNION {M(c) : c \in LiveAnswers}
  BY DEF IInv, HeapExact, Answered
<1> HIDE DEF F, M
<1>8. heap \ Gone = Leaked \cup Cached \cup UNION {M(c) : c \in LiveAnswers \ cs}
  BY <1>3, <1>4, <1>5, <1>6, <1>7
<1> QED
  BY <1>8 DEF Answered, F, M

--------------------------------------------------------------------------------
(* The names of the calls and of the places. *)
LEMMA Names ==
    /\ Classes = {"hostname", "interfaces", "scopes", "devinfo", "profiles",
                  "sources", "outputs", "options", "stream", "caps", "snapuri",
                  "snapshot", "devcaps"}
    /\ Steps \subseteq Classes
    /\ Places = Classes \cup {"authenticate", "next_profile", "drop_list", "exit",
                             "crashed"}
<1>1. Steps \subseteq Classes
  BY Orders DEF Classes
<1> QED
  BY <1>1, Orders DEF Classes, Places, Steps

LEMMA Initially == Init => IInv
<1> SUFFICES ASSUME Init PROVE IInv
  OBVIOUS
<1> USE SessionAssumption
<1>1. DOMAIN list = {} /\ Lists = {}
  BY DEF Init, Lists
<1>2. TypeOK
  <2>1. /\ DOMAIN answer = Classes
        /\ \A c \in Classes : answer[c] = Nothing("NONE")
    BY DEF Init
  <2>2. pc \in Places /\ heap = {} /\ 1 \in 1..(MaxProfiles + 1)
    BY Names DEF Init
  <2> QED
    BY <1>1, <2>1, <2>2 DEF Init, TypeOK
<1>3. Listed /\ Phases
  <2>1. answer["devcaps"].entries = <<>>
    BY Names DEF Init, Nothing
  <2> QED
    BY <2>1 DEF Init, Listed, Before, Steps, Phases
<1>4. InTurn
  BY DEF Init, InTurn, Steps
<1>5. HeapExact
  BY DEF Init, HeapExact, Leaked, Cached, Answered, LiveAnswers
<1>6. TokenOfTheProfile /\ JunkNeedsNameless
  BY DEF Init, TokenOfTheProfile, JunkNeedsNameless
<1> QED
  BY <1>2, <1>3, <1>4, <1>5, <1>6 DEF IInv

(* A step that fetches and receives nothing keeps the types. *)
LEMMA KeptTypes ==
    ASSUME IInv, UNCHANGED <<media2, list, cache>>, heap' \subseteq heap,
           DOMAIN answer' = Classes,
           \A c \in Classes : answer'[c] \in {answer[c], Nothing("NONE")},
           pc' \in Places, phase' \in {"call", "send", "read"},
           i' \in 1..(MaxProfiles + 1), mine' \in {mine, 0},
           asked' \in (Lists \X Indexes) \cup {NoToken}, junk' \in BOOLEAN,
           skipped' \subseteq Indexes, saved' \subseteq Indexes
    PROVE  TypeOK'
<1>1. heap' \subseteq Blocks'
  BY Fixed DEF IInv, TypeOK, Blocks
<1>2. \A c \in Classes : answer'[c] \in (Answers(c) \cup {Nothing("NONE")}
                                            \cup {Nothing("UNEXPECTED")})'
  BY Fixed DEF IInv, TypeOK, Nothing
<1>3. Lists' = Lists /\ \A l \in Lists' : list'[l] \in Answers("profiles")'
  BY Fixed DEF IInv, TypeOK, Lists
<1> QED
  BY <1>1, <1>2, <1>3 DEF IInv, TypeOK, Blocks

(* An answer arrives. *)
LEMMA Receiving ==
    ASSUME IInv, NEW c \in Classes \ {"profiles"},
           NEW a \in Answers(c) \cup {Nothing("NONE"), Nothing("UNEXPECTED")},
           pc = c, phase # "read", Receive(c, a, heap),
           asked' \in (Lists \X Indexes) \cup {NoToken}, junk' \in BOOLEAN,
           UNCHANGED <<media2, i, list, cache, mine, skipped, saved>>
    PROVE  TypeOK' /\ Listed' /\ InTurn' /\ Phases' /\ HeapExact'
<1> USE SessionAssumption
<1>1. pc' = pc /\ phase' = "read" /\ answer' = [answer EXCEPT ![c] = a]
      /\ heap' = heap \cup Made(c, Of(c), a.entries)
  BY DEF Receive
<1>2. Of(c) \in Nat /\ \A d : Of(d)' = Of(d)
  BY DEF Of, IInv, TypeOK
<1>3. TypeOK'
  <2>1. Made(c, Of(c), a.entries) \subseteq Blocks
    BY <1>2, MadeIsTyped
  <2>2. heap' \subseteq Blocks'
    BY <2>1, <1>1, Fixed DEF IInv, TypeOK, Blocks
  <2>3. \A d \in Classes : answer'[d] \in (Answers(d) \cup {Nothing("NONE")}
                                              \cup {Nothing("UNEXPECTED")})'
    BY <1>1, Fixed DEF IInv, TypeOK, Nothing
  <2>4. \A l \in Lists' : list'[l] \in Answers("profiles")'
    BY Fixed DEF IInv, TypeOK, Lists
  <2>5. Lists' = Lists /\ DOMAIN answer' = Classes
    BY <1>1 DEF Lists, IInv, TypeOK
  <2> QED
    BY <1>1, <2>2, <2>3, <2>4, <2>5 DEF IInv, TypeOK, Blocks
<1>4. Listed' /\ InTurn'
  BY <1>1 DEF IInv, Listed, InTurn
<1>5. Phases'
  BY <1>1 DEF Phases
<1>6. HeapExact'
  <2>1. heap = Leaked \cup Cached \cup Answered(LiveAnswers)
    BY Names DEF IInv, HeapExact
  <2>2. Leaked' = Leaked /\ Cached' = Cached
    BY <1>1 DEF Leaked, Cached
  <2>3. LiveAnswers = (IF c = "snapuri" THEN {"caps"} ELSE {})
    BY DEF LiveAnswers
  <2>4. LiveAnswers' = {c} \cup LiveAnswers
    BY <1>1, <2>3 DEF LiveAnswers
  <2>5. \A d \in LiveAnswers : answer'[d] = answer[d]
    BY <1>1, <2>3, Names DEF IInv, TypeOK
  <2>6. answer'[c] = a
    BY <1>1 DEF IInv, TypeOK
  <2>7. UNION {Made(d, Of(d)', answer'[d].entries) : d \in {c} \cup LiveAnswers}
           = Made(c, Of(c), a.entries)
               \cup UNION {Made(d, Of(d), answer[d].entries) : d \in LiveAnswers}
    BY <1>2, <2>5, <2>6
  <2>8. Answered(LiveAnswers)' = Made(c, Of(c), a.entries) \cup Answered(LiveAnswers)
    BY <2>4, <2>7 DEF Answered
  <2> QED
    BY <1>1, <2>1, <2>2, <2>8 DEF HeapExact
<1> QED
  BY <1>3, <1>4, <1>5, <1>6

LEMMA CallStep == ASSUME IInv, NEW c \in Classes, Call(c) PROVE IInv'
<1>1. c # "profiles"
  BY Names DEF Call, Plain, Steps
<1>2. PICK a \in Answers(c) : Receive(c, a, heap)
  BY DEF Call
<1>3. TypeOK' /\ Listed' /\ InTurn' /\ Phases' /\ HeapExact'
  BY <1>1, <1>2, Receiving DEF Call, IInv, TypeOK
<1>4. TokenOfTheProfile'
  BY DEF Call, TokenOfTheProfile
<1>5. JunkNeedsNameless'
  BY DEF Call, IInv, JunkNeedsNameless, Lists
<1> QED
  BY <1>3, <1>4, <1>5 DEF IInv

(* The client crashes on an answer it was not ready for. *)
LEMMA MalformedStep == ASSUME IInv, NEW c \in Classes, Malformed(c) PROVE IInv'
<1> USE SessionAssumption
<1>1. /\ pc = c /\ pc' = "crashed" /\ phase' = "call"
      /\ UNCHANGED <<media2, i, list, cache, mine, answer, heap, asked, junk, skipped, saved>>
  BY DEF Malformed, Goto
<1>2. TypeOK'
  BY <1>1, KeptTypes, Names DEF IInv, TypeOK
<1>3. Listed' /\ InTurn' /\ Phases' /\ HeapExact'
  BY <1>1 DEF IInv, Listed, InTurn, Phases, HeapExact, Before, Steps
<1>4. TokenOfTheProfile' /\ JunkNeedsNameless'
  BY <1>1 DEF IInv, TokenOfTheProfile, JunkNeedsNameless, Lists
<1> QED
  BY <1>2, <1>3, <1>4 DEF IInv

LEMMA SendStep == ASSUME IInv, NEW c \in Classes, Send(c) PROVE IInv'
<1>1. c # "profiles"
  BY DEF Send, IInv, Phases, Steps
<1>2. PICK a \in Answers(c) : Receive(c, a, heap)
  BY DEF Send
<1>3. TypeOK' /\ Listed' /\ InTurn' /\ Phases' /\ HeapExact'
  BY <1>1, <1>2, Receiving DEF Send, IInv, TypeOK
<1>4. TokenOfTheProfile'
  BY DEF Send, TokenOfTheProfile, IInv
<1>5. JunkNeedsNameless'
  BY DEF Send, IInv, JunkNeedsNameless, Lists
<1> QED
  BY <1>3, <1>4, <1>5 DEF IInv

(* With the list at hand, a token is the one of the profile the loop is at, *)
(* or there is none.                                                        *)
LEMMA GetTokenStep == ASSUME IInv, NEW c \in Classes, GetToken(c) PROVE IInv'
<1> USE SessionAssumption
<1>1. c \in Steps /\ pc = c /\ phase = "call"
  BY Orders DEF GetToken
<1>2. cache = 1 /\ mine = 1 /\ list[1].fault = "NONE" /\ Lists = {1}
  BY <1>1 DEF IInv, Listed, Lists, Steps
<1> DEFINE load == [list |-> list, cache |-> cache, heap |-> heap]
<1>3. load \in Loads /\ \A x \in Loads : x = load
  BY <1>2, LoadsFixed
<1>4. /\ list' = list /\ cache' = cache
      /\ asked' = IF HasToken(load, i) THEN TokenAt(load) ELSE NoToken
      /\ \/ /\ HasToken(load, i) /\ UNCHANGED junk
            /\ phase' = "send" /\ heap' = heap /\ UNCHANGED <<pc, answer>>
         \/ ~HasToken(load, i) /\ Receive(c, Nothing("UNEXPECTED"), heap) /\ UNCHANGED junk
         \/ /\ ~HasToken(load, i) /\ junk' = TRUE
            /\ phase' = "send" /\ heap' = heap /\ UNCHANGED <<pc, answer>>
  BY <1>2, <1>3 DEF GetToken
<1>5. UNCHANGED <<media2, i, list, cache, mine, skipped, saved>>
  BY <1>4 DEF GetToken
<1>6. i \in DOMAIN list[1].entries
  BY <1>1 DEF IInv, InTurn
<1>7. i \in Indexes
  BY <1>2, <1>6, ListLength DEF IInv, TypeOK, Indexes
<1>8. asked' \in (Lists \X Indexes) \cup {NoToken} /\ junk' \in BOOLEAN
  BY <1>2, <1>4, <1>6, <1>7 DEF TokenAt, IInv, TypeOK
<1>9. TypeOK' /\ Listed' /\ InTurn' /\ Phases' /\ HeapExact'
  <2>1. CASE Receive(c, Nothing("UNEXPECTED"), heap)
    BY <2>1, <1>1, <1>5, <1>8, Receiving DEF Steps
  <2>2. CASE phase' = "send" /\ heap' = heap /\ UNCHANGED <<pc, answer>>
    <3>1. TypeOK'
      BY <2>2, <1>5, <1>8, KeptTypes DEF IInv, TypeOK
    <3>2. Listed' /\ InTurn'
      BY <2>2, <1>5 DEF IInv, Listed, InTurn
    <3>3. Phases'
      BY <2>2, <1>1 DEF Phases
    <3>4. HeapExact'
      <4>1. LiveAnswers' = LiveAnswers /\ Leaked' = Leaked /\ Cached' = Cached
        BY <2>2, <1>1, <1>5 DEF LiveAnswers, Leaked, Cached
      <4>2. \A d : Of(d)' = Of(d)
        BY <1>5 DEF Of
      <4>3. Answered(LiveAnswers)' = Answered(LiveAnswers)
        BY <2>2, <4>1, <4>2 DEF Answered
      <4> QED
        BY <2>2, <4>1, <4>3 DEF IInv, HeapExact
    <3> QED
      BY <3>1, <3>2, <3>3, <3>4
  <2> QED
    BY <1>4, <2>1, <2>2
<1>10. TokenOfTheProfile'
  BY <1>2, <1>4, <1>5 DEF TokenOfTheProfile, TokenAt
<1>11. JunkNeedsNameless'
  <2>1. CASE UNCHANGED junk
    BY <2>1, <1>5 DEF IInv, JunkNeedsNameless, Lists
  <2>2. CASE ~HasToken(load, i)
    <3>1. "token" \notin list[1].entries[i]
      BY <2>2, <1>2, <1>6 DEF HasToken
    <3> QED
      BY <3>1, <1>2, <1>5, <1>6 DEF JunkNeedsNameless, Lists
  <2> QED
    BY <1>4, <2>1, <2>2
<1> QED
  BY <1>9, <1>10, <1>11 DEF IInv

(* Answers are dropped, *)
LEMMA DropsTyped ==
    ASSUME IInv, NEW cs \in SUBSET (LiveAnswers \ {"devcaps"}), NEW place, Drop(cs, place),
           UNCHANGED <<media2, list, cache, mine>>,
           place \in Places, pc \notin {"crashed", "exit"},
           i' \in 1..(MaxProfiles + 1), skipped' \subseteq Indexes, saved' \subseteq Indexes,
           asked' \in (Lists \X Indexes) \cup {NoToken}, junk' \in BOOLEAN
    PROVE  /\ TypeOK' /\ Phases'
           /\ heap' = Leaked \cup Cached \cup Answered(LiveAnswers \ cs)
           /\ \A d \in LiveAnswers \ cs : answer'[d] = answer[d]
<1> USE SessionAssumption
<1>1. /\ heap' = Leaked \cup Cached \cup Answered(LiveAnswers \ cs)
      /\ heap' \subseteq heap
  BY Dropping DEF Drop
<1>2. /\ pc' = place /\ phase' = "call" /\ DOMAIN answer' = Classes
      /\ \A d \in Classes : answer'[d] = IF d \in cs THEN Nothing("NONE") ELSE answer[d]
  BY DEF Drop, Goto
<1>3. TypeOK'
  BY <1>1, <1>2, KeptTypes DEF IInv, TypeOK
<1>4. Phases'
  BY <1>2 DEF Phases
<1>5. LiveAnswers \subseteq Classes
  BY Names DEF LiveAnswers, IInv, Phases
<1> QED
  BY <1>1, <1>2, <1>3, <1>4, <1>5

(* and the client goes on, within one profile. *)
LEMMA DropsOn ==
    ASSUME IInv, NEW cs \in SUBSET (LiveAnswers \ {"devcaps"}), NEW place, Drop(cs, place),
           UNCHANGED <<media2, i, list, cache, mine, skipped, saved>>,
           place \in Places \ {"crashed", "exit"}, pc \notin {"crashed", "exit"},
           asked' \in (Lists \X Indexes) \cup {NoToken}, junk' \in BOOLEAN,
           LiveAnswers' = LiveAnswers \ cs
    PROVE  TypeOK' /\ Phases' /\ HeapExact'
<1>1. /\ TypeOK' /\ Phases'
      /\ heap' = Leaked \cup Cached \cup Answered(LiveAnswers \ cs)
      /\ \A d \in LiveAnswers \ cs : answer'[d] = answer[d]
  BY DropsTyped DEF IInv, TypeOK
<1>2. Leaked' = Leaked /\ Cached' = Cached
  BY DEF Leaked, Cached, Drop, Goto
<1>3. \A d : Of(d)' = Of(d)
  BY DEF Of
<1>4. Answered(LiveAnswers)' = Answered(LiveAnswers \ cs)
  BY <1>1, <1>3 DEF Answered
<1> QED
  BY <1>1, <1>2, <1>4 DEF HeapExact

LEMMA ReportStep == ASSUME IInv, NEW c \in Classes, Report(c) PROVE IInv'
<1>1. pc = c /\ c \in {"hostname", "interfaces", "scopes", "devinfo"} /\ phase = "read"
  BY Orders DEF Report
<1>2. LiveAnswers = {c}
  BY <1>1 DEF LiveAnswers
<1>3. pc' = Following(DeviceCalls, c) /\ phase' = "call"
      /\ pc' \in Before \ {"authenticate", "hostname"}
  BY <1>1, Follows DEF Report, Drop, Goto
<1>4. LiveAnswers' = {}
  BY <1>3 DEF LiveAnswers, Before
<1>5. TypeOK' /\ Phases' /\ HeapExact'
  <2>1. Following(DeviceCalls, c) \in Places \ {"crashed", "exit"}
    BY <1>3, Names DEF Before
  <2> QED
    BY <1>1, <1>2, <1>4, <2>1, DropsOn DEF Report, IInv, TypeOK
<1>6. Listed' /\ InTurn'
  BY <1>1, <1>3 DEF Report, IInv, Listed, InTurn, Before, Steps
<1>7. TokenOfTheProfile' /\ JunkNeedsNameless'
  BY <1>3 DEF Report, IInv, TokenOfTheProfile, JunkNeedsNameless, Lists
<1> QED
  BY <1>5, <1>6, <1>7 DEF IInv

LEMMA ShowStep == ASSUME IInv, NEW c \in Classes, Show(c) PROVE IInv'
<1>1. pc = c /\ c \in Steps \ {"snapuri", "snapshot"} /\ phase = "read"
  BY Orders DEF Show
<1>2. LiveAnswers = {c}
  BY <1>1 DEF LiveAnswers
<1>3. pc' = Following(ProfileCalls, c) /\ phase' = "call"
  BY DEF Show, Drop, Goto
<1>4. /\ pc' \in Steps
      /\ LiveAnswers' = {c} \ ({c} \ {"caps"})
  <2>1. CASE c = "caps"
    BY <1>3, <2>1, Follows DEF LiveAnswers, Steps
  <2>2. CASE c # "caps"
    <3>1. pc' \in Steps \ {"snapuri", "snapshot"}
      BY <1>1, <1>3, <2>2, Follows
    <3> QED
      BY <1>3, <2>2, <3>1 DEF LiveAnswers
  <2> QED
    BY <2>1, <2>2
<1>5. TypeOK' /\ Phases' /\ HeapExact'
  <2>1. Following(ProfileCalls, c) \in Places \ {"crashed", "exit"}
    BY <1>3, <1>4, Names DEF Steps
  <2> QED
    BY <1>1, <1>2, <1>4, <2>1, DropsOn DEF Show, IInv, TypeOK, Steps
<1>6. Listed' /\ InTurn'
  BY <1>1, <1>4 DEF Show, IInv, Listed, InTurn, Before, Steps
<1>7. TokenOfTheProfile' /\ JunkNeedsNameless'
  BY <1>3 DEF Show, IInv, TokenOfTheProfile, JunkNeedsNameless, Lists
<1> QED
  BY <1>5, <1>6, <1>7 DEF IInv

(* Without a snapshot's address the profile's capabilities are leaked. *)
LEMMA SnapshotUriStep == ASSUME IInv, SnapshotUri PROVE IInv'
<1> USE SessionAssumption
<1>1. pc = "snapuri" /\ phase = "read" /\ LiveAnswers = {"snapuri", "caps"}
  BY DEF SnapshotUri, LiveAnswers
<1>2. /\ cache = 1 /\ mine = 1 /\ list[1].fault = "NONE"
      /\ i \in DOMAIN list[1].entries /\ list[1] \in Answers("profiles")
  BY <1>1 DEF IInv, Listed, InTurn, TypeOK, Steps
<1>3. i \in Indexes /\ i \in 1..Len(list[1].entries)
  BY <1>2, ListLength DEF Indexes
<1>4. CASE HasUri
  <2>1. Drop({"caps", "snapuri"}, "snapshot") /\ UNCHANGED <<i, skipped>>
    BY <1>4 DEF SnapshotUri
  <2>2. pc' = "snapshot" /\ phase' = "call" /\ LiveAnswers' = {}
    BY <2>1 DEF Drop, Goto, LiveAnswers
  <2>3. TypeOK' /\ Phases' /\ HeapExact'
    BY <1>1, <2>1, <2>2, Names, DropsOn DEF SnapshotUri, IInv, TypeOK, Steps
  <2>4. Listed' /\ InTurn'
    BY <1>1, <2>1, <2>2 DEF SnapshotUri, IInv, Listed, InTurn, Before, Steps
  <2>5. TokenOfTheProfile' /\ JunkNeedsNameless'
    BY <2>2 DEF SnapshotUri, IInv, TokenOfTheProfile, JunkNeedsNameless, Lists
  <2> QED
    BY <2>3, <2>4, <2>5 DEF IInv
<1>5. CASE ~HasUri
  <2>1. Drop({"snapuri"}, "next_profile") /\ i' = i + 1 /\ skipped' = skipped \cup {i}
    BY <1>5 DEF SnapshotUri
  <2>2. pc' = "next_profile" /\ phase' = "call" /\ LiveAnswers' = {}
    BY <2>1 DEF Drop, Goto, LiveAnswers
  <2>3. UNCHANGED <<media2, list, cache, mine, asked, junk, saved>>
    BY DEF SnapshotUri
  <2>4. /\ TypeOK' /\ Phases'
        /\ heap' = Leaked \cup Cached \cup Answered(LiveAnswers \ {"snapuri"})
    <3>1. i' \in 1..(MaxProfiles + 1)
      BY <1>3, <2>1 DEF Indexes
    <3>2. skipped' \subseteq Indexes
      BY <1>3, <2>1 DEF IInv, TypeOK
    <3> QED
      BY <1>1, <2>1, <2>3, <3>1, <3>2, Names, DropsTyped DEF IInv, TypeOK
  <2>5. HeapExact'
    <3>1. Answered({"caps"}) = {<<"caps", i, 0, "object">>}
      <4>1. Of("caps") = i
        BY Orders DEF Of, Steps
      <4>2. answer["caps"] \in Answers("caps") \cup {Nothing("NONE"), Nothing("UNEXPECTED")}
        BY Names DEF IInv, TypeOK
      <4> QED
        BY <4>1, <4>2, CapsAreOneObject DEF Answered
    <3>2. Leaked' = Leaked \cup {<<"caps", i, 0, "object">>}
      BY <2>1 DEF Leaked
    <3>3. Cached' = Cached /\ Answered(LiveAnswers)' = {}
      BY <1>1, <2>2, <2>3 DEF Cached, Answered
    <3>4. LiveAnswers \ {"snapuri"} = {"caps"}
      BY <1>1
    <3> QED
      BY <2>4, <3>1, <3>2, <3>3, <3>4 DEF HeapExact
  <2>6. Listed'
    BY <1>2, <2>2, <2>3 DEF IInv, Listed, Before, Steps
  <2>7. InTurn'
    <3>1. skipped \subseteq 1..(i - 1) /\ saved \subseteq 1..(i - 1) /\ i \in Nat
          /\ saved \cap skipped = {}
      BY DEF IInv, InTurn, TypeOK
    <3>2. i' \in Nat /\ i' - 1 = i /\ i \notin saved
      BY <3>1, <2>1
    <3>3. /\ skipped' \subseteq 1..(i' - 1) /\ saved' \subseteq 1..(i' - 1)
          /\ saved' \cap skipped' = {}
      <4>1. 1..(i - 1) \subseteq 1..i /\ i \in 1..i
        BY <1>3, <3>1
      <4> QED
        BY <4>1, <3>1, <3>2, <2>1, <2>3
    <3>4. i' \in 1..(Len(list'[1].entries) + 1)
      BY <1>2, <1>3, <2>1, <2>3, ListLength
    <3> QED
      BY <3>3, <3>4, <2>2 DEF InTurn, Steps
  <2>8. TokenOfTheProfile' /\ JunkNeedsNameless'
    BY <2>2, <2>3 DEF IInv, TokenOfTheProfile, JunkNeedsNameless, Lists
  <2> QED
    BY <2>4, <2>5, <2>6, <2>7, <2>8 DEF IInv
<1> QED
  BY <1>4, <1>5

LEMMA SnapshotStep == ASSUME IInv, Snapshot PROVE IInv'
<1> USE SessionAssumption
<1>1. pc = "snapshot" /\ phase = "read" /\ LiveAnswers = {"snapshot"}
  BY DEF Snapshot, LiveAnswers
<1>2. /\ cache = 1 /\ mine = 1 /\ list[1].fault = "NONE"
      /\ i \in DOMAIN list[1].entries /\ list[1] \in Answers("profiles")
  BY <1>1 DEF IInv, Listed, InTurn, TypeOK, Steps
<1>3. i \in Indexes /\ i \in 1..Len(list[1].entries)
  BY <1>2, ListLength DEF Indexes
<1>4. UNCHANGED <<media2, list, cache, mine, asked, junk, skipped>>
  BY DEF Snapshot
<1>5. CASE /\ Drop({"snapshot"}, "next_profile") /\ i' = i + 1
           /\ saved' \in {saved, saved \cup {i}}
  <2>1. pc' = "next_profile" /\ phase' = "call" /\ LiveAnswers' = {}
    BY <1>5 DEF Drop, Goto, LiveAnswers
  <2>2. /\ TypeOK' /\ Phases'
        /\ heap' = Leaked \cup Cached \cup Answered(LiveAnswers \ {"snapshot"})
    <3>1. i' \in 1..(MaxProfiles + 1)
      BY <1>3, <1>5 DEF Indexes
    <3>2. saved' \subseteq Indexes
      BY <1>3, <1>5 DEF IInv, TypeOK
    <3> QED
      BY <1>1, <1>4, <1>5, <3>1, <3>2, Names, DropsTyped DEF IInv, TypeOK
  <2>3. HeapExact'
    <3>1. Leaked' = Leaked /\ Cached' = Cached /\ Answered(LiveAnswers)' = {}
      BY <1>1, <1>4, <2>1 DEF Leaked, Cached, Answered
    <3>2. Answered(LiveAnswers \ {"snapshot"}) = {}
      BY <1>1 DEF Answered
    <3> QED
      BY <2>2, <3>1, <3>2 DEF HeapExact
  <2>4. Listed'
    BY <1>2, <1>4, <2>1 DEF IInv, Listed, Before, Steps
  <2>5. InTurn'
    BY <1>3, <1>4, <1>5, <2>1, ListLength DEF IInv, InTurn, Steps
  <2>6. TokenOfTheProfile' /\ JunkNeedsNameless'
    BY <1>4, <2>1 DEF IInv, TokenOfTheProfile, JunkNeedsNameless, Lists
  <2> QED
    BY <2>2, <2>3, <2>4, <2>5, <2>6 DEF IInv
<1>6. CASE Goto("crashed") /\ UNCHANGED <<i, answer, heap, saved>>
  <2>1. pc' = "crashed" /\ phase' = "call"
    BY <1>6 DEF Goto
  <2>2. TypeOK'
    BY <1>4, <1>6, <2>1, KeptTypes, Names DEF IInv, TypeOK
  <2>3. Listed' /\ InTurn' /\ Phases' /\ HeapExact'
    BY <1>4, <1>6, <2>1 DEF IInv, Listed, InTurn, Phases, HeapExact, Before, Steps
  <2>4. TokenOfTheProfile' /\ JunkNeedsNameless'
    BY <1>4, <2>1 DEF IInv, TokenOfTheProfile, JunkNeedsNameless, Lists
  <2> QED
    BY <2>2, <2>3, <2>4 DEF IInv
<1> QED
  BY <1>5, <1>6 DEF Snapshot

(* The loop comes to the next profile, or to its end. *)
LEMMA NextProfileStep == ASSUME IInv, NextProfile PROVE IInv'
<1> USE SessionAssumption
<1>1. pc = "next_profile" /\ phase = "call" /\ LiveAnswers = {}
  BY Names DEF NextProfile, IInv, Phases, TypeOK, LiveAnswers, Steps
<1>2. /\ cache = 1 /\ mine = 1 /\ list[1].fault = "NONE" /\ list[1] \in Answers("profiles")
      /\ i \in 1..(Len(list[1].entries) + 1)
  BY <1>1 DEF IInv, Listed, InTurn, TypeOK
<1>3. UNCHANGED <<media2, i, list, cache, mine, answer, heap, asked, junk, skipped, saved>>
  BY DEF NextProfile
<1>4. \/ pc' = "sources" /\ i \in DOMAIN list[1].entries
      \/ pc' = "drop_list" /\ i = Len(list[1].entries) + 1
  BY <1>2, ListLength DEF NextProfile, Goto
<1>5. phase' = "call"
  BY DEF NextProfile, Goto
<1>6. LiveAnswers' = {} /\ Cached' = Cached
  BY <1>1, <1>3, <1>4, <1>5 DEF LiveAnswers, Cached
<1>7. TypeOK'
  BY <1>3, <1>4, <1>5, KeptTypes, Names DEF IInv, TypeOK
<1>8. Listed' /\ Phases'
  BY <1>2, <1>3, <1>4, <1>5 DEF IInv, Listed, Phases, Before, Steps
<1>9. InTurn'
  BY <1>2, <1>3, <1>4 DEF IInv, InTurn, Steps
<1>10. HeapExact'
  BY <1>1, <1>3, <1>6 DEF IInv, HeapExact, Leaked, Answered
<1>11. TokenOfTheProfile' /\ JunkNeedsNameless'
  BY <1>3, <1>5 DEF IInv, TokenOfTheProfile, JunkNeedsNameless, Lists
<1> QED
  BY <1>7, <1>8, <1>9, <1>10, <1>11 DEF IInv

(* The service keeps the list that the client drops. *)
LEMMA DropListStep == ASSUME IInv, DropList PROVE IInv'
<1> USE SessionAssumption
<1>1. pc = "drop_list" /\ phase = "call" /\ LiveAnswers = {}
  BY Names DEF DropList, IInv, Phases, TypeOK, LiveAnswers, Steps
<1>2. cache = 1 /\ mine = 1
  BY <1>1 DEF IInv, Listed
<1>3. UNCHANGED <<media2, i, list, cache, answer, heap, asked, junk, skipped, saved>>
      /\ mine' = 0 /\ pc' = "devcaps" /\ phase' = "call"
  BY <1>2 DEF DropList, Goto
<1>4. LiveAnswers' = {} /\ Cached' = Cached
  BY <1>1, <1>3 DEF LiveAnswers, Cached
<1>5. TypeOK'
  BY <1>3, KeptTypes, Names DEF IInv, TypeOK
<1>6. Listed' /\ InTurn' /\ Phases'
  BY <1>2, <1>3 DEF IInv, Listed, InTurn, Phases, Before, Steps
<1>7. HeapExact'
  BY <1>1, <1>3, <1>4 DEF IInv, HeapExact, Leaked, Answered
<1>8. TokenOfTheProfile' /\ JunkNeedsNameless'
  BY <1>3 DEF IInv, TokenOfTheProfile, JunkNeedsNameless, Lists
<1> QED
  BY <1>5, <1>6, <1>7, <1>8 DEF IInv

(* The device goes, and with it the list. *)
LEMMA LeaveStep == ASSUME IInv, Leave PROVE IInv'
<1> USE SessionAssumption
<1>1. pc = "devcaps" /\ phase = "read" /\ cache = 1
  BY DEF Leave, IInv, Listed
<1>2. /\ UNCHANGED <<media2, i, list, cache, mine, asked, junk, skipped, saved>>
      /\ pc' = "exit" /\ phase' = "call" /\ heap' \subseteq heap
      /\ answer' = [answer EXCEPT !["devcaps"] = Nothing("NONE")]
  BY DEF Leave, Goto
<1>3. TypeOK'
  BY <1>2, KeptTypes, Names DEF IInv, TypeOK
<1>4. Listed' /\ InTurn' /\ Phases' /\ HeapExact'
  BY <1>1, <1>2 DEF IInv, Listed, InTurn, Phases, HeapExact, Before, Steps
<1>5. TokenOfTheProfile' /\ JunkNeedsNameless'
  BY <1>2 DEF IInv, TokenOfTheProfile, JunkNeedsNameless, Lists
<1> QED
  BY <1>3, <1>4, <1>5 DEF IInv

(* What they leave *)
LEMMA LeaveLeaks ==
    ASSUME IInv, Leave
    PROVE  heap' = Leaked' \cup {b \in Made("devcaps", 0, answer["devcaps"].entries) :
                                   b[4] = "deviceio"}
<1> DEFINE d == answer["devcaps"].entries
           l == list[1].entries
<1>1. pc = "devcaps" /\ phase = "read" /\ LiveAnswers = {"devcaps"} /\ cache = 1
      /\ list[1] \in Answers("profiles")
  BY DEF Leave, LiveAnswers, IInv, Listed, TypeOK, Lists
<1>2. skipped' = skipped /\ heap' = heap \ (Freed("devcaps", 0, d) \cup Freed("profiles", 1, l))
  BY <1>1 DEF Leave
<1>3. Of("devcaps") = 0
  BY Orders DEF Of, Steps
<1>4. heap = Leaked \cup Made("profiles", 1, l) \cup Made("devcaps", 0, d)
  BY <1>1, <1>3 DEF IInv, HeapExact, Cached, Answered
<1>5. Made("profiles", 1, l) \subseteq Freed("profiles", 1, l)
  BY <1>1, MadeIsFreed
<1>6. Made("devcaps", 0, d) \ Freed("devcaps", 0, d)
         = {b \in Made("devcaps", 0, d) : b[4] = "deviceio"}
  BY Names, DeviceIOIsKept DEF IInv, TypeOK
<1>7. /\ \A b \in Leaked : b[1] = "caps"
      /\ \A b \in Made("devcaps", 0, d) \cup Freed("devcaps", 0, d) : b[1] = "devcaps"
      /\ \A b \in Freed("profiles", 1, l) : b[1] = "profiles"
  BY Keyed DEF Leaked
<1>8. Leaked' = Leaked
  BY <1>2 DEF Leaked
<1> HIDE DEF d, l
<1>9. heap' = Leaked \cup (Made("devcaps", 0, d) \ Freed("devcaps", 0, d))
  BY <1>2, <1>4, <1>5, <1>7
<1> QED
  BY <1>6, <1>8, <1>9 DEF d

(* The list that a caller fetches is the first. *)
LEMMA FirstList ==
    ASSUME IInv, NEW a \in Answers("profiles"), media2' = media2,
           list' = <<a>>, cache' = 1, heap' = heap \cup Made("profiles", 1, a.entries),
           cache = 0, pc \notin {"crashed", "exit"}, LiveAnswers = {}
    PROVE  /\ heap' \subseteq Blocks' /\ Lists' = {1}
           /\ \A l \in Lists' : list'[l] \in Answers("profiles")'
           /\ heap' = Leaked \cup Made("profiles", 1, list'[1].entries)
           /\ DOMAIN list'[1].entries = 1..Len(list'[1].entries)
           /\ Len(list'[1].entries) \in Nat
           /\ Len(list'[1].entries) = 0 => list'[1].entries = <<>>
<1> USE SessionAssumption
<1>1. Lists' = {1} /\ list'[1] = a
  BY DEF Lists
<1>2. Made("profiles", 1, a.entries) \subseteq Blocks
  BY MadeIsTyped, Names
<1>3. heap' \subseteq Blocks'
  BY <1>2, Fixed DEF IInv, TypeOK, Blocks
<1>4. heap = Leaked
  BY DEF IInv, HeapExact, Cached, Answered
<1> QED
  BY <1>1, <1>3, <1>4, Fixed, ListLength

LEMMA AuthenticateStep == ASSUME IInv, Authenticate PROVE IInv'
<1> USE SessionAssumption
<1>1. /\ pc = "authenticate" /\ phase = "call" /\ LiveAnswers = {}
      /\ list = <<>> /\ cache = 0 /\ mine = 0 /\ i = 1 /\ skipped = {} /\ saved = {}
  <2>1. pc = "authenticate" /\ phase = "call" /\ LiveAnswers = {}
    BY Names DEF Authenticate, IInv, Phases, TypeOK, LiveAnswers, Steps
  <2>2. list = <<>> /\ cache = 0 /\ mine = 0 /\ i = 1
    BY <2>1 DEF IInv, Listed, Before
  <2> QED
    BY <2>1, <2>2 DEF IInv, InTurn
<1>2. UNCHANGED <<media2, i, mine, answer, asked, skipped, saved>> /\ phase' = "call"
      /\ pc' \in {"exit", "crashed", "hostname"}
  BY DEF Authenticate, Goto
<1>3. LiveAnswers' = {} /\ Leaked' = {} /\ Leaked = {} /\ Phases'
  BY <1>1, <1>2 DEF LiveAnswers, Leaked, Phases
<1>4. TokenOfTheProfile'
  BY <1>2 DEF TokenOfTheProfile
<1>5. InTurn'
  BY <1>1, <1>2 DEF IInv, InTurn, Steps
<1>6. CASE UNCHANGED <<list, cache, heap, junk>>
  <2>1. TypeOK'
    BY <1>2, <1>6, KeptTypes, Names DEF IInv, TypeOK
  <2>2. Listed'
    BY <1>1, <1>2, <1>6 DEF IInv, Listed, Before, Steps
  <2>3. HeapExact'
    BY <1>1, <1>3, <1>6 DEF IInv, HeapExact, Cached, Answered
  <2>4. JunkNeedsNameless'
    BY <1>6 DEF IInv, JunkNeedsNameless, Lists
  <2> QED
    BY <1>3, <1>4, <1>5, <2>1, <2>2, <2>3, <2>4 DEF IInv
<1>7. CASE \E a \in Filled("profiles") :
              LET load == Fetched(a)
              IN /\ list' = load.list /\ cache' = load.cache /\ heap' = load.heap
                 /\ junk' = ~HasToken(load, 1) /\ pc' = "hostname"
  <2>1. PICK a \in Filled("profiles") :
              LET load == Fetched(a)
              IN /\ list' = load.list /\ cache' = load.cache /\ heap' = load.heap
                 /\ junk' = ~HasToken(load, 1) /\ pc' = "hostname"
    BY <1>7
  <2>2. a \in Answers("profiles") /\ a.fault = "NONE"
    BY DEF Answers, Filled
  <2>3. /\ list' = <<a>> /\ cache' = 1 /\ heap' = heap \cup Made("profiles", 1, a.entries)
        /\ junk' \in BOOLEAN
        /\ junk' => ~(1 \in DOMAIN a.entries /\ "token" \in a.entries[1])
    <3>1. Fetched(a) = [list |-> <<a>>, cache |-> 1,
                        heap |-> heap \cup Made("profiles", 1, a.entries)]
      BY <1>1, FetchedFirst
    <3>2. HasToken(Fetched(a), 1) <=> 1 \in DOMAIN a.entries /\ "token" \in a.entries[1]
      BY <3>1 DEF HasToken
    <3>3. list' = <<a>> /\ cache' = 1 /\ heap' = heap \cup Made("profiles", 1, a.entries)
      BY <2>1, <3>1
    <3>4. junk' = ~HasToken(Fetched(a), 1)
      BY <2>1
    <3>5. junk' \in BOOLEAN
      BY <3>4, Zenon
    <3>6. junk' => ~(1 \in DOMAIN a.entries /\ "token" \in a.entries[1])
      BY <3>2, <3>4
    <3> QED
      BY <3>3, <3>5, <3>6
  <2>4. /\ heap' \subseteq Blocks' /\ Lists' = {1}
        /\ \A l \in Lists' : list'[l] \in Answers("profiles")'
        /\ heap' = Leaked \cup Made("profiles", 1, list'[1].entries)
        /\ DOMAIN list'[1].entries = 1..Len(list'[1].entries)
        /\ Len(list'[1].entries) \in Nat
        /\ Len(list'[1].entries) = 0 => list'[1].entries = <<>>
    BY <1>1, <1>2, <2>2, <2>3, FirstList
  <2>5. list'[1] = a
    BY <2>3
  <2>6. TypeOK'
    <3>1. \A c \in Classes : answer'[c] \in (Answers(c) \cup {Nothing("NONE")}
                                                \cup {Nothing("UNEXPECTED")})'
      BY <1>2, Fixed DEF IInv, TypeOK, Nothing
    <3>2. asked' \in ((Lists \X Indexes) \cup {NoToken})'
      BY <1>1, <1>2 DEF IInv, TypeOK, Lists, NoToken
    <3> QED
      BY <1>1, <1>2, <2>1, <2>3, <2>4, <3>1, <3>2, Names DEF IInv, TypeOK, Blocks
  <2>7. Listed'
    BY <1>1, <1>2, <2>1, <2>2, <2>3, <2>4, <2>5 DEF Listed, Lists, Before, Steps
  <2>8. HeapExact'
    BY <1>3, <2>1, <2>3, <2>4 DEF HeapExact, Cached, Answered
  <2>9. JunkNeedsNameless'
    <3>1. CASE 1 \in DOMAIN a.entries
      BY <2>3, <2>4, <2>5, <3>1 DEF JunkNeedsNameless
    <3>2. CASE 1 \notin DOMAIN a.entries
      <4>1. a.entries = <<>>
        BY <2>4, <2>5, <3>2
      <4> QED
        BY <2>4, <2>5, <4>1 DEF JunkNeedsNameless
    <3> QED
      BY <3>1, <3>2
  <2> QED
    BY <1>3, <1>4, <1>5, <2>6, <2>7, <2>8, <2>9 DEF IInv
<1> QED
  BY <1>6, <1>7 DEF Authenticate, Goto

(* The client takes the list of authenticate, or the first is fetched. *)
LEMMA GetProfilesStep == ASSUME IInv, GetProfiles PROVE IInv'
<1> USE SessionAssumption
<1>1. /\ pc = "profiles" /\ phase = "call" /\ LiveAnswers = {}
      /\ mine = 0 /\ i = 1 /\ skipped = {} /\ saved = {}
  <2>1. pc = "profiles" /\ phase = "call" /\ LiveAnswers = {}
    BY DEF GetProfiles, IInv, Phases, TypeOK, LiveAnswers, Steps
  <2>2. mine = 0 /\ i = 1
    BY <2>1 DEF IInv, Listed, Before
  <2> QED
    BY <2>1, <2>2 DEF IInv, InTurn
<1>2. UNCHANGED <<media2, i, answer, asked, junk, skipped, saved>>
  BY DEF GetProfiles
<1>3. PICK load \in Loads :
          /\ list' = load.list /\ cache' = load.cache /\ heap' = load.heap
          /\ mine' = load.cache
          /\ Goto(IF load.list[load.cache].fault = "NONE"
                  THEN "next_profile" ELSE "drop_list")
  BY DEF GetProfiles
<1>4. /\ cache' = 1 /\ mine' = 1 /\ Lists' = {1} /\ heap' \subseteq Blocks'
      /\ \A l \in Lists' : list'[l] \in Answers("profiles")'
      /\ Len(list'[1].entries) \in Nat
      /\ heap' = Leaked \cup Made("profiles", 1, list'[1].entries)
      /\ junk => \E l \in Lists' :
             \/ list'[l].entries = <<>>
             \/ \E k \in DOMAIN list'[l].entries : "token" \notin list'[l].entries[k]
  <2>1. CASE cache = 0
    <3>1. list = <<>> /\ Lists = {}
      BY <2>1 DEF IInv, Listed, Lists
    <3>2. PICK a \in Answers("profiles") :
              load = [list |-> <<a>>, cache |-> 1,
                      heap |-> heap \cup Made("profiles", 1, a.entries)]
      BY <2>1, <3>1, FetchedFirst, <1>3
    <3>3. list' = <<a>> /\ cache' = 1 /\ mine' = 1
          /\ heap' = heap \cup Made("profiles", 1, a.entries)
      BY <3>2, <1>3
    <3>4. ~junk
      BY <3>1 DEF IInv, JunkNeedsNameless, TypeOK
    <3> QED
      BY <1>1, <1>2, <2>1, <3>3, <3>4, FirstList
  <2>2. CASE cache = 1
    <3>1. list[1].fault = "NONE" /\ Lists = {1}
      BY <2>2, <1>1 DEF IInv, Listed, Before, Lists
    <3>2. list' = list /\ cache' = 1 /\ mine' = 1 /\ heap' = heap
      BY <2>2, <3>1, <1>3, LoadsFixed
    <3>3. Lists' = {1} /\ heap' \subseteq Blocks'
          /\ \A l \in Lists' : list'[l] \in Answers("profiles")'
      BY <1>2, <3>1, <3>2, Fixed DEF Lists, IInv, TypeOK, Blocks
    <3>4. Len(list'[1].entries) \in Nat
      BY <3>1, <3>2, ListLength DEF IInv, TypeOK
    <3>5. heap' = Leaked \cup Made("profiles", 1, list'[1].entries)
      BY <1>1, <2>2, <3>2 DEF IInv, HeapExact, Cached, Answered
    <3> QED
      BY <3>1, <3>2, <3>3, <3>4, <3>5 DEF IInv, JunkNeedsNameless
  <2> QED
    BY <2>1, <2>2 DEF IInv, Listed
<1>5. phase' = "call" /\ pc' = IF list'[1].fault = "NONE" THEN "next_profile" ELSE "drop_list"
  BY <1>3, <1>4 DEF Goto
<1>6. TypeOK'
  <2>1. \A c \in Classes : answer'[c] \in (Answers(c) \cup {Nothing("NONE")}
                                              \cup {Nothing("UNEXPECTED")})'
    BY <1>2, Fixed DEF IInv, TypeOK, Nothing
  <2>2. asked' \in ((Lists \X Indexes) \cup {NoToken})'
    BY <1>2, <1>4 DEF IInv, TypeOK, Listed, Lists
  <2> QED
    BY <1>1, <1>2, <1>4, <1>5, <2>1, <2>2, Names DEF IInv, TypeOK, Blocks
<1>7. Listed' /\ Phases'
  BY <1>4, <1>5 DEF Listed, Phases, Lists, Before, Steps
<1>8. InTurn'
  BY <1>1, <1>2, <1>4, <1>5 DEF InTurn, Steps
<1>9. HeapExact'
  <2>1. LiveAnswers' = {} /\ Leaked' = Leaked
    BY <1>2, <1>5 DEF LiveAnswers, Leaked
  <2>2. Cached' = Made("profiles", 1, list'[1].entries)
    BY <1>4, <1>5 DEF Cached
  <2> QED
    BY <1>4, <2>1, <2>2 DEF HeapExact, Answered
<1>10. TokenOfTheProfile' /\ JunkNeedsNameless'
  BY <1>2, <1>4, <1>5 DEF TokenOfTheProfile, JunkNeedsNameless
<1> QED
  BY <1>6, <1>7, <1>8, <1>9, <1>10 DEF IInv

--------------------------------------------------------------------------------
(* The invariant is inductive: client-test.c's session, for any faults and  *)
(* any number of profiles and entries.  Its last part says of every state   *)
(* before the end which blocks of the answers and of the list there are.    *)
THEOREM Inductive == Spec => []IInv
<1>1. IInv /\ [Next]_vars => IInv'
  <2> SUFFICES ASSUME IInv, [Next]_vars PROVE IInv'
    OBVIOUS
  <2>1. CASE Authenticate
    BY <2>1, AuthenticateStep
  <2>2. CASE GetProfiles
    BY <2>2, GetProfilesStep
  <2>3. CASE NextProfile
    BY <2>3, NextProfileStep
  <2>4. CASE DropList
    BY <2>4, DropListStep
  <2>5. CASE Leave
    BY <2>5, LeaveStep
  <2>6. CASE SnapshotUri
    BY <2>6, SnapshotUriStep
  <2>7. CASE Snapshot
    BY <2>7, SnapshotStep
  <2>8. ASSUME NEW c \in Classes,
               Call(c) \/ Malformed(c) \/ Report(c) \/ GetToken(c) \/ Send(c) \/ Show(c)
        PROVE IInv'
    BY <2>8, CallStep, MalformedStep, ReportStep, GetTokenStep, SendStep, ShowStep
  <2>9. CASE UNCHANGED vars
    <3>1. TypeOK'
      BY <2>9, KeptTypes DEF vars, IInv, TypeOK
    <3>2. Listed' /\ InTurn' /\ Phases'
      BY <2>9 DEF vars, IInv, Listed, InTurn, Phases
    <3>3. HeapExact'
      <4>1. \A d : Of(d)' = Of(d)
        BY <2>9 DEF vars, Of
      <4>2. LiveAnswers' = LiveAnswers /\ Leaked' = Leaked /\ Cached' = Cached
        BY <2>9 DEF vars, LiveAnswers, Leaked, Cached
      <4>3. Answered(LiveAnswers)' = Answered(LiveAnswers)
        BY <2>9, <4>1, <4>2 DEF vars, Answered
      <4> QED
        BY <2>9, <4>2, <4>3 DEF vars, IInv, HeapExact
    <3>4. TokenOfTheProfile' /\ JunkNeedsNameless'
      BY <2>9 DEF vars, IInv, TokenOfTheProfile, JunkNeedsNameless, Lists
    <3> QED
      BY <3>1, <3>2, <3>3, <3>4 DEF IInv
  <2> QED
    BY <2>1, <2>2, <2>3, <2>4, <2>5, <2>6, <2>7, <2>8, <2>9 DEF Next
<1> QED
  BY Initially, <1>1, PTL DEF Spec

(* client-test.c's loop, lines 95-215: every profile is seen in its turn,   *)
(* and every request made for it carries its token.                         *)
THEOREM InTheirTurn == Spec => []ProfilesInTurn
<1>1. IInv => ProfilesInTurn
  BY DEF IInv, ProfilesInTurn, EveryProfileSeen, InTurn, Listed
<1> QED
  BY Inductive, <1>1, PTL

(* A session ends by leaving, or because the device is not authenticated.   *)
LEMMA Endings ==
    ASSUME IInv, Next, pc # "exit", pc' = "exit"
    PROVE  Leave \/ Authenticate
<1>1. ~GetProfiles /\ ~NextProfile /\ ~DropList
  BY DEF GetProfiles, NextProfile, DropList, Goto
<1>2. ~SnapshotUri /\ ~Snapshot
  BY DEF SnapshotUri, Snapshot, Drop, Goto
<1>3. ASSUME NEW c \in Classes
      PROVE  ~(Call(c) \/ Malformed(c) \/ Report(c) \/ GetToken(c) \/ Send(c) \/ Show(c))
  <2>1. ~Call(c) /\ ~Malformed(c) /\ ~Send(c) /\ ~GetToken(c)
    BY DEF Call, Malformed, Send, GetToken, Receive, Goto
  <2>2. ASSUME Report(c) PROVE FALSE
    <3>1. c \in {"hostname", "interfaces", "scopes", "devinfo"}
          /\ pc' = Following(DeviceCalls, c)
      BY <2>2, Orders DEF Report, Drop, Goto
    <3> QED
      BY <3>1, Follows DEF Before
  <2>3. ASSUME Show(c) PROVE FALSE
    <3>1. c \in Steps \ {"snapuri", "snapshot"} /\ pc' = Following(ProfileCalls, c)
      BY <2>3, Orders DEF Show, Drop, Goto
    <3>2. pc' \in Steps
      BY <3>1, Follows DEF Steps
    <3> QED
      BY <3>2 DEF Steps
  <2> QED
    BY <2>1, <2>2, <2>3
<1> QED
  BY <1>1, <1>2, <1>3 DEF Next

(* What a session leaves of its answers and lists, for any faults, profiles *)
(* and entries: the capabilities of the profiles that were skipped          *)
(* (client-test.c, lines 182, 188 and 196), and the DeviceIO that           *)
(* OnvifCapabilities__reset (onvif_device_capabilities.c, lines 89-96) does *)
(* not free.                                                                *)
THEOREM OnlyCapabilitiesLeak == Spec => LeaksAreCapabilities
<1> DEFINE Left == {<<"caps", n, 0, "object">> : n \in skipped'}
                      \cup {b \in Made("devcaps", 0, answer["devcaps"].entries) :
                               b[4] = "deviceio"}
<1>1. ASSUME IInv, Next, pc # "exit", pc' = "exit" PROVE heap' = Left
  <2>1. CASE Leave
    BY <1>1, <2>1, LeaveLeaks DEF Leaked
  <2>2. CASE Authenticate
    <3>1. /\ pc = "authenticate" /\ phase = "call" /\ LiveAnswers = {}
          /\ heap' = heap /\ skipped' = skipped
      BY <1>1, <2>2, Names
         DEF Authenticate, Goto, IInv, Phases, TypeOK, LiveAnswers, Steps
    <3>2. cache = 0 /\ i = 1 /\ answer["devcaps"].entries = <<>>
      BY <1>1, <3>1 DEF IInv, Listed, Before
    <3>3. heap = {} /\ skipped = {}
      <4>1. skipped = {}
        BY <1>1, <3>2 DEF IInv, InTurn
      <4>2. Leaked = {} /\ Cached = {} /\ Answered(LiveAnswers) = {}
        BY <3>1, <3>2, <4>1 DEF Leaked, Cached, Answered
      <4> QED
        BY <1>1, <3>1, <4>1, <4>2 DEF IInv, HeapExact
    <3>4. \A b \in Made("devcaps", 0, <<>>) : b[4] # "deviceio"
      BY DEF Made, Shell
    <3> QED
      BY <3>1, <3>2, <3>3, <3>4
  <2> QED
    BY <1>1, <2>1, <2>2, Endings
<1>2. IInv /\ [Next]_vars => [pc # "exit" /\ pc' = "exit" => heap' = Left]_vars
  BY <1>1
<1> QED
  BY Inductive, <1>2, PTL DEF Spec, LeaksAreCapabilities
================================================================================
