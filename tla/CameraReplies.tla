----------------------------- MODULE CameraReplies -----------------------------
(***************************************************************************)
(* The objects that are made of what cameras send: ServiceTables,          *)
(* NetworkTables, Scopes and ProbeMatches, over any replies.  They share   *)
(* nothing, so a behaviour is one of the four, and the variables that are  *)
(* not its own keep the value Unused.                                      *)
(***************************************************************************)
EXTENDS Integers, Sequences

CONSTANTS
    MaxEntries,     \* bound: the entries of a reply or of a message
    MaxAttempts,    \* bound: the runs of createServices
    MaxInterfaces,  \* bound: the interfaces of a reply
    MaxItems,       \* bound: the items of a part of an interface
    MaxMessages,    \* bound: the messages of discovery
    Interfaces,     \* the interfaces a reply may have
    Ntp,            \* the NTP information a reply may have
    Keys,           \* the keys of scopes
    ScopeReplies,   \* the replies of GetScopes
    MatchEntries,   \* the entries a message of discovery may have
    Handlers,       \* how many handlers the discovery has
    Junk,           \* the contents of a slot nobody wrote
    Unused          \* a variable of another object

VARIABLES
    object,     \* whose behaviour it is
    \* ServiceTables
    step, attempt, reply, field, entries, caps, parts, held, place, services,
    lacks,
    \* NetworkTables
    state, heap, table, given, undefined,
    \* Scopes
    next, scopes, fault, asked, device_answer, match_answer,
    \* ProbeMatches
    message, count, match, refs, disposed, turn, kept, stale

serviceVars == <<step, attempt, field, entries, caps, parts, held, place, services,
                 lacks>>
networkVars == <<heap, table, undefined>>
scopeVars == <<scopes, fault, asked, device_answer, match_answer>>
matchVars == <<message, count, match, refs, disposed, turn, kept, stale>>

NoServices ==
    /\ step = Unused /\ attempt = Unused /\ field = Unused /\ entries = Unused
    /\ caps = Unused /\ parts = Unused /\ held = Unused /\ place = Unused
    /\ services = Unused /\ lacks = Unused

NoNetwork == heap = Unused /\ table = Unused /\ undefined = Unused

NoScopes ==
    /\ scopes = Unused /\ fault = Unused /\ asked = Unused
    /\ device_answer = Unused /\ match_answer = Unused

NoMatches ==
    /\ message = Unused /\ count = Unused /\ match = Unused /\ refs = Unused
    /\ disposed = Unused /\ turn = Unused /\ kept = Unused /\ stale = Unused

T == INSTANCE ServiceTables WITH pc <- step

N == INSTANCE NetworkTables WITH MaxEntries <- MaxInterfaces

S == INSTANCE Scopes WITH Replies <- ScopeReplies

P == INSTANCE ProbeMatches WITH Entries <- MatchEntries

(* Bounds are numbers, and the schema says what a part, an item and an      *)
(* entry are: how many addresses, which bytes, how many scopes on a line.   *)
ASSUME RepliesAssumption ==
    /\ MaxEntries \in Nat /\ MaxAttempts \in Nat /\ MaxInterfaces \in Nat \ {0}
    /\ MaxItems \in Nat /\ MaxMessages \in Nat /\ Handlers \in Nat
    /\ Interfaces \subseteq [N!Pointers \cup N!Lists4 \cup N!Lists6 -> 0..MaxItems]
    /\ Ntp \subseteq [N!NtpLists -> 0..MaxItems]
    /\ Junk \notin N!Blocks
    /\ ScopeReplies \subseteq Seq(S!Item)
    /\ MatchEntries \subseteq P!AnEntry

--------------------------------------------------------------------------------
RepliesInit ==
    \/ /\ object = "services" /\ T!Init /\ NoNetwork /\ NoScopes /\ NoMatches
       /\ state = Unused /\ given = Unused /\ next = Unused
    \/ /\ object = "network" /\ N!Init /\ NoServices /\ NoScopes /\ NoMatches
       /\ next = Unused
    \/ /\ object = "scopes" /\ S!Init /\ NoServices /\ NoNetwork /\ NoMatches
       /\ given = Unused
    \/ /\ object = "matches" /\ P!Init /\ NoServices /\ NoNetwork /\ NoScopes
       /\ reply = Unused /\ state = Unused

RepliesNext ==
    \/ /\ object = "services" /\ T!Next
       /\ UNCHANGED <<object, state, given, next, networkVars, scopeVars, matchVars>>
    \/ /\ object = "network" /\ N!Next
       /\ UNCHANGED <<object, next, serviceVars, scopeVars, matchVars>>
    \/ /\ object = "scopes" /\ S!Next
       /\ UNCHANGED <<object, given, serviceVars, networkVars, matchVars>>
    \/ /\ object = "matches" /\ P!Next
       /\ UNCHANGED <<object, reply, state, serviceVars, networkVars, scopeVars>>

RepliesSpec ==
    RepliesInit /\ [][RepliesNext]_<<object, state, given, next, reply, serviceVars,
                                     networkVars, scopeVars, matchVars>>

--------------------------------------------------------------------------------
(* The services a device ends with are those of the camera's latest answer, *)
(* and only an answer that lacks something crashes their making.            *)
MadeFromLatest == object = "services" => T!MadeFromLatest

(* What the service tables leave allocated. *)
LeaksKnown == object = "services" => T!LeaksKnown

(* Interfaces and NTP hosts with single addresses are safe, read in order   *)
(* and freed.                                                               *)
TablesSound == object = "network" => N!TablesSound

(* client-test.c:365-367: each index below the count has an address.        *)
EveryManualReadable == object = "network" => N!EveryManualReadable

(* No scope is lost between a reply and an answer. *)
AnswersWhole == object = "scopes" => S!AnswersWhole

(* The two functions that answer agree. *)
SameAnswers == object = "scopes" => S!SameAnswers

(* The handlers of the discovery signal learn of every device, once. *)
DevicesGiven == object = "matches" => P!DevicesGiven

(* The matches live exactly as long as they are used. *)
MatchesLive == object = "matches" => P!MatchesLive
================================================================================
