----------------------------- MODULE ProbeMatches -----------------------------
(***************************************************************************)
(* What discovery makes of the messages that answer its probe:             *)
(* wsdd_event_ProbeMatches (src/src/discovery/onvif_discoverer.c) turns a  *)
(* message into an OnvifProbeMatches of matches                            *)
(* (src/src/discovery/onvif_probematches.c), signals it, and drops it.     *)
(*                                                                         *)
(* soap_wsdd_listen calls it for one message after the other, in its own   *)
(* thread; Discoverer has the listening and the stopping.  A handler of    *)
(* the signal may keep a reference and read the object at any later time.  *)
(* A message is a sequence of entries.  An entry has a number of addresses *)
(* and a text of scopes, which is a sequence of lines, each with a number  *)
(* of scopes; a scope is named by its line and its place in it.            *)
(***************************************************************************)
EXTENDS Integers, Sequences

CONSTANTS
    Entries,        \* the entries a message may have
    MaxEntries,     \* bound: the entries of a message
    MaxMessages,    \* bound: the messages
    Handlers        \* how many handlers are connected to the signal

Null == -1          \* XAddrs that is NULL; blanks alone are 0 addresses

AnEntry == [xaddrs: {Null} \cup Nat, types: BOOLEAN, lines: Seq(Nat)]

Messages == 1..MaxMessages

VARIABLES
    message,    \* the messages
    count,      \* how many of them have arrived
    next,       \* the entry of the last that the loop comes to, 0 after it
    match,      \* per message: the matches of its object, in their array
    refs,       \* per message: the references to its object
    disposed,   \* the messages whose object is gone
    turn,       \* the handlers that the signal has called
    given,      \* per message: what each handler was given
    kept,       \* the references that handlers keep: <<handler, message>>
    stale       \* a handler has read an object that was gone

vars == <<message, count, next, match, refs, disposed, turn, given, kept, stale>>

TypeOK ==
    /\ \A m \in Messages : message[m] \in Seq(Entries)
    /\ count \in 0..MaxMessages
    /\ next \in 0..(MaxEntries + 1)
    /\ \A m \in Messages : Len(match[m]) <= MaxEntries
    /\ refs \in [Messages -> 0..(Handlers + 1)]
    /\ disposed \subseteq Messages
    /\ turn \in 0..Handlers
    /\ given \in [Messages -> [1..Handlers -> Seq(Nat) \cup {<<Null>>}]]
    /\ kept \subseteq (1..Handlers) \X Messages
    /\ stale \in BOOLEAN

Init ==
    /\ message = [m \in Messages |-> <<>>] /\ count = 0 /\ next = 0
    /\ match = [m \in Messages |-> <<>>]
    /\ refs = [m \in Messages |-> 0] /\ disposed = {}
    /\ turn = 0
    /\ given = [m \in Messages |-> [h \in 1..Handlers |-> <<Null>>]]
    /\ kept = {} /\ stale = FALSE

--------------------------------------------------------------------------------
(* A message arrives (external). *)
Receive ==
    /\ next = 0 /\ count < MaxMessages
    /\ count' = count + 1
    /\ \E n \in 0..MaxEntries : \E entries \in [1..n -> Entries] :
          message' = [message EXCEPT ![count + 1] = entries]
    /\ next' = 1
    /\ UNCHANGED <<match, refs, disposed, turn, given, kept, stale>>

(* Mutated form: one of the two is enough. *)
ValidEither(e) == e.xaddrs # Null \/ e.types

(* lines 289-292 *)
Valid(e) == e.xaddrs # Null /\ e.types

(* The scopes of line n *)
Line(e, n) == [i \in 1..e.lines[n] |-> <<n, i>>]

(* Mutated form: a blank line ends the scopes. *)
ScopesToBlank(e) ==
    LET upto[n \in 0..Len(e.lines)] ==
            IF n = 0 THEN <<>>
            ELSE IF \E k \in 1..n : e.lines[k] = 0 THEN upto[n - 1]
            ELSE upto[n - 1] \o Line(e, n)
    IN  upto[Len(e.lines)]

(* lines 310-328: the lines of the text, trimmed and split at blanks *)
ScopesOf(e) ==
    LET upto[n \in 0..Len(e.lines)] ==
            IF n = 0 THEN <<>> ELSE upto[n - 1] \o Line(e, n)
    IN  upto[Len(e.lines)]

(* ProbMatch__create and its setters, for entry i of the message            *)
Created(i) ==
    [entry |-> i, addrs |-> message[count][i].xaddrs,
     scopes |-> ScopesOf(message[count][i])]

(* Mutated form: break, for continue. *)
EntryBreaks ==
    /\ next > 0 /\ next <= Len(message[count])
    /\ IF Valid(message[count][next])
       THEN /\ match' = [match EXCEPT ![count] = Append(@, Created(next))]
            /\ refs' = [refs EXCEPT ![count] = 1] /\ next' = next + 1
       ELSE next' = Len(message[count]) + 1 /\ UNCHANGED <<match, refs>>
    /\ UNCHANGED <<message, count, disposed, turn, given, kept, stale>>

(* One turn of the loop: an entry without addresses or types is skipped,    *)
(* and the object is made for the first that has both.                      *)
Entry ==
    /\ next > 0 /\ next <= Len(message[count])
    /\ IF Valid(message[count][next])
       THEN /\ match' = [match EXCEPT ![count] = Append(@, Created(next))]
            /\ refs' = [refs EXCEPT ![count] = 1]
       ELSE UNCHANGED <<match, refs>>
    /\ next' = next + 1
    /\ UNCHANGED <<message, count, disposed, turn, given, kept, stale>>

(* What the handlers read of an object: its entries, or nothing of an       *)
(* object that is gone                                                      *)
Read(m) == [i \in DOMAIN match[m] |-> match[m][i].entry]

Looped == next > 0 /\ next = Len(message[count]) + 1

(* g_signal_emit calls the next handler, which reads the matches and may    *)
(* keep a reference.                                                        *)
Signal ==
    /\ Looped /\ refs[count] > 0 /\ turn < Handlers
    /\ turn' = turn + 1
    /\ given' = [given EXCEPT ![count][turn + 1] = Read(count)]
    /\ stale' = (stale \/ count \in disposed)
    /\ \/ UNCHANGED <<refs, kept>>
       \/ /\ refs' = [refs EXCEPT ![count] = @ + 1]
          /\ kept' = kept \cup {<<turn + 1, count>>}
    /\ UNCHANGED <<message, count, next, match, disposed>>

(* Mutated form: the matches are freed although references remain. *)
IsLastAlways(m) == TRUE

(* g_object_unref disposes at the last reference *)
IsLast(m) == refs[m] = 1

Unref(m) ==
    /\ refs' = [refs EXCEPT ![m] = @ - 1]
    /\ IF IsLast(m)
       THEN disposed' = disposed \cup {m} /\ match' = [match EXCEPT ![m] = <<>>]
       ELSE UNCHANGED <<disposed, match>>

(* Mutated form: the object is not dropped. *)
ReturnNoUnref ==
    /\ Looped /\ (refs[count] > 0 => turn = Handlers)
    /\ next' = 0 /\ turn' = 0
    /\ UNCHANGED <<message, count, match, refs, disposed, given, kept, stale>>

(* After the handlers, or without an object at once *)
Return ==
    /\ Looped
    /\ IF refs[count] > 0
       THEN turn = Handlers /\ Unref(count)
       ELSE UNCHANGED <<match, refs, disposed>>
    /\ next' = 0 /\ turn' = 0
    /\ UNCHANGED <<message, count, given, kept, stale>>

(* A handler reads what it keeps, *)
ReadKept(h, m) ==
    /\ <<h, m>> \in kept
    /\ stale' = (stale \/ m \in disposed)
    /\ given' = [given EXCEPT ![m][h] = Read(m)]
    /\ UNCHANGED <<message, count, next, match, refs, disposed, turn, kept>>

(* and drops it. *)
Drop(h, m) ==
    /\ <<h, m>> \in kept
    /\ kept' = kept \ {<<h, m>>}
    /\ Unref(m)
    /\ UNCHANGED <<message, count, next, turn, given, stale>>

Next ==
    \/ Receive \/ Entry \/ Signal \/ Return
    \/ \E h \in 1..Handlers, m \in Messages : ReadKept(h, m) \/ Drop(h, m)

Spec == Init /\ [][Next]_vars

--------------------------------------------------------------------------------
(* Properties. *)

Found(e) == e.types /\ e.xaddrs >= 0

(* What a handler reads, when it is called and for as long as it keeps the  *)
(* object, is each device of the message once and in its order; an entry    *)
(* that is no device hides none after it.                                   *)
EveryDeviceOnce ==
    \A m \in Messages, h \in 1..Handlers :
        given[m][h] # <<Null>> =>
            LET read == given[m][h]
            IN  /\ {read[i] : i \in DOMAIN read}
                       = {i \in DOMAIN message[m] : Found(message[m][i])}
                /\ \A i, j \in DOMAIN read : i < j => read[i] < read[j]

(* Once a message is handled all handlers were called if it has a device,   *)
(* and none was if it has none.                                             *)
SignalledIffFound ==
    \A m \in 1..count, h \in 1..Handlers :
        m < count \/ next = 0 =>
            (given[m][h] # <<Null>>
                <=> \E i \in DOMAIN message[m] : Found(message[m][i]))

(* A match has every address and every scope of its entry, whatever blank   *)
(* lines there are between them.                                            *)
WholeMatches ==
    \A m \in Messages : \A k \in DOMAIN match[m] :
        LET made == match[m][k]
            e == message[m][made.entry]
            scopes == made.scopes
        IN  /\ made.addrs = e.xaddrs
            /\ {scopes[i] : i \in DOMAIN scopes}
                  = UNION {{n} \X (1..e.lines[n]) : n \in DOMAIN e.lines}
            /\ \A i, j \in DOMAIN scopes : scopes[i] = scopes[j] => i = j

(* No handler reads an object that is gone. *)
NeverStale == ~stale

(* An object is gone once its message is handled and no handler keeps it.   *)
NothingLeft ==
    \A m \in 1..count :
        /\ m < count \/ next = 0
        /\ \A h \in 1..Handlers : <<h, m>> \notin kept
        => match[m] = <<>> /\ refs[m] = 0

(* What the handlers of the signal learn of a message: its devices, all of  *)
(* them, whole, and only they.                                              *)
DevicesGiven == TypeOK /\ EveryDeviceOnce /\ SignalledIffFound /\ WholeMatches

(* A match object lives exactly as long as it is used.                      *)
MatchesLive == NeverStale /\ NothingLeft
================================================================================
