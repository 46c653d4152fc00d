------------------------------- MODULE Discoverer -------------------------------
(***************************************************************************)
(* The WS-Discovery prober (src/src/discovery/onvif_discoverer.c).  start  *)
(* runs retry_count probes in the thread that calls it; it announces       *)
(* itself in priv->state and leaves a pointer to a gSOAP context in its    *)
(* own stack frame in priv->serv, with which stop closes the socket.       *)
(* There is no lock.  stop is called by other threads, by the probe-match  *)
(* callback inside a run, and by a start that finds another run going.     *)
(*                                                                         *)
(* The context of a run is named by the thread that runs it.  Every access *)
(* to state and serv is a step of its own.                                 *)
(***************************************************************************)
EXTENDS Naturals

CONSTANTS
    Starters,       \* the threads that call start
    Stoppers,       \* the threads that call stop
    RetryCount,     \* priv->retry_count
    MaxStarts,      \* bound: the calls of start
    Null            \* the NULL pointer

Threads == Starters \cup Stoppers

ASSUME ThreadAssumption ==
    /\ Starters \cap Stoppers = {}
    /\ Null \notin Threads
    /\ RetryCount \in Nat \ {0} /\ MaxStarts \in Nat

VARIABLES
    state,          \* priv->state
    serv,           \* priv->serv: whose context it points to
    starts,         \* the calls of start so far
    pc,             \* per thread: its place in the code
    back,           \* per thread: where stop returns to
    victim,         \* per thread: priv->serv as stop tested it
    round,          \* per thread: i, the probes of the run that are over
    hit,            \* per run: where it was when a stop took effect
    late,           \* per run: probes sent since then
    shared,         \* two threads were inside the discoverer at once
    undefined       \* a context that is not there was closed

memory == <<state, serv>>
locals == <<back, victim, round>>
history == <<hit, late, shared>>
vars == <<memory, starts, pc, locals, history, undefined>>

States == {"DISCOVERING", "STOPPED"}

StopPlaces == {"stop", "test_serv", "close", "clear_serv", "set_stopped"}

(* The places of start, in code order: before the context is initialised,   *)
(* while it is good, and the last assignment.                               *)
EntryPlaces == {"set_serv", "init"}
ProbePlaces == {"bind", "probe", "send", "sent", "listen", "again", "end_serv"}
ExitPlaces == {"end_state", "return"}
RunPlaces == EntryPlaces \cup ProbePlaces \cup ExitPlaces
Places == {"idle", "set_state"} \cup StopPlaces \cup RunPlaces

TypeOK ==
    /\ state \in States
    /\ serv \in Starters \cup {Null}
    /\ starts \in 0..MaxStarts
    /\ pc \in [Threads -> Places]
    /\ back \in [Threads -> {"idle", "set_state", "listen"}]
    /\ victim \in [Threads -> Starters \cup {Null}]
    /\ round \in [Starters -> 0..RetryCount]
    /\ hit \in [Starters -> RunPlaces \cup {Null}]
    /\ late \in [Starters -> Nat]
    /\ shared \in BOOLEAN /\ undefined \in BOOLEAN

(* OnvifDiscoverer__init *)
Init ==
    /\ state = "STOPPED" /\ serv = Null
    /\ starts = 0
    /\ pc = [t \in Threads |-> "idle"]
    /\ back = [t \in Threads |-> "idle"]
    /\ victim = [t \in Threads |-> Null]
    /\ round = [t \in Starters |-> 0]
    /\ hit = [t \in Starters |-> Null]
    /\ late = [t \in Starters |-> 0]
    /\ shared = FALSE /\ undefined = FALSE

Goto(t, place) == pc' = [pc EXCEPT ![t] = place]

(* Where t is in start, the stop it may be calling aside. *)
Place(t) == IF pc[t] \in StopPlaces THEN back[t] ELSE pc[t]

Running(t) == Place(t) \in RunPlaces

(* The context of t's run can be closed. *)
Ready(t) == t \in Starters /\ Place(t) \in ProbePlaces \cup ExitPlaces

--------------------------------------------------------------------------------
(* stop, for whoever calls it *)

(* t comes in from outside. *)
Enter(t) == shared' = (shared \/ \E u \in Threads \ {t} : pc[u] # "idle")

CallStop(t, place) ==
    /\ Goto(t, "stop")
    /\ back' = [back EXCEPT ![t] = place]

Stop(t) ==
    /\ t \in Stoppers /\ pc[t] = "idle"
    /\ CallStop(t, "idle")
    /\ Enter(t)
    /\ UNCHANGED <<memory, starts, victim, round, hit, late, undefined>>

(* line 248, the first operand; a stop that finds nothing to do returns *)
StopTestState(t) ==
    /\ pc[t] = "stop"
    /\ Goto(t, IF state = "DISCOVERING" THEN "test_serv" ELSE back[t])
    /\ UNCHANGED <<memory, starts, locals, history, undefined>>

(* line 248, the second *)
StopTestServ(t) ==
    /\ pc[t] = "test_serv"
    /\ victim' = [victim EXCEPT ![t] = serv]
    /\ Goto(t, IF serv # Null THEN "close" ELSE back[t])
    /\ UNCHANGED <<memory, starts, back, round, history, undefined>>

(* line 249: closes what priv->serv was when tested, or what it is now,     *)
(* as the build chooses                                                     *)
StopClose(t) ==
    /\ pc[t] = "close"
    /\ \E v \in {victim[t], serv} : undefined' = ~Ready(v)
    /\ victim' = [victim EXCEPT ![t] = Null]
    /\ Goto(t, "clear_serv")
    /\ UNCHANGED <<memory, starts, back, round, history>>

StopClearServ(t) ==
    /\ pc[t] = "clear_serv"
    /\ serv' = Null
    /\ Goto(t, "set_stopped")
    /\ UNCHANGED <<state, starts, locals, history, undefined>>

(* line 251; hit is history *)
StopSetStopped(t) ==
    /\ pc[t] = "set_stopped"
    /\ state' = "STOPPED"
    /\ hit' = [u \in Starters |->
                IF hit[u] = Null /\ Running(u) THEN Place(u) ELSE hit[u]]
    /\ Goto(t, back[t])
    /\ UNCHANGED <<serv, starts, locals, late, shared, undefined>>

--------------------------------------------------------------------------------
(* start *)

(* line 204: a run that is going is stopped first *)
Start(t) ==
    /\ t \in Starters /\ pc[t] = "idle"
    /\ starts < MaxStarts
    /\ starts' = starts + 1
    /\ IF state = "DISCOVERING" THEN CallStop(t, "set_state")
       ELSE Goto(t, "set_state") /\ UNCHANGED back
    /\ Enter(t)
    /\ UNCHANGED <<memory, victim, round, hit, late, undefined>>

(* line 209: from here on, earlier runs go on as well *)
SetState(t) ==
    /\ pc[t] = "set_state"
    /\ state' = "DISCOVERING"
    /\ hit' = [u \in Starters |-> Null]
    /\ late' = [u \in Starters |-> 0]
    /\ Goto(t, "set_serv")
    /\ UNCHANGED <<serv, starts, locals, shared, undefined>>

(* Mutated forms, here and below: a copy of the next definition that a      *)
(* check must reject.  The pointer is not published.                        *)
SetServMissing(t) ==
    /\ pc[t] = "set_serv"
    /\ Goto(t, "init")
    /\ UNCHANGED <<memory, starts, locals, history, undefined>>

(* line 210: the context is not initialised yet *)
SetServ(t) ==
    /\ pc[t] = "set_serv"
    /\ serv' = t
    /\ Goto(t, "init")
    /\ UNCHANGED <<state, starts, locals, history, undefined>>

(* lines 212-228 *)
InitContext(t) ==
    /\ pc[t] = "init"
    /\ round' = [round EXCEPT ![t] = 0]
    /\ Goto(t, "bind")
    /\ UNCHANGED <<memory, starts, back, victim, history, undefined>>

(* lines 157-161 *)
Bind(t) ==
    /\ pc[t] = "bind"
    /\ \E next \in {"probe", "again"} : Goto(t, next)
    /\ UNCHANGED <<memory, starts, locals, history, undefined>>

(* The state is not looked at before the probe. *)
TestBeforeProbeMissing(t) ==
    /\ pc[t] = "probe"
    /\ Goto(t, "send")
    /\ UNCHANGED <<memory, starts, locals, history, undefined>>

(* line 180 *)
TestBeforeProbe(t) ==
    /\ pc[t] = "probe"
    /\ Goto(t, IF state = "STOPPED" THEN "again" ELSE "send")
    /\ UNCHANGED <<memory, starts, locals, history, undefined>>

(* line 182, whether or not the message could be sent *)
SendMessage(t) ==
    /\ pc[t] = "send"
    /\ late' = IF hit[t] # Null THEN [late EXCEPT ![t] = @ + 1] ELSE late
    /\ Goto(t, "sent")
    /\ UNCHANGED <<memory, starts, locals, hit, shared, undefined>>

(* line 184 *)
TestBeforeListen(t) ==
    /\ pc[t] = "sent"
    /\ Goto(t, IF state = "STOPPED" THEN "again" ELSE "listen")
    /\ UNCHANGED <<memory, starts, locals, history, undefined>>

(* line 187: soap_wsdd_listen (external) returns after its timeout, after   *)
(* an error, or because its socket was closed                               *)
ListenReturns(t) ==
    /\ pc[t] = "listen"
    /\ Goto(t, "again")
    /\ UNCHANGED <<memory, starts, locals, history, undefined>>

(* lines 335-336: the probe-match callback, inside soap_wsdd_listen, calls  *)
(* stop                                                                     *)
CallbackStops(t) ==
    /\ pc[t] = "listen"
    /\ CallStop(t, "listen")
    /\ UNCHANGED <<memory, starts, victim, round, history, undefined>>

(* The last probe returns from start at once. *)
AgainReturns(t) ==
    /\ pc[t] = "again"
    /\ round' = [round EXCEPT ![t] = @ + 1]
    /\ Goto(t, IF state = "STOPPED" THEN "end_serv"
               ELSE IF round'[t] = RetryCount THEN "idle" ELSE "bind")
    /\ UNCHANGED <<memory, starts, back, victim, history, undefined>>

(* lines 228-230 *)
Again(t) ==
    /\ pc[t] = "again"
    /\ round' = [round EXCEPT ![t] = @ + 1]
    /\ Goto(t, IF state = "STOPPED" \/ round'[t] = RetryCount THEN "end_serv"
               ELSE "bind")
    /\ UNCHANGED <<memory, starts, back, victim, history, undefined>>

(* The pointer is left behind. *)
EndServMissing(t) ==
    /\ pc[t] = "end_serv"
    /\ Goto(t, "end_state")
    /\ UNCHANGED <<memory, starts, locals, history, undefined>>

(* line 233 *)
EndServ(t) ==
    /\ pc[t] = "end_serv"
    /\ serv' = Null
    /\ Goto(t, "end_state")
    /\ UNCHANGED <<state, starts, locals, history, undefined>>

(* line 238 *)
EndState(t) ==
    /\ pc[t] = "end_state"
    /\ state' = "STOPPED"
    /\ Goto(t, "return")
    /\ UNCHANGED <<serv, starts, locals, history, undefined>>

(* line 239, and the frame is gone *)
Return(t) ==
    /\ pc[t] = "return"
    /\ hit' = [hit EXCEPT ![t] = Null]
    /\ late' = [late EXCEPT ![t] = 0]
    /\ Goto(t, "idle")
    /\ UNCHANGED <<memory, starts, locals, shared, undefined>>

--------------------------------------------------------------------------------
StopStep(t) ==
    \/ StopTestState(t) \/ StopTestServ(t) \/ StopClose(t) \/ StopClearServ(t)
    \/ StopSetStopped(t)

RunStep(t) ==
    \/ SetState(t) \/ SetServ(t) \/ InitContext(t) \/ Bind(t)
    \/ TestBeforeProbe(t) \/ SendMessage(t) \/ TestBeforeListen(t)
    \/ ListenReturns(t) \/ Again(t) \/ EndServ(t) \/ EndState(t) \/ Return(t)

Next ==
    /\ ~undefined
    /\ \E t \in Threads :
        Start(t) \/ Stop(t) \/ StopStep(t) \/ RunStep(t) \/ CallbackStops(t)

Spec == Init /\ [][Next]_vars

--------------------------------------------------------------------------------
(* Properties. *)

(* However runs and stops overlap, serv points to the context of a run that *)
(* has not given it up: no pointer into a dead frame is left behind, and    *)
(* the state says STOPPED when no run is under way, or only returning.      *)
ServOwned ==
    /\ serv # Null => Place(serv) \in RunPlaces \ ({"set_serv"} \cup ExitPlaces)
    /\ state = "DISCOVERING" =>
        \E t \in Starters : Place(t) \in RunPlaces \ {"return"}

(* A stop that took effect is obeyed at once: a run sends a probe after it  *)
(* only if it was between the test of line 180 and the message, and then    *)
(* only that one.  (Until another start: that revives every run.)           *)
StopIsPrompt ==
    \A t \in Starters : late[t] <= (IF hit[t] = "send" THEN 1 ELSE 0)

(* A stop that finds nothing to do loses nothing: a run that is probing was *)
(* stopped already, is being stopped by somebody else, or shares the        *)
(* discoverer with another run.                                             *)
StopIsNotLost ==
    [][\A s \in Threads, t \in Starters :
        /\ pc[s] \in {"stop", "test_serv"} /\ pc'[s] = back[s]
        /\ Place(t) \in ProbePlaces \ {"end_serv"}
        => \/ state = "STOPPED"
           \/ \E u \in Threads \ {s} : pc[u] \in StopPlaces
           \/ \E u \in Starters \ {t} : pc[u] # "idle"]_vars

(* Closing a context that is not there (line 249) takes two threads inside  *)
(* the discoverer at once: one thread, or several in turn, that start and   *)
(* stop from the callback never do it.                                      *)
CloseIsSafeAlone == undefined => shared
================================================================================
