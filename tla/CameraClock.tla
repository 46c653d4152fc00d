------------------------------ MODULE CameraClock ------------------------------
(***************************************************************************)
(* The camera's clock as the library knows it.  authenticate asks for the  *)
(* camera's date (src/src/devicemgmt/onvif_device_datetime.c), keeps its   *)
(* difference to the client's clock (onvif_device.c, lines 142-176), and   *)
(* every later request carries a user name token stamped with the client's *)
(* clock plus that difference (onvif_base_service.c, lines 209-255) beside *)
(* a timestamp nothing is added to.  Calls take time, and either clock may *)
(* be set while the library runs.                                          *)
(*                                                                         *)
(* Times are seconds since the epoch, small ones: a date before the epoch  *)
(* is negative.  A camera accepts a token that is at most Window old or    *)
(* early, and, if it looks at them, timestamps it may receive right now.   *)
(***************************************************************************)
EXTENDS Integers

CONSTANTS
    Start,          \* the client's clock when the device is created
    Skews,          \* the camera's clock minus the client's, when either is set
    Window,         \* how old or early a token the camera accepts
    Life,           \* the seconds a timestamp is valid: 10 in the code
    MaxTime,        \* bound: the seconds that pass
    MaxSets,        \* bound: the times a clock is set
    Null            \* the NULL pointer

ASSUME ClockAssumption ==
    /\ Start \in Int /\ Skews \subseteq Int
    /\ Window \in Nat /\ Life \in Nat /\ MaxTime \in Nat /\ MaxSets \in Nat
    /\ Null \notin Int

SoapFault == {"NONE", "CONNECTION_ERROR", "UNAUTHORIZED", "UNEXPECTED"}

(* What the camera's answer to GetSystemDateAndTime holds: an UTC date, a   *)
(* local one only, neither, or not the elements the schema requires.        *)
Answers == {"utc", "local", "none", "hollow"}

VARIABLES
    now,            \* time(NULL)
    camera,         \* the camera's clock
    elapsed,        \* the seconds that have passed
    sets,           \* the times a clock was set
    strict,         \* the camera looks at timestamps
    pc,             \* authenticate's place
    answer,         \* the date the camera sent, the second it did, its kind
    date,           \* OnvifDeviceDateTime's datetime
    datetime,       \* *priv->datetime, Null if there is none
    time_offset,    \* priv->time_offset
    measured,       \* when the offset was computed: the answer, sets, the lag
    token,          \* the last request: its token, its timestamp, when
    authenticated,  \* priv->authenticated
    ret_fault       \* what the last call returned

clocks == <<now, camera, elapsed, sets, strict>>
measure == <<datetime, time_offset, measured>>
result == <<authenticated, ret_fault>>
vars == <<clocks, pc, answer, date, measure, token, result>>

Places == {"idle", "ask", "construct", "difference", "stamp", "sent", "crashed"}

TypeOK ==
    /\ now \in Int /\ camera \in Int
    /\ elapsed \in 0..MaxTime /\ sets \in 0..MaxSets /\ strict \in BOOLEAN
    /\ pc \in Places
    /\ answer \in [kind: Answers, at: 0..MaxTime, time: Int]
    /\ date \in Int
    /\ datetime \in (Nat \ {0}) \cup {Null} /\ time_offset \in Int
    /\ measured \in [kind: Answers, sets: 0..MaxSets, lag: 0..MaxTime]
    /\ token \in [created: Int, timestamp: Int, at: 0..MaxTime]
    /\ authenticated \in BOOLEAN
    /\ ret_fault \in SoapFault

Init ==
    /\ now = Start /\ \E s \in Skews : camera = Start + s
    /\ elapsed = 0 /\ sets = 0 /\ strict \in BOOLEAN
    /\ pc = "idle"
    /\ answer = [kind |-> "none", at |-> 0, time |-> 0]
    /\ date = 0
    /\ datetime = Null /\ time_offset = 0
    /\ measured = [kind |-> "none", sets |-> 0, lag |-> 0]
    /\ token = [created |-> 0, timestamp |-> 0, at |-> 0]
    /\ authenticated = FALSE /\ ret_fault = "NONE"

Goto(place) == pc' = place

Fail(f) == ret_fault' = f /\ Goto("idle")

--------------------------------------------------------------------------------
(* The clocks. *)

Tick ==
    /\ elapsed < MaxTime
    /\ now' = now + 1 /\ camera' = camera + 1 /\ elapsed' = elapsed + 1
    /\ UNCHANGED <<sets, strict, pc, answer, date, measure, token, result>>

(* The camera is synchronised or reboots, or the client's clock is set. *)
SetClock ==
    /\ sets < MaxSets
    /\ sets' = sets + 1
    /\ \E s \in Skews : \/ camera' = now + s /\ UNCHANGED now
                        \/ now' = camera - s /\ UNCHANGED camera
    /\ UNCHANGED <<elapsed, strict, pc, answer, date, measure, token, result>>

--------------------------------------------------------------------------------
(* Mutated form: a camera without a date is not asked again. *)
NeedsDateOnce == datetime = Null /\ ret_fault = "NONE"

(* lines 137 and 142 *)
NeedsDate == datetime = Null /\ ~authenticated

(* authenticate, also again after a fault, up to line 143; or any request   *)
(* of an authenticated device                                               *)
Call ==
    /\ pc = "idle"
    /\ Goto(IF NeedsDate THEN "ask" ELSE "stamp")
    /\ UNCHANGED <<clocks, answer, date, measure, token, result>>

(* The camera's answer of kind k arrives with the time it has now. *)
Reply(k) ==
    /\ pc = "ask"
    /\ answer' = [kind |-> k, at |-> elapsed, time |-> camera]
    /\ Goto("construct")
    /\ UNCHANGED <<clocks, date, measure, token, result>>

(* getSystemDateAndTime; the call may fail, and authenticate with it: any   *)
(* fault ends it alike.                                                     *)
GetSystemDateAndTime ==
    \/ \E k \in Answers : Reply(k)
    \/ /\ pc = "ask" /\ Fail("CONNECTION_ERROR")
       /\ UNCHANGED <<clocks, answer, date, measure, token, authenticated>>

(* construct: an UTC date is converted, for a local one the client's time   *)
(* is taken; a date before the epoch is a fault of the answer (line 64),    *)
(* and a missing one too (line 41).                                         *)
Construct ==
    /\ pc = "construct"
    /\ LET d == CASE answer.kind = "utc" -> answer.time
                  [] answer.kind = "local" -> now
                  [] OTHER -> 0
       IN /\ date' = d
          /\ IF answer.kind = "hollow" THEN Goto("crashed") /\ UNCHANGED ret_fault
             ELSE IF answer.kind = "none" \/ d < 0 THEN Fail("UNEXPECTED")
             ELSE Goto("difference") /\ UNCHANGED ret_fault
    /\ UNCHANGED <<clocks, answer, measure, token, authenticated>>

(* Mutated forms, here and below: a copy of the next definition that a      *)
(* check must reject.  The difference is taken the wrong way round.         *)
DifferenceOf(d, t) == t - d

(* line 151 *)
Difference(d, t) == d - t

(* Mutated form: the epoch is taken for a date. *)
IsSetFromZero(d) == d >= 0

(* line 149 *)
IsSet(d) == d > 0

(* lines 146-163; a clock that is not set is left for the next time *)
SetOffset ==
    /\ pc = "difference"
    /\ IF IsSet(date)
       THEN /\ time_offset' = Difference(date, now)
            /\ datetime' = date
            /\ measured' = [kind |-> answer.kind, sets |-> sets,
                            lag |-> elapsed - answer.at]
       ELSE UNCHANGED measure
    /\ Goto("stamp")
    /\ UNCHANGED <<clocks, answer, date, token, result>>

--------------------------------------------------------------------------------
(* A request of authenticate, GetStreamUri standing for all. *)

(* get_offset_time, whose localtime and mktime add seconds *)
OffsetTime == IF time_offset = 0 THEN now ELSE now + time_offset

(* set_wsse_data: soap_wsse_add_Timestamp takes the client's own clock *)
Stamp ==
    /\ pc = "stamp"
    /\ token' = [created |-> OffsetTime, timestamp |-> now, at |-> elapsed]
    /\ Goto("sent")
    /\ UNCHANGED <<clocks, answer, date, measure, result>>

Near(t) == camera - t \in -Window..Window

InLife(t) == camera - t \in 0..Life

(* The camera's answer to the request, now. *)
Answer ==
    /\ pc = "sent"
    /\ LET ok == Near(token.created) /\ (strict => InLife(token.timestamp))
       IN /\ authenticated' = (authenticated \/ ok)
          /\ ret_fault' = IF ok THEN "NONE" ELSE "UNAUTHORIZED"
    /\ Goto("idle")
    /\ UNCHANGED <<clocks, answer, date, measure, token>>

Next ==
    \/ Tick \/ SetClock
    \/ Call \/ GetSystemDateAndTime \/ Construct \/ SetOffset
    \/ Stamp \/ Answer

(* The clocks go on, a caller tries again, the code runs, and a camera that *)
(* is asked again and again answers now and then with an UTC date.          *)
Spec ==
    /\ Init /\ [][Next]_vars
    /\ WF_vars(Tick) /\ WF_vars(Call) /\ WF_vars(Construct)
    /\ WF_vars(SetOffset) /\ WF_vars(Stamp) /\ WF_vars(Answer)
    /\ SF_vars(Reply("utc"))

--------------------------------------------------------------------------------
(* Properties. *)

(* No clock was set since the camera's date was asked for. *)
Undisturbed == sets = 0

(* get_offset_time: what a token says is the camera's time when it was      *)
(* made, but for the seconds between the camera's answer and the            *)
(* difference; and the client's own time, or as much less, if the camera    *)
(* has no UTC date.                                                         *)
TokenTracksCamera ==
    pc = "sent" /\ Undisturbed =>
        LET age == elapsed - token.at
        IN CASE datetime = Null -> token.created = now - age
             [] measured.kind = "utc" ->
                    token.created = camera - age - measured.lag
             [] measured.kind = "local" ->
                    token.created \in (now - age - measured.lag)..(now - age)

(* The date of a camera whose clock stands at the epoch, or before it, is   *)
(* not used: it is asked for again, and the tokens carry the client's time. *)
UnsetClockNotTrusted ==
    /\ datetime # Null => datetime > 0
    /\ datetime = Null => time_offset = 0
    /\ pc = "stamp" /\ datetime = Null => date = 0

(* A camera whose clock the library can follow lets it in at last, also one *)
(* that has no date at first: unless a clock is set, the date came late, is *)
(* a local one, or the camera looks at the timestamps as well.              *)
LetsInAtLast ==
    <>(\/ authenticated \/ pc = "crashed"
       \/ ~Undisturbed \/ strict
       \/ measured.lag > Window \/ measured.kind = "local")
================================================================================
