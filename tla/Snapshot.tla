------------------------------- MODULE Snapshot -------------------------------
(***************************************************************************)
(* The download of a picture: OnvifMediaService__getSnapshot and its loop  *)
(* get_http_body (src/src/media/onvif_media_service.c, lines 163-414).     *)
(*                                                                         *)
(* An address is a host, a port and a path.  The loop's url is a pointer:  *)
(* to the text the camera's reply holds ("uri"), to the text this loop     *)
(* allocated ("new"), or into the soap structure ("soap"), which every GET *)
(* rewrites.  What it points to is read through it, so freeing the text,   *)
(* or a redirect that rewrites it, changes what a later read finds.        *)
(***************************************************************************)
EXTENDS Naturals

CONSTANTS
    Hosts, Ports, Paths,    \* the parts of an address
    CameraHost, CameraPort, \* where the device itself was reached
    Null,                   \* the NULL pointer
    RedirectLimit           \* 10 in the code

ASSUME SnapshotAssumption ==
    /\ CameraHost \in Hosts /\ CameraPort \in Ports
    /\ RedirectLimit \in Nat
    /\ Null \notin [host: Hosts, port: Ports, path: Paths]
    /\ Null \notin {"whole", "broken"}

VARIABLES
    pc,             \* the place in the code
    fault,          \* the fault of the GetSnapshotUri reply
    uri,            \* its URI
    url,            \* where url points
    new_endpoint,   \* the text allocated last, Null once freed
    endpoint,       \* soap->endpoint
    error,          \* soap->error
    body,           \* size > 0
    snap,           \* Null, or how its bytes were received
    redirect_count,
    retry_flag,
    result,         \* the snapshot returned: its fault, and snap
    \* what happened
    asked,          \* the requests sent
    moves,          \* the times url was pointed to an allocated text
    challenged,     \* a GET was answered 401
    jumped,         \* a redirect other than 302 was followed
    path,           \* the path the camera, or such a redirect, gave
    undefined       \* a freed text was read

(* Groups, and all. *)
reply == <<fault, uri>>
transfer == <<endpoint, error, body>>
address == <<url, new_endpoint, moves>>
counts == <<redirect_count, retry_flag>>
course == <<jumped, path>>

vars == <<pc, reply, address, transfer, snap, counts, result, asked, challenged,
          course, undefined>>

SoapFault == {"NONE", "CONNECTION_ERROR", "NOT_VALID", "UNAUTHORIZED",
              "ACTION_NOT_SUPPORTED", "UNEXPECTED"}

Addresses == [host: Hosts, port: Ports, path: Paths]
Errors == {"OK", "401", "302", "30x", "TCP", "OTHER"}
Received == {"whole", "broken"}

TypeOK ==
    /\ pc \in {"uri", "get", "challenge", "decide", "end", "done"}
    /\ fault \in SoapFault
    /\ uri \in Addresses \cup {Null}
    /\ url \in {"uri", "new", "soap"}
    /\ new_endpoint \in Addresses \cup {Null}
    /\ endpoint \in Addresses \cup {Null}
    /\ error \in Errors
    /\ body \in BOOLEAN
    /\ snap \in Received \cup {Null}
    /\ redirect_count \in 0..RedirectLimit
    /\ retry_flag \in 0..3
    /\ result \in [fault: SoapFault, snap: Received \cup {Null}] \cup {Null}
    /\ asked \in Nat /\ moves \in Nat
    /\ challenged \in BOOLEAN /\ jumped \in BOOLEAN /\ undefined \in BOOLEAN
    /\ path \in Paths \cup {Null}

Init ==
    /\ pc = "uri"
    /\ fault = "UNEXPECTED" /\ uri = Null
    /\ url = "uri" /\ new_endpoint = Null /\ endpoint = Null
    /\ error = "OK" /\ body = FALSE /\ snap = Null
    /\ redirect_count = 0 /\ retry_flag = 0
    /\ result = Null
    /\ asked = 0 /\ moves = 0
    /\ challenged = FALSE /\ jumped = FALSE /\ path = Null /\ undefined = FALSE

(* The text url points to; the freed one is not known. *)
Url == CASE url = "uri" -> uri [] url = "new" -> new_endpoint
         [] url = "soap" -> endpoint

(* Mutated form: the text of the reply is freed like one of the loop's. *)
DanglesAny == url # "soap"

(* free(new_endpoint): url dangles when it pointed there. *)
Dangles == url = "new"

--------------------------------------------------------------------------------
(* getSnapshot, lines 385-409: only a reply without a fault that has a URI  *)
(* is followed; any other becomes an empty snapshot with the reply's fault. *)
GetSnapshotUri ==
    /\ pc = "uri"
    /\ fault' \in SoapFault
    /\ uri' \in Addresses \cup {Null}
    /\ fault' # "NONE" => uri' = Null
    /\ IF uri' # Null
       THEN pc' = "get" /\ path' = uri'.path /\ UNCHANGED result
       ELSE /\ pc' = "done"
            /\ result' = [fault |-> fault', snap |-> Null]
            /\ UNCHANGED path
    /\ UNCHANGED <<counts, address, transfer, snap, asked, challenged, jumped,
                   undefined>>

(* send_http_get: a redirect leaves its location in soap->endpoint, any     *)
(* other GET the address asked.  A body may arrive and the end of the       *)
(* message fail, which only logs (lines 190-192): size and error are both   *)
(* set.  size keeps its value when no body is read.                         *)
SendHttpGet ==
    /\ asked' = asked + 1
    /\ error' \in Errors
    /\ endpoint' \in IF error' \in {"302", "30x"} THEN Addresses ELSE {Url}
    /\ body' \in CASE error' = "OK" -> BOOLEAN
                   [] error' = "OTHER" -> {body, TRUE}
                   [] OTHER -> {body}

(* Mutated form: the answer's error is not looked at. *)
GetAnyBody ==
    /\ pc = "get"
    /\ SendHttpGet
    /\ snap' = IF body' THEN IF error' = "OK" THEN "whole" ELSE "broken"
               ELSE snap
    /\ challenged' = (challenged \/ error' = "401")
    /\ pc' = IF error' = "401" THEN "challenge" ELSE "decide"
    /\ UNCHANGED <<course, counts, address, reply, result, undefined>>

(* lines 235-243 *)
Get ==
    /\ pc = "get"
    /\ SendHttpGet
    /\ snap' = IF error' = "OK" /\ body' THEN "whole" ELSE snap
    /\ challenged' = (challenged \/ error' = "401")
    /\ pc' = IF error' = "401" THEN "challenge" ELSE "decide"
    /\ UNCHANGED <<course, counts, address, reply, result, undefined>>

(* lines 244-255: the GET with the credentials, whose error is not tested   *)
GetWithCredentials ==
    /\ pc = "challenge"
    /\ SendHttpGet
    /\ snap' = IF body' THEN IF error' = "OK" THEN "whole" ELSE "broken"
               ELSE snap
    /\ pc' = "decide"
    /\ UNCHANGED <<course, counts, address, reply, result, challenged,
                   undefined>>

--------------------------------------------------------------------------------
(* Mutated form: redirects are followed without end. *)
RedirectedForever == error \in {"302", "30x"}

Redirected == error \in {"302", "30x"} /\ redirect_count < RedirectLimit

(* Mutated form: a 302 takes the whole location. *)
MovedWhole(a, location) == location

(* lines 265-270 *)
Moved(a, location) == [location EXCEPT !.path = a.path]

(* lines 258-281: a 302 moves the host and the port of what url points to;  *)
(* any other redirect points url to soap->endpoint itself.                  *)
Redirect ==
    /\ pc = "decide" /\ Redirected
    /\ redirect_count' = redirect_count + 1
    /\ IF error = "302"
       THEN IF Dangles
            THEN /\ undefined' = TRUE
                 /\ UNCHANGED <<course, address, pc>>
            ELSE /\ new_endpoint' = Moved(Url, endpoint)
                 /\ url' = "new" /\ moves' = moves + 1
                 /\ pc' = "get"
                 /\ UNCHANGED <<course, undefined>>
       ELSE /\ new_endpoint' = Null
            /\ url' = "soap" /\ jumped' = TRUE /\ path' = endpoint.path
            /\ pc' = "get"
            /\ UNCHANGED <<moves, undefined>>
    /\ UNCHANGED <<transfer, reply, snap, retry_flag, result, asked,
                   challenged>>

(* Mutated form: the port comes first, as in the SOAP calls. *)
CorrectedPortFirst(stage, a) ==
    CASE stage = 0 -> [a EXCEPT !.port = CameraPort]
      [] stage = 1 -> [a EXCEPT !.host = CameraHost]
      [] stage = 2 -> [a EXCEPT !.host = CameraHost, !.port = CameraPort]

(* What the fallback of a stage makes of an address. *)
Corrected(stage, a) ==
    CASE stage = 0 -> [a EXCEPT !.host = CameraHost, !.port = CameraPort]
      [] stage = 1 -> [a EXCEPT !.port = CameraPort]
      [] stage = 2 -> [a EXCEPT !.host = CameraHost]

(* lines 285-342: the three fallbacks; one that changes nothing falls       *)
(* through to the next.  The text url may point to is freed first.          *)
Fallback ==
    /\ pc = "decide" /\ error = "TCP" /\ retry_flag < 3
    /\ retry_flag' = retry_flag + 1
    /\ IF Dangles
       THEN undefined' = TRUE /\ UNCHANGED <<address, pc>>
       ELSE /\ new_endpoint' = Corrected(retry_flag, Url)
            /\ IF new_endpoint' # Url
               THEN pc' = "get" /\ url' = "new" /\ moves' = moves + 1
               ELSE UNCHANGED <<pc, url, moves>>
            /\ UNCHANGED undefined
    /\ UNCHANGED <<course, transfer, reply, snap, redirect_count, result, asked,
                   challenged>>

(* Mutated form: the last allocated text is kept. *)
FreeLastMissing ==
    /\ pc = "decide"
    /\ ~Redirected /\ ~(error = "TCP" /\ retry_flag < 3)
    /\ pc' = "end"
    /\ UNCHANGED <<course, counts, address, transfer, reply, snap, result,
                   asked, challenged, undefined>>

(* lines 345-364: the failure is logged, the text and the soap structure    *)
(* are freed                                                                *)
FreeLast ==
    /\ pc = "decide"
    /\ ~Redirected /\ ~(error = "TCP" /\ retry_flag < 3)
    /\ new_endpoint' = Null
    /\ pc' = "end"
    /\ UNCHANGED <<course, counts, transfer, reply, url, snap, result, asked,
                   moves, challenged, undefined>>

(* lines 366-370; OnvifMediaSnapshot copies the bytes, and its fault is     *)
(* NONE unless one is set                                                   *)
Return ==
    /\ pc = "end"
    /\ result' = [fault |-> IF snap = Null THEN "UNEXPECTED" ELSE "NONE",
                  snap |-> snap]
    /\ pc' = "done"
    /\ UNCHANGED <<course, counts, address, transfer, reply, snap, asked,
                   challenged, undefined>>

Step == GetSnapshotUri \/ Get \/ GetWithCredentials \/ Redirect \/ Fallback
        \/ FreeLast \/ Return

Next == ~undefined /\ Step

Spec == Init /\ [][Next]_vars

--------------------------------------------------------------------------------
(* Properties. *)

(* One download sends a request for its URI, for each of at most            *)
(* RedirectLimit redirects and for the three corrections, and each once     *)
(* more when it is challenged: the corrections cannot renew the redirects,  *)
(* nor the redirects the corrections.                                       *)
RequestsBounded == asked <= 2 * (RedirectLimit + 4)

(* A download whose address was rewritten at most once never reads a freed  *)
(* text: each branch frees new_endpoint before it uses url, which is the    *)
(* same text only after a 302 or a correction.                              *)
UseAfterFreeNeedsRewrite == undefined => moves >= 1 /\ asked >= 2

(* Of the three fallbacks, only the first ever sends a request, until a     *)
(* redirect: it sets host and port at once, so the port and host fallbacks  *)
(* that follow it find nothing to change.                                   *)
OneCorrection ==
    pc \in {"get", "challenge"} /\ redirect_count = 0 =>
        retry_flag <= 1 /\ (retry_flag = 1 => Url = Corrected(0, uri))

(* A snapshot with a picture and no fault was received whole, unless the    *)
(* camera had challenged: only the GET with credentials ignores the error   *)
(* of the transfer.  A download that gave no picture is a fault; an empty   *)
(* snapshot without one means that the camera named no URI.                 *)
ResultHonest ==
    pc = "done" /\ result.fault = "NONE" =>
        \/ result.snap = "whole"
        \/ result.snap = "broken" /\ challenged
        \/ result.snap = Null /\ asked = 0

(* A 302 moves the download to another host and port and keeps the path,    *)
(* until a redirect of another kind made url an alias of soap->endpoint,    *)
(* which a 302 rewrites before its path is read.                            *)
PathKept ==
    pc \in {"get", "challenge"} /\ ~jumped => Url.path = path

(* No text allocated by the loop outlives it, and while url points to one,  *)
(* it has not been freed.                                                   *)
NothingLeaks ==
    /\ pc = "done" => new_endpoint = Null
    /\ pc \in {"get", "challenge"} /\ url = "new" => new_endpoint # Null

(* The texts url points to are owned: none is freed while it is used, but   *)
(* after the rewrite above, and none is left.                               *)
TextsOwned == TypeOK /\ UseAfterFreeNeedsRewrite /\ NothingLeaks

(* What is asked is the picture the camera named, moved by redirects and    *)
(* corrected once.                                                          *)
AddressKept == PathKept /\ OneCorrection
================================================================================
