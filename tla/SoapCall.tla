-------------------------------- MODULE SoapCall --------------------------------
(***************************************************************************)
(* One SOAP operation of a service: the macros ONVIF_INVOKE_SOAP_CALL_*    *)
(* (src/src/onvif_base_service_local.h) that every remote call of the      *)
(* library expands to, with soap_new, http_challenge and set_endpoint      *)
(* (src/src/onvif_base_service.c).  The call follows redirects, answers an *)
(* HTTP 401 challenge once per address and, when an address cannot be      *)
(* reached, tries the port, the host and then both of the address the      *)
(* device was created with; an address that worked becomes the service's   *)
(* endpoint.                                                               *)
(*                                                                         *)
(* service_lock is held from MSTART to prv_exit, so the calls of all       *)
(* threads on one service are a sequence and one caller stands for them;   *)
(* set_credentials takes another lock and happens at any time.  The        *)
(* protocol part of an address is left out: only redirects change it.      *)
(***************************************************************************)
EXTENDS Naturals

CONSTANTS
    Hosts, Ports, Paths,    \* the addresses
    Master,                 \* the device's own host and port
    MaxRedirects,           \* redirects followed (10 in the code)
    MaxCreds,               \* bound: the calls of set_credentials
    Null

Addresses == [host: Hosts, port: Ports, path: Paths]
Sites == [host: Hosts, port: Ports]

ASSUME CallAssumption ==
    /\ Master \in Sites
    /\ MaxRedirects \in Nat /\ MaxCreds \in Nat
    /\ Null \notin Addresses

Site(a) == [host |-> a.host, port |-> a.port]

(* What soap_call can come to: TCP, no connection (UDP or TCP error); BROKEN, *)
(* an HTTP, SSL or ZLIB error; NOSOAP, no SOAP message or a 400, 403, 404.  *)
Redirects == {"301", "302"}
Reached == {"OK", "401", "BROKEN", "NOSOAP", "NotAuthorized",
            "ActionNotSupported", "OTHER"} \cup Redirects
Results == Reached \cup {"TCP"}

VARIABLES
    endpoint,       \* priv->endpoint of the service
    da_info,        \* credentials of the saved digest, 0 when none
    cred,           \* the device's credentials: the set_credentials so far
    dead,           \* the sites that cannot be reached
    pc,             \* idle; send: about to call soap_call; answered; crashed
    privendpt, new_endpoint,    \* the call's addresses
    stage,          \* the address in use: first, port, host, both
    challenged,     \* this address' challenge was answered
    redirect_count,
    ret, realm,     \* the last result, and whether it named a realm
    digest,         \* credentials of the digest the request carries
    fault,          \* the fault of the last call's response object
    since,          \* cred when the call began
    requests        \* requests the call has made

vars == <<endpoint, da_info, cred, dead, pc, privendpt, new_endpoint, stage,
          challenged, redirect_count, ret, realm, digest, fault, since, requests>>

SoapFault == {"NONE", "CONNECTION_ERROR", "NOT_VALID", "UNAUTHORIZED",
              "ACTION_NOT_SUPPORTED", "UNEXPECTED"}

TypeOK ==
    /\ endpoint \in Addresses
    /\ cred \in 0..MaxCreds
    /\ da_info \in 0..cred /\ digest \in 0..cred /\ since \in 0..cred
    /\ dead \subseteq Sites
    /\ pc \in {"idle", "send", "answered", "crashed"}
    /\ privendpt \in Addresses
    /\ new_endpoint \in Addresses \cup {Null}
    /\ stage \in {"first", "port", "host", "both"}
    /\ challenged \in BOOLEAN /\ realm \in BOOLEAN
    /\ redirect_count \in 0..MaxRedirects
    /\ ret \in Results
    /\ fault \in SoapFault
    /\ requests \in Nat

Init ==
    /\ endpoint \in Addresses
    /\ da_info = 0 /\ cred = 0
    /\ dead \in SUBSET Sites
    /\ pc = "idle"
    /\ privendpt = endpoint /\ new_endpoint = Null
    /\ stage = "first" /\ challenged = FALSE /\ redirect_count = 0
    /\ ret = "OK" /\ realm = FALSE
    /\ digest = 0 /\ fault = "NONE" /\ since = 0 /\ requests = 0

--------------------------------------------------------------------------------
(* lines 26-43: lock, read the endpoint, soap_new with the saved digest *)
Start ==
    /\ pc = "idle"
    /\ privendpt' = endpoint /\ new_endpoint' = Null
    /\ stage' = "first" /\ challenged' = FALSE /\ redirect_count' = 0
    /\ digest' = da_info /\ since' = cred /\ requests' = 0
    /\ pc' = "send"
    /\ UNCHANGED <<endpoint, da_info, cred, dead, ret, realm, fault>>

(* soap_new, or http_challenge, cannot add the WS-Security header: the      *)
(* call goes on with a soap object that is NULL, or freed                   *)
(* (onvif_base_service.c:312-315 and 279-282).                              *)
WsseFails ==
    /\ \/ pc = "send" /\ requests = 0
       \/ pc = "answered" /\ ret = "401" /\ realm /\ ~challenged
    /\ pc' = "crashed"
    /\ UNCHANGED <<endpoint, da_info, cred, dead, privendpt, new_endpoint, stage,
                   challenged, redirect_count, ret, realm, digest, fault, since,
                   requests>>

Target == IF stage = "first" THEN privendpt ELSE new_endpoint

(* soap_call (external): a site that cannot be reached gives no connection, *)
(* any other whatever it likes.                                             *)
Send ==
    /\ pc = "send"
    /\ ret' \in (IF Site(Target) \in dead THEN {"TCP"} ELSE Reached)
    /\ realm' \in (IF ret' = "401" THEN BOOLEAN ELSE {FALSE})
    /\ requests' = requests + 1
    /\ pc' = "answered"
    /\ UNCHANGED <<endpoint, da_info, cred, dead, privendpt, new_endpoint, stage,
                   challenged, redirect_count, digest, fault, since>>

MayRedirect ==
    /\ stage = "first" /\ ~challenged
    /\ ret \in Redirects /\ redirect_count < MaxRedirects

(* lines 47-67: a 302 keeps the path *)
Redirect ==
    /\ pc = "answered" /\ MayRedirect
    /\ redirect_count' = redirect_count + 1
    /\ \E a \in Addresses :
        privendpt' = IF ret = "302" THEN [a EXCEPT !.path = privendpt.path] ELSE a
    /\ pc' = "send"
    /\ UNCHANGED <<endpoint, da_info, cred, dead, new_endpoint, stage, challenged,
                   ret, realm, digest, fault, since, requests>>

MayChallenge == ret = "401" /\ realm /\ ~challenged

(* Mutated forms, here and below: a copy of the next definition that a      *)
(* check must reject.  A challenge is answered again and again.             *)
ChallengeForever ==
    /\ pc = "answered" /\ MayChallenge
    /\ da_info' = cred /\ digest' = cred
    /\ pc' = "send"
    /\ UNCHANGED <<endpoint, cred, dead, privendpt, new_endpoint, stage, challenged,
                   redirect_count, ret, realm, fault, since, requests>>

(* A saved digest is not replaced. *)
ChallengeSaved ==
    /\ pc = "answered" /\ MayChallenge
    /\ digest' = IF da_info # 0 THEN da_info ELSE cred
    /\ da_info' = digest'
    /\ challenged' = TRUE
    /\ pc' = "send"
    /\ UNCHANGED <<endpoint, cred, dead, privendpt, new_endpoint, stage,
                   redirect_count, ret, realm, fault, since, requests>>

(* lines 69, 77, 89, 103 and http_challenge: the digest is computed from    *)
(* the credentials as they are now, and saved for the calls to come         *)
Challenge ==
    /\ pc = "answered" /\ MayChallenge
    /\ da_info' = cred /\ digest' = cred
    /\ challenged' = TRUE
    /\ pc' = "send"
    /\ UNCHANGED <<endpoint, cred, dead, privendpt, new_endpoint, stage,
                   redirect_count, ret, realm, fault, since, requests>>

(* The host of the third correction is lost. *)
CorrectedPortOnly(s) ==
    IF s = "host" THEN [privendpt EXCEPT !.host = Master.host]
    ELSE [privendpt EXCEPT !.port = Master.port]

Corrected(s) ==
    CASE s = "port" -> [privendpt EXCEPT !.port = Master.port]
      [] s = "host" -> [privendpt EXCEPT !.host = Master.host]
      [] s = "both" -> [privendpt EXCEPT !.host = Master.host, !.port = Master.port]

NextStage == [first |-> "port", port |-> "host", host |-> "both"]

(* lines 71-76, 82-88, 94-102: an address equal to privendpt is not asked   *)
Fallback ==
    /\ pc = "answered"
    /\ ret = "TCP" /\ stage # "both"
    /\ stage' = NextStage[stage]
    /\ new_endpoint' = Corrected(stage')
    /\ challenged' = FALSE
    /\ pc' = IF new_endpoint' # privendpt THEN "send" ELSE "answered"
    /\ UNCHANGED <<endpoint, da_info, cred, dead, privendpt, redirect_count, ret,
                   realm, digest, fault, since, requests>>

(* lines 111-146 *)
FaultOf(r) ==
    CASE r = "OK" -> "NONE"
      [] r \in {"TCP", "BROKEN"} -> "CONNECTION_ERROR"
      [] r = "NOSOAP" -> "NOT_VALID"
      [] r \in {"401", "NotAuthorized"} -> "UNAUTHORIZED"
      [] r = "ActionNotSupported" -> "ACTION_NOT_SUPPORTED"
      [] OTHER -> "UNEXPECTED"

(* Every corrected address is kept. *)
FinishKeepsAny ==
    /\ pc = "answered"
    /\ ~MayRedirect /\ ~MayChallenge
    /\ ret = "TCP" => stage = "both"
    /\ endpoint' = IF new_endpoint # Null THEN new_endpoint ELSE endpoint
    /\ fault' = FaultOf(ret)
    /\ pc' = "idle"
    /\ UNCHANGED <<da_info, cred, dead, privendpt, new_endpoint, stage, challenged,
                   redirect_count, ret, realm, digest, since, requests>>

(* An error of the first address neither falls back nor ends the call. *)
FinishAfterFallback ==
    /\ pc = "answered"
    /\ ret = "OK" \/ stage = "both"
    /\ pc' = "idle"
    /\ UNCHANGED <<endpoint, da_info, cred, dead, privendpt, new_endpoint, stage,
                   challenged, redirect_count, ret, realm, digest, fault, since,
                   requests>>

(* lines 110-151 *)
Finish ==
    /\ pc = "answered"
    /\ ~MayRedirect /\ ~MayChallenge
    /\ ret = "TCP" => stage = "both"
    /\ endpoint' = IF ret \in {"OK", "401"} /\ new_endpoint # Null
                   THEN new_endpoint ELSE endpoint
    /\ fault' = FaultOf(ret)
    /\ pc' = "idle"
    /\ UNCHANGED <<da_info, cred, dead, privendpt, new_endpoint, stage, challenged,
                   redirect_count, ret, realm, digest, since, requests>>

SetCredentials ==
    /\ cred < MaxCreds /\ pc # "crashed"
    /\ cred' = cred + 1
    /\ UNCHANGED <<endpoint, da_info, dead, pc, privendpt, new_endpoint, stage,
                   challenged, redirect_count, ret, realm, digest, fault, since,
                   requests>>

(* Sites come and go between calls. *)
NetworkChanges ==
    /\ pc = "idle"
    /\ dead' \in SUBSET Sites
    /\ UNCHANGED <<endpoint, da_info, cred, pc, privendpt, new_endpoint, stage,
                   challenged, redirect_count, ret, realm, digest, fault, since,
                   requests>>

Continue == Send \/ Redirect \/ Challenge \/ Fallback \/ Finish \/ WsseFails

Crashed == pc = "crashed" /\ UNCHANGED vars

Next == Start \/ Continue \/ SetCredentials \/ NetworkChanges \/ Crashed

Spec == Init /\ [][Next]_vars

(* Every request ends, by its timeout if need be. *)
FairSpec == Spec /\ WF_vars(Continue)

--------------------------------------------------------------------------------
(* Properties. *)

Ends == pc = "answered" /\ pc' = "idle"

(* However redirects, challenges and fallbacks follow one another, a call   *)
(* makes at most one request per redirect, and two per address.             *)
RequestBound == requests <= MaxRedirects + 8

(* The endpoint is only ever replaced by an address that can be reached,    *)
(* and only because the one the call used (its endpoint, or where that was  *)
(* redirected) could not.                                                   *)
EndpointReached ==
    [][endpoint' # endpoint =>
        Site(endpoint') \notin dead /\ Site(privendpt) \in dead]_vars

(* A call gives up on the connection only when the address it used and all  *)
(* three corrections of it cannot be reached.                               *)
UnreachableEverywhere ==
    [][Ends /\ ret = "TCP" =>
        /\ Site(privendpt) \in dead
        /\ \A p \in {privendpt.port, Master.port}, h \in {privendpt.host, Master.host} :
            [host |-> h, port |-> p] \in dead]_vars

(* A digest of old credentials, restored from an earlier call, is not the   *)
(* reason a call is unauthorized: when the device challenges, the answer is *)
(* computed from credentials at least as new as the call.                   *)
FreshBeforeUnauthorized ==
    [][Ends /\ ret = "401" /\ realm => digest >= since]_vars

(* Every call ends and releases service_lock. *)
CallEnds == pc # "idle" ~> pc \in {"idle", "crashed"}

(* onvif_base_service_local.h:110, "on successful tcp connection, assuming  *)
(* the new url is valid": a corrected address that took the connection is   *)
(* the service's endpoint from then on.                                     *)
ConnectedIsKept ==
    [][Ends /\ ret # "TCP" /\ new_endpoint # Null => endpoint' = new_endpoint]_vars
================================================================================
