----------------------------- MODULE SoapCallProofs -----------------------------
(***************************************************************************)
(* Theorems about SoapCall, for any addresses, any number of redirects and *)
(* any behaviour of the device.                                            *)
(***************************************************************************)
EXTENDS SoapCall, TLAPS

Busy == pc \in {"send", "answered"}

StageNumber == [first |-> 0, port |-> 1, host |-> 2, both |-> 3]

(* What the call may have sent so far: one request for each redirect and   *)
(* two for each address before, and of this address the one, or with a     *)
(* challenge the two, that were answered.                                  *)
Allowance ==
    redirect_count + 2 * StageNumber[stage]
        + (IF challenged THEN 1 ELSE 0) + (IF pc = "answered" THEN 1 ELSE 0)

Counted ==
    /\ Busy => requests <= Allowance
    /\ requests <= MaxRedirects + 8

(* The addresses given up so far cannot be reached; the one in use is the  *)
(* correction the stage names.                                             *)
GivenUp ==
    /\ stage # "first" => /\ new_endpoint = Corrected(stage)
                          /\ Site(privendpt) \in dead
    /\ stage = "first" => new_endpoint = Null
    /\ stage \in {"host", "both"} => Site(Corrected("port")) \in dead
    /\ stage = "both" => Site(Corrected("host")) \in dead
    /\ pc = "answered" => (ret = "TCP" <=> Site(Target) \in dead)

(* Saved and carried digests are of credentials that were set; a digest     *)
(* made in this call is as new as the call.                                 *)
Fresh ==
    (challenged => digest >= since)

IInv == TypeOK /\ Counted /\ (Busy => GivenUp) /\ (Busy => Fresh)

(* A corrected address is an address. *)
LEMMA CorrectedIsAddress ==
    ASSUME NEW s \in {"port", "host", "both"}, TypeOK
    PROVE  Corrected(s) \in Addresses
BY CallAssumption DEF Corrected, TypeOK, Addresses, Sites

(* Every step keeps every variable's type. *)
LEMMA TypeStep == TypeOK /\ [Next]_vars => TypeOK'
<1> SUFFICES ASSUME TypeOK, [Next]_vars PROVE TypeOK'
  OBVIOUS
<1> USE CallAssumption DEF TypeOK
<1>1. CASE Start
  <2>1. redirect_count' \in 0..MaxRedirects /\ requests' \in Nat
    BY <1>1 DEF Start
  <2>2. da_info' \in 0..cred' /\ digest' \in 0..cred' /\ since' \in 0..cred'
    BY <1>1 DEF Start
  <2> QED
    BY <1>1, <2>1, <2>2 DEF Start
<1>2. CASE Send
  <2>1. ret' \in Results /\ realm' \in BOOLEAN
    BY <1>2 DEF Send, Results
  <2>2. requests' \in Nat
    BY <1>2 DEF Send
  <2> QED
    BY <1>2, <2>1, <2>2 DEF Send
<1>3. CASE Redirect
  <2>1. privendpt' \in Addresses
    BY <1>3 DEF Redirect, Addresses
  <2> QED
    BY <1>3, <2>1 DEF Redirect, MayRedirect
<1>4. CASE Challenge
  BY <1>4 DEF Challenge
<1>5. CASE Fallback
  <2>1. stage' \in {"port", "host", "both"}
    BY <1>5 DEF Fallback, NextStage
  <2>2. new_endpoint' \in Addresses
    BY <1>5, <2>1, CorrectedIsAddress DEF Fallback
  <2> QED
    BY <1>5, <2>1, <2>2 DEF Fallback
<1>6. CASE Finish
  <2>1. fault' \in SoapFault
    BY <1>6 DEF Finish, FaultOf, SoapFault
  <2> QED
    BY <1>6, <2>1 DEF Finish
<1>7. CASE WsseFails
  BY <1>7 DEF WsseFails
<1>8. CASE SetCredentials
  BY <1>8 DEF SetCredentials
<1>9. CASE NetworkChanges
  BY <1>9 DEF NetworkChanges
<1>10. CASE UNCHANGED vars
  BY <1>10 DEF vars
<1> QED
  BY <1>1, <1>2, <1>3, <1>4, <1>5, <1>6, <1>7, <1>8, <1>9, <1>10
  DEF Next, Continue, Crashed

(* Every request is paid for by a redirect, by a challenge or by the move  *)
(* to the next address.                                                    *)
LEMMA CountedStep == IInv /\ [Next]_vars => Counted'
<1> SUFFICES ASSUME IInv, [Next]_vars PROVE Counted'
  OBVIOUS
<1> USE CallAssumption DEF IInv, TypeOK, Counted, Busy, Allowance, StageNumber
<1>1. CASE Start
  BY <1>1 DEF Start
<1>2. CASE Send
  BY <1>2 DEF Send
<1>3. CASE Redirect
  BY <1>3 DEF Redirect, MayRedirect
<1>4. CASE Challenge
  BY <1>4 DEF Challenge, MayChallenge
<1>5. CASE Fallback
  BY <1>5 DEF Fallback, NextStage
<1>6. CASE Finish
  BY <1>6 DEF Finish
<1>7. CASE WsseFails
  BY <1>7 DEF WsseFails
<1>8. CASE SetCredentials \/ NetworkChanges \/ UNCHANGED vars
  BY <1>8 DEF SetCredentials, NetworkChanges, vars
<1> QED
  BY <1>1, <1>2, <1>3, <1>4, <1>5, <1>6, <1>7, <1>8 DEF Next, Continue, Crashed

(* An address is only left behind when it cannot be reached, and no site   *)
(* comes back while the call lasts.                                        *)
LEMMA GivenUpStep == IInv /\ [Next]_vars => (Busy => GivenUp)'
<1> SUFFICES ASSUME IInv, [Next]_vars PROVE (Busy => GivenUp)'
  OBVIOUS
<1> USE CallAssumption DEF IInv, TypeOK, Busy, GivenUp, Target
<1>1. CASE Start
  BY <1>1 DEF Start
<1>2. CASE Send
  BY <1>2 DEF Send, Reached, Redirects, Corrected
<1>3. CASE Redirect
  BY <1>3 DEF Redirect, MayRedirect
<1>4. CASE Challenge
  BY <1>4 DEF Challenge, MayChallenge, Corrected
<1>5. CASE Fallback
  <2>1. CASE stage = "first"
    BY <1>5, <2>1 DEF Fallback, NextStage, Corrected
  <2>2. CASE stage = "port"
    BY <1>5, <2>2 DEF Fallback, NextStage, Corrected
  <2>3. CASE stage = "host"
    BY <1>5, <2>3 DEF Fallback, NextStage, Corrected
  <2> QED
    BY <1>5, <2>1, <2>2, <2>3 DEF Fallback
<1>6. CASE Finish \/ WsseFails \/ NetworkChanges
  BY <1>6 DEF Finish, WsseFails, NetworkChanges
<1>7. CASE SetCredentials \/ UNCHANGED vars
  BY <1>7 DEF SetCredentials, vars, Corrected
<1> QED
  BY <1>1, <1>2, <1>3, <1>4, <1>5, <1>6, <1>7 DEF Next, Continue, Crashed

(* A digest made in a call is of credentials as new as the call. *)
LEMMA FreshStep == IInv /\ [Next]_vars => (Busy => Fresh)'
<1> SUFFICES ASSUME IInv, [Next]_vars PROVE (Busy => Fresh)'
  OBVIOUS
<1> USE CallAssumption DEF IInv, TypeOK, Busy, Fresh
<1>1. CASE Start
  BY <1>1 DEF Start
<1>2. CASE Send \/ Redirect
  BY <1>2 DEF Send, Redirect
<1>3. CASE Challenge
  BY <1>3 DEF Challenge
<1>4. CASE Fallback
  BY <1>4 DEF Fallback
<1>5. CASE Finish \/ WsseFails \/ NetworkChanges
  BY <1>5 DEF Finish, WsseFails, NetworkChanges
<1>6. CASE SetCredentials \/ UNCHANGED vars
  BY <1>6 DEF SetCredentials, vars
<1> QED
  BY <1>1, <1>2, <1>3, <1>4, <1>5, <1>6 DEF Next, Continue, Crashed

(* The invariant holds of a service that made no call yet. *)
LEMMA InitialState == Init => IInv
<1> SUFFICES ASSUME Init PROVE IInv
  OBVIOUS
<1>1. ret \in Results /\ fault \in SoapFault
  BY DEF Init, SoapFault, Results, Reached
<1>2. 0 \in 0..MaxRedirects /\ 0 \in 0..MaxCreds /\ 0 \in 0..0
  BY CallAssumption
<1>3. TypeOK
  BY <1>1, <1>2 DEF Init, TypeOK
<1>4. Counted /\ ~Busy
  BY CallAssumption DEF Init, Counted, Busy
<1> QED
  BY <1>3, <1>4 DEF IInv

(* The counts and the record of given-up addresses are kept by every step. *)
THEOREM Invariance == Spec => []IInv
<1>1. IInv /\ [Next]_vars => IInv'
  BY TypeStep, CountedStep, GivenUpStep, FreshStep DEF IInv
<1> QED
  BY InitialState, <1>1, PTL DEF Spec

(* Every variable keeps its type. *)
THEOREM TypeCorrect == Spec => []TypeOK
<1>1. IInv => TypeOK
  BY DEF IInv
<1> QED
  BY Invariance, <1>1, PTL

(* No call makes more than MaxRedirects + 8 requests (18 in the code).     *)
THEOREM RequestsAreBounded == Spec => []RequestBound
<1>1. IInv => RequestBound
  BY DEF IInv, Counted, RequestBound
<1> QED
  BY Invariance, <1>1, PTL

(* A new endpoint can be reached, where the address it replaces could not. *)
THEOREM EndpointsAreReached == Spec => EndpointReached
<1> DEFINE Reach == endpoint' # endpoint =>
                        Site(endpoint') \notin dead /\ Site(privendpt) \in dead
<1>1. ASSUME IInv, Finish PROVE Reach
  BY <1>1 DEF Finish, IInv, Busy, GivenUp, Target
<1>2. ASSUME [Next]_vars, ~Finish PROVE endpoint' = endpoint
  BY <1>2 DEF Next, Continue, Start, Send, Redirect, Challenge, Fallback,
              WsseFails, SetCredentials, NetworkChanges, Crashed, vars
<1>3. IInv /\ [Next]_vars => [Reach]_vars
  BY <1>1, <1>2
<1> QED
  BY Invariance, <1>3, PTL DEF Spec, EndpointReached

(* No connection means that none of the four addresses can be reached.     *)
THEOREM GivesUpLast == Spec => UnreachableEverywhere
<1> DEFINE Everywhere ==
        Ends /\ ret = "TCP" =>
        /\ Site(privendpt) \in dead
        /\ \A p \in {privendpt.port, Master.port}, h \in {privendpt.host, Master.host} :
            [host |-> h, port |-> p] \in dead
<1>1. ASSUME IInv, Finish PROVE Everywhere
  <2> SUFFICES ASSUME ret = "TCP" PROVE Everywhere
    BY DEF Ends
  <2>1. /\ Site(privendpt) \in dead
        /\ Site(Corrected("port")) \in dead
        /\ Site(Corrected("host")) \in dead
        /\ Site(Corrected("both")) \in dead
    BY <1>1 DEF Finish, IInv, Busy, GivenUp, Target
  <2>2. privendpt \in Addresses
    BY <1>1 DEF IInv, TypeOK
  <2>3. /\ Site(privendpt) = [host |-> privendpt.host, port |-> privendpt.port]
        /\ Site(Corrected("port")) = [host |-> privendpt.host, port |-> Master.port]
        /\ Site(Corrected("host")) = [host |-> Master.host, port |-> privendpt.port]
        /\ Site(Corrected("both")) = [host |-> Master.host, port |-> Master.port]
    BY <2>2 DEF Site, Corrected, Addresses
  <2> QED
    BY <2>1, <2>3
<1>2. ASSUME IInv, [Next]_vars, ~Finish PROVE ~Ends
  BY <1>2 DEF Next, Continue, Start, Send, Redirect, Challenge, Fallback, Ends,
              WsseFails, SetCredentials, NetworkChanges, Crashed, vars
<1>3. IInv /\ [Next]_vars => [Everywhere]_vars
  BY <1>1, <1>2
<1> QED
  BY Invariance, <1>3, PTL DEF Spec, UnreachableEverywhere

(* A challenged call that is refused was refused with fresh credentials.    *)
THEOREM RefusalsAreFresh == Spec => FreshBeforeUnauthorized
<1> DEFINE Refused == Ends /\ ret = "401" /\ realm => digest >= since
<1>1. ASSUME IInv, Finish PROVE Refused
  BY <1>1 DEF Finish, IInv, Busy, Fresh, MayChallenge
<1>2. ASSUME IInv, [Next]_vars, ~Finish PROVE ~Ends
  BY <1>2 DEF Next, Continue, Start, Send, Redirect, Challenge, Fallback, Ends,
              WsseFails, SetCredentials, NetworkChanges, Crashed, vars
<1>3. IInv /\ [Next]_vars => [Refused]_vars
  BY <1>1, <1>2
<1> QED
  BY Invariance, <1>3, PTL DEF Spec, FreshBeforeUnauthorized
================================================================================
