----------------------------- MODULE SnapshotProofs -----------------------------
(***************************************************************************)
(* Theorems about Snapshot, for any addresses and any limit of redirects.  *)
(***************************************************************************)
EXTENDS Snapshot, TLAPS

Loop == {"get", "challenge", "decide"}

(* What url points to is there, and its path is the one named last. *)
Located ==
    /\ pc = "uri" => url = "uri"
    /\ pc \in Loop =>
          /\ uri \in Addresses
          /\ url = "new" => new_endpoint \in Addresses
          /\ url = "soap" => endpoint \in Addresses /\ jumped
          /\ ~jumped => Url.path = path
    /\ pc = "decide" => endpoint \in Addresses
    /\ pc \in {"uri", "end", "done"} => new_endpoint = Null

(* Before the first redirect, either the first fallback corrected the       *)
(* address, or none had anything to correct.                                *)
Staged ==
    redirect_count = 0 =>
        /\ pc \in Loop => url \in {"uri", "new"}
        /\ pc = "uri" => retry_flag = 0
        /\ pc \in {"get", "challenge"} /\ url = "uri" => retry_flag = 0
        /\ pc \in Loop /\ url = "new" /\ ~undefined =>
              retry_flag = 1 /\ new_endpoint = Corrected(0, uri)
        /\ pc = "decide" /\ url = "uri" /\ retry_flag > 0 =>
              uri.host = CameraHost /\ uri.port = CameraPort

(* Two requests are paid for by the reply, each redirect and each fallback. *)
Paid ==
    LET paid == 2 * (redirect_count + retry_flag)
    IN  /\ pc = "uri" => asked = 0
        /\ pc = "get" => asked <= paid
        /\ pc = "challenge" => asked <= paid + 1
        /\ asked <= paid + 2

(* A text of the loop is pointed to only after a request and a rewrite, and  *)
(* freed where the loop decides what comes next.                            *)
Rewritten ==
    /\ pc \in {"challenge", "decide"} => asked >= 1
    /\ url = "new" => moves >= 1 /\ asked >= 1
    /\ pc \in {"challenge", "decide"} /\ url = "new" => asked >= 2
    /\ undefined => pc = "decide"

(* Only the answer to a challenge is taken although it broke. *)
Honest == snap = "broken" \/ pc = "challenge" => challenged

IInv ==
    TypeOK /\ Located /\ Staged /\ Paid /\ Rewritten /\ Honest
    /\ UseAfterFreeNeedsRewrite /\ ResultHonest

(* A fallback makes an address of an address, and keeps its path. *)
LEMMA CorrectedAddress ==
    ASSUME NEW a \in Addresses, NEW stage \in 0..2
    PROVE  Corrected(stage, a) \in Addresses /\ Corrected(stage, a).path = a.path
<1>1. CASE stage = 0
  BY <1>1, SnapshotAssumption DEF Addresses, Corrected
<1>2. CASE stage = 1
  BY <1>2, SnapshotAssumption DEF Addresses, Corrected
<1>3. CASE stage = 2
  BY <1>3, SnapshotAssumption DEF Addresses, Corrected
<1> QED
  BY <1>1, <1>2, <1>3

(* Moved takes the host and port of a location. *)
LEMMA MovedAddress ==
    ASSUME NEW a \in Addresses, NEW location \in Addresses
    PROVE  Moved(a, location) \in Addresses /\ Moved(a, location).path = a.path
BY DEF Addresses, Moved

(* An address that a fallback leaves as it is was the camera's, and the     *)
(* later ones leave it as it is, too.                                       *)
LEMMA CorrectedAlready ==
    ASSUME NEW a \in Addresses
    PROVE  /\ Corrected(0, a) = a => a.host = CameraHost /\ a.port = CameraPort
           /\ a.host = CameraHost /\ a.port = CameraPort =>
                 \A stage \in 0..2 : Corrected(stage, a) = a
<1>1. Corrected(0, a).host = CameraHost /\ Corrected(0, a).port = CameraPort
  <2>1. Corrected(0, a) = [a EXCEPT !.host = CameraHost, !.port = CameraPort]
    BY DEF Corrected
  <2>2. "host" \in DOMAIN a /\ "port" \in DOMAIN a
    BY DEF Addresses
  <2> QED
    BY <2>1, <2>2
<1>2. ASSUME NEW stage \in 0..2, a.host = CameraHost, a.port = CameraPort
      PROVE  Corrected(stage, a) = a
  <2>1. Corrected(stage, a) \in Addresses
    BY CorrectedAddress
  <2>2. /\ Corrected(stage, a).host = a.host /\ Corrected(stage, a).port = a.port
        /\ Corrected(stage, a).path = a.path
    <3>1. CASE stage = 0
      BY <1>2, <3>1 DEF Addresses, Corrected
    <3>2. CASE stage = 1
      BY <1>2, <3>2 DEF Addresses, Corrected
    <3>3. CASE stage = 2
      BY <1>2, <3>3 DEF Addresses, Corrected
    <3> QED
      BY <3>1, <3>2, <3>3
  <2> QED
    BY <2>1, <2>2 DEF Addresses
<1> QED
  BY <1>1, <1>2

(* In the loop, url points to an address. *)
LEMMA UrlAddress == TypeOK /\ Located /\ pc \in Loop => Url \in Addresses
BY DEF TypeOK, Located, Url

(* The start of a download. *)
LEMMA Initially == Init => IInv
<1> SUFFICES ASSUME Init PROVE IInv
  OBVIOUS
<1>1. TypeOK
  <2>1. 0 \in 0..RedirectLimit
    BY SnapshotAssumption
  <2>2. "UNEXPECTED" \in SoapFault /\ "OK" \in Errors
    BY DEF SoapFault, Errors
  <2>3. redirect_count \in 0..RedirectLimit /\ retry_flag \in 0..3
    BY <2>1 DEF Init
  <2>4. challenged \in BOOLEAN /\ jumped \in BOOLEAN /\ undefined \in BOOLEAN
        /\ body \in BOOLEAN
    BY DEF Init
  <2>5. asked \in Nat /\ moves \in Nat
    BY DEF Init
  <2>6. fault \in SoapFault /\ error \in Errors
    BY <2>2 DEF Init
  <2>7. /\ pc = "uri" /\ url = "uri" /\ uri = Null /\ new_endpoint = Null
        /\ endpoint = Null /\ snap = Null /\ result = Null /\ path = Null
    BY DEF Init
  <2> QED
    BY <2>3, <2>4, <2>5, <2>6, <2>7 DEF TypeOK
<1>2. Located /\ Staged
  BY DEF Init, Located, Staged, Loop
<1>3. Paid /\ Rewritten
  BY DEF Init, Paid, Rewritten
<1>4. snap # "broken"
  BY SnapshotAssumption DEF Init
<1>5. Honest /\ UseAfterFreeNeedsRewrite /\ ResultHonest
  BY <1>4 DEF Init, Honest, UseAfterFreeNeedsRewrite, ResultHonest
<1> QED
  BY <1>1, <1>2, <1>3, <1>5 DEF IInv

(* The reply of GetSnapshotUri. *)
LEMMA UriStep == IInv /\ GetSnapshotUri => IInv'
<1> SUFFICES ASSUME IInv, GetSnapshotUri PROVE IInv'
  OBVIOUS
<1> USE DEF GetSnapshotUri, counts, address, transfer
<1>0. TypeOK /\ pc = "uri"
  BY DEF IInv
<1>1. TypeOK'
  <2>1. CASE uri' # Null
    <3>1. path' \in Paths
      BY <2>1 DEF Addresses
    <3> QED
      BY <1>0, <2>1, <3>1 DEF TypeOK
  <2>2. CASE uri' = Null
    BY <1>0, <2>2 DEF TypeOK
  <2> QED
    BY <2>1, <2>2
<1>2. Located'
  BY <1>0 DEF IInv, Located, Loop, Url
<1>3. Staged' /\ Rewritten'
  BY <1>0 DEF IInv, Located, Staged, Rewritten, Loop
<1>4. Paid'
  BY <1>0 DEF IInv, Paid, TypeOK
<1>5. Honest'
  BY <1>0 DEF IInv, Honest
<1>6. UseAfterFreeNeedsRewrite' /\ ResultHonest'
  BY <1>0 DEF IInv, UseAfterFreeNeedsRewrite, ResultHonest, Paid
<1> QED
  BY <1>1, <1>2, <1>3, <1>4, <1>5, <1>6 DEF IInv

(* What a request does, whoever sends it. *)
LEMMA Sent ==
    ASSUME TypeOK, Located, pc \in {"get", "challenge"}, SendHttpGet
    PROVE  /\ asked' = asked + 1 /\ error' \in Errors /\ endpoint' \in Addresses
           /\ body' \in BOOLEAN
           /\ url = "soap" => endpoint' \in Addresses
<1>1. Url \in Addresses
  BY UrlAddress DEF Loop
<1>2. body' \in BOOLEAN
  BY DEF SendHttpGet, TypeOK
<1> QED
  BY <1>1, <1>2 DEF SendHttpGet

(* The two requests. *)
LEMMA GetStep == IInv /\ (Get \/ GetWithCredentials) => IInv'
<1> SUFFICES ASSUME IInv, Get \/ GetWithCredentials PROVE IInv'
  OBVIOUS
<1> USE DEF course, counts, address, reply
<1>1. /\ TypeOK /\ Located /\ Staged /\ Paid /\ Rewritten /\ Honest
      /\ UseAfterFreeNeedsRewrite
  BY DEF IInv
<1>2. pc \in {"get", "challenge"} /\ pc' \in {"challenge", "decide"}
  BY DEF Get, GetWithCredentials
<1>3. /\ asked' = asked + 1 /\ error' \in Errors /\ endpoint' \in Addresses
      /\ body' \in BOOLEAN
  BY <1>1, <1>2, Sent DEF Get, GetWithCredentials
<1>4. /\ snap' \in Received \cup {Null}
      /\ challenged' \in BOOLEAN
      /\ snap' = "broken" \/ pc' = "challenge" => challenged'
  BY <1>1, SnapshotAssumption
     DEF Get, GetWithCredentials, TypeOK, Received, Honest
<1>5. UNCHANGED <<course, counts, address, reply, result, undefined>>
  BY DEF Get, GetWithCredentials
<1>6. TypeOK'
  <2>1. asked' \in Nat
    BY <1>1, <1>3 DEF TypeOK
  <2> QED
    BY <1>1, <1>2, <1>3, <1>4, <1>5, <2>1 DEF TypeOK
<1>7. Located'
  <2>1. url # "soap" => Url' = Url
    BY <1>1, <1>5 DEF TypeOK, Url
  <2> QED
    BY <1>1, <1>2, <1>3, <1>5, <2>1 DEF Located, Loop
<1>8. Staged'
  BY <1>1, <1>2, <1>5 DEF Staged, Loop
<1>9. Paid'
  BY <1>1, <1>3, <1>5 DEF Get, GetWithCredentials, Paid, TypeOK
<1>10. Rewritten' /\ UseAfterFreeNeedsRewrite'
  BY <1>1, <1>2, <1>3, <1>5
     DEF Get, GetWithCredentials, Rewritten, UseAfterFreeNeedsRewrite, TypeOK
<1>11. Honest' /\ ResultHonest'
  BY <1>2, <1>4 DEF Honest, ResultHonest
<1> QED
  BY <1>6, <1>7, <1>8, <1>9, <1>10, <1>11 DEF IInv

(* A redirect. *)
LEMMA RedirectStep == IInv /\ ~undefined /\ Redirect => IInv'
<1> SUFFICES ASSUME IInv, ~undefined, Redirect PROVE IInv'
  OBVIOUS
<1> USE DEF Redirect, Redirected, transfer, reply, course, address
<1>1. /\ TypeOK /\ Located /\ Staged /\ Paid /\ Rewritten /\ Honest
  BY DEF IInv
<1>2. /\ pc = "decide" /\ endpoint \in Addresses /\ Url \in Addresses
      /\ redirect_count' = redirect_count + 1 /\ redirect_count' # 0
      /\ redirect_count' \in 0..RedirectLimit
  BY <1>1, UrlAddress, SnapshotAssumption DEF Located, Loop, TypeOK
<1>3. Staged'
  BY <1>2 DEF Staged
<1>4. Honest' /\ ResultHonest'
  BY <1>1, <1>2 DEF Honest, ResultHonest
<1>5. Paid'
  BY <1>1, <1>2 DEF Paid, TypeOK
<1>6. CASE error = "302" /\ Dangles
  <2>1. undefined' = TRUE /\ UNCHANGED <<course, address, pc>>
    BY <1>6
  <2>2. TypeOK'
    BY <1>1, <1>2, <2>1 DEF TypeOK
  <2>3. Located' /\ Rewritten' /\ UseAfterFreeNeedsRewrite'
    BY <1>1, <1>2, <1>6, <2>1
       DEF Located, Rewritten, UseAfterFreeNeedsRewrite, Loop, Url, Dangles
  <2> QED
    BY <1>3, <1>4, <1>5, <2>2, <2>3 DEF IInv
<1>7. CASE error = "302" /\ ~Dangles
  <2>1. /\ new_endpoint' = Moved(Url, endpoint) /\ url' = "new"
        /\ moves' = moves + 1 /\ pc' = "get" /\ UNCHANGED <<course, undefined>>
    BY <1>7
  <2>2. new_endpoint' \in Addresses /\ new_endpoint'.path = Url.path
    BY <1>2, <2>1, MovedAddress
  <2>3. TypeOK'
    BY <1>1, <1>2, <2>1, <2>2 DEF TypeOK
  <2>4. Located'
    BY <1>1, <1>2, <2>1, <2>2 DEF Located, Loop, Url
  <2>5. Rewritten' /\ UseAfterFreeNeedsRewrite'
    BY <1>1, <1>2, <2>1 DEF Rewritten, UseAfterFreeNeedsRewrite, TypeOK
  <2> QED
    BY <1>3, <1>4, <1>5, <2>3, <2>4, <2>5 DEF IInv
<1>8. CASE error # "302"
  <2>1. /\ new_endpoint' = Null /\ url' = "soap" /\ jumped' = TRUE
        /\ path' = endpoint.path /\ pc' = "get" /\ UNCHANGED <<moves, undefined>>
    BY <1>8
  <2>2. path' \in Paths
    BY <1>2, <2>1 DEF Addresses
  <2>3. TypeOK'
    BY <1>1, <1>2, <2>1, <2>2 DEF TypeOK
  <2>4. Located' /\ Rewritten' /\ UseAfterFreeNeedsRewrite'
    BY <1>1, <1>2, <2>1
       DEF Located, Rewritten, UseAfterFreeNeedsRewrite, Loop
  <2> QED
    BY <1>3, <1>4, <1>5, <2>3, <2>4 DEF IInv
<1> QED
  BY <1>6, <1>7, <1>8

(* A fallback. *)
LEMMA FallbackStep == IInv /\ ~undefined /\ Fallback => IInv'
<1> SUFFICES ASSUME IInv, ~undefined, Fallback PROVE IInv'
  OBVIOUS
<1> USE DEF Fallback, transfer, reply, course, address
<1>1. /\ TypeOK /\ Located /\ Staged /\ Paid /\ Rewritten /\ Honest
  BY DEF IInv
<1>2. /\ pc = "decide" /\ endpoint \in Addresses /\ Url \in Addresses
      /\ retry_flag' = retry_flag + 1 /\ retry_flag' \in 0..3
      /\ retry_flag \in 0..2
  BY <1>1, UrlAddress DEF Located, Loop, TypeOK
<1>3. Honest' /\ ResultHonest'
  BY <1>1, <1>2 DEF Honest, ResultHonest
<1>4. Paid'
  BY <1>1, <1>2 DEF Paid, TypeOK
<1>5. CASE Dangles
  <2>1. undefined' = TRUE /\ UNCHANGED <<address, pc>>
    BY <1>5
  <2>2. TypeOK'
    BY <1>1, <1>2, <2>1 DEF TypeOK
  <2>3. Located' /\ Rewritten' /\ UseAfterFreeNeedsRewrite'
    BY <1>1, <1>2, <1>5, <2>1
       DEF Located, Rewritten, UseAfterFreeNeedsRewrite, Loop, Url, Dangles
  <2>4. Staged'
    BY <1>1, <1>2, <1>5, <2>1 DEF Staged, Loop, Dangles
  <2> QED
    BY <1>3, <1>4, <2>2, <2>3, <2>4 DEF IInv
<1>6. CASE ~Dangles
  <2>1. /\ new_endpoint' = Corrected(retry_flag, Url)
        /\ UNCHANGED <<undefined, endpoint, uri, path, jumped, redirect_count>>
    BY <1>6
  <2>2. new_endpoint' \in Addresses /\ new_endpoint'.path = Url.path
    BY <1>2, <2>1, CorrectedAddress
  <2>3. redirect_count = 0 =>
            /\ url = "uri" /\ Url = uri
            /\ retry_flag > 0 => Corrected(retry_flag, Url) = Url
    BY <1>1, <1>2, <1>6, CorrectedAlready DEF Staged, Dangles, Loop, Url
  <2>4. CASE new_endpoint' # Url
    <3>1. pc' = "get" /\ url' = "new" /\ moves' = moves + 1
      BY <1>6, <2>4
    <3>2. TypeOK'
      BY <1>1, <1>2, <2>1, <2>2, <3>1 DEF TypeOK
    <3>3. Located'
      <4>1. Url' = new_endpoint'
        BY <3>1 DEF Url
      <4> QED
        BY <1>1, <1>2, <2>1, <2>2, <3>1, <4>1 DEF Located, Loop
    <3>4. Rewritten' /\ UseAfterFreeNeedsRewrite'
      BY <1>1, <1>2, <3>1 DEF Rewritten, UseAfterFreeNeedsRewrite, TypeOK
    <3>5. redirect_count = 0 => retry_flag = 0
      BY <1>2, <2>1, <2>3, <2>4
    <3>6. Staged'
      BY <1>2, <2>1, <2>3, <3>1, <3>5 DEF Staged, Loop, Corrected
    <3> QED
      BY <1>3, <1>4, <3>2, <3>3, <3>4, <3>6 DEF IInv
  <2>5. CASE new_endpoint' = Url
    <3>1. UNCHANGED <<pc, url, moves>>
      BY <1>6, <2>5
    <3>2. TypeOK'
      BY <1>1, <1>2, <2>1, <2>2, <3>1 DEF TypeOK
    <3>3. Located'
      <4>1. url \in {"uri", "soap"} /\ Url' = Url
        BY <1>1, <1>6, <2>1, <3>1 DEF TypeOK, Url, Dangles
      <4> QED
        BY <1>1, <1>2, <2>1, <3>1, <4>1 DEF Located, Loop
    <3>4. Rewritten' /\ UseAfterFreeNeedsRewrite'
      BY <1>1, <1>2, <1>6, <3>1 DEF Rewritten, UseAfterFreeNeedsRewrite, Dangles
    <3>5. redirect_count = 0 => uri.host = CameraHost /\ uri.port = CameraPort
      <4>1. CASE redirect_count = 0 /\ retry_flag = 0
        BY <1>2, <2>1, <2>3, <2>5, <4>1, CorrectedAlready
      <4>2. CASE redirect_count = 0 /\ retry_flag > 0
        BY <1>1, <1>2, <2>3, <4>2 DEF Staged
      <4> QED
        BY <1>2, <4>1, <4>2
    <3>6. Staged'
      BY <1>1, <1>2, <1>6, <2>1, <2>3, <3>1, <3>5 DEF Staged, Loop, Dangles
    <3> QED
      BY <1>3, <1>4, <3>2, <3>3, <3>4, <3>6 DEF IInv
  <2> QED
    BY <2>4, <2>5
<1> QED
  BY <1>5, <1>6

(* The end of the loop, and of the download. *)
LEMMA EndStep == IInv /\ ~undefined /\ (FreeLast \/ Return) => IInv'
<1> SUFFICES ASSUME IInv, ~undefined, FreeLast \/ Return PROVE IInv'
  OBVIOUS
<1> USE DEF course, counts, transfer, reply, address
<1>1. /\ TypeOK /\ Located /\ Staged /\ Paid /\ Rewritten /\ Honest
      /\ UseAfterFreeNeedsRewrite
  BY DEF IInv
<1>2. CASE FreeLast
  <2>1. TypeOK'
    BY <1>1, <1>2 DEF FreeLast, TypeOK
  <2> QED
    BY <1>1, <1>2, <2>1
       DEF FreeLast, IInv, Located, Staged, Paid, Rewritten, Honest, Loop,
           UseAfterFreeNeedsRewrite, ResultHonest
<1>3. CASE Return
  <2>1. result' \in [fault: SoapFault, snap: Received \cup {Null}]
    BY <1>1, <1>3 DEF Return, TypeOK, SoapFault
  <2>2. TypeOK'
    BY <1>1, <1>3, <2>1 DEF Return, TypeOK
  <2>3. ResultHonest'
    BY <1>1, <1>3 DEF Return, ResultHonest, TypeOK, Received, Honest
  <2> QED
    BY <1>1, <1>3, <2>2, <2>3
       DEF Return, IInv, Located, Staged, Paid, Rewritten, Honest, Loop,
           UseAfterFreeNeedsRewrite
<1> QED
  BY <1>2, <1>3

(* The inductive invariant. *)
THEOREM Inductive == Spec => []IInv
<1>1. IInv /\ [Next]_vars => IInv'
  <2>1. IInv /\ Next => IInv'
    BY UriStep, GetStep, RedirectStep, FallbackStep, EndStep DEF Next, Step
  <2>2. ASSUME IInv, UNCHANGED vars PROVE IInv'
    BY <2>2
       DEF vars, reply, transfer, address, counts, course, IInv, TypeOK, Located,
           Staged, Paid, Rewritten, Honest, UseAfterFreeNeedsRewrite,
           ResultHonest, Url
  <2> QED
    BY <2>1, <2>2
<1> QED
  BY <1>1, Initially, PTL DEF Spec

(* Every order of redirects and fallbacks comes to an end: a download makes *)
(* at most 2 * (RedirectLimit + 4) requests, 28 with the code's limit.      *)
THEOREM RequestsAreBounded == Spec => []RequestsBounded
<1>1. IInv => RequestsBounded
  BY SnapshotAssumption DEF IInv, Paid, TypeOK, RequestsBounded
<1> QED
  BY <1>1, Inductive, PTL

(* getSnapshot's fault and picture agree, but for a challenged transfer. *)
THEOREM ResultsAreHonest == Spec => []ResultHonest
<1>1. IInv => ResultHonest
  BY DEF IInv
<1> QED
  BY <1>1, Inductive, PTL

(* url never points to a freed text before the second rewrite, and no text  *)
(* is left.                                                                 *)
THEOREM TextsAreOwned == Spec => []TextsOwned
<1>1. IInv => TextsOwned
  BY SnapshotAssumption
     DEF IInv, TextsOwned, NothingLeaks, Located, Loop, Addresses
<1> QED
  BY <1>1, Inductive, PTL

(* The path stays that of the reply or of the last redirect that named one, *)
(* and only the first fallback corrects.                                    *)
THEOREM AddressIsKept == Spec => []AddressKept
<1>1. IInv => AddressKept
  <2> SUFFICES ASSUME IInv PROVE PathKept /\ OneCorrection
    BY DEF AddressKept
  <2>1. PathKept
    BY DEF IInv, Located, Loop, PathKept
  <2>2. OneCorrection
    <3> SUFFICES ASSUME pc \in {"get", "challenge"}, redirect_count = 0
                 PROVE  retry_flag <= 1 /\ (retry_flag = 1 => Url = Corrected(0, uri))
      BY DEF OneCorrection
    <3>1. ~undefined /\ url \in {"uri", "new"}
      BY DEF IInv, Rewritten, Staged, Loop
    <3> QED
      BY <3>1 DEF IInv, Staged, Loop, Url
  <2> QED
    BY <2>1, <2>2
<1> QED
  BY <1>1, Inductive, PTL
================================================================================
