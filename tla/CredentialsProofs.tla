--------------------------- MODULE CredentialsProofs ---------------------------
(***************************************************************************)
(* Theorems about Credentials, for any sets of writers, services,          *)
(* downloads and strings.                                                  *)
(***************************************************************************)
EXTENDS Credentials, TLAPS

Threads == Writers \cup Callers

(* Who holds which mutex: a thread is in the middle of a field exactly      *)
(* while it holds prop_lock.                                                *)
Locking ==
    /\ \A t \in Threads : step[t] \in {1, 3} <=> prop_lock = t
    /\ \A t \in Threads : pc[t] \in {"idle", "send", "resend"} => step[t] = 0
    /\ \A w \in Writers : pc[w] \in {"idle", "set"}
    /\ \A c \in Callers : pc[c] # "set"

(* A field is only indeterminate while a writer has the mutex, and then it  *)
(* is the one being set.                                                    *)
Whole ==
    \A f \in Fields :
        field[f] = Junk <=> prop_lock \in Writers /\ At(prop_lock) = f

Shape == TypeOK /\ Locking /\ Whole

(* Every call knows the current value of each field among those it has      *)
(* seen, and what it has read, sent or saved since it began are such.       *)
Seen ==
    \A c \in Callers, f \in Fields :
        /\ pc[c] # "idle" => Current(f) \in seen[c][f]
        /\ copy[c][f] # NoCopy => pc[c] \in Reading /\ copy[c][f] \in seen[c][f]

(* While nobody has set the credentials since they were the account, all    *)
(* that a call reads is the account.                                        *)
SteadyCall(c) ==
    /\ steady[c] = TRUE => \A f \in Fields : field[f] = Account
    /\ steady[c] = TRUE /\ pc[c] # "idle" =>
           \A f \in Fields : seen[c][f] = {Account}
    /\ steady[c] = TRUE /\ asks[c] = "token" /\ pc[c] \in {"send", "resend"} =>
           \A f \in Fields : token[c][f] = Account
    /\ steady[c] = TRUE => outcome[c] # "refused"
    /\ asks[c] = "token" => c \in Services

Steady == \A c \in Callers : SteadyCall(c)

IInv == Shape /\ Seen /\ TokenOfTheCall /\ Steady

LEMMA AtField == \A t : At(t) \in Fields
BY DEF At, Fields

(* What a caller copies is a value, since it has the mutex.                 *)
LEMMA CopiesValue ==
    ASSUME Shape, NEW c \in Callers, step[c] \in {1, 3}
    PROVE  field[At(c)] \in Values /\ field[At(c)] = Current(At(c))
<1>1. prop_lock = c /\ c \notin Writers
  BY CredentialsAssumption DEF Shape, Locking, Threads, Callers
<1>2. field[At(c)] # Junk
  BY <1>1, AtField DEF Shape, Whole
<1>3. field[At(c)] \in Values \cup {Junk}
  BY AtField DEF Shape, TypeOK
<1> QED
  BY <1>2, <1>3 DEF Current

(* With the mutex free no field is indeterminate.                           *)
LEMMA FreeIsWhole ==
    ASSUME Shape, prop_lock = NoThread
    PROVE  \A f \in Fields : field[f] \in Values /\ Current(f) = field[f]
<1>1. \A f \in Fields : field[f] # Junk
  BY CredentialsAssumption DEF Shape, Whole
<1> QED
  BY <1>1 DEF Shape, TypeOK, Current

(* Every step keeps every variable's type.                                  *)
LEMMA TypeStep == Shape /\ [Next]_vars => TypeOK'
<1> SUFFICES ASSUME Shape, [Next]_vars PROVE TypeOK'
  OBVIOUS
<1>0. TypeOK
  BY DEF Shape
<1> USE CredentialsAssumption, AtField, <1>0 DEF TypeOK, locks, request
<1>1. ASSUME NEW w \in Writers, SetCredentials(w) PROVE TypeOK'
  <2>1. pc' \in [Threads -> Doing] /\ step' \in [Threads -> 0..3]
    BY <1>1 DEF SetCredentials, Doing, Threads
  <2>2. want' \in [Writers -> Pairs] /\ sets' \in 0..MaxSets
    BY <1>1 DEF SetCredentials
  <2> QED
    BY <1>1, <2>1, <2>2 DEF SetCredentials, Threads
<1>2. ASSUME NEW w \in Writers, Realloc(w) PROVE TypeOK'
  <2>1. step' \in [Threads -> 0..3]
    BY <1>2 DEF Realloc, Threads
  <2>2. old' \in Values
    BY <1>2, FreeIsWhole DEF Realloc
  <2>3. field' \in [Fields -> Values \cup {Junk}]
    BY <1>2 DEF Realloc
  <2> QED
    BY <1>2, <2>1, <2>2, <2>3 DEF Realloc, Threads
<1>3. ASSUME NEW w \in Writers, Assign(w) PROVE TypeOK'
  <2>1. step' \in [Threads -> 0..3] /\ pc' \in [Threads -> Doing]
    <3>1. step \in [Threads -> 0..3] /\ pc \in [Threads -> Doing] /\ w \in Threads
      BY DEF Threads
    <3>2. CASE step[w] = 1
      <4>1. step' = [step EXCEPT ![w] = 2] /\ pc' = pc
        BY <1>3, <3>2 DEF Assign
      <4> QED
        BY <3>1, <4>1
    <3>3. CASE step[w] # 1
      <4>1. step' = [step EXCEPT ![w] = 0] /\ pc' = [pc EXCEPT ![w] = "idle"]
        BY <1>3, <3>3 DEF Assign
      <4>2. "idle" \in Doing
        BY DEF Doing
      <4> QED
        BY <3>1, <4>1, <4>2
    <3> QED
      BY <3>2, <3>3
  <2>2. want[w][At(w)] \in Values
    BY DEF Pairs
  <2>3. field' \in [Fields -> Values \cup {Junk}]
    BY <1>3, <2>2 DEF Assign
  <2>4. ASSUME NEW c \in Callers
        PROVE  [seen[c] EXCEPT ![At(w)] = @ \cup {want[w][At(w)]}]
                   \in [Fields -> SUBSET Values]
    BY <2>2
  <2>5. seen' \in [Callers -> [Fields -> SUBSET Values]]
    BY <1>3, <2>4 DEF Assign
  <2>6. device_lock' \in Writers \cup {NoThread} /\ old' \in Values
    BY <1>3 DEF Assign, Values
  <2> QED
    BY <1>3, <2>1, <2>3, <2>5, <2>6 DEF Assign, Threads
<1>4. ASSUME NEW c \in Callers, Begin(c) PROVE TypeOK'
  <2>1. pc' \in [Threads -> Doing]
    BY <1>4 DEF Begin, Threads, Doing
  <2>2. NoPair \in Pairs
    BY DEF NoPair, Pairs, Values
  <2>3. digest' \in [Callers -> Pairs] /\ token' \in [Callers -> Pairs]
    BY <1>4, <2>2 DEF Begin, NewHeader
  <2>4. \A f \in Fields : Current(f) \in Values
    BY DEF Current
  <2>5. seen' \in [Callers -> [Fields -> SUBSET Values]]
    BY <1>4, <2>4 DEF Begin
  <2>6. steady' \in [Callers -> BOOLEAN]
    BY <1>4 DEF Begin
  <2>7. outcome' \in [Callers -> {"none", "accepted", "refused"}]
    BY <1>4 DEF Begin
  <2> QED
    BY <1>4, <2>1, <2>3, <2>5, <2>6, <2>7 DEF Begin, Threads
<1>5. ASSUME NEW c \in Callers, Measure(c) PROVE TypeOK'
  <2>1. step' \in [Threads -> 0..3]
    BY <1>5 DEF Measure, Threads
  <2> QED
    BY <1>5, <2>1 DEF Measure, Threads
<1>6. ASSUME NEW c \in Callers, Copy(c) PROVE TypeOK'
  <2>1. step' \in [Threads -> 0..3]
    BY <1>6 DEF Copy, Threads
  <2>2. field[At(c)] \in Values
    BY <1>6, CopiesValue DEF Copy
  <2>3. [copy[c] EXCEPT ![At(c)] = field[At(c)]] \in [Fields -> Values \cup {NoCopy}]
    BY <2>2
  <2>4. copy' \in [Callers -> [Fields -> Values \cup {NoCopy}]]
    BY <1>6, <2>3 DEF Copy
  <2> QED
    BY <1>6, <2>1, <2>4 DEF Copy, Threads
<1>7. ASSUME NEW c \in Callers, HasBoth(c), FreeCopies(c)
      PROVE  /\ copy[c] \in Pairs
             /\ copy' \in [Callers -> [Fields -> Values \cup {NoCopy}]]
  BY <1>7 DEF HasBoth, FreeCopies, Pairs
<1>8. ASSUME NEW c \in Callers, AddToken(c) PROVE TypeOK'
  <2>1. NoPair \in Pairs
    BY DEF NoPair, Pairs, Values
  <2>2. copy[c] \in Pairs /\ copy' \in [Callers -> [Fields -> Values \cup {NoCopy}]]
    BY <1>7, <1>8 DEF AddToken
  <2>3. token' \in [Callers -> Pairs]
    BY <1>8, <2>1, <2>2 DEF AddToken, NewHeader
  <2>4. pc' \in [Threads -> Doing]
    BY <1>8 DEF AddToken, Threads, Doing
  <2> QED
    BY <1>8, <2>2, <2>3, <2>4 DEF AddToken, Threads
<1>9. ASSUME NEW c \in Callers, SaveDigest(c) PROVE TypeOK'
  <2>1. copy[c] \in Pairs /\ copy' \in [Callers -> [Fields -> Values \cup {NoCopy}]]
    BY <1>7, <1>9 DEF SaveDigest
  <2>2. digest' \in [Callers -> Pairs] /\ da_info' \in [Callers -> Pairs]
    BY <1>9, <2>1 DEF SaveDigest, Saved
  <2>3. pc' \in [Threads -> Doing]
    BY <1>9 DEF SaveDigest, Threads, Doing
  <2> QED
    BY <1>9, <2>1, <2>2, <2>3 DEF SaveDigest, Threads
<1>10. ASSUME NEW c \in Callers, Answer(c) PROVE TypeOK'
  <2> DEFINE challenged == ~Right(c) /\ asks[c] = "digest" /\ pc[c] = "send"
  <2>1. CASE challenged
    <3>1. pc' = [pc EXCEPT ![c] = "challenge"] /\ UNCHANGED <<outcome, digest, seen>>
      BY <1>10, <2>1 DEF Answer
    <3>2. pc' \in [Threads -> Doing]
      BY <3>1 DEF Threads, Doing
    <3> QED
      BY <1>10, <3>1, <3>2 DEF Answer, Threads
  <2>2. CASE ~challenged
    <3>1. /\ pc' = [pc EXCEPT ![c] = "idle"]
          /\ digest' = [digest EXCEPT ![c] = NoPair]
          /\ seen' = [seen EXCEPT ![c] = [f \in Fields |-> {}]]
      BY <1>10, <2>2 DEF Answer
    <3>2. outcome' = [outcome EXCEPT ![c] = IF Right(c) THEN "accepted" ELSE "refused"]
      BY <1>10, <2>2 DEF Answer
    <3>3. pc' \in [Threads -> Doing]
      BY <3>1 DEF Threads, Doing
    <3>4. NoPair \in Pairs
      BY DEF NoPair, Pairs, Values
    <3>5. digest' \in [Callers -> Pairs]
      BY <3>1, <3>4
    <3>6. seen' \in [Callers -> [Fields -> SUBSET Values]]
      BY <3>1
    <3>7. outcome' \in [Callers -> {"none", "accepted", "refused"}]
      BY <3>2
    <3> QED
      BY <1>10, <3>3, <3>5, <3>6, <3>7 DEF Answer, Threads
  <2> QED
    BY <2>1, <2>2
<1>11. CASE UNCHANGED vars
  BY <1>11 DEF vars
<1> QED
  BY <1>1, <1>2, <1>3, <1>4, <1>5, <1>6, <1>8, <1>9, <1>10, <1>11 DEF Next

(* Nobody enters a field that another thread is in the middle of.           *)
LEMMA ShapeStep == Shape /\ [Next]_vars => Locking' /\ Whole'
<1> SUFFICES ASSUME Shape, [Next]_vars PROVE Locking' /\ Whole'
  OBVIOUS
<1> USE CredentialsAssumption, AtField
    DEF Shape, TypeOK, Locking, Whole, Threads, Callers, locks, request, Reading
<1>1. ASSUME NEW w \in Writers, SetCredentials(w) PROVE Locking' /\ Whole'
  BY <1>1 DEF SetCredentials, At
<1>2. ASSUME NEW w \in Writers, Realloc(w) PROVE Locking' /\ Whole'
  <2>1. At(w)' = At(w)
    BY <1>2 DEF Realloc, At
  <2>2. Locking'
    BY <1>2 DEF Realloc
  <2>3. Whole'
    BY <1>2, <2>1 DEF Realloc
  <2> QED
    BY <2>2, <2>3
<1>3. ASSUME NEW w \in Writers, Assign(w) PROVE Locking' /\ Whole'
  <2>1. want[w][At(w)] # Junk
    BY DEF Pairs
  <2>2. prop_lock = w
    BY <1>3 DEF Assign
  <2>3. Locking'
    BY <1>3, <2>2 DEF Assign
  <2>4. Whole'
    BY <1>3, <2>1, <2>2 DEF Assign
  <2> QED
    BY <2>3, <2>4
<1>4. ASSUME NEW c \in Callers, Begin(c) PROVE Locking' /\ Whole'
  BY <1>4 DEF Begin, At
<1>5. ASSUME NEW c \in Callers, Measure(c) PROVE Locking' /\ Whole'
  BY <1>5 DEF Measure, At
<1>6. ASSUME NEW c \in Callers, Copy(c) PROVE Locking' /\ Whole'
  <2>1. prop_lock = c /\ c \notin Writers
    BY <1>6 DEF Copy
  <2>2. step'[c] \in {0, 2}
    BY <1>6 DEF Copy
  <2> QED
    BY <1>6, <2>1, <2>2 DEF Copy
<1>7. ASSUME NEW c \in Callers, AddToken(c) \/ SaveDigest(c) \/ Answer(c)
      PROVE  Locking' /\ Whole'
  BY <1>7 DEF AddToken, SaveDigest, Answer, HasBoth, At
<1>8. CASE UNCHANGED vars
  BY <1>8 DEF vars, At
<1> QED
  BY <1>1, <1>2, <1>3, <1>4, <1>5, <1>6, <1>7, <1>8 DEF Next

(* What a step does to the values of the fields: only the strcpy of a setter *)
(* changes one.                                                              *)
LEMMA CurrentStep ==
    ASSUME Shape, [Next]_vars, NEW f \in Fields
    PROVE  \/ Current(f)' = Current(f)
           \/ \E w \in Writers : Assign(w) /\ f = At(w) /\ Current(f)' = want[w][f]
<1> USE CredentialsAssumption, AtField DEF locks, request
<1>1. ASSUME NEW w \in Writers, Realloc(w) PROVE Current(f)' = Current(f)
  <2>1. Current(f) = field[f] /\ field[f] # Junk
    BY <1>1, FreeIsWhole DEF Realloc, Values
  <2>2. CASE f = At(w)
    BY <1>1, <2>1, <2>2 DEF Realloc, Current, Shape, TypeOK
  <2>3. CASE f # At(w)
    BY <1>1, <2>1, <2>3 DEF Realloc, Current, Shape, TypeOK
  <2> QED
    BY <2>2, <2>3
<1>2. ASSUME NEW w \in Writers, Assign(w)
      PROVE  IF f = At(w) THEN Current(f)' = want[w][f] ELSE Current(f)' = Current(f)
  <2>1. prop_lock = w
    BY <1>2 DEF Assign, Shape, Locking, Threads
  <2>2. want[w][f] # Junk
    BY DEF Shape, TypeOK, Pairs
  <2>3. CASE f = At(w)
    BY <1>2, <2>2, <2>3 DEF Assign, Current, Shape, TypeOK
  <2>4. CASE f # At(w)
    <3>1. field[f] # Junk
      BY <2>1, <2>4 DEF Shape, Whole
    <3> QED
      BY <1>2, <2>4, <3>1 DEF Assign, Current, Shape, TypeOK
  <2> QED
    BY <2>3, <2>4
<1>3. ASSUME UNCHANGED <<field, old>> PROVE Current(f)' = Current(f)
  BY <1>3 DEF Current
<1>4. CASE \E w \in Writers : SetCredentials(w)
  BY <1>3, <1>4 DEF SetCredentials
<1>5. CASE \E c \in Callers : Begin(c) \/ Measure(c) \/ Copy(c)
  BY <1>3, <1>5 DEF Begin, Measure, Copy
<1>6. CASE \E c \in Callers : AddToken(c) \/ SaveDigest(c) \/ Answer(c)
  BY <1>3, <1>6 DEF AddToken, SaveDigest, Answer
<1>7. CASE UNCHANGED vars
  BY <1>3, <1>7 DEF vars
<1> QED
  BY <1>1, <1>2, <1>4, <1>5, <1>6, <1>7 DEF Next

(* OnvifCredentials implements a register per field: a step of it is a set, *)
(* a copy or a free of the register, or nothing.                            *)
LEMMA RegisterStep ==
    Shape /\ [Next]_vars => [Register!Next]_<<[f \in Fields |-> Current(f)], copy>>
<1> SUFFICES ASSUME Shape, [Next]_vars
             PROVE  \/ Register!Next
                    \/ UNCHANGED <<[f \in Fields |-> Current(f)], copy>>
  OBVIOUS
<1> USE CredentialsAssumption, AtField DEF locks, request
<1> DEFINE value == [f \in Fields |-> Current(f)]
<1>1. ASSUME NEW w \in Writers, Assign(w) PROVE Register!Next
  <2>1. want[w][At(w)] \in Values
    BY DEF Shape, TypeOK, Pairs
  <2>2. \A f \in Fields : Current(f)' = IF f = At(w) THEN want[w][f] ELSE Current(f)
    <3>1. \A f \in Fields, u \in Writers :
              Assign(u) => prop_lock = u /\ u = w
      BY <1>1 DEF Assign, Shape, Locking, Threads
    <3>2. \A f \in Fields : f # At(w) => Current(f)' = Current(f)
      BY <3>1, CurrentStep
    <3>3. ASSUME NEW f \in Fields, f = At(w) PROVE Current(f)' = want[w][f]
      <4>1. field'[f] = want[w][f] /\ want[w][f] # Junk
        BY <1>1, <2>1, <3>3 DEF Assign, Shape, TypeOK
      <4> QED
        BY <4>1 DEF Current
    <3> QED
      BY <3>2, <3>3
  <2>3. value' = [value EXCEPT ![At(w)] = want[w][At(w)]]
    BY <2>2
  <2>4. UNCHANGED copy
    BY <1>1 DEF Assign
  <2>5. Register!Set(At(w), want[w][At(w)])
    BY <2>3, <2>4 DEF Register!Set
  <2> QED
    BY <2>1, <2>5 DEF Register!Next
<1>2. ASSUME \A w \in Writers : ~Assign(w) PROVE UNCHANGED value
  <2>1. \A f \in Fields : Current(f)' = Current(f)
    BY <1>2, CurrentStep
  <2> QED
    BY <2>1
<1>3. ASSUME NEW c \in Callers, Copy(c) PROVE Register!Next
  <2>1. UNCHANGED value
    <3>1. \A f \in Fields : Current(f)' = Current(f)
      BY <1>3 DEF Copy, Current
    <3> QED
      BY <3>1
  <2>2. value[At(c)] = field[At(c)]
    BY <1>3, CopiesValue DEF Copy
  <2>3. copy' = [copy EXCEPT ![c][At(c)] = value[At(c)]]
    BY <1>3, <2>2 DEF Copy
  <2>4. Register!Get(c, At(c))
    BY <2>1, <2>3 DEF Register!Get
  <2> QED
    BY <2>4 DEF Register!Next
<1>4. ASSUME NEW c \in Callers, AddToken(c) \/ SaveDigest(c) PROVE Register!Next
  <2>1. UNCHANGED value
    <3>1. \A f \in Fields : Current(f)' = Current(f)
      BY <1>4 DEF AddToken, SaveDigest, Current
    <3> QED
      BY <3>1
  <2>2. copy' = [copy EXCEPT ![c] = [f \in Fields |-> NoCopy]]
    BY <1>4 DEF AddToken, SaveDigest, FreeCopies
  <2>3. Register!Free(c)
    BY <2>1, <2>2 DEF Register!Free
  <2> QED
    BY <2>3 DEF Register!Next
<1>5. ASSUME UNCHANGED <<field, old, copy>> PROVE UNCHANGED <<value, copy>>
  <2>1. \A f \in Fields : Current(f)' = Current(f)
    BY <1>5 DEF Current
  <2> QED
    BY <1>5, <2>1
<1>6. ASSUME NEW w \in Writers, Realloc(w) PROVE UNCHANGED <<value, copy>>
  <2>1. \A u \in Writers : ~Assign(u)
    BY <1>6 DEF Realloc, Assign, Shape, Locking, Threads
  <2> QED
    BY <1>2, <1>6, <2>1 DEF Realloc
<1>7. CASE \E w \in Writers : SetCredentials(w)
  BY <1>5, <1>7 DEF SetCredentials
<1>8. CASE \E c \in Callers : Begin(c) \/ Measure(c) \/ Answer(c)
  BY <1>5, <1>8 DEF Begin, Measure, Answer
<1>9. CASE UNCHANGED vars
  BY <1>5, <1>9 DEF vars
<1> QED
  BY <1>1, <1>3, <1>4, <1>6, <1>7, <1>8, <1>9 DEF Next

(* A call sees every value a field takes while it lasts.                    *)
LEMMA SeenStep == Shape /\ Seen /\ [Next]_vars => Seen'
<1> SUFFICES ASSUME Shape, Seen, [Next]_vars, NEW d \in Callers, NEW f \in Fields
             PROVE  /\ pc'[d] # "idle" => Current(f)' \in seen'[d][f]
                    /\ copy'[d][f] # NoCopy =>
                           pc'[d] \in Reading /\ copy'[d][f] \in seen'[d][f]
  BY DEF Seen, Reading
<1> DEFINE Goal == /\ pc'[d] # "idle" => Current(f)' \in seen'[d][f]
                   /\ copy'[d][f] # NoCopy =>
                          pc'[d] \in Reading /\ copy'[d][f] \in seen'[d][f]
<1> USE CredentialsAssumption, AtField DEF locks, request
<1>0. /\ pc[d] # "idle" => Current(f) \in seen[d][f]
      /\ copy[d][f] # NoCopy => pc[d] \in Reading /\ copy[d][f] \in seen[d][f]
  BY DEF Seen
<1>t. TypeOK /\ d \notin Writers
  BY DEF Shape, Callers
<1>1. ASSUME NEW w \in Writers, SetCredentials(w) \/ Realloc(w)
      PROVE  Goal
  <2>1. pc'[d] = pc[d] /\ seen' = seen /\ copy' = copy
    BY <1>1, <1>t DEF SetCredentials, Realloc, TypeOK
  <2>2. \A u \in Writers : ~Assign(u)
    BY <1>1 DEF SetCredentials, Realloc, Assign, Shape, Locking, Threads
  <2>3. Current(f)' = Current(f)
    BY <2>2, CurrentStep
  <2> QED
    BY <1>0, <2>1, <2>3
<1>2. ASSUME NEW w \in Writers, Assign(w)
      PROVE  Goal
  <2>1. pc'[d] = pc[d] /\ copy' = copy
    BY <1>2, <1>t DEF Assign, TypeOK
  <2>2. seen'[d] = [seen[d] EXCEPT ![At(w)] = @ \cup {want[w][At(w)]}]
    BY <1>2 DEF Assign
  <2>3. seen'[d][f] = IF f = At(w) THEN seen[d][f] \cup {want[w][f]} ELSE seen[d][f]
    BY <1>t, <2>2 DEF TypeOK
  <2>4. \A u \in Writers : Assign(u) => u = w
    BY <1>2 DEF Assign, Shape, Locking, Threads
  <2>5. Current(f)' = Current(f) \/ (f = At(w) /\ Current(f)' = want[w][f])
    BY <2>4, CurrentStep
  <2> QED
    BY <1>0, <2>1, <2>3, <2>5
<1>3. ASSUME NEW c \in Callers, Begin(c)
      PROVE  Goal
  <2>1. Current(f)' = Current(f) /\ copy' = copy
    BY <1>3 DEF Begin, Current
  <2>2. CASE c = d
    <3>1. seen'[d][f] = {Current(f)}
      BY <1>3, <1>t, <2>2 DEF Begin, TypeOK
    <3>2. copy[d][f] = NoCopy
      BY <1>0, <1>3, <2>2 DEF Begin, Reading
    <3> QED
      BY <2>1, <3>1, <3>2
  <2>3. CASE c # d
    <3>1. seen'[d] = seen[d] /\ pc'[d] = pc[d]
      BY <1>3, <1>t, <2>3 DEF Begin, TypeOK
    <3> QED
      BY <1>0, <2>1, <3>1
  <2> QED
    BY <2>2, <2>3
<1>4. ASSUME NEW c \in Callers, Measure(c)
      PROVE  Goal
  BY <1>0, <1>4 DEF Measure, Current
<1>5. ASSUME NEW c \in Callers, Copy(c)
      PROVE  Goal
  <2>1. Current(f)' = Current(f) /\ pc' = pc /\ seen' = seen
    BY <1>5 DEF Copy, Current
  <2>2. field[At(c)] = Current(At(c)) /\ pc[c] \in Reading
    BY <1>5, CopiesValue DEF Copy
  <2>3. CASE c = d /\ f = At(c)
    <3>1. copy'[d][f] = Current(f)
      BY <1>5, <1>t, <2>2, <2>3 DEF Copy, TypeOK
    <3> QED
      BY <1>0, <2>1, <2>2, <2>3, <3>1 DEF Reading
  <2>4. CASE ~(c = d /\ f = At(c))
    <3>1. copy'[d][f] = copy[d][f]
      BY <1>5, <1>t, <2>4 DEF Copy, TypeOK
    <3> QED
      BY <1>0, <2>1, <3>1
  <2> QED
    BY <2>3, <2>4
<1>6. ASSUME NEW c \in Callers, AddToken(c) \/ SaveDigest(c)
      PROVE  Goal
  <2>1. Current(f)' = Current(f) /\ seen' = seen /\ pc[c] # "idle"
    BY <1>6 DEF AddToken, SaveDigest, Current
  <2>2. CASE c = d
    <3>1. copy'[d][f] = NoCopy
      BY <1>6, <1>t, <2>2 DEF AddToken, SaveDigest, FreeCopies, TypeOK
    <3> QED
      BY <1>0, <2>1, <2>2, <3>1
  <2>3. CASE c # d
    <3>1. copy'[d] = copy[d] /\ pc'[d] = pc[d]
      BY <1>6, <1>t, <2>3 DEF AddToken, SaveDigest, FreeCopies, TypeOK
    <3> QED
      BY <1>0, <2>1, <3>1
  <2> QED
    BY <2>2, <2>3
<1>7. ASSUME NEW c \in Callers, Answer(c)
      PROVE  Goal
  <2>1. Current(f)' = Current(f) /\ copy' = copy
    BY <1>7 DEF Answer, Current
  <2>2. CASE c = d
    <3>1. copy[d][f] = NoCopy
      BY <1>0, <1>7, <2>2 DEF Answer, Reading
    <3>2. pc'[d] # "idle" => seen' = seen
      BY <1>7, <1>t, <2>2 DEF Answer, TypeOK
    <3>3. pc[d] # "idle"
      BY <1>7, <2>2 DEF Answer
    <3> QED
      BY <1>0, <2>1, <3>1, <3>2, <3>3
  <2>3. CASE c # d
    <3>1. seen'[d] = seen[d] /\ pc'[d] = pc[d]
      BY <1>7, <1>t, <2>3 DEF Answer, TypeOK
    <3> QED
      BY <1>0, <2>1, <3>1
  <2> QED
    BY <2>2, <2>3
<1>8. CASE UNCHANGED vars
  BY <1>0, <1>8 DEF vars, Current
<1> QED
  BY <1>1, <1>2, <1>3, <1>4, <1>5, <1>6, <1>7, <1>8 DEF Next

(* What a step does to the values a caller has seen: they only grow until   *)
(* its call ends.                                                           *)
LEMMA SeenGrows ==
    ASSUME Shape, [Next]_vars, NEW d \in Callers, pc[d] # "idle", pc'[d] # "idle"
    PROVE  \A f \in Fields : seen[d][f] \subseteq seen'[d][f]
<1> USE CredentialsAssumption, AtField DEF locks, request
<1>t. TypeOK /\ d \notin Writers
  BY DEF Shape, Callers
<1>1. ASSUME NEW w \in Writers, Assign(w)
      PROVE  \A f \in Fields : seen[d][f] \subseteq seen'[d][f]
  <2>1. seen'[d] = [seen[d] EXCEPT ![At(w)] = @ \cup {want[w][At(w)]}]
    BY <1>1 DEF Assign
  <2> QED
    BY <1>t, <2>1 DEF TypeOK
<1>2. ASSUME NEW c \in Callers, Begin(c)
      PROVE  seen'[d] = seen[d]
  BY <1>t, <1>2 DEF Begin, TypeOK
<1>3. ASSUME NEW c \in Callers, Answer(c)
      PROVE  seen'[d] = seen[d]
  BY <1>t, <1>3 DEF Answer, TypeOK
<1>4. CASE \E w \in Writers : SetCredentials(w) \/ Realloc(w)
  BY <1>4 DEF SetCredentials, Realloc
<1>5. CASE \E c \in Callers : Measure(c) \/ Copy(c) \/ AddToken(c) \/ SaveDigest(c)
  BY <1>5 DEF Measure, Copy, AddToken, SaveDigest
<1>6. CASE UNCHANGED vars
  BY <1>6 DEF vars
<1> QED
  BY <1>1, <1>2, <1>3, <1>4, <1>5, <1>6 DEF Next

(* Headers and fresh digests are made of what the call read.                *)
LEMMA TokenStep == Shape /\ Seen /\ TokenOfTheCall /\ [Next]_vars => TokenOfTheCall'
<1> SUFFICES ASSUME Shape, Seen, TokenOfTheCall, [Next]_vars,
                    NEW d \in Callers, NEW f \in Fields
             PROVE  /\ pc'[d] # "idle" /\ token'[d] # NoPair => token'[d][f] \in seen'[d][f]
                    /\ pc'[d] \in {"again", "resend"} => digest'[d][f] \in seen'[d][f]
  BY DEF TokenOfTheCall, NoPair
<1> DEFINE Goal == /\ pc'[d] # "idle" /\ token'[d] # NoPair => token'[d][f] \in seen'[d][f]
                   /\ pc'[d] \in {"again", "resend"} => digest'[d][f] \in seen'[d][f]
<1> USE CredentialsAssumption DEF locks, request
<1>0. /\ pc[d] # "idle" /\ token[d] # NoPair => token[d][f] \in seen[d][f]
      /\ pc[d] \in {"again", "resend"} => digest[d][f] \in seen[d][f]
      /\ copy[d][f] # NoCopy => copy[d][f] \in seen[d][f]
  BY DEF TokenOfTheCall, Seen
<1>t. TypeOK /\ d \notin Writers
  BY DEF Shape, Callers
<1>g. pc[d] # "idle" /\ pc'[d] # "idle" => seen[d][f] \subseteq seen'[d][f]
  BY SeenGrows
<1>1. ASSUME pc'[d] = pc[d], token'[d] = token[d], digest'[d] = digest[d]
      PROVE  Goal
  BY <1>0, <1>1, <1>g
<1>2. ASSUME NEW w \in Writers, SetCredentials(w) \/ Realloc(w) \/ Assign(w)
      PROVE  Goal
  <2>1. pc'[d] = pc[d] /\ token' = token /\ digest' = digest
    BY <1>t, <1>2 DEF SetCredentials, Realloc, Assign, TypeOK
  <2> QED
    BY <1>1, <2>1
<1>3. ASSUME NEW c \in Callers, Begin(c) PROVE Goal
  <2>1. CASE c = d
    BY <1>t, <1>3, <2>1 DEF Begin, NewHeader, TypeOK
  <2>2. CASE c # d
    BY <1>t, <1>1, <1>3, <2>2 DEF Begin, TypeOK
  <2> QED
    BY <2>1, <2>2
<1>4. ASSUME NEW c \in Callers, Measure(c) \/ Copy(c) PROVE Goal
  BY <1>1, <1>4 DEF Measure, Copy
<1>5. ASSUME NEW c \in Callers, AddToken(c) PROVE Goal
  <2>1. CASE c = d
    <3>1. copy[d][f] \in seen[d][f] /\ seen' = seen
      BY <1>0, <1>5, <2>1 DEF AddToken, HasBoth
    <3>2. token'[d] = copy[d] \/ token'[d] = NoPair
      BY <1>t, <1>5, <2>1 DEF AddToken, NewHeader, TypeOK
    <3>3. /\ digest' = digest
          /\ pc'[d] \in {"send", "resend"} /\ (pc'[d] = "resend" => pc[d] = "again")
      BY <1>t, <1>5, <2>1 DEF AddToken, TypeOK
    <3> QED
      BY <1>0, <3>1, <3>2, <3>3
  <2>2. CASE c # d
    BY <1>t, <1>1, <1>5, <2>2 DEF AddToken, TypeOK
  <2> QED
    BY <2>1, <2>2
<1>6. ASSUME NEW c \in Callers, SaveDigest(c) PROVE Goal
  <2>1. CASE c = d
    <3>1. copy[d][f] \in seen[d][f] /\ seen' = seen /\ token' = token /\ pc[d] # "idle"
      BY <1>0, <1>6, <2>1 DEF SaveDigest, HasBoth
    <3>2. digest'[d] = copy[d]
      BY <1>t, <1>6, <2>1 DEF SaveDigest, Saved, TypeOK
    <3> QED
      BY <1>0, <3>1, <3>2
  <2>2. CASE c # d
    BY <1>t, <1>1, <1>6, <2>2 DEF SaveDigest, TypeOK
  <2> QED
    BY <2>1, <2>2
<1>7. ASSUME NEW c \in Callers, Answer(c) PROVE Goal
  <2>1. CASE c = d
    <3>1. pc[d] # "idle" /\ token' = token /\ pc'[d] \in {"challenge", "idle"}
      BY <1>t, <1>7, <2>1 DEF Answer, TypeOK
    <3> QED
      BY <1>0, <1>g, <3>1
  <2>2. CASE c # d
    BY <1>t, <1>1, <1>7, <2>2 DEF Answer, TypeOK
  <2> QED
    BY <2>1, <2>2
<1>8. CASE UNCHANGED vars
  BY <1>1, <1>8 DEF vars
<1> QED
  BY <1>2, <1>3, <1>4, <1>5, <1>6, <1>7, <1>8 DEF Next

(* A call that began with the account, which nobody has set since, sends it *)
(* at last and is let in.                                                   *)
LEMMA SteadyStep == IInv /\ [Next]_vars => Steady'
<1> SUFFICES ASSUME IInv, [Next]_vars, NEW d \in Callers PROVE SteadyCall(d)'
  BY DEF Steady
<1> USE CredentialsAssumption DEF locks, request
<1>0. SteadyCall(d)
  BY DEF IInv, Steady
<1>t. Shape /\ TypeOK /\ Seen /\ TokenOfTheCall /\ d \notin Writers
  BY DEF IInv, Shape, Callers
<1>1. ASSUME UNCHANGED <<field, asks>>, pc'[d] = pc[d], seen'[d] = seen[d],
             token'[d] = token[d], steady'[d] = steady[d], outcome'[d] = outcome[d]
      PROVE  SteadyCall(d)'
  BY <1>0, <1>1 DEF SteadyCall
<1>2. ASSUME steady'[d] = FALSE, asks' = asks PROVE SteadyCall(d)'
  BY <1>0, <1>2 DEF SteadyCall
<1>3. ASSUME NEW w \in Writers, SetCredentials(w) PROVE SteadyCall(d)'
  <2>1. pc'[d] = pc[d]
    BY <1>t, <1>3 DEF SetCredentials, TypeOK
  <2> QED
    BY <1>1, <1>3, <2>1 DEF SetCredentials
<1>4. ASSUME NEW w \in Writers, Realloc(w) PROVE SteadyCall(d)'
  BY <1>2, <1>4 DEF Realloc
<1>5. ASSUME NEW w \in Writers, Assign(w) PROVE SteadyCall(d)'
  <2>1. field[At(w)] = Junk
    BY <1>t, <1>5, AtField DEF Assign, Shape, Locking, Whole, Threads
  <2>2. steady[d] # TRUE
    BY <1>0, <2>1, AtField DEF SteadyCall, Values
  <2>3. steady[d] \in BOOLEAN /\ steady' = steady /\ asks' = asks
    BY <1>t, <1>5 DEF Assign, TypeOK
  <2> QED
    BY <1>2, <2>2, <2>3
<1>6. ASSUME NEW c \in Callers, Begin(c) PROVE SteadyCall(d)'
  <2>1. CASE c = d
    <3>1. \/ steady'[d] = FALSE
          \/ steady'[d] = TRUE /\ \A f \in Fields : field[f] = Account
      BY <1>t, <1>6, <2>1 DEF Begin, TypeOK
    <3>2. /\ field' = field /\ asks' = asks /\ outcome'[d] = "none"
          /\ seen'[d] = [f \in Fields |-> {Current(f)}]
          /\ pc'[d] = IF d \in Downloads THEN "send" ELSE "new"
      BY <1>t, <1>6, <2>1 DEF Begin, TypeOK
    <3>3. CASE \A f \in Fields : field[f] = Account
      <4>1. \A f \in Fields : seen'[d][f] = {Account}
        BY <3>2, <3>3 DEF Current, Values
      <4> QED
        BY <1>0, <3>2, <3>3, <4>1 DEF SteadyCall
    <3>4. CASE steady'[d] = FALSE
      BY <1>2, <3>2, <3>4
    <3> QED
      BY <3>1, <3>3, <3>4
  <2>2. CASE c # d
    <3>1. /\ pc'[d] = pc[d] /\ seen'[d] = seen[d] /\ token'[d] = token[d]
          /\ steady'[d] = steady[d] /\ outcome'[d] = outcome[d]
      BY <1>t, <1>6, <2>2 DEF Begin, TypeOK
    <3> QED
      BY <1>1, <1>6, <3>1 DEF Begin
  <2> QED
    BY <2>1, <2>2
<1>7. ASSUME NEW c \in Callers, Measure(c) \/ Copy(c) PROVE SteadyCall(d)'
  BY <1>1, <1>7 DEF Measure, Copy
<1>8. ASSUME NEW c \in Callers, AddToken(c) PROVE SteadyCall(d)'
  <2>1. CASE c = d
    <3>1. UNCHANGED <<field, asks, seen, steady, outcome>> /\ pc[d] # "idle"
      BY <1>8, <2>1 DEF AddToken
    <3>2. \A f \in Fields : copy[d][f] \in seen[d][f]
      BY <1>t, <1>8, <2>1 DEF AddToken, HasBoth, Seen
    <3>3. steady[d] = TRUE => \A f \in Fields : token'[d][f] = Account
      <4>1. (\A f \in Fields : copy[d][f] # Null) => token'[d] = copy[d]
        BY <1>t, <1>8, <2>1 DEF AddToken, TypeOK
      <4>2. steady[d] = TRUE => \A f \in Fields : copy[d][f] = Account
        BY <1>0, <3>1, <3>2 DEF SteadyCall
      <4>3. Account # Null
        OBVIOUS
      <4> QED
        BY <4>1, <4>2, <4>3
    <3> QED
      BY <1>0, <3>1, <3>3 DEF SteadyCall
  <2>2. CASE c # d
    <3>1. pc'[d] = pc[d] /\ token'[d] = token[d]
      BY <1>t, <1>8, <2>2 DEF AddToken, TypeOK
    <3> QED
      BY <1>1, <1>8, <3>1 DEF AddToken
  <2> QED
    BY <2>1, <2>2
<1>9. ASSUME NEW c \in Callers, SaveDigest(c) PROVE SteadyCall(d)'
  <2>1. CASE c = d
    <3>1. UNCHANGED <<field, asks, seen, steady, outcome, token>> /\ pc[d] # "idle"
      BY <1>9, <2>1 DEF SaveDigest
    <3>2. pc'[d] = IF d \in Downloads THEN "resend" ELSE "again"
      BY <1>t, <1>9, <2>1 DEF SaveDigest, TypeOK
    <3> QED
      BY <1>0, <3>1, <3>2 DEF SteadyCall
  <2>2. CASE c # d
    <3>1. pc'[d] = pc[d]
      BY <1>t, <1>9, <2>2 DEF SaveDigest, TypeOK
    <3> QED
      BY <1>1, <1>9, <3>1 DEF SaveDigest
  <2> QED
    BY <2>1, <2>2
<1>10. ASSUME NEW c \in Callers, Answer(c) PROVE SteadyCall(d)'
  <2>1. CASE c = d
    <3>1. UNCHANGED <<field, asks, steady, token>> /\ pc[d] \in {"send", "resend"}
      BY <1>10, <2>1 DEF Answer
    <3>2. pc'[d] \in {"challenge", "idle"} /\ (pc'[d] = "challenge" => seen' = seen)
      BY <1>t, <1>10, <2>1 DEF Answer, TypeOK
    <3>3. steady[d] = TRUE => outcome'[d] # "refused"
      <4> SUFFICES ASSUME steady[d] = TRUE, outcome'[d] = "refused" PROVE FALSE
        OBVIOUS
      <4>1. outcome[d] # "refused"
        BY <1>0 DEF SteadyCall
      <4>2. ~Right(d) /\ (asks[d] = "token" \/ pc[d] = "resend")
        BY <1>t, <1>10, <2>1, <4>1 DEF Answer, TypeOK
      <4>3. CASE asks[d] = "token"
        <5>1. \A f \in Fields : token[d][f] = Account
          BY <1>0, <3>1, <4>3 DEF SteadyCall
        <5> QED
          BY <4>2, <4>3, <5>1 DEF Right
      <4>4. CASE asks[d] # "token"
        <5>1. pc[d] = "resend"
          BY <4>2, <4>4
        <5>2. \A f \in Fields : digest[d][f] \in seen[d][f] /\ seen[d][f] = {Account}
          BY <1>0, <1>t, <5>1 DEF SteadyCall, TokenOfTheCall
        <5> QED
          BY <4>2, <4>4, <5>2 DEF Right
      <4> QED
        BY <4>3, <4>4
    <3> QED
      BY <1>0, <3>1, <3>2, <3>3 DEF SteadyCall
  <2>2. CASE c # d
    <3>1. pc'[d] = pc[d] /\ seen'[d] = seen[d] /\ outcome'[d] = outcome[d]
      BY <1>t, <1>10, <2>2 DEF Answer, TypeOK
    <3> QED
      BY <1>1, <1>10, <3>1 DEF Answer
  <2> QED
    BY <2>1, <2>2
<1>11. CASE UNCHANGED vars
  BY <1>1, <1>11 DEF vars
<1> QED
  BY <1>3, <1>4, <1>5, <1>6, <1>7, <1>8, <1>9, <1>10, <1>11 DEF Next

LEMMA Initially == Init => IInv
<1> SUFFICES ASSUME Init PROVE IInv
  OBVIOUS
<1> USE CredentialsAssumption DEF Init
<1>1. TypeOK
  BY DEF TypeOK, NoPair, Pairs, Values, Doing
<1>2. Locking /\ Whole
  BY DEF Locking, Whole, Threads, NoPair, Values, Callers
<1>3. Seen /\ TokenOfTheCall
  BY DEF Seen, TokenOfTheCall, Callers
<1>4. Steady
  BY DEF Steady, SteadyCall, Callers
<1> QED
  BY <1>1, <1>2, <1>3, <1>4 DEF IInv, Shape

(* The inductive invariant. *)
THEOREM Inductive == Spec => []IInv
<1>1. IInv /\ [Next]_vars => IInv'
  BY TypeStep, ShapeStep, SeenStep, TokenStep, SteadyStep DEF IInv, Shape
<1> QED
  BY <1>1, Initially, PTL DEF Spec

(* The variables keep their types; a copy is never of a half-written field. *)
THEOREM TypeCorrect == Spec => []TypeOK
<1>1. IInv => TypeOK
  BY DEF IInv, Shape
<1> QED
  BY <1>1, Inductive, PTL

(* What a call sends it read while it lasted, whoever set what meanwhile.   *)
THEOREM TokensAreOfTheCall == Spec => []TokenOfTheCall
<1>1. IInv => TokenOfTheCall
  BY DEF IInv
<1> QED
  BY <1>1, Inductive, PTL

(* No saved digest locks a caller out of an account that is in place.       *)
THEOREM LetIn == Spec => []NeverLockedOut
<1>1. IInv => NeverLockedOut
  <2> SUFFICES ASSUME IInv, NEW c \in Callers, outcome[c] = "refused"
               PROVE  ~steady[c]
    BY DEF NeverLockedOut
  <2>1. steady[c] \in BOOLEAN /\ steady[c] # TRUE
    BY DEF IInv, Shape, TypeOK, Steady, SteadyCall
  <2> QED
    BY <2>1
<1> QED
  BY <1>1, Inductive, PTL

(* OnvifCredentials implements the register of CredentialRegister, one      *)
(* field at a time, for any number of writers and readers.                  *)
THEOREM Refinement == Spec => FieldsAtomic
<1>1. Init => Register!Init
  <2> SUFFICES ASSUME Init PROVE Register!Init
    OBVIOUS
  <2>1. \A f \in Fields : Current(f) \in Values
    BY CredentialsAssumption DEF Init, Current, NoPair, Values
  <2> QED
    BY <2>1 DEF Init, Register!Init
<1>2. IInv /\ [Next]_vars => [Register!Next]_<<[f \in Fields |-> Current(f)], copy>>
  BY RegisterStep DEF IInv
<1> QED
  BY <1>1, <1>2, Inductive, PTL DEF Spec, FieldsAtomic, Register!Spec
================================================================================
