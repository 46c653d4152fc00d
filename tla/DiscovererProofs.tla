---------------------------- MODULE DiscovererProofs ----------------------------
(***************************************************************************)
(* Theorems about Discoverer, for any threads, any retry count and any     *)
(* number of runs.                                                         *)
(***************************************************************************)
EXTENDS Discoverer, TLAPS

(* Who can be where, where stop returns to, and a probe under way is one of *)
(* the run's retry_count.                                                   *)
Roles ==
    /\ \A t \in Threads \ Starters :
        pc[t] \in {"idle"} \cup StopPlaces /\ back[t] = "idle"
    /\ \A t \in Starters :
        /\ pc[t] \in StopPlaces => back[t] \in {"set_state", "listen"}
        /\ Place(t) \in ProbePlaces \ {"end_serv"} => round[t] < RetryCount

(* A stop stays in force until the next start: the run it hit is only sent *)
(* on where it was past the last test.                                     *)
Obeyed ==
    \A t \in Starters :
        /\ hit[t] # Null => state = "STOPPED"
        /\ hit[t] = Null => late[t] = 0
        /\ hit[t] # Null /\ pc[t] = "send" => hit[t] = "send" /\ late[t] = 0

(* While nobody met anybody in the discoverer, one thread at most is in it, *)
(* and it closes what it found.                                             *)
Alone ==
    /\ ~shared => \A t, u \in Threads : pc[t] # "idle" /\ pc[u] # "idle" => t = u
    /\ \A t \in Threads :
        ~shared /\ pc[t] = "close" => serv # Null /\ victim[t] = serv

(* The pointer of a probing run is only cleared on the way to STOPPED, or by *)
(* a run that started later and is not over.                                *)
Probing == ({"init"} \cup ProbePlaces) \ {"end_serv"}

Cleared ==
    \A t \in Starters : Place(t) \in Probing /\ serv = Null =>
        \/ state = "STOPPED"
        \/ \E u \in Threads : pc[u] = "set_stopped"
        \/ \E u \in Starters \ {t} : Place(u) \in {"set_serv", "end_state"}

IInv ==
    TypeOK /\ Roles /\ Cleared /\ ServOwned /\ Obeyed /\ StopIsPrompt /\ Alone
        /\ CloseIsSafeAlone

(* A jump moves the thread that makes it and no other. *)
LEMMA GotoEffect ==
    ASSUME TypeOK, NEW t \in Threads, NEW place \in Places, Goto(t, place)
    PROVE  /\ pc' \in [Threads -> Places]
           /\ pc'[t] = place
           /\ \A u \in Threads \ {t} : pc'[u] = pc[u]
BY DEF TypeOK, Goto

(* The steps of start are made by the threads that call it. *)
LEMMA RunStepStarter ==
    ASSUME TypeOK, Roles, NEW t \in Threads, RunStep(t) \/ CallbackStops(t)
    PROVE  t \in Starters
BY DEF Roles, StopPlaces, RunStep, CallbackStops, SetState, SetServ, InitContext,
       Bind, TestBeforeProbe, SendMessage, TestBeforeListen, ListenReturns, Again,
       EndServ, EndState, Return

(* Every step keeps every variable's type and every thread's role. *)
LEMMA TypeStep == TypeOK /\ Roles /\ [Next]_vars => TypeOK' /\ Roles'
<1> SUFFICES ASSUME TypeOK, Roles, [Next]_vars PROVE TypeOK' /\ Roles'
  OBVIOUS
<1> USE ThreadAssumption
    DEF TypeOK, Roles, Threads, memory, locals, history, States, Places, StopPlaces,
        RunPlaces, EntryPlaces, ProbePlaces, ExitPlaces, Place
<1>1. ASSUME NEW t \in Threads, Start(t) PROVE TypeOK' /\ Roles'
  BY <1>1 DEF Start, CallStop, Goto, Enter
<1>2. ASSUME NEW t \in Threads, Stop(t) PROVE TypeOK' /\ Roles'
  BY <1>2 DEF Stop, CallStop, Goto, Enter
<1>3. ASSUME NEW t \in Threads, StopTestState(t) PROVE TypeOK' /\ Roles'
  BY <1>3 DEF StopTestState, Goto
<1>4. ASSUME NEW t \in Threads, StopTestServ(t) PROVE TypeOK' /\ Roles'
  BY <1>4 DEF StopTestServ, Goto
<1>5. ASSUME NEW t \in Threads, StopClose(t) PROVE TypeOK' /\ Roles'
  BY <1>5 DEF StopClose, Goto
<1>6. ASSUME NEW t \in Threads, StopClearServ(t) PROVE TypeOK' /\ Roles'
  BY <1>6 DEF StopClearServ, Goto
<1>7. ASSUME NEW t \in Threads, StopSetStopped(t) PROVE TypeOK' /\ Roles'
  BY <1>7 DEF StopSetStopped, Goto, Running
<1>8. ASSUME NEW t \in Threads, SetState(t) PROVE TypeOK' /\ Roles'
  BY <1>8 DEF SetState, Goto
<1>9. ASSUME NEW t \in Starters, SetServ(t) PROVE TypeOK' /\ Roles'
  BY <1>9 DEF SetServ, Goto
<1>10. ASSUME NEW t \in Starters, InitContext(t) PROVE TypeOK' /\ Roles'
  BY <1>10 DEF InitContext, Goto
<1>11. ASSUME NEW t \in Starters,
              Bind(t) \/ TestBeforeProbe(t) \/ TestBeforeListen(t) \/ ListenReturns(t)
       PROVE TypeOK' /\ Roles'
  BY <1>11 DEF Bind, TestBeforeProbe, TestBeforeListen, ListenReturns, Goto
<1>12. ASSUME NEW t \in Starters, SendMessage(t) PROVE TypeOK' /\ Roles'
  BY <1>12 DEF SendMessage, Goto
<1>13. ASSUME NEW t \in Starters, CallbackStops(t) PROVE TypeOK' /\ Roles'
  BY <1>13 DEF CallbackStops, CallStop, Goto
<1>14. ASSUME NEW t \in Starters, Again(t) PROVE TypeOK' /\ Roles'
  BY <1>14 DEF Again, Goto
<1>15. ASSUME NEW t \in Starters, EndServ(t) PROVE TypeOK' /\ Roles'
  BY <1>15 DEF EndServ, Goto
<1>16. ASSUME NEW t \in Starters, EndState(t) PROVE TypeOK' /\ Roles'
  BY <1>16 DEF EndState, Goto
<1>17. ASSUME NEW t \in Starters, Return(t) PROVE TypeOK' /\ Roles'
  BY <1>17 DEF Return, Goto
<1>18. CASE UNCHANGED vars
  BY <1>18 DEF vars
<1> QED
  BY RunStepStarter, <1>1, <1>2, <1>3, <1>4, <1>5, <1>6, <1>7, <1>8, <1>9, <1>10,
     <1>11, <1>12, <1>13, <1>14, <1>15, <1>16, <1>17, <1>18
     DEF Next, StopStep, RunStep

--------------------------------------------------------------------------------
(* Nothing but start itself moves a thread within start. *)
LEMMA PlaceFixed ==
    ASSUME TypeOK, Roles, NEW t \in Threads,
           Stop(t) \/ StopStep(t) \/ CallbackStops(t)
    PROVE  \A u \in Starters : Place(u)' = Place(u)
<1> USE ThreadAssumption DEF TypeOK, Threads, Place, Goto, StopPlaces
<1>1. CASE Stop(t)
  BY <1>1 DEF Stop, CallStop
<1>2. CASE CallbackStops(t)
  BY <1>2 DEF CallbackStops, CallStop
<1>3. CASE StopStep(t)
  <2>1. back' = back
    BY <1>3 DEF StopStep, StopTestState, StopTestServ, StopClose, StopClearServ,
                StopSetStopped, locals
  <2>2. \A u \in Starters \ {t} : pc'[u] = pc[u]
    BY <1>3 DEF StopStep, StopTestState, StopTestServ, StopClose, StopClearServ,
                StopSetStopped
  <2>3. pc[t] \in StopPlaces /\ (pc'[t] \in StopPlaces \/ pc'[t] = back[t])
    BY <1>3 DEF StopStep, StopTestState, StopTestServ, StopClose, StopClearServ,
                StopSetStopped
  <2> QED
    BY <2>1, <2>2, <2>3
<1> QED
  BY <1>1, <1>2, <1>3

(* A step of a run moves its thread from one place of start to another. *)
LEMMA PlaceMoves ==
    ASSUME TypeOK, Roles, NEW t \in Threads, RunStep(t)
    PROVE  /\ t \in Starters
           /\ Place(t) = pc[t] /\ Place(t)' = pc'[t]
           /\ \A u \in Starters \ {t} : Place(u)' = Place(u)
<1>1. t \in Starters
  BY RunStepStarter
<1>2. back' = back
  BY DEF RunStep, SetState, SetServ, InitContext, Bind, TestBeforeProbe, SendMessage,
         TestBeforeListen, ListenReturns, Again, EndServ, EndState, Return, locals
<1>3. \A u \in Starters \ {t} : pc'[u] = pc[u]
  BY ThreadAssumption
     DEF RunStep, SetState, SetServ, InitContext, Bind, TestBeforeProbe, SendMessage,
         TestBeforeListen, ListenReturns, Again, EndServ, EndState, Return, Goto,
         TypeOK, Threads
<1>4. pc[t] \notin StopPlaces /\ pc'[t] \notin StopPlaces
  BY DEF RunStep, SetState, SetServ, InitContext, Bind, TestBeforeProbe, SendMessage,
         TestBeforeListen, ListenReturns, Again, EndServ, EndState, Return, Goto,
         TypeOK, Threads, StopPlaces
<1> QED
  BY <1>1, <1>2, <1>3, <1>4 DEF Place

(* A thread that enters start was outside. *)
LEMMA PlaceEnters ==
    ASSUME TypeOK, NEW t \in Threads, Start(t)
    PROVE  /\ t \in Starters /\ Place(t) = "idle"
           /\ \A u \in Starters \ {t} : Place(u)' = Place(u)
BY DEF Start, CallStop, Goto, Place, TypeOK, Threads, StopPlaces

(* Every step keeps the pointer and the state with a run that is under way. *)
LEMMA ServStep ==
    TypeOK /\ Roles /\ ServOwned /\ [Next]_vars => ServOwned'
<1> SUFFICES ASSUME TypeOK, Roles, ServOwned, [Next]_vars PROVE ServOwned'
  OBVIOUS
<1> USE ThreadAssumption
<1>1. ASSUME NEW t \in Threads, Stop(t) \/ StopStep(t) \/ CallbackStops(t)
      PROVE ServOwned'
  <2>1. \A u \in Starters : Place(u)' = Place(u)
    BY <1>1, PlaceFixed
  <2>2. serv' \in {serv, Null} /\ state' \in {state, "STOPPED"}
    BY <1>1 DEF Stop, StopStep, CallbackStops, StopTestState, StopTestServ,
                StopClose, StopClearServ, StopSetStopped, memory
  <2> QED
    BY <2>1, <2>2 DEF ServOwned, TypeOK
<1>2. ASSUME NEW t \in Threads, Start(t) PROVE ServOwned'
  BY <1>2, PlaceEnters
     DEF Start, memory, ServOwned, TypeOK, RunPlaces, EntryPlaces, ProbePlaces,
         ExitPlaces
<1>3. ASSUME NEW t \in Threads, RunStep(t) PROVE ServOwned'
  <2>1. /\ t \in Starters
        /\ Place(t) = pc[t] /\ Place(t)' = pc'[t]
        /\ \A u \in Starters \ {t} : Place(u)' = Place(u)
    BY <1>3, PlaceMoves
  <2> USE <2>1 DEF ServOwned, TypeOK, Threads, Goto, memory, RunPlaces, EntryPlaces,
                   ProbePlaces, ExitPlaces
  <2>2. CASE SetState(t)
    BY <2>2 DEF SetState
  <2>3. CASE SetServ(t)
    BY <2>3 DEF SetServ
  <2>4. CASE EndServ(t)
    BY <2>4 DEF EndServ
  <2>5. CASE EndState(t)
    BY <2>5 DEF EndState
  <2>6. CASE Return(t)
    BY <2>6 DEF Return
  <2>7. CASE \/ InitContext(t) \/ Bind(t) \/ TestBeforeProbe(t) \/ SendMessage(t)
             \/ TestBeforeListen(t) \/ ListenReturns(t) \/ Again(t)
    <3>1. /\ pc[t] \in ({"init"} \cup ProbePlaces) \ {"end_serv"}
          /\ pc'[t] \in ProbePlaces
          /\ serv' = serv /\ state' = state
      BY <2>7 DEF InitContext, Bind, TestBeforeProbe, SendMessage, TestBeforeListen,
                  ListenReturns, Again
    <3> QED
      BY <3>1
  <2> QED
    BY <1>3, <2>2, <2>3, <2>4, <2>5, <2>6, <2>7 DEF RunStep
<1>4. CASE UNCHANGED vars
  BY <1>4 DEF vars, memory, locals, ServOwned, Place
<1> QED
  BY <1>1, <1>2, <1>3, <1>4 DEF Next

(* Whoever clears the pointer goes on to the state, and whoever sets the    *)
(* state goes on to the pointer.                                            *)
LEMMA ClearedStep == TypeOK /\ Roles /\ Cleared /\ [Next]_vars => Cleared'
<1> SUFFICES ASSUME TypeOK, Roles, Cleared, [Next]_vars PROVE Cleared'
  OBVIOUS
<1> USE ThreadAssumption DEF Cleared, TypeOK, States, Threads, Goto, memory
<1>1. ASSUME NEW t \in Threads, Stop(t) \/ StopStep(t) \/ CallbackStops(t)
      PROVE Cleared'
  <2>1. \A u \in Starters : Place(u)' = Place(u)
    BY <1>1, PlaceFixed
  <2>2. CASE StopSetStopped(t)
    BY <2>2 DEF StopSetStopped
  <2>3. CASE StopClearServ(t)
    BY <2>3 DEF StopClearServ
  <2>4. CASE \/ Stop(t) \/ CallbackStops(t)
             \/ StopTestState(t) \/ StopTestServ(t) \/ StopClose(t)
    <3>1. /\ serv' = serv /\ state' = state /\ pc[t] # "set_stopped"
          /\ \A u \in Threads \ {t} : pc'[u] = pc[u]
      BY <2>4 DEF Stop, CallbackStops, CallStop, StopTestState, StopTestServ, StopClose
    <3> QED
      BY <2>1, <3>1
  <2> QED
    BY <1>1, <2>2, <2>3, <2>4 DEF StopStep
<1>2. ASSUME NEW t \in Threads, Start(t) PROVE Cleared'
  <2>1. /\ t \in Starters /\ Place(t) = "idle"
        /\ \A u \in Starters \ {t} : Place(u)' = Place(u)
    BY <1>2, PlaceEnters
  <2>2. /\ serv' = serv /\ state' = state /\ pc[t] # "set_stopped"
        /\ \A u \in Threads \ {t} : pc'[u] = pc[u]
        /\ Place(t)' = "set_state"
    BY <1>2 DEF Start, CallStop, Place, StopPlaces
  <2> QED
    BY <2>1, <2>2 DEF Probing, ProbePlaces
<1>3. ASSUME NEW t \in Threads, RunStep(t) PROVE Cleared'
  <2>1. /\ t \in Starters
        /\ Place(t) = pc[t] /\ Place(t)' = pc'[t]
        /\ \A u \in Starters \ {t} : Place(u)' = Place(u)
    BY <1>3, PlaceMoves
  <2>2. \A u \in Threads \ {t} : pc'[u] = pc[u]
    BY <1>3 DEF RunStep, SetState, SetServ, InitContext, Bind, TestBeforeProbe,
                SendMessage, TestBeforeListen, ListenReturns, Again, EndServ,
                EndState, Return
  <2> USE <2>1, <2>2 DEF Probing, ProbePlaces
  <2>3. CASE SetState(t)
    BY <2>3 DEF SetState
  <2>4. CASE SetServ(t)
    BY <2>4 DEF SetServ
  <2>5. CASE EndServ(t)
    BY <2>5 DEF EndServ
  <2>6. CASE EndState(t)
    BY <2>6 DEF EndState
  <2>7. CASE Return(t)
    BY <2>7 DEF Return
  <2>8. CASE \/ InitContext(t) \/ Bind(t) \/ TestBeforeProbe(t) \/ SendMessage(t)
             \/ TestBeforeListen(t) \/ ListenReturns(t) \/ Again(t)
    <3>1. /\ pc[t] \in Probing /\ pc'[t] \in ProbePlaces
          /\ serv' = serv /\ state' = state
      BY <2>8 DEF InitContext, Bind, TestBeforeProbe, SendMessage, TestBeforeListen,
                  ListenReturns, Again
    <3> QED
      BY <3>1
  <2> QED
    BY <1>3, <2>3, <2>4, <2>5, <2>6, <2>7, <2>8 DEF RunStep
<1>4. CASE UNCHANGED vars
  BY <1>4 DEF vars, locals, Place
<1> QED
  BY <1>1, <1>2, <1>3, <1>4 DEF Next

--------------------------------------------------------------------------------
(* Every step leaves a stop in force, unless it is the start of another run. *)
LEMMA ObeyedStep ==
    TypeOK /\ Roles /\ Obeyed /\ StopIsPrompt /\ [Next]_vars
        => Obeyed' /\ StopIsPrompt'
<1> SUFFICES ASSUME TypeOK, Roles, Obeyed, StopIsPrompt, [Next]_vars
             PROVE Obeyed' /\ StopIsPrompt'
  OBVIOUS
<1> USE ThreadAssumption
    DEF TypeOK, Obeyed, StopIsPrompt, Threads, Goto, memory, locals, history,
        StopPlaces
<1>1. ASSUME NEW t \in Threads, SetState(t) PROVE Obeyed' /\ StopIsPrompt'
  BY <1>1 DEF SetState
<1>2. ASSUME NEW t \in Threads, StopSetStopped(t) PROVE Obeyed' /\ StopIsPrompt'
  <2>1. pc'[t] # "send" /\ late' = late /\ state' = "STOPPED"
    BY <1>2 DEF StopSetStopped
  <2>2. ASSUME NEW u \in Starters, hit[u] # Null
        PROVE  hit'[u] = hit[u]
    BY <1>2, <2>2 DEF StopSetStopped
  <2>3. ASSUME NEW u \in Starters, hit[u] = Null
        PROVE  late[u] = 0 /\ (pc'[u] = "send" => hit'[u] = "send")
    <3>1. pc'[u] = "send" => u # t /\ pc[u] = "send"
      BY <1>2, <2>1 DEF StopSetStopped
    <3>2. pc[u] = "send" => Running(u) /\ Place(u) = "send"
      BY DEF Running, Place, RunPlaces, ProbePlaces
    <3> QED
      BY <1>2, <2>3, <3>1, <3>2 DEF StopSetStopped
  <2>4. \A u \in Starters : pc'[u] = "send" => pc[u] = "send"
    BY <1>2, <2>1 DEF StopSetStopped
  <2> QED
    BY <2>1, <2>2, <2>3, <2>4
<1>3. ASSUME NEW t \in Threads, SendMessage(t) PROVE Obeyed' /\ StopIsPrompt'
  BY <1>3, RunStepStarter DEF SendMessage, RunStep
<1>4. ASSUME NEW t \in Threads, TestBeforeProbe(t) PROVE Obeyed' /\ StopIsPrompt'
  BY <1>4, RunStepStarter DEF TestBeforeProbe, RunStep
<1>5. ASSUME NEW t \in Threads, Return(t) PROVE Obeyed' /\ StopIsPrompt'
  BY <1>5, RunStepStarter DEF Return, RunStep
<1>6. ASSUME NEW t \in Threads,
             \/ Start(t) \/ Stop(t) \/ CallbackStops(t)
             \/ StopTestState(t) \/ StopTestServ(t) \/ StopClose(t) \/ StopClearServ(t)
             \/ SetServ(t) \/ InitContext(t) \/ Bind(t) \/ TestBeforeListen(t)
             \/ ListenReturns(t) \/ Again(t) \/ EndServ(t) \/ EndState(t)
      PROVE Obeyed' /\ StopIsPrompt'
  <2>1. hit' = hit /\ late' = late /\ state' \in {state, "STOPPED"}
    BY <1>6 DEF Start, Stop, CallbackStops, StopTestState, StopTestServ, StopClose,
                StopClearServ, SetServ, InitContext, Bind, TestBeforeListen,
                ListenReturns, Again, EndServ, EndState
  <2>2. \A u \in Starters \ {t} : pc'[u] = pc[u]
    BY <1>6 DEF Start, Stop, CallbackStops, CallStop, StopTestState, StopTestServ,
                StopClose, StopClearServ, SetServ, InitContext, Bind,
                TestBeforeListen, ListenReturns, Again, EndServ, EndState
  <2>3. pc'[t] # "send"
    BY <1>6 DEF Start, Stop, CallbackStops, CallStop, StopTestState, StopTestServ,
                StopClose, StopClearServ, SetServ, InitContext, Bind,
                TestBeforeListen, ListenReturns, Again, EndServ, EndState
  <2> QED
    BY <2>1, <2>2, <2>3
<1>7. CASE UNCHANGED vars
  BY <1>7 DEF vars
<1> QED
  BY <1>1, <1>2, <1>3, <1>4, <1>5, <1>6, <1>7 DEF Next, StopStep, RunStep

--------------------------------------------------------------------------------
(* Every step of a thread alone in the discoverer leaves it alone, and it   *)
(* closes only a context that is there.                                     *)
LEMMA AloneStep ==
    TypeOK /\ Roles /\ ServOwned /\ Alone /\ CloseIsSafeAlone /\ [Next]_vars
        => Alone' /\ CloseIsSafeAlone'
<1> SUFFICES ASSUME TypeOK, Roles, ServOwned, Alone, CloseIsSafeAlone, [Next]_vars
             PROVE Alone' /\ CloseIsSafeAlone'
  OBVIOUS
<1> USE ThreadAssumption
    DEF TypeOK, Alone, CloseIsSafeAlone, Threads, Goto, memory, locals, history
<1>1. ASSUME NEW t \in Threads, Start(t) \/ Stop(t)
      PROVE Alone' /\ CloseIsSafeAlone'
  <2>1. /\ ~shared' => ~shared /\ \A u \in Threads \ {t} : pc[u] = "idle"
        /\ \A u \in Threads \ {t} : pc'[u] = pc[u]
        /\ pc'[t] # "close" /\ undefined' = undefined
    BY <1>1 DEF Start, Stop, CallStop, Enter
  <2> QED
    BY <2>1
<1>2. ASSUME NEW t \in Threads, StopStep(t) \/ RunStep(t) \/ CallbackStops(t)
      PROVE Alone' /\ CloseIsSafeAlone'
  <2>1. /\ pc[t] # "idle" /\ shared' = shared
        /\ \A u \in Threads \ {t} : pc'[u] = pc[u]
    <3>1. CASE StopStep(t)
      BY <3>1 DEF StopStep, StopTestState, StopTestServ, StopClose, StopClearServ,
                  StopSetStopped
    <3>2. CASE RunStep(t) \/ CallbackStops(t)
      BY <3>2 DEF RunStep, CallbackStops, CallStop, SetState, SetServ, InitContext,
                  Bind, TestBeforeProbe, SendMessage, TestBeforeListen,
                  ListenReturns, Again, EndServ, EndState, Return
    <3> QED
      BY <1>2, <3>1, <3>2
  <2>2. ~shared' => \A u, w \in Threads : pc'[u] # "idle" /\ pc'[w] # "idle" => u = w
    BY <2>1
  <2>3. ~shared' => \A u \in Threads \ {t} : pc'[u] = "idle"
    BY <2>1
  <2>4. pc'[t] = "close" => serv' # Null /\ victim'[t] = serv'
    <3>1. CASE StopTestServ(t)
      BY <3>1 DEF StopTestServ
    <3>2. CASE ~StopTestServ(t)
      BY <1>2, <3>2
         DEF StopStep, StopTestState, StopClose, StopClearServ, StopSetStopped,
             RunStep, CallbackStops, CallStop, SetState, SetServ, InitContext,
             Bind, TestBeforeProbe, SendMessage, TestBeforeListen,
             ListenReturns, Again, EndServ, EndState, Return
    <3> QED
      BY <3>1, <3>2
  <2>5. CloseIsSafeAlone'
    <3>1. CASE StopClose(t)
      <4> SUFFICES ASSUME ~shared, undefined' = TRUE PROVE FALSE
        BY <2>1
      <4>1. serv # Null /\ victim[t] = serv /\ pc[t] = "close"
        BY <3>1 DEF StopClose
      <4>2. ~Ready(serv)
        BY <3>1, <4>1 DEF StopClose
      <4>3. serv \in Starters /\ Place(serv) \in {"init"} \cup ProbePlaces
        BY <4>1 DEF ServOwned, RunPlaces, EntryPlaces, ExitPlaces
      <4>4. pc[serv] # "idle"
        BY <4>3 DEF Place, ProbePlaces, StopPlaces
      <4>5. serv = t
        BY <4>1, <4>3, <4>4
      <4>6. Place(serv) \in {"set_state", "listen"}
        BY <4>1, <4>3, <4>5 DEF Place, StopPlaces, Roles
      <4> QED
        BY <4>2, <4>3, <4>6 DEF Ready, ProbePlaces
    <3>2. CASE ~StopClose(t)
      <4>1. undefined' = undefined
        BY <1>2, <3>2
           DEF StopStep, StopTestState, StopTestServ, StopClearServ, StopSetStopped,
               RunStep, CallbackStops, SetState, SetServ, InitContext,
               Bind, TestBeforeProbe, SendMessage, TestBeforeListen,
               ListenReturns, Again, EndServ, EndState, Return
      <4> QED
        BY <2>1, <4>1
    <3> QED
      BY <3>1, <3>2
  <2> QED
    BY <2>2, <2>3, <2>4, <2>5
<1>3. CASE UNCHANGED vars
  BY <1>3 DEF vars
<1> QED
  BY <1>1, <1>2, <1>3 DEF Next

--------------------------------------------------------------------------------
(* The discoverer as it is created satisfies the invariant. *)
LEMMA InitialState == Init => IInv
<1> SUFFICES ASSUME Init PROVE IInv
  OBVIOUS
<1> USE ThreadAssumption DEF Init, Threads
<1>1. TypeOK
  <2>1. 0 \in 0..MaxStarts /\ 0 \in 0..RetryCount /\ 0 \in Nat
    BY SMT
  <2> QED
    BY <2>1, Zenon DEF TypeOK, States, Places
<1>2. Roles /\ ServOwned /\ Cleared
  BY DEF Roles, ServOwned, Cleared, Place, StopPlaces, ProbePlaces
<1>3. Obeyed /\ StopIsPrompt /\ Alone /\ CloseIsSafeAlone
  BY DEF Obeyed, StopIsPrompt, Alone, CloseIsSafeAlone
<1> QED
  BY <1>1, <1>2, <1>3 DEF IInv

(* The inductive invariant holds in every state of every behaviour. *)
THEOREM Invariance == Spec => []IInv
<1>1. IInv /\ [Next]_vars => IInv'
  BY TypeStep, ServStep, ClearedStep, ObeyedStep, AloneStep DEF IInv
<1> QED
  BY <1>1, InitialState, PTL DEF Spec

(* Every variable keeps its type: no run sends more probes than retry_count. *)
THEOREM TypeCorrect == Spec => []TypeOK
BY Invariance, PTL DEF IInv

(* However the runs and the stops overlap, priv->serv points to the context *)
(* of a run that has not given it up, and the state says STOPPED when no    *)
(* run is under way.                                                        *)
THEOREM ServIsOwned == Spec => []ServOwned
BY Invariance, PTL DEF IInv

(* A run that was stopped sends one more probe at most, and only if the     *)
(* stop came between the last test and the message.                         *)
THEOREM StopsArePrompt == Spec => []StopIsPrompt
BY Invariance, PTL DEF IInv

(* stop closes a context that is not there only if two threads met in the   *)
(* discoverer.                                                              *)
THEOREM ClosesAreSafeAlone == Spec => []CloseIsSafeAlone
BY Invariance, PTL DEF IInv

(* stop returns at its tests only from a discoverer that is stopped, is     *)
(* being stopped, or is shared with another run.                            *)
THEOREM StopsAreNotLost == Spec => StopIsNotLost
<1> DEFINE Lost(s, t) ==
        /\ pc[s] \in {"stop", "test_serv"} /\ pc'[s] = back[s]
        /\ Place(t) \in ProbePlaces \ {"end_serv"}
        => \/ state = "STOPPED"
           \/ \E u \in Threads \ {s} : pc[u] \in StopPlaces
           \/ \E u \in Starters \ {t} : pc[u] # "idle"
<1>1. IInv /\ Next => \A s \in Threads, t \in Starters : Lost(s, t)
  <2> SUFFICES ASSUME IInv, Next, NEW s \in Threads, NEW t \in Starters,
                      pc[s] \in {"stop", "test_serv"}, pc'[s] = back[s],
                      Place(t) \in ProbePlaces \ {"end_serv"},
                      state # "STOPPED"
               PROVE  \/ \E u \in Threads \ {s} : pc[u] \in StopPlaces
                      \/ \E u \in Starters \ {t} : pc[u] # "idle"
    OBVIOUS
  <2>1. TypeOK /\ Roles /\ Cleared
    BY DEF IInv
  <2>2. back[s] \notin StopPlaces /\ pc[s] \in StopPlaces
    BY <2>1 DEF TypeOK, StopPlaces
  <2>3. StopTestState(s) \/ StopTestServ(s)
    <3>1. PICK u \in Threads :
              Start(u) \/ Stop(u) \/ StopStep(u) \/ RunStep(u) \/ CallbackStops(u)
      BY DEF Next
    <3>2. u = s
      BY <2>1, <2>2, <3>1
         DEF Start, Stop, StopStep, RunStep, CallbackStops, CallStop, StopTestState,
             StopTestServ, StopClose, StopClearServ, StopSetStopped, SetState,
             SetServ, InitContext, Bind, TestBeforeProbe, SendMessage,
             TestBeforeListen, ListenReturns, Again, EndServ, EndState, Return,
             Goto, TypeOK
    <3> QED
      BY <3>1, <3>2
         DEF Start, Stop, StopStep, RunStep, CallbackStops, StopClose,
             StopClearServ, StopSetStopped, SetState, SetServ, InitContext, Bind,
             TestBeforeProbe, SendMessage, TestBeforeListen, ListenReturns, Again,
             EndServ, EndState, Return
  <2>4. pc[s] = "test_serv" /\ serv = Null
    <3>1. CASE StopTestState(s)
      BY <2>1, <2>2, <3>1 DEF StopTestState, Goto, TypeOK, States, StopPlaces
    <3>2. CASE StopTestServ(s)
      BY <2>1, <2>2, <3>2 DEF StopTestServ, Goto, TypeOK, StopPlaces
    <3> QED
      BY <2>3, <3>1, <3>2
  <2>5. \/ \E u \in Threads : pc[u] = "set_stopped"
        \/ \E u \in Starters \ {t} : Place(u) \in {"set_serv", "end_state"}
    BY <2>1, <2>4 DEF Cleared, Probing
  <2> QED
    BY <2>4, <2>5 DEF Place, StopPlaces
<1>2. IInv /\ [Next]_vars => [\A s \in Threads, t \in Starters : Lost(s, t)]_vars
  BY <1>1
<1> QED
  BY <1>2, Invariance, PTL DEF Spec, StopIsNotLost
================================================================================
