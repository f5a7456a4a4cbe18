-------------------------- MODULE DxLoginDemoProofs --------------------------
(***************************************************************************)
(* That the sample unloads the library only when no thread is in it, for   *)
(* any number of logins and calls.                                         *)
(***************************************************************************)
EXTENDS DxLoginDemo, TLAPS

\* Where a thread holds the lock, where it has seen a session, and where the main
\* thread only shuts down.
Holding == {"load", "titleReady", "titleError"}
InSession == {"titleReady", "position", "show", "callback", "api"}
Leaving == {"stop", "pointer", "terminate", "wait", "release", "exited"}

TypeInv ==
  /\ DOMAIN pc = Threads
  /\ loaded \in BOOLEAN /\ ready \in BOOLEAN /\ hook \in BOOLEAN /\ inHook \in BOOLEAN
  /\ terminal \in BOOLEAN /\ refused \in BOOLEAN /\ stray \in BOOLEAN /\ terminated \in BOOLEAN

\* The lock keeps the other thread from loading, and from seeing half a session.
LockInv ==
  /\ \A t \in Threads : pc[t] \in Holding => sdkLock = t
  /\ \A t \in Threads : pc[t] = "load" => ready = FALSE

\* A session is there as long as somebody uses it.
SessionInv ==
  /\ loaded = ready
  /\ hook = TRUE => ready = TRUE
  /\ inHook = TRUE => ready = TRUE
  /\ \A t \in Threads : pc[t] \in InSession => ready = TRUE

\* The main thread leaves in order, and waits for the login thread before it unloads.
LeaveInv ==
  /\ pc["main"] \in Leaving => inHook = FALSE
  /\ pc["main"] \in {"release", "exited"} => Joined
  /\ pc["main"] = "terminate" => terminal = TRUE
  /\ terminal = TRUE => loaded = TRUE \/ refused = TRUE
  /\ stray = TRUE => refused = TRUE

Inv == TypeInv /\ LockInv /\ SessionInv /\ LeaveInv

LEMMA InvInit == Init => Inv
BY DEF Init, Inv, TypeInv, LockInv, SessionInv, LeaveInv, Holding, InSession, Leaving, Joined, Threads

LEMMA LockNext ==
  ASSUME Inv, NEW t \in Threads, Lock(t)
  PROVE  Inv'
<1> USE DEF Inv, TypeInv, LockInv, SessionInv, LeaveInv, Holding, InSession, Leaving, Joined, Threads
<1>1. UNCHANGED <<sdkVars, inHook, stray, terminated>> /\ pc[t] = "ensure" /\ sdkLock = "free"
  BY DEF Lock, At, sdkVars, exitVars
<1>2. CASE ready
  <2>1. pc' = [pc EXCEPT ![t] = Ensured(t)] /\ sdkLock' = "free"
    BY <1>1, <1>2 DEF Lock, Goto
  <2> QED BY <1>1, <1>2, <2>1 DEF Ensured, sdkVars
<1>3. CASE ~ready
  <2>1. pc' = [pc EXCEPT ![t] = "load"] /\ sdkLock' = t
    BY <1>1, <1>3 DEF Lock, Goto
  <2> QED BY <1>1, <1>3, <2>1 DEF sdkVars
<1> QED BY <1>2, <1>3

LEMMA LoadNext ==
  ASSUME Inv, NEW t \in Threads, NEW outcome \in {"ok", "missing", "refused"}, Load(t, outcome)
  PROVE  Inv'
<1> USE DEF Inv, TypeInv, LockInv, SessionInv, LeaveInv, Holding, InSession, Leaving, Joined, Threads
<1>1. /\ pc[t] = "load" /\ UNCHANGED <<sdkLock, inHook, stray, terminated>>
      /\ sdkLock = t /\ ready = FALSE /\ hook = FALSE /\ inHook = FALSE
  BY DEF Load, At, exitVars
<1>2. CASE outcome = "ok"
  <2>1. loaded' = TRUE /\ ready' = TRUE /\ terminal' = TRUE /\ refused' = refused /\ hook' \in BOOLEAN
    BY <1>2 DEF Load
  <2>2. pc' = [pc EXCEPT ![t] = "titleReady"]
    BY <1>2 DEF Load, Goto
  <2> QED BY <1>1, <2>1, <2>2
<1>3. CASE outcome # "ok"
  <2>1. loaded' = FALSE /\ ready' = FALSE /\ hook' = FALSE
    BY <1>1, <1>3 DEF Load
  <2>2. pc' = [pc EXCEPT ![t] = "titleError"]
    BY <1>3 DEF Load, Goto
  <2>3. refused' \in BOOLEAN /\ terminal' \in BOOLEAN /\ (refused = TRUE => refused' = TRUE)
    BY DEF Load
  <2>4. terminal' = TRUE => refused' = TRUE
    <3>1. CASE outcome = "refused"
      BY <3>1 DEF Load
    <3>2. CASE outcome = "missing"
      BY <1>1, <3>2 DEF Load
    <3> QED BY <1>3, <3>1, <3>2
  <2>5. terminal = TRUE => terminal' = TRUE
    BY DEF Load
  <2> QED BY <1>1, <2>1, <2>2, <2>3, <2>4, <2>5
<1> QED BY <1>2, <1>3

LEMMA SetReadyNext ==
  ASSUME Inv, NEW t \in Threads, SetReady(t)
  PROVE  Inv'
<1> USE DEF Inv, TypeInv, LockInv, SessionInv, LeaveInv, Holding, InSession, Leaving, Joined, Threads
<1>1. /\ UNCHANGED <<sdkVars, stray, terminated>> /\ sdkLock' = "free" /\ sdkLock = t
      /\ pc[t] \in {"titleReady", "titleError"}
  BY DEF SetReady, exitVars
<1>2. inHook' \in BOOLEAN /\ (inHook' = TRUE => inHook = TRUE)
  BY DEF SetReady
<1>3. CASE pc[t] = "titleReady"
  <2>1. pc' = [pc EXCEPT ![t] = Ensured(t)]
    BY <1>3 DEF SetReady, At, Goto
  <2> QED BY <1>1, <1>2, <1>3, <2>1 DEF Ensured, sdkVars
<1>4. CASE pc[t] = "titleError"
  <2>1. pc' = [pc EXCEPT ![t] = NotEnsured(t)]
    BY <1>4 DEF SetReady, At, Goto
  <2> QED BY <1>1, <1>2, <1>4, <2>1 DEF NotEnsured, sdkVars
<1> QED BY <1>1, <1>3, <1>4

LEMMA LoginNext ==
  ASSUME Inv, LoginSteps \/ LoginAnswered
  PROVE  Inv'
<1> USE DEF Inv, TypeInv, LockInv, SessionInv, LeaveInv, Holding, InSession, Leaving, Joined, Threads
<1>1. UNCHANGED <<sdkLock, sdkVars, inHook, stray, terminated>>
  BY DEF LoginSteps, LoginAnswered, LoginStarts, LoginCalls, LoginCallback, LoginEnds, exitVars
<1>2. CASE LoginStarts
  BY <1>1, <1>2 DEF LoginStarts, At, Goto, sdkVars
<1>3. CASE LoginCalls
  BY <1>1, <1>3 DEF LoginCalls, At, Goto, sdkVars
<1>4. CASE LoginAnswered
  BY <1>1, <1>4 DEF LoginAnswered, At, Goto, sdkVars
<1>5. CASE LoginCallback
  BY <1>1, <1>5 DEF LoginCallback, At, Goto, sdkVars
<1>6. CASE LoginEnds
  BY <1>1, <1>6 DEF LoginEnds, At, Goto, sdkVars
<1> QED BY <1>2, <1>3, <1>4, <1>5, <1>6 DEF LoginSteps

LEMMA MainNext ==
  ASSUME Inv, StartLogin \/ PressButton \/ DismissBox \/ CloseWindow \/ JoinAndStart \/ CallApi
              \/ Unwind \/ Stop \/ ReadPointer \/ WaitForLogin
  PROVE  Inv'
<1> USE DEF Inv, TypeInv, LockInv, SessionInv, LeaveInv, Holding, InSession, Leaving, Joined, Threads
<1>1. UNCHANGED <<loaded, ready, terminal, refused, stray, terminated>>
  BY DEF StartLogin, PressButton, DismissBox, CloseWindow, JoinAndStart, CallApi, Unwind, Stop,
         ReadPointer, WaitForLogin, sdkVars, exitVars
<1>2. CASE StartLogin \/ PressButton
  BY <1>1, <1>2 DEF StartLogin, PressButton, At, Goto, sdkVars
<1>3. CASE CloseWindow
  BY <1>1, <1>3 DEF CloseWindow, At, Goto, AfterDestroy
<1>4. CASE DismissBox \/ Unwind
  BY <1>1, <1>4 DEF DismissBox, Unwind, At, Goto, sdkVars
<1>5. CASE JoinAndStart
  <2>1. /\ pc["main"] = "join" /\ pc' = [main |-> "pump", login |-> "start"]
        /\ inHook' = FALSE /\ UNCHANGED <<sdkLock, hook>>
    BY <1>5 DEF JoinAndStart, At, sdkVars
  <2>2. /\ DOMAIN pc' = Threads /\ pc'["main"] = "pump" /\ pc'["login"] = "start"
    BY <2>1
  <2> QED BY <1>1, <2>1, <2>2
<1>6. CASE CallApi
  BY <1>1, <1>6 DEF CallApi, At, Goto, sdkVars
<1>7. CASE Stop \/ WaitForLogin
  BY <1>1, <1>7 DEF Stop, WaitForLogin, At, Goto, sdkVars
<1>8. CASE ReadPointer
  BY <1>1, <1>8 DEF ReadPointer, LockAfterPointer, At, Goto, sdkVars
<1> QED BY <1>2, <1>3, <1>4, <1>5, <1>6, <1>7, <1>8

\* igwTerminal, with what is known where it is called.
LEMMA CallOK ==
  ASSUME Inv, CallTerminal, terminal = TRUE
  PROVE  /\ terminated' = TRUE /\ hook' = FALSE /\ stray' \in BOOLEAN
         /\ stray' = TRUE => refused = TRUE
BY DEF CallTerminal, Inv, TypeInv, SessionInv, LeaveInv

LEMMA TerminateNext ==
  ASSUME Inv, Terminate \/ ReleaseSession
  PROVE  Inv'
<1> USE DEF Inv, TypeInv, LockInv, SessionInv, LeaveInv, Holding, InSession, Leaving, Joined, Threads
<1>1. CASE Terminate
  <2>1. /\ pc["main"] = "terminate" /\ pc' = [pc EXCEPT !["main"] = "wait"]
        /\ UNCHANGED <<sdkLock, loaded, ready, terminal, refused, inHook>>
    BY <1>1 DEF Terminate, At, Goto
  <2>2. terminated' = TRUE /\ hook' = FALSE /\ stray' \in BOOLEAN /\ (stray' = TRUE => refused = TRUE)
    BY <1>1, <2>1, CallOK DEF Terminate
  <2> QED BY <2>1, <2>2
<1>2. CASE ReleaseSession
  <2>1. /\ pc["main"] = "release" /\ pc' = [pc EXCEPT !["main"] = "exited"]
        /\ UNCHANGED <<sdkLock, refused, inHook>>
        /\ loaded' = FALSE /\ ready' = FALSE /\ terminal' = FALSE
    BY <1>2 DEF ReleaseSession, At, Goto
  <2>2. /\ terminated' \in BOOLEAN /\ hook' = FALSE /\ stray' \in BOOLEAN
        /\ stray' = TRUE => refused = TRUE
    <3>1. CASE terminal /\ ~terminated
      BY <1>2, <3>1, CallOK DEF ReleaseSession
    <3>2. CASE ~(terminal /\ ~terminated)
      <4>1. hook' = (hook /\ ~ready) /\ UNCHANGED <<terminated, stray>>
        BY <1>2, <3>2 DEF ReleaseSession, exitVars
      <4> QED BY <4>1
    <3> QED BY <3>1, <3>2
  <2> QED BY <2>1, <2>2
<1> QED BY <1>1, <1>2

LEMMA InvNext ==
  ASSUME Inv, [Next]_vars
  PROVE  Inv'
<1>1. CASE UNCHANGED vars
  BY <1>1 DEF vars, sdkVars, exitVars, Inv, TypeInv, LockInv, SessionInv, LeaveInv, Joined
<1> QED BY <1>1, LockNext, LoadNext, SetReadyNext, LoginNext, MainNext, TerminateNext
    DEF Next, EnsureSteps, ShutdownSteps

\* With the library unloaded no thread is in it and the window does not call it.
THEOREM UnloadIsSafe == Spec => []NoCodeAfterUnload
<1>1. Inv => NoCodeAfterUnload
  BY DEF Inv, TypeInv, SessionInv, LeaveInv, NoCodeAfterUnload, LoginInSdk, MainInSdk, InSession,
        Threads, At
<1> QED BY InvInit, InvNext, <1>1, PTL DEF Spec
=============================================================================
