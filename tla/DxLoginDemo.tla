---------------------------- MODULE DxLoginDemo ----------------------------
(***************************************************************************)
(* The DirectX sample (src/samples/dx_login_demo/main.cpp) as a client of  *)
(* the SDK: it loads sdologinsdk.dll from whichever thread needs it first, *)
(* logs in on a thread of its own, and unloads the library when its window *)
(* is gone.  The SDK puts a window procedure of its own on that window     *)
(* (src/src/sdk/directx_compat_adapter.cpp), so that the main thread runs  *)
(* code of the library whenever it handles a message.                      *)
(*                                                                         *)
(* A thread that sets the title of the window waits for the thread that    *)
(* owns it, the main thread, to handle the message.                        *)
(***************************************************************************)
EXTENDS Naturals

CONSTANTS
  MaxLogins,   \* bound: login threads
  MaxCalls     \* bound: buttons that call the SDK

ASSUME DemoAssumption == MaxLogins \in Nat /\ MaxCalls \in Nat

Threads == {"main", "login"}

VARIABLES
  pc,        \* what each thread does next
  window,    \* "open" or "destroyed"
  running,   \* g_loginRunning
  sdkLock,   \* who holds g_sdkMutex; g_loginThreadMutex is only used by one thread
  loaded,    \* the library is in the process
  ready,     \* g_sdkReady
  terminal,  \* g_igwTerminal is set
  hook,      \* g_ownerHook.window is set: the SDK's procedure is on the window
  inHook,    \* the main thread is in that procedure
  terminated, \* igwTerminal was called during the shutdown
  \* history
  refused,   \* the SDK lacked a function or refused to initialize
  stray,     \* igwTerminal was called with the library unloaded
  logins, calls

sdkVars  == <<loaded, ready, terminal, hook, refused>>
exitVars == <<terminated, stray>>
vars == <<pc, window, running, sdkLock, sdkVars, inHook, exitVars, logins, calls>>

Init ==
  /\ pc = [t \in Threads |-> IF t = "main" THEN "pump" ELSE "none"]
  /\ window = "open"
  /\ running = FALSE
  /\ sdkLock = "free"
  /\ loaded = FALSE /\ ready = FALSE /\ terminal = FALSE /\ hook = FALSE /\ refused = FALSE
  /\ inHook = FALSE
  /\ terminated = FALSE /\ stray = FALSE
  /\ logins = 0 /\ calls = 0

Goto(t, label) == pc' = [pc EXCEPT ![t] = label]
At(t, label) == pc[t] = label

-----------------------------------------------------------------------------
(* ensureSdkSession, on either thread                                      *)

\* What a thread does when there is a session, and when there is none.
Ensured(t) == IF t = "main" THEN "api" ELSE "position"
NotEnsured(t) == IF t = "main" THEN "pump" ELSE "failed"

Lock(t) ==
  /\ At(t, "ensure")
  /\ sdkLock = "free"
  /\ IF ready
     THEN Goto(t, Ensured(t)) /\ UNCHANGED sdkLock
     ELSE Goto(t, "load") /\ sdkLock' = t
  /\ UNCHANGED <<window, running, sdkVars, inHook, exitVars, logins, calls>>

\* LoadLibrary, igwInitialize, and the modules: ISDOADx9::Initialize hooks the window.
\* A library that lacks a function or refuses is unloaded, its functions kept.
Load(t, outcome) ==
  /\ At(t, "load")
  /\ loaded' = (outcome = "ok")
  /\ ready' = (outcome = "ok")
  /\ terminal' = (outcome # "missing" \/ terminal)
  /\ hook' = (hook \/ (outcome = "ok" /\ window = "open"))
  /\ refused' = (refused \/ outcome = "refused")
  /\ Goto(t, IF outcome = "ok" THEN "titleReady" ELSE "titleError")
  /\ UNCHANGED <<window, running, sdkLock, inHook, exitVars, logins, calls>>

\* setStatus: a message to the main thread, which answers when it waits for messages.
TitleIsSet(t) == t = "main" \/ window = "destroyed" \/ pc["main"] \in {"pump", "box"}

\* setStatus at the end, under the lock
SetReady(t) ==
  /\ pc[t] \in {"titleReady", "titleError"}
  /\ TitleIsSet(t)
  /\ sdkLock' = "free"
  /\ Goto(t, IF At(t, "titleReady") THEN Ensured(t) ELSE NotEnsured(t))
  /\ inHook' = (inHook /\ ~(t = "main" /\ At(t, "titleError")))
  /\ UNCHANGED <<window, running, sdkVars, exitVars, logins, calls>>

-----------------------------------------------------------------------------
(* The login thread: runSdoaLogin                                          *)

LoginStarts ==
  /\ At("login", "start")
  /\ running' = TRUE
  /\ Goto("login", "ensure")
  /\ UNCHANGED <<window, sdkLock, sdkVars, inHook, exitVars, logins, calls>>

\* MoveLoginDialog and a title, then ShowLoginDialog.
LoginCalls ==
  /\ At("login", "position")
  /\ TitleIsSet("login")
  /\ Goto("login", "show")
  /\ UNCHANGED <<window, running, sdkLock, sdkVars, inHook, exitVars, logins, calls>>

\* The user ends the login, or sdologin ends because its owner window is gone or it
\* was stopped; the SDK calls sdoaLoginCallback, which sets the title and shows a box.
LoginAnswered ==
  /\ At("login", "show")
  /\ Goto("login", "callback")
  /\ UNCHANGED <<window, running, sdkLock, sdkVars, inHook, exitVars, logins, calls>>

LoginCallback ==
  /\ At("login", "callback")
  /\ TitleIsSet("login")
  /\ Goto("login", "returned")
  /\ UNCHANGED <<window, running, sdkLock, sdkVars, inHook, exitVars, logins, calls>>

LoginEnds ==
  /\ \/ At("login", "returned") /\ TitleIsSet("login")
     \/ At("login", "failed")
  /\ running' = FALSE
  /\ Goto("login", "ended")
  /\ UNCHANGED <<window, sdkLock, sdkVars, inHook, exitVars, logins, calls>>

-----------------------------------------------------------------------------
(* The main thread: messages                                               *)

\* Mutant: the thread is detached, and nobody waits for it.
NeverWaits == TRUE

\* The thread is not joinable, or join() returns.
Joined == pc["login"] \in {"none", "ended"}

\* The L key, a double click or the button: startLoginThread.
StartLogin ==
  /\ At("main", "pump") /\ window = "open"
  /\ logins < MaxLogins
  /\ ~running
  /\ inHook' = hook
  /\ Goto("main", "join")
  /\ UNCHANGED <<window, running, sdkLock, sdkVars, exitVars, logins, calls>>

JoinAndStart ==
  /\ At("main", "join")
  /\ Joined
  /\ pc' = [main |-> "pump", login |-> "start"]
  /\ logins' = logins + 1
  /\ inHook' = FALSE
  /\ UNCHANGED <<window, running, sdkLock, sdkVars, exitVars, calls>>

\* Another button: handleApiAction.
PressButton ==
  /\ At("main", "pump") /\ window = "open"
  /\ calls < MaxCalls
  /\ calls' = calls + 1
  /\ inHook' = hook
  /\ Goto("main", "ensure")
  /\ UNCHANGED <<window, running, sdkLock, sdkVars, exitVars, logins>>

\* The call of the SDK, and the box with its result, which handles messages.
CallApi ==
  /\ At("main", "api")
  /\ Goto("main", "box")
  /\ UNCHANGED <<window, running, sdkLock, sdkVars, inHook, exitVars, logins, calls>>

DismissBox ==
  /\ At("main", "box")
  /\ Goto("main", "pump")
  /\ inHook' = FALSE
  /\ UNCHANGED <<window, running, sdkLock, sdkVars, exitVars, logins, calls>>

\* Mutant: the session is released in WM_DESTROY.
ReleaseAtOnce == "stop"

\* WM_DESTROY only posts the message that ends the loop.
AfterDestroy == "unwind"

\* WM_CLOSE destroys the window; WM_NCDESTROY takes the SDK's procedure off it.
CloseWindow ==
  /\ At("main", "pump") /\ window = "open"
  /\ window' = "destroyed"
  /\ inHook' = hook
  /\ hook' = FALSE
  /\ Goto("main", AfterDestroy)
  /\ UNCHANGED <<running, sdkLock, loaded, ready, terminal, refused, exitVars, logins, calls>>

\* The window procedure returns, and GetMessage ends the loop.
Unwind ==
  /\ At("main", "unwind")
  /\ inHook' = FALSE
  /\ Goto("main", "stop")
  /\ UNCHANGED <<window, running, sdkLock, sdkVars, exitVars, logins, calls>>

-----------------------------------------------------------------------------
(* The main thread: releaseSdkSession                                      *)

\* stopLoginThreadForSdkUnload
Stop ==
  /\ At("main", "stop")
  /\ Goto("main", IF running THEN "pointer" ELSE "wait")
  /\ UNCHANGED <<window, running, sdkLock, sdkVars, inHook, exitVars, logins, calls>>

\* Mutant: the lock is kept until the function returns.
LockKept == "main"

LockAfterPointer == "free"

\* g_igwTerminal is read under the lock and called without it.
ReadPointer ==
  /\ At("main", "pointer")
  /\ sdkLock = "free"
  /\ sdkLock' = LockAfterPointer
  /\ Goto("main", IF terminal THEN "terminate" ELSE "wait")
  /\ UNCHANGED <<window, running, sdkVars, inHook, exitVars, logins, calls>>

CallTerminal ==
  /\ terminated' = TRUE
  /\ stray' = (stray \/ ~loaded)
  /\ hook' = FALSE

Terminate ==
  /\ At("main", "terminate")
  /\ CallTerminal
  /\ Goto("main", "wait")
  /\ UNCHANGED <<window, running, sdkLock, loaded, ready, terminal, refused, inHook, logins, calls>>

WaitForLogin ==
  /\ At("main", "wait")
  /\ Joined
  /\ Goto("main", "release")
  /\ UNCHANGED <<window, running, sdkLock, sdkVars, inHook, exitVars, logins, calls>>

\* Finalize, the modules, igwTerminal unless it was called, and FreeLibrary.
ReleaseSession ==
  /\ At("main", "release")
  /\ sdkLock \in {"free", "main"}
  /\ IF terminal /\ ~terminated
     THEN CallTerminal
     ELSE hook' = (hook /\ ~ready) /\ UNCHANGED exitVars
  /\ loaded' = FALSE
  /\ ready' = FALSE
  /\ terminal' = FALSE
  /\ Goto("main", "exited")
  /\ UNCHANGED <<window, running, sdkLock, refused, inHook, logins, calls>>

LoginSteps == LoginStarts \/ LoginCalls \/ LoginCallback \/ LoginEnds
EnsureSteps(t) ==
  Lock(t) \/ SetReady(t) \/ \E outcome \in {"ok", "missing", "refused"} : Load(t, outcome)
ShutdownSteps ==
  JoinAndStart \/ CallApi \/ Unwind \/ Stop \/ ReadPointer \/ Terminate \/ WaitForLogin
    \/ ReleaseSession

Next ==
  \/ LoginSteps \/ LoginAnswered
  \/ \E t \in Threads : EnsureSteps(t)
  \/ StartLogin \/ PressButton \/ DismissBox \/ CloseWindow
  \/ ShutdownSteps

Spec == Init /\ [][Next]_vars

\* Threads run.  What the user does need not happen, but a login ends once the window
\* is gone: sdologin watches its owner.
FairSpec ==
  /\ Spec
  /\ WF_vars(LoginSteps)
  /\ \A t \in Threads : WF_vars(EnsureSteps(t))
  /\ WF_vars(ShutdownSteps)
  /\ WF_vars(LoginAnswered /\ window = "destroyed")

-----------------------------------------------------------------------------
(* Properties                                                              *)

LoginInSdk == pc["login"] \in {"show", "callback"}
MainInSdk == inHook \/ At("main", "api")

\* With the library unloaded no thread is in it, and the window does not call it;
\* igwTerminal is called then only by way of the pointer that a library that refused
\* leaves behind (docs/sdoa4client_dx_demo_20260518.md:93-107,
\* dx_login_demo/main.cpp:301-335, 462-481).
NoCodeAfterUnload ==
  /\ ~loaded => ~LoginInSdk /\ ~MainInSdk /\ ~hook
  /\ stray => refused

\* Once the window is gone the program ends, wherever the login thread was
\* (dx_login_demo/main.cpp:301-335, 462-481, 753).
ShutdownCompletes == (window = "destroyed") ~> At("main", "exited")
=============================================================================
