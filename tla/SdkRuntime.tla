----------------------------- MODULE SdkRuntime -----------------------------
(***************************************************************************)
(* The login core of the SDK: SdkRuntime (src/src/sdk/sdk_runtime.cpp)     *)
(* called by several application threads, the sdologin processes it        *)
(* launches (src/src/sdologin/main.cpp), and the named pipe between them   *)
(* (src/src/ipc/named_pipe.cpp).                                           *)
(*                                                                         *)
(* Every critical section on mutex_ is one action.  Between two of them a  *)
(* thread owns only its locals, so the control state pc of a thread marks  *)
(* the points of showLoginDialog where another thread, the login process   *)
(* or the user can get in between.                                         *)
(*                                                                         *)
(* One request id is drawn for one launched process, one pipe and one      *)
(* duplicated process handle, so all three are named by the request id.    *)
(***************************************************************************)
EXTENDS Integers, Sequences, FiniteSets

CONSTANTS
  Threads,      \* application threads that call into the SDK
  Windows,      \* game windows that can become the owner of the dialog
  NoWindow,     \* a null HWND
  Sessions,     \* sessions the application logs in with directly: negative, unlike request ids
  MaxAttempts,  \* 2, or 1 under QTLOGIN_DISABLE_LOGIN_PROCESS_RELAUNCH
  MaxLogins,    \* bound: how many showLoginDialog calls are made
  MaxRequests   \* bound: how many request ids are drawn

ASSUME SdkAssumption ==
  /\ NoWindow \notin Windows
  /\ Sessions \subseteq {n \in Int : n < 0}
  /\ MaxAttempts \in Nat \ {0}
  /\ MaxLogins \in Nat
  /\ MaxRequests \in Nat
  /\ MaxRequests >= MaxLogins * MaxAttempts

VARIABLES
  \* members of SdkRuntime, guarded by mutex_
  initialized,      \* initialized_
  activeProcess,    \* activeLoginProcess_: a handle, or 0 for nullptr
  activeRequest,    \* activeLoginRequestId_
  nextRequestId,    \* nextRequestId_
  cache,            \* lastTicket_ and lastSndaid_: which login filled each of them
  ownerWindow,      \* ownerWindow_
  directXOwner,     \* directXOwner_
  attachMode,       \* loginMode_ = AttachToLoginMode
  \* locals of the threads
  pc, attempt, request, held, snapshot, received, lastError,
  \* the login processes, their duplicated handles and their pipes
  proc, handle, pipe, toSdk, toLogin, shownIn,
  \* the windows of the game that still exist
  alive,
  \* history: how the latest call of a thread ended, what the user decided,
  \* how many logins were started
  returned, callbacks, decided, logins

sdkVars     == <<initialized, activeProcess, activeRequest, nextRequestId, cache,
                 ownerWindow, directXOwner, attachMode>>
threadVars  == <<pc, attempt, request, held, snapshot, received, lastError>>
processVars == <<proc, handle, pipe, toSdk, toLogin, shownIn>>
historyVars == <<returned, callbacks, decided, logins>>
vars == <<sdkVars, threadVars, processVars, alive, historyVars>>

Requests  == 1..MaxRequests
NoHandle  == 0
Handles   == Requests \cup {NoHandle}
Owners    == Windows \cup {NoWindow}
Snapshots == [owner : Owners, embed : BOOLEAN]
NoSnapshot == [owner |-> NoWindow, embed |-> FALSE]

\* The login a cached string comes from: none (the string is empty), a session
\* the application recorded directly, or the login of a request.
Empty   == 0
Logins  == Requests \cup Sessions \cup {Empty}
NoLogin == [ticket |-> Empty, sndaid |-> Empty]

\* What sdologin answers: makeQtResultMessage knows no other result type.
Outcomes == {"LoginSuccess", "LoginCancel"}
None     == "none"
Codes    == {"OK", "FAILED", "LOGINCANCEL"}

Stages ==
  {"idle", "launch", "install", "stopPrevious", "listen", "hello", "ack", "show",
   "result", "stopFailed", "clear", "record", "callback", "stopTaken"}

\* The stages at which a launched process belongs to the attempt of its thread.
Attending == {"install", "stopPrevious", "listen", "hello", "ack", "show", "result",
              "stopFailed", "clear"}

ProcessStates ==
  {"none", "connecting", "connected", "helloSent", "acked", "dialog", "exiting", "exited"}

HandleStates == {"none", "open", "closed", "closedTwice"}
PipeStates   == {"none", "listening", "connected", "closed"}

\* The messages of the two directions.
Replies  == Outcomes \cup {"Hello"}
Commands == {"HelloAck", "ShowLogin"}

Running(r) == proc[r] \notin {"none", "exited"}

-----------------------------------------------------------------------------
Init ==
  /\ initialized = FALSE
  /\ activeProcess = NoHandle
  /\ activeRequest = 0
  /\ nextRequestId = 1
  /\ cache = NoLogin
  /\ ownerWindow = NoWindow
  /\ directXOwner = FALSE
  /\ attachMode = FALSE
  /\ pc = [t \in Threads |-> "idle"]
  /\ attempt = [t \in Threads |-> 0]
  /\ request = [t \in Threads |-> 0]
  /\ held = [t \in Threads |-> NoHandle]
  /\ snapshot = [t \in Threads |-> NoSnapshot]
  /\ received = [t \in Threads |-> None]
  /\ lastError = [t \in Threads |-> "FAILED"]
  /\ proc = [r \in Requests |-> "none"]
  /\ handle = [r \in Requests |-> "none"]
  /\ pipe = [r \in Requests |-> "none"]
  /\ toSdk = [r \in Requests |-> <<>>]
  /\ toLogin = [r \in Requests |-> <<>>]
  /\ shownIn = [r \in Requests |-> NoSnapshot]
  /\ alive = Windows
  /\ returned = [t \in Threads |-> None]
  /\ callbacks = [t \in Threads |-> 0]
  /\ decided = [r \in Requests |-> None]
  /\ logins = 0

-----------------------------------------------------------------------------
(* Helpers                                                                 *)

Goto(t, stage) == pc' = [pc EXCEPT ![t] = stage]

\* CloseHandle: a handle that is not open is somebody else's by now.
CloseOf(h) == [handle EXCEPT ![h] = IF @ = "open" THEN "closed" ELSE "closedTwice"]

\* Mutant: the handle is closed, the process runs on.
OnlyClose(h) ==
  IF h = NoHandle
  THEN UNCHANGED <<proc, handle>>
  ELSE handle' = CloseOf(h) /\ UNCHANGED proc

\* stopAndCloseProcess: a null handle is ignored, a live process is terminated.
StopAndClose(h) ==
  IF h = NoHandle
  THEN UNCHANGED <<proc, handle>>
  ELSE /\ proc' = [proc EXCEPT ![h] = "exited"]
       /\ handle' = CloseOf(h)

\* Mutant: the process in the slot is taken whoever installed it.
TakenFromAnyone(t) == activeProcess

\* takeActiveProcess: the slot is emptied only if it is still this request's.
Taken(t) == IF activeRequest = request[t] THEN activeProcess ELSE NoHandle
TakeActive(t) ==
  IF activeRequest = request[t]
  THEN activeProcess' = NoHandle /\ activeRequest' = 0
  ELSE UNCHANGED <<activeProcess, activeRequest>>

\* The first half of failActiveLogin: take the slot, remember the error.  The
\* second half, stopping what was taken, happens outside the lock (StopFailed).
FailActiveLogin(t, code) ==
  /\ TakeActive(t)
  /\ held' = [held EXCEPT ![t] = Taken(t)]
  /\ lastError' = [lastError EXCEPT ![t] = code]
  /\ Goto(t, "stopFailed")

\* The end of an attempt: the destructors close the connection, and what nobody
\* has read is gone with it.
ClosePipe(r) ==
  /\ pipe' = [pipe EXCEPT ![r] = "closed"]
  /\ toSdk' = [toSdk EXCEPT ![r] = <<>>]
  /\ toLogin' = [toLogin EXCEPT ![r] = <<>>]

\* `continue` in the attempt loop.
NextAttempt(t) ==
  /\ attempt' = [attempt EXCEPT ![t] = @ + 1]
  /\ Goto(t, "launch")
  /\ ClosePipe(request[t])

\* The locals of the call, before it starts and after it returned.
FreshLocals(t) ==
  /\ attempt' = [attempt EXCEPT ![t] = 0]
  /\ received' = [received EXCEPT ![t] = None]
  /\ lastError' = [lastError EXCEPT ![t] = "FAILED"]

Return(t, code) ==
  /\ returned' = [returned EXCEPT ![t] = code]
  /\ FreshLocals(t)
  /\ snapshot' = [snapshot EXCEPT ![t] = NoSnapshot]
  /\ Goto(t, "idle")

\* Mutant: a cancelled login is reported as failed.
ResultCodeWithoutCancel(type) == IF type = "LoginSuccess" THEN "OK" ELSE "FAILED"

ResultCode(type) ==
  CASE type = "LoginSuccess" -> "OK"
    [] type = "LoginCancel"  -> "LOGINCANCEL"
    [] OTHER                 -> "FAILED"

\* Writing to a pipe fails once the process at its other end is gone.
CanSend(r) == Running(r)

\* What was written before the writer died can still be read.
CanReceive(r) == toSdk[r] # <<>>

\* Mutants: the end of the process discards what it wrote, a read does not wait,
\* a read does not notice the end of the process.
BrokenAtExit(r)   == ~Running(r)
BrokenIfEmpty(r)  == toSdk[r] = <<>>
NeverBroken(r)    == FALSE

PipeBroken(r) == toSdk[r] = <<>> /\ ~Running(r)

\* Mutant: one attempt too many.
OneMoreAttempt(t) == attempt[t] <= MaxAttempts

\* The condition of the attempt loop.
AttemptLeft(t) == attempt[t] < MaxAttempts

-----------------------------------------------------------------------------
(* showLoginDialog                                                         *)

\* The call is refused, or the settings of the SDK are copied under the lock.
ShowLoginDialog(t) ==
  /\ pc[t] = "idle"
  /\ logins < MaxLogins
  /\ logins' = logins + 1
  /\ callbacks' = [callbacks EXCEPT ![t] = 0]
  /\ \/ ~initialized /\ Return(t, "FAILED")
     \/ /\ initialized
        /\ snapshot' = [snapshot EXCEPT ![t] =
                          [owner |-> ownerWindow, embed |-> directXOwner \/ attachMode]]
        /\ FreshLocals(t)
        /\ returned' = [returned EXCEPT ![t] = None]
        /\ Goto(t, "launch")
  /\ UNCHANGED <<sdkVars, request, held, processVars, alive, decided>>

\* A request id, then CreateProcess, which may fail.
Launch(t) ==
  /\ pc[t] = "launch"
  /\ AttemptLeft(t)
  /\ nextRequestId \in Requests
  /\ nextRequestId' = nextRequestId + 1
  /\ request' = [request EXCEPT ![t] = nextRequestId]
  /\ \/ /\ proc' = [proc EXCEPT ![nextRequestId] = "connecting"]
        /\ Goto(t, "install")
        /\ UNCHANGED <<attempt, lastError>>
     \/ /\ lastError' = [lastError EXCEPT ![t] = "FAILED"]
        /\ attempt' = [attempt EXCEPT ![t] = @ + 1]
        /\ UNCHANGED <<pc, proc>>
  /\ UNCHANGED <<initialized, activeProcess, activeRequest, cache, ownerWindow, directXOwner,
                 attachMode, held, snapshot, received, handle, pipe, toSdk, toLogin,
                 shownIn, alive, historyVars>>

\* DuplicateHandle failed: the process is terminated through its own handle.
DuplicateFails(t) ==
  /\ pc[t] = "install"
  /\ proc' = [proc EXCEPT ![request[t]] = "exited"]
  /\ lastError' = [lastError EXCEPT ![t] = "FAILED"]
  /\ NextAttempt(t)
  /\ UNCHANGED <<sdkVars, request, held, snapshot, received, handle, shownIn, alive,
                 historyVars>>

\* The duplicate goes into the slot; what was there is stopped outside the lock.
Install(t) ==
  /\ pc[t] = "install"
  /\ handle' = [handle EXCEPT ![request[t]] = "open"]
  /\ held' = [held EXCEPT ![t] = activeProcess]
  /\ activeProcess' = request[t]
  /\ activeRequest' = request[t]
  /\ Goto(t, "stopPrevious")
  /\ UNCHANGED <<initialized, nextRequestId, cache, ownerWindow, directXOwner, attachMode,
                 attempt, request, snapshot, received, lastError, proc, pipe, toSdk,
                 toLogin, shownIn, alive, historyVars>>

StopPrevious(t) ==
  /\ pc[t] = "stopPrevious"
  /\ StopAndClose(held[t])
  /\ held' = [held EXCEPT ![t] = NoHandle]
  /\ Goto(t, "listen")
  /\ UNCHANGED <<sdkVars, attempt, request, snapshot, received, lastError, pipe, toSdk,
                 toLogin, shownIn, alive, historyVars>>

\* PipeServer::listen creates the pipe and waits for the process to connect.
Listen(t) ==
  /\ pc[t] = "listen"
  /\ pipe[request[t]] = "none"
  /\ pipe' = [pipe EXCEPT ![request[t]] = "listening"]
  /\ UNCHANGED <<sdkVars, threadVars, proc, handle, toSdk, toLogin, shownIn, alive,
                 historyVars>>

Accept(t) ==
  /\ pc[t] = "listen"
  /\ pipe[request[t]] = "connected"
  /\ Goto(t, "hello")
  /\ UNCHANGED <<sdkVars, attempt, request, held, snapshot, received, lastError,
                 processVars, alive, historyVars>>

\* The 10 s of listen have passed, or the pipe could not be created.
ListenFails(t) ==
  /\ pc[t] = "listen"
  /\ pipe[request[t]] \in {"none", "listening"}
  /\ pipe' = [pipe EXCEPT ![request[t]] = "closed"]
  /\ FailActiveLogin(t, "FAILED")
  /\ UNCHANGED <<initialized, nextRequestId, cache, ownerWindow, directXOwner, attachMode,
                 attempt, request, snapshot, received, proc, handle, toSdk, toLogin,
                 shownIn, alive, historyVars>>

ReceiveHello(t) ==
  LET r == request[t] IN
  /\ pc[t] = "hello"
  /\ CanReceive(r)
  /\ Head(toSdk[r]) = "Hello"
  /\ toSdk' = [toSdk EXCEPT ![r] = Tail(@)]
  /\ Goto(t, "ack")
  /\ UNCHANGED <<sdkVars, attempt, request, held, snapshot, received, lastError, proc,
                 handle, pipe, toLogin, shownIn, alive, historyVars>>

SendHelloAck(t) ==
  LET r == request[t] IN
  /\ pc[t] = "ack"
  /\ CanSend(r)
  /\ toLogin' = [toLogin EXCEPT ![r] = Append(@, "HelloAck")]
  /\ Goto(t, "show")
  /\ UNCHANGED <<sdkVars, attempt, request, held, snapshot, received, lastError, proc,
                 handle, pipe, toSdk, shownIn, alive, historyVars>>

\* The snapshot taken when the call was made travels with ShowLogin.
SendShowLogin(t) ==
  LET r == request[t] IN
  /\ pc[t] = "show"
  /\ CanSend(r)
  /\ toLogin' = [toLogin EXCEPT ![r] = Append(@, "ShowLogin")]
  /\ shownIn' = [shownIn EXCEPT ![r] = snapshot[t]]
  /\ Goto(t, "result")
  /\ UNCHANGED <<sdkVars, attempt, request, held, snapshot, received, lastError, proc,
                 handle, pipe, toSdk, alive, historyVars>>

\* Hello, the acknowledgement or ShowLogin fails, or the process is gone
\* before it sent a result.
HandshakeFails(t) ==
  LET r == request[t] IN
  /\ \/ pc[t] = "hello" /\ PipeBroken(r) /\ FailActiveLogin(t, "FAILED")
     \/ pc[t] \in {"ack", "show"} /\ ~CanSend(r) /\ FailActiveLogin(t, "FAILED")
     \/ pc[t] = "result" /\ PipeBroken(r) /\ FailActiveLogin(t, "LOGINCANCEL")
  /\ UNCHANGED <<initialized, nextRequestId, cache, ownerWindow, directXOwner, attachMode,
                 attempt, request, snapshot, received, processVars, alive, historyVars>>

\* The second half of failActiveLogin, and `continue`.
StopFailed(t) ==
  /\ pc[t] = "stopFailed"
  /\ StopAndClose(held[t])
  /\ held' = [held EXCEPT ![t] = NoHandle]
  /\ NextAttempt(t)
  /\ UNCHANGED <<sdkVars, request, snapshot, received, lastError, shownIn, alive,
                 historyVars>>

ReceiveResult(t) ==
  LET r == request[t] IN
  /\ pc[t] = "result"
  /\ CanReceive(r)
  /\ received' = [received EXCEPT ![t] = Head(toSdk[r])]
  /\ toSdk' = [toSdk EXCEPT ![r] = Tail(@)]
  /\ Goto(t, "clear")
  /\ UNCHANGED <<sdkVars, attempt, request, held, snapshot, lastError, proc, handle, pipe,
                 toLogin, shownIn, alive, historyVars>>

\* wait(2000), which need not see the process end, then clearActiveProcess:
\* the handle is closed, the process is left alone.
ClearActive(t) ==
  /\ pc[t] = "clear"
  /\ TakeActive(t)
  /\ handle' = IF Taken(t) = NoHandle THEN handle ELSE CloseOf(Taken(t))
  /\ ClosePipe(request[t])
  /\ Goto(t, "record")
  /\ UNCHANGED <<initialized, nextRequestId, cache, ownerWindow, directXOwner, attachMode,
                 attempt, request, held, snapshot, received, lastError, proc, shownIn,
                 alive, historyVars>>

\* A success fills the login cache under the lock.
Record(t) ==
  /\ pc[t] = "record"
  /\ cache' = IF received[t] = "LoginSuccess"
              THEN [ticket |-> request[t], sndaid |-> request[t]]
              ELSE cache
  /\ Goto(t, "callback")
  /\ UNCHANGED <<initialized, activeProcess, activeRequest, nextRequestId, ownerWindow,
                 directXOwner, attachMode, attempt, request, held, snapshot, received,
                 lastError, processVars, alive, historyVars>>

\* The callback of the application runs, then the call returns.
Callback(t) ==
  /\ pc[t] = "callback"
  /\ callbacks' = [callbacks EXCEPT ![t] = @ + 1]
  /\ Return(t, ResultCode(received[t]))
  /\ UNCHANGED <<sdkVars, request, held, processVars, alive, decided, logins>>

\* No attempt is left: lastError is returned and no callback is made.
GiveUp(t) ==
  /\ pc[t] = "launch"
  /\ ~AttemptLeft(t)
  /\ Return(t, lastError[t])
  /\ UNCHANGED <<sdkVars, request, held, processVars, alive, callbacks, decided, logins>>

-----------------------------------------------------------------------------
(* The other entry points of SdkRuntime                                    *)

Control(t) ==
  /\ pc[t] = "idle"
  /\ UNCHANGED <<nextRequestId, attempt, request, snapshot, received, lastError,
                 processVars, alive, historyVars>>

Initialize(t) ==
  /\ Control(t)
  /\ initialized' = TRUE
  /\ cache' = NoLogin
  /\ UNCHANGED <<activeProcess, activeRequest, ownerWindow, directXOwner, attachMode, pc,
                 held>>

\* Mutant: the slot is emptied, what was in it is forgotten.
ForgetSlot(t) ==
  /\ activeProcess' = NoHandle
  /\ activeRequest' = 0
  /\ Goto(t, "stopTaken")
  /\ UNCHANGED held

\* The slot is emptied under the lock, whoever it belongs to.
EmptySlot(t) ==
  /\ held' = [held EXCEPT ![t] = activeProcess]
  /\ activeProcess' = NoHandle
  /\ activeRequest' = 0
  /\ Goto(t, "stopTaken")

Terminal(t) ==
  /\ Control(t)
  /\ EmptySlot(t)
  /\ initialized' = FALSE
  /\ ownerWindow' = NoWindow
  /\ attachMode' = FALSE
  /\ directXOwner' = FALSE
  /\ cache' = NoLogin

CloseLoginDialog(t) ==
  /\ Control(t)
  /\ EmptySlot(t)
  /\ UNCHANGED <<initialized, cache, ownerWindow, directXOwner, attachMode>>

\* What terminal and closeLoginDialog took is stopped outside the lock.
StopTaken(t) ==
  /\ pc[t] = "stopTaken"
  /\ StopAndClose(held[t])
  /\ held' = [held EXCEPT ![t] = NoHandle]
  /\ Goto(t, "idle")
  /\ UNCHANGED <<sdkVars, attempt, request, snapshot, received, lastError, pipe, toSdk,
                 toLogin, shownIn, alive, historyVars>>

\* Mutant: the sndaid survives the logout.
LogoutKeepsSndaid(t) ==
  /\ Control(t)
  /\ cache' = [cache EXCEPT !.ticket = Empty]
  /\ UNCHANGED <<initialized, activeProcess, activeRequest, ownerWindow, directXOwner,
                 attachMode, pc, held>>

Logout(t) ==
  /\ Control(t)
  /\ cache' = NoLogin
  /\ UNCHANGED <<initialized, activeProcess, activeRequest, ownerWindow, directXOwner,
                 attachMode, pc, held>>

\* Mutant: the new ticket next to the sndaid of the previous login.
RecordTicketOnly(t, session) ==
  /\ Control(t)
  /\ cache' = [cache EXCEPT !.ticket = session]
  /\ UNCHANGED <<initialized, activeProcess, activeRequest, ownerWindow, directXOwner,
                 attachMode, pc, held>>

\* recordLoginResult: its only caller, LoginDirect, has no sndaid to record.
RecordLoginResult(t, session) ==
  /\ Control(t)
  /\ cache' = [ticket |-> session, sndaid |-> Empty]
  /\ UNCHANGED <<initialized, activeProcess, activeRequest, ownerWindow, directXOwner,
                 attachMode, pc, held>>

SetOwnerWindow(t, w) ==
  /\ Control(t)
  /\ ownerWindow' = w
  /\ UNCHANGED <<initialized, activeProcess, activeRequest, cache, directXOwner, attachMode,
                 pc, held>>

MarkDirectXOwnerWindow(t, w) ==
  /\ Control(t)
  /\ ownerWindow' = w
  /\ directXOwner' = (w # NoWindow)
  /\ UNCHANGED <<initialized, activeProcess, activeRequest, cache, attachMode, pc, held>>

SetLoginMode(t, attach) ==
  /\ Control(t)
  /\ attachMode' = attach
  /\ UNCHANGED <<initialized, activeProcess, activeRequest, cache, ownerWindow,
                 directXOwner, pc, held>>

-----------------------------------------------------------------------------
(* The sdologin process of request r (src/src/sdologin/main.cpp)           *)

ProcessStep(r, from, to) ==
  /\ proc[r] = from
  /\ proc' = [proc EXCEPT ![r] = to]
  /\ UNCHANGED <<sdkVars, threadVars, handle, alive, returned, callbacks, logins>>

Connect(r) ==
  /\ pipe[r] = "listening"
  /\ ProcessStep(r, "connecting", "connected")
  /\ pipe' = [pipe EXCEPT ![r] = "connected"]
  /\ UNCHANGED <<toSdk, toLogin, shownIn, decided>>

\* PipeClient::connect retries for 10 s while there is no pipe (exit code 3).
ConnectFails(r) ==
  /\ pipe[r] # "listening"
  /\ ProcessStep(r, "connecting", "exited")
  /\ UNCHANGED <<pipe, toSdk, toLogin, shownIn, decided>>

SendHello(r) ==
  /\ ProcessStep(r, "connected", "helloSent")
  /\ toSdk' = [toSdk EXCEPT ![r] = Append(@, "Hello")]
  /\ UNCHANGED <<pipe, toLogin, shownIn, decided>>

ReceiveAck(r) ==
  /\ toLogin[r] # <<>>
  /\ Head(toLogin[r]) = "HelloAck"
  /\ ProcessStep(r, "helloSent", "acked")
  /\ toLogin' = [toLogin EXCEPT ![r] = Tail(@)]
  /\ UNCHANGED <<pipe, toSdk, shownIn, decided>>

ReceiveShowLogin(r) ==
  /\ toLogin[r] # <<>>
  /\ Head(toLogin[r]) = "ShowLogin"
  /\ ProcessStep(r, "acked", "dialog")
  /\ toLogin' = [toLogin EXCEPT ![r] = Tail(@)]
  /\ UNCHANGED <<pipe, toSdk, shownIn, decided>>

\* The completion handler of the login window sends the result and quits.
Complete(r, outcome) ==
  /\ ProcessStep(r, "dialog", "exiting")
  /\ toSdk' = [toSdk EXCEPT ![r] = Append(@, outcome)]
  /\ decided' = [decided EXCEPT ![r] = outcome]
  /\ UNCHANGED <<pipe, toLogin, shownIn>>

UserDecides(r) == \E outcome \in Outcomes : Complete(r, outcome)

\* Mutant: a null owner counts as missing, a destroyed one does not.
OwnerNull(r) == shownIn[r].embed /\ shownIn[r].owner = NoWindow

\* shouldCloseForMissingEmbeddedOwner
OwnerMissing(r) ==
  /\ shownIn[r].embed
  /\ shownIn[r].owner # NoWindow
  /\ shownIn[r].owner \notin alive

\* The 200 ms owner monitor closes the window, which completes as cancelled.
OwnerMonitor(r) ==
  /\ OwnerMissing(r)
  /\ Complete(r, "LoginCancel")

Exit(r) ==
  /\ ProcessStep(r, "exiting", "exited")
  /\ UNCHANGED <<pipe, toSdk, toLogin, shownIn, decided>>

\* The process ends by itself before it sent a result.
Crash(r) ==
  /\ \E from \in {"connecting", "connected", "helloSent", "acked", "dialog"} :
        ProcessStep(r, from, "exited")
  /\ UNCHANGED <<pipe, toSdk, toLogin, shownIn, decided>>

\* The game destroys one of its windows.
DestroyWindow(w) ==
  /\ w \in alive
  /\ alive' = alive \ {w}
  /\ UNCHANGED <<sdkVars, threadVars, processVars, historyVars>>

-----------------------------------------------------------------------------
ThreadStep(t) ==
  \/ Launch(t) \/ DuplicateFails(t) \/ Install(t) \/ StopPrevious(t)
  \/ Listen(t) \/ Accept(t) \/ ListenFails(t)
  \/ ReceiveHello(t) \/ SendHelloAck(t) \/ SendShowLogin(t) \/ HandshakeFails(t)
  \/ StopFailed(t) \/ ReceiveResult(t) \/ ClearActive(t) \/ Record(t)
  \/ Callback(t) \/ GiveUp(t) \/ StopTaken(t)

ControlStep(t) ==
  \/ Initialize(t) \/ Terminal(t) \/ CloseLoginDialog(t) \/ Logout(t)
  \/ \E session \in Sessions : RecordLoginResult(t, session)
  \/ \E w \in Owners : SetOwnerWindow(t, w) \/ MarkDirectXOwnerWindow(t, w)
  \/ \E attach \in BOOLEAN : SetLoginMode(t, attach)

LoginProcessStep(r) ==
  \/ Connect(r) \/ ConnectFails(r) \/ SendHello(r) \/ ReceiveAck(r) \/ ReceiveShowLogin(r)
  \/ OwnerMonitor(r) \/ Exit(r)

OutsideStep ==
  \/ \E r \in Requests : LoginProcessStep(r) \/ UserDecides(r) \/ Crash(r)
  \/ \E w \in Windows : DestroyWindow(w)

Next ==
  \/ \E t \in Threads : ShowLoginDialog(t) \/ ThreadStep(t) \/ ControlStep(t)
  \/ OutsideStep

Spec == Init /\ [][Next]_vars

(* Threads and processes are scheduled by the operating system, so a step  *)
(* that stays possible is taken; what the user, the application and the    *)
(* crashes do is not owed by anyone.                                       *)
FairSpec ==
  /\ Spec
  /\ \A t \in Threads : WF_vars(ThreadStep(t))
  /\ \A r \in Requests : WF_vars(LoginProcessStep(r))
-----------------------------------------------------------------------------
(* Properties                                                              *)

SdkTypeOK ==
  /\ initialized \in BOOLEAN
  /\ activeProcess \in Handles
  /\ activeRequest \in Handles
  /\ nextRequestId \in 1..(MaxRequests + 1)
  /\ cache \in [ticket : Logins, sndaid : Logins]
  /\ ownerWindow \in Owners
  /\ directXOwner \in BOOLEAN
  /\ attachMode \in BOOLEAN

ThreadTypeOK ==
  /\ pc \in [Threads -> Stages]
  /\ attempt \in [Threads -> 0..MaxAttempts]
  /\ request \in [Threads -> Handles]
  /\ held \in [Threads -> Handles]
  /\ snapshot \in [Threads -> Snapshots]
  /\ received \in [Threads -> Replies \cup {None}]
  /\ lastError \in [Threads -> Codes]

ProcessTypeOK ==
  /\ proc \in [Requests -> ProcessStates]
  /\ handle \in [Requests -> HandleStates]
  /\ pipe \in [Requests -> PipeStates]
  /\ toSdk \in [Requests -> Seq(Replies)]
  /\ toLogin \in [Requests -> Seq(Commands)]
  /\ shownIn \in [Requests -> Snapshots]
  /\ alive \in SUBSET Windows

HistoryTypeOK ==
  /\ returned \in [Threads -> Codes \cup {None}]
  /\ callbacks \in [Threads -> Nat]
  /\ decided \in [Requests -> Outcomes \cup {None}]
  /\ logins \in 0..MaxLogins

\* Every variable stays in its type; the handle and process states, the slot
\* and the locals of showLoginDialog (sdk_runtime.cpp:406-604) range over the
\* values the code gives them.
TypeOK == SdkTypeOK /\ ThreadTypeOK /\ ProcessTypeOK /\ HistoryTypeOK

\* Who must still close handle h: the slot, or a thread that took it out.
Holders(h) == {t \in Threads : held[t] = h}

\* A duplicated process handle is closed at most once, and while it is open it
\* sits in the slot or in the local of exactly one thread.  Four places close
\* handles taken from the same slot (stopAndCloseProcess and clearActiveProcess,
\* sdk_runtime.cpp:241-253 and 483-488), from any number of threads.
HandlesOwnedOnce ==
  \A h \in Requests :
    /\ handle[h] # "closedTwice"
    /\ handle[h] = "open" <=> (activeProcess = h \/ Holders(h) # {})
    /\ activeProcess = h => Holders(h) = {}
    /\ \A t, u \in Holders(h) : t = u

\* No login process is left running on its own: until it has answered, it is in
\* the slot, about to be put there, or about to be stopped by the thread that
\* took it out (sdk_runtime.cpp:456-492).
NoAbandonedProcess ==
  \A r \in Requests :
    Running(r) /\ proc[r] # "exiting" =>
      \/ activeProcess = r
      \/ Holders(r) # {}
      \/ \E t \in Threads : pc[t] = "install" /\ request[t] = r

\* A decision of the user is never lost to the relaunch: once sdologin has sent
\* its result, the attempt of its thread cannot fail, whoever kills the process
\* meanwhile (sdk_runtime.cpp:544-559).
DecisionNotDropped ==
  \A t \in Threads : pc[t] = "stopFailed" => decided[request[t]] = None

\* What a call returns is what the user decided in the dialog of this call: a callback is
\* made at most once, with the decision of the process that answered this call; a call that
\* makes none returns an error (sdk_runtime.cpp:562-603).
AnswerIsTheUsers ==
  \A t \in Threads :
    returned[t] # None =>
      \/ callbacks[t] = 0 /\ returned[t] # "OK"
      \/ /\ callbacks[t] = 1
         /\ \/ decided[request[t]] = "LoginSuccess" /\ returned[t] = "OK"
            \/ decided[request[t]] = "LoginCancel" /\ returned[t] = "LOGINCANCEL"

\* A connected login process always has the reading end of its pipe open: the
\* SDK never leaves an attempt whose process is alive and connected, unless the
\* process was taken away to be stopped (sdk_runtime.cpp:502-559).
PeerStaysConnected ==
  \A r \in Requests :
    proc[r] \in {"connected", "helloSent", "acked", "dialog"} =>
      /\ pipe[r] = "connected"
      /\ \E t \in Threads : request[t] = r /\ pc[t] \in {"listen", "hello", "ack", "show", "result"}

\* getTicket answers only when both strings are there, so ticket and sndaid it
\* hands out belong to one login, and the user completed that login
\* (sdk_runtime.cpp:586-592, 606-648).
TicketFromLogin ==
  cache.ticket # Empty /\ cache.sndaid # Empty =>
    /\ cache.ticket = cache.sndaid
    /\ decided[cache.ticket] = "LoginSuccess"

\* Only its own thread or a process that has answered empties the slot without
\* the handle being handed over: whenever a handle leaves the slot, it is in the
\* hands of one thread or it was closed because its login was answered
\* (sdk_runtime.cpp:310-326, 373-386, 462-492).
SlotHandedOver ==
  [][activeProcess # NoHandle /\ activeProcess' # activeProcess =>
       \/ \E t \in Threads : held'[t] = activeProcess
       \/ decided[activeProcess] # None /\ handle'[activeProcess] = "closed"]_vars

\* The dialog of r is embedded in a window of the game that is gone.
OwnerGone(r) == shownIn[r].embed /\ shownIn[r].owner \in Windows \ alive

\* No dialog stays open that somebody could answer.
EveryDialogIsAnswered == \A r \in Requests : []<>(proc[r] # "dialog" \/ OwnerGone(r))

\* Every call of showLoginDialog returns if the user answers every dialog whose
\* owner is there, however often the processes crash or are closed.  A login that
\* is embedded in a window of the game returns without an answer once that window
\* is destroyed: the owner monitor of sdologin (main.cpp:166-182) closes it, and
\* the relaunched one as well.
EveryCallReturns ==
  EveryDialogIsAnswered => \A t \in Threads : []<>(pc[t] = "idle")

\* Where a call of showLoginDialog stands, seen by the application.
PhaseOf(stage) ==
  CASE stage \in {"idle", "stopTaken"} -> "idle"
    [] stage \in {"clear", "record"}   -> "answered"
    [] stage = "callback"              -> "recorded"
    [] OTHER                           -> "open"

Service == INSTANCE LoginService WITH
  ready  <- initialized,
  phase  <- [t \in Threads |-> PhaseOf(pc[t])],
  answer <- received

\* Seen from the application, launching, retrying, stopping and the pipe are
\* steps inside an open call: the login core implements the login service.
ImplementsLoginService == Service!Spec
=============================================================================
