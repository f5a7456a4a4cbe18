-------------------------- MODULE SdkRuntimeProofs --------------------------
(***************************************************************************)
(* Theorems about the login core, for any number of threads, windows,      *)
(* sessions, attempts, logins and requests: its types, its invariants, and *)
(* that it implements LoginService.                                        *)
(***************************************************************************)
EXTENDS SdkRuntime, TLAPS

-----------------------------------------------------------------------------
(* Type correctness                                                        *)

\* An attempt is only made while one is left, so counting it stays in bounds, and it
\* has drawn a request id.
AttemptOK ==
  \A t \in Threads : pc[t] \in Attending => attempt[t] < MaxAttempts /\ request[t] \in Requests

TypeInv == TypeOK /\ AttemptOK

LEMMA Bounds == MaxRequests \in Nat /\ MaxAttempts \in Nat \ {0} /\ MaxLogins \in Nat
BY SdkAssumption

\* Messages: sending and receiving keep the type of a queue.
LEMMA SendTypes ==
  ASSUME NEW S, NEW q \in [Requests -> Seq(S)], NEW r, NEW m \in S
  PROVE  [q EXCEPT ![r] = Append(@, m)] \in [Requests -> Seq(S)]
<1>1. \A s \in Seq(S) : Append(s, m) \in Seq(S)
  OBVIOUS
<1> QED BY <1>1

LEMMA ReceiveTypes ==
  ASSUME NEW S, NEW q \in [Requests -> Seq(S)], NEW r, q[r] # <<>>
  PROVE  [q EXCEPT ![r] = Tail(@)] \in [Requests -> Seq(S)]
<1>1. \A s \in Seq(S) : s # <<>> => Tail(s) \in Seq(S)
  OBVIOUS
<1> QED BY <1>1

LEMMA DropTypes ==
  ASSUME NEW S, NEW q \in [Requests -> Seq(S)], NEW r
  PROVE  [q EXCEPT ![r] = <<>>] \in [Requests -> Seq(S)]
<1>1. <<>> \in Seq(S)
  OBVIOUS
<1> QED BY <1>1

\* Closing the pipe of a request, and stopping a process, keep the types.
LEMMA CloseTypes ==
  ASSUME ProcessTypeOK, NEW r, ClosePipe(r)
  PROVE  /\ pipe' \in [Requests -> PipeStates]
         /\ toSdk' \in [Requests -> Seq(Replies)]
         /\ toLogin' \in [Requests -> Seq(Commands)]
<1>1. pipe' \in [Requests -> PipeStates]
  BY DEF ProcessTypeOK, ClosePipe, PipeStates
<1>2. toSdk' \in [Requests -> Seq(Replies)]
  BY DropTypes DEF ProcessTypeOK, ClosePipe
<1>3. toLogin' \in [Requests -> Seq(Commands)]
  BY DropTypes DEF ProcessTypeOK, ClosePipe
<1> QED BY <1>1, <1>2, <1>3

LEMMA StopTypes ==
  ASSUME ProcessTypeOK, NEW h \in Handles, StopAndClose(h)
  PROVE  /\ proc' \in [Requests -> ProcessStates]
         /\ handle' \in [Requests -> HandleStates]
BY DEF ProcessTypeOK, StopAndClose, CloseOf, ProcessStates, HandleStates

LEMMA TypeInit == Init => TypeInv
<1> SUFFICES ASSUME Init PROVE TypeInv
  OBVIOUS
<1>1. SdkTypeOK
  <2>1. cache \in [ticket : Logins, sndaid : Logins]
    BY DEF Init, NoLogin, Logins, Empty
  <2>2. nextRequestId \in 1..(MaxRequests + 1)
    BY Bounds DEF Init
  <2> QED BY <2>1, <2>2 DEF Init, SdkTypeOK, Handles, NoHandle, Owners
<1>2. ThreadTypeOK
  BY Bounds DEF Init, ThreadTypeOK, Stages, Handles, NoHandle, Snapshots, NoSnapshot, Owners, Codes
<1>3. ProcessTypeOK
  <2>1. \A S : <<>> \in Seq(S)
    OBVIOUS
  <2>2. toSdk \in [Requests -> Seq(Replies)] /\ toLogin \in [Requests -> Seq(Commands)]
    BY <2>1 DEF Init
  <2> QED BY <2>2 DEF Init, ProcessTypeOK, ProcessStates, HandleStates, PipeStates, Snapshots,
             NoSnapshot, Owners
<1>4. HistoryTypeOK
  BY Bounds DEF Init, HistoryTypeOK
<1>5. AttemptOK
  BY DEF Init, AttemptOK, Attending
<1> QED BY <1>1, <1>2, <1>3, <1>4, <1>5 DEF TypeInv, TypeOK

LEMMA SdkTypes ==
  ASSUME TypeInv, Next
  PROVE  SdkTypeOK'
<1> USE DEF TypeInv, TypeOK, SdkTypeOK, ThreadTypeOK, sdkVars
<1>1. ASSUME NEW t \in Threads, ShowLoginDialog(t) \/ ThreadStep(t) PROVE SdkTypeOK'
  <2>1. CASE Launch(t)
    <3>1. nextRequestId' \in 1..(MaxRequests + 1)
      BY <2>1, Bounds DEF Launch, Requests
    <3> QED BY <2>1, <3>1 DEF Launch
  <2>2. CASE Install(t)
    BY <2>2 DEF Install
  <2>3. CASE ListenFails(t) \/ HandshakeFails(t) \/ ClearActive(t)
    BY <2>3 DEF ListenFails, HandshakeFails, ClearActive, FailActiveLogin, TakeActive, Handles,
       NoHandle
  <2>4. CASE Record(t)
    BY <2>4 DEF Record, Logins, Handles, NoHandle, Empty
  <2> QED BY <1>1, <2>1, <2>2, <2>3, <2>4 DEF ShowLoginDialog, ThreadStep, DuplicateFails,
             StopPrevious, Listen, Accept, ReceiveHello, SendHelloAck, SendShowLogin, StopFailed,
             ReceiveResult, Callback, GiveUp, StopTaken
<1>2. ASSUME NEW t \in Threads, ControlStep(t) PROVE SdkTypeOK'
  <2> NoLogin \in [ticket : Logins, sndaid : Logins]
    BY DEF NoLogin, Logins, Empty
  <2>1. CASE Initialize(t) \/ Logout(t)
    BY <2>1 DEF Initialize, Logout, Control
  <2>2. CASE Terminal(t) \/ CloseLoginDialog(t)
    BY <2>2 DEF Terminal, CloseLoginDialog, Control, EmptySlot, Handles, NoHandle, Owners
  <2>3. ASSUME NEW session \in Sessions, RecordLoginResult(t, session) PROVE SdkTypeOK'
    BY <2>3 DEF RecordLoginResult, Control, Logins, Empty
  <2>4. ASSUME NEW w \in Owners, SetOwnerWindow(t, w) \/ MarkDirectXOwnerWindow(t, w)
        PROVE  SdkTypeOK'
    BY <2>4 DEF SetOwnerWindow, MarkDirectXOwnerWindow, Control
  <2>5. ASSUME NEW attach \in BOOLEAN, SetLoginMode(t, attach) PROVE SdkTypeOK'
    BY <2>5 DEF SetLoginMode, Control
  <2> QED BY <1>2, <2>1, <2>3, <2>4, <2>5, <2>2 DEF ControlStep
<1>3. OutsideStep => SdkTypeOK'
  BY DEF OutsideStep, LoginProcessStep, UserDecides, OwnerMonitor, Complete, Connect,
     ConnectFails, SendHello, ReceiveAck, ReceiveShowLogin, Exit, Crash, ProcessStep,
     DestroyWindow
<1> QED BY <1>1, <1>2, <1>3 DEF Next

LEMMA ThreadTypes ==
  ASSUME TypeInv, Next
  PROVE  ThreadTypeOK'
<1> USE DEF TypeInv, TypeOK, SdkTypeOK, ThreadTypeOK, threadVars, Goto, Stages, Codes
<1>1. ASSUME NEW t \in Threads, ShowLoginDialog(t) PROVE ThreadTypeOK'
  <2>1. CASE ~initialized /\ Return(t, "FAILED")
    BY <1>1, <2>1, Bounds DEF ShowLoginDialog, Return, FreshLocals, Snapshots, NoSnapshot, Owners
  <2>2. CASE initialized
    <3>1. (directXOwner \/ attachMode) \in BOOLEAN
      OBVIOUS
    <3>2. snapshot' \in [Threads -> Snapshots]
      BY <1>1, <2>2, <3>1 DEF ShowLoginDialog, Snapshots
    <3> QED BY <1>1, <2>2, <3>2, Bounds DEF ShowLoginDialog, FreshLocals
  <2> QED BY <1>1, <2>1, <2>2 DEF ShowLoginDialog
<1>2. ASSUME NEW t \in Threads, Launch(t) PROVE ThreadTypeOK'
  BY <1>2, Bounds DEF Launch, AttemptLeft, Handles
<1>3. ASSUME NEW t \in Threads, DuplicateFails(t) \/ StopFailed(t) PROVE ThreadTypeOK'
  BY <1>3, Bounds DEF DuplicateFails, StopFailed, NextAttempt, AttemptOK, Attending, Handles
<1>4. ASSUME NEW t \in Threads, Install(t) \/ StopPrevious(t) \/ StopTaken(t) PROVE ThreadTypeOK'
  BY <1>4 DEF Install, StopPrevious, StopTaken, Handles
<1>5. ASSUME NEW t \in Threads, ListenFails(t) \/ HandshakeFails(t) PROVE ThreadTypeOK'
  BY <1>5 DEF ListenFails, HandshakeFails, FailActiveLogin, Taken, Handles
<1>6. ASSUME NEW t \in Threads, Listen(t) \/ Accept(t) \/ ReceiveHello(t) PROVE ThreadTypeOK'
  BY <1>6 DEF Listen, Accept, ReceiveHello
<1>7. ASSUME NEW t \in Threads, SendHelloAck(t) \/ SendShowLogin(t) PROVE ThreadTypeOK'
  BY <1>7 DEF SendHelloAck, SendShowLogin
<1>8. ASSUME NEW t \in Threads, ReceiveResult(t) PROVE ThreadTypeOK'
  BY <1>8 DEF ReceiveResult, CanReceive, ProcessTypeOK, AttemptOK, Attending
<1>9. ASSUME NEW t \in Threads, ClearActive(t) \/ Record(t) PROVE ThreadTypeOK'
  BY <1>9 DEF ClearActive, Record
<1>10. ASSUME NEW t \in Threads, Callback(t) \/ GiveUp(t) PROVE ThreadTypeOK'
  <2> NoSnapshot \in Snapshots /\ 0 \in 0..MaxAttempts
    BY Bounds DEF NoSnapshot, Snapshots, Owners
  <2>1. FreshLocals(t) /\ snapshot' = [snapshot EXCEPT ![t] = NoSnapshot] /\ Goto(t, "idle")
    BY <1>10 DEF Callback, GiveUp, Return
  <2>2. UNCHANGED <<request, held>>
    BY <1>10 DEF Callback, GiveUp
  <2> QED BY <2>1, <2>2 DEF FreshLocals
<1>11. ASSUME NEW t \in Threads, ControlStep(t) PROVE ThreadTypeOK'
  BY <1>11 DEF ControlStep, Control, Initialize, Terminal, CloseLoginDialog, Logout, EmptySlot,
     RecordLoginResult, SetOwnerWindow, MarkDirectXOwnerWindow, SetLoginMode
<1>12. OutsideStep => ThreadTypeOK'
  BY DEF OutsideStep, LoginProcessStep, UserDecides, OwnerMonitor, Complete, Connect,
     ConnectFails, SendHello, ReceiveAck, ReceiveShowLogin, Exit, Crash, ProcessStep,
     DestroyWindow
<1> QED BY <1>1, <1>2, <1>3, <1>4, <1>5, <1>6, <1>7, <1>8, <1>9, <1>10, <1>11, <1>12
        DEF Next, ThreadStep

LEMMA ProcessTypes ==
  ASSUME TypeInv, Next
  PROVE  ProcessTypeOK'
<1> USE DEF TypeInv, TypeOK, ThreadTypeOK, ProcessTypeOK, processVars
<1>1. ASSUME NEW t \in Threads, Launch(t) PROVE ProcessTypeOK'
  BY <1>1 DEF Launch, ProcessStates
<1>2. ASSUME NEW t \in Threads, DuplicateFails(t) PROVE ProcessTypeOK'
  BY <1>2, CloseTypes DEF DuplicateFails, NextAttempt, ProcessStates
<1>3. ASSUME NEW t \in Threads, Install(t) \/ Listen(t) \/ ListenFails(t) PROVE ProcessTypeOK'
  BY <1>3 DEF Install, Listen, ListenFails, HandleStates, PipeStates
<1>4. ASSUME NEW t \in Threads, StopPrevious(t) \/ StopTaken(t) PROVE ProcessTypeOK'
  BY <1>4, StopTypes DEF StopPrevious, StopTaken
<1>5. ASSUME NEW t \in Threads, StopFailed(t) PROVE ProcessTypeOK'
  BY <1>5, StopTypes, CloseTypes DEF StopFailed, NextAttempt
<1>6. ASSUME NEW t \in Threads, ReceiveHello(t) \/ ReceiveResult(t) PROVE ProcessTypeOK'
  <2> DEFINE r == request[t]
  <2>1. toSdk[r] # <<>> /\ toSdk' = [toSdk EXCEPT ![r] = Tail(@)]
    BY <1>6 DEF ReceiveHello, ReceiveResult, CanReceive
  <2> HIDE DEF r
  <2>2. toSdk' \in [Requests -> Seq(Replies)]
    BY <2>1, ReceiveTypes
  <2> QED BY <1>6, <2>2 DEF ReceiveHello, ReceiveResult
<1>7. ASSUME NEW t \in Threads, SendHelloAck(t) \/ SendShowLogin(t) PROVE ProcessTypeOK'
  <2> DEFINE r == request[t]
  <2>1. PICK m \in Commands : toLogin' = [toLogin EXCEPT ![r] = Append(@, m)]
    BY <1>7 DEF SendHelloAck, SendShowLogin, Commands
  <2> HIDE DEF r
  <2>2. toLogin' \in [Requests -> Seq(Commands)]
    BY <2>1, SendTypes
  <2> QED BY <1>7, <2>2 DEF SendHelloAck, SendShowLogin
<1>8. ASSUME NEW t \in Threads, ClearActive(t) PROVE ProcessTypeOK'
  BY <1>8, CloseTypes DEF ClearActive, CloseOf, HandleStates
<1>9. ASSUME NEW t \in Threads,
             \/ ShowLoginDialog(t) \/ Accept(t) \/ HandshakeFails(t) \/ Record(t) \/ Callback(t)
             \/ GiveUp(t) \/ ControlStep(t)
      PROVE  ProcessTypeOK'
  BY <1>9 DEF ShowLoginDialog, Accept, HandshakeFails, Record, Callback, GiveUp, ControlStep,
     Control, Initialize, Terminal, CloseLoginDialog, Logout, RecordLoginResult,
     SetOwnerWindow, MarkDirectXOwnerWindow, SetLoginMode
<1>10. ASSUME NEW r \in Requests, Connect(r) \/ ConnectFails(r) \/ Exit(r) \/ Crash(r)
       PROVE  ProcessTypeOK'
  BY <1>10 DEF Connect, ConnectFails, Exit, Crash, ProcessStep, ProcessStates, PipeStates
<1>11. ASSUME NEW r \in Requests, ReceiveAck(r) \/ ReceiveShowLogin(r) PROVE ProcessTypeOK'
  <2>1. toLogin[r] # <<>> /\ toLogin' = [toLogin EXCEPT ![r] = Tail(@)]
    BY <1>11 DEF ReceiveAck, ReceiveShowLogin
  <2>2. toLogin' \in [Requests -> Seq(Commands)]
    BY <2>1, ReceiveTypes
  <2> QED BY <1>11, <2>2 DEF ReceiveAck, ReceiveShowLogin, ProcessStep, ProcessStates
<1>12. ASSUME NEW r \in Requests, SendHello(r) PROVE ProcessTypeOK'
  <2>1. toSdk' \in [Requests -> Seq(Replies)]
    BY <1>12, SendTypes DEF SendHello, Replies
  <2> QED BY <1>12, <2>1 DEF SendHello, ProcessStep, ProcessStates
<1>13. ASSUME NEW r \in Requests, NEW outcome \in Outcomes, Complete(r, outcome)
       PROVE  ProcessTypeOK'
  <2>1. toSdk' \in [Requests -> Seq(Replies)]
    BY <1>13, SendTypes DEF Complete, Replies
  <2> QED BY <1>13, <2>1 DEF Complete, ProcessStep, ProcessStates
<1>14. ASSUME NEW w \in Windows, DestroyWindow(w) PROVE ProcessTypeOK'
  BY <1>14 DEF DestroyWindow
<1> QED BY <1>1, <1>2, <1>3, <1>4, <1>5, <1>6, <1>7, <1>8, <1>9, <1>10, <1>11, <1>12, <1>13, <1>14
        DEF Next, ThreadStep, OutsideStep, LoginProcessStep, UserDecides, OwnerMonitor, Outcomes

LEMMA HistoryTypes ==
  ASSUME TypeInv, Next
  PROVE  HistoryTypeOK'
<1> USE DEF TypeInv, TypeOK, ThreadTypeOK, HistoryTypeOK, historyVars
<1>1. ASSUME NEW t \in Threads, ShowLoginDialog(t) \/ Callback(t) \/ GiveUp(t) PROVE HistoryTypeOK'
  BY <1>1, Bounds DEF ShowLoginDialog, Callback, GiveUp, Return, ResultCode, Codes
<1>2. ASSUME NEW t \in Threads, ThreadStep(t) \/ ControlStep(t) PROVE HistoryTypeOK'
  BY <1>1, <1>2 DEF ThreadStep, Launch, DuplicateFails, Install, StopPrevious, Listen, Accept,
     ListenFails, ReceiveHello, SendHelloAck, SendShowLogin, HandshakeFails, StopFailed,
     ReceiveResult, ClearActive, Record, StopTaken, ControlStep, Control, Initialize, Terminal,
     CloseLoginDialog, Logout, RecordLoginResult, SetOwnerWindow, MarkDirectXOwnerWindow,
     SetLoginMode
<1>3. ASSUME NEW r \in Requests, NEW outcome \in Outcomes, Complete(r, outcome)
      PROVE  HistoryTypeOK'
  BY <1>3 DEF Complete, ProcessStep
<1>4. ASSUME OutsideStep PROVE HistoryTypeOK'
  BY <1>3, <1>4 DEF OutsideStep, LoginProcessStep, UserDecides, OwnerMonitor, Connect,
     ConnectFails, SendHello, ReceiveAck, ReceiveShowLogin, Exit, Crash, ProcessStep,
     DestroyWindow, Outcomes
<1> QED BY <1>1, <1>2, <1>4 DEF Next

LEMMA AttemptsNext ==
  ASSUME TypeInv, Next
  PROVE  AttemptOK'
<1> USE DEF TypeInv, TypeOK, ThreadTypeOK, AttemptOK, Attending, threadVars, Goto
<1>1. ASSUME NEW t \in Threads, Launch(t) PROVE AttemptOK'
  BY <1>1, Bounds DEF Launch, AttemptLeft
<1>2. ASSUME NEW t \in Threads, ShowLoginDialog(t) \/ Callback(t) \/ GiveUp(t) PROVE AttemptOK'
  BY <1>2 DEF ShowLoginDialog, Callback, GiveUp, Return, FreshLocals
<1>3. ASSUME NEW t \in Threads, ThreadStep(t) PROVE AttemptOK'
  BY <1>1, <1>2, <1>3 DEF ThreadStep, DuplicateFails, Install, StopPrevious, Listen, Accept,
     ListenFails, ReceiveHello, SendHelloAck, SendShowLogin, HandshakeFails, StopFailed,
     ReceiveResult, ClearActive, Record, StopTaken, FailActiveLogin, NextAttempt
<1>4. ASSUME NEW t \in Threads, ControlStep(t) PROVE AttemptOK'
  BY <1>4 DEF ControlStep, Control, Initialize, Terminal, CloseLoginDialog, Logout, EmptySlot,
     RecordLoginResult, SetOwnerWindow, MarkDirectXOwnerWindow, SetLoginMode
<1>5. OutsideStep => AttemptOK'
  BY DEF OutsideStep, LoginProcessStep, UserDecides, OwnerMonitor, Complete, Connect,
     ConnectFails, SendHello, ReceiveAck, ReceiveShowLogin, Exit, Crash, ProcessStep,
     DestroyWindow
<1> QED BY <1>2, <1>3, <1>4, <1>5 DEF Next

LEMMA TypeNext == TypeInv /\ [Next]_vars => TypeInv'
<1>1. TypeInv /\ UNCHANGED vars => TypeInv'
  BY DEF TypeInv, TypeOK, SdkTypeOK, ThreadTypeOK, ProcessTypeOK, HistoryTypeOK, AttemptOK,
     vars, sdkVars, threadVars, processVars, historyVars
<1> QED BY <1>1, SdkTypes, ThreadTypes, ProcessTypes, HistoryTypes, AttemptsNext DEF TypeInv, TypeOK

-----------------------------------------------------------------------------
(* Process handles                                                         *)

\* Request ids are drawn in order, and no two threads attend to the same one.
DrawnInOrder == \A t \in Threads : request[t] < nextRequestId

AttendedOnce ==
  \A t, u \in Threads :
    pc[t] \in Attending /\ pc[u] \in Attending /\ request[t] = request[u] => t = u

UndrawnUnused ==
  \A r \in Requests : r >= nextRequestId => proc[r] = "none" /\ handle[r] = "none"

\* A thread keeps a handle only between taking it out of the slot and stopping it.
HeldToStop ==
  \A t \in Threads : held[t] # NoHandle => pc[t] \in {"stopPrevious", "stopFailed", "stopTaken"}

\* The slot belongs to the request whose handle it has.
SlotOfRequest == activeRequest = activeProcess

\* A thread duplicates the handle of its process once.
NotInstalled == \A t \in Threads : pc[t] = "install" => handle[request[t]] = "none"

\* HandlesOwnedOnce, handle by handle.
Owned ==
  \A h \in Requests :
    /\ handle[h] # "closedTwice"
    /\ activeProcess = h => handle[h] = "open"
    /\ \A t \in Threads : held[t] = h => handle[h] = "open" /\ activeProcess # h
    /\ handle[h] = "open" => activeProcess = h \/ \E t \in Threads : held[t] = h
    /\ \A t, u \in Threads : held[t] = h /\ held[u] = h => t = u

HandleInv ==
  /\ DrawnInOrder /\ AttendedOnce /\ UndrawnUnused
  /\ HeldToStop /\ SlotOfRequest /\ NotInstalled /\ Owned

\* Who touches the slot and the handles.
LEMMA HandleFrame ==
  ASSUME [Next]_vars
  PROVE  \/ UNCHANGED <<activeProcess, activeRequest, held, handle>>
         \/ \E t \in Threads :
              \/ Install(t) \/ StopPrevious(t) \/ ListenFails(t) \/ HandshakeFails(t)
              \/ StopFailed(t) \/ ClearActive(t) \/ StopTaken(t)
              \/ Terminal(t) \/ CloseLoginDialog(t)
<1> USE DEF sdkVars, threadVars, processVars
<1>1. ASSUME NEW t \in Threads, ShowLoginDialog(t) \/ ThreadStep(t)
      PROVE  \/ UNCHANGED <<activeProcess, activeRequest, held, handle>>
             \/ Install(t) \/ StopPrevious(t) \/ ListenFails(t) \/ HandshakeFails(t)
             \/ StopFailed(t) \/ ClearActive(t) \/ StopTaken(t)
  BY <1>1 DEF ShowLoginDialog, ThreadStep, Launch, DuplicateFails, Listen, Accept, ReceiveHello,
     SendHelloAck, SendShowLogin, ReceiveResult, Record, Callback, GiveUp
<1>2. ASSUME NEW t \in Threads, ControlStep(t)
      PROVE  \/ UNCHANGED <<activeProcess, activeRequest, held, handle>>
             \/ Terminal(t) \/ CloseLoginDialog(t)
  BY <1>2 DEF ControlStep, Control, Initialize, Logout, RecordLoginResult, SetOwnerWindow,
     MarkDirectXOwnerWindow, SetLoginMode
<1>3. OutsideStep => UNCHANGED <<activeProcess, activeRequest, held, handle>>
  BY DEF OutsideStep, LoginProcessStep, UserDecides, OwnerMonitor, Complete, Connect,
     ConnectFails, SendHello, ReceiveAck, ReceiveShowLogin, Exit, Crash, ProcessStep,
     DestroyWindow
<1>4. UNCHANGED vars => UNCHANGED <<activeProcess, activeRequest, held, handle>>
  BY DEF vars
<1> QED BY <1>1, <1>2, <1>3, <1>4 DEF Next

\* Only a launch draws a request id.
LEMMA DrawFrame ==
  ASSUME [Next]_vars
  PROVE  UNCHANGED <<request, nextRequestId>> \/ \E t \in Threads : Launch(t)
<1> USE DEF sdkVars, threadVars
<1>1. ASSUME NEW t \in Threads, ShowLoginDialog(t) \/ ThreadStep(t)
      PROVE  UNCHANGED <<request, nextRequestId>> \/ Launch(t)
  BY <1>1 DEF ShowLoginDialog, ThreadStep, DuplicateFails, Install, StopPrevious, Listen, Accept,
     ListenFails, ReceiveHello, SendHelloAck, SendShowLogin, HandshakeFails, StopFailed,
     ReceiveResult, ClearActive, Record, Callback, GiveUp, StopTaken
<1>2. ASSUME NEW t \in Threads, ControlStep(t) PROVE UNCHANGED <<request, nextRequestId>>
  BY <1>2 DEF ControlStep, Control, Initialize, Terminal, CloseLoginDialog, Logout,
     RecordLoginResult, SetOwnerWindow, MarkDirectXOwnerWindow, SetLoginMode
<1>3. OutsideStep => UNCHANGED <<request, nextRequestId>>
  BY DEF OutsideStep, LoginProcessStep, UserDecides, OwnerMonitor, Complete, Connect,
     ConnectFails, SendHello, ReceiveAck, ReceiveShowLogin, Exit, Crash, ProcessStep,
     DestroyWindow
<1>4. UNCHANGED vars => UNCHANGED <<request, nextRequestId>>
  BY DEF vars
<1> QED BY <1>1, <1>2, <1>3, <1>4 DEF Next

\* Only a launch brings a thread to a stage at which it attends to a request, and nothing
\* else brings it to "install".
LEMMA StageFrame ==
  ASSUME TypeInv, [Next]_vars, NEW u \in Threads
  PROVE  \/ Launch(u)
         \/ /\ pc'[u] \in Attending => pc[u] \in Attending
            /\ pc'[u] = "install" => pc[u] = "install"
<1> DEFINE Goal(t) == \/ t = u /\ Launch(t)
                      \/ /\ pc'[u] \in Attending => pc[u] \in Attending
                         /\ pc'[u] = "install" => pc[u] = "install"
<1> USE DEF sdkVars, threadVars, TypeInv, TypeOK, ThreadTypeOK, Attending, Goto
<1>1. ASSUME NEW t \in Threads, ShowLoginDialog(t) \/ Callback(t) \/ GiveUp(t) PROVE Goal(t)
  BY <1>1 DEF ShowLoginDialog, Callback, GiveUp, Return
<1>2. ASSUME NEW t \in Threads, Launch(t) PROVE Goal(t)
  BY <1>2 DEF Launch
<1>3. ASSUME NEW t \in Threads, ThreadStep(t) PROVE Goal(t)
  BY <1>1, <1>2, <1>3 DEF ThreadStep, DuplicateFails, Install, StopPrevious, Listen, Accept,
     ListenFails, ReceiveHello, SendHelloAck, SendShowLogin, HandshakeFails, StopFailed,
     ReceiveResult, ClearActive, Record, StopTaken, FailActiveLogin, NextAttempt
<1>4. ASSUME NEW t \in Threads, ControlStep(t) PROVE Goal(t)
  BY <1>4 DEF ControlStep, Control, Initialize, Terminal, CloseLoginDialog, Logout, EmptySlot,
     RecordLoginResult, SetOwnerWindow, MarkDirectXOwnerWindow, SetLoginMode
<1>5. OutsideStep => UNCHANGED pc
  BY DEF OutsideStep, LoginProcessStep, UserDecides, OwnerMonitor, Complete, Connect,
     ConnectFails, SendHello, ReceiveAck, ReceiveShowLogin, Exit, Crash, ProcessStep,
     DestroyWindow
<1>6. UNCHANGED vars => UNCHANGED pc
  BY DEF vars
<1> QED BY <1>1, <1>3, <1>4, <1>5, <1>6 DEF Next

LEMMA HandleInit == Init => HandleInv
BY Bounds DEF Init, HandleInv, DrawnInOrder, AttendedOnce, UndrawnUnused, HeldToStop,
   SlotOfRequest, NotInstalled, Owned, Attending, NoHandle, Requests

\* What a thread took out of the slot, it stops: the handle is closed once.
LEMMA StopOwned ==
  ASSUME TypeInv, HandleInv, NEW t \in Threads, StopAndClose(held[t]),
         held' = [held EXCEPT ![t] = NoHandle], UNCHANGED activeProcess
  PROVE  Owned'
<1> USE DEF TypeInv, TypeOK, ThreadTypeOK, ProcessTypeOK, HandleInv, NoHandle
<1>1. CASE held[t] = NoHandle
  <2>1. UNCHANGED <<held, handle>>
    BY <1>1 DEF StopAndClose
  <2> QED BY <2>1 DEF Owned
<1>2. CASE held[t] # NoHandle
  <2>1. held[t] \in Requests
    BY <1>2 DEF Handles
  <2>2. /\ handle' = [handle EXCEPT ![held[t]] = "closed"]
        /\ activeProcess # held[t]
        /\ \A u \in Threads \ {t} : held[u] # held[t]
    BY <1>2, <2>1 DEF StopAndClose, CloseOf, Owned
  <2> QED BY <2>1, <2>2 DEF Owned, Requests
<1> QED BY <1>1, <1>2

\* A thread that holds nothing takes the handle out of the slot.
LEMMA TakeOwned ==
  ASSUME TypeInv, HandleInv, NEW t \in Threads, held[t] = NoHandle,
         held' = [held EXCEPT ![t] = activeProcess], activeProcess' = NoHandle, UNCHANGED handle
  PROVE  Owned'
BY DEF TypeInv, TypeOK, SdkTypeOK, ThreadTypeOK, HandleInv, Owned, NoHandle, Handles, Requests

LEMMA OwnedNext ==
  ASSUME TypeInv, HandleInv, [Next]_vars
  PROVE  Owned'
<1> USE DEF HandleInv
<1>1. CASE UNCHANGED <<activeProcess, activeRequest, held, handle>>
  BY <1>1 DEF Owned
<1>2. ASSUME NEW t \in Threads, Install(t) PROVE Owned'
  <2>1. held[t] = NoHandle /\ handle[request[t]] = "none" /\ request[t] \in Requests
    BY <1>2 DEF Install, HeldToStop, NotInstalled, TypeInv, AttemptOK, Attending
  <2> QED BY <1>2, <2>1 DEF Install, Owned, TypeInv, TypeOK, SdkTypeOK, ThreadTypeOK,
             ProcessTypeOK, Handles, NoHandle, Requests
<1>3. ASSUME NEW t \in Threads, StopPrevious(t) \/ StopFailed(t) \/ StopTaken(t) PROVE Owned'
  BY <1>3, StopOwned DEF StopPrevious, StopFailed, StopTaken, sdkVars
<1>4. ASSUME NEW t \in Threads, ListenFails(t) \/ HandshakeFails(t) PROVE Owned'
  <2>1. held[t] = NoHandle
    BY <1>4 DEF ListenFails, HandshakeFails, HeldToStop
  <2>2. PICK code : FailActiveLogin(t, code)
    BY <1>4 DEF ListenFails, HandshakeFails
  <2>3. UNCHANGED handle
    BY <1>4 DEF ListenFails, HandshakeFails, processVars
  <2>4. CASE activeRequest = request[t]
    BY <2>1, <2>2, <2>3, <2>4, TakeOwned DEF FailActiveLogin, TakeActive, Taken
  <2>5. CASE activeRequest # request[t]
    <3>1. UNCHANGED <<activeProcess, held>>
      BY <2>1, <2>2, <2>5 DEF FailActiveLogin, TakeActive, Taken, TypeInv, TypeOK, ThreadTypeOK
    <3> QED BY <2>3, <3>1 DEF Owned
  <2> QED BY <2>4, <2>5
<1>5. ASSUME NEW t \in Threads, ClearActive(t) PROVE Owned'
  <2>1. UNCHANGED held
    BY <1>5 DEF ClearActive
  <2>2. CASE activeRequest = request[t] /\ activeProcess # NoHandle
    BY <1>5, <2>1, <2>2 DEF ClearActive, TakeActive, Taken, CloseOf, Owned, TypeInv, TypeOK,
       SdkTypeOK, ProcessTypeOK, Handles, NoHandle, Requests
  <2>3. CASE ~(activeRequest = request[t] /\ activeProcess # NoHandle)
    BY <1>5, <2>1, <2>3 DEF ClearActive, TakeActive, Taken, Owned, SlotOfRequest, NoHandle
  <2> QED BY <2>2, <2>3
<1>6. ASSUME NEW t \in Threads, Terminal(t) \/ CloseLoginDialog(t) PROVE Owned'
  <2>1. held[t] = NoHandle
    BY <1>6 DEF Terminal, CloseLoginDialog, Control, HeldToStop
  <2> QED BY <1>6, <2>1, TakeOwned DEF Terminal, CloseLoginDialog, Control, EmptySlot, processVars
<1> QED BY <1>1, <1>2, <1>3, <1>4, <1>5, <1>6, HandleFrame

\* A handle changes when a thread installs it, or when it is closed, which its owner does.
LEMMA HandleChanges ==
  ASSUME TypeInv, HandleInv, [Next]_vars, NEW h \in Requests, handle'[h] # handle[h]
  PROVE  handle[h] = "open" \/ \E t \in Threads : Install(t) /\ request[t] = h
<1> USE DEF HandleInv, TypeInv, TypeOK, ProcessTypeOK
<1>1. ASSUME NEW t \in Threads, Install(t) PROVE request[t] = h
  BY <1>1 DEF Install
<1>2. ASSUME NEW t \in Threads, StopPrevious(t) \/ StopFailed(t) \/ StopTaken(t)
      PROVE  held[t] = h
  BY <1>2 DEF StopPrevious, StopFailed, StopTaken, StopAndClose, CloseOf
<1>3. ASSUME NEW t \in Threads, ClearActive(t) PROVE activeProcess = h
  BY <1>3 DEF ClearActive, Taken, CloseOf
<1>4. ASSUME NEW t \in Threads,
             ListenFails(t) \/ HandshakeFails(t) \/ Terminal(t) \/ CloseLoginDialog(t)
      PROVE  FALSE
  BY <1>4 DEF ListenFails, HandshakeFails, Terminal, CloseLoginDialog, Control, processVars
<1> QED BY <1>1, <1>2, <1>3, <1>4, HandleFrame DEF Owned

\* Who ends or starts a process.
LEMMA ProcessChanges ==
  ASSUME TypeInv, HandleInv, [Next]_vars, NEW r \in Requests, proc'[r] # proc[r]
  PROVE  \/ proc[r] # "none"
         \/ handle[r] = "open"
         \/ \E t \in Threads : request'[t] = r /\ (Launch(t) \/ DuplicateFails(t))
<1> DEFINE Goal == \/ proc[r] # "none"
                   \/ handle[r] = "open"
                   \/ \E t \in Threads : request'[t] = r /\ (Launch(t) \/ DuplicateFails(t))
<1> USE DEF HandleInv, TypeInv, TypeOK, ProcessTypeOK, ThreadTypeOK
<1>1. ASSUME NEW t \in Threads, Launch(t) \/ DuplicateFails(t) PROVE Goal
  BY <1>1 DEF Launch, DuplicateFails
<1>2. ASSUME NEW t \in Threads, StopPrevious(t) \/ StopFailed(t) \/ StopTaken(t) PROVE Goal
  BY <1>2 DEF StopPrevious, StopFailed, StopTaken, StopAndClose, Owned
<1>3. ASSUME NEW t \in Threads, ShowLoginDialog(t) \/ ThreadStep(t) PROVE Goal
  BY <1>1, <1>2, <1>3 DEF ShowLoginDialog, ThreadStep, Install, Listen, Accept, ListenFails,
     ReceiveHello, SendHelloAck, SendShowLogin, HandshakeFails, ReceiveResult, ClearActive,
     Record, Callback, GiveUp, processVars
<1>4. ASSUME NEW t \in Threads, ControlStep(t) PROVE FALSE
  BY <1>4 DEF ControlStep, Control, Initialize, Terminal, CloseLoginDialog, Logout,
     RecordLoginResult, SetOwnerWindow, MarkDirectXOwnerWindow, SetLoginMode, processVars
<1>5. ASSUME OutsideStep PROVE Goal
  BY <1>5 DEF OutsideStep, LoginProcessStep, UserDecides, OwnerMonitor, Complete, Connect,
     ConnectFails, SendHello, ReceiveAck, ReceiveShowLogin, Exit, Crash, ProcessStep,
     DestroyWindow, processVars
<1>6. CASE UNCHANGED vars
  BY <1>6 DEF vars, processVars
<1> QED BY <1>3, <1>4, <1>5, <1>6 DEF Next

\* A thread that is about to stop what it holds does nothing else.
LEMMA StopFrame ==
  ASSUME TypeInv, [Next]_vars, NEW u \in Threads,
         pc[u] \in {"stopPrevious", "stopFailed", "stopTaken"}
  PROVE  pc'[u] = pc[u] \/ StopPrevious(u) \/ StopFailed(u) \/ StopTaken(u)
<1> DEFINE Goal == pc'[u] = pc[u] \/ StopPrevious(u) \/ StopFailed(u) \/ StopTaken(u)
<1> USE DEF sdkVars, threadVars, TypeInv, TypeOK, ThreadTypeOK, Goto
<1>1. ASSUME NEW t \in Threads, ShowLoginDialog(t) \/ ThreadStep(t) PROVE Goal
  BY <1>1 DEF ShowLoginDialog, ThreadStep, Launch, DuplicateFails, Install, StopPrevious, Listen,
     Accept, ListenFails, ReceiveHello, SendHelloAck, SendShowLogin, HandshakeFails, StopFailed,
     ReceiveResult, ClearActive, Record, Callback, GiveUp, StopTaken, FailActiveLogin,
     NextAttempt, Return
<1>2. ASSUME NEW t \in Threads, ControlStep(t) PROVE Goal
  BY <1>2 DEF ControlStep, Control, Initialize, Terminal, CloseLoginDialog, Logout, EmptySlot,
     RecordLoginResult, SetOwnerWindow, MarkDirectXOwnerWindow, SetLoginMode
<1>3. OutsideStep => UNCHANGED pc
  BY DEF OutsideStep, LoginProcessStep, UserDecides, OwnerMonitor, Complete, Connect,
     ConnectFails, SendHello, ReceiveAck, ReceiveShowLogin, Exit, Crash, ProcessStep,
     DestroyWindow
<1>4. UNCHANGED vars => UNCHANGED pc
  BY DEF vars
<1> QED BY <1>1, <1>2, <1>3, <1>4 DEF Next

LEMMA HandleNext ==
  ASSUME TypeInv, TypeInv', HandleInv, [Next]_vars
  PROVE  HandleInv'
<1> USE DEF HandleInv
<1>1. DrawnInOrder'
  <2>1. CASE UNCHANGED <<request, nextRequestId>>
    BY <2>1 DEF DrawnInOrder
  <2>2. ASSUME NEW t \in Threads, Launch(t) PROVE DrawnInOrder'
    BY <2>2 DEF Launch, DrawnInOrder, TypeInv, TypeOK, SdkTypeOK, ThreadTypeOK, Handles,
       NoHandle, Requests
  <2> QED BY <2>1, <2>2, DrawFrame
<1>2. AttendedOnce'
  <2>1. CASE UNCHANGED <<request, nextRequestId>> /\ \A t \in Threads : ~Launch(t)
    BY <2>1, StageFrame DEF AttendedOnce
  <2>2. ASSUME NEW t \in Threads, Launch(t) PROVE AttendedOnce'
    <3>1. \A u \in Threads : request[u] # request'[t]
      BY <2>2 DEF Launch, DrawnInOrder, TypeInv, TypeOK, SdkTypeOK, ThreadTypeOK, Handles,
         NoHandle, Requests
    <3> QED BY <2>2, <3>1 DEF Launch, AttendedOnce, Goto, TypeInv, TypeOK, ThreadTypeOK
  <2> QED BY <2>1, <2>2, DrawFrame
<1>3. UndrawnUnused'
  <2> SUFFICES ASSUME NEW r \in Requests, r >= nextRequestId'
               PROVE  proc'[r] = "none" /\ handle'[r] = "none"
    BY DEF UndrawnUnused
  <2>1. r >= nextRequestId
    <3>1. CASE UNCHANGED <<request, nextRequestId>>
      BY <3>1
    <3>2. ASSUME NEW t \in Threads, Launch(t) PROVE r >= nextRequestId
      BY <3>2 DEF Launch, TypeInv, TypeOK, SdkTypeOK, Requests
    <3> QED BY <3>1, <3>2, DrawFrame
  <2>2. \A t \in Threads : request[t] # r /\ request'[t] # r
    BY <1>1, <2>1 DEF DrawnInOrder, TypeInv, TypeOK, SdkTypeOK, ThreadTypeOK, Handles, NoHandle,
       Requests
  <2>3. proc[r] = "none" /\ handle[r] = "none"
    BY <2>1 DEF UndrawnUnused
  <2> QED BY <2>2, <2>3, HandleChanges, ProcessChanges
<1>4. HeldToStop'
  <2> SUFFICES ASSUME NEW u \in Threads, held'[u] # NoHandle
               PROVE  pc'[u] \in {"stopPrevious", "stopFailed", "stopTaken"}
    BY DEF HeldToStop
  <2> USE DEF TypeInv, TypeOK, ThreadTypeOK, HeldToStop
  <2>1. CASE UNCHANGED held
    BY <2>1, StopFrame DEF StopPrevious, StopFailed, StopTaken
  <2>2. ASSUME NEW t \in Threads, StopPrevious(t) \/ StopFailed(t) \/ StopTaken(t)
        PROVE  pc'[u] = pc[u] /\ held[u] # NoHandle
    BY <2>2 DEF StopPrevious, StopFailed, StopTaken, NextAttempt, Goto
  <2>3. ASSUME NEW t \in Threads,
               \/ Install(t) \/ ListenFails(t) \/ HandshakeFails(t)
               \/ Terminal(t) \/ CloseLoginDialog(t)
        PROVE  pc'[u] \in {"stopPrevious", "stopFailed", "stopTaken"}
    BY <2>3 DEF Install, ListenFails, HandshakeFails, Terminal, CloseLoginDialog, Control,
       FailActiveLogin, EmptySlot, Goto
  <2>4. ASSUME NEW t \in Threads, ClearActive(t) PROVE UNCHANGED held
    BY <2>4 DEF ClearActive
  <2> QED BY <2>1, <2>2, <2>3, <2>4, HandleFrame
<1>5. SlotOfRequest'
  <2>1. CASE UNCHANGED <<activeProcess, activeRequest, held, handle>>
    BY <2>1 DEF SlotOfRequest
  <2>2. ASSUME NEW t \in Threads,
               \/ Install(t) \/ StopPrevious(t) \/ ListenFails(t) \/ HandshakeFails(t)
               \/ StopFailed(t) \/ ClearActive(t) \/ StopTaken(t)
               \/ Terminal(t) \/ CloseLoginDialog(t)
        PROVE  SlotOfRequest'
    BY <2>2 DEF Install, StopPrevious, ListenFails, HandshakeFails, StopFailed, ClearActive,
       StopTaken, Terminal, CloseLoginDialog, SlotOfRequest, FailActiveLogin, TakeActive,
       EmptySlot, sdkVars, NoHandle
  <2> QED BY <2>1, <2>2, HandleFrame
<1>6. NotInstalled'
  <2> SUFFICES ASSUME NEW u \in Threads, pc'[u] = "install" PROVE handle'[request'[u]] = "none"
    BY DEF NotInstalled
  <2>1. request'[u] \in Requests
    BY DEF TypeInv, AttemptOK, Attending
  <2>2. CASE Launch(u)
    BY <2>1, <2>2 DEF Launch, UndrawnUnused, TypeInv, TypeOK, SdkTypeOK, ThreadTypeOK, Requests
  <2>3. CASE ~Launch(u)
    <3>1. pc[u] = "install"
      BY <2>3, StageFrame
    <3>2. request'[u] = request[u]
      BY <2>3, DrawFrame DEF Launch, TypeInv, TypeOK, ThreadTypeOK
    <3>3. ~Install(u)
      BY DEF Install, Goto, TypeInv, TypeOK, ThreadTypeOK
    <3>4. handle[request[u]] = "none"
      BY <3>1 DEF NotInstalled
    <3>5. \A t \in Threads : Install(t) => request[t] # request[u]
      BY <3>1, <3>3 DEF AttendedOnce, Attending, Install
    <3> QED BY <2>1, <3>2, <3>4, <3>5, HandleChanges
  <2> QED BY <2>2, <2>3
<1> QED BY <1>1, <1>2, <1>3, <1>4, <1>5, <1>6, OwnedNext

-----------------------------------------------------------------------------
(* The protocol between a thread and its login process                     *)

\* A pipe holds at most one reply, and an unread reply tells how far its process has come.
ReplyOK(r) ==
  /\ \/ toSdk[r] = <<>>
     \/ toSdk[r] = <<"Hello">>
     \/ toSdk[r] = <<decided[r]>> /\ decided[r] # None
  /\ toSdk[r] # <<>> => proc[r] \in {"helloSent", "exiting", "exited"}

\* Nothing is sent to a process before its hello was read.
CommandOK(r) ==
  toLogin[r] # <<>> =>
    proc[r] \notin {"none", "connecting", "connected"} /\ toSdk[r] # <<"Hello">>

\* Deciding is the last thing the user does with a process.
DecidedLast(r) == decided[r] # None => proc[r] \in {"exiting", "exited"}

\* A pipe nobody has connected to is waited for, and only a launched process has one.
ListenerWaits(r) ==
  /\ pipe[r] = "listening" => \E t \in Threads : request[t] = r /\ pc[t] = "listen"
  /\ proc[r] = "none" => pipe[r] = "none"

\* PeerStaysConnected, process by process.
ConnectedOK(r) ==
  proc[r] \in {"connected", "helloSent", "acked", "dialog"} =>
    /\ pipe[r] = "connected"
    /\ \E t \in Threads :
         request[t] = r /\ pc[t] \in {"listen", "hello", "ack", "show", "result"}

PeerOK(r) == ReplyOK(r) /\ CommandOK(r) /\ DecidedLast(r) /\ ListenerWaits(r) /\ ConnectedOK(r)

\* Before the result there is no decision.
BeforeResult == {"install", "stopPrevious", "listen", "hello", "ack", "show", "stopFailed"}

\* The stages of showLoginDialog and the states of its process go together.
StageOK(t) ==
  LET r == request[t] IN
  /\ pc[t] \in BeforeResult => decided[r] = None
  /\ pc[t] \in {"install", "stopPrevious"} =>
       proc[r] \in {"connecting", "exited"} /\ pipe[r] = "none" /\ toLogin[r] = <<>>
  /\ pc[t] \in {"listen", "hello"} =>
       proc[r] \in {"connecting", "connected", "helloSent", "exited"} /\ toLogin[r] = <<>>
  /\ pc[t] = "ack" =>
       proc[r] \in {"helloSent", "exited"} /\ toLogin[r] = <<>> /\ toSdk[r] = <<>>
  /\ pc[t] = "show" =>
       /\ proc[r] \in {"helloSent", "acked", "exited"}
       /\ toLogin[r] \in {<<>>, <<"HelloAck">>} /\ toSdk[r] = <<>>
  /\ pc[t] = "result" =>
       /\ proc[r] \in {"helloSent", "acked", "dialog", "exiting", "exited"}
       /\ toSdk[r] # <<"Hello">>
       /\ toSdk[r] = <<>> => decided[r] = None
  /\ pc[t] = "stopFailed" =>
       proc[r] = "exited" \/ (proc[r] = "connecting" /\ pipe[r] = "closed")
  /\ pc[t] \in {"clear", "record", "callback"} =>
       r \in Requests /\ received[t] \in Outcomes /\ decided[r] = received[t]

ProtocolInv == (\A r \in Requests : PeerOK(r)) /\ (\A t \in Threads : StageOK(t))

LEMMA Messages ==
  ASSUME NEW m, NEW n
  PROVE  /\ Append(<<>>, m) = <<m>> /\ Head(<<m>>) = m /\ Tail(<<m>>) = <<>> /\ <<m>> # <<>>
         /\ <<m>> = <<n>> => m = n
OBVIOUS

LEMMA ProtocolInit == Init => ProtocolInv
<1> SUFFICES ASSUME Init PROVE ProtocolInv
  OBVIOUS
<1>1. ASSUME NEW r \in Requests PROVE PeerOK(r)
  BY DEF Init, PeerOK, ReplyOK, CommandOK, DecidedLast, ListenerWaits, ConnectedOK
<1>2. ASSUME NEW t \in Threads PROVE StageOK(t)
  BY DEF Init, StageOK, BeforeResult
<1> QED BY <1>1, <1>2 DEF ProtocolInv

\* A process, its pipe and the decision of its user.
PeerState(r) == <<proc[r], pipe[r], toSdk[r], toLogin[r], decided[r]>>

\* A process ends, and nothing else happens to it.
Ends(r) ==
  proc'[r] = "exited" /\ <<pipe'[r], toSdk'[r], toLogin'[r], decided'[r]>>
                            = <<pipe[r], toSdk[r], toLogin[r], decided[r]>>

\* What a process does with its pipe.
PeerStep(r) ==
  \/ Connect(r) \/ SendHello(r) \/ ReceiveAck(r) \/ ReceiveShowLogin(r)
  \/ \E outcome \in Outcomes : Complete(r, outcome)

\* What a thread does with the process of its request and with their pipe.
AttendStep(t) ==
  \/ Launch(t) \/ DuplicateFails(t) \/ Listen(t) \/ ListenFails(t) \/ ReceiveHello(t)
  \/ SendHelloAck(t) \/ SendShowLogin(t) \/ StopFailed(t) \/ ReceiveResult(t) \/ ClearActive(t)

LEMMA PeerFrame ==
  ASSUME TypeInv, [Next]_vars, NEW r \in Requests
  PROVE  \/ PeerState(r)' = PeerState(r)
         \/ Ends(r)
         \/ PeerStep(r)
         \/ \E t \in Threads : request'[t] = r /\ AttendStep(t)
<1> DEFINE Goal == \/ PeerState(r)' = PeerState(r)
                   \/ Ends(r)
                   \/ PeerStep(r)
                   \/ \E t \in Threads : request'[t] = r /\ AttendStep(t)
<1> USE DEF PeerState, Ends, TypeInv, TypeOK, ThreadTypeOK, ProcessTypeOK, HistoryTypeOK
<1>1. ASSUME NEW t \in Threads, Launch(t) \/ DuplicateFails(t) PROVE Goal
  <2>1. CASE Launch(t)
    BY <2>1 DEF AttendStep, Launch, historyVars
  <2>2. CASE DuplicateFails(t)
    BY <2>2 DEF AttendStep, DuplicateFails, NextAttempt, ClosePipe, historyVars
  <2> QED BY <1>1, <2>1, <2>2
<1>2. ASSUME NEW t \in Threads, Listen(t) \/ ListenFails(t) PROVE Goal
  BY <1>2 DEF AttendStep, Listen, ListenFails, threadVars, historyVars
<1>3. ASSUME NEW t \in Threads, ReceiveHello(t) \/ SendHelloAck(t) \/ SendShowLogin(t) PROVE Goal
  BY <1>3 DEF AttendStep, ReceiveHello, SendHelloAck, SendShowLogin, historyVars
<1>4. ASSUME NEW t \in Threads, StopFailed(t) PROVE Goal
  BY <1>4 DEF AttendStep, StopFailed, StopAndClose, NextAttempt, ClosePipe, historyVars
<1>5. ASSUME NEW t \in Threads, ReceiveResult(t) \/ ClearActive(t) PROVE Goal
  BY <1>5 DEF AttendStep, ReceiveResult, ClearActive, ClosePipe, historyVars
<1>6. ASSUME NEW t \in Threads, StopPrevious(t) \/ StopTaken(t) PROVE Goal
  BY <1>6 DEF StopPrevious, StopTaken, StopAndClose, historyVars
<1>7. ASSUME NEW t \in Threads,
             \/ ShowLoginDialog(t) \/ Install(t) \/ Accept(t) \/ HandshakeFails(t) \/ Record(t)
             \/ Callback(t) \/ GiveUp(t) \/ ControlStep(t)
      PROVE  Goal
  BY <1>7 DEF ShowLoginDialog, Install, Accept, HandshakeFails, Record, Callback, GiveUp,
     ControlStep, Control, Initialize, Terminal, CloseLoginDialog, Logout, RecordLoginResult,
     SetOwnerWindow, MarkDirectXOwnerWindow, SetLoginMode, processVars, historyVars
<1>8. ASSUME NEW q \in Requests, PeerStep(q) PROVE Goal
  BY <1>8 DEF PeerStep, Connect, SendHello, ReceiveAck, ReceiveShowLogin, Complete, ProcessStep
<1>9. ASSUME NEW q \in Requests, ConnectFails(q) \/ Exit(q) \/ Crash(q) PROVE Goal
  BY <1>9 DEF ConnectFails, Exit, Crash, ProcessStep
<1>10. ASSUME NEW w \in Windows, DestroyWindow(w) PROVE Goal
  BY <1>10 DEF DestroyWindow, processVars, historyVars
<1>11. CASE UNCHANGED vars
  BY <1>11 DEF vars, processVars, historyVars
<1>12. ASSUME NEW t \in Threads, ThreadStep(t) PROVE Goal
  BY <1>1, <1>2, <1>3, <1>4, <1>5, <1>6, <1>7, <1>12 DEF ThreadStep
<1>13. ASSUME NEW q \in Requests, LoginProcessStep(q) \/ UserDecides(q) \/ Crash(q) PROVE Goal
  BY <1>8, <1>9, <1>13 DEF LoginProcessStep, UserDecides, OwnerMonitor, PeerStep, Outcomes
<1> QED BY <1>7, <1>10, <1>11, <1>12, <1>13 DEF Next, OutsideStep

\* A thread moves by its own steps.
LEMMA ThreadFrame ==
  ASSUME TypeInv, [Next]_vars, NEW u \in Threads
  PROVE  \/ <<pc'[u], request'[u], received'[u]>> = <<pc[u], request[u], received[u]>>
         \/ ShowLoginDialog(u) \/ ThreadStep(u) \/ ControlStep(u)
<1> DEFINE Same == <<pc'[u], request'[u], received'[u]>> = <<pc[u], request[u], received[u]>>
<1> USE DEF TypeInv, TypeOK, ThreadTypeOK, Goto, threadVars
<1>1. ASSUME NEW t \in Threads \ {u}, ShowLoginDialog(t) \/ ThreadStep(t) PROVE Same
  BY <1>1 DEF ShowLoginDialog, ThreadStep, Launch, DuplicateFails, Install, StopPrevious, Listen,
     Accept, ListenFails, ReceiveHello, SendHelloAck, SendShowLogin, HandshakeFails, StopFailed,
     ReceiveResult, ClearActive, Record, Callback, GiveUp, StopTaken, FailActiveLogin,
     NextAttempt, Return, FreshLocals
<1>2. ASSUME NEW t \in Threads \ {u}, ControlStep(t) PROVE Same
  BY <1>2 DEF ControlStep, Control, Initialize, Terminal, CloseLoginDialog, Logout, EmptySlot,
     RecordLoginResult, SetOwnerWindow, MarkDirectXOwnerWindow, SetLoginMode
<1>3. OutsideStep => Same
  BY DEF OutsideStep, LoginProcessStep, UserDecides, OwnerMonitor, Complete, Connect,
     ConnectFails, SendHello, ReceiveAck, ReceiveShowLogin, Exit, Crash, ProcessStep,
     DestroyWindow
<1>4. UNCHANGED vars => Same
  BY DEF vars
<1> QED BY <1>1, <1>2, <1>3, <1>4 DEF Next

\* What is in the pipe and what the user decided.
LEMMA MessagesNext ==
  ASSUME TypeInv, HandleInv, ProtocolInv, [Next]_vars, NEW r \in Requests
  PROVE  ReplyOK(r)' /\ CommandOK(r)' /\ DecidedLast(r)'
<1> DEFINE Goal == ReplyOK(r)' /\ CommandOK(r)' /\ DecidedLast(r)'
<1>1. PeerOK(r)
  BY DEF ProtocolInv
<1> USE DEF PeerOK, ReplyOK, CommandOK, DecidedLast
<1>2. CASE PeerState(r)' = PeerState(r)
  BY <1>1, <1>2 DEF PeerState
<1>3. CASE Ends(r)
  BY <1>1, <1>3 DEF Ends
<1>4. CASE PeerStep(r)
  <2> USE DEF TypeInv, TypeOK, ProcessTypeOK, HistoryTypeOK, ProcessStep
  <2>1. CASE Connect(r)
    BY <1>1, <2>1 DEF Connect
  <2>2. CASE SendHello(r)
    BY <1>1, <2>2, Messages DEF SendHello
  <2>3. CASE ReceiveAck(r)
    BY <1>1, <2>3 DEF ReceiveAck, Outcomes, None
  <2>4. CASE ReceiveShowLogin(r)
    BY <1>1, <2>4 DEF ReceiveShowLogin
  <2>5. ASSUME NEW outcome \in Outcomes, Complete(r, outcome) PROVE Goal
    <3>1. toSdk[r] = <<>> /\ proc'[r] = "exiting"
      BY <1>1, <2>5 DEF Complete
    <3>2. toSdk'[r] = <<outcome>> /\ decided'[r] = outcome /\ outcome \notin {"Hello", None}
      BY <2>5, <3>1, Messages DEF Complete, Outcomes, None
    <3>3. <<outcome>> # <<"Hello">>
      BY <3>2, Messages
    <3> QED BY <3>1, <3>2, <3>3
  <2> QED BY <1>4, <2>1, <2>2, <2>3, <2>4, <2>5 DEF PeerStep
<1>5. ASSUME NEW t \in Threads, request'[t] = r, AttendStep(t) PROVE Goal
  <2>1. StageOK(t)
    BY DEF ProtocolInv
  <2> USE DEF TypeInv, TypeOK, ThreadTypeOK, ProcessTypeOK, HistoryTypeOK
  <2>2. CASE Launch(t)
    <3>1. r = nextRequestId /\ proc[r] = "none"
      BY <1>5, <2>2 DEF Launch, HandleInv, UndrawnUnused, Requests
    <3> QED BY <1>1, <2>2, <3>1 DEF Launch, historyVars
  <2>3. CASE DuplicateFails(t) \/ StopFailed(t) \/ ClearActive(t)
    <3>1. toSdk'[r] = <<>> /\ toLogin'[r] = <<>> /\ decided'[r] = decided[r]
      BY <1>5, <2>3 DEF DuplicateFails, StopFailed, ClearActive, NextAttempt, ClosePipe, historyVars
    <3>2. proc'[r] \in {proc[r], "exited"}
      BY <1>5, <2>3 DEF DuplicateFails, StopFailed, ClearActive, StopAndClose
    <3> QED BY <1>1, <3>1, <3>2
  <2>4. CASE Listen(t) \/ ListenFails(t)
    BY <1>1, <2>4 DEF Listen, ListenFails, historyVars
  <2>5. CASE ReceiveHello(t) \/ ReceiveResult(t)
    <3>1. request[t] = r /\ toSdk[r] # <<>>
      BY <1>5, <2>5 DEF ReceiveHello, ReceiveResult, CanReceive
    <3>2. toSdk'[r] = Tail(toSdk[r]) /\ \E m : toSdk[r] = <<m>>
      BY <1>1, <2>5, <3>1 DEF ReceiveHello, ReceiveResult
    <3> QED BY <1>1, <2>5, <3>2, Messages DEF ReceiveHello, ReceiveResult, historyVars
  <2>6. CASE SendHelloAck(t) \/ SendShowLogin(t)
    <3>1. request[t] = r /\ proc[r] \in {"helloSent", "acked", "exited"} /\ toSdk[r] = <<>>
      BY <1>5, <2>1, <2>6 DEF SendHelloAck, SendShowLogin, StageOK
    <3> QED BY <1>1, <2>6, <3>1, Messages DEF SendHelloAck, SendShowLogin, historyVars
  <2> QED BY <1>5, <2>2, <2>3, <2>4, <2>5, <2>6 DEF AttendStep
<1> QED BY <1>2, <1>3, <1>4, <1>5, PeerFrame

\* The thread that waits for a process to connect, or talks to one, goes on doing so.
LEMMA AttenderStays ==
  ASSUME TypeInv, TypeInv', HandleInv, ProtocolInv, [Next]_vars, NEW r \in Requests,
         NEW t \in Threads, request[t] = r,
         pc[t] \in {"listen", "hello", "ack", "show", "result"},
         proc[r] \in {"connected", "helloSent", "acked", "dialog"}, pipe[r] = "connected"
  PROVE  request'[t] = r /\ pc'[t] \in {"listen", "hello", "ack", "show", "result"}
<1>1. StageOK(t) /\ PeerOK(r)
  BY DEF ProtocolInv
<1> USE DEF TypeInv, TypeOK, ThreadTypeOK
<1>2. CASE <<pc'[t], request'[t], received'[t]>> = <<pc[t], request[t], received[t]>>
  BY <1>2
<1>3. CASE Accept(t) \/ ReceiveHello(t) \/ SendHelloAck(t) \/ SendShowLogin(t) \/ Listen(t)
  BY <1>3 DEF Accept, ReceiveHello, SendHelloAck, SendShowLogin, Listen, Goto, threadVars
<1>4. ~ListenFails(t)
  BY DEF ListenFails
<1>5. ~HandshakeFails(t)
  BY DEF HandshakeFails, PipeBroken, CanSend, Running
<1>6. ~ReceiveResult(t)
  BY <1>1, Messages DEF ReceiveResult, CanReceive, PeerOK, ReplyOK, DecidedLast, StageOK
<1>7. ASSUME ShowLoginDialog(t) \/ ThreadStep(t) \/ ControlStep(t)
      PROVE  Accept(t) \/ ReceiveHello(t) \/ SendHelloAck(t) \/ SendShowLogin(t) \/ Listen(t)
  BY <1>4, <1>5, <1>6, <1>7 DEF ShowLoginDialog, ThreadStep, ControlStep, Control, Launch,
     DuplicateFails, Install, StopPrevious, StopFailed, ClearActive, Record, Callback, GiveUp,
     StopTaken, Initialize, Terminal, CloseLoginDialog, Logout, RecordLoginResult,
     SetOwnerWindow, MarkDirectXOwnerWindow, SetLoginMode
<1> QED BY <1>2, <1>3, <1>7, ThreadFrame

LEMMA ConnectedNext ==
  ASSUME TypeInv, TypeInv', HandleInv, ProtocolInv, [Next]_vars, NEW r \in Requests
  PROVE  ConnectedOK(r)'
<1> SUFFICES ASSUME proc'[r] \in {"connected", "helloSent", "acked", "dialog"}
             PROVE  /\ pipe'[r] = "connected"
                    /\ \E t \in Threads :
                         /\ request'[t] = r
                         /\ pc'[t] \in {"listen", "hello", "ack", "show", "result"}
  BY DEF ConnectedOK
<1>1. PeerOK(r)
  BY DEF ProtocolInv
<1> USE DEF TypeInv, TypeOK, ThreadTypeOK, ProcessTypeOK
<1>2. CASE Connect(r)
  BY <1>1, <1>2 DEF Connect, ProcessStep, threadVars, PeerOK, ListenerWaits
<1>3. CASE ~Connect(r)
  <2>1. /\ proc[r] \in {"connected", "helloSent", "acked", "dialog"}
        /\ pipe[r] = "connected" => pipe'[r] = "connected"
    <3>1. CASE PeerState(r)' = PeerState(r)
      BY <3>1 DEF PeerState
    <3>2. CASE Ends(r)
      BY <3>2 DEF Ends
    <3>3. CASE PeerStep(r)
      BY <1>3, <3>3 DEF PeerStep, SendHello, ReceiveAck, ReceiveShowLogin, Complete, ProcessStep
    <3>4. ASSUME NEW t \in Threads, request'[t] = r, AttendStep(t)
          PROVE  /\ proc[r] \in {"connected", "helloSent", "acked", "dialog"}
                 /\ pipe[r] = "connected" => pipe'[r] = "connected"
      <4>1. StageOK(t)
        BY DEF ProtocolInv
      <4>2. ~Launch(t)
        <5> SUFFICES ASSUME Launch(t) PROVE FALSE
          OBVIOUS
        <5>1. proc[r] = "none"
          BY <3>4 DEF Launch, HandleInv, UndrawnUnused, Requests
        <5> QED BY <3>4, <5>1 DEF Launch
      <4>3. ~DuplicateFails(t)
        BY <3>4 DEF DuplicateFails
      <4>4. ~StopFailed(t)
        <5> SUFFICES ASSUME StopFailed(t) PROVE FALSE
          OBVIOUS
        <5>1. request[t] = r /\ proc[r] \in {"connecting", "exited"}
          BY <3>4, <4>1 DEF StopFailed, StageOK
        <5>2. proc'[r] \in {proc[r], "exited"}
          BY DEF StopFailed, StopAndClose
        <5> QED BY <5>1, <5>2
      <4>5. ~ClearActive(t)
        BY <1>1, <3>4, <4>1 DEF ClearActive, StageOK, PeerOK, DecidedLast, Outcomes, None
      <4>6. CASE Listen(t) \/ ListenFails(t)
        BY <3>4, <4>6 DEF Listen, ListenFails
      <4>7. CASE ReceiveHello(t) \/ SendHelloAck(t) \/ SendShowLogin(t) \/ ReceiveResult(t)
        BY <3>4, <4>7 DEF ReceiveHello, SendHelloAck, SendShowLogin, ReceiveResult
      <4> QED BY <3>4, <4>2, <4>3, <4>4, <4>5, <4>6, <4>7 DEF AttendStep
    <3> QED BY <3>1, <3>2, <3>3, <3>4, PeerFrame
  <2>2. PICK t \in Threads : /\ request[t] = r
                             /\ pc[t] \in {"listen", "hello", "ack", "show", "result"}
    BY <1>1, <2>1 DEF PeerOK, ConnectedOK
  <2>3. pipe[r] = "connected"
    BY <1>1, <2>1 DEF PeerOK, ConnectedOK
  <2> QED BY <2>1, <2>2, <2>3, AttenderStays
<1> QED BY <1>2, <1>3

LEMMA ListenerNext ==
  ASSUME TypeInv, TypeInv', HandleInv, ProtocolInv, [Next]_vars, NEW r \in Requests
  PROVE  ListenerWaits(r)'
<1>1. PeerOK(r)
  BY DEF ProtocolInv
<1> USE DEF TypeInv, TypeOK, ThreadTypeOK, ProcessTypeOK
<1>2. ASSUME pipe[r] = "listening", pipe'[r] = "listening"
      PROVE  \E t \in Threads : request'[t] = r /\ pc'[t] = "listen"
  <2>1. PICK t \in Threads : request[t] = r /\ pc[t] = "listen"
    BY <1>1, <1>2 DEF PeerOK, ListenerWaits
  <2>2. ASSUME ShowLoginDialog(t) \/ ThreadStep(t) \/ ControlStep(t)
        PROVE  FALSE
    BY <1>2, <2>1, <2>2 DEF ShowLoginDialog, ThreadStep, ControlStep, Control, Launch,
       DuplicateFails, Install, StopPrevious, Listen, Accept, ListenFails, ReceiveHello,
       SendHelloAck, SendShowLogin, HandshakeFails, ReceiveResult, StopFailed, ClearActive,
       Record, Callback, GiveUp, StopTaken, Initialize, Terminal, CloseLoginDialog, Logout,
       RecordLoginResult, SetOwnerWindow, MarkDirectXOwnerWindow, SetLoginMode
  <2> QED BY <2>1, <2>2, ThreadFrame
<1>3. CASE PeerState(r)' = PeerState(r)
  BY <1>1, <1>2, <1>3 DEF PeerState, PeerOK, ListenerWaits
<1>4. CASE Ends(r)
  BY <1>1, <1>2, <1>4 DEF Ends, PeerOK, ListenerWaits
<1>5. CASE PeerStep(r)
  BY <1>1, <1>2, <1>5 DEF PeerStep, Connect, SendHello, ReceiveAck, ReceiveShowLogin, Complete,
     ProcessStep, PeerOK, ListenerWaits
<1>6. ASSUME NEW t \in Threads, request'[t] = r, AttendStep(t) PROVE ListenerWaits(r)'
  <2>1. StageOK(t)
    BY DEF ProtocolInv
  <2>2. CASE Launch(t)
    BY <1>1, <1>2, <1>6, <2>2 DEF Launch, HandleInv, UndrawnUnused, PeerOK, ListenerWaits
  <2>3. CASE DuplicateFails(t) \/ StopFailed(t) \/ ClearActive(t)
    <3>1. request[t] = r /\ pipe'[r] = "closed" /\ proc'[r] \in {proc[r], "exited"}
      BY <1>6, <2>3 DEF DuplicateFails, StopFailed, ClearActive, NextAttempt, ClosePipe,
         StopAndClose
    <3>2. proc'[r] # "none"
      BY <1>1, <2>1, <2>3, <3>1 DEF DuplicateFails, StopFailed, ClearActive, StageOK, PeerOK,
         DecidedLast, Outcomes, None
    <3> QED BY <3>1, <3>2 DEF ListenerWaits
  <2>4. CASE Listen(t) \/ ListenFails(t)
    BY <1>6, <2>1, <2>4 DEF Listen, ListenFails, threadVars, StageOK, ListenerWaits
  <2>5. CASE ReceiveHello(t) \/ SendHelloAck(t) \/ SendShowLogin(t) \/ ReceiveResult(t)
    BY <1>1, <1>2, <2>5 DEF ReceiveHello, SendHelloAck, SendShowLogin, ReceiveResult, PeerOK,
       ListenerWaits
  <2> QED BY <1>6, <2>2, <2>3, <2>4, <2>5 DEF AttendStep
<1> QED BY <1>3, <1>4, <1>5, <1>6, PeerFrame

\* A thread that does not move itself: what others do to its process fits its stage.
LEMMA StageKept ==
  ASSUME TypeInv, HandleInv, ProtocolInv, [Next]_vars, NEW u \in Threads,
         <<pc'[u], request'[u], received'[u]>> = <<pc[u], request[u], received[u]>>
  PROVE  StageOK(u)'
<1>1. StageOK(u) /\ \A r \in Requests : PeerOK(r)
  BY DEF ProtocolInv
<1>2. CASE pc[u] \notin Attending \cup {"record", "callback"}
  BY <1>2 DEF StageOK, BeforeResult, Attending
<1>3. CASE pc[u] \in Attending \cup {"record", "callback"}
  <2>1. PICK r \in Requests : r = request[u] /\ r = request'[u]
    BY <1>1, <1>3 DEF StageOK, TypeInv, AttemptOK
  <2> USE DEF TypeInv, TypeOK, ThreadTypeOK, ProcessTypeOK, HistoryTypeOK
  <2>2. PeerOK(r)
    BY <1>1
  <2>3. CASE PeerState(r)' = PeerState(r)
    BY <1>1, <2>1, <2>3 DEF PeerState, StageOK
  <2>4. CASE Ends(r)
    BY <1>1, <2>1, <2>4 DEF Ends, StageOK
  <2>5. CASE Connect(r)
    BY <1>1, <1>3, <2>1, <2>2, <2>5 DEF Connect, ProcessStep, StageOK, BeforeResult
  <2>6. CASE SendHello(r)
    BY <1>1, <1>3, <2>1, <2>2, <2>6 DEF SendHello, ProcessStep, StageOK, BeforeResult
  <2>7. CASE ReceiveAck(r)
    BY <1>1, <1>3, <2>1, <2>2, <2>7, Messages DEF ReceiveAck, ProcessStep, StageOK, BeforeResult
  <2>8. CASE ReceiveShowLogin(r)
    BY <1>1, <1>3, <2>1, <2>2, <2>8, Messages
       DEF ReceiveShowLogin, ProcessStep, StageOK, BeforeResult
  <2>9. ASSUME NEW outcome \in Outcomes, Complete(r, outcome) PROVE StageOK(u)'
    <3>1. pc[u] = "result"
      BY <1>1, <1>3, <2>1, <2>2, <2>9 DEF Complete, ProcessStep, StageOK, Attending, PeerOK,
         DecidedLast, Outcomes, None
    <3>2. toSdk'[r] = <<outcome>> /\ proc'[r] = "exiting"
      BY <2>2, <2>9, Messages DEF Complete, ProcessStep, PeerOK, ReplyOK
    <3>3. toSdk'[r] # <<>> /\ toSdk'[r] # <<"Hello">>
      BY <3>2, Messages DEF Outcomes
    <3> QED BY <2>1, <3>1, <3>2, <3>3 DEF StageOK, BeforeResult
  <2>10. ASSUME NEW t \in Threads, request'[t] = r, AttendStep(t) PROVE StageOK(u)'
    <3>1. ~Launch(t)
      BY <2>1, <2>10 DEF Launch, HandleInv, DrawnInOrder, SdkTypeOK
    <3>2. request[t] = r /\ pc[t] \in Attending
      BY <2>10, <3>1 DEF AttendStep, DuplicateFails, Listen, ListenFails, ReceiveHello,
         SendHelloAck, SendShowLogin, StopFailed, ReceiveResult, ClearActive, threadVars, Attending
    <3>3. CASE pc[u] \in {"record", "callback"}
      <4>1. decided'[r] = decided[r]
        BY <2>10 DEF AttendStep, Launch, DuplicateFails, Listen, ListenFails, ReceiveHello,
           SendHelloAck, SendShowLogin, StopFailed, ReceiveResult, ClearActive, historyVars
      <4> QED BY <1>1, <2>1, <3>3, <4>1 DEF StageOK, BeforeResult
    <3>4. CASE pc[u] \in Attending
      <4>1. t = u
        BY <2>1, <3>2, <3>4 DEF HandleInv, AttendedOnce
      <4>2. Listen(u)
        BY <2>10, <3>1, <4>1 DEF AttendStep, DuplicateFails, ListenFails, ReceiveHello,
           SendHelloAck, SendShowLogin, StopFailed, ReceiveResult, ClearActive, NextAttempt,
           FailActiveLogin, Goto
      <4> QED BY <1>1, <2>1, <4>2 DEF Listen, historyVars, StageOK, BeforeResult
    <3> QED BY <1>3, <3>3, <3>4
  <2> QED BY <2>3, <2>4, <2>5, <2>6, <2>7, <2>8, <2>9, <2>10, PeerFrame DEF PeerStep
<1> QED BY <1>2, <1>3

\* A thread that moves: where it comes to fits the state of its process.
LEMMA StageMoves ==
  ASSUME TypeInv, TypeInv', HandleInv, ProtocolInv, NEW u \in Threads,
         ShowLoginDialog(u) \/ ThreadStep(u) \/ ControlStep(u)
  PROVE  StageOK(u)'
<1>1. StageOK(u) /\ \A r \in Requests : PeerOK(r)
  BY DEF ProtocolInv
<1> DEFINE r == request[u]
<1>2. pc[u] \in Attending => r \in Requests
  BY DEF TypeInv, AttemptOK
<1> USE DEF TypeInv, TypeOK, ThreadTypeOK, ProcessTypeOK, HistoryTypeOK, Goto
<1>3. CASE Launch(u)
  <2>1. proc[nextRequestId] = "none" /\ PeerOK(nextRequestId)
    BY <1>1, <1>3 DEF Launch, HandleInv, UndrawnUnused, Requests
  <2> QED BY <1>3, <2>1
             DEF Launch, historyVars, StageOK, BeforeResult, PeerOK, CommandOK, DecidedLast,
             ListenerWaits
<1>4. CASE Install(u)
  BY <1>1, <1>4 DEF Install, historyVars, StageOK, BeforeResult
<1>5. CASE StopPrevious(u)
  <2>1. proc'[r] \in {proc[r], "exited"}
    BY <1>2, <1>5 DEF StopPrevious, StopAndClose, Attending
  <2> QED BY <1>1, <1>5, <2>1 DEF StopPrevious, historyVars, StageOK, BeforeResult
<1>6. CASE Listen(u)
  BY <1>1, <1>6 DEF Listen, threadVars, historyVars, StageOK, BeforeResult
<1>7. CASE Accept(u)
  BY <1>1, <1>7 DEF Accept, processVars, historyVars, StageOK, BeforeResult
<1>8. CASE ListenFails(u)
  BY <1>1, <1>2, <1>8
     DEF ListenFails, FailActiveLogin, historyVars, StageOK, BeforeResult, Attending,
     PeerOK, ConnectedOK
<1>9. CASE ReceiveHello(u)
  <2>1. toSdk[r] = <<"Hello">> /\ proc[r] \in {"helloSent", "exited"}
    BY <1>1, <1>2, <1>9
       DEF ReceiveHello, CanReceive, StageOK, BeforeResult, Attending, PeerOK, ReplyOK
  <2>2. toSdk'[r] = <<>>
    BY <1>2, <1>9, <2>1, Messages DEF ReceiveHello, Attending
  <2> QED BY <1>1, <1>9, <2>1, <2>2 DEF ReceiveHello, historyVars, StageOK, BeforeResult
<1>10. CASE SendHelloAck(u)
  <2>1. toLogin'[r] = <<"HelloAck">>
    BY <1>1, <1>2, <1>10, Messages DEF SendHelloAck, StageOK, Attending
  <2> QED BY <1>1, <1>10, <2>1 DEF SendHelloAck, historyVars, StageOK, BeforeResult
<1>11. CASE SendShowLogin(u)
  <2>1. toSdk[r] # <<"Hello">>
    BY <1>1, <1>11, Messages DEF SendShowLogin, StageOK
  <2> QED BY <1>1, <1>11, <2>1 DEF SendShowLogin, historyVars, StageOK, BeforeResult
<1>12. CASE HandshakeFails(u)
  <2>1. proc[r] = "exited" /\ decided[r] = None /\ pc'[u] = "stopFailed"
    BY <1>1, <1>12 DEF HandshakeFails, PipeBroken, CanSend, Running, FailActiveLogin, StageOK,
       BeforeResult
  <2> QED BY <1>12, <2>1 DEF HandshakeFails, processVars, historyVars, StageOK, BeforeResult
<1>13. CASE ReceiveResult(u)
  <2>1. toSdk[r] = <<decided[r]>> /\ decided[r] # None
    BY <1>1, <1>2, <1>13 DEF ReceiveResult, CanReceive, StageOK, Attending, PeerOK, ReplyOK
  <2>2. received'[u] = decided[r] /\ decided[r] \in Outcomes
    BY <1>2, <1>13, <2>1, Messages DEF ReceiveResult, Attending
  <2> QED BY <1>2, <1>13, <2>2 DEF ReceiveResult, historyVars, StageOK, BeforeResult, Attending
<1>14. CASE ClearActive(u) \/ Record(u)
  BY <1>1, <1>14 DEF ClearActive, Record, processVars, historyVars, StageOK, BeforeResult
<1>15. CASE \/ ShowLoginDialog(u) \/ DuplicateFails(u) \/ StopFailed(u) \/ Callback(u)
            \/ GiveUp(u) \/ StopTaken(u) \/ ControlStep(u)
  <2>1. pc'[u] \in {"idle", "launch", "stopTaken"}
    BY <1>15 DEF ShowLoginDialog, DuplicateFails, StopFailed, Callback, GiveUp, StopTaken,
       NextAttempt, Return, ControlStep, Control, Initialize, Terminal, CloseLoginDialog, Logout,
       EmptySlot, RecordLoginResult, SetOwnerWindow, MarkDirectXOwnerWindow, SetLoginMode
  <2> QED BY <2>1 DEF StageOK, BeforeResult
<1> QED BY <1>3, <1>4, <1>5, <1>6, <1>7, <1>8, <1>9, <1>10, <1>11, <1>12, <1>13, <1>14, <1>15
        DEF ThreadStep

LEMMA ProtocolNext ==
  ASSUME TypeInv, TypeInv', HandleInv, ProtocolInv, [Next]_vars
  PROVE  ProtocolInv'
<1>1. ASSUME NEW r \in Requests PROVE PeerOK(r)'
  BY MessagesNext, ListenerNext, ConnectedNext DEF PeerOK
<1>2. ASSUME NEW u \in Threads PROVE StageOK(u)'
  BY StageKept, StageMoves, ThreadFrame
<1> QED BY <1>1, <1>2 DEF ProtocolInv

-----------------------------------------------------------------------------
(* Abandoned processes, answers and tickets                                *)

\* A process that still has something to do is watched: by its handle, or by the thread
\* that is about to duplicate it.
Watched(r) ==
  proc[r] \in {"connecting", "connected", "helloSent", "acked", "dialog"} =>
    handle[r] = "open" \/ \E t \in Threads : pc[t] = "install" /\ request[t] = r

LEMMA WatchedNext ==
  ASSUME TypeInv, TypeInv', HandleInv, HandleInv', ProtocolInv, [Next]_vars,
         NEW r \in Requests, Watched(r)
  PROVE  Watched(r)'
<1> SUFFICES ASSUME proc'[r] \in {"connecting", "connected", "helloSent", "acked", "dialog"}
             PROVE  \/ handle'[r] = "open"
                    \/ \E t \in Threads : pc'[t] = "install" /\ request'[t] = r
  BY DEF Watched
<1> USE DEF TypeInv, TypeOK, ThreadTypeOK, ProcessTypeOK
<1>1. PeerOK(r) /\ \A t \in Threads : StageOK(t)
  BY DEF ProtocolInv
<1>2. ASSUME NEW t \in Threads, Launch(t), request'[t] = r PROVE pc'[t] = "install"
  <2>1. proc[r] = "none"
    BY <1>2 DEF Launch, HandleInv, UndrawnUnused, Requests
  <2> QED BY <1>2, <2>1 DEF Launch, Goto
<1>3. CASE \A t \in Threads : request'[t] = r => ~Launch(t)
  <2>1. proc[r] \in {"connecting", "connected", "helloSent", "acked", "dialog"}
    <3>1. CASE PeerState(r)' = PeerState(r) \/ Ends(r)
      BY <3>1 DEF PeerState, Ends
    <3>2. CASE PeerStep(r)
      BY <3>2 DEF PeerStep, Connect, SendHello, ReceiveAck, ReceiveShowLogin, Complete, ProcessStep
    <3>3. ASSUME NEW t \in Threads, request'[t] = r, AttendStep(t)
          PROVE  proc'[r] \in {proc[r], "exited"}
      BY <1>3, <3>3 DEF AttendStep, DuplicateFails, Listen, ListenFails, ReceiveHello,
         SendHelloAck, SendShowLogin, StopFailed, ReceiveResult, ClearActive, StopAndClose
    <3> QED BY <3>1, <3>2, <3>3, PeerFrame
  <2>2. CASE handle[r] = "open"
    <3>1. CASE UNCHANGED <<activeProcess, activeRequest, held, handle>>
      BY <2>2, <3>1
    <3>2. ASSUME NEW t \in Threads, StopPrevious(t) \/ StopFailed(t) \/ StopTaken(t)
          PROVE  handle'[r] = "open"
      BY <2>2, <3>2 DEF StopPrevious, StopFailed, StopTaken, StopAndClose, CloseOf
    <3>3. ASSUME NEW t \in Threads, ClearActive(t) PROVE handle'[r] = "open"
      <4>1. request[t] # r
        BY <1>1, <2>1, <3>3 DEF ClearActive, StageOK, PeerOK, DecidedLast, Outcomes, None
      <4>2. Taken(t) # r
        BY <4>1 DEF Taken, HandleInv, SlotOfRequest, NoHandle, Requests
      <4> QED BY <2>2, <3>3, <4>2 DEF ClearActive, CloseOf
    <3>4. ASSUME NEW t \in Threads,
                 \/ Install(t) \/ ListenFails(t) \/ HandshakeFails(t)
                 \/ Terminal(t) \/ CloseLoginDialog(t)
          PROVE  handle'[r] = "open"
      BY <2>2, <3>4 DEF Install, ListenFails, HandshakeFails, Terminal, CloseLoginDialog, Control,
         processVars
    <3> QED BY <3>1, <3>2, <3>3, <3>4, HandleFrame
  <2>3. ASSUME NEW t \in Threads, pc[t] = "install", request[t] = r
        PROVE  handle'[r] = "open" \/ (pc'[t] = "install" /\ request'[t] = r)
    <3>1. CASE <<pc'[t], request'[t], received'[t]>> = <<pc[t], request[t], received[t]>>
      BY <2>3, <3>1
    <3>2. CASE Install(t)
      BY <2>3, <3>2 DEF Install
    <3>3. CASE DuplicateFails(t)
      BY <2>3, <3>3 DEF DuplicateFails
    <3>4. ASSUME ShowLoginDialog(t) \/ ThreadStep(t) \/ ControlStep(t)
          PROVE  Install(t) \/ DuplicateFails(t)
      BY <2>3, <3>4 DEF ShowLoginDialog, ThreadStep, ControlStep, Control, Launch, StopPrevious,
         Listen, Accept, ListenFails, ReceiveHello, SendHelloAck, SendShowLogin, HandshakeFails,
         ReceiveResult, StopFailed, ClearActive, Record, Callback, GiveUp, StopTaken, Initialize,
         Terminal, CloseLoginDialog, Logout, RecordLoginResult, SetOwnerWindow,
         MarkDirectXOwnerWindow, SetLoginMode
    <3> QED BY <3>1, <3>2, <3>3, <3>4, ThreadFrame
  <2> QED BY <2>1, <2>2, <2>3 DEF Watched
<1> QED BY <1>2, <1>3

\* While a call runs it has returned nothing, and no attempt ends well by itself.
Answered(t) ==
  /\ lastError[t] \in {"FAILED", "LOGINCANCEL"}
  /\ pc[t] \notin {"idle", "stopTaken"} => returned[t] = None /\ callbacks[t] = 0
  /\ returned[t] # None =>
       \/ callbacks[t] = 0 /\ returned[t] # "OK"
       \/ /\ callbacks[t] = 1
          /\ request[t] \in Requests
          /\ \/ decided[request[t]] = "LoginSuccess" /\ returned[t] = "OK"
             \/ decided[request[t]] = "LoginCancel" /\ returned[t] = "LOGINCANCEL"

\* A decision is final.
LEMMA DecisionFinal ==
  ASSUME TypeInv, ProtocolInv, [Next]_vars, NEW r \in Requests, decided[r] # None
  PROVE  decided'[r] = decided[r]
<1>1. PeerOK(r)
  BY DEF ProtocolInv
<1>2. CASE PeerState(r)' = PeerState(r) \/ Ends(r)
  BY <1>2 DEF PeerState, Ends
<1>3. CASE PeerStep(r)
  BY <1>1, <1>3 DEF PeerStep, Connect, SendHello, ReceiveAck, ReceiveShowLogin, Complete,
     ProcessStep, PeerOK, DecidedLast
<1>4. ASSUME NEW t \in Threads, AttendStep(t) PROVE decided' = decided
  BY <1>4 DEF AttendStep, Launch, DuplicateFails, Listen, ListenFails, ReceiveHello, SendHelloAck,
     SendShowLogin, StopFailed, ReceiveResult, ClearActive, historyVars
<1> QED BY <1>2, <1>3, <1>4, PeerFrame

\* What a call has made known is only changed by its own thread.
LEMMA ReturnFrame ==
  ASSUME TypeInv, [Next]_vars, NEW u \in Threads
  PROVE  \/ <<pc'[u], request'[u], lastError'[u], returned'[u], callbacks'[u]>>
              = <<pc[u], request[u], lastError[u], returned[u], callbacks[u]>>
         \/ ShowLoginDialog(u) \/ ThreadStep(u) \/ ControlStep(u)
<1> DEFINE Same == <<pc'[u], request'[u], lastError'[u], returned'[u], callbacks'[u]>>
                     = <<pc[u], request[u], lastError[u], returned[u], callbacks[u]>>
<1> USE DEF TypeInv, TypeOK, ThreadTypeOK, HistoryTypeOK, Goto, threadVars, historyVars
<1>1. ASSUME NEW t \in Threads \ {u}, ShowLoginDialog(t) \/ ThreadStep(t) PROVE Same
  BY <1>1 DEF ShowLoginDialog, ThreadStep, Launch, DuplicateFails, Install, StopPrevious, Listen,
     Accept, ListenFails, ReceiveHello, SendHelloAck, SendShowLogin, HandshakeFails, StopFailed,
     ReceiveResult, ClearActive, Record, Callback, GiveUp, StopTaken, FailActiveLogin,
     NextAttempt, Return, FreshLocals
<1>2. ASSUME NEW t \in Threads \ {u}, ControlStep(t) PROVE Same
  BY <1>2 DEF ControlStep, Control, Initialize, Terminal, CloseLoginDialog, Logout, EmptySlot,
     RecordLoginResult, SetOwnerWindow, MarkDirectXOwnerWindow, SetLoginMode
<1>3. OutsideStep => Same
  BY DEF OutsideStep, LoginProcessStep, UserDecides, OwnerMonitor, Complete, Connect,
     ConnectFails, SendHello, ReceiveAck, ReceiveShowLogin, Exit, Crash, ProcessStep,
     DestroyWindow
<1>4. UNCHANGED vars => Same
  BY DEF vars
<1> QED BY <1>1, <1>2, <1>3, <1>4 DEF Next

LEMMA AnsweredNext ==
  ASSUME TypeInv, TypeInv', ProtocolInv, [Next]_vars, NEW u \in Threads, Answered(u)
  PROVE  Answered(u)'
<1>1. StageOK(u)
  BY DEF ProtocolInv
<1> USE DEF TypeInv, TypeOK, ThreadTypeOK, HistoryTypeOK, Goto, threadVars, historyVars
<1>2. CASE <<pc'[u], request'[u], lastError'[u], returned'[u], callbacks'[u]>>
             = <<pc[u], request[u], lastError[u], returned[u], callbacks[u]>>
  BY <1>2, DecisionFinal DEF Answered, None
<1>3. CASE ShowLoginDialog(u)
  BY <1>3 DEF ShowLoginDialog, Return, FreshLocals, Answered, Codes, None
<1>4. CASE Callback(u)
  BY <1>1, <1>4 DEF Callback, Return, FreshLocals, ResultCode, Answered, StageOK, Outcomes
<1>5. CASE GiveUp(u)
  BY <1>5 DEF GiveUp, Return, FreshLocals, Answered
<1>6. CASE \/ Launch(u) \/ DuplicateFails(u) \/ Install(u) \/ StopPrevious(u) \/ Listen(u)
           \/ Accept(u) \/ ListenFails(u) \/ ReceiveHello(u) \/ SendHelloAck(u)
           \/ SendShowLogin(u) \/ HandshakeFails(u) \/ StopFailed(u) \/ ReceiveResult(u)
           \/ ClearActive(u) \/ Record(u)
  <2>1. pc[u] \notin {"idle", "stopTaken"} /\ UNCHANGED <<returned, callbacks>>
    BY <1>6 DEF Launch, DuplicateFails, Install, StopPrevious, Listen, Accept, ListenFails,
       ReceiveHello, SendHelloAck, SendShowLogin, HandshakeFails, StopFailed, ReceiveResult,
       ClearActive, Record
  <2>2. lastError'[u] \in {lastError[u], "FAILED", "LOGINCANCEL"}
    BY <1>6 DEF Launch, DuplicateFails, Install, StopPrevious, Listen, Accept, ListenFails,
       ReceiveHello, SendHelloAck, SendShowLogin, HandshakeFails, StopFailed, ReceiveResult,
       ClearActive, Record, FailActiveLogin
  <2> QED BY <2>1, <2>2 DEF Answered
<1>7. CASE StopTaken(u) \/ ControlStep(u)
  <2>1. /\ UNCHANGED <<returned, callbacks, request, lastError, decided>>
        /\ pc'[u] \in {"idle", "stopTaken"}
    BY <1>7 DEF StopTaken, ControlStep, Control, Initialize, Terminal, CloseLoginDialog, Logout,
       EmptySlot, RecordLoginResult, SetOwnerWindow, MarkDirectXOwnerWindow, SetLoginMode
  <2> QED BY <2>1 DEF Answered
<1> QED BY <1>2, <1>3, <1>4, <1>5, <1>6, <1>7, ReturnFrame DEF ThreadStep

\* An sndaid comes from a login that succeeded, and its ticket is there, too.
TicketOK ==
  cache.sndaid # Empty =>
    /\ cache.sndaid \in Requests /\ cache.ticket = cache.sndaid
    /\ decided[cache.sndaid] = "LoginSuccess"

LEMMA TicketNext ==
  ASSUME TypeInv, ProtocolInv, [Next]_vars, TicketOK
  PROVE  TicketOK'
<1>1. CASE UNCHANGED cache
  BY <1>1, DecisionFinal DEF TicketOK, None
<1>2. ASSUME NEW t \in Threads, Record(t) PROVE TicketOK'
  <2>1. CASE received[t] = "LoginSuccess"
    BY <1>2, <2>1 DEF Record, historyVars, TicketOK, ProtocolInv, StageOK
  <2>2. CASE received[t] # "LoginSuccess"
    BY <1>1, <1>2, <2>2 DEF Record
  <2> QED BY <2>1, <2>2
<1>3. ASSUME cache'.sndaid = Empty PROVE TicketOK'
  BY <1>3 DEF TicketOK
<1>4. ASSUME NEW t \in Threads, ControlStep(t) PROVE UNCHANGED cache \/ cache'.sndaid = Empty
  BY <1>4 DEF ControlStep, Initialize, Terminal, CloseLoginDialog, Logout, RecordLoginResult,
     SetOwnerWindow, MarkDirectXOwnerWindow, SetLoginMode, NoLogin
<1>5. ASSUME NEW t \in Threads, ShowLoginDialog(t) \/ ThreadStep(t)
      PROVE  UNCHANGED cache \/ Record(t)
  BY <1>5 DEF ShowLoginDialog, ThreadStep, Launch, DuplicateFails, Install, StopPrevious, Listen,
     Accept, ListenFails, ReceiveHello, SendHelloAck, SendShowLogin, HandshakeFails, StopFailed,
     ReceiveResult, ClearActive, Callback, GiveUp, StopTaken, sdkVars
<1>6. OutsideStep \/ UNCHANGED vars => UNCHANGED cache
  BY DEF OutsideStep, LoginProcessStep, UserDecides, OwnerMonitor, Complete, Connect,
     ConnectFails, SendHello, ReceiveAck, ReceiveShowLogin, Exit, Crash, ProcessStep,
     DestroyWindow, sdkVars, vars
<1> QED BY <1>1, <1>2, <1>3, <1>4, <1>5, <1>6 DEF Next

-----------------------------------------------------------------------------
(* The theorems                                                            *)

IInv ==
  /\ TypeInv /\ HandleInv /\ ProtocolInv
  /\ \A r \in Requests : Watched(r)
  /\ \A t \in Threads : Answered(t)
  /\ TicketOK

LEMMA IInvInit == Init => IInv
<1> SUFFICES ASSUME Init PROVE IInv
  OBVIOUS
<1>1. /\ \A r \in Requests : Watched(r)
      /\ \A t \in Threads : Answered(t)
      /\ TicketOK
  BY DEF Init, Watched, Answered, TicketOK, NoLogin
<1> QED BY <1>1, TypeInit, HandleInit, ProtocolInit DEF IInv

LEMMA IInvNext == IInv /\ [Next]_vars => IInv'
<1> SUFFICES ASSUME IInv, [Next]_vars PROVE IInv'
  OBVIOUS
<1> USE DEF IInv
<1>1. TypeInv'
  BY TypeNext
<1>2. HandleInv'
  BY <1>1, HandleNext
<1>3. ProtocolInv'
  BY <1>1, ProtocolNext
<1>4. \A r \in Requests : Watched(r)'
  BY <1>1, <1>2, WatchedNext
<1>5. \A t \in Threads : Answered(t)'
  BY <1>1, AnsweredNext
<1>6. TicketOK'
  BY TicketNext
<1> QED BY <1>1, <1>2, <1>3, <1>4, <1>5, <1>6

LEMMA Invariance == Spec => []IInv
BY IInvInit, IInvNext, PTL DEF Spec

\* The login core is type correct: showLoginDialog counts no attempt and draws no request
\* id beyond its bounds, and every handle it keeps is null or the handle of a request.
THEOREM TypeCorrect == Spec => []TypeOK
<1>1. IInv => TypeOK
  BY DEF IInv, TypeInv
<1> QED BY Invariance, <1>1, PTL

\* No duplicated process handle is closed twice, lost or shared, however the calls of
\* showLoginDialog, closeLoginDialog and terminal interleave.
THEOREM HandlesSafe == Spec => []HandlesOwnedOnce
<1>1. IInv => HandlesOwnedOnce
  BY DEF IInv, HandleInv, Owned, HandlesOwnedOnce, Holders
<1> QED BY Invariance, <1>1, PTL

\* No login process is left running without an owner.
THEOREM NoneAbandoned == Spec => []NoAbandonedProcess
<1>1. IInv => NoAbandonedProcess
  <2> SUFFICES ASSUME IInv, NEW r \in Requests, Running(r), proc[r] # "exiting"
               PROVE  \/ activeProcess = r
                      \/ \E t \in Threads : held[t] = r
                      \/ \E t \in Threads : pc[t] = "install" /\ request[t] = r
    BY DEF NoAbandonedProcess, Holders
  <2>1. proc[r] \in {"connecting", "connected", "helloSent", "acked", "dialog"}
    BY DEF IInv, TypeInv, TypeOK, ProcessTypeOK, ProcessStates, Running
  <2> QED BY <2>1 DEF IInv, HandleInv, Owned, Watched
<1> QED BY Invariance, <1>1, PTL

\* A decision the user made is not lost to a relaunch of the login process.
THEOREM DecisionsKept == Spec => []DecisionNotDropped
<1>1. IInv => DecisionNotDropped
  BY DEF IInv, ProtocolInv, StageOK, BeforeResult, DecisionNotDropped
<1> QED BY Invariance, <1>1, PTL

\* A call returns what the user decided in its dialog, after one callback; without a
\* callback it returns an error.
THEOREM AnswersTrue == Spec => []AnswerIsTheUsers
<1>1. IInv => AnswerIsTheUsers
  BY DEF IInv, Answered, AnswerIsTheUsers
<1> QED BY Invariance, <1>1, PTL

\* While a login process is connected, its thread keeps the other end of the pipe open.
THEOREM PeersConnected == Spec => []PeerStaysConnected
<1>1. IInv => PeerStaysConnected
  BY DEF IInv, ProtocolInv, PeerOK, ConnectedOK, PeerStaysConnected
<1> QED BY Invariance, <1>1, PTL

\* The ticket that is handed out with an sndaid comes from a login the user completed.
THEOREM TicketsTrue == Spec => []TicketFromLogin
<1>1. IInv => TicketFromLogin
  BY DEF IInv, TicketOK, TicketFromLogin
<1> QED BY Invariance, <1>1, PTL

\* Whenever a handle leaves the slot, one thread has it in its hands, or its login was
\* answered and the handle is closed.
THEOREM SlotsHandedOver == Spec => SlotHandedOver
<1> DEFINE Handed ==
      activeProcess # NoHandle /\ activeProcess' # activeProcess =>
        \/ \E t \in Threads : held'[t] = activeProcess
        \/ decided[activeProcess] # None /\ handle'[activeProcess] = "closed"
<1>1. ASSUME IInv, [Next]_vars PROVE Handed
  <2> USE DEF IInv, TypeInv, TypeOK, ThreadTypeOK, HandleInv, SlotOfRequest
  <2>1. ASSUME NEW t \in Threads, Install(t) \/ Terminal(t) \/ CloseLoginDialog(t) PROVE Handed
    BY <1>1, <2>1 DEF Install, Terminal, CloseLoginDialog, EmptySlot
  <2>2. ASSUME NEW t \in Threads, ListenFails(t) \/ HandshakeFails(t) PROVE Handed
    BY <1>1, <2>2 DEF ListenFails, HandshakeFails, FailActiveLogin, TakeActive, Taken
  <2>3. ASSUME NEW t \in Threads, StopPrevious(t) \/ StopFailed(t) \/ StopTaken(t) PROVE Handed
    BY <1>1, <2>3 DEF StopPrevious, StopFailed, StopTaken, sdkVars
  <2>4. ASSUME NEW t \in Threads, ClearActive(t), activeProcess # NoHandle,
               activeProcess' # activeProcess
        PROVE  decided[activeProcess] # None /\ handle'[activeProcess] = "closed"
    <3>1. activeProcess = request[t] /\ Taken(t) = activeProcess
      BY <1>1, <2>4 DEF ClearActive, TakeActive, Taken
    <3>2. decided[request[t]] # None
      BY <1>1, <2>4 DEF ClearActive, ProtocolInv, StageOK, Outcomes, None
    <3>3. activeProcess \in Requests /\ handle[activeProcess] = "open"
      BY <1>1, <2>4 DEF SdkTypeOK, Handles, Owned
    <3>4. handle' = [handle EXCEPT ![activeProcess] = "closed"]
      BY <2>4, <3>1, <3>3 DEF ClearActive, CloseOf
    <3>5. handle'[activeProcess] = "closed"
      BY <1>1, <3>3, <3>4 DEF ProcessTypeOK
    <3> QED BY <3>1, <3>2, <3>5
  <2> QED BY <1>1, <2>1, <2>2, <2>3, <2>4, HandleFrame
<1>2. IInv /\ [Next]_vars => [Handed]_vars
  BY <1>1
<1>3. Spec => [][Handed]_vars
  BY Invariance, <1>2, PTL DEF Spec
<1> QED BY <1>3 DEF SlotHandedOver

-----------------------------------------------------------------------------
(* The login core implements the login service: seen from the application, *)
(* every step of SdkRuntime is a step of LoginService or changes nothing.  *)
(* What the mapping of the variables needs:                                *)

Phase == [t \in Threads |-> PhaseOf(pc[t])]

\* Between two calls a thread has no answer.
NoOldAnswer == \A t \in Threads : pc[t] \in {"idle", "stopTaken"} => received[t] = None

LEMMA NoOldAnswerNext ==
  ASSUME TypeInv, [Next]_vars, NoOldAnswer
  PROVE  NoOldAnswer'
<1> USE DEF TypeInv, TypeOK, ThreadTypeOK, NoOldAnswer, Goto, threadVars
<1>1. ASSUME NEW t \in Threads, ShowLoginDialog(t) \/ Callback(t) \/ GiveUp(t)
      PROVE  NoOldAnswer'
  BY <1>1 DEF ShowLoginDialog, Callback, GiveUp, Return, FreshLocals
<1>2. ASSUME NEW t \in Threads, ThreadStep(t) PROVE NoOldAnswer'
  BY <1>1, <1>2 DEF ThreadStep, Launch, DuplicateFails, Install, StopPrevious, Listen, Accept,
     ListenFails, ReceiveHello, SendHelloAck, SendShowLogin, HandshakeFails, StopFailed,
     ReceiveResult, ClearActive, Record, StopTaken, FailActiveLogin, NextAttempt
<1>3. ASSUME NEW t \in Threads, ControlStep(t) PROVE NoOldAnswer'
  BY <1>3 DEF ControlStep, Control, Initialize, Terminal, CloseLoginDialog, Logout, EmptySlot,
     RecordLoginResult, SetOwnerWindow, MarkDirectXOwnerWindow, SetLoginMode
<1>4. OutsideStep \/ UNCHANGED vars => UNCHANGED <<pc, received>>
  BY DEF OutsideStep, LoginProcessStep, UserDecides, OwnerMonitor, Complete, Connect,
     ConnectFails, SendHello, ReceiveAck, ReceiveShowLogin, Exit, Crash, ProcessStep,
     DestroyWindow, vars
<1> QED BY <1>1, <1>2, <1>3, <1>4 DEF Next

RInv == IInv /\ NoOldAnswer

LEMMA RInvariance == Spec => []RInv
<1>1. Init => NoOldAnswer
  BY DEF Init, NoOldAnswer
<1>2. RInv /\ [Next]_vars => RInv'
  BY IInvNext, NoOldAnswerNext DEF RInv, IInv
<1> QED BY <1>1, <1>2, IInvInit, PTL DEF Spec, RInv

\* The phase follows the stage.
LEMMA PhaseMoves ==
  ASSUME TypeInv, NEW t \in Threads, NEW stage, Goto(t, stage)
  PROVE  Phase' = [Phase EXCEPT ![t] = PhaseOf(stage)]
BY DEF Phase, Goto, TypeInv, TypeOK, ThreadTypeOK

LEMMA PhaseStays ==
  ASSUME TypeInv, NEW t \in Threads, NEW stage, Goto(t, stage), PhaseOf(stage) = PhaseOf(pc[t])
  PROVE  Phase' = Phase
BY DEF Phase, Goto, TypeInv, TypeOK, ThreadTypeOK

-----------------------------------------------------------------------------
(* The steps                                                               *)

Seen == <<initialized, cache, Phase, received, returned, callbacks>>

\* The steps of a call that the application does not see.
LEMMA HiddenSteps ==
  ASSUME TypeInv, NEW t \in Threads,
         \/ Launch(t) \/ DuplicateFails(t) \/ Install(t) \/ StopPrevious(t) \/ Listen(t)
         \/ Accept(t) \/ ListenFails(t) \/ ReceiveHello(t) \/ SendHelloAck(t)
         \/ SendShowLogin(t) \/ HandshakeFails(t) \/ StopFailed(t) \/ ClearActive(t)
         \/ StopTaken(t)
  PROVE  UNCHANGED Seen
<1>1. UNCHANGED <<initialized, cache, received, returned, callbacks>>
  BY DEF Launch, DuplicateFails, Install, StopPrevious, Listen, Accept, ListenFails,
     ReceiveHello, SendHelloAck, SendShowLogin, HandshakeFails, StopFailed, ClearActive,
     StopTaken, sdkVars, threadVars, historyVars
<1>2. \/ UNCHANGED pc
      \/ \E stage : Goto(t, stage) /\ PhaseOf(stage) = PhaseOf(pc[t])
  BY DEF Launch, DuplicateFails, Install, StopPrevious, Listen, Accept, ListenFails,
     ReceiveHello, SendHelloAck, SendShowLogin, HandshakeFails, StopFailed, ClearActive,
     StopTaken, threadVars, FailActiveLogin, NextAttempt, PhaseOf
<1>3. Phase' = Phase
  BY <1>2, PhaseStays DEF Phase
<1> QED BY <1>1, <1>3 DEF Seen

\* The steps of the application: refused, opened, answered, recorded, returned.
LEMMA SeenSteps ==
  ASSUME RInv, RInv', NEW t \in Threads,
         ShowLoginDialog(t) \/ GiveUp(t) \/ ReceiveResult(t) \/ Record(t) \/ Callback(t)
  PROVE  Service!CallStep(t)
<1> USE DEF RInv, IInv, TypeInv, TypeOK, ThreadTypeOK, Phase
<1> DEFINE At(stage) == Phase[t] = PhaseOf(stage)
<1>1. CASE ShowLoginDialog(t) /\ ~initialized
  <2>1. Phase' = Phase /\ Phase[t] = "idle"
    BY <1>1, PhaseStays DEF ShowLoginDialog, Return, PhaseOf
  <2>2. Service!End(t, "FAILED")
    BY <1>1 DEF ShowLoginDialog, Return, FreshLocals, Service!End, None, Service!None
  <2>3. Service!Refuse(t)
    BY <1>1, <2>1, <2>2 DEF ShowLoginDialog, Service!Refuse, sdkVars
  <2> QED BY <2>3 DEF Service!CallStep
<1>2. CASE ShowLoginDialog(t) /\ initialized
  <2>1. Phase' = [Phase EXCEPT ![t] = "open"] /\ Phase[t] = "idle"
    BY <1>2, PhaseMoves DEF ShowLoginDialog, PhaseOf
  <2>2. UNCHANGED received
    BY <1>2 DEF ShowLoginDialog, FreshLocals, NoOldAnswer
  <2>3. Service!Open(t)
    BY <1>2, <2>1, <2>2 DEF ShowLoginDialog, Service!Open, Service!Move, Service!None, None,
       sdkVars
  <2> QED BY <2>3 DEF Service!CallStep
<1>3. CASE GiveUp(t)
  <2>1. Phase' = [Phase EXCEPT ![t] = "idle"] /\ Phase[t] = "open"
    BY <1>3, PhaseMoves DEF GiveUp, Return, PhaseOf
  <2>2. Service!End(t, lastError[t])
    BY <1>3 DEF GiveUp, Return, FreshLocals, Service!End, None, Service!None
  <2>3. lastError[t] \in {"FAILED", "LOGINCANCEL"}
    BY DEF Answered
  <2>4. Service!Fail(t)
    BY <1>3, <2>1, <2>2, <2>3 DEF GiveUp, Service!Fail, Service!Move, sdkVars
  <2> QED BY <2>4 DEF Service!CallStep
<1>4. CASE ReceiveResult(t)
  <2>1. Phase' = [Phase EXCEPT ![t] = "answered"] /\ Phase[t] = "open"
    BY <1>4, PhaseMoves DEF ReceiveResult, PhaseOf
  <2>2. \E outcome \in Outcomes : received' = [received EXCEPT ![t] = outcome]
    <3>1. pc'[t] = "clear" /\ received'[t] \in Outcomes
      BY <1>4 DEF ReceiveResult, Goto, ProtocolInv, StageOK
    <3> QED BY <1>4, <3>1 DEF ReceiveResult
  <2>3. Service!Answer(t)
    BY <1>4, <2>1, <2>2 DEF ReceiveResult, Service!Answer, Service!Move, Service!Outcomes,
       Outcomes, sdkVars, historyVars
  <2> QED BY <2>3 DEF Service!CallStep
<1>5. CASE Record(t)
  <2>1. Phase' = [Phase EXCEPT ![t] = "recorded"] /\ Phase[t] = "answered"
    BY <1>5, PhaseMoves DEF Record, PhaseOf
  <2>2. request[t] \in Requests
    BY <1>5 DEF Record, ProtocolInv, StageOK
  <2>3. Service!Record(t)
    BY <1>5, <2>1, <2>2 DEF Record, Service!Record, Service!Move, historyVars
  <2> QED BY <2>3 DEF Service!CallStep
<1>6. CASE Callback(t)
  <2>1. Phase' = [Phase EXCEPT ![t] = "idle"] /\ Phase[t] = "recorded"
    BY <1>6, PhaseMoves DEF Callback, Return, PhaseOf
  <2>2. received[t] \in Outcomes
    BY <1>6 DEF Callback, ProtocolInv, StageOK
  <2>3. Service!End(t, Service!CodeOf(received[t]))
    BY <1>6, <2>2 DEF Callback, Return, FreshLocals, ResultCode, Outcomes, Service!End,
       Service!CodeOf, None, Service!None
  <2>4. Service!Callback(t)
    BY <1>6, <2>1, <2>3 DEF Callback, Service!Callback, Service!Move, sdkVars
  <2> QED BY <2>4 DEF Service!CallStep
<1> QED BY <1>1, <1>2, <1>3, <1>4, <1>5, <1>6

\* The other entry points.
LEMMA ControlSteps ==
  ASSUME TypeInv, NEW t \in Threads, ControlStep(t)
  PROVE  Service!Next \/ UNCHANGED Seen
<1>1. Control(t) /\ UNCHANGED <<received, returned, callbacks>>
  BY DEF ControlStep, Control, Initialize, Terminal, CloseLoginDialog, Logout,
     RecordLoginResult, SetOwnerWindow, MarkDirectXOwnerWindow, SetLoginMode, historyVars
<1>2. Phase' = Phase
  <2>1. UNCHANGED pc \/ Goto(t, "stopTaken")
    BY DEF ControlStep, Initialize, Terminal, CloseLoginDialog, Logout, EmptySlot,
       RecordLoginResult, SetOwnerWindow, MarkDirectXOwnerWindow, SetLoginMode
  <2>2. PhaseOf(pc[t]) = PhaseOf("stopTaken")
    BY <1>1 DEF Control, PhaseOf
  <2> QED BY <2>1, <2>2, PhaseStays DEF Phase
<1> USE <1>1, <1>2 DEF Service!Next, Phase, NoLogin, Service!NoLogin, Empty, Service!Empty
<1>3. CASE Initialize(t)
  BY <1>3 DEF Initialize, Service!Start
<1>4. CASE Terminal(t)
  BY <1>4 DEF Terminal, Service!Stop
<1>5. CASE Logout(t)
  BY <1>5 DEF Logout, Service!Forget
<1>6. ASSUME NEW session \in Sessions, RecordLoginResult(t, session) PROVE Service!Next
  BY <1>6 DEF RecordLoginResult, Service!RecordDirect
<1>7. ASSUME \/ CloseLoginDialog(t)
             \/ \E w \in Owners : SetOwnerWindow(t, w) \/ MarkDirectXOwnerWindow(t, w)
             \/ \E attach \in BOOLEAN : SetLoginMode(t, attach)
      PROVE  UNCHANGED Seen
  BY <1>7 DEF CloseLoginDialog, SetOwnerWindow, MarkDirectXOwnerWindow, SetLoginMode, Seen
<1> QED BY <1>3, <1>4, <1>5, <1>6, <1>7 DEF ControlStep

LEMMA StepsMap ==
  ASSUME RInv, RInv', [Next]_vars
  PROVE  [Service!Next]_Service!serviceVars
<1> USE DEF RInv, IInv
<1>1. UNCHANGED Seen => UNCHANGED Service!serviceVars
  BY DEF Seen, Phase, Service!serviceVars
<1>2. ASSUME NEW t \in Threads, ShowLoginDialog(t) \/ ThreadStep(t)
      PROVE  Service!Next \/ UNCHANGED Seen
  <2>1. \/ Service!CallStep(t)
        \/ UNCHANGED Seen
    BY <1>2, HiddenSteps, SeenSteps DEF ThreadStep
  <2> QED BY <2>1 DEF Service!Next
<1>3. OutsideStep \/ UNCHANGED vars => UNCHANGED Seen
  BY DEF OutsideStep, LoginProcessStep, UserDecides, OwnerMonitor, Complete, Connect,
     ConnectFails, SendHello, ReceiveAck, ReceiveShowLogin, Exit, Crash, ProcessStep,
     DestroyWindow, vars, sdkVars, threadVars, historyVars, Seen, Phase
<1> QED BY <1>1, <1>2, <1>3, ControlSteps DEF Next

\* Everything an application can see of the login core, it could see of the login service.
THEOREM LoginServiceImplemented == Spec => ImplementsLoginService
<1>1. Init => Service!Init
  BY DEF Init, Service!Init, PhaseOf, NoLogin, Service!NoLogin, Empty, Service!Empty, None,
     Service!None
<1>2. RInv /\ RInv' /\ [Next]_vars => [Service!Next]_Service!serviceVars
  BY StepsMap
<1> QED BY <1>1, <1>2, RInvariance, PTL DEF Spec, Service!Spec, ImplementsLoginService
=============================================================================
