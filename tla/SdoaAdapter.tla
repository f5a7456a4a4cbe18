----------------------------- MODULE SdoaAdapter -----------------------------
(***************************************************************************)
(* The old SDOA interface on top of the login core: SdoaAppAdapter         *)
(* (src/src/sdk/sdoa_app_adapter.cpp).  The adapter is one object for the  *)
(* whole program: the login state, the callback of the application and     *)
(* the global that routes the callback of the core are shared by every     *)
(* thread that calls it.  The core appears as the login service it         *)
(* implements (SdkRuntime, ImplementsLoginService).                        *)
(*                                                                         *)
(* A callback is named by the thread that passed it.                       *)
(***************************************************************************)
EXTENDS Integers, Sequences

CONSTANTS
  Threads,       \* application threads
  LoginThreads,  \* those that call ShowLoginDialog
  NoThread,      \* a null callback
  Requests,      \* names of the logins of the service
  Sessions       \* sessions passed to LoginDirect

ASSUME AdapterAssumption ==
  /\ LoginThreads \subseteq Threads
  /\ NoThread \notin Threads

VARIABLES
  \* the login service
  ready, cache, phase, answer, returned, callbacks,
  \* members of SdoaAppAdapter, guarded by its mutex_
  loginState,      \* loginState_
  activeCallback,  \* activeLoginCallback_
  \* g_loginCallbackAdapter is set, guarded by g_loginCallbackMutex
  routed,
  \* locals of the threads
  stage,           \* where the thread is in the adapter
  callback,        \* the callback that handleSdolLoginCallback picked up
  \* history
  delivered,       \* codes the callback of a thread got since its latest call began
  result,          \* what its latest ShowLoginDialog returned
  overlapped       \* whether another thread was in ShowLoginDialog at the same time

serviceVars == <<ready, cache, phase, answer, returned, callbacks>>
adapterVars == <<loginState, activeCallback, routed, stage, callback, delivered, result,
                 overlapped>>
vars        == <<serviceVars, adapterVars>>

Runtime == INSTANCE LoginService

States == {"NONE", "OK", "CONNECTING", "FAILED", "LOGOUT"}
Stages == {"idle", "armed", "calling", "inside", "handle", "deliver", "called", "returned",
           "dropped", "loggingOut", "loggingIn"}
Codes  == {"OK", "CANCEL", "FAILED"}
None   == "none"

\* Mutant: the code of the core is passed on.
CodeOfTheCore(code) == code

MapSdolErrorToSdoaError(code) ==
  CASE code = "OK"          -> "OK"
    [] code = "LOGINCANCEL" -> "CANCEL"
    [] code = "FAILED"      -> "FAILED"

Goto(t, from, to) == stage[t] = from /\ stage' = [stage EXCEPT ![t] = to]

InCall(t) == stage[t] \notin {"idle", "loggingOut", "loggingIn"}

Init ==
  /\ Runtime!Init
  /\ loginState = "NONE"
  /\ activeCallback = NoThread
  /\ routed = FALSE
  /\ stage = [t \in Threads |-> "idle"]
  /\ callback = [t \in Threads |-> NoThread]
  /\ delivered = [t \in Threads |-> <<>>]
  /\ result = [t \in Threads |-> None]
  /\ overlapped = [t \in Threads |-> FALSE]

-----------------------------------------------------------------------------
(* ShowLoginDialog                                                         *)

ShowLoginDialog(t) ==
  /\ t \in LoginThreads
  /\ Goto(t, "idle", "armed")
  /\ loginState' = "CONNECTING"
  /\ activeCallback' = t
  /\ delivered' = [delivered EXCEPT ![t] = <<>>]
  /\ result' = [result EXCEPT ![t] = None]
  /\ overlapped' = [u \in Threads |->
                      IF u = t
                      THEN \E other \in Threads \ {t} : InCall(other)
                      ELSE overlapped[u] \/ InCall(u)]
  /\ UNCHANGED <<serviceVars, routed, callback>>

\* Mutant: the core is called before the route is set.
NoRoute(t) ==
  /\ Goto(t, "armed", "calling")
  /\ UNCHANGED <<serviceVars, loginState, activeCallback, routed, callback, delivered, result, overlapped>>

Route(t) ==
  /\ Goto(t, "armed", "calling")
  /\ routed' = TRUE
  /\ UNCHANGED <<serviceVars, loginState, activeCallback, callback, delivered, result, overlapped>>

\* showLoginDialog of the core begins, or refuses because it is not initialized.
CallRuntime(t) ==
  /\ \/ Goto(t, "calling", "inside") /\ Runtime!Open(t)
     \/ Goto(t, "calling", "returned") /\ Runtime!Refuse(t)
  /\ UNCHANGED <<loginState, activeCallback, routed, callback, delivered, result, overlapped>>

\* The core works on the call.
RuntimeStep(t) ==
  /\ stage[t] = "inside"
  /\ Runtime!Answer(t) \/ Runtime!Record(t)
  /\ UNCHANGED adapterVars

\* The core returns an error of its own: no callback was made.
RuntimeFails(t) ==
  /\ Goto(t, "inside", "returned")
  /\ Runtime!Fail(t)
  /\ UNCHANGED <<loginState, activeCallback, routed, callback, delivered, result, overlapped>>

\* sdoaLoginThunk: without a route the callback of the core ends here.
Thunk(t) ==
  /\ phase[t] = "recorded"
  /\ IF routed THEN Goto(t, "inside", "handle") ELSE Goto(t, "inside", "called")
  /\ UNCHANGED <<serviceVars, loginState, activeCallback, routed, callback, delivered, result, overlapped>>

\* handleSdolLoginCallback, under the lock.  The core answers with OK or LOGINCANCEL only.
Handle(t) ==
  /\ loginState' = IF answer[t] = "LoginSuccess" THEN "OK" ELSE "NONE"
  /\ callback' = [callback EXCEPT ![t] = activeCallback]
  /\ IF activeCallback = NoThread
     THEN Goto(t, "handle", "called")
     ELSE Goto(t, "handle", "deliver")
  /\ UNCHANGED <<serviceVars, activeCallback, routed, delivered, result, overlapped>>

\* handleSdolLoginCallback, outside the lock: the application is called.
Deliver(t) ==
  /\ Goto(t, "deliver", "called")
  /\ delivered' = [delivered EXCEPT ![callback[t]] =
                     Append(@, MapSdolErrorToSdoaError(Runtime!CodeOf(answer[t])))]
  /\ callback' = [callback EXCEPT ![t] = NoThread]
  /\ UNCHANGED <<serviceVars, loginState, activeCallback, routed, result, overlapped>>

ReturnFromRuntime(t) ==
  /\ Goto(t, "called", "returned")
  /\ Runtime!Callback(t)
  /\ UNCHANGED <<loginState, activeCallback, routed, callback, delivered, result, overlapped>>

\* Mutant: a call that failed returns early.
UnrouteIfAnswered(t) ==
  /\ Goto(t, "returned", "dropped")
  /\ routed' = (routed /\ callbacks[t] = 0)
  /\ UNCHANGED <<serviceVars, loginState, activeCallback, callback, delivered, result, overlapped>>

Unroute(t) ==
  /\ Goto(t, "returned", "dropped")
  /\ routed' = FALSE
  /\ UNCHANGED <<serviceVars, loginState, activeCallback, callback, delivered, result, overlapped>>

\* Mutant: a failed call leaves the state as it is, too.
FinishKeepsState(t) ==
  /\ Goto(t, "dropped", "idle")
  /\ activeCallback' = NoThread
  /\ result' = [result EXCEPT ![t] = MapSdolErrorToSdoaError(returned[t])]
  /\ UNCHANGED <<serviceVars, loginState, routed, callback, delivered, overlapped>>

\* A cancelled login without a callback leaves the state as it is.
Finish(t) ==
  /\ Goto(t, "dropped", "idle")
  /\ activeCallback' = NoThread
  /\ loginState' = IF returned[t] = "FAILED" /\ loginState = "CONNECTING"
                   THEN "FAILED"
                   ELSE loginState
  /\ result' = [result EXCEPT ![t] = MapSdolErrorToSdoaError(returned[t])]
  /\ UNCHANGED <<serviceVars, routed, callback, delivered, overlapped>>

-----------------------------------------------------------------------------
(* Logout, LoginDirect, igwInitialize, igwTerminal                         *)

\* The core forgets the login under its own lock, then the adapter takes its lock.
Logout(t) ==
  /\ Goto(t, "idle", "loggingOut")
  /\ Runtime!Forget
  /\ UNCHANGED <<loginState, activeCallback, routed, callback, delivered, result, overlapped>>

FinishLogout(t) ==
  /\ Goto(t, "loggingOut", "idle")
  /\ loginState' = "LOGOUT"
  /\ UNCHANGED <<serviceVars, activeCallback, routed, callback, delivered, result, overlapped>>

LoginDirect(t) ==
  /\ Goto(t, "idle", "loggingIn")
  /\ \E session \in Sessions : Runtime!RecordDirect(session)
  /\ UNCHANGED <<loginState, activeCallback, routed, callback, delivered, result, overlapped>>

FinishLoginDirect(t) ==
  /\ Goto(t, "loggingIn", "idle")
  /\ loginState' = "OK"
  /\ UNCHANGED <<serviceVars, activeCallback, routed, callback, delivered, result, overlapped>>

\* Neither of them touches the adapter.
InitializeSdoaRuntime(t) == stage[t] = "idle" /\ Runtime!Start /\ UNCHANGED adapterVars
IgwTerminal(t)           == stage[t] = "idle" /\ Runtime!Stop /\ UNCHANGED adapterVars

\* GetTicket
TicketAvailable == cache.ticket # Runtime!Empty /\ cache.sndaid # Runtime!Empty

-----------------------------------------------------------------------------
LoginStep(t) ==
  \/ Route(t) \/ CallRuntime(t) \/ RuntimeStep(t) \/ RuntimeFails(t)
  \/ Thunk(t) \/ Handle(t) \/ Deliver(t) \/ ReturnFromRuntime(t)
  \/ Unroute(t) \/ Finish(t)

Next ==
  \E t \in Threads :
    \/ ShowLoginDialog(t) \/ LoginStep(t)
    \/ Logout(t) \/ FinishLogout(t) \/ LoginDirect(t) \/ FinishLoginDirect(t)
    \/ InitializeSdoaRuntime(t) \/ IgwTerminal(t)

Spec == Init /\ [][Next]_vars

-----------------------------------------------------------------------------
(* Properties                                                              *)

\* The adapter's members and the locals of its callers stay in their types.
TypeOK ==
  /\ loginState \in States
  /\ activeCallback \in LoginThreads \cup {NoThread}
  /\ routed \in BOOLEAN
  /\ stage \in [Threads -> Stages]
  /\ callback \in [Threads -> LoginThreads \cup {NoThread}]
  /\ delivered \in [Threads -> Seq(Codes)]
  /\ result \in [Threads -> Codes \cup {None}]
  /\ overlapped \in [Threads -> BOOLEAN]
  /\ cache.ticket \in Requests \cup Sessions \cup {Runtime!Empty}

\* The application hears of every answer, exactly once and with the code that
\* ShowLoginDialog then returns, and of nothing when no answer came
\* (sdoa_app_adapter.cpp:104-132, 535-575) - as long as no other login overlaps.
CallbackMatchesReturn ==
  \A t \in LoginThreads :
    result[t] # None /\ ~overlapped[t] =>
      \/ callbacks[t] = 1 /\ delivered[t] = <<result[t]>>
      \/ callbacks[t] = 0 /\ delivered[t] = <<>>

\* The state CONNECTING outlives the call in one case only: the login was
\* cancelled by the death of its processes, so that no callback was made and the
\* condition at sdoa_app_adapter.cpp:127 leaves the state alone.
ConnectingExplained ==
  loginState = "CONNECTING" /\ (\A t \in LoginThreads : ~overlapped[t]) =>
    \E t \in LoginThreads : InCall(t) \/ (result[t] = "CANCEL" /\ callbacks[t] = 0)

\* Once every call returned, no callback of the application is kept and the core
\* can no longer be routed to the adapter, in whatever order calls overlapped
\* (sdoa_app_adapter.cpp:118-130).
NoDanglingCallback ==
  (\A t \in Threads : ~InCall(t)) => activeCallback = NoThread /\ ~routed

\* docs/sdoa4client_dx_demo_20260518.md:66: GetTicket returns the runtime ticket
\* cache "filled after login/direct-login".
TicketAfterDirectLogin == cache.ticket \in Sessions => TicketAvailable
=============================================================================
