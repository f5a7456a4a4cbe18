-------------------------- MODULE SdoaAdapterProofs --------------------------
(***************************************************************************)
(* Theorems about the old interface, for any number of threads that call   *)
(* it in any order.                                                        *)
(***************************************************************************)
EXTENDS SdoaAdapter, TLAPS

Returns == {"none", "OK", "LOGINCANCEL", "FAILED"}

TypeInv ==
  /\ stage \in [Threads -> Stages]
  /\ callback \in [Threads -> LoginThreads \cup {NoThread}]
  /\ phase \in [Threads -> {"idle", "open", "answered", "recorded"}]
  /\ answer \in [Threads -> {"none", "LoginSuccess", "LoginCancel"}]
  /\ returned \in [Threads -> Returns]
  /\ callbacks \in [Threads -> Int]
  /\ delivered \in [Threads -> Seq(Codes)]
  /\ result \in [Threads -> Codes \cup {None}]
  /\ overlapped \in [Threads -> BOOLEAN]
  /\ activeCallback \in LoginThreads \cup {NoThread}

\* Where the call of the core is, when the thread is somewhere in the adapter.
CallOf(t) ==
  /\ InCall(t) => t \in LoginThreads /\ result[t] = None
  /\ stage[t] \in {"idle", "armed", "calling", "returned", "dropped", "loggingOut", "loggingIn"} =>
       phase[t] = "idle"
  /\ stage[t] = "inside" => phase[t] \in {"open", "answered", "recorded"}
  /\ stage[t] \in {"handle", "deliver", "called"} => phase[t] = "recorded"
  /\ phase[t] \in {"answered", "recorded"} => answer[t] \in {"LoginSuccess", "LoginCancel"}
  /\ stage[t] \in {"inside", "handle", "deliver", "called"} => callbacks[t] = 0
  /\ stage[t] \in {"returned", "dropped"} =>
       \/ callbacks[t] = 0 /\ returned[t] \in {"FAILED", "LOGINCANCEL"}
       \/ callbacks[t] = 1 /\ returned[t] \in {"OK", "LOGINCANCEL"}
  /\ stage[t] = "deliver" => callback[t] \in LoginThreads

CallInv == \A t \in Threads : CallOf(t)

\* What the threads share.
Routing == {"calling", "inside", "handle", "deliver", "called", "returned"}

SharedInv ==
  /\ \A t, u \in Threads : t # u /\ InCall(t) /\ InCall(u) => overlapped[t]
  /\ activeCallback # NoThread => InCall(activeCallback)
  /\ routed => \E t \in Threads : stage[t] \in Routing
  /\ \A t \in Threads : stage[t] = "deliver" /\ callback[t] # t => overlapped[callback[t]]

BaseInv == TypeInv /\ CallInv /\ SharedInv

LEMMA BaseInit == Init => BaseInv
BY AdapterAssumption
   DEF Init, Runtime!Init, Runtime!None, BaseInv, TypeInv, CallInv, CallOf, SharedInv, InCall,
         None, Stages,
       Codes, Returns

-----------------------------------------------------------------------------
(* Steps of a thread within its call                                       *)

\* What a step of the call leaves alone of the other threads.
OthersAlone(t) ==
  /\ \A u \in Threads \ {t} :
       /\ stage'[u] = stage[u] /\ callback'[u] = callback[u] /\ phase'[u] = phase[u]
       /\ answer'[u] = answer[u] /\ returned'[u] = returned[u] /\ callbacks'[u] = callbacks[u]
       /\ result'[u] = result[u]
  /\ UNCHANGED overlapped

LEMMA OthersCall ==
  ASSUME BaseInv, NEW t \in Threads, OthersAlone(t), TypeInv', CallOf(t)', InCall(t)
  PROVE  TypeInv' /\ CallInv' /\ InCall(t) /\ OthersAlone(t)
BY DEF BaseInv, CallInv, CallOf, OthersAlone, InCall

\* What a step of the call does to the core and to the thread.
LEMMA CallTypes ==
  ASSUME BaseInv, NEW t \in Threads, LoginStep(t)
  PROVE  TypeInv' /\ CallInv' /\ InCall(t) /\ OthersAlone(t)
<1> USE AdapterAssumption DEF BaseInv, CallInv, InCall, Goto, serviceVars
<1> SUFFICES OthersAlone(t) /\ TypeInv' /\ CallOf(t)' /\ InCall(t)
  BY OthersCall
<1>1. CASE Route(t)
  BY <1>1 DEF Route, OthersAlone, TypeInv, Stages, CallOf
<1>2. CASE CallRuntime(t)
  <2>1. CASE Goto(t, "calling", "inside") /\ Runtime!Open(t)
    <3>1. TypeInv'
      BY <1>2, <2>1 DEF CallRuntime, Runtime!Open, Runtime!Move, Runtime!None, Returns, TypeInv, Stages
    <3>2. OthersAlone(t)
      BY <1>2, <2>1 DEF CallRuntime, Runtime!Open, Runtime!Move, OthersAlone, TypeInv
    <3>3. CallOf(t)'
      BY <1>2, <2>1 DEF CallRuntime, Runtime!Open, Runtime!Move, CallOf, TypeInv
    <3> QED BY <2>1, <3>1, <3>2, <3>3
  <2>2. CASE Goto(t, "calling", "returned") /\ Runtime!Refuse(t)
    <3>1. TypeInv'
      BY <1>2, <2>2 DEF CallRuntime, Runtime!Refuse, Runtime!End, Runtime!None, Returns, TypeInv, Stages
    <3>2. OthersAlone(t)
      BY <1>2, <2>2 DEF CallRuntime, Runtime!Refuse, Runtime!End, OthersAlone, TypeInv
    <3>3. CallOf(t)'
      BY <1>2, <2>2 DEF CallRuntime, Runtime!Refuse, Runtime!End, CallOf, TypeInv
    <3> QED BY <2>2, <3>1, <3>2, <3>3
  <2> QED BY <1>2, <2>1, <2>2 DEF CallRuntime
<1>3. CASE RuntimeStep(t)
  <2>1. CASE Runtime!Answer(t)
    <3>1. TypeInv'
      BY <1>3, <2>1 DEF RuntimeStep, Runtime!Answer, Runtime!Move, Runtime!Outcomes, adapterVars, TypeInv
    <3>2. OthersAlone(t)
      BY <1>3, <2>1 DEF RuntimeStep, Runtime!Answer, Runtime!Move, adapterVars, OthersAlone, TypeInv
    <3>3. CallOf(t)'
      BY <1>3, <2>1 DEF RuntimeStep, Runtime!Answer, Runtime!Move, Runtime!Outcomes, adapterVars,
            CallOf, TypeInv
    <3> QED BY <1>3, <3>1, <3>2, <3>3 DEF RuntimeStep
  <2>2. CASE Runtime!Record(t)
    <3>1. TypeInv'
      BY <1>3, <2>2 DEF RuntimeStep, Runtime!Record, Runtime!Move, adapterVars, TypeInv
    <3>2. OthersAlone(t)
      BY <1>3, <2>2 DEF RuntimeStep, Runtime!Record, Runtime!Move, adapterVars, OthersAlone, TypeInv
    <3>3. CallOf(t)'
      BY <1>3, <2>2 DEF RuntimeStep, Runtime!Record, Runtime!Move, adapterVars, CallOf, TypeInv
    <3> QED BY <1>3, <3>1, <3>2, <3>3 DEF RuntimeStep
  <2> QED BY <1>3, <2>1, <2>2 DEF RuntimeStep
<1>4. CASE RuntimeFails(t)
  <2>1. TypeInv'
    BY <1>4 DEF RuntimeFails, Runtime!Fail, Runtime!Move, Runtime!End, Runtime!None, Returns,
          TypeInv, Stages
  <2>2. OthersAlone(t)
    BY <1>4 DEF RuntimeFails, Runtime!Fail, Runtime!Move, Runtime!End, OthersAlone, TypeInv
  <2>3. CallOf(t)'
    BY <1>4 DEF RuntimeFails, Runtime!Fail, Runtime!Move, Runtime!End, CallOf, TypeInv
  <2> QED BY <1>4, <2>1, <2>2, <2>3 DEF RuntimeFails
<1>5. CASE Thunk(t)
  <2>1. stage[t] = "inside" /\ phase[t] = "recorded" /\ stage' = [stage EXCEPT ![t] = stage'[t]]
        /\ stage'[t] \in {"handle", "called"}
    BY <1>5 DEF Thunk, TypeInv
  <2>2. UNCHANGED <<callback, phase, answer, returned, callbacks, delivered, result, overlapped,
        activeCallback>>
    BY <1>5 DEF Thunk
  <2>3. TypeInv'
    BY <2>1, <2>2 DEF TypeInv, Stages
  <2>4. OthersAlone(t)
    BY <2>1, <2>2 DEF OthersAlone, TypeInv
  <2>5. CallOf(t)'
    BY <2>1, <2>2 DEF CallOf, TypeInv
  <2> QED BY <2>1, <2>3, <2>4, <2>5
<1>6. CASE Handle(t)
  <2>1. stage[t] = "handle" /\ stage' = [stage EXCEPT ![t] = stage'[t]]
        /\ stage'[t] = IF activeCallback = NoThread THEN "called" ELSE "deliver"
    BY <1>6 DEF Handle, TypeInv
  <2>2. /\ callback' = [callback EXCEPT ![t] = activeCallback]
        /\ UNCHANGED <<phase, answer, returned, callbacks, delivered, result, overlapped,
              activeCallback>>
    BY <1>6 DEF Handle
  <2>3. TypeInv'
    BY <2>1, <2>2 DEF TypeInv, Stages
  <2>4. OthersAlone(t)
    BY <2>1, <2>2 DEF OthersAlone, TypeInv
  <2>5. CallOf(t)'
    BY <2>1, <2>2 DEF CallOf, TypeInv
  <2> QED BY <2>1, <2>3, <2>4, <2>5
<1>7. CASE Deliver(t)
  <2>1. MapSdolErrorToSdoaError(Runtime!CodeOf(answer[t])) \in Codes
    BY <1>7 DEF Deliver, MapSdolErrorToSdoaError, Runtime!CodeOf, Codes
  <2>2. delivered' \in [Threads -> Seq(Codes)]
    BY <1>7, <2>1 DEF Deliver, TypeInv, CallOf
  <2>3. TypeInv'
    BY <1>7, <2>2 DEF Deliver, TypeInv, Stages
  <2>4. OthersAlone(t)
    BY <1>7 DEF Deliver, OthersAlone, TypeInv
  <2>5. CallOf(t)'
    BY <1>7 DEF Deliver, TypeInv, CallOf
  <2> QED BY <1>7, <2>3, <2>4, <2>5 DEF Deliver
<1>8. CASE ReturnFromRuntime(t)
  <2>1. Runtime!CodeOf(answer[t]) \in {"OK", "LOGINCANCEL"}
    BY DEF Runtime!CodeOf
  <2>2. TypeInv'
    BY <1>8, <2>1 DEF ReturnFromRuntime, Runtime!Callback, Runtime!Move, Runtime!End,
          Runtime!None, Returns, TypeInv, Stages
  <2>3. OthersAlone(t)
    BY <1>8 DEF ReturnFromRuntime, Runtime!Callback, Runtime!Move, Runtime!End, OthersAlone, TypeInv
  <2>4. CallOf(t)'
    <3>1. /\ stage[t] = "called" /\ stage'[t] = "returned" /\ phase'[t] = "idle"
          /\ callbacks'[t] = callbacks[t] + 1 /\ returned'[t] = Runtime!CodeOf(answer[t])
          /\ UNCHANGED result
      BY <1>8 DEF ReturnFromRuntime, Runtime!Callback, Runtime!Move, Runtime!End, TypeInv
    <3>2. t \in LoginThreads /\ result[t] = None /\ callbacks[t] = 0
      BY <3>1 DEF CallOf
    <3>3. callbacks'[t] = 1 /\ returned'[t] \in {"OK", "LOGINCANCEL"} /\ result'[t] = None
      BY <2>1, <3>1, <3>2
    <3> QED BY <3>1, <3>2, <3>3 DEF CallOf
  <2> QED BY <1>8, <2>2, <2>3, <2>4 DEF ReturnFromRuntime
<1>9. CASE Unroute(t)
  BY <1>9 DEF Unroute, OthersAlone, TypeInv, Stages, CallOf
<1>10. CASE Finish(t)
  <2>1. MapSdolErrorToSdoaError(returned[t]) \in Codes
    BY <1>10 DEF Finish, MapSdolErrorToSdoaError, Codes, CallOf
  <2> QED BY <1>10, <2>1 DEF Finish, OthersAlone, TypeInv, Stages, CallOf
<1> QED BY <1>1, <1>2, <1>3, <1>4, <1>5, <1>6, <1>7, <1>8, <1>9, <1>10 DEF LoginStep

-----------------------------------------------------------------------------
(* The other steps                                                         *)

LEMMA ShowTypes ==
  ASSUME BaseInv, NEW t \in Threads, ShowLoginDialog(t)
  PROVE  TypeInv' /\ CallInv'
<1>1. /\ t \in LoginThreads /\ stage[t] = "idle" /\ stage' = [stage EXCEPT ![t] = "armed"]
      /\ result' = [result EXCEPT ![t] = None] /\ delivered' = [delivered EXCEPT ![t] = <<>>]
      /\ activeCallback' = t
      /\ UNCHANGED <<callback, phase, answer, returned, callbacks>>
  BY DEF ShowLoginDialog, Goto, serviceVars
<1>2. overlapped' \in [Threads -> BOOLEAN]
  BY DEF ShowLoginDialog, BaseInv, TypeInv
<1>3. TypeInv'
  <2>1. stage' \in [Threads -> Stages] /\ result' \in [Threads -> Codes \cup {None}]
    BY <1>1 DEF BaseInv, TypeInv, Stages
  <2>2. delivered' \in [Threads -> Seq(Codes)]
    BY <1>1 DEF BaseInv, TypeInv
  <2> QED BY <1>1, <1>2, <2>1, <2>2 DEF BaseInv, TypeInv
<1>4. \A u \in Threads : CallOf(u)'
  BY <1>1 DEF BaseInv, TypeInv, CallInv, CallOf, InCall
<1> QED BY <1>3, <1>4 DEF CallInv

\* Outside of a call nothing but the stage of the thread and the state changes.
Outside(t) ==
  Logout(t) \/ FinishLogout(t) \/ LoginDirect(t) \/ FinishLoginDirect(t) \/ InitializeSdoaRuntime(t)
    \/ IgwTerminal(t)

LEMMA OutsideFrame ==
  ASSUME BaseInv, NEW t \in Threads, Outside(t)
  PROVE  /\ UNCHANGED <<callback, phase, answer, returned, callbacks, delivered, result, overlapped,
                        activeCallback, routed>>
         /\ stage' = [stage EXCEPT ![t] = stage'[t]]
         /\ stage[t] \in {"idle", "loggingOut", "loggingIn"}
         /\ stage'[t] \in {"idle", "loggingOut", "loggingIn"}
         /\ loginState' = "CONNECTING" => loginState = "CONNECTING"
<1> USE DEF Outside, Goto, BaseInv, TypeInv, adapterVars
<1>1. CASE Logout(t)
  BY <1>1 DEF Logout, Runtime!Forget
<1>2. CASE FinishLogout(t)
  BY <1>2 DEF FinishLogout, serviceVars
<1>3. CASE LoginDirect(t)
  BY <1>3 DEF LoginDirect, Runtime!RecordDirect
<1>4. CASE FinishLoginDirect(t)
  BY <1>4 DEF FinishLoginDirect, serviceVars
<1>5. CASE InitializeSdoaRuntime(t)
  BY <1>5 DEF InitializeSdoaRuntime, Runtime!Start
<1>6. CASE IgwTerminal(t)
  BY <1>6 DEF IgwTerminal, Runtime!Stop
<1> QED BY <1>1, <1>2, <1>3, <1>4, <1>5, <1>6

LEMMA OutsideTypes ==
  ASSUME BaseInv, NEW t \in Threads, Outside(t)
  PROVE  BaseInv'
<1>1. TypeInv'
  <2>1. stage' \in [Threads -> Stages]
    BY OutsideFrame DEF BaseInv, TypeInv, Stages
  <2>2. UNCHANGED <<callback, phase, answer, returned, callbacks, delivered, result, overlapped,
        activeCallback>>
    BY OutsideFrame
  <2> QED BY <2>1, <2>2 DEF BaseInv, TypeInv
<1>2. CallInv'
  <2> SUFFICES ASSUME NEW u \in Threads PROVE CallOf(u)'
    BY DEF CallInv
  <2>1. UNCHANGED <<callback, phase, answer, returned, callbacks, result>>
    BY OutsideFrame
  <2>2. CallOf(u)
    BY DEF BaseInv, CallInv
  <2>3. stage'[u] = stage[u] \/ (u = t /\ {stage[u], stage'[u]} \subseteq {"idle", "loggingOut",
        "loggingIn"})
    BY OutsideFrame DEF BaseInv, TypeInv
  <2> QED BY <2>1, <2>2, <2>3 DEF CallOf, InCall
<1>3. \A u \in Threads : InCall(u)' = InCall(u) /\ (stage'[u] \in Routing <=> stage[u] \in Routing)
                         /\ (stage'[u] = "deliver" <=> stage[u] = "deliver")
  BY OutsideFrame DEF BaseInv, TypeInv, InCall, Routing
<1>4. SharedInv'
  BY <1>3, OutsideFrame, AdapterAssumption DEF BaseInv, TypeInv, SharedInv
<1> QED BY <1>1, <1>2, <1>4 DEF BaseInv

LEMMA ShowShared ==
  ASSUME BaseInv, NEW t \in Threads, ShowLoginDialog(t)
  PROVE  SharedInv'
<1>1. /\ stage[t] = "idle" /\ stage' = [stage EXCEPT ![t] = "armed"]
      /\ activeCallback' = t
      /\ UNCHANGED <<callback, routed>>
  BY DEF ShowLoginDialog, Goto
<1>2. /\ overlapped'[t] = \E other \in Threads \ {t} : InCall(other)
      /\ \A u \in Threads \ {t} : overlapped'[u] = (overlapped[u] \/ InCall(u))
  BY DEF ShowLoginDialog
<1>3. /\ InCall(t)' /\ stage'[t] = "armed"
      /\ \A u \in Threads \ {t} : stage'[u] = stage[u] /\ InCall(u)' = InCall(u)
  BY <1>1 DEF BaseInv, TypeInv, InCall
<1>4. \A u, v \in Threads : u # v /\ InCall(u)' /\ InCall(v)' => overlapped'[u]
  <2> TAKE u, v \in Threads
  <2> HAVE u # v /\ InCall(u)' /\ InCall(v)'
  <2>1. CASE u = t
    <3>1. InCall(v)
      BY <1>3, <2>1
    <3> QED BY <1>2, <2>1, <3>1
  <2>2. CASE u # t
    <3>1. InCall(u)
      BY <1>3, <2>2
    <3> QED BY <1>2, <2>2, <3>1
  <2> QED BY <2>1, <2>2
<1>5. routed' => \E u \in Threads : stage'[u] \in Routing
  BY <1>1, <1>3 DEF BaseInv, SharedInv, Routing
<1>6. ASSUME NEW u \in Threads, stage'[u] = "deliver", callback'[u] # u
      PROVE  overlapped'[callback'[u]]
  <2>1. u # t /\ stage[u] = "deliver" /\ callback'[u] = callback[u] /\ callback[u] \in Threads
    BY <1>1, <1>3, <1>6, AdapterAssumption DEF BaseInv, CallInv, CallOf
  <2>2. InCall(u) /\ overlapped[callback[u]]
    BY <1>1, <1>6, <2>1 DEF BaseInv, SharedInv, InCall
  <2>3. CASE callback[u] = t
    BY <1>2, <2>1, <2>2, <2>3
  <2>4. CASE callback[u] # t
    BY <1>2, <2>1, <2>2, <2>4
  <2> QED BY <2>3, <2>4
<1> QED BY <1>1, <1>3, <1>4, <1>5, <1>6 DEF SharedInv

\* The shared part of a step within a call.
LEMMA CallShared ==
  ASSUME BaseInv, NEW t \in Threads, LoginStep(t)
  PROVE  SharedInv'
<1>1. InCall(t) /\ UNCHANGED overlapped /\ \A u \in Threads \ {t} : stage'[u] = stage[u] /\
      callback'[u] = callback[u]
  BY CallTypes DEF OthersAlone
<1>2. \A u \in Threads : InCall(u)' => InCall(u)
  BY <1>1 DEF InCall
<1>3. \A u, v \in Threads : u # v /\ InCall(u)' /\ InCall(v)' => overlapped'[u]
  BY <1>1, <1>2 DEF BaseInv, SharedInv
<1>4. activeCallback' # NoThread => InCall(activeCallback)'
  <2>1. CASE Finish(t)
    BY <2>1 DEF Finish
  <2>2. CASE ~Finish(t)
    <3>1. UNCHANGED activeCallback
      BY <2>2 DEF LoginStep, Route, CallRuntime, RuntimeStep, RuntimeFails, Thunk, Handle,
            Deliver, ReturnFromRuntime,
                  Unroute, adapterVars
    <3>2. InCall(t)'
      BY <2>2, <1>1 DEF LoginStep, Route, CallRuntime, RuntimeStep, RuntimeFails, Thunk, Handle, Deliver,
                  ReturnFromRuntime, Unroute, adapterVars, Goto, InCall, BaseInv, TypeInv
    <3>3. activeCallback # NoThread => InCall(activeCallback) /\ activeCallback \in Threads
      BY AdapterAssumption DEF BaseInv, TypeInv, SharedInv
    <3> QED BY <1>1, <3>1, <3>2, <3>3 DEF InCall
  <2> QED BY <2>1, <2>2
<1>5. routed' => \E u \in Threads : stage'[u] \in Routing
  <2>1. CASE Unroute(t)
    BY <2>1 DEF Unroute
  <2>2. CASE Route(t)
    <3>1. stage'[t] \in Routing
      BY <2>2 DEF Route, Goto, BaseInv, TypeInv, Routing
    <3> QED BY <3>1
  <2>3. CASE ~Unroute(t) /\ ~Route(t)
    <3>1. UNCHANGED routed
      BY <2>3 DEF LoginStep, CallRuntime, RuntimeStep, RuntimeFails, Thunk, Handle, Deliver,
            ReturnFromRuntime,
                  Finish, adapterVars
    <3>2. stage[t] \in Routing => stage'[t] \in Routing
      BY <2>3 DEF LoginStep, CallRuntime, RuntimeStep, RuntimeFails, Thunk, Handle, Deliver,
                  ReturnFromRuntime, Finish, adapterVars, Goto, Routing, BaseInv, TypeInv
    <3> QED BY <1>1, <3>1, <3>2 DEF BaseInv, SharedInv
  <2> QED BY <2>1, <2>2, <2>3
<1>6. ASSUME NEW u \in Threads, stage'[u] = "deliver", callback'[u] # u
      PROVE  overlapped'[callback'[u]]
  <2>1. CASE u # t
    BY <1>1, <1>6, <2>1 DEF BaseInv, SharedInv
  <2>2. CASE u = t
    <3>1. Handle(t)
      BY <1>6, <2>2 DEF LoginStep, Route, CallRuntime, RuntimeStep, RuntimeFails, Thunk, Deliver,
                  ReturnFromRuntime, Unroute, Finish, adapterVars, Goto, BaseInv, TypeInv,
                        Runtime!Answer, Runtime!Record,
                  CallInv, CallOf, Runtime!Move
    <3>2. callback'[t] = activeCallback /\ activeCallback # NoThread
      BY <1>6, <2>2, <3>1 DEF Handle, Goto, BaseInv, TypeInv
    <3>3. activeCallback \in Threads /\ InCall(activeCallback) /\ activeCallback # t
      BY <1>6, <2>2, <3>2, AdapterAssumption DEF BaseInv, TypeInv, SharedInv
    <3> QED BY <1>1, <2>2, <3>2, <3>3 DEF BaseInv, SharedInv
  <2> QED BY <2>1, <2>2
<1> QED BY <1>3, <1>4, <1>5, <1>6 DEF SharedInv

LEMMA BaseNext ==
  ASSUME BaseInv, [Next]_vars
  PROVE  BaseInv'
<1>1. CASE UNCHANGED vars
  BY <1>1 DEF vars, serviceVars, adapterVars, BaseInv, TypeInv, CallInv, CallOf, SharedInv, InCall
<1>2. ASSUME NEW t \in Threads, ShowLoginDialog(t) \/ LoginStep(t) \/ Outside(t)
      PROVE  BaseInv'
  BY <1>2, ShowTypes, ShowShared, CallTypes, CallShared, OutsideTypes DEF BaseInv
<1> QED BY <1>1, <1>2 DEF Next, Outside

\* Once every call returned, no callback is kept and nothing is routed.
THEOREM NothingDangles == Spec => []NoDanglingCallback
<1>1. BaseInv => NoDanglingCallback
  <2> SUFFICES ASSUME BaseInv, \A t \in Threads : ~InCall(t)
               PROVE  activeCallback = NoThread /\ ~routed
    BY DEF NoDanglingCallback
  <2>1. activeCallback = NoThread
    BY AdapterAssumption DEF BaseInv, TypeInv, SharedInv
  <2>2. ~routed
    BY DEF BaseInv, SharedInv, Routing, InCall
  <2> QED BY <2>1, <2>2
<1> QED BY BaseInit, BaseNext, <1>1, PTL DEF Spec

-----------------------------------------------------------------------------
(* A call that no other overlaps                                           *)

SdoaCode(code) == MapSdolErrorToSdoaError(code)

Progress(t) ==
  /\ activeCallback = t
  /\ stage[t] \in Routing => routed
  /\ stage[t] \in {"armed", "calling", "inside", "handle", "deliver"} => delivered[t] = <<>>
  /\ stage[t] = "deliver" => callback[t] = t
  /\ stage[t] \in {"deliver", "called"} => loginState # "CONNECTING"
  /\ stage[t] = "called" => delivered[t] = <<SdoaCode(Runtime!CodeOf(answer[t]))>>
  /\ stage[t] \in {"returned", "dropped"} =>
       \/ callbacks[t] = 0 /\ delivered[t] = <<>>
       \/ callbacks[t] = 1 /\ delivered[t] = <<SdoaCode(returned[t])>> /\ loginState # "CONNECTING"

Matches(t) ==
  result[t] # None =>
    \/ callbacks[t] = 1 /\ delivered[t] = <<result[t]>>
    \/ callbacks[t] = 0 /\ delivered[t] = <<>>

Explains(t) == InCall(t) \/ overlapped[t] \/ (result[t] = "CANCEL" /\ callbacks[t] = 0)

AloneInv ==
  /\ \A t \in Threads : InCall(t) /\ ~overlapped[t] => Progress(t)
  /\ \A t \in Threads : ~InCall(t) /\ ~overlapped[t] => Matches(t)
  /\ loginState = "CONNECTING" => \E t \in LoginThreads : Explains(t)

LEMMA AloneInit == Init => AloneInv
BY DEF Init, AloneInv, InCall, Matches

LEMMA AloneShow ==
  ASSUME BaseInv, AloneInv, NEW t \in Threads, ShowLoginDialog(t)
  PROVE  AloneInv'
<1>1. /\ stage[t] = "idle" /\ stage' = [stage EXCEPT ![t] = "armed"]
      /\ activeCallback' = t /\ delivered' = [delivered EXCEPT ![t] = <<>>]
      /\ result' = [result EXCEPT ![t] = None] /\ t \in LoginThreads
      /\ UNCHANGED callbacks
  BY DEF ShowLoginDialog, Goto, serviceVars
<1>2. \A u \in Threads \ {t} : overlapped'[u] = (overlapped[u] \/ InCall(u))
  BY DEF ShowLoginDialog
<1>3. /\ InCall(t)' /\ stage'[t] = "armed"
      /\ \A u \in Threads \ {t} : stage'[u] = stage[u] /\ InCall(u)' = InCall(u)
  BY <1>1 DEF BaseInv, TypeInv, InCall
<1>4. Progress(t)'
  <2>1. activeCallback' = t /\ delivered'[t] = <<>>
    BY <1>1 DEF BaseInv, TypeInv
  <2> QED BY <1>3, <2>1 DEF Progress, Routing
<1>5. ASSUME NEW u \in Threads, InCall(u)', ~overlapped'[u]
      PROVE  Progress(u)'
  <2>1. u = t
    BY <1>2, <1>3, <1>5
  <2> QED BY <1>4, <2>1
<1>6. ASSUME NEW u \in Threads, ~InCall(u)', ~overlapped'[u]
      PROVE  Matches(u)'
  <2>1. u # t /\ ~InCall(u) /\ ~overlapped[u]
    BY <1>2, <1>3, <1>6
  <2>2. result'[u] = result[u] /\ callbacks'[u] = callbacks[u] /\ delivered'[u] = delivered[u]
    BY <1>1, <2>1 DEF BaseInv, TypeInv
  <2> QED BY <2>1, <2>2 DEF AloneInv, Matches
<1>7. \E u \in LoginThreads : Explains(u)'
  BY <1>1, <1>3 DEF Explains
<1> QED BY <1>5, <1>6, <1>7 DEF AloneInv

LEMMA AloneOutside ==
  ASSUME BaseInv, AloneInv, NEW t \in Threads, Outside(t)
  PROVE  AloneInv'
<1>1. /\ UNCHANGED <<callback, phase, answer, returned, callbacks, delivered, result, overlapped,
                     activeCallback, routed>>
      /\ loginState' = "CONNECTING" => loginState = "CONNECTING"
  BY OutsideFrame
<1>2. \A u \in Threads : InCall(u)' = InCall(u) /\ (InCall(u) => stage'[u] = stage[u])
  BY OutsideFrame DEF BaseInv, TypeInv, InCall
<1>3. ASSUME NEW u \in Threads, InCall(u)', ~overlapped'[u]
      PROVE  Progress(u)'
  <2>1. InCall(u) /\ ~overlapped[u] /\ stage'[u] = stage[u]
    BY <1>1, <1>2, <1>3
  <2> QED BY <1>1, <2>1 DEF AloneInv, Progress
<1>4. ASSUME NEW u \in Threads, ~InCall(u)', ~overlapped'[u]
      PROVE  Matches(u)'
  BY <1>1, <1>2, <1>4 DEF AloneInv, Matches
<1>5. loginState' = "CONNECTING" => \E u \in LoginThreads : Explains(u)'
  BY <1>1, <1>2, AdapterAssumption DEF AloneInv, Explains
<1> QED BY <1>3, <1>4, <1>5 DEF AloneInv

\* The progress of a call that is alone, step by step.
LEMMA AloneProgress ==
  ASSUME BaseInv, NEW t \in Threads, LoginStep(t), Progress(t), InCall(t)'
  PROVE  Progress(t)'
<1> USE AdapterAssumption DEF Goto, serviceVars, adapterVars
<1>1. CASE Route(t)
  <2>1. stage[t] = "armed" /\ stage'[t] = "calling" /\ routed' = TRUE
        /\ UNCHANGED <<activeCallback, delivered>>
    BY <1>1 DEF Route, BaseInv, TypeInv
  <2> QED BY <2>1 DEF Progress
<1>2. CASE CallRuntime(t)
  <2>1. stage[t] = "calling" /\ UNCHANGED <<activeCallback, routed, delivered>>
    BY <1>2 DEF CallRuntime
  <2>2. stage'[t] = "inside" \/ (stage'[t] = "returned" /\ callbacks'[t] = 0)
    BY <1>2 DEF CallRuntime, Runtime!Refuse, BaseInv, TypeInv
  <2> QED BY <2>1, <2>2 DEF Progress, Routing
<1>3. CASE RuntimeStep(t)
  <2>1. stage[t] = "inside" /\ UNCHANGED <<stage, activeCallback, routed, delivered>>
    BY <1>3 DEF RuntimeStep
  <2> QED BY <2>1 DEF Progress
<1>4. CASE RuntimeFails(t)
  <2>1. stage[t] = "inside" /\ stage'[t] = "returned" /\ callbacks'[t] = 0
        /\ UNCHANGED <<activeCallback, routed, delivered>>
    BY <1>4 DEF RuntimeFails, Runtime!Fail, BaseInv, TypeInv, CallInv, CallOf
  <2> QED BY <2>1 DEF Progress, Routing
<1>5. CASE Thunk(t)
  <2>1. stage[t] = "inside" /\ routed
    BY <1>5 DEF Thunk, Progress, Routing
  <2>2. stage'[t] = "handle" /\ UNCHANGED <<activeCallback, routed, delivered>>
    BY <1>5, <2>1 DEF Thunk, BaseInv, TypeInv
  <2> QED BY <2>1, <2>2 DEF Progress
<1>6. CASE Handle(t)
  <2>1. stage[t] = "handle" /\ activeCallback = t /\ t # NoThread
    BY <1>6 DEF Handle, Progress
  <2>2. stage'[t] = "deliver" /\ callback'[t] = t /\ loginState' # "CONNECTING"
        /\ UNCHANGED <<activeCallback, routed, delivered>>
    BY <1>6, <2>1 DEF Handle, BaseInv, TypeInv
  <2> QED BY <2>1, <2>2 DEF Progress, Routing
<1>7. CASE Deliver(t)
  <2>1. stage[t] = "deliver" /\ callback[t] = t /\ delivered[t] = <<>> /\ loginState # "CONNECTING"
    BY <1>7 DEF Deliver, Progress
  <2>2. stage'[t] = "called" /\ UNCHANGED <<activeCallback, routed, loginState, answer>>
    BY <1>7 DEF Deliver, BaseInv, TypeInv
  <2>3. delivered'[t] = Append(<<>>, SdoaCode(Runtime!CodeOf(answer[t])))
    BY <1>7, <2>1 DEF Deliver, BaseInv, TypeInv, SdoaCode
  <2>4. delivered'[t] = <<SdoaCode(Runtime!CodeOf(answer[t]))>>
    BY <2>3
  <2> QED BY <2>1, <2>2, <2>4 DEF Progress, Routing
<1>8. CASE ReturnFromRuntime(t)
  <2>1. stage[t] = "called" /\ stage'[t] = "returned" /\ UNCHANGED <<activeCallback, routed,
        delivered, loginState>>
    BY <1>8 DEF ReturnFromRuntime, BaseInv, TypeInv
  <2>2. callbacks[t] = 0
    BY <2>1 DEF BaseInv, CallInv, CallOf
  <2>3. callbacks'[t] = callbacks[t] + 1 /\ returned'[t] = Runtime!CodeOf(answer[t])
    BY <1>8 DEF ReturnFromRuntime, Runtime!Callback, Runtime!End, BaseInv, TypeInv
  <2> QED BY <2>1, <2>2, <2>3 DEF Progress, Routing
<1>9. CASE Unroute(t)
  <2>1. stage[t] = "returned" /\ stage'[t] = "dropped"
        /\ UNCHANGED <<activeCallback, delivered, loginState, callbacks, returned>>
    BY <1>9 DEF Unroute, BaseInv, TypeInv
  <2> QED BY <2>1 DEF Progress, Routing
<1>10. CASE Finish(t)
  BY <1>10 DEF Finish, InCall, BaseInv, TypeInv
<1> QED BY <1>1, <1>2, <1>3, <1>4, <1>5, <1>6, <1>7, <1>8, <1>9, <1>10 DEF LoginStep

LEMMA OnlyFinish ==
  ASSUME BaseInv, NEW t \in Threads, LoginStep(t)
  PROVE  IF Finish(t) THEN ~InCall(t)' ELSE InCall(t)'
BY DEF LoginStep, Route, CallRuntime, RuntimeStep, RuntimeFails, Thunk, Handle, Deliver,
      ReturnFromRuntime,
       Unroute, Finish, adapterVars, Goto, InCall, BaseInv, TypeInv

LEMMA StateKept ==
  ASSUME NEW t \in Threads, LoginStep(t), loginState' = "CONNECTING"
  PROVE  loginState = "CONNECTING"
BY DEF LoginStep, Route, CallRuntime, RuntimeStep, RuntimeFails, Thunk, Handle, Deliver,
      ReturnFromRuntime,
       Unroute, Finish, adapterVars

\* A call that was alone ends with what its callback was told.
LEMMA AloneFinish ==
  ASSUME BaseInv, NEW t \in Threads, Finish(t), Progress(t)
  PROVE  /\ Matches(t)'
         /\ loginState' = "CONNECTING" => result'[t] = "CANCEL" /\ callbacks'[t] = 0
<1>1. stage[t] = "dropped" /\ UNCHANGED <<callbacks, delivered>> /\ result'[t] = SdoaCode(returned[t])
  BY DEF Finish, Goto, serviceVars, BaseInv, TypeInv, SdoaCode
<1>2. Matches(t)'
  BY <1>1 DEF Progress, Matches
<1>3. ASSUME loginState' = "CONNECTING"
      PROVE  result'[t] = "CANCEL" /\ callbacks'[t] = 0
  <2>1. loginState = "CONNECTING" /\ returned[t] # "FAILED"
    BY <1>3 DEF Finish
  <2>2. callbacks[t] = 0
    BY <1>1, <2>1 DEF Progress
  <2>3. returned[t] = "LOGINCANCEL"
    BY <1>1, <2>1, <2>2 DEF BaseInv, CallInv, CallOf
  <2>4. SdoaCode("LOGINCANCEL") = "CANCEL"
    BY DEF SdoaCode, MapSdolErrorToSdoaError
  <2> QED BY <1>1, <2>2, <2>3, <2>4
<1> QED BY <1>2, <1>3

LEMMA AloneCall ==
  ASSUME BaseInv, AloneInv, NEW t \in Threads, LoginStep(t)
  PROVE  AloneInv'
<1>1. InCall(t) /\ t \in LoginThreads /\ UNCHANGED overlapped
      /\ \A u \in Threads \ {t} : stage'[u] = stage[u] /\ InCall(u)' = InCall(u) /\
            result'[u] = result[u] /\ callbacks'[u] = callbacks[u]
  BY CallTypes DEF OthersAlone, InCall, BaseInv, CallInv, CallOf
<1>2. ASSUME NEW u \in Threads, InCall(u)', ~overlapped'[u]
      PROVE  Progress(u)'
  <2>1. u = t
    BY <1>1, <1>2 DEF BaseInv, SharedInv
  <2> QED BY <1>1, <1>2, <2>1, AloneProgress DEF AloneInv
<1>3. ASSUME NEW u \in Threads, ~InCall(u)', ~overlapped'[u]
      PROVE  Matches(u)'
  <2>1. CASE u = t
    <3>1. Finish(t) /\ Progress(t)
      BY <1>1, <1>3, <2>1, OnlyFinish DEF AloneInv
    <3> QED BY <2>1, <3>1, AloneFinish
  <2>2. CASE u # t
    <3>1. ~InCall(u) /\ ~overlapped[u] /\ result'[u] = result[u] /\ callbacks'[u] = callbacks[u]
      BY <1>1, <1>3, <2>2
    <3>2. delivered'[u] = delivered[u]
      <4>1. CASE Deliver(t)
        <5>1. stage[t] = "deliver" /\ callback[t] # u
          BY <2>2, <3>1, <4>1 DEF Deliver, Goto, BaseInv, SharedInv
        <5> QED BY <4>1, <5>1 DEF Deliver, BaseInv, TypeInv
      <4>2. CASE ~Deliver(t)
        BY <4>2 DEF LoginStep, Route, CallRuntime, RuntimeStep, RuntimeFails, Thunk, Handle,
              ReturnFromRuntime,
                    Unroute, Finish, adapterVars
      <4> QED BY <4>1, <4>2
    <3> QED BY <3>1, <3>2 DEF AloneInv, Matches
  <2> QED BY <2>1, <2>2
<1>4. ASSUME loginState' = "CONNECTING"
      PROVE  \E u \in LoginThreads : Explains(u)'
  <2>1. PICK u \in LoginThreads : Explains(u)
    BY <1>4, StateKept DEF AloneInv
  <2>2. CASE u # t
    BY <1>1, <2>1, <2>2, AdapterAssumption DEF Explains
  <2>3. CASE ~Finish(t)
    BY <1>1, <2>3, OnlyFinish DEF Explains
  <2>4. CASE Finish(t) /\ overlapped[t]
    BY <1>1, <2>4 DEF Explains
  <2>5. CASE Finish(t) /\ ~overlapped[t]
    <3>1. Progress(t)
      BY <1>1, <2>5 DEF AloneInv
    <3> QED BY <1>1, <1>4, <2>5, <3>1, AloneFinish DEF Explains
  <2> QED BY <2>2, <2>3, <2>4, <2>5, <2>1
<1> QED BY <1>2, <1>3, <1>4 DEF AloneInv

LEMMA AloneNext ==
  ASSUME BaseInv, AloneInv, [Next]_vars
  PROVE  AloneInv'
<1>1. CASE UNCHANGED vars
  BY <1>1 DEF vars, serviceVars, adapterVars, AloneInv, Progress, Matches, Explains, InCall
<1> QED BY <1>1, AloneShow, AloneOutside, AloneCall DEF Next, Outside

\* A call that no other overlapped returns what its callback was told, if it was called.
THEOREM CallbackIsTheReturn == Spec => []CallbackMatchesReturn
<1>1. BaseInv /\ AloneInv => CallbackMatchesReturn
  <2> SUFFICES ASSUME BaseInv, AloneInv, NEW t \in LoginThreads, result[t] # None, ~overlapped[t]
               PROVE  \/ callbacks[t] = 1 /\ delivered[t] = <<result[t]>>
                      \/ callbacks[t] = 0 /\ delivered[t] = <<>>
    BY DEF CallbackMatchesReturn
  <2>1. ~InCall(t) /\ t \in Threads
    BY AdapterAssumption DEF BaseInv, CallInv, CallOf
  <2> QED BY <2>1 DEF AloneInv, Matches
<1> QED BY BaseInit, BaseNext, AloneInit, AloneNext, <1>1, PTL DEF Spec

\* The state stays at CONNECTING only after a call that was cancelled without a callback.
THEOREM ConnectingHasReason == Spec => []ConnectingExplained
<1>1. AloneInv => ConnectingExplained
  BY DEF AloneInv, Explains, ConnectingExplained
<1> QED BY BaseInit, BaseNext, AloneInit, AloneNext, <1>1, PTL DEF Spec
=============================================================================
