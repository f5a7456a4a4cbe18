---------------------------- MODULE LoginService ----------------------------
(***************************************************************************)
(* What the login core promises to the application, with no process, pipe  *)
(* or retry in sight: a call of showLoginDialog is open until it either    *)
(* fails without a callback or is answered once, the answer of a           *)
(* successful login fills the ticket cache, and then the callback is made  *)
(* with that answer.  SdkRuntime implements it.                            *)
(***************************************************************************)
EXTENDS Integers

CONSTANTS
  Threads,   \* application threads
  Requests,  \* names of the logins a ticket can come from: positive
  Sessions   \* sessions the application logs in with directly: negative

VARIABLES
  ready,     \* the SDK is initialized
  cache,     \* the login the cached ticket and the cached sndaid come from
  phase,     \* where the call of each thread stands
  answer,    \* the answer of its dialog
  returned,  \* how its latest call ended
  callbacks  \* how often its latest call made the callback

serviceVars == <<ready, cache, phase, answer, returned, callbacks>>

Empty    == 0
NoLogin  == [ticket |-> Empty, sndaid |-> Empty]
None     == "none"
Outcomes == {"LoginSuccess", "LoginCancel"}
Phases   == {"idle", "open", "answered", "recorded"}

CodeOf(outcome) == IF outcome = "LoginSuccess" THEN "OK" ELSE "LOGINCANCEL"

Init ==
  /\ ready = FALSE
  /\ cache = NoLogin
  /\ phase = [t \in Threads |-> "idle"]
  /\ answer = [t \in Threads |-> None]
  /\ returned = [t \in Threads |-> None]
  /\ callbacks = [t \in Threads |-> 0]

Move(t, from, to) == phase[t] = from /\ phase' = [phase EXCEPT ![t] = to]
End(t, code) ==
  /\ returned' = [returned EXCEPT ![t] = code]
  /\ answer' = [answer EXCEPT ![t] = None]

\* A call is refused before initialize and after terminal.
Refuse(t) ==
  /\ ~ready
  /\ phase[t] = "idle"
  /\ End(t, "FAILED")
  /\ callbacks' = [callbacks EXCEPT ![t] = 0]
  /\ UNCHANGED <<ready, cache, phase>>

Open(t) ==
  /\ ready
  /\ Move(t, "idle", "open")
  /\ returned' = [returned EXCEPT ![t] = None]
  /\ callbacks' = [callbacks EXCEPT ![t] = 0]
  /\ UNCHANGED <<ready, cache, answer>>

\* Every attempt ended without an answer.
Fail(t) ==
  /\ Move(t, "open", "idle")
  /\ \E code \in {"FAILED", "LOGINCANCEL"} : End(t, code)
  /\ UNCHANGED <<ready, cache, callbacks>>

Answer(t) ==
  /\ Move(t, "open", "answered")
  /\ \E outcome \in Outcomes : answer' = [answer EXCEPT ![t] = outcome]
  /\ UNCHANGED <<ready, cache, returned, callbacks>>

\* Only a success touches the cache.
Record(t) ==
  /\ Move(t, "answered", "recorded")
  /\ IF answer[t] = "LoginSuccess"
     THEN \E r \in Requests : cache' = [ticket |-> r, sndaid |-> r]
     ELSE cache' = cache
  /\ UNCHANGED <<ready, answer, returned, callbacks>>

Callback(t) ==
  /\ Move(t, "recorded", "idle")
  /\ callbacks' = [callbacks EXCEPT ![t] = @ + 1]
  /\ End(t, CodeOf(answer[t]))
  /\ UNCHANGED <<ready, cache>>

\* initialize, terminal, logout and recordLoginResult.
Start  == ready' = TRUE /\ cache' = NoLogin /\ UNCHANGED <<phase, answer, returned, callbacks>>
Stop   == ready' = FALSE /\ cache' = NoLogin /\ UNCHANGED <<phase, answer, returned, callbacks>>
Forget == cache' = NoLogin /\ UNCHANGED <<ready, phase, answer, returned, callbacks>>
RecordDirect(session) ==
  /\ cache' = [ticket |-> session, sndaid |-> Empty]
  /\ UNCHANGED <<ready, phase, answer, returned, callbacks>>

CallStep(t) == Refuse(t) \/ Open(t) \/ Fail(t) \/ Answer(t) \/ Record(t) \/ Callback(t)

Next ==
  \/ \E t \in Threads : CallStep(t)
  \/ Start \/ Stop \/ Forget
  \/ \E session \in Sessions : RecordDirect(session)

Spec == Init /\ [][Next]_serviceVars
=============================================================================
