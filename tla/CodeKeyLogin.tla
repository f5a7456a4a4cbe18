---------------------------- MODULE CodeKeyLogin ----------------------------
(***************************************************************************)
(* QR code login in sdologin: the panel                                    *)
(* (src/src/sdologin/code_key_login_panel.cpp) on the UI thread, its       *)
(* authenticator (sdo_base_code_key_auth.cpp), whose callbacks run on the  *)
(* worker thread of the SdoBase library, and the tab and the protocol      *)
(* checkbox of the login window that activate the panel.  A flow gets a    *)
(* dynamic key, then a code with its picture; the panel shows the picture  *)
(* and polls until the user has decided on the phone or the code expires.  *)
(***************************************************************************)
EXTENDS Naturals, Sequences, SdoBaseClient

CONSTANT MaxMoves   \* bound: how often the user does something

ASSUME CodeKeyAssumption == MaxMoves \in Nat

VARIABLES
  \* the login window
  accepted,         \* protocolCheck is checked
  \* the panel
  active,           \* active_
  state,            \* state_
  requestInFlight,  \* requestInFlight_
  pollInFlight,     \* pollInFlight_
  pollTimer,        \* pollTimer_ runs
  picture,          \* the code whose picture codePixmap_ is
  keyCalls,         \* which call of SdoBase_GetDynamicKey the UI thread makes next, 0: none
  results,          \* results posted to the UI thread
  \* the authenticator
  initialized,      \* handle_ is set
  imageCompletion,  \* imageCompletion_ is set
  loginCompletion,  \* loginCompletion_ is set
  qrCalls,          \* which call of SdoBase_GetQrCode the worker makes next, 0: none
  \* the library
  codeKey,          \* m_codeKey
  polled,           \* the code in the latest poll that was taken
  \* history
  moves, codes,
  left,             \* the user has left the page
  unheard           \* the server has asked for a step nobody registered for

panelVars == <<active, state, requestInFlight, pollInFlight, pollTimer, picture>>
authVars  == <<initialized, imageCompletion, loginCompletion>>
history   == <<moves, left>>
vars == <<clientVars, accepted, panelVars, keyCalls, results, authVars, qrCalls, codeKey,
          polled, history, codes, unheard>>

MaxCalls == 3   \* callWithBusyRetry
NoCode   == 0
Codes    == 0..MaxMoves

States == {"Idle", "LoadingCode", "CodeReady", "Scanned", "Expired", "Failed", "Success"}

\* What the server can answer.  A picture can be unusable; only the code whose
\* picture the user has can be approved; a second step on the phone has no listener.
Outcomes(kind) ==
  CASE kind = "key"  -> {"ok", "failed"}
    [] kind = "qr"   -> {"ok", "blank", "failed"}
    [] kind = "poll" -> {"continue", "scanned", "expired", "failed", "secondStep"}
                          \cup IF polled # NoCode /\ polled = picture THEN {"success"} ELSE {}

\* The callbacks that are registered: none for most second steps, whose answers go
\* nowhere.  (The one for a dynamic code reports a failure.)
Heard(outcome) == outcome # "secondStep"

Completed == state = "Success"

\* The UI thread is in its event loop, and the window has not closed.
InEventLoop == keyCalls = 0 /\ ~Completed

Init ==
  /\ ClientInit
  /\ accepted \in BOOLEAN
  /\ active = FALSE
  /\ state = "Idle"
  /\ requestInFlight = FALSE
  /\ pollInFlight = FALSE
  /\ pollTimer = FALSE
  /\ picture = NoCode
  /\ keyCalls = 0
  /\ results = <<>>
  /\ initialized = FALSE
  /\ imageCompletion = FALSE
  /\ loginCompletion = FALSE
  /\ qrCalls = 0
  /\ codeKey = NoCode
  /\ polled = NoCode
  /\ moves = 0
  /\ codes = 0
  /\ left = FALSE
  /\ unheard = FALSE

-----------------------------------------------------------------------------
(* completeImage and completeLogin: the completion is used up, the result   *)
(* is posted to the UI thread; without a completion the result is dropped.  *)

Posted(kind, outcome, code) ==
  Append(results, [kind |-> kind, outcome |-> outcome, code |-> code])

CompleteImage(outcome, code) ==
  /\ imageCompletion' = FALSE
  /\ results' = IF imageCompletion THEN Posted("image", outcome, code) ELSE results

CompleteLogin(outcome) ==
  /\ loginCompletion' = FALSE
  /\ results' = IF loginCompletion THEN Posted("poll", outcome, NoCode) ELSE results

\* Mutant: one call too many.
RetryOnceMore(call) == call <= MaxCalls

\* callWithBusyRetry: a busy library is cancelled and asked again 300 ms later.
MayRetry(call) == call < MaxCalls

\* Mutant: the request is forgotten.
GiveUpSilently == imageCompletion' = FALSE /\ UNCHANGED results

\* The library stayed busy: the request for a code has failed.
GiveUp == CompleteImage("failed", NoCode)

-----------------------------------------------------------------------------
(* The panel.  The parameter ok says whether the protocol is accepted.      *)

HasCode(s) == s \in {"CodeReady", "Scanned"}

\* Mutant: a scanned code is polled no more.
ShouldPollUnscanned(s, requesting, polling, ok) ==
  ~requesting /\ ~polling /\ ok /\ s = "CodeReady"

ShouldPoll(s, requesting, polling, ok) == ~requesting /\ ~polling /\ ok /\ HasCode(s)

SchedulePoll(s, requesting, polling, ok) ==
  pollTimer' = (pollTimer \/ ShouldPoll(s, requesting, polling, ok))

\* ensureInitialized: done once, unless the configuration is incomplete or the
\* library refuses.
EnsureInitialized(ok) ==
  IF ok THEN initialized' = TRUE ELSE ~initialized /\ UNCHANGED initialized

\* A new code replaces the one the library has.
RequestCodeImage ==
  \/ /\ EnsureInitialized(TRUE)
     /\ imageCompletion' = TRUE
     /\ codeKey' = NoCode
     /\ keyCalls' = 1
     /\ UNCHANGED results
  \/ /\ EnsureInitialized(FALSE)
     /\ imageCompletion' = FALSE
     /\ results' = Posted("image", "failed", NoCode)
     /\ UNCHANGED <<codeKey, keyCalls>>

FlowUnchanged == UNCHANGED <<requestInFlight, pollInFlight, keyCalls, results, initialized,
                             imageCompletion, codeKey>>

\* Mutant: a second flow starts on top of the first.
StartAnyway == TRUE

MayStart == ~requestInFlight

StartNewFlow(ok) ==
  \/ ~ok /\ pollTimer' = FALSE /\ state' = "Idle" /\ FlowUnchanged
  \/ ok /\ ~MayStart /\ UNCHANGED <<pollTimer, state>> /\ FlowUnchanged
  \/ /\ ok
     /\ MayStart
     /\ pollTimer' = FALSE
     /\ pollInFlight' = FALSE
     /\ requestInFlight' = TRUE
     /\ state' = "LoadingCode"
     /\ RequestCodeImage

\* activate: a page without a usable code starts a flow.
Activate(ok) ==
  /\ active' = TRUE
  /\ \/ ~ok /\ state' = "Idle" /\ UNCHANGED pollTimer /\ FlowUnchanged
     \/ ok /\ state \in {"Idle", "Expired", "Failed"} /\ StartNewFlow(ok)
     \/ /\ ok
        /\ state \notin {"Idle", "Expired", "Failed"}
        /\ SchedulePoll(state, requestInFlight, pollInFlight, ok)
        /\ UNCHANGED state
        /\ FlowUnchanged

-----------------------------------------------------------------------------
(* The user                                                                *)

Move ==
  /\ InEventLoop
  /\ moves < MaxMoves
  /\ moves' = moves + 1
  /\ UNCHANGED <<picture, loginCompletion, qrCalls, polled, codes, unheard>>

\* The tab of the page is clicked, whether the page is on top already or not.  (A
\* page that comes on top is activated twice; the second time changes nothing.)
SelectTab ==
  /\ Move
  /\ Activate(accepted)
  /\ UNCHANGED <<clientVars, accepted, left>>

\* Another tab is clicked: deactivate.
LeaveTab ==
  /\ Move
  /\ active
  /\ active' = FALSE
  /\ pollTimer' = FALSE
  /\ requestInFlight' = FALSE
  /\ pollInFlight' = FALSE
  /\ Cancel
  /\ left' = TRUE
  /\ UNCHANGED <<accepted, state, keyCalls, results, initialized, imageCompletion, codeKey>>

\* The refresh buttons, and the one that cancels a scan.
Refresh ==
  /\ Move
  /\ active
  /\ StartNewFlow(accepted)
  /\ UNCHANGED <<clientVars, accepted, active, left>>

\* Checking the box activates the page that is on top; unchecking does nothing yet.
ToggleProtocol ==
  /\ Move
  /\ accepted' = ~accepted
  /\ IF ~accepted /\ active
     THEN Activate(TRUE)
     ELSE UNCHANGED <<active, state, pollTimer>> /\ FlowUnchanged
  /\ UNCHANGED <<clientVars, left>>

-----------------------------------------------------------------------------
(* The UI thread                                                           *)

GetDynamicKey ==
  /\ keyCalls > 0
  /\ \/ Take("key") /\ keyCalls' = 0 /\ UNCHANGED <<answer, results, imageCompletion>>
     \/ /\ Busy
        /\ Cancel
        /\ IF MayRetry(keyCalls)
           THEN keyCalls' = keyCalls + 1 /\ UNCHANGED <<results, imageCompletion>>
           ELSE keyCalls' = 0 /\ GiveUp
  /\ UNCHANGED <<accepted, panelVars, initialized, loginCompletion, qrCalls, codeKey, polled,
                 history, codes, unheard>>

NextResult(kind) ==
  /\ InEventLoop
  /\ results # <<>>
  /\ Head(results).kind = kind
  /\ results' = Tail(results)
  /\ UNCHANGED <<clientVars, accepted, active, keyCalls, authVars, qrCalls, codeKey, polled,
                 history, codes, unheard>>

\* Mutant: the result of a poll that is no longer waited for is dropped.
ListensIfWaiting == active /\ pollInFlight

\* A page that was left does not look at the result.
Listens == active

HandleCodeImageResult ==
  /\ NextResult("image")
  /\ requestInFlight' = FALSE
  /\ \/ ~active /\ UNCHANGED <<state, pollTimer, picture>>
     \/ /\ active
        /\ Head(results).outcome = "ok"
        /\ picture' = Head(results).code
        /\ state' = "CodeReady"
        /\ SchedulePoll("CodeReady", FALSE, pollInFlight, accepted)
     \/ /\ active
        /\ Head(results).outcome # "ok"
        /\ state' = "Failed"
        /\ UNCHANGED <<pollTimer, picture>>
  /\ UNCHANGED pollInFlight

\* codeKeyStateForResult
StateFor(outcome) ==
  CASE outcome = "success"  -> "Success"
    [] outcome = "expired"  -> "Expired"
    [] outcome = "scanned"  -> "Scanned"
    [] outcome = "continue" -> "CodeReady"
    [] outcome = "failed"   -> "Failed"

HandleLoginPollResult ==
  /\ NextResult("poll")
  /\ pollInFlight' = FALSE
  /\ IF ~Listens
     THEN UNCHANGED <<state, pollTimer>>
     ELSE LET next == StateFor(Head(results).outcome) IN
          /\ state' = next
          /\ SchedulePoll(next, requestInFlight, FALSE, accepted)
  /\ UNCHANGED <<requestInFlight, picture>>

\* Mutant: the completion of a poll that was turned away is just dropped.
PollTurnedAwaySilently == TurnedAway /\ loginCompletion' = FALSE /\ UNCHANGED results

\* A busy library counts as a user who has not decided.
PollTurnedAway ==
  TurnedAway /\ loginCompletion' = FALSE /\ results' = Posted("poll", "continue", NoCode)

MayPoll == ~pollInFlight /\ HasCode(state)

\* pollTimer_ fired.
PollOnce ==
  /\ InEventLoop
  /\ pollTimer
  /\ pollTimer' = FALSE
  /\ \/ /\ ~MayPoll
        /\ UNCHANGED <<slot, state, pollInFlight, loginCompletion, results, polled>>
     \/ /\ MayPoll
        /\ ~accepted
        /\ state' = "Idle"
        /\ UNCHANGED <<slot, pollInFlight, loginCompletion, results, polled>>
     \/ /\ MayPoll
        /\ accepted
        /\ pollInFlight' = TRUE
        /\ \/ Take("poll") /\ loginCompletion' = TRUE /\ polled' = codeKey /\ UNCHANGED results
           \/ PollTurnedAway /\ UNCHANGED polled
        /\ UNCHANGED state
  /\ UNCHANGED <<answer, accepted, active, requestInFlight, picture, keyCalls, initialized,
                 imageCompletion, qrCalls, codeKey, history, codes, unheard>>

-----------------------------------------------------------------------------
(* The worker thread of the library                                        *)

CallbackFrame == UNCHANGED <<accepted, panelVars, keyCalls, initialized, polled, history>>

ServerAnswers ==
  /\ Respond(Outcomes(slot))
  /\ CallbackFrame
  /\ UNCHANGED <<results, imageCompletion, loginCompletion, qrCalls, codeKey, codes, unheard>>

HandleDynamicKey ==
  /\ qrCalls = 0
  /\ \/ /\ answer = [kind |-> "key", outcome |-> "ok"]
        /\ qrCalls' = 1
        /\ UNCHANGED <<answer, imageCompletion, results>>
     \/ /\ Answered("key")
        /\ answer.outcome = "failed"
        /\ CompleteImage("failed", NoCode)
        /\ UNCHANGED qrCalls
  /\ CallbackFrame
  /\ UNCHANGED <<slot, loginCompletion, codeKey, codes, unheard>>

\* Still in that callback the code is asked for: the worker cannot work on what
\* keeps the library busy meanwhile.
GetQrCode ==
  /\ qrCalls > 0
  /\ \/ Take("qr") /\ Answered("key") /\ qrCalls' = 0 /\ UNCHANGED <<imageCompletion, results>>
     \/ /\ Busy
        /\ MayRetry(qrCalls)
        /\ Cancel
        /\ qrCalls' = qrCalls + 1
        /\ UNCHANGED <<imageCompletion, results>>
     \/ /\ TurnedAway
        /\ ~MayRetry(qrCalls)
        /\ Answered("key")
        /\ qrCalls' = 0
        /\ CompleteImage("failed", NoCode)
  /\ CallbackFrame
  /\ UNCHANGED <<loginCompletion, codeKey, codes, unheard>>

\* ProcessGetQrCodeResponse keeps the code of the answer before the callback runs.
HandleQrCode ==
  /\ Answered("qr")
  /\ IF answer.outcome = "failed"
     THEN codeKey' = NoCode /\ UNCHANGED codes
     ELSE codeKey' = codes + 1 /\ codes' = codes + 1
  /\ CompleteImage(answer.outcome, IF answer.outcome = "ok" THEN codes + 1 ELSE NoCode)
  /\ CallbackFrame
  /\ UNCHANGED <<slot, loginCompletion, qrCalls, unheard>>

HandleLoginResult ==
  /\ Answered("poll")
  /\ IF Heard(answer.outcome)
     THEN CompleteLogin(answer.outcome) /\ UNCHANGED unheard
     ELSE unheard' = TRUE /\ UNCHANGED <<loginCompletion, results>>
  /\ CallbackFrame
  /\ UNCHANGED <<slot, imageCompletion, qrCalls, codeKey, codes>>

-----------------------------------------------------------------------------
UiStep ==
  \/ GetDynamicKey \/ HandleCodeImageResult \/ HandleLoginPollResult \/ PollOnce

WorkerStep ==
  \/ ServerAnswers \/ HandleDynamicKey \/ GetQrCode \/ HandleQrCode \/ HandleLoginResult

UserStep == SelectTab \/ LeaveTab \/ Refresh \/ ToggleProtocol

Next == UiStep \/ WorkerStep \/ UserStep

Spec == Init /\ [][Next]_vars

(* The event loop delivers what is posted and the timers that run, and the  *)
(* library answers or gives up within its timeouts; the user owes nothing.  *)
FairSpec ==
  /\ Spec
  /\ WF_vars(GetDynamicKey) /\ WF_vars(PollOnce)
  /\ WF_vars(HandleCodeImageResult) /\ WF_vars(HandleLoginPollResult)
  /\ WF_vars(WorkerStep)

-----------------------------------------------------------------------------
(* Properties                                                              *)

\* The members of the panel and of the authenticator stay in their types.
TypeOK ==
  /\ slot \in {NoRequest, "key", "qr", "poll"}
  /\ answer.kind \in {NoRequest, "key", "qr", "poll"}
  /\ state \in States
  /\ {accepted, active, requestInFlight, pollInFlight, pollTimer, initialized,
      imageCompletion, loginCompletion, left, unheard} \subseteq BOOLEAN
  /\ {keyCalls, qrCalls} \subseteq 0..MaxCalls
  /\ {picture, codeKey, polled, codes} \subseteq Codes

Pending(kind) == \E i \in DOMAIN results : results[i].kind = kind

CodeUnderway ==
  \/ Pending("image")
  \/ imageCompletion /\ (keyCalls > 0 \/ slot \in {"key", "qr"} \/ answer.kind \in {"key", "qr"})

PollUnderway == Pending("poll") \/ (loginCompletion /\ "poll" \in {slot, answer.kind})

\* What the panel waits for is on its way, however flows, tab changes and late
\* answers overlapped: a flag of the panel that nobody would ever reset refuses
\* every later code or poll (code_key_login_panel.cpp:212-321).
NothingAwaitedInVain ==
  /\ requestInFlight => CodeUnderway
  /\ pollInFlight => PollUnderway \/ unheard

\* While a code is shown on the page, somebody watches it: the timer runs, a
\* poll is under way, or a new code is (code_key_login_panel.cpp:256-348).
WaitingCodeIsPolled ==
  active /\ accepted /\ HasCode(state) /\ ~unheard =>
    pollTimer \/ PollUnderway \/ CodeUnderway

\* The code that is polled is the one whose picture the user has, or none at all,
\* though picture and code travel on different ways (sdo_base_code_key_auth.cpp:343-369)
\* - as long as the page was never left: after that, the answer of a forgotten
\* flow can use up the completion of the next one, whose code is then never shown.
PollsTheShownCode ==
  ~left /\ slot = "poll" => polled \in {picture, NoCode}

\* A login approved on the phone completes, whatever is refreshed meanwhile, if
\* the page was never left (code_key_login_panel.cpp:323-348).
ApprovalCompletes ==
  [](~left) => ((answer = [kind |-> "poll", outcome |-> "success"]) ~> Completed)

\* The page does not stay at "loading" (code_key_login_panel.cpp:212-321), if it
\* was never left.
LoadingEnds == [](~left) => (state = "LoadingCode" ~> state # "LoadingCode")

\* docs/code_key_login_rewrite_20260518.md:45: when the page is activated and the
\* protocol is checked, the code is fetched automatically.
CodeFetchedOnActivation ==
  active /\ accepted /\ state = "LoadingCode" => CodeUnderway
=============================================================================
