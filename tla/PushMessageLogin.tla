-------------------------- MODULE PushMessageLogin --------------------------
(***************************************************************************)
(* One-click login in sdologin: the panel                                  *)
(* (src/src/sdologin/push_message_login_panel.cpp), which lives on the UI  *)
(* thread, and its authenticator (sdo_base_push_message_auth.cpp), whose   *)
(* callbacks run on the worker thread of the SdoBase library.  A click     *)
(* gets a dynamic key, cancels the previous push, sends the new one, and   *)
(* then polls until the user has decided on the phone.                     *)
(*                                                                         *)
(* What the worker thread reports reaches the panel through the event      *)
(* queue of the UI thread; a click, the hiding of the panel or a timer can *)
(* get in between.                                                         *)
(***************************************************************************)
EXTENDS Naturals, Sequences, SdoBaseClient

CONSTANTS
  Accounts,   \* what the user can type
  NoAccount,  \* an empty account field
  MaxClicks,  \* bound: how often the button is clicked
  MaxHides    \* bound: how often the user leaves the panel for another tab

ASSUME PushAssumption ==
  /\ NoAccount \notin Accounts
  /\ MaxClicks \in Nat
  /\ MaxHides \in Nat

VARIABLES
  \* the panel
  visible,
  accountEdit,     \* accountEdit_->text()
  sendInFlight,    \* sendInFlight_
  pollInFlight,    \* pollInFlight_
  buttonEnabled,   \* loginButton_->isEnabled()
  countdown,       \* retryTimer_ runs
  pollTimer,       \* pollTimer_ runs
  keyCalls,        \* which call of SdoBase_GetDynamicKey the UI thread makes next, 0: none
  results,         \* results posted to the UI thread
  \* the authenticator
  initialized,     \* handle_ is set
  sendCompletion,  \* sendCompletion_ is set
  loginCompletion, \* loginCompletion_ is set
  pushIssued,      \* sendPushIssuedAfterCancel_
  issuing,         \* how far the worker thread is in issueSendPushMessageAfterCancel
  currentAccount,  \* currentAccountAnsi_
  \* the login window
  recorded,        \* the account the completed login is recorded under
  \* history
  clicks, hides,
  pushes,          \* pushes sent since the latest click
  crossed,         \* the latest click came between mark and push of an earlier one
  pushedTo,        \* the account of the latest push
  unheard          \* the server has asked for a step nobody registered for

panelVars == <<visible, accountEdit, sendInFlight, pollInFlight, buttonEnabled, countdown,
               pollTimer>>
authVars  == <<initialized, sendCompletion, loginCompletion, pushIssued, issuing,
               currentAccount>>
history   == <<clicks, hides, pushes, crossed, pushedTo>>
vars == <<clientVars, panelVars, keyCalls, results, authVars, recorded, history, unheard>>

MaxKeyCalls == 3   \* callWithBusyRetry

Results == {[kind |-> "send", outcome |-> o] : o \in {"ok", "failed"}}
             \cup {[kind |-> "poll", outcome |-> o] : o \in {"success", "continue", "failed"}}

\* What the server can answer: a login only succeeds on a push that was sent, and
\* both can be answered by asking for a second step, such as a graphic check.
Outcomes(kind) ==
  CASE kind = "key"             -> {"ok", "failed"}
    [] kind = "send"            -> {"ok", "failed", "secondStep"}
    [] kind = "cancel"          -> {"any"}
    [] kind = "poll"            -> {"continue", "failed", "secondStep"}
                                     \cup IF pushedTo = NoAccount THEN {} ELSE {"success"}

\* The callbacks that are registered: none for most second steps, whose answers go
\* nowhere.  (The one for a dynamic code reports a failure.)
Heard(outcome) == outcome # "secondStep"

Completed == recorded # NoAccount

\* The UI thread is in its event loop, and the window has not closed.
InEventLoop == keyCalls = 0 /\ ~Completed

Init ==
  /\ ClientInit
  /\ visible = TRUE
  /\ accountEdit = NoAccount
  /\ sendInFlight = FALSE
  /\ pollInFlight = FALSE
  /\ buttonEnabled = TRUE
  /\ countdown = FALSE
  /\ pollTimer = FALSE
  /\ keyCalls = 0
  /\ results = <<>>
  /\ initialized = FALSE
  /\ sendCompletion = FALSE
  /\ loginCompletion = FALSE
  /\ pushIssued = FALSE
  /\ issuing = "no"
  /\ currentAccount = NoAccount
  /\ recorded = NoAccount
  /\ clicks = 0
  /\ hides = 0
  /\ pushes = 0
  /\ crossed = FALSE
  /\ pushedTo = NoAccount
  /\ unheard = FALSE

-----------------------------------------------------------------------------
(* completeSend and completeLogin: the completion is used up, the result    *)
(* is posted to the UI thread; without a completion the result is dropped.  *)

Posted(kind, outcome) == Append(results, [kind |-> kind, outcome |-> outcome])

CompleteSend(outcome) ==
  /\ sendCompletion' = FALSE
  /\ results' = IF sendCompletion THEN Posted("send", outcome) ELSE results

CompleteLogin(outcome) ==
  /\ loginCompletion' = FALSE
  /\ results' = IF loginCompletion THEN Posted("poll", outcome) ELSE results

-----------------------------------------------------------------------------
(* The UI thread                                                           *)

\* The text of the field, shared with the password page, can always be edited.
EditAccount(account) ==
  /\ InEventLoop
  /\ accountEdit' = account
  /\ UNCHANGED <<clientVars, visible, sendInFlight, pollInFlight, buttonEnabled, countdown,
                 pollTimer, keyCalls, results, authVars, recorded, history, unheard>>

\* validatePushMessageLoginRequest; the window has checked the box.
ValidRequest == accountEdit # NoAccount

\* ensureInitialized: done once, unless the configuration is incomplete or the
\* library refuses.
EnsureInitialized(ok) ==
  IF ok THEN initialized' = TRUE ELSE ~initialized /\ UNCHANGED initialized

\* The button waits for the countdown, or can be clicked.
RetryCountdown      == buttonEnabled' = FALSE /\ countdown' = TRUE
RestoreActionButton == buttonEnabled' = TRUE /\ countdown' = FALSE

\* A click on the enabled button, with a valid request, up to the first call of
\* the library.  (An invalid request only shows a hint.)  The worker thread may still be
\* about to send the push of an earlier click.
StartLogin ==
  /\ InEventLoop
  /\ visible
  /\ buttonEnabled
  /\ ~sendInFlight
  /\ ValidRequest
  /\ clicks < MaxClicks
  /\ countdown' = FALSE
  /\ pollTimer' = FALSE
  /\ pollInFlight' = FALSE
  /\ sendInFlight' = TRUE
  /\ buttonEnabled' = FALSE
  /\ currentAccount' = accountEdit
  /\ pushIssued' = FALSE
  /\ \/ /\ EnsureInitialized(TRUE)
        /\ sendCompletion' = TRUE
        /\ keyCalls' = 1
        /\ UNCHANGED results
     \/ /\ EnsureInitialized(FALSE)
        /\ sendCompletion' = FALSE
        /\ results' = Posted("send", "failed")
        /\ UNCHANGED keyCalls
  /\ clicks' = clicks + 1
  /\ pushes' = 0
  /\ crossed' = (issuing = "marked")
  /\ UNCHANGED <<clientVars, visible, accountEdit, loginCompletion, issuing, recorded, hides,
                 pushedTo, unheard>>

\* Mutant: the click is forgotten.
GiveUpSilently == sendCompletion' = FALSE /\ UNCHANGED results

\* The library stayed busy: the click has failed.
GiveUp == CompleteSend("failed")

\* callWithBusyRetry: a busy library is cancelled and asked again 300 ms later.
GetDynamicKey ==
  /\ keyCalls > 0
  /\ \/ Take("key") /\ keyCalls' = 0 /\ UNCHANGED <<answer, results, sendCompletion>>
     \/ /\ Busy
        /\ Cancel
        /\ IF keyCalls < MaxKeyCalls
           THEN keyCalls' = keyCalls + 1 /\ UNCHANGED <<results, sendCompletion>>
           ELSE keyCalls' = 0 /\ GiveUp
  /\ UNCHANGED <<panelVars, initialized, loginCompletion, pushIssued, issuing, currentAccount,
                 recorded, history, unheard>>

NextResult(kind) ==
  /\ InEventLoop
  /\ results # <<>>
  /\ Head(results).kind = kind
  /\ results' = Tail(results)

\* Mutant: the guard is dropped.
PollAnyway(sending, polling) == TRUE

\* The guard of schedulePoll and pollOnce.
NothingInFlight(sending, polling) == ~sending /\ ~polling

SchedulePoll(sending, polling) == pollTimer' = (pollTimer \/ NothingInFlight(sending, polling))

\* A failure gives the button back, a success starts the countdown and the polling.
HandleSendResult ==
  /\ NextResult("send")
  /\ sendInFlight' = FALSE
  /\ IF Head(results).outcome = "ok"
     THEN RetryCountdown /\ SchedulePoll(FALSE, pollInFlight)
     ELSE RestoreActionButton /\ UNCHANGED pollTimer
  /\ UNCHANGED <<clientVars, visible, accountEdit, pollInFlight, keyCalls, authVars, recorded,
                 history, unheard>>

\* retryTimer_ counted down to zero.
CountdownEnds ==
  /\ InEventLoop
  /\ countdown
  /\ RestoreActionButton
  /\ UNCHANGED <<clientVars, visible, accountEdit, sendInFlight, pollInFlight, pollTimer,
                 keyCalls, results, authVars, recorded, history, unheard>>

\* Mutant: the completion of a poll that was turned away is just dropped.
PollTurnedAwaySilently == TurnedAway /\ loginCompletion' = FALSE /\ UNCHANGED results

\* The library is busy: the poll fails at once.
PollTurnedAway == TurnedAway /\ loginCompletion' = FALSE /\ results' = Posted("poll", "failed")

\* pollTimer_ fired.
PollOnce ==
  /\ InEventLoop
  /\ pollTimer
  /\ pollTimer' = FALSE
  /\ IF NothingInFlight(sendInFlight, pollInFlight)
     THEN /\ pollInFlight' = TRUE
          /\ \/ Take("poll") /\ loginCompletion' = TRUE /\ UNCHANGED results
             \/ PollTurnedAway
     ELSE UNCHANGED <<slot, pollInFlight, loginCompletion, results>>
  /\ UNCHANGED <<answer, visible, accountEdit, sendInFlight, buttonEnabled, countdown, keyCalls,
                 initialized, sendCompletion, pushIssued, issuing, currentAccount, recorded,
                 history, unheard>>

\* A success completes the login window, under the account that is in the field;
\* an undecided user is asked again; everything else gives the button back.
HandleLoginPollResult ==
  /\ NextResult("poll")
  /\ pollInFlight' = FALSE
  /\ \/ /\ Head(results).outcome = "success"
        /\ countdown' = FALSE
        /\ pollTimer' = FALSE
        /\ recorded' = IF accountEdit # NoAccount THEN accountEdit ELSE currentAccount
        /\ UNCHANGED buttonEnabled
     \/ /\ Head(results).outcome = "continue"
        /\ SchedulePoll(sendInFlight, FALSE)
        /\ UNCHANGED <<buttonEnabled, countdown, recorded>>
     \/ /\ Head(results).outcome = "failed"
        /\ pollTimer' = FALSE
        /\ RestoreActionButton
        /\ UNCHANGED recorded
  /\ UNCHANGED <<clientVars, visible, accountEdit, sendInFlight, keyCalls, authVars, history,
                 unheard>>

\* hideEvent: the timers stop, what is in flight is forgotten, the library is cancelled.
Hide ==
  /\ InEventLoop
  /\ visible
  /\ hides < MaxHides
  /\ hides' = hides + 1
  /\ visible' = FALSE
  /\ countdown' = FALSE
  /\ pollTimer' = FALSE
  /\ sendInFlight' = FALSE
  /\ pollInFlight' = FALSE
  /\ Cancel
  /\ UNCHANGED <<accountEdit, buttonEnabled, keyCalls, results, authVars, recorded, clicks,
                 pushes, crossed, pushedTo, unheard>>

\* Coming back restarts nothing.
Show ==
  /\ InEventLoop
  /\ ~visible
  /\ visible' = TRUE
  /\ UNCHANGED <<clientVars, accountEdit, sendInFlight, pollInFlight, buttonEnabled, countdown,
                 pollTimer, keyCalls, results, authVars, recorded, history, unheard>>

-----------------------------------------------------------------------------
(* The worker thread of the library                                        *)

\* The thread is not inside the callback of a cancelled push.
ServerAnswers ==
  /\ issuing = "no"
  /\ Respond(Outcomes(slot))
  /\ UNCHANGED <<panelVars, keyCalls, results, authVars, recorded, history, unheard>>

CallbackFrame == UNCHANGED <<panelVars, keyCalls, initialized, currentAccount, recorded, clicks,
                             hides, crossed>>

\* With a key, the previous push is cancelled.  SdoBase_CancelPushMessageLogin
\* returns 0 even if the library was busy: then no callback follows.
HandleDynamicKey ==
  /\ Answered("key")
  /\ \/ /\ answer.outcome = "ok"
        /\ Take("cancel") \/ TurnedAway
        /\ UNCHANGED <<results, sendCompletion>>
     \/ answer.outcome = "failed" /\ UNCHANGED slot /\ CompleteSend("failed")
  /\ UNCHANGED <<loginCompletion, pushIssued, issuing, pushes, pushedTo, unheard>>
  /\ CallbackFrame

\* Mutant: the push is sent again for every cancel callback.
AlwaysIssue(issued) == TRUE

\* shouldIssuePushMessageSendAfterCancel
MayIssue(issued) == ~issued

\* Whatever the cancel led to, the push is sent, unless the flag says that it was.
HandleCancelPushMessage ==
  /\ Answered("cancel")
  /\ issuing' = IF MayIssue(pushIssued) THEN "checked" ELSE "no"
  /\ UNCHANGED <<slot, results, sendCompletion, loginCompletion, pushIssued, pushes, pushedTo,
                 unheard>>
  /\ CallbackFrame

\* The flag has no lock: a click may clear it before or after it is set here.
MarkIssued ==
  /\ issuing = "checked"
  /\ issuing' = "marked"
  /\ pushIssued' = TRUE
  /\ UNCHANGED <<clientVars, results, sendCompletion, loginCompletion, pushes, pushedTo, unheard>>
  /\ CallbackFrame

\* The push goes to the account of the latest click.
SendPushMessage ==
  /\ issuing = "marked"
  /\ \/ /\ Take("send")
        /\ issuing' = "no"
        /\ pushes' = pushes + 1
        /\ pushedTo' = currentAccount
     \/ TurnedAway /\ issuing' = "refused" /\ UNCHANGED <<pushes, pushedTo>>
  /\ UNCHANGED <<answer, results, sendCompletion, loginCompletion, pushIssued, unheard>>
  /\ CallbackFrame

PushRefused ==
  /\ issuing = "refused"
  /\ issuing' = "no"
  /\ CompleteSend("failed")
  /\ UNCHANGED <<clientVars, loginCompletion, pushIssued, pushes, pushedTo, unheard>>
  /\ CallbackFrame

\* Mutant: the second step is reported as the answer to the push.
PassTheCheckOn ==
  /\ Answered("send")
  /\ CompleteSend(answer.outcome)
  /\ UNCHANGED <<slot, loginCompletion, pushIssued, issuing, pushes, pushedTo, unheard>>
  /\ CallbackFrame

\* Nobody has registered for the second steps: such an answer goes nowhere.
HandleSendPushMessage ==
  /\ Answered("send")
  /\ IF Heard(answer.outcome)
     THEN CompleteSend(answer.outcome) /\ UNCHANGED unheard
     ELSE unheard' = TRUE /\ UNCHANGED <<results, sendCompletion>>
  /\ UNCHANGED <<slot, loginCompletion, pushIssued, issuing, pushes, pushedTo>>
  /\ CallbackFrame

HandleLoginResult ==
  /\ Answered("poll")
  /\ IF Heard(answer.outcome)
     THEN CompleteLogin(answer.outcome) /\ UNCHANGED unheard
     ELSE unheard' = TRUE /\ UNCHANGED <<results, loginCompletion>>
  /\ UNCHANGED <<slot, sendCompletion, pushIssued, issuing, pushes, pushedTo>>
  /\ CallbackFrame

-----------------------------------------------------------------------------
UiStep ==
  \/ GetDynamicKey \/ HandleSendResult \/ HandleLoginPollResult \/ CountdownEnds \/ PollOnce

WorkerStep ==
  \/ ServerAnswers \/ HandleDynamicKey
  \/ HandleCancelPushMessage \/ MarkIssued \/ SendPushMessage \/ PushRefused
  \/ HandleSendPushMessage \/ HandleLoginResult

UserStep == StartLogin \/ Hide \/ Show \/ \E a \in Accounts \cup {NoAccount} : EditAccount(a)

Next == UiStep \/ WorkerStep \/ UserStep

Spec == Init /\ [][Next]_vars

(* The event loop delivers what is posted and the timers that run, and the  *)
(* library answers or gives up within its timeouts; the user owes nothing.  *)
FairSpec ==
  /\ Spec
  /\ WF_vars(GetDynamicKey) /\ WF_vars(HandleSendResult) /\ WF_vars(HandleLoginPollResult)
  /\ WF_vars(CountdownEnds) /\ WF_vars(PollOnce)
  /\ WF_vars(WorkerStep)

-----------------------------------------------------------------------------
(* Properties                                                              *)

\* The members of the panel and of the authenticator stay in their types.
TypeOK ==
  /\ slot \in {NoRequest, "key", "cancel", "send", "poll"}
  /\ answer.kind \in {NoRequest, "key", "cancel", "send", "poll"}
  /\ {visible, sendInFlight, pollInFlight, buttonEnabled, countdown, pollTimer,
      initialized, sendCompletion, loginCompletion, pushIssued, crossed, unheard} \subseteq BOOLEAN
  /\ issuing \in {"no", "checked", "marked", "refused"}
  /\ {accountEdit, currentAccount, recorded, pushedTo} \subseteq Accounts \cup {NoAccount}
  /\ keyCalls \in 0..MaxKeyCalls
  /\ results \in Seq(Results)

\* A click sends one push to the phone, though the requests of an earlier click may still
\* run.  The flag that sees to it has no lock: a second push goes out if the click came
\* just when the worker thread had marked the push of an earlier click and not yet sent it,
\* for which the panel must have been left (sdo_base_push_message_auth.cpp:86-97, 361-402).
OnePushPerClick ==
  /\ pushes <= IF crossed THEN 2 ELSE 1
  /\ crossed => hides > 0

\* When the user has confirmed on the phone, somebody still waits for it
\* (push_message_login_panel.cpp:251-277) - as long as the panel was never left:
\* hideEvent forgets a poll that is still in the library, and the next one, which
\* is turned away, uses up its completion.
ApprovalNotLost ==
  hides = 0 /\ answer = [kind |-> "poll", outcome |-> "success"] => loginCompletion

\* A poll the panel waits for is on its way, so the panel cannot wait forever:
\* in the library with a completion, or as a result in the event queue
\* (push_message_login_panel.cpp:251-277) - if no second step was asked for.
PollInFlightAnswered ==
  pollInFlight =>
    \/ unheard
    \/ loginCompletion /\ "poll" \in {slot, answer.kind}
    \/ \E i \in DOMAIN results : results[i].kind = "poll"

\* As long as the user stays on the panel and the server asks for no second
\* step, the button that a click has disabled always comes back or the login
\* completes (push_message_login_panel.cpp:192-343).
ButtonComesBack ==
  [](hides = 0 /\ ~unheard) => (~buttonEnabled ~> (buttonEnabled \/ Completed))

\* docs/push_message_login_rewrite_20260518.md:62: flows that need a second step,
\* such as the graphic check, "return a hint first": the click is answered.
CheckGivesHint == [](hides = 0) => (sendInFlight ~> ~sendInFlight)

\* docs/account_history_combo_20260518.md:66: one-click login "records the
\* submitted account after successful mobile confirmation".
SubmittedAccountRecorded == Completed => recorded = pushedTo
=============================================================================
