--------------------------- MODULE PasswordLogin ---------------------------
(***************************************************************************)
(* Password login in sdologin: the authenticator                           *)
(* (src/src/sdologin/sdo_base_password_auth.cpp), the handlers of the      *)
(* login window that submit a password and take the result                 *)
(* (src/src/sdologin/login_window.cpp), and the two configurations that    *)
(* the constructor of the window fetches with the same authenticator,      *)
(* waiting for an event that the worker thread of the library sets.        *)
(*                                                                         *)
(* The login button is disabled while a login is in flight; the Enter key  *)
(* of the virtual keyboard is not, so a second submission can replace what *)
(* the worker thread uses of the first.                                    *)
(***************************************************************************)
EXTENDS Naturals, Sequences, SdoBaseClient

CONSTANTS
  Accounts,       \* what the user can type, with a password
  NoAccount,
  MaxSubmissions  \* bound: how often the user submits

ASSUME PasswordAssumption == NoAccount \notin Accounts /\ MaxSubmissions \in Nat

VARIABLES
  ui,            \* what the UI thread does next
  \* the authenticator
  initialized,   \* handle_ is set
  event,         \* privacyConfigEvent_ and clientConfigEvent_ are set
  stored,        \* privacyConfigResult_ and clientConfigResult_
  completion,    \* completion_
  pending,       \* pendingRequest_.account
  \* the login window
  fetched,       \* what the two fetches have returned
  accountEdit,   \* the text of the account field
  passwordTyped, \* the password field is not empty
  submission,    \* the request of the submission that is under way on the UI thread
  lastSubmitted, \* lastSubmittedPasswordAccount_
  buttonEnabled, \* loginButton->isEnabled()
  results,       \* results posted to the UI thread
  recorded,      \* the account the completed login is recorded under
  \* history
  sent,          \* the account of the latest StaticLogin
  loggedIn,      \* the account the completed login is for
  open,          \* submissions whose result the user has not got
  overlapped,    \* one was made while another was open
  submissions,
  unheard        \* the server has asked for a step nobody registered for

authVars   == <<initialized, event, stored, completion, pending>>
windowVars == <<fetched, accountEdit, passwordTyped, submission, lastSubmitted, buttonEnabled>>
finalVars  == <<recorded, loggedIn>>
history    == <<open, overlapped, submissions>>
vars == <<clientVars, ui, authVars, windowVars, results, finalVars, sent, history, unheard>>

Fetches      == {"privacy", "config"}
NoCompletion == [set |-> FALSE, button |-> FALSE]

\* What the server can answer, and what the worker reports when nothing comes.
Outcomes(kind) ==
  CASE kind \in Fetches -> {"ok", "failed"}
    [] kind = "key"     -> {"ok", "failed"}
    [] kind = "login"   -> {"success", "failed", "checkCode", "dynamic", "unregistered"}

Completed == recorded # NoAccount

Init ==
  /\ ClientInit
  /\ ui = "privacy"
  /\ initialized = FALSE
  /\ event = [f \in Fetches |-> FALSE]
  /\ stored = [f \in Fetches |-> "none"]
  /\ completion = NoCompletion
  /\ pending = NoAccount
  /\ fetched = [f \in Fetches |-> "none"]
  /\ accountEdit = NoAccount
  /\ passwordTyped = FALSE
  /\ submission = [account |-> NoAccount, button |-> FALSE]
  /\ lastSubmitted = NoAccount
  /\ buttonEnabled = TRUE
  /\ results = <<>>
  /\ recorded = NoAccount
  /\ loggedIn = NoAccount
  /\ sent = NoAccount
  /\ open = 0
  /\ overlapped = FALSE
  /\ submissions = 0
  /\ unheard = FALSE

\* complete: the completion is used up, the result is posted to the UI thread.
Complete(outcome, account) ==
  /\ completion' = NoCompletion
  /\ results' = IF completion.set
                THEN Append(results, [outcome |-> outcome, account |-> account,
                                      button |-> completion.button])
                ELSE results

Failed == Complete("failed", NoAccount)

-----------------------------------------------------------------------------
(* The constructor of the window: fetchUserPrivacyConfig, then              *)
(* fetchStartupClientConfig                                                *)

After(f) == IF f = "privacy" THEN "config" ELSE "loop"
Waiting(f) == IF f = "privacy" THEN "privacyWait" ELSE "configWait"

Fetched(f, outcome) ==
  /\ fetched' = [fetched EXCEPT ![f] = outcome]
  /\ ui' = After(f)
  /\ UNCHANGED <<accountEdit, passwordTyped, submission, lastSubmitted, buttonEnabled>>

\* ensureInitialized: done once, unless the configuration is incomplete or the
\* library refuses.
EnsureInitialized(ok) ==
  IF ok THEN initialized' = TRUE ELSE ~initialized /\ UNCHANGED initialized

\* The result and the event are reset, then the request is made.
Fetch(f) ==
  /\ ui = f
  /\ \/ /\ EnsureInitialized(FALSE)
        /\ Fetched(f, "notInitialized")
        /\ UNCHANGED <<clientVars, event, stored>>
     \/ /\ EnsureInitialized(TRUE)
        /\ stored' = [stored EXCEPT ![f] = "none"]
        /\ event' = [event EXCEPT ![f] = FALSE]
        /\ \/ Take(f) /\ ui' = Waiting(f) /\ UNCHANGED windowVars
           \/ TurnedAway /\ Fetched(f, "refused")
        /\ UNCHANGED answer
  /\ UNCHANGED <<completion, pending, results, finalVars, sent, history, unheard>>

\* WaitForSingleObject: the event is reset by the wait that it ends.
WaitEnds(f) ==
  /\ ui = Waiting(f)
  /\ \/ event[f] /\ event' = [event EXCEPT ![f] = FALSE] /\ Fetched(f, stored[f])
     \/ Fetched(f, "timedOut") /\ UNCHANGED event
  /\ UNCHANGED <<clientVars, initialized, stored, completion, pending, results, finalVars, sent,
                 history, unheard>>

\* Mutant: one event for both fetches.
AnyEvent(f) == [g \in Fetches |-> TRUE]

SetEvent(f) == [event EXCEPT ![f] = TRUE]

\* handleUserPrivacyConfig and handleClientConfig, on the worker thread: an answer
\* that cannot be parsed is a failure.
HandleConfig(f) ==
  /\ Answered(f)
  /\ stored' = [stored EXCEPT ![f] = answer.outcome]
  /\ event' = SetEvent(f)
  /\ UNCHANGED <<slot, ui, initialized, completion, pending, windowVars, results, finalVars, sent,
                 history, unheard>>

-----------------------------------------------------------------------------
(* Submitting, on the UI thread                                            *)

InEventLoop == ui = "loop" /\ ~Completed

EditAccount(account) ==
  /\ InEventLoop
  /\ account # accountEdit
  /\ accountEdit' = account
  /\ UNCHANGED <<clientVars, ui, authVars, fetched, passwordTyped, submission, lastSubmitted,
                 buttonEnabled, results, finalVars, sent, history, unheard>>

\* The password is typed or erased, on either keyboard.
EditPassword ==
  /\ InEventLoop
  /\ passwordTyped' = ~passwordTyped
  /\ UNCHANGED <<clientVars, ui, authVars, fetched, accountEdit, submission, lastSubmitted,
                 buttonEnabled, results, finalVars, sent, history, unheard>>

\* validatePasswordLoginRequest; the window has checked the box.
ValidRequest == accountEdit # NoAccount /\ passwordTyped

\* submitPasswordLogin with a valid request, by the login button or, without a
\* button, by the Enter key of the keyboard.  An invalid one only shows a hint.
Submit(byButton) ==
  /\ InEventLoop
  /\ byButton => buttonEnabled
  /\ ValidRequest
  /\ submissions < MaxSubmissions
  /\ submission' = [account |-> accountEdit, button |-> byButton]
  /\ lastSubmitted' = accountEdit
  /\ buttonEnabled' = (buttonEnabled /\ ~byButton)
  /\ ui' = "completion"
  /\ submissions' = submissions + 1
  /\ open' = open + 1
  /\ overlapped' = (overlapped \/ open > 0)
  /\ UNCHANGED <<clientVars, authVars, fetched, accountEdit, passwordTyped, results, finalVars, sent,
                 unheard>>

\* login: the completion is replaced first, ...
SetCompletion ==
  /\ ui = "completion"
  /\ completion' = [set |-> TRUE, button |-> submission.button]
  /\ ui' = "request"
  /\ UNCHANGED <<clientVars, initialized, event, stored, pending, windowVars, results, finalVars,
                 sent, history, unheard>>

\* ... then the request, and the library is initialized unless it was, ...
SetRequest ==
  /\ ui = "request"
  /\ pending' = submission.account
  /\ \/ /\ EnsureInitialized(TRUE)
        /\ ui' = "key"
        /\ UNCHANGED <<completion, results>>
     \/ /\ EnsureInitialized(FALSE)
        /\ Failed
        /\ ui' = "loop"
  /\ UNCHANGED <<clientVars, event, stored, windowVars, finalVars, sent, history, unheard>>

\* Mutant: a library that turns the request away is not noticed.
KeyRefusedSilently == UNCHANGED <<completion, results>>

KeyRefused == Failed

\* ... and the key is asked for.
GetDynamicKey ==
  /\ ui = "key"
  /\ ui' = "loop"
  /\ \/ Take("key") /\ UNCHANGED <<completion, results>>
     \/ TurnedAway /\ KeyRefused
  /\ UNCHANGED <<answer, initialized, event, stored, pending, windowVars, finalVars, sent, history,
                 unheard>>

\* Mutant: what is in the field now.
AccountInField == accountEdit

\* recordSuccessfulAccount(lastSubmittedPasswordAccount_)
AccountToRecord == lastSubmitted

\* The queued half of the completion, which empties the password field, and
\* completePasswordLogin.
HandleResult ==
  /\ InEventLoop
  /\ results # <<>>
  /\ LET result == Head(results) IN
       /\ buttonEnabled' = (buttonEnabled \/ result.button)
       /\ passwordTyped' = FALSE
       /\ IF result.outcome = "success"
          THEN recorded' = AccountToRecord /\ loggedIn' = result.account
          ELSE UNCHANGED finalVars
  /\ results' = Tail(results)
  /\ open' = open - 1
  /\ UNCHANGED <<clientVars, ui, authVars, fetched, accountEdit, submission, lastSubmitted, sent,
                 overlapped, submissions, unheard>>

-----------------------------------------------------------------------------
(* The worker thread                                                       *)

ServerAnswers ==
  /\ Respond(Outcomes(slot))
  /\ UNCHANGED <<ui, authVars, windowVars, results, finalVars, sent, history, unheard>>

\* The password of pendingRequest_ is encrypted with the key, which may fail, and
\* its account is logged in.
HandleDynamicKey ==
  /\ Answered("key")
  /\ \/ Failed /\ UNCHANGED <<slot, sent>>
     \/ /\ answer.outcome = "ok"
        /\ \/ Take("login") /\ sent' = pending /\ UNCHANGED <<completion, results>>
           \/ TurnedAway /\ Failed /\ UNCHANGED sent
  /\ UNCHANGED <<ui, initialized, event, stored, pending, windowVars, finalVars, history, unheard>>

\* The callbacks that are registered: for a result, and for two of the second steps,
\* which count as failures.
Heard(outcome) == outcome # "unregistered"

HandleLoginResult ==
  /\ Answered("login")
  /\ IF Heard(answer.outcome)
     THEN /\ IF answer.outcome = "success" THEN Complete("success", sent) ELSE Failed
          /\ UNCHANGED unheard
     ELSE unheard' = TRUE /\ UNCHANGED <<completion, results>>
  /\ UNCHANGED <<slot, ui, initialized, event, stored, pending, windowVars, finalVars, sent,
                 history>>

-----------------------------------------------------------------------------
UiStep ==
  \/ \E f \in Fetches : Fetch(f) \/ WaitEnds(f)
  \/ SetCompletion \/ SetRequest \/ GetDynamicKey \/ HandleResult

WorkerStep ==
  ServerAnswers \/ HandleDynamicKey \/ HandleLoginResult \/ \E f \in Fetches : HandleConfig(f)

Next ==
  \/ UiStep
  \/ WorkerStep
  \/ \E account \in Accounts : EditAccount(account)
  \/ EditPassword
  \/ \E byButton \in BOOLEAN : Submit(byButton)

Spec == Init /\ [][Next]_vars

\* Both threads are scheduled, the waits have timeouts and so have the transfers.
FairSpec == Spec /\ WF_vars(UiStep) /\ WF_vars(WorkerStep)

-----------------------------------------------------------------------------
(* Properties                                                              *)

\* Neither fetch takes the end of another request for its own: what it returns
\* after its event is an answer of the server, and the library refuses one only
\* if the other was given up before (sdo_base_password_auth.cpp:121-246, 443-530).
FetchExplained ==
  /\ ui \notin {"privacy", "privacyWait"} => fetched["privacy"] # "none"
  /\ ui \notin {"privacy", "privacyWait", "config", "configWait"} => fetched["config"] # "none"
  /\ fetched["privacy"] # "refused"
  /\ fetched["config"] = "refused" => fetched["privacy"] = "timedOut"

\* A login is recorded under the account it was granted to, though the field can
\* be edited meanwhile, unless two submissions overlap (login_window.cpp:957-1061).
GrantedAccountRecorded == Completed /\ ~overlapped => recorded = loggedIn

\* The button comes back after every submission that did not overlap another,
\* however late the configurations come that the window no longer waits for
\* (sdo_base_password_auth.cpp:89-119, 532-662).
SubmissionAnswered == []<>(buttonEnabled \/ Completed \/ overlapped \/ unheard)
=============================================================================
