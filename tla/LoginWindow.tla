---------------------------- MODULE LoginWindow ----------------------------
(***************************************************************************)
(* The login window of sdologin (src/src/sdologin/login_window.cpp): its   *)
(* pages, of which one completes the login, the protocol checkbox with the *)
(* browser process that shows the privacy policy, and the account history. *)
(*                                                                         *)
(* All of it runs on the UI thread; what interleaves are the events: the   *)
(* user's, the results of the pages, the end of the browser process, the   *)
(* timers.  While the browser is open a transparent widget keeps the mouse *)
(* away, but not the keyboard; and showing the browser runs a nested event *)
(* loop first, without user input.  Closing the window only posts the end  *)
(* of the event loop (main.cpp:298-301): events that are not the user's    *)
(* may run after it, here any number of them.                              *)
(***************************************************************************)
EXTENDS Naturals, AccountHistoryCombo

CONSTANTS
  Versions,    \* versions of the privacy policy
  NoVersion,   \* -1: none was accepted, or the server gives none
  Allowed,     \* what the server can allow: sets of pages
  MaxToggles,  \* bound: how often the checkbox is used
  MaxDialogs   \* bound: how often a browser is started

ASSUME WindowAssumption ==
  /\ NoVersion \notin Versions
  /\ MaxToggles \in Nat /\ MaxDialogs \in Nat

Slots == {"password", "oneClick", "qr", "sms"}
Tabs == <<"password", "oneClick", "qr">>   \* mainLoginTabSpec

VARIABLES
  page,       \* the current page of loginStack
  allowed,    \* serverAllowsLoginSlot
  started,    \* pages that wait for the server
  box,        \* protocolCheck->isChecked()
  review,     \* context_.protocolReviewRequired
  saved,      \* context_.savedPrivacyPolicyVersion, as in userinfo.xml
  toStore,    \* context_.acceptedPrivacyPolicyVersion
  opened,     \* initialPrivacyProtocolOpened_
  active,     \* protocolDialogActive_, and the widget that keeps the mouse away
  browser,    \* the browser process
  completed,  \* completed_
  answers,    \* calls of completionHandler_
  closed,
  \* history
  toReview,   \* the policy had to be reviewed when the window opened
  agreed,     \* the user has agreed in a browser that records it
  beneath,    \* the box was used by the keyboard while a browser was open
  toggles, dialogs

boxVars     == <<box, review, saved, toStore, opened, toReview>>
browserVars == <<active, browser, agreed, beneath>>
finalVars   == <<completed, answers, closed>>
vars == <<page, allowed, started, boxVars, browserVars, finalVars, toggles, dialogs, comboVars>>

NoBrowser == [state |-> "none", records |-> FALSE]

-----------------------------------------------------------------------------
(* The constructor, once fetchUserPrivacyConfig has returned               *)

ServerFailed == [ok |-> FALSE, version |-> NoVersion]
ServerResults == {ServerFailed} \cup [ok : {TRUE}, version : Versions \cup {NoVersion}]

\* shouldRequireProtocolReviewAfterServerConfig
ReviewRequired(version, server) ==
  IF server.ok THEN server.version # version ELSE version = NoVersion

FirstPage(pages) ==
  LET shown == SelectSeq(Tabs, LAMBDA t : t \in pages) IN
    IF shown = <<>> THEN "password" ELSE Head(shown)

Init ==
  /\ saved \in Versions \cup {NoVersion}
  /\ \E server \in ServerResults :
        /\ review = ReviewRequired(saved, server)
        /\ toStore = server.version   \* acceptedPrivacyPolicyVersionForStorage
  /\ toReview = review
  /\ box = ~review   \* initialProtocolCheckboxChecked
  /\ allowed \in Allowed
  /\ page = FirstPage(allowed)
  /\ started = {}
  /\ opened = FALSE
  /\ active = FALSE
  /\ browser = NoBrowser
  /\ completed = FALSE
  /\ answers = <<>>
  /\ closed = FALSE
  /\ agreed = FALSE
  /\ beneath = FALSE
  /\ toggles = 0
  /\ dialogs = 0
  /\ ComboInit

-----------------------------------------------------------------------------
\* The user does not reach a window that is closed or runs the nested event loop, and
\* with the mouse none that is covered; the keyboard reaches its buttons and the box.
UserInput == ~closed /\ browser.state # "opening"
MouseInput == UserInput /\ ~active

\* Mutant: the window does not look whether it was completed.
CompleteAgain(answer) ==
  /\ completed' = TRUE
  /\ answers' = Append(answers, answer)
  /\ closed' = TRUE

\* completeSuccess, completeCodeKeyLogin, completePushMessageLogin and
\* completePasswordLogin, which close the window (its closeEvent finds it completed);
\* closeEvent with completeCancel.  Only the first of them calls completionHandler_.
Complete(answer) ==
  IF completed
  THEN UNCHANGED finalVars
  ELSE /\ completed' = TRUE
       /\ answers' = Append(answers, answer)
       /\ closed' = TRUE

SelectTab(tab) ==
  /\ UserInput
  /\ tab \in allowed \/ (tab = "password" /\ FirstPage(allowed) = "password")
  /\ page' = tab
  /\ UNCHANGED <<allowed, started, boxVars, browserVars, finalVars, toggles, dialogs, comboVars>>

\* The shortcut to the SMS page.
QuickLogin ==
  /\ UserInput
  /\ "sms" \in allowed
  /\ page' = "sms"
  /\ UNCHANGED <<allowed, started, boxVars, browserVars, finalVars, toggles, dialogs, comboVars>>

\* The login button of the page, or the QR page that polls: only with the box checked.
StartLogin ==
  /\ UserInput
  /\ box
  /\ page # "sms"
  /\ started' = started \cup {page}
  /\ UNCHANGED <<page, allowed, boxVars, browserVars, finalVars, toggles, dialogs, comboVars>>

\* The result of a page comes in: a failure shows a hint, a success completes the
\* login and closes the window, unless another page or the user was faster.
LoginResult(p, success) ==
  /\ p \in started
  /\ started' = started \ {p}
  /\ IF success THEN Complete("success") ELSE UNCHANGED finalVars
  /\ UNCHANGED <<page, allowed, boxVars, browserVars, toggles, dialogs, comboVars>>

\* The SMS page completes without a server, and does not ask for the box.
SmsLogin ==
  /\ UserInput
  /\ page = "sms"
  /\ Complete("success")
  /\ UNCHANGED <<page, allowed, started, boxVars, browserVars, toggles, dialogs, comboVars>>

\* The close button, or the timer that watches the owner window, also once more after
\* another close().
CloseWindow ==
  /\ Complete("cancel")
  /\ UNCHANGED <<page, allowed, started, boxVars, browserVars, toggles, dialogs, comboVars>>

-----------------------------------------------------------------------------
(* The protocol browser                                                    *)

\* showProtocolDialog, as far as the nested event loop: it returns at once if a
\* browser is open.
ShowProtocolDialog(records) ==
  IF active
  THEN UNCHANGED <<browser, dialogs>>
  ELSE /\ dialogs < MaxDialogs
       /\ browser' = [state |-> "opening", records |-> records]
       /\ dialogs' = dialogs + 1

\* shouldOpenInitialPrivacyProtocol
ShouldOpenProtocol == review /\ ~opened /\ ~box

\* The checkbox is clicked, or used by the keyboard though a browser is open.
ToggleBox ==
  /\ UserInput
  /\ toggles < MaxToggles
  /\ toggles' = toggles + 1
  /\ box' = ~box
  /\ IF ShouldOpenProtocol
     THEN opened' = TRUE /\ ShowProtocolDialog(TRUE)
     ELSE UNCHANGED <<opened, browser, dialogs>>
  /\ beneath' = (beneath \/ active)
  /\ UNCHANGED <<page, allowed, started, review, saved, toStore, toReview, active, agreed,
                 finalVars, comboVars>>

ClickProtocol ==
  /\ UserInput
  /\ ShowProtocolDialog(FALSE)
  /\ UNCHANGED <<page, allowed, started, boxVars, active, agreed, beneath, finalVars, toggles,
                 comboVars>>

\* Mutant: the box stays checked.
KeepBox == opened' = FALSE /\ UNCHANGED box

\* The policy was not accepted: the box is unchecked without its handler.
UncheckBox == opened' = FALSE /\ box' = FALSE

IfRecords(step) == IF browser.records THEN step ELSE UNCHANGED <<box, opened>>

\* setProtocolDialogActive(true), and start(), which reports a failure at once.
StartBrowser ==
  /\ browser.state = "opening"
  /\ \/ /\ active' = TRUE
        /\ browser' = [browser EXCEPT !.state = "running"]
        /\ UNCHANGED <<box, opened>>
     \/ /\ active' = FALSE
        /\ browser' = NoBrowser
        /\ IfRecords(UncheckBox)
  /\ UNCHANGED <<page, allowed, started, review, saved, toStore, toReview, agreed, beneath,
                 finalVars, toggles, dialogs, comboVars>>

\* Mutant: what the browser process has returned does not matter.
AnyExit(exit) == browser.records /\ toStore # NoVersion

\* shouldPersistInitialProtocolAcceptance, for a normal exit
ShouldPersist(exit) == browser.records /\ exit = "accepted" /\ toStore # NoVersion

\* persistInitialProtocolAcceptance, which may fail to write
Persist ==
  \/ saved' = toStore /\ review' = FALSE
  \/ UNCHANGED <<saved, review>>

\* Mutant: only a normal end uncovers the window.
ActiveAfter(exit) == active /\ exit = "crashed"

Uncovered(exit) == FALSE

\* The process has ended: a crash is reported as an error and then as an end.
BrowserEnds(exit) ==
  /\ browser.state = "running"
  /\ active' = Uncovered(exit)
  /\ browser' = NoBrowser
  /\ agreed' = (agreed \/ (browser.records /\ exit = "accepted"))
  /\ IF ShouldPersist(exit)
     THEN Persist /\ UNCHANGED <<box, opened>>
     ELSE IfRecords(UncheckBox) /\ UNCHANGED <<saved, review>>
  /\ UNCHANGED <<page, allowed, started, toStore, toReview, beneath, finalVars, toggles, dialogs,
                 comboVars>>

-----------------------------------------------------------------------------
Combo ==
  /\ \/ MouseInput /\ ComboInput
     \/ ComboTimer
  /\ UNCHANGED <<page, allowed, started, boxVars, browserVars, finalVars, toggles, dialogs>>

Next ==
  \/ \E i \in DOMAIN Tabs : SelectTab(Tabs[i])
  \/ QuickLogin \/ StartLogin \/ SmsLogin \/ CloseWindow
  \/ \E p \in Slots, success \in BOOLEAN : LoginResult(p, success)
  \/ ToggleBox \/ ClickProtocol \/ StartBrowser
  \/ \E exit \in {"accepted", "rejected", "crashed"} : BrowserEnds(exit)
  \/ Combo

Spec == Init /\ [][Next]_vars

-----------------------------------------------------------------------------
(* Properties                                                              *)

\* Whoever completes or closes the window, and in whatever order, also with results and
\* close() calls that come after it was closed: a window that is closed has answered exactly
\* once, and one that is open not at all (login_window.cpp:522-528, 1040-1145).
OneAnswer == Len(answers) = IF closed THEN 1 ELSE 0

\* The window is never covered without a browser that will uncover it when it
\* ends (login_window.cpp:1238-1337).
CoveredByBrowser == active => browser.state = "running"

\* If the policy has to be reviewed when the window opens, a checked box means that
\* the user is being asked or has agreed, whatever becomes of the browsers, unless
\* the keyboard was used beneath another browser (login_window.cpp:650-672, 1238-1359).
ReviewIsAsked == toReview /\ box => browser.records \/ agreed \/ beneath

\* docs/protocol_initial_acceptance_20260517.md:28: the checkbox is restored to unchecked
\* "if the browser is closed or crashes before acceptance"; so not when the user has
\* accepted.
AcceptanceKeepsBox == [][agreed' /\ ~agreed => box' = box]_vars
=============================================================================
