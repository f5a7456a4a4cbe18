------------------------- MODULE LoginWindowProofs -------------------------
(***************************************************************************)
(* Theorems about the login window and its account history, for any        *)
(* history, versions of the policy, pages and number of uses; and about    *)
(* the browser process that the window starts, which shows the agreement,  *)
(* for any delay, and any number of links, messages and events.            *)
(***************************************************************************)
EXTENDS LoginWindow, ProtocolBrowser, TLAPS

-----------------------------------------------------------------------------
(* The account history: what is pressed is in the row that was pressed.    *)

PressOK == pressed # NotPressed => items[pressed.row] \in meant

ComboInv == PressOK /\ ~wrong

\* A step of the popup and its timers keeps it: the rows change only together with
\* the press.
LEMMA ComboNext ==
  ASSUME ComboInv, ComboInput \/ ComboTimer
  PROVE  ComboInv'
<1> USE DEF ComboInv, PressOK
<1>1. CASE TogglePopup
  BY <1>1 DEF TogglePopup, Hide, Rebuild, PressAfterConfigure
<1>2. CASE LetGo
  BY <1>2 DEF LetGo
<1>3. CASE \E row \in 1..(Len(InitialAccounts) + 1), onDelete \in BOOLEAN : Press(row, onDelete)
  BY <1>3 DEF Press
<1>4. CASE \E row \in 1..(Len(InitialAccounts) + 1) : ReleaseOnDelete(row) \/ ReleaseOnRow(row)
  <2> PICK row \in 1..(Len(InitialAccounts) + 1) : ReleaseOnDelete(row) \/ ReleaseOnRow(row)
    BY <1>4
  <2>1. pressed.row = row /\ pressed # NotPressed
    BY DEF ReleaseOnDelete, ReleaseOnRow, NotPressed
  <2>2. items[row] \in meant
    BY <2>1
  <2> QED BY <2>2 DEF ReleaseOnDelete, ReleaseOnRow, Chosen
<1>5. CASE RunRemoval
  BY <1>5 DEF RunRemoval
<1>6. CASE RefreshPopup
  BY <1>6 DEF RefreshPopup, Rebuild, PressAfterConfigure
<1> QED BY <1>1, <1>2, <1>3, <1>4, <1>5, <1>6 DEF ComboInput, ComboTimer

-----------------------------------------------------------------------------
(* The window                                                              *)

\* The cover, the browser process and what was asked for.
BrowserInv ==
  /\ browser \in [state : {"none", "opening", "running"}, records : BOOLEAN]
  /\ active \in BOOLEAN
  /\ active <=> browser.state = "running"
  /\ browser.records => browser.state # "none"

\* The window has answered if it was completed, once, and is closed then.
AnswerInv ==
  /\ closed \in BOOLEAN /\ completed \in BOOLEAN
  /\ completed <=> closed
  /\ ~closed => answers = <<>>
  /\ closed => \E answer \in {"success", "cancel"} : answers = <<answer>>

Asked == browser.records \/ agreed \/ beneath

\* As long as the policy has to be reviewed, the flag that it was opened, like the
\* checked box, says that the user is asked or was.
ReviewInv ==
  /\ box \in BOOLEAN /\ opened \in BOOLEAN /\ review \in BOOLEAN
  /\ toReview \in BOOLEAN /\ agreed \in BOOLEAN /\ beneath \in BOOLEAN
  /\ toReview =>
       /\ box => Asked
       /\ opened => Asked
       /\ ~review => agreed

WindowInv == BrowserInv /\ AnswerInv /\ ReviewInv /\ ComboInv

LEMMA WindowInit == Init => WindowInv
<1> SUFFICES ASSUME Init PROVE WindowInv
  OBVIOUS
<1>1. BrowserInv
  BY DEF Init, BrowserInv, NoBrowser
<1>2. AnswerInv
  BY DEF Init, AnswerInv
<1>3. ReviewInv
  <2>1. review \in BOOLEAN
    BY DEF Init, ReviewRequired, ServerResults, ServerFailed
  <2> QED BY <2>1 DEF Init, ReviewInv, Asked
<1>4. ComboInv
  BY DEF Init, ComboInit, ComboInv, PressOK
<1> QED BY <1>1, <1>2, <1>3, <1>4 DEF WindowInv

\* Completing the window answers if it is open, and changes nothing if it is closed.
LEMMA CompleteAnswers ==
  ASSUME AnswerInv, NEW answer \in {"success", "cancel"}, Complete(answer)
  PROVE  AnswerInv'
<1>1. CASE completed
  BY <1>1 DEF AnswerInv, Complete, finalVars
<1>2. CASE ~completed
  <2>1. answers' = <<answer>> /\ closed' = TRUE /\ completed' = TRUE
    BY <1>2 DEF AnswerInv, Complete
  <2> QED BY <2>1 DEF AnswerInv
<1> QED BY <1>1, <1>2 DEF AnswerInv

LEMMA BrowserNext ==
  ASSUME BrowserInv, [Next]_vars
  PROVE  BrowserInv'
<1> USE DEF BrowserInv, NoBrowser
<1>1. CASE ToggleBox \/ ClickProtocol
  <2>1. active' = active /\ \E records \in BOOLEAN : ShowProtocolDialog(records) \/ browser' = browser
    BY <1>1 DEF ToggleBox, ClickProtocol
  <2>2. browser.state # "opening"
    BY <1>1 DEF ToggleBox, ClickProtocol, UserInput
  <2> QED BY <2>1, <2>2 DEF ShowProtocolDialog
<1>2. CASE StartBrowser
  <2>1. CASE active' = TRUE /\ browser' = [browser EXCEPT !.state = "running"]
    <3>1. browser'.state = "running" /\ browser'.records = browser.records
      BY <2>1
    <3>2. browser' \in [state : {"none", "opening", "running"}, records : BOOLEAN]
      BY <2>1
    <3> QED BY <2>1, <3>1, <3>2
  <2>2. CASE active' = FALSE /\ browser' = NoBrowser
    BY <2>2
  <2> QED BY <1>2, <2>1, <2>2 DEF StartBrowser
<1>3. CASE \E ended \in {"accepted", "rejected", "crashed"} : BrowserEnds(ended)
  <2>1. active' = FALSE /\ browser' = NoBrowser
    BY <1>3 DEF BrowserEnds, Uncovered
  <2> QED BY <2>1
<1>4. CASE UNCHANGED browserVars
  BY <1>4 DEF browserVars
<1>5. ASSUME ~ToggleBox, ~ClickProtocol, ~StartBrowser,
             ~\E ended \in {"accepted", "rejected", "crashed"} : BrowserEnds(ended)
      PROVE  UNCHANGED browserVars
  BY <1>5 DEF Next, vars, SelectTab, QuickLogin, StartLogin, SmsLogin, CloseWindow, LoginResult,
              Combo
<1> QED BY <1>1, <1>2, <1>3, <1>4, <1>5

LEMMA AnswerNext ==
  ASSUME AnswerInv, [Next]_vars
  PROVE  AnswerInv'
<1>1. CASE SmsLogin \/ CloseWindow
  BY <1>1, CompleteAnswers DEF SmsLogin, CloseWindow
<1>2. CASE \E p \in Slots, success \in BOOLEAN : LoginResult(p, success)
  BY <1>2, CompleteAnswers DEF LoginResult, finalVars, AnswerInv
<1>3. CASE UNCHANGED finalVars
  BY <1>3 DEF finalVars, AnswerInv
<1>4. ASSUME ~SmsLogin, ~CloseWindow,
             ~\E p \in Slots, success \in BOOLEAN : LoginResult(p, success)
      PROVE  UNCHANGED finalVars
  BY <1>4 DEF Next, vars, SelectTab, QuickLogin, StartLogin, ToggleBox, ClickProtocol,
              StartBrowser, BrowserEnds, Combo
<1> QED BY <1>1, <1>2, <1>3, <1>4

LEMMA ReviewNext ==
  ASSUME BrowserInv, ReviewInv, [Next]_vars
  PROVE  ReviewInv'
<1> USE DEF ReviewInv, Asked, BrowserInv
<1>1. CASE ToggleBox
  <2> USE DEF ToggleBox
  <2>1. UNCHANGED <<review, toReview, agreed>> /\ (box' <=> ~box) /\ box' \in BOOLEAN
    BY <1>1
  <2>2. beneath' \in BOOLEAN /\ (beneath' <=> beneath \/ active)
    BY <1>1
  <2>3. CASE ShouldOpenProtocol
    <3>1. opened' = TRUE
      BY <1>1, <2>3
    <3>2. active \/ browser'.records
      BY <1>1, <2>3 DEF ShowProtocolDialog
    <3> QED BY <2>1, <2>2, <3>1, <3>2
  <2>4. CASE ~ShouldOpenProtocol
    <3>1. UNCHANGED <<opened, browser>>
      BY <1>1, <2>4
    <3> QED BY <2>1, <2>2, <2>4, <3>1 DEF ShouldOpenProtocol
  <2> QED BY <2>3, <2>4
<1>2. CASE ClickProtocol
  BY <1>2 DEF ClickProtocol, ShowProtocolDialog, UserInput, boxVars
<1>3. CASE StartBrowser
  BY <1>3 DEF StartBrowser, NoBrowser, IfRecords, UncheckBox
<1>4. CASE \E ended \in {"accepted", "rejected", "crashed"} : BrowserEnds(ended)
  <2> PICK ended \in {"accepted", "rejected", "crashed"} : BrowserEnds(ended)
    BY <1>4
  <2>1. UNCHANGED <<toReview, beneath>> /\ (agreed' <=> agreed \/ (browser.records /\ ended = "accepted"))
        /\ agreed' \in BOOLEAN
    BY DEF BrowserEnds
  <2>2. CASE ShouldPersist(ended)
    <3>1. agreed' = TRUE
      BY <2>1, <2>2 DEF ShouldPersist
    <3>2. UNCHANGED <<box, opened>> /\ review' \in BOOLEAN
      BY <2>2 DEF BrowserEnds, Persist
    <3> QED BY <2>1, <3>1, <3>2
  <2>3. CASE ~ShouldPersist(ended)
    <3>1. UNCHANGED review /\ IfRecords(UncheckBox)
      BY <2>3 DEF BrowserEnds
    <3>2. CASE browser.records
      BY <2>1, <3>1, <3>2 DEF IfRecords, UncheckBox
    <3>3. CASE ~browser.records
      BY <2>1, <3>1, <3>3 DEF IfRecords
    <3> QED BY <3>2, <3>3
  <2> QED BY <2>2, <2>3
<1>5. CASE UNCHANGED <<boxVars, browserVars>>
  BY <1>5 DEF boxVars, browserVars
<1>6. ASSUME ~ToggleBox, ~ClickProtocol, ~StartBrowser,
             ~\E ended \in {"accepted", "rejected", "crashed"} : BrowserEnds(ended)
      PROVE  UNCHANGED <<boxVars, browserVars>>
  BY <1>6 DEF Next, vars, SelectTab, QuickLogin, StartLogin, SmsLogin, CloseWindow, LoginResult,
              Combo
<1> QED BY <1>1, <1>2, <1>3, <1>4, <1>5, <1>6

LEMMA WindowComboNext ==
  ASSUME ComboInv, [Next]_vars
  PROVE  ComboInv'
<1>1. CASE Combo
  BY <1>1, ComboNext DEF Combo
<1>2. CASE UNCHANGED comboVars
  BY <1>2 DEF comboVars, ComboInv, PressOK
<1>3. ASSUME ~Combo PROVE UNCHANGED comboVars
  BY <1>3 DEF Next, vars, SelectTab, QuickLogin, StartLogin, SmsLogin, CloseWindow, LoginResult,
              ToggleBox, ClickProtocol, StartBrowser, BrowserEnds
<1> QED BY <1>1, <1>2, <1>3

LEMMA WindowInvariance == Spec => []WindowInv
<1>1. WindowInv /\ [Next]_vars => WindowInv'
  BY BrowserNext, AnswerNext, ReviewNext, WindowComboNext DEF WindowInv
<1> QED BY WindowInit, <1>1, PTL DEF Spec

-----------------------------------------------------------------------------
\* A closed window has answered exactly once, an open one not at all, though results and
\* close() calls still come after it was closed.
THEOREM AnsweredOnce == Spec => []OneAnswer
<1>1. WindowInv => OneAnswer
  BY DEF WindowInv, AnswerInv, OneAnswer
<1> QED BY WindowInvariance, <1>1, PTL

\* The widget that keeps the mouse away goes with the browser.
THEOREM UncoveredInTheEnd == Spec => []CoveredByBrowser
<1>1. WindowInv => CoveredByBrowser
  BY DEF WindowInv, BrowserInv, CoveredByBrowser
<1> QED BY WindowInvariance, <1>1, PTL

\* A policy that must be reviewed is shown before the box stays checked.
THEOREM ReviewAsked == Spec => []ReviewIsAsked
<1>1. WindowInv => ReviewIsAsked
  BY DEF WindowInv, ReviewInv, Asked, ReviewIsAsked
<1> QED BY WindowInvariance, <1>1, PTL

\* The history acts on the account whose row was pressed.
THEOREM PressedIsChosen == Spec => []ChoosesWhatWasPressed
<1>1. WindowInv => ChoosesWhatWasPressed
  BY DEF WindowInv, ComboInv, ChoosesWhatWasPressed
<1> QED BY WindowInvariance, <1>1, PTL

-----------------------------------------------------------------------------
(* The browser process: the delay of its button                            *)

\* The seconds that the dialog was shown and those that are left make the delay, and
\* only an enabled button accepts.
ConsentInv ==
  /\ remaining \in Int /\ elapsed \in Int
  /\ remaining + elapsed = AgreeDelay
  /\ accepted \in BOOLEAN
  /\ accepted => remaining <= 0
  /\ purpose = "review" /\ exit = 0 => accepted
  /\ accepted => dialog # "shown"

LEMMA DelayInt == configured \in Configured => AgreeDelay \in Int
BY BrowserAssumption DEF AgreeDelay, Normalized

LEMMA ConsentInit == ProcessInit => ConsentInv
<1> SUFFICES ASSUME ProcessInit PROVE ConsentInv
  OBVIOUS
<1>1. AgreeDelay \in Int
  BY DelayInt DEF ProcessInit
<1>2. purpose = "review" => exit # 0
  BY DEF ProcessInit, NoExit
<1>3. remaining = AgreeDelay /\ elapsed = 0 /\ ~accepted /\ accepted \in BOOLEAN
  BY DEF ProcessInit
<1>4. remaining \in Int /\ elapsed \in Int /\ remaining + elapsed = AgreeDelay
  BY <1>1, <1>3
<1>5. ~(purpose = "review" /\ exit = 0)
  BY <1>2
<1> QED BY <1>3, <1>4, <1>5, Zenon DEF ConsentInv

\* The steps of everybody else leave the dialog alone, except that a call of a widget
\* that is gone may end the process.
LEMMA DialogFrame ==
  ASSUME [ProcessNext]_processVars, ~Tick, ~Destroy, ~Exit, ~Post, ~\E agree \in BOOLEAN : Answer(agree)
  PROVE  UNCHANGED dialogVars
BY DEF ProcessNext, processVars, LoadUrl, OnAfterCreated, LoadEnds, OnPaint, OnProcessMessage,
       OnLoadError,
       OnBeforeBrowse, OnBeforePopup, HandlePosted, NativeReady, FrameContext, PostMessage,
       ReceiveMessage, RegisterCallback, FetchPage, FetchText

LEMMA ConsentNext ==
  ASSUME ConsentInv, [ProcessNext]_processVars
  PROVE  ConsentInv'
<1> USE DEF ConsentInv, AgreeDelay
<1>1. CASE Tick
  BY <1>1 DEF Tick
<1>2. CASE \E agree \in BOOLEAN : Answer(agree)
  BY <1>2 DEF Answer, AgreeEnabled, Runs, NoExit
<1>3. CASE Destroy
  BY <1>3 DEF Destroy
<1>4. CASE Exit
  BY <1>4 DEF Exit
<1>5. CASE Post
  BY <1>5 DEF Post, Crash
<1>6. CASE UNCHANGED dialogVars
  BY <1>6 DEF dialogVars
<1> QED BY <1>1, <1>2, <1>3, <1>4, <1>5, <1>6, DialogFrame

\* A review that was accepted had been on the screen for the configured time.
THEOREM ConsentTakesTime == ProcessSpec => []ConsentWaited
<1>1. ConsentInv => ConsentWaited
  <2> SUFFICES ASSUME ConsentInv, purpose = "review", exit = 0
               PROVE  accepted /\ elapsed >= Normalized(configured)
    BY DEF ConsentWaited
  <2>1. AgreeDelay = Normalized(configured)
    BY DEF AgreeDelay
  <2> QED BY <2>1 DEF ConsentInv
<1>2. ConsentInv /\ [ProcessNext]_processVars => ConsentInv'
  BY ConsentNext
<1> QED BY ConsentInit, <1>1, <1>2, PTL DEF ProcessSpec

-----------------------------------------------------------------------------
(* The browser process: the callback of its page                           *)

LEMMA CallbackNext ==
  ASSUME NoDeadContext, [ProcessNext]_processVars
  PROVE  NoDeadContext'
<1> USE DEF NoDeadContext
<1>1. CASE LoadEnds
  BY <1>1 DEF LoadEnds, CallbackAfter
<1>2. CASE FrameContext
  BY <1>2 DEF FrameContext, CallbackAfter
<1>3. CASE \E c \in Contexts : RegisterCallback(c)
  BY <1>3 DEF RegisterCallback
<1>4. CASE UNCHANGED <<live, callback>>
  BY <1>4
<1>5. ASSUME ~LoadEnds, ~FrameContext, ~\E c \in Contexts : RegisterCallback(c)
      PROVE  UNCHANGED <<live, callback>>
  BY <1>5 DEF ProcessNext, processVars, bridgeVars, Tick, Destroy, Exit, Post, Answer, LoadUrl,
              OnAfterCreated,
              OnPaint, OnProcessMessage, OnLoadError, OnBeforeBrowse, OnBeforePopup,
              HandlePosted, NativeReady, PostMessage, ReceiveMessage, FetchPage, FetchText
<1> QED BY <1>1, <1>2, <1>3, <1>4, <1>5

\* A message is never handed to a context that was released.
THEOREM CallbackLives == ProcessSpec => []NoDeadContext
<1>1. ProcessInit => NoDeadContext
  BY DEF ProcessInit, NoDeadContext
<1>2. NoDeadContext /\ [ProcessNext]_processVars => NoDeadContext'
  BY CallbackNext
<1> QED BY <1>1, <1>2, PTL DEF ProcessSpec

-----------------------------------------------------------------------------
(* The browser process: the error page                                     *)

\* What can be loaded, shown or posted.
Pages == {"none", "blank", "agreement", "other", "error", "text", "loading", "unsupported",
          "main", "popup", "message"}

PageTypes ==
  /\ posted \in Seq(Pages)
  /\ call \in Pages /\ shown \in Pages /\ loading \in Pages /\ image \in Pages
  /\ failed \in BOOLEAN

\* Wherever the error page is on its way to the user, something has failed.
ErrorInv ==
  /\ PageTypes
  /\ image = "error" => failed
  /\ shown = "error" => failed
  /\ loading = "error" => failed
  /\ call = "error" => failed
  /\ \A i \in 1..Len(posted) : posted[i] = "error" => failed

\* A fetch begins with nothing on its way, so that its failure is the only one.
FetchInv ==
  cef = "fetching" =>
    /\ image # "error" /\ posted = <<>> /\ call = "none" /\ shown = "none" /\ loading = "none"
    /\ held = "none"

LEMMA ErrorInit == ProcessInit => ErrorInv /\ FetchInv
<1> SUFFICES ASSUME ProcessInit PROVE ErrorInv /\ FetchInv
  OBVIOUS
<1>1. /\ posted = <<>> /\ call = "none" /\ shown = "none" /\ loading = "none" /\ held = "none"
      /\ failed \in BOOLEAN
  BY DEF ProcessInit
<1>2. image \in {"loading", "unsupported"}
  BY DEF ProcessInit
<1>3. PageTypes
  BY <1>1, <1>2 DEF PageTypes, Pages
<1>4. \A i \in 1..Len(posted) : posted[i] = "error" => failed
  BY <1>1
<1>5. image # "error" /\ shown # "error" /\ loading # "error" /\ call # "error"
  BY <1>1, <1>2
<1>6. ErrorInv
  BY <1>3, <1>4, <1>5, Zenon DEF ErrorInv
<1>7. FetchInv
  BY <1>1, <1>5 DEF FetchInv
<1> QED BY <1>6, <1>7

\* What the steps that do not belong to the fetch leave alone.
LEMMA FetchFrame ==
  ASSUME [ProcessNext]_processVars, cef = "fetching", ~\E ok \in BOOLEAN : FetchPage(ok), FetchInv
  PROVE  \/ UNCHANGED <<image, posted, call, pageVars, held>>
         \/ posted' = <<>> /\ held' = "none" /\ UNCHANGED <<image, call, pageVars>>
<1> USE DEF FetchInv
<1>1. CASE Tick \/ Destroy \/ Exit \/ \E agree \in BOOLEAN : Answer(agree)
  BY <1>1 DEF Tick, Destroy, Exit, Answer, widgetVars
<1>2. CASE Post \/ HandlePosted \/ NativeReady
  BY <1>2 DEF Post, HandlePosted, NativeReady, widgetVars
<1>3. CASE LoadUrl \/ OnAfterCreated \/ LoadEnds \/ OnPaint \/ OnProcessMessage
  BY <1>3 DEF LoadUrl, CreateBrowser, OnAfterCreated, LoadEnds, OnPaint, OnProcessMessage, CefRuns
<1>4. CASE \/ \E aborted \in BOOLEAN : OnLoadError(aborted)
           \/ \E kind \in LinkKinds, gesture \in BOOLEAN :
                OnBeforeBrowse(kind, gesture) \/ OnBeforePopup(kind, gesture)
           \/ \E content \in {"text", "agreement"} : FetchText(content)
  BY <1>4 DEF OnLoadError, OnBeforeBrowse, OnBeforePopup, CefRuns, FetchText
<1>5. CASE FrameContext \/ PostMessage \/ ReceiveMessage \/ \E c \in Contexts : RegisterCallback(c)
  BY <1>5 DEF FrameContext, PostMessage, ReceiveMessage, RegisterCallback, Renders
<1>6. CASE UNCHANGED processVars
  BY <1>6 DEF processVars, widgetVars
<1> QED BY <1>1, <1>2, <1>3, <1>4, <1>5, <1>6 DEF ProcessNext

LEMMA FetchNext ==
  ASSUME FetchInv, [ProcessNext]_processVars
  PROVE  FetchInv'
<1> SUFFICES ASSUME cef' = "fetching"
             PROVE  FetchInv'
  BY DEF FetchInv
<1>1. cef = "fetching"
  <2>1. CASE Destroy
    BY <2>1 DEF Destroy
  <2>2. CASE LoadUrl \/ OnAfterCreated
    BY <2>2 DEF LoadUrl, CreateBrowser, OnAfterCreated
  <2>3. CASE \E ok \in BOOLEAN : FetchPage(ok)
    BY <2>3 DEF FetchPage
  <2>4. CASE \E content \in {"text", "agreement"} : FetchText(content)
    BY <2>4 DEF FetchText, ShowFetched
  <2>5. ASSUME ~Destroy, ~LoadUrl, ~OnAfterCreated, ~\E ok \in BOOLEAN : FetchPage(ok),
               ~\E content \in {"text", "agreement"} : FetchText(content)
        PROVE  UNCHANGED cef
    BY <2>5
       DEF ProcessNext, processVars, Tick, Exit, Post, Answer, LoadEnds, OnPaint, OnProcessMessage,
                OnLoadError, OnBeforeBrowse, OnBeforePopup, HandlePosted, NativeReady,
                FrameContext, PostMessage, ReceiveMessage, RegisterCallback
  <2> QED BY <2>1, <2>2, <2>3, <2>4, <2>5
<1>2. ~\E ok \in BOOLEAN : FetchPage(ok)
  BY DEF FetchPage, ShowFetched
<1> QED BY <1>1, <1>2, FetchFrame DEF FetchInv, pageVars

\* Posting, and looking at the widget first.
LEMMA SeenOK ==
  ASSUME NEW event \in Pages, SeesWidget(event), event = "error" => failed'
  PROVE  call' \in Pages /\ (call' = "error" => failed')
BY DEF SeesWidget, Pages

LEMMA ErrorNext ==
  ASSUME ErrorInv, FetchInv, [ProcessNext]_processVars
  PROVE  ErrorInv'
<1> USE DEF ErrorInv, PageTypes, Pages
<1>1. CASE Tick \/ Exit \/ NativeReady \/ FrameContext \/ PostMessage \/ ReceiveMessage
           \/ (\E agree \in BOOLEAN : Answer(agree)) \/ (\E c \in Contexts : RegisterCallback(c))
           \/ UNCHANGED processVars
  BY <1>1 DEF Tick, Exit, NativeReady, FrameContext, PostMessage, ReceiveMessage, Answer,
              RegisterCallback, processVars, widgetVars, pageVars
<1>2. CASE Destroy
  BY <1>2 DEF Destroy, pageVars
<1>3. CASE Post
  <2>1. UNCHANGED <<image, pageVars>> /\ call' = "none"
    BY <1>3 DEF Post
  <2>2. posted' = Append(posted, call) \/ posted' = posted
    BY <1>3 DEF Post
  <2> QED BY <2>1, <2>2 DEF pageVars
<1>4. CASE HandlePosted
  <2>1. posted # <<>> /\ posted' = Tail(posted) /\ UNCHANGED <<call, pageVars>>
    BY <1>4 DEF HandlePosted
  <2>2. image' = image \/ image' = posted[1]
    BY <1>4 DEF HandlePosted
  <2>3. 1 \in 1..Len(posted) /\ posted[1] \in Pages
    BY <2>1
  <2>4. posted' \in Seq(Pages) /\ \A i \in 1..Len(posted') : posted'[i] = posted[i + 1] /\
        i + 1 \in 1..Len(posted)
    BY <2>1
  <2> QED BY <2>1, <2>2, <2>3, <2>4 DEF pageVars
<1>5. CASE LoadUrl
  BY <1>5 DEF LoadUrl, CreateBrowser, widgetVars
<1>6. CASE OnAfterCreated
  <2>1. loading' = "agreement" /\ UNCHANGED <<widgetVars, shown, failed>> /\ SeesWidget("main")
    BY <1>6 DEF OnAfterCreated, StartLoad
  <2> QED BY <2>1, SeenOK DEF widgetVars
<1>7. CASE LoadEnds
  BY <1>7 DEF LoadEnds, widgetVars
<1>8. CASE OnPaint
  <2>1. UNCHANGED <<widgetVars, pageVars>> /\ SeesWidget(shown)
    BY <1>8 DEF OnPaint
  <2> QED BY <2>1, SeenOK DEF widgetVars, pageVars
<1>9. CASE OnProcessMessage
  <2>1. UNCHANGED <<widgetVars, pageVars>> /\ SeesWidget("message")
    BY <1>9 DEF OnProcessMessage
  <2> QED BY <2>1, SeenOK DEF widgetVars, pageVars
<1>10. CASE \E aborted \in BOOLEAN : OnLoadError(aborted)
  <2> PICK aborted \in BOOLEAN : OnLoadError(aborted)
    BY <1>10
  <2>1. UNCHANGED <<widgetVars, call, shown>>
    BY DEF OnLoadError
  <2>2. CASE aborted
    <3>1. UNCHANGED <<loading, failed>>
      BY <2>2 DEF OnLoadError, ShowsError
    <3> QED BY <2>1, <3>1 DEF widgetVars
  <2>3. CASE ~aborted
    <3>1. loading' = "error" /\ failed' = TRUE
      BY <2>3 DEF OnLoadError, ShowsError
    <3> QED BY <2>1, <3>1 DEF widgetVars
  <2> QED BY <2>2, <2>3
<1>11. CASE \E kind \in LinkKinds, gesture \in BOOLEAN : OnBeforeBrowse(kind, gesture)
  BY <1>11 DEF OnBeforeBrowse, StartLoad, widgetVars
<1>12. CASE \E kind \in LinkKinds, gesture \in BOOLEAN : OnBeforePopup(kind, gesture)
  <2>1. UNCHANGED <<widgetVars, pageVars>> /\ (UNCHANGED call \/ SeesWidget("popup"))
    BY <1>12 DEF OnBeforePopup
  <2> QED BY <2>1, SeenOK DEF widgetVars, pageVars
<1>13. CASE \E ok \in BOOLEAN : FetchPage(ok)
  <2> PICK ok \in BOOLEAN : FetchPage(ok)
    BY <1>13
  <2>1. cef = "fetching" /\ UNCHANGED <<widgetVars, shown, loading>> /\ (failed' <=> ~ok) /\
        failed' \in BOOLEAN
    BY DEF FetchPage
  <2>2. \/ ~ok /\ SeesWidget("error")
        \/ ok /\ (SeesWidget("agreement") \/ UNCHANGED call)
    BY DEF FetchPage, ShowFetched
  <2>3. call' \in Pages /\ (call' = "error" => failed')
    BY <2>1, <2>2, SeenOK DEF FetchInv
  <2> QED BY <2>1, <2>3 DEF FetchInv, widgetVars
<1>14. CASE \E content \in {"text", "agreement"} : FetchText(content)
  <2>1. UNCHANGED <<widgetVars, pageVars>> /\ (SeesWidget("text") \/ SeesWidget("agreement"))
    BY <1>14 DEF FetchText, ShowFetched
  <2> QED BY <2>1, SeenOK DEF widgetVars, pageVars
<1> QED BY <1>1, <1>2, <1>3, <1>4, <1>5, <1>6, <1>7, <1>8, <1>9, <1>10, <1>11, <1>12, <1>13, <1>14
    DEF ProcessNext

\* The error page is shown after a failure only, not for a load that was aborted.
THEOREM ErrorsAreExplained == ProcessSpec => []ErrorExplained
<1>1. ErrorInv => ErrorExplained
  BY DEF ErrorInv, ErrorExplained
<1>2. ErrorInv /\ FetchInv /\ [ProcessNext]_processVars => ErrorInv' /\ FetchInv'
  BY ErrorNext, FetchNext
<1> QED BY ErrorInit, <1>1, <1>2, PTL DEF ProcessSpec
=============================================================================
