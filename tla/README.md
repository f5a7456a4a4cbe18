# TLA+ models of QtLoginLauncher

QtLoginLauncher replaces the login part of an old game SDK. A game links the
SDK; the SDK launches a separate process, `sdologin`, that shows the login
dialog; both talk over a named pipe; the dialog authenticates against a server
through a vendored library (`libLoginClient`, the "SdoBase" functions). This
directory holds TLA+ modules of the parts where threads, processes and
callbacks meet, the TLC runs that check them, and proofs checked by TLAPS.

All paths below are relative to the repository; line numbers are in
`PROJECT.json` (`map`).

## 1. The system

### Components and how they interact

| Component | State | Operations | Interacts with |
|---|---|---|---|
| Login core, `SdkRuntime` (`src/sdk/sdk_runtime.cpp`) | one object behind one mutex: initialized flag, slot of the active process, its request id, ticket and sndaid, owner window, login mode | `initialize`, `terminal`, `showLoginDialog`, `closeLoginDialog`, `logout`, `recordLoginResult`, `getTicket`, setters | called from any application thread; launches `sdologin`; calls the application back |
| Pipe (`src/ipc/named_pipe.cpp`) | one server pipe per request | listen, connect, send, receive, wait for the end of the peer | core and `sdologin` |
| `sdologin` process (`src/sdologin/main.cpp`) | protocol position, owner window, result | connect, Hello, HelloAck, ShowLogin, result, exit; owner monitor every 200 ms | pipe; login window |
| SDOA adapter (`src/sdk/sdoa_app_adapter.cpp`) | login state, callback of the application, one global that routes the core's callback | `ShowLoginDialog`, `Logout`, `LoginDirect`, `GetTicket`, igw entry points | core, application |
| One-click login (`push_message_login_panel.cpp`, `sdo_base_push_message_auth.cpp`) | panel flags and timers; completions and a flag of the authenticator | click, countdown, poll, hide, show; library callbacks | UI thread and library worker, joined by the event queue |
| QR login (`code_key_login_panel.cpp`, `sdo_base_code_key_auth.cpp`) | the same shape plus a code image and refresh | activate, deactivate, refresh, poll | same library |
| Password login (`sdo_base_password_auth.cpp`, part of `login_window.cpp`) | one pending request, one completion, two events and two results of the configuration fetches | two fetches, submit, dynamic key, static login | same library; the fetches run inside the constructor of the window |
| SdoBase library (`third_party/sdologinclient/libLoginClient`) | one request slot, one worker thread | request, cancel, callback | all authenticators |
| Login window (`login_window.cpp`, `protocol_acceptance_model.cpp`) | current page, protocol checkbox, cover, one-shot flags, completion | tabs, results of pages, close, checkbox, start and end of the browser process | panels, browser process, `userinfo.xml` |
| Account history field (`account_history_combo.cpp`) | accounts, rows of the popup, pressed row, pending refresh, queued deletions | toggle, press, release, delete, refresh | login window |
| Configuration and history (`config_manager.cpp`) | `userinfo.xml` | load, save, record, remove, set a node | several `sdologin` processes through one file |
| Protocol browser (`qtlogin_browser/main.cpp`, `protocol_browser_dialog.cpp`, `cef_offscreen_browser.cpp`) | modal dialog with a delayed button; a widget; the browser client on CEF's thread; one callback per browser in the renderer | answer, close, loads, links, pop-ups, messages, fetch of the text | started by the login window; answers with its exit code |
| DirectX adapter (`directx_compat_adapter.cpp`) and sample (`samples/dx_login_demo`) | the owner window's procedure; the sample's lock, threads and loaded library | hook, unhook; load, log in, call, close, unload | core |
| Widgets, update entry, logging, encodings | see `PROJECT.json` | | |

### What is hard here

- **The slot of the active process.** Four pieces of code take the process
  handle out of one slot, from any thread, and stop it after releasing the
  mutex. A handle may be closed twice or leaked, a process left running.
- **The relaunch.** A dead login process is relaunched once. The decision of the
  user may already be in the pipe when the process dies or is killed.
- **No timeouts on the pipe.** The call of the game returns only because the
  end of a process breaks its pipe, and because `sdologin` watches its owner.
- **One adapter for all threads.** Route and callback are shared by every login.
- **Two threads below each panel.** The library answers on its worker thread, the
  panel hears of it through the event queue, and clicks, timers and tab changes
  get in between. The library holds a single request and turns others away.
- **A cache filled from many places**: login, direct login, logout, terminal.
- **A file without a lock.** Several login windows read, change and rewrite
  `userinfo.xml`; writing empties it first, and a process may end in between.
- **Waits inside a constructor.** The window waits, with a timeout, for events
  that the library's worker sets, and a late answer finds the object in other use.
- **Three threads and two processes around one agreement.** The dialog may go while
  CEF's thread is about to call its widget; loads are aborted and report late.
- **A library that is unloaded.** The sample closes its window, stops a login on
  another thread, and unloads the SDK whose procedure sits on that window.

`hazards` in `PROJECT.json` lists each with its line and the properties that
watch it; those without a property say why.

## 2. The modules

| Module | Role |
|---|---|
| `SdkRuntime` | login core, pipes and login processes composed; one action per critical section |
| `LoginService` | abstract specification: what the core promises an application |
| `SdoaAdapter` | the adapter, on top of `LoginService` |
| `SdoBaseClient` | the library, as an authenticator sees it: slot, answer, cancel |
| `PushMessageLogin` | one-click login: panel, event queue, authenticator, over `SdoBaseClient` |
| `CodeKeyLogin` | QR login: panel, event queue, authenticator, over `SdoBaseClient` |
| `PasswordLogin` | password login and the configuration fetches, over `SdoBaseClient` |
| `AccountHistoryCombo` | the account field with its popup |
| `LoginWindow` | the window: pages, checkbox, browser process; extends `AccountHistoryCombo` |
| `AccountStore` | abstract specification: the account history as one atomic store |
| `UserInfoStore` | `userinfo.xml` and the processes that use it; implements `AccountStore` |
| `ProtocolBrowser` | one browser process: dialog, CEF thread, renderer, and the build without CEF |
| `DxLoginDemo` | the DirectX sample as a client of the SDK, and the SDK's window procedure |
| `SdkRuntimeProofs` | proofs about `SdkRuntime`, with its refinement of `LoginService` |
| `LoginWindowProofs` | proofs about `LoginWindow` and about the process it starts, `ProtocolBrowser` |
| `SdoaAdapterProofs`, `PushMessageLoginProofs`, `CodeKeyLoginProofs`, `PasswordLoginProofs`, `UserInfoStoreProofs`, `DxLoginDemoProofs` | proofs about those components |
| `MC*` | instances for TLC |

`AccountStore` and `LoginService` are each used twice: as what a detailed module
implements, and `LoginService` also as what the adapter stands on.

### SdkRuntime

Variables carry the members of `SdkRuntime` and the locals of
`showLoginDialog`; `pc[t]` names the point between two critical sections where
thread `t` is. One request id is drawn per launched process, so process, pipe
and duplicated handle are indexed by request.

| Actions | Code |
|---|---|
| `ShowLoginDialog`, `Launch`, `DuplicateFails`, `Install`, `StopPrevious`, `Listen`, `Accept`, `ListenFails`, `ReceiveHello`, `SendHelloAck`, `SendShowLogin`, `HandshakeFails`, `StopFailed`, `ReceiveResult`, `ClearActive`, `Record`, `Callback`, `GiveUp` | `showLoginDialog`, in order |
| `Initialize`, `Terminal`, `CloseLoginDialog`, `StopTaken`, `Logout`, `RecordLoginResult`, `SetOwnerWindow`, `MarkDirectXOwnerWindow`, `SetLoginMode` | the other entry points |
| `Connect`, `ConnectFails`, `SendHello`, `ReceiveAck`, `ReceiveShowLogin`, `UserDecides`, `OwnerMonitor`, `Exit`, `Crash` | `sdologin` |
| `DestroyWindow` | the game |

`handle[r]` runs none, open, closed, closedTwice: the last is what a double
`CloseHandle` would be. `decided[r]` records the user's decision; `returned` and
`callbacks` record what the application got.

Abstractions: the end of `listen` by timeout is atomic with respect to a process
that is connecting; a real login never delivers an empty ticket or sndaid; the
bytes of frames and JSON are not modelled (a message is its type);
`modifyAppInfo` and `setLoginDialogPos` only pass values on; the test switches
of `sdologin` are left out; `LoginError` and unknown result types do not occur,
because `sdologin` never sends them. `QTLOGIN_DISABLE_LOGIN_PROCESS_RELAUNCH`
is `MaxAttempts = 1`.

### SdoaAdapter

The core is the abstract service (`INSTANCE LoginService`), which is legitimate
because `ImplementsLoginService` is checked and proved of `SdkRuntime`. A thread
goes through `ShowLoginDialog`, `Route`, `CallRuntime`, the service's own steps,
`Thunk`, `Handle`, `Deliver`, `ReturnFromRuntime`, `Unroute`, `Finish`; `Logout`
and `LoginDirect` are two steps each, as each takes the core's lock and then the
adapter's. A null application callback, the window tables, the role names and
the task timers are left out.

### SdoBaseClient and PushMessageLogin

`SdoBaseClient` has no `Init`/`Next` of its own; the modules above it use its
actions `Take`, `TurnedAway`, `Respond`, `Cancel`, `Answered`. They follow
`CurlHttpThread.cpp`, the transport that `LoginClient` creates; the `HttpThread.cpp` beside
it is no longer used. The library is idle before the callback of its last request
runs. `Cancel` only interrupts a transfer: the answer still comes, as a failure or from
another host, so it changes no variable here. Testing and setting the busy state in
`ProcessRequest` is one step; in the code it is not locked (listed as a hazard).

`PushMessageLogin` holds the panel's flags and timers, the event queue
(`results`), and the authenticator's two completions and its
`sendPushIssuedAfterCancel_`. `keyCalls > 0` means that the UI thread is inside
`callWithBusyRetry`, so no event is handled. The callback of a cancelled push goes
through `HandleCancelPushMessage` (test of the flag), `MarkIssued` (set), `SendPushMessage`
and `PushRefused`, with `issuing` for where it is: the flag has no lock, and the click
(`StartLogin`) resets it between any two of them. `crossed` remembers a click that came
between the mark and the push. Timers and input may come before
events that are already queued, which allows more than Qt does. Data races on the
`std::function` completions are treated as atomic accesses. An invalid request
only shows a hint and is not an action. Second steps the server may ask for
(graphic check, real name, guardian) reach callbacks nobody registered; the history
variable `unheard` records that one did, and the properties that depend on it say so.

### CodeKeyLogin

The same shape, with the code as data: `picture` is the code whose picture the
panel holds, `codeKey` the code the library holds, `polled` the code in the latest
poll. They travel separately, which is what `PollsTheShownCode` is about. `qrCalls`
is the retry loop of `GetQrCode`, which runs on the worker thread inside the
callback of the dynamic key, so that the worker cannot serve anybody else
meanwhile; `keyCalls` is the one of `GetDynamicKey` on the UI thread.

| Actions | Code |
|---|---|
| `SelectTab`, `LeaveTab`, `Refresh`, `ToggleProtocol` | the user, through the tabs and the checkbox of `LoginWindow` and the buttons of the panel |
| `GetDynamicKey`, `HandleCodeImageResult`, `HandleLoginPollResult`, `PollOnce` | UI thread |
| `ServerAnswers`, `HandleDynamicKey`, `GetQrCode`, `HandleQrCode`, `HandleLoginResult` | worker thread |

A page that comes on top is activated twice (by its show event and by the tab);
the second time changes nothing, so it is one action. The interval between two
accepted refresh clicks is left out: any click may be accepted. The guid that a
dynamic key brings is not told apart from the code. The server approves only the
code whose picture the user has.

### PasswordLogin

`ui` is what the UI thread does next: the two fetches (`privacy`, `config`), each
with its wait, then the event loop, then the three steps of a submission. The
worker thread answers (`ServerAnswers`) and runs the callback of the dynamic key,
of the login and of the configurations.

| Actions | Code |
|---|---|
| `Fetch`, `WaitEnds`, `HandleConfig` | `fetchUserPrivacyConfig`, `fetchGuestClientConfig` and their callbacks |
| `EditAccount`, `EditPassword`, `Submit`, `SetCompletion`, `SetRequest`, `GetDynamicKey` | fields, button, Enter key of the virtual keyboard, `authenticate` |
| `HandleDynamicKey`, `HandleLoginResult`, `HandleResult` | worker; then the event on the UI thread |

`stored` is the result field the worker writes and the waiting thread reads;
`event` is set by whichever answer comes, which is why `FetchExplained` is not
obvious. The encryption of the password is a step that may fail. A second
submission by the Enter key replaces `pending` and `completion` between the steps
of the first; `overlapped` remembers it.

### AccountHistoryCombo and LoginWindow

Everything here runs on the UI thread; what interleaves are events. The popup
keeps a copy of the history (`items`), and a deletion runs from a timer
(`RunRemoval`), as does the refresh after it (`RefreshPopup`). `meant` is the account in the
row that was pressed; `wrong` becomes true if another one is chosen or deleted.

| Actions | Code |
|---|---|
| `TogglePopup`, `Press`, `ReleaseOnRow`, `ReleaseOnDelete`, `LetGo`, `RunRemoval`, `RefreshPopup` | `account_history_combo.cpp` |
| `SelectTab`, `QuickLogin`, `StartLogin`, `SmsLogin`, `LoginResult`, `CloseWindow` | pages; each completes by `Complete`, as does `closeEvent` |
| `ToggleBox`, `ClickProtocol`, `StartBrowser`, `BrowserEnds`, `Persist` | checkbox, link, `showProtocolDialog`, handlers of the browser process |

`browser.state = "opening"` is the nested event loop before the process starts,
which handles timers and results but no user input. While the browser is open a
widget keeps the mouse away and the keyboard is free: it reaches the tabs, the buttons,
the link and the box, so that only the popup, which has no keys, needs `MouseInput`; the rest
`UserInput`. Closing the window only posts the end of the event loop (`main.cpp:298-301`):
results of pages, the end of the browser, timers and another `close()` may still run,
and the model lets any number of them. Only the test of `completed_` in `Complete` keeps
them from answering again. What the authenticators of the pages do is in their own modules;
here a page that was started may give a result at any time.

### AccountStore and UserInfoStore

Every login window is a process. A handler (record, remove, accept, or the start
of the process) goes through `OpenForRead`/`CloseRead` (load, then read again),
`OpenForWrite`, `WriteText` and, after a removal, one more read of the history.
Windows refuses to open a file that is being written, and to write one that is being read (`MayRead`,
`MayWrite`); `ReadRefused`, `WriteRefused`, `WriteFails` and `End` (the process
ends at any step) are what can go wrong. Opening for writing empties the file.

A process that has read its configuration (`applyConfig`) is in the constructor of its
window (`fetch`) until the server answers (`ServerAnswers`) or does not (`ServerFails`). Only then is
it decided whether the policy is to be reviewed (`ReviewRequired`), from the version read before
(`saved`) and that of the server (`served`); a version of the service agreement that
came along is stored at once. `AcceptPolicy` stores the version the user has agreed to, if the
server gave one, and ends the review. `accepted` collects the versions of the policy
that were ever stored.

A text is whether it is a document at all, its accounts in order, and for each node (policy,
service agreement) the version accepted last: what the functions on the text tell apart. `Updated` follows
`recordUserAccount`, `removeUserAccount` and the setting of a node; a file that
cannot be read counts as the default text, or makes the handler give up.

`AccountStore` says what the file promises when one window at a time uses it:
each change happens at once and keeps the rest. `disturbed` marks the first
overlap or cut; nothing is promised after it, and the code promises nothing then.

### ProtocolBrowser

Three threads and one process: Qt's thread (`Tick`, `Answer`, `Destroy`, `Exit`,
`LoadUrl`, `HandlePosted`, `NativeReady`), CEF's UI thread (`OnAfterCreated`,
`LoadEnds`, `OnLoadError`, `OnBeforeBrowse`, `OnBeforePopup`, `OnPaint`,
`OnProcessMessage`), the renderer (`FrameContext`, `RegisterCallback`,
`PostMessage`, `ReceiveMessage`), and, in the build without CEF, the thread that fetches
(`FetchPage`, `FetchText`).

CEF's thread reads the bare pointer to the widget, and posts to it afterwards:
`call` holds the event of a callback that has seen the widget alive, and `Post` is
the second half, which crashes the process when the widget went in between. The
exit code is then not the one that means acceptance, which is why the crash is
harmless for `ConsentWaited`. `aborts` counts loads that were replaced and have not
reported yet. A message through the bridge is a count.

### DxLoginDemo

`pc["main"]` and `pc["login"]` are the two threads; a second login thread is
started only after the first was joined. `ensureSdkSession` is `Lock`, `Load`,
`SetReady` on either thread; the shutdown is `Stop`, `ReadPointer`, `CallTerminal`,
`Terminate`, `WaitForLogin`, `ReleaseSession`. Setting the title from the login
thread waits for the main thread to handle messages (`TitleIsSet`). `hook` is the
SDK's procedure on the owner window, `inHook` the main thread inside it.

## 3. The runs

| Run | Module | Checks | Distinct states |
|---|---|---|---|
| `safety` | `SdkRuntime` | `TypeOK`, `HandlesOwnedOnce`, `NoAbandonedProcess`, `DecisionNotDropped`, `AnswerIsTheUsers`, `PeerStaysConnected` | 4.9 million (symmetry) |
| `service` | `SdkRuntime` | `TicketFromLogin`, `SlotHandedOver`, `ImplementsLoginService`, `EveryCallReturns` | 730 thousand |
| `calls` | `SdoaAdapter` | `CallbackMatchesReturn`, `ConnectingExplained`, `NoDanglingCallback` | 201 thousand |
| `push` | `PushMessageLogin` | `TypeOK`, `OnePushPerClick`, `ApprovalNotLost`, `PollInFlightAnswered`, `ButtonComesBack` | 73 thousand |
| `code` | `CodeKeyLogin` | `TypeOK`, `NothingAwaitedInVain`, `WaitingCodeIsPolled`, `PollsTheShownCode`, `ApprovalCompletes`, `LoadingEnds` | 299 thousand |
| `password` | `PasswordLogin` | `FetchExplained`, `GrantedAccountRecorded`, `SubmissionAnswered` | 915 thousand |
| `window` | `LoginWindow` | `OneAnswer`, `CoveredByBrowser`, `ReviewIsAsked`, `ChoosesWhatWasPressed` | 7.3 million (symmetry) |
| `store` | `UserInfoStore` | `WholeTextRead`, `HistoryWellFormed`, `ReviewNotSkipped`, `ImplementsAccountStore` | 1.6 million (symmetry) |
| `browser` | `ProtocolBrowser` | `ConsentWaited`, `ErrorExplained`, `NoDeadContext` | 4.9 million |
| `demo` | `DxLoginDemo` | `NoCodeAfterUnload`, `ShutdownCompletes` | 3,628 |
| `accept` | `LoginWindow` | the divergence of section 5 | |

What the properties say, and why each is worth a run, is in the comment above
each of them. Every property has a mutant in `PROJECT.json`: a plausible bug of
the code under which TLC finds the property violated.

### Bounds

- `SdkRuntime`. `Threads`: two, the least that can contend for the slot; handles are
  taken by at most two parties at once because each taker empties the slot under
  the lock. `MaxLogins = 2` with `MaxAttempts = 2` in `safety`: two logins that
  overlap, each relaunched, four processes. `MaxRequests >= MaxLogins * MaxAttempts`
  is assumed, so ids never run out and the bound never hides a launch. `service`
  allows one login with its relaunch, a game window and a direct session: a second
  login can disturb the first only by stopping its process, which `terminal` and
  `closeLoginDialog` on the second thread do as well.
- `SdoaAdapter`: two threads that may both log in; any number of calls overlap only in pairs.
- `PushMessageLogin`: four clicks and two tab changes; six and three were tried
  without `ApprovalNotLost` and pass too. `CodeKeyLogin`: six moves of the user: open,
  refresh twice, leave, come back, and one more.
- `PasswordLogin`: three submissions of two accounts: a first, one that overlaps it, and
  one that comes after both; both fetches may time out.
- `LoginWindow`: two uses of the checkbox, two browser processes, one deletion, two
  policy versions (any of them, or none, saved and served), all pages allowed or none.
- `UserInfoStore`: two processes at a time, each replaced by a successor when it has
  ended; four handlers (the start of a process is one, the store of the service version
  is not counted), one fault. Two versions for each of the two nodes, three replies of the server.
  Three names, two of which differ in case only; a
  history of at most two, so that recording must cut; a file left with a name
  twice by an older version.
- `ProtocolBrowser`: a configured delay and one that is not (5 seconds); two links,
  one message, one posted event.
- `DxLoginDemo`: three logins, so that threads are joined and started again, and three other calls.

Queues and callbacks are bounded by these. Symmetry (threads in `safety`, processes
in `store`, policy versions in `window`) is used only where no liveness is checked.

### Deadlock

Deadlock is checked in every `SdkRuntime`, `SdoaAdapter` and `LoginWindow` run. The other runs
disable it, because the system may really stop: a completed login ends the panels, a
browser process and the sample exit, a configuration file is left alone when no window
is open. The sample can also really deadlock while its window is
open (section 6).

### Fairness

Nothing is assumed of the user, the application, the crashes, or the game's windows.

- `SdkRuntime`: weak fairness of each thread's own steps and of each login process,
  which is what the operating system's scheduler gives. `EveryCallReturns` states
  what it needs of the user as a premise: a dialog that somebody can answer is answered. A
  login embedded in a window that was destroyed returns without that.
- `PushMessageLogin`, `CodeKeyLogin`: weak fairness of each kind of event the UI loop
  delivers, of its timers, and of the library's worker, whose transfers have timeouts.
- `PasswordLogin`: weak fairness of the UI thread's steps (waits have timeouts) and of the worker.
- `DxLoginDemo`: weak fairness of the login thread, of each thread in
  `ensureSdkSession`, and of the shutdown; and, once the window is gone, of the answer
  of the login, because `sdologin` watches its owner (`EveryCallReturns`).

### Premises that are not decoration

- `ApprovalNotLost` and `ButtonComesBack` are stated for a panel that was never hidden:
  with one tab change the model loses an approval, and leaves the button disabled
  with a frozen countdown, because `hideEvent` forgets what is in flight and stops
  the timer and `showEvent` restarts nothing.
- `PollsTheShownCode`, `ApprovalCompletes` and `LoadingEnds` are stated for a QR page
  that was never left: the model violates each of them after one tab change.
- `CallbackMatchesReturn` is stated for logins that do not overlap: overlapping ones
  exchange their callbacks.
- `GrantedAccountRecorded` and `SubmissionAnswered` are stated for submissions that do
  not overlap: a second one by the keyboard replaces the request of the first.
- `ReviewIsAsked` excepts a box that was checked with the keyboard beneath an open browser.
- `OnePushPerClick` allows a second push if the click came between the mark and the push of an
  earlier click (`crossed`). That is a race the code has: the flag is reset without a lock. It takes a
  panel that was left and shown again, which the property states as well.
- `ReviewNotSkipped` needs the very version that the server gave to have been stored at some time,
  with two exceptions the code makes: a server that gives no version to a process that has
  none asks for no review, and without an answer any accepted version will do.
- `WholeTextRead` speaks of files whose writers were not cut off; `NoCodeAfterUnload` of an SDK that did not
  refuse to start (one that did leaves `g_igwTerminal` behind, and the shutdown calls it).

These gaps are real and are listed as hazards.

## 4. The proofs

All theorems hold for every value of the constants that satisfies the named
assumptions of their module.

| Module | Theorem | Property |
|---|---|---|
| `SdkRuntimeProofs` | `TypeCorrect` | `TypeOK` |
| | `HandlesSafe` | `HandlesOwnedOnce` |
| | `NoneAbandoned` | `NoAbandonedProcess` |
| | `DecisionsKept` | `DecisionNotDropped` |
| | `AnswersTrue` | `AnswerIsTheUsers` |
| | `PeersConnected` | `PeerStaysConnected` |
| | `TicketsTrue` | `TicketFromLogin` |
| | `SlotsHandedOver` | `SlotHandedOver` |
| | `LoginServiceImplemented` | `ImplementsLoginService` |
| `SdoaAdapterProofs` | `NothingDangles` | `NoDanglingCallback` |
| | `CallbackIsTheReturn` | `CallbackMatchesReturn` |
| | `ConnectingHasReason` | `ConnectingExplained` |
| `PushMessageLoginProofs` | `TypeCorrect` | `TypeOK` |
| | `OnePushForEachClick` | `OnePushPerClick` |
| | `PollIsAnswered` | `PollInFlightAnswered` |
| | `ApprovalIsKept` | `ApprovalNotLost` |
| `CodeKeyLoginProofs` | `TypeCorrect` | `TypeOK` |
| | `AwaitedIsUnderway` | `NothingAwaitedInVain` |
| | `ShownCodeIsPolled` | `WaitingCodeIsPolled` |
| | `ShownCodeIsPolledFor` | `PollsTheShownCode` |
| `PasswordLoginProofs` | `RecordedIsGranted` | `GrantedAccountRecorded` |
| | `FetchesExplained` | `FetchExplained` |
| `LoginWindowProofs` | `AnsweredOnce` | `OneAnswer` |
| | `UncoveredInTheEnd` | `CoveredByBrowser` |
| | `ReviewAsked` | `ReviewIsAsked` |
| | `PressedIsChosen` | `ChoosesWhatWasPressed` |
| | `ConsentTakesTime` | `ConsentWaited` |
| | `CallbackLives` | `NoDeadContext` |
| | `ErrorsAreExplained` | `ErrorExplained` |
| `UserInfoStoreProofs` | `ReviewIsNotSkipped` | `ReviewNotSkipped` |
| | `WholeTextIsRead` | `WholeTextRead` |
| | `HistoryIsWellFormed` | `HistoryWellFormed` |
| | `AccountStoreImplemented` | `ImplementsAccountStore` |
| | `ParsedOK`, `WithoutOK`, `NewestOK`, `RemovedOK` | what the operators on a history return, for every list |
| `DxLoginDemoProofs` | `UnloadIsSafe` | `NoCodeAfterUnload` |

None of the properties is inductive alone, except `NoDeadContext`; each of the others
has an invariant that is.

**SdkRuntime.** That a handle is closed once depends on what each thread holds at
each point, that a decision is not dropped depends on where the message is. `IInv`
is the conjunction of

- `TypeInv`: `TypeOK`, and attempts stay below `MaxAttempts` while one runs;
- `HandleInv`: which stages hold a handle, request ids of threads are distinct
  and below `nextRequestId`, an unused id has no process, handle or pipe;
- `ProtocolInv`: for each request, the position of the process in the handshake
  agrees with that of its thread, and with what the two queues contain;
- `Watched`: a running process that has not answered is held by somebody;
- `Answered`: what a thread received is what the user decided, and the message
  is in the queue, in `received`, or consumed;
- `TicketOK`: a string in the cache comes from a login that succeeded.

Each conjunct is preserved by every action (one lemma per group of actions), and
`IInv` implies the six invariants. `SlotHandedOver` and the refinement are proved
step by step under `IInv`; the refinement maps the stages of a thread to the
phases of the service (`PhaseOf`), and every step that is not one of the
service's is shown to stutter.

**SdoaAdapter.** `BaseInv`: types, the phase of the service that goes with each
stage of a call (`CallOf`), and who may own the shared route and callback
(`SharedInv`). For a call that nothing overlaps, `AloneInv` adds what it has delivered so far
(`Progress`), what its return code will be (`Matches`), and why the state may still
be CONNECTING (`Explains`).

**PushMessageLogin.** The hard question is who still owes the panel an answer when
clicks, tab changes and late results overlap. `PollInFlightAnswered` is inductive once
`TypeInv` says which answer a request can have; its proof shows that only four
actions do anything to a poll (`OthersAlone`), and that one that is turned away leaves its
result in the queue. `OnePushPerClick` needs `PushInv`, which counts what may still be sent
for a click, the push the worker thread is about to send included: one more only where
nothing is marked, or where the click has crossed a mark. That such a click needs a panel
that was left comes from `SendInv`. For `ApprovalNotLost` the panel was never left, and then one thing is under way
at a time: `SendInv` says that the requests of a click follow one another and that
the last result of them is the last in the queue, `PollInv` that a poll runs only
when they have ended. The two are one induction: each needs the other.

**CodeKeyLogin.** `codes` grows on the worker thread, so that its type needs
`CountInv`: a move of the user starts one flow at most, a flow is in one place at a
time, and codes and flows together are never more than moves. On top of it
`NothingAwaitedInVain` is inductive, and `WaitingCodeIsPolled` with it, over any number
of tab changes; a flow that was left and is still running is what makes them hard. `PollsTheShownCode` rests on
`FlowInv` (a page that was never left waits for the one flow there is) and
`ShownInv` (the picture in the queue shows the code the library has, and while
both differ nothing polls).

**PasswordLogin.** The flow of one submission is in exactly one of six places
(`Stage`: nowhere, at the completion, at the request, at the key, in the
library, answered), and at each the account in the window, in the authenticator and
on its way agree. `ConfigInv` does the same for the fetches: which request the
library may hold while each of them waits.

**LoginWindow.** `BrowserInv` (cover, flags and browser go together), `AnswerInv`
(the window is completed if and only if it is closed, and has then answered once, which `CompleteAnswers` shows
of every way to complete it, late ones included), `ReviewInv` (why a checked box may be
checked), `ComboInv` (the pressed row still holds the pressed account).

**UserInfoStore.** `TypeInv` and `OpenInv` (who has the file open), then `ReviewInv`
(the version in every text, in the file, on its way or saved in a process, is one that was
accepted, and a process that skips its review has one that the rule allows) and
`WholeInv` (a base that was read is a document as long as no writer was cut off).

`HistoryWellFormed` and the refinement depend on what the loops over a history compute,
for lists of any length. Without an induction theorem that the provers can use, it
is shown from a well-founded order: `SetInduction` applies `WFMin` to the
intervals `0 .. n` ordered by inclusion, and gives induction for the members of a set;
`RecursionExists` then shows that the function a loop defines exists, which is what
lets its definition be unfolded (`ParsedSteps`, `WithoutSteps`). From there `ParsedOK`,
`WithoutOK`, `NewestOK` and `RemovedOK` are inductions over the position in the list.
For the refinement, `AloneInv` says what a process has read, and how its copy
relates to the file, as long as no two overlap and no writer was cut off; emptying
the file is then invisible (the store keeps what the writer has read), and writing
it is the change.

**ProtocolBrowser.** The seconds that remain and those that have elapsed add up to at least
the delay; the callback is among the live contexts; an error is on the screen or
posted only after a failure.

**DxLoginDemo.** Which thread holds the lock at which step, in which steps a session
exists, and how far the shutdown has come: a thread is in the SDK only in a
session, and the session is released only after the join.

Every invariant, the one action property and both refinements that a passing run
checks are proved. Only model-checked are the liveness properties: `EveryCallReturns`,
`ButtonComesBack`, `ApprovalCompletes`, `LoadingEnds`, `SubmissionAnswered` and
`ShutdownCompletes`, since fairness and ENABLED are beyond the prover.

## 5. Where code and document disagree

| Run | Code | Document |
|---|---|---|
| `accept` | a policy that the user accepts while the server gave no version counts as declined: the box is unchecked (`login_window.cpp:1304`) | `docs/protocol_initial_acceptance_20260517.md:28` |

## 6. Known gaps

The modules also state what documents promise and the code does not do. No run
lists these; put into a configuration, TLC refutes each of them.

| Property | Code | Document |
|---|---|---|
| `SdoaAdapter!TicketAfterDirectLogin` | `LoginDirect` records no sndaid, without which `GetTicket` refuses | `docs/sdoa4client_dx_demo_20260518.md:66` |
| `PushMessageLogin!CheckGivesHint` | a push answered by a graphic check calls a callback nobody registered; the panel waits forever without the promised hint | `docs/push_message_login_rewrite_20260518.md:62` |
| `CodeKeyLogin!CodeFetchedOnActivation` | a QR page that was left while it loaded comes back at "loading" and fetches no code | `docs/code_key_login_rewrite_20260518.md:45` |
| `PushMessageLogin!SubmittedAccountRecorded` | the account recorded after a one-click login is what the field shows then, not what was submitted | `docs/account_history_combo_20260518.md:66` |

Others that the models show:

- **A login survives `igwTerminal`.** `showLoginDialog` looks at the initialized flag once, before
  its first attempt. `terminal` in the middle of a login stops the process, which counts as
  a failed attempt, and a second dialog is launched. No document says what should happen; in the sample
  the owner window is gone by then, so that this dialog closes by itself (`ShutdownCompletes`).
- **Two pushes for one click**, as described with the premises in section 3.
- **The sample can stop for good.** `ensureSdkSession` sets the title while it holds
  `g_sdkMutex` (`dx_login_demo/main.cpp:402`). A login thread there waits for the main
  thread to handle messages; if the main thread waits for the same lock, neither goes on. `ShutdownCompletes`
  holds because the window cannot be closed in that state.
- **A refused start leaves a pointer.** `g_igwTerminal` stays set when the SDK refuses to
  initialize and the library is freed; the shutdown calls it.
- **The hook is one global.** With two owner windows a message that is in the procedure of
  one while the other is hooked goes to the default procedure. `DxLoginDemo` has one window.
- **Overlapping windows lose changes.** Two login windows that record at the same time
  leave the account of one: `disturbed` in `AccountStore` is where the promise ends.
- **The release of any frame drops the callback of the page** in the browser's bridge:
  messages are lost, never misdelivered.

## 7. Not modelled, and why

- **Frames, JSON, strings, logging**: pure functions over bytes, with unit tests; a
  message is its type in every module.
- **The character level of the XML scanner** in `config_manager.cpp`, and the two
  configuration files that are only read.
- **Containers of `SdoaAdapter`** (windows, widgets, role names, stored values): one
  map behind one lock, read back as it was written.
- **Layout, skins, scaling, painting, the virtual keyboard** (its Enter key is in
  `PasswordLogin`), the gallery of legacy dialogs, embedding.
- **CEF's input forwarding, cookie cache and painting.**
- **Cryptography and HTTP**: reached only through their outcomes.
- **Update entry and helper**: stubs without behaviour.
- **The other two samples**: they call the SDK in sequence, or from a detached thread and
  never unload it.

What would come next: the invariants that the liveness properties rest on, proved;
several owner windows with their procedures; the pages of `LoginWindow` composed
with their authenticators.
