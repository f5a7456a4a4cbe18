-------------------------- MODULE ProtocolBrowser --------------------------
(***************************************************************************)
(* One qtlogin_browser process (src/src/qtlogin_browser/main.cpp): a modal *)
(* dialog with the agreement and the button that accepts it, whose answer  *)
(* is the exit code that the login window reads.                           *)
(*                                                                         *)
(* Three threads take part.  Qt's runs the dialog and owns the widget.     *)
(* CEF's UI thread calls the client, which reads a bare pointer to the     *)
(* widget and posts to it; the widget may go in between.  The page runs in *)
(* a renderer process, which keeps one callback per browser for messages.  *)
(* A build without CEF has a thread that fetches the text instead.         *)
(***************************************************************************)
EXTENDS Integers, Sequences

CONSTANTS
  Configured,   \* values of the configured delay, in seconds
  MaxLinks,     \* bound: how often a page is left by a link or a script
  MaxMessages,  \* bound: messages of the page
  MaxPosted     \* bound: events that wait for the widget

ASSUME BrowserAssumption ==
  Configured \subseteq Int /\ {MaxLinks, MaxMessages, MaxPosted} \subseteq Nat

Purposes == {"review", "link", "prewarm"}
Contexts == {"main", "frame"}   \* script contexts of the page: the page and a frame in it
NoExit == -1   \* still running
Crash == -2    \* ended otherwise than by main()

VARIABLES
  build,       \* "cef" or "text"
  purpose,     \* what the login window started the process for
  configured,  \* the delay in its configuration
  url,         \* "http", or "other": about:blank and the like
  dialog,      \* "shown", "closed" when exec() has returned, "gone" when destroyed
  accepted,    \* the dialog's result is QDialog::Accepted
  remaining,   \* seconds until the button is enabled
  exit,        \* the exit code
  \* the widget
  held,        \* browser_: "none", "main" or "popup"
  posted,      \* events queued for the widget, or for the text browser
  image,       \* what the user sees
  \* CEF's UI thread, or the thread that fetches
  cef,         \* "off", "idle", "creating", "created", "closed"; "fetching", "fetchingText"
  call,        \* the event of the callback that has seen the widget alive, if any
  shown,       \* what the main frame shows
  loading,     \* what it loads
  aborts,      \* loads that were replaced by another and not yet reported
  \* the renderer
  live,        \* contexts that exist
  callback,    \* the context of the entry in g_bridgeCallbacks
  toNative, toWeb,   \* messages on their way
  \* history
  elapsed,     \* seconds the dialog was shown
  failed,      \* a load or a fetch has failed
  links, messages

dialogVars == <<build, purpose, configured, url, dialog, accepted, remaining, exit, elapsed>>
widgetVars == <<held, posted, image>>
pageVars   == <<shown, loading, aborts, failed>>
bridgeVars == <<live, callback, toNative, toWeb, messages>>
processVars == <<dialogVars, widgetVars, cef, call, pageVars, bridgeVars, links>>

-----------------------------------------------------------------------------
(* The command line and the constructor of the dialog                      *)

\* normalizedProtocolAgreeDelaySeconds
Normalized(seconds) == IF seconds > 0 THEN seconds ELSE 5

\* applyConfig of sdologin normalizes the delay; only the review passes it on, and
\* buildProtocolBrowserArguments and parseOptions keep what is positive.
AgreeDelay == IF purpose = "review" THEN Normalized(configured) ELSE 0

ProcessInit ==
  /\ build \in {"cef", "text"}
  /\ purpose \in Purposes
  /\ configured \in Configured
  /\ url \in {"http", "other"}
  /\ dialog = "shown"
  /\ accepted = FALSE
  /\ remaining = AgreeDelay
  /\ exit = IF purpose = "prewarm" THEN 0 ELSE NoExit
  /\ held = "none"
  /\ posted = <<>>
  /\ image = IF build = "text" /\ url = "other" THEN "unsupported" ELSE "loading"
  /\ cef \in IF build = "cef" THEN {"off", "idle"}
             ELSE IF url = "http" THEN {"fetching"} ELSE {"off"}
  /\ call = "none"
  /\ shown = "none" /\ loading = "none" /\ aborts = 0 /\ failed = FALSE
  /\ live = {} /\ callback = "none" /\ toNative = 0 /\ toWeb = 0
  /\ elapsed = 0 /\ links = 0 /\ messages = 0

Runs == exit = NoExit

-----------------------------------------------------------------------------
(* The dialog                                                              *)

\* The timer of the button, once a second.
Tick ==
  /\ Runs /\ dialog = "shown"
  /\ remaining > 0
  /\ remaining' = remaining - 1
  /\ elapsed' = elapsed + 1
  /\ UNCHANGED <<build, purpose, configured, url, dialog, accepted, exit, widgetVars, cef, call,
                 pageVars, bridgeVars, links>>

\* Mutant: the button is only labelled, not disabled.
AlwaysEnabled == dialog = "shown"

AgreeEnabled == dialog = "shown" /\ remaining <= 0

\* The button; or the close button and the Escape key, which reject.
Answer(agree) ==
  /\ Runs
  /\ IF agree THEN AgreeEnabled ELSE dialog = "shown"
  /\ accepted' = agree
  /\ dialog' = "closed"
  /\ UNCHANGED <<build, purpose, configured, url, remaining, exit, elapsed, widgetVars, cef, call,
                 pageVars, bridgeVars, links>>

\* main() leaves the block of the dialog: the widget detaches the client and closes
\* the browser it holds; Qt drops what is queued for the widget.
Destroy ==
  /\ Runs /\ dialog = "closed"
  /\ dialog' = "gone"
  /\ posted' = <<>>
  /\ cef' = IF held = "main" THEN "closed" ELSE cef
  /\ held' = "none"
  /\ UNCHANGED <<build, purpose, configured, url, accepted, remaining, exit, elapsed, image, call,
                 pageVars, bridgeVars, links>>

Exit ==
  /\ Runs /\ dialog = "gone"
  /\ exit' = IF accepted THEN 0 ELSE 10
  /\ UNCHANGED <<build, purpose, configured, url, dialog, accepted, remaining, elapsed, widgetVars,
                 cef, call, pageVars, bridgeVars, links>>

-----------------------------------------------------------------------------
(* Posting to the widget from another thread: the pointer is read, and     *)
(* used in a later step.                                                   *)

\* if (widget_), or the test of the QPointer: an attached client means a live widget.
SeesWidget(event) == call' = IF dialog # "gone" THEN event ELSE "none"

\* invokeMethod on it.  On a widget that is gone anything may happen: nothing, or
\* the end of the process.
Post ==
  /\ Runs /\ call # "none"
  /\ call' = "none"
  /\ IF dialog # "gone"
     THEN posted' = Append(posted, call) /\ UNCHANGED exit
     ELSE UNCHANGED posted /\ exit' \in {exit, Crash}
  /\ UNCHANGED <<build, purpose, configured, url, dialog, accepted, remaining, elapsed, held, image,
                 cef, pageVars, bridgeVars, links>>

-----------------------------------------------------------------------------
(* CEF's UI thread                                                         *)

\* multi_threaded_message_loop: one thread, one callback at a time.
CefIdle == Runs /\ call = "none"
CefRuns == CefIdle /\ cef \in {"created", "closed"} /\ build = "cef"

\* LoadURL of the main frame; a load under way is aborted.
StartLoad(content) ==
  /\ loading' = content
  /\ aborts' = IF loading # "none" THEN aborts + 1 ELSE aborts

\* createBrowserIfNeeded: CreateBrowser is posted with about:blank, unless CEF could
\* not be initialized.
CreateBrowser == cef = "idle" /\ cef' = "creating" /\ loading' = "blank"

\* The timer that calls loadUrl.
LoadUrl ==
  /\ Runs /\ dialog = "shown"
  /\ CreateBrowser
  /\ UNCHANGED <<dialogVars, widgetVars, call, shown, aborts, failed, bridgeVars, links>>

OnAfterCreated ==
  /\ CefIdle /\ cef = "creating"
  /\ cef' = "created"
  /\ StartLoad("agreement")
  /\ SeesWidget("main")
  /\ UNCHANGED <<dialogVars, widgetVars, shown, failed, bridgeVars, links>>

\* Mutant: only the page itself takes its callback with it.
ErasedByMain(gone) == IF "main" \in gone THEN "none" ELSE callback

\* OnContextReleased erases the callback of the browser, whichever context goes.
CallbackAfter(gone) == IF gone # {} THEN "none" ELSE callback

\* The page is shown: the contexts of the one before are released, and one is created.
LoadEnds ==
  /\ CefIdle /\ loading # "none" /\ cef \in {"creating", "created"}
  /\ shown' = loading
  /\ loading' = "none"
  /\ callback' = CallbackAfter(live)
  /\ live' = {"main"}
  /\ UNCHANGED <<dialogVars, widgetVars, cef, call, aborts, failed, toNative, toWeb, messages, links>>

\* Mutant: every error is shown.
ShowsAny(aborted) == TRUE

\* shouldShowProtocolLoadError
ShowsError(aborted) == ~aborted

\* OnLoadError of the main frame, for a load that failed or for one that was replaced
\* or stopped.
OnLoadError(aborted) ==
  /\ CefRuns
  /\ IF aborted
     THEN aborts > 0 /\ UNCHANGED failed
     ELSE loading \in {"agreement", "other"} /\ failed' = TRUE
  /\ IF ShowsError(aborted)
     THEN loading' = "error"
     ELSE UNCHANGED loading
  /\ aborts' = IF aborted THEN aborts - 1 ELSE aborts
  /\ UNCHANGED <<dialogVars, widgetVars, cef, call, shown, bridgeVars, links>>

\* protocolExternalLinkTarget for a link of the agreement: a fragment or a script has
\* none, and a relative link is resolved against the agreement's address.
LinkKinds == {"absolute", "relative", "agreement", "script"}
ExternalTarget(kind) ==
  CASE kind = "script"   -> "none"
    [] kind = "absolute" -> "outside"
    [] kind = "relative" -> IF url = "http" THEN "outside" ELSE "none"
    [] OTHER             -> IF url = "http" THEN "agreement" ELSE "none"

\* OnBeforeBrowse: the user's links to other pages are opened outside and stopped here;
\* a script's go on.
OnBeforeBrowse(kind, gesture) ==
  /\ CefRuns /\ shown # "none"
  /\ links < MaxLinks
  /\ links' = links + 1
  /\ IF gesture /\ ExternalTarget(kind) = "outside"
     THEN aborts' = aborts + 1 /\ UNCHANGED loading
     ELSE StartLoad(IF kind = "agreement" THEN "agreement" ELSE "other")
  /\ UNCHANGED <<dialogVars, widgetVars, cef, call, shown, failed, bridgeVars>>

\* OnBeforePopup: one that is not opened outside becomes a browser with the same
\* client, whose OnAfterCreated hands it to the widget.
OnBeforePopup(kind, gesture) ==
  /\ CefRuns /\ shown # "none"
  /\ links < MaxLinks
  /\ links' = links + 1
  /\ IF gesture /\ ExternalTarget(kind) # "none" THEN UNCHANGED call ELSE SeesWidget("popup")
  /\ UNCHANGED <<dialogVars, widgetVars, cef, pageVars, bridgeVars>>

OnPaint ==
  /\ CefRuns /\ shown # "none"
  /\ Len(posted) < MaxPosted
  /\ SeesWidget(shown)
  /\ UNCHANGED <<dialogVars, widgetVars, cef, pageVars, bridgeVars, links>>

\* A message of the page reaches the client.
OnProcessMessage ==
  /\ CefRuns /\ toNative > 0
  /\ toNative' = toNative - 1
  /\ SeesWidget("message")
  /\ UNCHANGED <<dialogVars, widgetVars, cef, pageVars, live, callback, toWeb, messages, links>>

-----------------------------------------------------------------------------
(* The widget, on Qt's thread                                              *)

\* sendMessageToWeb, dropped while the widget holds no browser
Sent == IF held = "main" THEN toWeb + 1 ELSE toWeb

\* The next queued event: setBrowser, a message that is acknowledged, or an image or
\* a text to show.
HandlePosted ==
  /\ Runs /\ dialog = "shown" /\ posted # <<>>
  /\ posted' = Tail(posted)
  /\ held' = IF Head(posted) \in {"main", "popup"} THEN Head(posted) ELSE held
  /\ toWeb' = IF Head(posted) = "message" THEN Sent ELSE toWeb
  /\ image' = IF Head(posted) \in {"main", "popup", "message"} THEN image ELSE Head(posted)
  /\ UNCHANGED <<dialogVars, cef, call, pageVars, live, callback, toNative, messages, links>>

\* The timer after 800 ms; messages counts it.
NativeReady ==
  /\ Runs /\ dialog = "shown" /\ build = "cef"
  /\ messages < MaxMessages
  /\ messages' = messages + 1
  /\ toWeb' = Sent
  /\ UNCHANGED <<dialogVars, widgetVars, cef, call, pageVars, live, callback, toNative, links>>

-----------------------------------------------------------------------------
(* The renderer                                                            *)

Renders == Runs /\ cef = "created" /\ live # {}

\* OnContextCreated and OnContextReleased of a frame in the page
FrameContext ==
  /\ Renders
  /\ IF "frame" \in live
     THEN live' = live \ {"frame"} /\ callback' = CallbackAfter({"frame"})
     ELSE live' = live \cup {"frame"} /\ UNCHANGED callback
  /\ UNCHANGED <<dialogVars, widgetVars, cef, call, pageVars, toNative, toWeb, messages, links>>

\* qtlogin.onMessage
RegisterCallback(c) ==
  /\ Renders /\ c \in live
  /\ callback' = c
  /\ UNCHANGED <<dialogVars, widgetVars, cef, call, pageVars, live, toNative, toWeb, messages, links>>

\* qtlogin.postMessage
PostMessage ==
  /\ Renders
  /\ messages < MaxMessages
  /\ messages' = messages + 1
  /\ toNative' = toNative + 1
  /\ UNCHANGED <<dialogVars, widgetVars, cef, call, pageVars, live, callback, toWeb, links>>

\* A message for the page: its callback is called, or the message dropped.
ReceiveMessage ==
  /\ Renders /\ toWeb > 0
  /\ toWeb' = toWeb - 1
  /\ UNCHANGED <<dialogVars, widgetVars, cef, call, pageVars, live, callback, toNative, messages, links>>

-----------------------------------------------------------------------------
(* The build without CEF                                                   *)

\* The thread ends with what it posts to the text browser.
ShowFetched(content) == cef' = "off" /\ SeesWidget(content)

\* fetchProtocolHtml: all but a complete answer is an error.  The text of some pages
\* is elsewhere.
FetchPage(ok) ==
  /\ CefIdle /\ cef = "fetching"
  /\ failed' = ~ok
  /\ \/ ~ok /\ ShowFetched("error")
     \/ ok /\ ShowFetched("agreement")
     \/ ok /\ cef' = "fetchingText" /\ UNCHANGED call
  /\ UNCHANGED <<dialogVars, widgetVars, shown, loading, aborts, bridgeVars, links>>

\* The second fetch: if it fails or holds no text, the page itself is shown.
FetchText(content) ==
  /\ CefIdle /\ cef = "fetchingText"
  /\ ShowFetched(content)
  /\ UNCHANGED <<dialogVars, widgetVars, pageVars, bridgeVars, links>>

ProcessNext ==
  \/ Tick \/ Destroy \/ Exit \/ Post
  \/ \E agree \in BOOLEAN : Answer(agree)
  \/ LoadUrl \/ OnAfterCreated \/ LoadEnds \/ OnPaint \/ OnProcessMessage
  \/ \E aborted \in BOOLEAN : OnLoadError(aborted)
  \/ \E kind \in LinkKinds, gesture \in BOOLEAN :
       OnBeforeBrowse(kind, gesture) \/ OnBeforePopup(kind, gesture)
  \/ HandlePosted \/ NativeReady
  \/ FrameContext \/ PostMessage \/ ReceiveMessage
  \/ \E c \in Contexts : RegisterCallback(c)
  \/ \E ok \in BOOLEAN : FetchPage(ok)
  \/ \E content \in {"text", "agreement"} : FetchText(content)

ProcessSpec == ProcessInit /\ [][ProcessNext]_processVars

-----------------------------------------------------------------------------
(* Properties                                                              *)

\* A review that the login window records as accepted was on the screen for the
\* configured time, whatever the value in the configuration, and whatever the other
\* threads do while the dialog goes (qtlogin_browser/main.cpp:109-142, 236,
\* protocol_browser_dialog.cpp:678-696).
ConsentWaited ==
  purpose = "review" /\ exit = 0 => accepted /\ elapsed >= Normalized(configured)

\* The error page never replaces the agreement because a load was aborted: by the
\* load of the agreement itself, a link that was opened outside, or a script
\* (cef_offscreen_browser.cpp:434-571, protocol_browser_style.cpp:278-282).
ErrorExplained == image = "error" => failed

\* A message for the page is never handed to a context that is gone, whichever frame
\* registered the callback and whichever is released (cef_offscreen_browser.cpp:189-313).
NoDeadContext == callback # "none" => callback \in live
=============================================================================
