--------------------------- MODULE UserInfoStore ---------------------------
(***************************************************************************)
(* userinfo.xml and the login windows that use it                          *)
(* (src/src/config/config_manager.cpp, and in src/src/sdologin applyConfig *)
(* and the constructor of the login window, which decides from the server's*)
(* reply whether the privacy policy has to be reviewed, and its handlers   *)
(* that record an account, delete one and store an accepted version).      *)
(* Every window is a process of its own.                                   *)
(* A handler loads the configuration, reads the file again, changes the    *)
(* text and writes all of it; the only protection is that Windows refuses  *)
(* to open a file that somebody is writing, and to write one that somebody *)
(* is reading.  Writing empties the file first.                            *)
(***************************************************************************)
EXTENDS Naturals, Sequences

CONSTANTS
  Processes,
  NoProcess, NoFile,
  Names, Fold, Nodes, Versions, MaxCount,   \* see AccountStore
  NoVersion,                      \* -1: none was accepted, or the server gives none
  Unknown,                        \* the server has not answered, or it failed
  Replies,                        \* what the server can answer, for each node
  InitialTexts,                   \* what the file can hold before the first window
  Privacy, Service,               \* PrivacyPolicyVersion and ServicerAgreementVersion
  MaxHandlers,                    \* bound: how many handlers run
  MaxFaults                       \* bound: how often a writer is cut off

\* A text: whether there is a document at all, its accounts and its other nodes.
NodeVersions == [Nodes -> Versions \cup {NoVersion}]
Texts == [root : BOOLEAN, accounts : Seq(Names), nodes : NodeVersions]

ASSUME AccountAssumption ==
  Names # {} /\ Fold \in [Names -> Names] /\ MaxCount \in Nat \ {0}
ASSUME ProcessAssumption == NoProcess \notin Processes
ASSUME NodeAssumption == Privacy \in Nodes /\ Service \in Nodes /\ Privacy # Service
ASSUME VersionAssumption ==
  /\ NoVersion \notin Versions /\ Unknown \notin Versions \cup {NoVersion}
  /\ Replies \subseteq NodeVersions
ASSUME TextsAssumption ==
  /\ InitialTexts \subseteq Texts /\ \A text \in InitialTexts : text.root
  /\ NoFile \notin Texts
ASSUME StoreBounds == MaxHandlers \in Nat /\ MaxFaults \in Nat

VARIABLES
  file,       \* the text on disk
  readers,    \* who has the file open to read
  writer,     \* who has it open to write
  phase,      \* what the handler of each process does next
  handler,    \* which handler that is, and its argument
  base,       \* the text the change is made to
  saved,      \* savedPrivacyPolicyVersion
  served,     \* the version of the privacy policy that the server has given
  review,     \* protocolReviewRequired
  shown,      \* accountHistory
  \* history
  handlers, faults, disturbed,
  accepted    \* the versions of the privacy policy that were ever accepted and stored

policyVars == <<saved, served, review>>
vars == <<file, readers, writer, phase, handler, base, policyVars, shown, handlers, faults,
          disturbed, accepted>>

Text(root, accounts, nodes) == [root |-> root, accounts |-> accounts, nodes |-> nodes]
NoVersions  == [n \in Nodes |-> NoVersion]
EmptyText   == Text(FALSE, <<>>, NoVersions)
DefaultText == Text(TRUE, <<>>, NoVersions)   \* kDefaultUserInfo

\* What the store holds: while a process writes, that is what it has read.
StoredText == IF writer = NoProcess THEN file ELSE base[writer]
Accounts == IF file = NoFile THEN <<>> ELSE StoredText.accounts
Accepted == IF file = NoFile THEN NoVersions ELSE StoredText.nodes

Store == INSTANCE AccountStore WITH accounts <- Accounts, nodes <- Accepted

Handler(kind, arg) == [kind |-> kind, arg |-> arg]
Handlers ==
  {Handler(kind, n) : kind \in {"record", "remove"}, n \in Names}
    \cup {Handler("accept", [node |-> n, version |-> v]) : n \in Nodes, v \in Versions}
Start == Handler("start", Privacy)

\* A process that waits for the server does not use the file.
Working(p) == phase[p] \notin {"off", "fetch", "idle"}
Apart(p) == \A q \in Processes \ {p} : ~Working(q)

Init ==
  /\ file \in InitialTexts \cup {NoFile}
  /\ readers = {}
  /\ writer = NoProcess
  /\ phase = [p \in Processes |-> "off"]
  /\ handler = [p \in Processes |-> Start]
  /\ base = [p \in Processes |-> DefaultText]
  /\ saved = [p \in Processes |-> NoVersion]
  /\ served = [p \in Processes |-> Unknown]
  /\ review = [p \in Processes |-> TRUE]
  /\ shown = [p \in Processes |-> <<>>]
  /\ handlers = 0
  /\ faults = 0
  /\ disturbed = FALSE
  /\ accepted = IF file = NoFile THEN {} ELSE {file.nodes[Privacy]} \ {NoVersion}

-----------------------------------------------------------------------------
(* Opening and closing the file                                            *)

\* Mutant: everybody may read while the file is written.
ReadAnyway == TRUE

\* FILE_SHARE_READ against a writer that shares nothing.
MayRead == writer = NoProcess

MayWrite == writer = NoProcess /\ readers = {}

Reads(p) == phase[p] \in {"load", "read", "list"}

OpenForRead(p) ==
  /\ Reads(p)
  /\ p \notin readers
  /\ file # NoFile
  /\ MayRead
  /\ readers' = readers \cup {p}
  /\ UNCHANGED <<file, writer, phase, handler, base, policyVars, shown, handlers, faults,
                 disturbed, accepted>>

-----------------------------------------------------------------------------
(* The handlers.  ReadDone is what process p does with a text, which is the *)
(* one of the file, or a default if the file is absent or cannot be opened. *)

Goto(p, next) == phase' = [phase EXCEPT ![p] = next]

\* Mutant: the rule of applyConfig stays in force, whatever version the server gives.
LocalRule(version, server) == version = NoVersion

\* shouldRequireInitialProtocolReview of the version in the file, and
\* shouldRequireProtocolReviewAfterServerConfig when the server has answered.
ReviewRequired(version, server) ==
  IF server = Unknown THEN version = NoVersion ELSE server # version

\* A deletion of an account that is not there writes nothing.
NothingToDo(p, text) ==
  /\ handler[p].kind = "remove"
  /\ ~Store!Knows(Store!Parsed(text.accounts, Store!MaxParsed), handler[p].arg)

ReadDone(p, text) ==
  \/ /\ phase[p] = "load"
     /\ handler[p].kind = "start"
     /\ saved' = [saved EXCEPT ![p] = text.nodes[Privacy]]
     /\ served' = [served EXCEPT ![p] = Unknown]
     /\ review' = [review EXCEPT ![p] = ReviewRequired(text.nodes[Privacy], Unknown)]
     /\ Goto(p, "list")
     /\ UNCHANGED <<base, shown>>
  \/ /\ phase[p] = "load"
     /\ handler[p].kind # "start"
     /\ Goto(p, "read")
     /\ UNCHANGED <<base, policyVars, shown>>
  \/ /\ phase[p] = "read"
     /\ base' = [base EXCEPT ![p] = text]
     /\ Goto(p, IF NothingToDo(p, text) THEN "list" ELSE "write")
     /\ UNCHANGED <<policyVars, shown>>
  \/ /\ phase[p] = "list"
     /\ shown' = [shown EXCEPT ![p] = Store!Parsed(text.accounts, MaxCount)]
     /\ Goto(p, IF handler[p].kind = "start" THEN "fetch" ELSE "idle")
     /\ UNCHANGED <<base, policyVars>>

CloseRead(p) ==
  /\ p \in readers
  /\ readers' = readers \ {p}
  /\ ReadDone(p, file)
  /\ UNCHANGED <<file, writer, handler, handlers, faults, disturbed, accepted>>

\* setValue gives up when a file that is there cannot be read.
GivesUp(p) == handler[p].kind = "accept" /\ phase[p] = "read" /\ file # NoFile

ReadRefused(p) ==
  /\ Reads(p)
  /\ p \notin readers
  /\ file = NoFile \/ ~MayRead
  /\ IF GivesUp(p)
     THEN Goto(p, "idle") /\ UNCHANGED <<base, policyVars, shown>>
     ELSE ReadDone(p, IF handler[p].kind = "accept" THEN EmptyText ELSE DefaultText)
  /\ UNCHANGED <<file, readers, writer, handler, handlers, faults, disturbed, accepted>>

\* CREATE_ALWAYS: the file is empty from here on.
OpenForWrite(p) ==
  /\ phase[p] = "write"
  /\ MayWrite
  /\ writer' = p
  /\ file' = EmptyText
  /\ UNCHANGED <<readers, phase, handler, base, policyVars, shown, handlers, faults, disturbed,
                 accepted>>

\* Where a handler goes that could not write: recordSuccessfulAccount and
\* persistInitialProtocolAcceptance return, removeHistoryAccount does not look.
AfterFailure(p) == IF handler[p].kind = "remove" THEN "list" ELSE "idle"

WriteRefused(p) ==
  /\ phase[p] = "write"
  /\ ~MayWrite
  /\ writer # p
  /\ Goto(p, AfterFailure(p))
  /\ UNCHANGED <<file, readers, writer, handler, base, policyVars, shown, handlers, faults,
                 disturbed, accepted>>

\* Mutant: the accounts are written into a new document.
FreshDocument(text, accounts) == Text(TRUE, accounts, NoVersions)

\* upsertUserAccountsXml: an empty text gets a document, the rest of a document stays.
WithAccounts(text, accounts) == [text EXCEPT !.root = TRUE, !.accounts = accounts]

\* upsertXmlAttribute
WithNode(text, arg) == [text EXCEPT !.root = TRUE, !.nodes[arg.node] = arg.version]

Updated(text, h) ==
  CASE h.kind = "record" -> WithAccounts(text, Store!Newest(h.arg, text.accounts))
    [] h.kind = "remove" -> WithAccounts(text, Store!Removed(h.arg, text.accounts))
    [] h.kind = "accept" -> WithNode(text, h.arg)

\* Only persistInitialProtocolAcceptance goes on: the version counts as saved.
WriteText(p) ==
  /\ writer = p
  /\ file' = Updated(base[p], handler[p])
  /\ writer' = NoProcess
  /\ Goto(p, IF handler[p].kind = "accept" THEN "idle" ELSE "list")
  /\ IF handler[p].kind = "accept" /\ handler[p].arg.node = Privacy
     THEN /\ saved' = [saved EXCEPT ![p] = handler[p].arg.version]
          /\ review' = [review EXCEPT ![p] = FALSE]
          /\ accepted' = accepted \cup {handler[p].arg.version}
     ELSE UNCHANGED <<saved, review, accepted>>
  /\ UNCHANGED <<readers, handler, base, served, shown, handlers, faults, disturbed>>

-----------------------------------------------------------------------------
(* What cuts a handler off                                                 *)

\* The disk is full: nothing of the text is written.
WriteFails(p) ==
  /\ writer = p
  /\ faults < MaxFaults
  /\ faults' = faults + 1
  /\ disturbed' = TRUE
  /\ writer' = NoProcess
  /\ Goto(p, AfterFailure(p))
  /\ UNCHANGED <<file, readers, handler, base, policyVars, shown, handlers, accepted>>

\* What a process knows ends with it.
Forget(p) ==
  /\ handler' = [handler EXCEPT ![p] = Start]
  /\ base' = [base EXCEPT ![p] = DefaultText]
  /\ saved' = [saved EXCEPT ![p] = NoVersion]
  /\ served' = [served EXCEPT ![p] = Unknown]
  /\ review' = [review EXCEPT ![p] = TRUE]
  /\ shown' = [shown EXCEPT ![p] = <<>>]

\* A process ends, by itself or because the SDK stops it; its handles are closed.
End(p) ==
  /\ phase[p] # "off"
  /\ writer = p => faults < MaxFaults
  /\ faults' = IF writer = p THEN faults + 1 ELSE faults
  /\ disturbed' = (disturbed \/ writer = p)
  /\ writer' = IF writer = p THEN NoProcess ELSE writer
  /\ readers' = readers \ {p}
  /\ Goto(p, "off")
  /\ Forget(p)
  /\ UNCHANGED <<file, handlers, accepted>>

Begin(p, h) ==
  /\ handlers < MaxHandlers
  /\ handlers' = handlers + 1
  /\ handler' = [handler EXCEPT ![p] = h]
  /\ Goto(p, "load")
  /\ disturbed' = (disturbed \/ ~Apart(p))
  /\ UNCHANGED <<file, readers, writer, base, policyVars, shown, faults, accepted>>

\* applyConfig of a new process
StartProcess(p) == phase[p] = "off" /\ Begin(p, Start)

\* The constructor has waited for the server: its version decides about the review, and
\* that of the service agreement goes to the file at once.
ServerAnswers(p, reply) ==
  /\ phase[p] = "fetch"
  /\ served' = [served EXCEPT ![p] = reply[Privacy]]
  /\ review' = [review EXCEPT ![p] = ReviewRequired(saved[p], reply[Privacy])]
  /\ IF reply[Service] \in Versions
     THEN /\ handler' =
               [handler EXCEPT ![p] =
                  Handler("accept", [node |-> Service, version |-> reply[Service]])]
          /\ Goto(p, "load")
          /\ disturbed' = (disturbed \/ ~Apart(p))
     ELSE Goto(p, "idle") /\ UNCHANGED <<handler, disturbed>>
  /\ UNCHANGED <<file, readers, writer, base, saved, shown, handlers, faults, accepted>>

\* The server was not reached, or not in time.
ServerFails(p) ==
  /\ phase[p] = "fetch"
  /\ served' = [served EXCEPT ![p] = Unknown]
  /\ review' = [review EXCEPT ![p] = ReviewRequired(saved[p], Unknown)]
  /\ Goto(p, "idle")
  /\ UNCHANGED <<file, readers, writer, handler, base, saved, shown, handlers, faults, disturbed,
                 accepted>>

RunHandler(p) ==
  /\ phase[p] = "idle"
  /\ \E kind \in {"record", "remove"}, n \in Names : Begin(p, Handler(kind, n))

\* The policy was accepted in the browser: only if it had to be reviewed, and the server
\* has given its version.
AcceptPolicy(p) ==
  /\ phase[p] = "idle"
  /\ review[p]
  /\ served[p] \in Versions
  /\ Begin(p, Handler("accept", [node |-> Privacy, version |-> served[p]]))

-----------------------------------------------------------------------------
Next ==
  \E p \in Processes :
    \/ StartProcess(p) \/ ServerFails(p) \/ RunHandler(p) \/ AcceptPolicy(p)
    \/ \E reply \in Replies : ServerAnswers(p, reply)
    \/ OpenForRead(p) \/ CloseRead(p) \/ ReadRefused(p)
    \/ OpenForWrite(p) \/ WriteRefused(p) \/ WriteText(p) \/ WriteFails(p) \/ End(p)

Spec == Init /\ [][Next]_vars

-----------------------------------------------------------------------------
(* Properties                                                              *)

\* What a handler changes is a whole document, never the emptied file of somebody
\* who is writing, unless a writer was cut off before (config_manager.cpp:38-78).
WholeTextRead ==
  \A p \in Processes :
    phase[p] = "write" /\ handler[p].kind # "accept" /\ faults = 0 => base[p].root

NoneTwice(list) == \A i, j \in DOMAIN list : Store!SameAccount(list[i], list[j]) => i = j

\* However the windows overlap, are stopped or fail, what a window shows as history
\* has no account twice and is not longer than configured (config_manager.cpp:371-433,
\* 621-650).
HistoryWellFormed ==
  \A p \in Processes :
    Len(shown[p]) <= MaxCount /\ NoneTwice(shown[p])

\* No window skips the review of the privacy policy unless the very version that the server
\* gives was accepted and stored at some time: a lost file or a newer version asks again.
\* There is nothing to review if the server gives none and none was saved; and while the
\* server has not answered, or fails to, any accepted version will do
\* (sdologin/main.cpp:130-137, login_window.cpp:372-406, 1338-1359).
ReviewNotSkipped ==
  \A p \in Processes : ~review[p] =>
    \/ served[p] \in accepted \cup {NoVersion}
    \/ served[p] = Unknown /\ accepted # {}

\* Windows that use the file one after the other and are not cut off while writing
\* see a store whose changes are atomic and keep everything else.
ImplementsAccountStore == Store!Spec
=============================================================================
