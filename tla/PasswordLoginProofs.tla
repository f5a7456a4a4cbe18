------------------------- MODULE PasswordLoginProofs -------------------------
(***************************************************************************)
(* Theorems about the password login, for any accounts and any number of   *)
(* submissions.                                                            *)
(***************************************************************************)
EXTENDS PasswordLogin, TLAPS

LoginKinds == {"key", "login"}

\* No request of a login is with the library.
NoLogin == slot \notin LoginKinds /\ answer.kind \notin LoginKinds

\* Where a submission is that does not overlap another: nowhere, on the UI thread,
\* with the library, or answered.
Nowhere ==
  /\ open = 0 /\ ui \notin {"completion", "request", "key"}
  /\ completion.set = FALSE /\ results = <<>> /\ NoLogin
AtCompletion ==
  /\ open = 1 /\ ui = "completion"
  /\ completion.set = FALSE /\ results = <<>> /\ NoLogin
  /\ submission.account = lastSubmitted
AtRequest ==
  /\ open = 1 /\ ui = "request"
  /\ completion.set = TRUE /\ results = <<>> /\ NoLogin
  /\ submission.account = lastSubmitted
AtKey ==
  /\ open = 1 /\ ui = "key"
  /\ completion.set = TRUE /\ results = <<>> /\ NoLogin
  /\ pending = lastSubmitted
InLibrary ==
  /\ open = 1 /\ ui = "loop"
  /\ completion.set = TRUE /\ results = <<>>
  /\ slot = "key" \/ answer.kind = "key" => pending = lastSubmitted
  /\ slot = "login" \/ answer.kind = "login" => sent = lastSubmitted
  /\ slot \notin LoginKinds \/ answer.kind \notin LoginKinds
IsAnswered ==
  /\ open = 1 /\ ui = "loop"
  /\ completion.set = FALSE /\ NoLogin
  /\ \E r : results = <<r>> /\ (r.outcome = "success" => r.account = lastSubmitted)

Stage == Nowhere \/ AtCompletion \/ AtRequest \/ AtKey \/ InLibrary \/ IsAnswered

FlowInv ==
  /\ ~overlapped => Stage
  /\ recorded # NoAccount /\ ~overlapped => recorded = loggedIn

LEMMA FlowInit == Init => FlowInv
BY DEF Init, ClientInit, NoRequest, NoAnswer, NoCompletion, FlowInv, Stage, Nowhere, NoLogin, LoginKinds

\* What the authenticator posts when it completes.
LEMMA CompleteOK ==
  ASSUME NEW outcome, NEW account, Complete(outcome, account)
  PROVE  /\ completion'.set = FALSE
         /\ completion.set = FALSE => results' = results
         /\ completion.set = TRUE /\ results = <<>> =>
              \E r : results' = <<r>> /\ r.outcome = outcome /\ r.account = account
<1>1. completion'.set = FALSE
  BY DEF Complete, NoCompletion
<1>2. CASE completion.set = TRUE /\ results = <<>>
  <2> DEFINE r == [outcome |-> outcome, account |-> account, button |-> completion.button]
  <2>1. results' = <<r>>
    BY <1>2 DEF Complete
  <2>2. r.outcome = outcome /\ r.account = account
    OBVIOUS
  <2> QED BY <1>1, <1>2, <2>1, <2>2
<1>3. CASE completion.set = FALSE
  BY <1>1, <1>3 DEF Complete
<1> QED BY <1>1, <1>2, <1>3

\* In particular a failure, or a success under the account of the submission.
LEMMA PostedOK ==
  ASSUME completion.set = TRUE, results = <<>>, UNCHANGED lastSubmitted,
         Failed \/ (Complete("success", sent) /\ sent = lastSubmitted)
  PROVE  /\ completion'.set = FALSE
         /\ \E r : results' = <<r>> /\ (r.outcome = "success" => r.account = lastSubmitted')
<1>1. CASE Failed
  <2>1. \E r : results' = <<r>> /\ r.outcome = "failed"
    BY <1>1, CompleteOK DEF Failed
  <2> QED BY <1>1, <2>1, CompleteOK DEF Failed
<1>2. CASE Complete("success", sent) /\ sent = lastSubmitted
  <2>1. \E r : results' = <<r>> /\ r.account = sent
    BY <1>2, CompleteOK
  <2> QED BY <1>2, <2>1, CompleteOK
<1> QED BY <1>1, <1>2

\* The step of a fetch takes nothing from a submission, and there is none yet.
LEMMA FetchFlow ==
  ASSUME FlowInv, NEW f \in Fetches, Fetch(f) \/ WaitEnds(f) \/ HandleConfig(f)
  PROVE  FlowInv'
<1>1. UNCHANGED <<completion, pending, results, recorded, loggedIn, sent, open, overlapped,
                  submission, lastSubmitted>>
  BY DEF Fetch, WaitEnds, HandleConfig, Fetched, windowVars, finalVars, history
<1>2. CASE Fetch(f) \/ WaitEnds(f)
  <2>1. ui \in {"privacy", "privacyWait", "config", "configWait"}
    BY <1>2 DEF Fetch, WaitEnds, Waiting, Fetches
  <2>2. ui' \in {"privacy", "privacyWait", "config", "configWait", "loop"}
    BY <1>2, <2>1 DEF Fetch, WaitEnds, Fetched, After, Waiting, Fetches, windowVars
  <2>3. (slot' = slot \/ slot' = f) /\ answer' = answer
    BY <1>2 DEF Fetch, WaitEnds, Take, TurnedAway, clientVars
  <2>4. Stage => Nowhere
    BY <2>1 DEF Stage, AtCompletion, AtRequest, AtKey, InLibrary, IsAnswered
  <2>5. Nowhere => Nowhere'
    BY <1>1, <2>2, <2>3 DEF Nowhere, NoLogin, LoginKinds, Fetches
  <2> QED BY <1>1, <2>4, <2>5 DEF FlowInv, Stage
<1>3. CASE HandleConfig(f)
  <2>1. UNCHANGED <<ui, slot>> /\ answer'.kind = "none"
    BY <1>3 DEF HandleConfig, Answered, NoAnswer, NoRequest
  <2>2. Stage => Stage'
    BY <1>1, <2>1 DEF Stage, Nowhere, AtCompletion, AtRequest, AtKey, InLibrary, IsAnswered,
          NoLogin, LoginKinds
  <2> QED BY <1>1, <2>2 DEF FlowInv
<1> QED BY <1>2, <1>3

LEMMA UiFlow ==
  ASSUME FlowInv, SetCompletion \/ SetRequest \/ GetDynamicKey
  PROVE  FlowInv'
<1>1. UNCHANGED <<recorded, loggedIn, sent, open, overlapped, submission, lastSubmitted, answer>>
  BY DEF SetCompletion, SetRequest, GetDynamicKey, windowVars, finalVars, history, clientVars
<1>2. CASE SetCompletion
  <2>1. Stage => AtCompletion
    BY <1>2 DEF SetCompletion, Stage, Nowhere, AtRequest, AtKey, InLibrary, IsAnswered
  <2>2. ui' = "request" /\ completion'.set = TRUE /\ UNCHANGED <<slot, pending, results>>
    BY <1>2 DEF SetCompletion, clientVars
  <2>3. AtCompletion => AtRequest'
    BY <1>1, <2>2 DEF AtCompletion, AtRequest, NoLogin
  <2> QED BY <1>1, <2>1, <2>3 DEF FlowInv, Stage
<1>3. CASE SetRequest
  <2>1. Stage => AtRequest
    BY <1>3 DEF SetRequest, Stage, Nowhere, AtCompletion, AtKey, InLibrary, IsAnswered
  <2>2. pending' = submission.account /\ UNCHANGED slot
    BY <1>3 DEF SetRequest, clientVars
  <2>3. CASE ui' = "key" /\ UNCHANGED <<completion, results>>
    BY <1>1, <2>1, <2>2, <2>3 DEF AtRequest, AtKey, NoLogin, FlowInv, Stage
  <2>4. CASE ui' = "loop" /\ Failed
    <3>1. AtRequest => IsAnswered'
      BY <1>1, <2>2, <2>4, PostedOK DEF AtRequest, IsAnswered, NoLogin
    <3> QED BY <1>1, <2>1, <3>1 DEF FlowInv, Stage
  <2> QED BY <1>3, <2>3, <2>4 DEF SetRequest
<1>4. CASE GetDynamicKey
  <2>1. Stage => AtKey
    BY <1>4 DEF GetDynamicKey, Stage, Nowhere, AtCompletion, AtRequest, InLibrary, IsAnswered
  <2>2. ui' = "loop" /\ UNCHANGED pending
    BY <1>4 DEF GetDynamicKey
  <2>3. CASE slot' = "key" /\ UNCHANGED <<completion, results>>
    <3>1. AtKey => InLibrary'
      BY <1>1, <2>2, <2>3 DEF AtKey, InLibrary, NoLogin, LoginKinds
    <3> QED BY <1>1, <2>1, <3>1 DEF FlowInv, Stage
  <2>4. CASE slot' = slot /\ Failed
    <3>1. NoLogin => NoLogin'
      BY <1>1, <2>4 DEF NoLogin
    <3>2. AtKey => IsAnswered'
      BY <1>1, <2>2, <2>4, <3>1, PostedOK DEF AtKey, IsAnswered
    <3> QED BY <1>1, <2>1, <3>2 DEF FlowInv, Stage
  <2> QED BY <1>4, <2>3, <2>4 DEF GetDynamicKey, Take, TurnedAway, KeyRefused
<1> QED BY <1>2, <1>3, <1>4

LEMMA SubmitFlow ==
  ASSUME FlowInv, NEW byButton \in BOOLEAN, Submit(byButton)
  PROVE  FlowInv'
<1>1. /\ ui = "loop" /\ ui' = "completion" /\ open' = open + 1
      /\ submission'.account = lastSubmitted'
      /\ UNCHANGED <<slot, answer, completion, results, recorded, loggedIn>>
      /\ ~Completed
  BY DEF Submit, InEventLoop, clientVars, authVars, finalVars
<1>2. ~overlapped' => ~overlapped /\ open = 0
  <2>1. overlapped' = (overlapped \/ open > 0)
    BY DEF Submit
  <2>2. ~overlapped => open \in {0, 1}
    BY DEF FlowInv, Stage, Nowhere, AtCompletion, AtRequest, AtKey, InLibrary, IsAnswered
  <2>3. CASE overlapped
    BY <2>1, <2>3
  <2>4. CASE open = 0 /\ ~overlapped
    BY <2>4
  <2>5. CASE open = 1
    <3>1. open > 0
      BY <2>5
    <3>2. overlapped'
      BY <2>1, <3>1, Zenon
    <3> QED BY <3>2
  <2> QED BY <2>2, <2>3, <2>4, <2>5
<1>3. ~overlapped /\ open = 0 => Nowhere
  BY DEF FlowInv, Stage, AtCompletion, AtRequest, AtKey, InLibrary, IsAnswered
<1>4. Nowhere => AtCompletion'
  BY <1>1 DEF Nowhere, AtCompletion, NoLogin
<1>5. recorded' = NoAccount
  BY <1>1 DEF Completed
<1> QED BY <1>1, <1>2, <1>3, <1>4, <1>5 DEF FlowInv, Stage

LEMMA ResultFlow ==
  ASSUME FlowInv, HandleResult
  PROVE  FlowInv'
<1>1. /\ results # <<>> /\ results' = Tail(results) /\ open' = open - 1 /\ ui = "loop"
      /\ UNCHANGED <<slot, answer, ui, completion, pending, submission, lastSubmitted, sent, overlapped>>
  BY DEF HandleResult, InEventLoop, clientVars, authVars, finalVars
<1>2. Stage => IsAnswered
  BY <1>1 DEF Stage, Nowhere, AtCompletion, AtRequest, AtKey, InLibrary
<1>3. ASSUME IsAnswered
      PROVE  Nowhere' /\ (recorded' # NoAccount => recorded' = loggedIn')
  <2>1. PICK r : results = <<r>> /\ (r.outcome = "success" => r.account = lastSubmitted)
    BY <1>3 DEF IsAnswered
  <2>2. Head(results) = r /\ results' = <<>>
    BY <1>1, <2>1
  <2>3. Nowhere'
    BY <1>1, <1>3, <2>2 DEF Nowhere, IsAnswered, NoLogin
  <2>4. CASE r.outcome = "success"
    BY <2>1, <2>2, <2>3, <2>4 DEF HandleResult, AccountToRecord
  <2>5. CASE r.outcome # "success"
    <3>1. UNCHANGED recorded /\ recorded = NoAccount
      BY <2>2, <2>5 DEF HandleResult, finalVars, InEventLoop, Completed
    <3> QED BY <2>3, <3>1
  <2> QED BY <2>3, <2>4, <2>5
<1>4. CASE overlapped
  BY <1>1, <1>4 DEF FlowInv
<1> QED BY <1>1, <1>2, <1>3, <1>4 DEF FlowInv, Stage

LEMMA WorkerFlow ==
  ASSUME FlowInv, ServerAnswers \/ HandleDynamicKey \/ HandleLoginResult
  PROVE  FlowInv'
<1>1. UNCHANGED <<ui, pending, submission, lastSubmitted, recorded, loggedIn, open, overlapped>>
  BY DEF ServerAnswers, HandleDynamicKey, HandleLoginResult, windowVars, finalVars, history, authVars
<1>2. CASE ServerAnswers
  <2>1. answer'.kind = slot /\ slot' = "none" /\ answer.kind = "none"
    BY <1>2 DEF ServerAnswers, Respond, Working, NoAnswer, NoRequest
  <2>2. UNCHANGED <<completion, results, sent>>
    BY <1>2 DEF ServerAnswers, authVars
  <2>3. Stage => Stage'
    BY <1>1, <2>1, <2>2 DEF Stage, Nowhere, AtCompletion, AtRequest, AtKey, InLibrary,
          IsAnswered, NoLogin, LoginKinds
  <2> QED BY <1>1, <2>3 DEF FlowInv
<1>3. CASE HandleDynamicKey
  <2>1. answer.kind = "key" /\ answer'.kind = "none"
    BY <1>3 DEF HandleDynamicKey, Answered, NoAnswer, NoRequest
  <2>2. Stage => InLibrary
    BY <2>1 DEF Stage, Nowhere, AtCompletion, AtRequest, AtKey, IsAnswered, NoLogin, LoginKinds
  <2>3. CASE slot' = "login" /\ sent' = pending /\ UNCHANGED <<completion, results>>
    <3>1. InLibrary => InLibrary'
      BY <1>1, <2>1, <2>3 DEF InLibrary, LoginKinds
    <3> QED BY <1>1, <2>2, <3>1 DEF FlowInv, Stage
  <2>4. CASE slot' = slot /\ Failed /\ UNCHANGED sent
    <3>1. InLibrary => NoLogin'
      BY <2>1, <2>4 DEF InLibrary, NoLogin, LoginKinds
    <3>2. InLibrary => IsAnswered'
      BY <1>1, <2>4, <3>1, PostedOK DEF InLibrary, IsAnswered
    <3> QED BY <1>1, <2>2, <3>2 DEF FlowInv, Stage
  <2> QED BY <1>3, <2>3, <2>4 DEF HandleDynamicKey, Take, TurnedAway
<1>4. CASE HandleLoginResult
  <2>1. answer.kind = "login" /\ answer'.kind = "none" /\ UNCHANGED <<slot, sent>>
    BY <1>4 DEF HandleLoginResult, Answered, NoAnswer, NoRequest
  <2>2. Stage => InLibrary
    BY <2>1 DEF Stage, Nowhere, AtCompletion, AtRequest, AtKey, IsAnswered, NoLogin, LoginKinds
  <2>3. CASE UNCHANGED <<completion, results>>
    <3>1. InLibrary => InLibrary'
      BY <1>1, <2>1, <2>3 DEF InLibrary, LoginKinds
    <3> QED BY <1>1, <2>2, <3>1 DEF FlowInv, Stage
  <2>4. CASE Complete("success", sent) \/ Failed
    <3>1. InLibrary => NoLogin' /\ sent = lastSubmitted
      BY <2>1 DEF InLibrary, NoLogin, LoginKinds
    <3>2. InLibrary => IsAnswered'
      BY <1>1, <2>4, <3>1, PostedOK DEF InLibrary, IsAnswered
    <3> QED BY <1>1, <2>2, <3>2 DEF FlowInv, Stage
  <2> QED BY <1>4, <2>3, <2>4 DEF HandleLoginResult
<1> QED BY <1>2, <1>3, <1>4

LEMMA FlowNext ==
  ASSUME FlowInv, [Next]_vars
  PROVE  FlowInv'
<1>1. CASE UNCHANGED <<clientVars, ui, authVars, results, finalVars, submission, lastSubmitted,
      sent, history>>
  BY <1>1 DEF clientVars, authVars, finalVars, history, FlowInv, Stage, Nowhere, AtCompletion,
        AtRequest, AtKey, InLibrary,
              IsAnswered, NoLogin
<1>2. CASE (\E account \in Accounts : EditAccount(account)) \/ EditPassword \/ UNCHANGED vars
  BY <1>1, <1>2 DEF EditAccount, EditPassword, vars, windowVars
<1> QED BY <1>2, FetchFlow, UiFlow, SubmitFlow, ResultFlow, WorkerFlow DEF Next, UiStep, WorkerStep

\* The account that is recorded after a login is the one the server granted it to.
THEOREM RecordedIsGranted == Spec => []GrantedAccountRecorded
<1>1. FlowInv => GrantedAccountRecorded
  BY DEF FlowInv, GrantedAccountRecorded, Completed
<1> QED BY FlowInit, FlowNext, <1>1, PTL DEF Spec

-----------------------------------------------------------------------------
(* The two fetches                                                         *)

Early == {"privacy", "privacyWait", "config", "configWait"}
Returns == {"none", "ok", "failed", "refused", "timedOut", "notInitialized"}

FetchTypes ==
  /\ event \in [Fetches -> BOOLEAN]
  /\ stored \in [Fetches -> {"none", "ok", "failed"}]
  /\ fetched \in [Fetches -> Returns]
  /\ answer.kind \in Fetches => answer.outcome \in {"ok", "failed"}

\* While the constructor runs only the fetches use the library, and the event of the
\* first means that the library is idle again.
LibraryInv ==
  /\ ui \in Early => slot \in Fetches \cup {"none"} /\ answer.kind \in Fetches \cup {"none"}
  /\ ui = "privacy" => slot = "none" /\ answer.kind = "none"
  /\ ui = "privacyWait" => (answer.kind = "privacy" \/ event["privacy"] = TRUE => slot = "none")
  /\ ui = "config" /\ slot # "none" => fetched["privacy"] = "timedOut"

ReturnsInv ==
  /\ \A f \in Fetches : event[f] = TRUE => stored[f] # "none"
  /\ ui \notin {"privacy", "privacyWait"} => fetched["privacy"] # "none"
  /\ ui \notin Early => fetched["config"] # "none"
  /\ fetched["privacy"] # "refused"
  /\ fetched["config"] = "refused" => fetched["privacy"] = "timedOut"
  /\ ui \in Early => fetched["config"] = "none"

ConfigInv == FetchTypes /\ LibraryInv /\ ReturnsInv

LEMMA ConfigInit == Init => ConfigInv
BY DEF Init, ClientInit, NoRequest, NoAnswer, ConfigInv, FetchTypes, LibraryInv, ReturnsInv, Fetches,
       Returns, Early

LEMMA FetchConfig ==
  ASSUME ConfigInv, NEW f \in Fetches, Fetch(f)
  PROVE  ConfigInv'
<1> USE DEF ConfigInv, FetchTypes, LibraryInv, ReturnsInv, Fetches, Returns, Early
<1>1. ui = f /\ answer' = answer
  BY DEF Fetch, clientVars
<1>2. CASE Fetched(f, "notInitialized") /\ UNCHANGED <<clientVars, event, stored>>
  BY <1>1, <1>2 DEF Fetched, After, clientVars
<1>3. CASE /\ stored' = [stored EXCEPT ![f] = "none"] /\ event' = [event EXCEPT ![f] = FALSE]
           /\ Take(f) /\ ui' = Waiting(f) /\ UNCHANGED windowVars
  BY <1>1, <1>3 DEF Take, Waiting, windowVars
<1>4. CASE /\ stored' = [stored EXCEPT ![f] = "none"] /\ event' = [event EXCEPT ![f] = FALSE]
           /\ TurnedAway /\ Fetched(f, "refused")
  <2>1. slot # "none" /\ slot' = slot
    BY <1>4 DEF TurnedAway, Busy, NoRequest
  <2>2. f = "config"
    BY <1>1, <2>1
  <2> QED BY <1>1, <1>4, <2>1, <2>2 DEF Fetched, After
<1> QED BY <1>2, <1>3, <1>4 DEF Fetch

LEMMA WaitConfig ==
  ASSUME ConfigInv, NEW f \in Fetches, WaitEnds(f)
  PROVE  ConfigInv'
<1> USE DEF ConfigInv, FetchTypes, LibraryInv, ReturnsInv, Fetches, Returns, Early
<1>1. ui = Waiting(f) /\ UNCHANGED <<slot, answer, stored>>
  BY DEF WaitEnds, clientVars
<1>2. CASE event[f] /\ event' = [event EXCEPT ![f] = FALSE] /\ Fetched(f, stored[f])
  BY <1>1, <1>2 DEF Fetched, After, Waiting
<1>3. CASE Fetched(f, "timedOut") /\ UNCHANGED event
  BY <1>1, <1>3 DEF Fetched, After, Waiting
<1> QED BY <1>2, <1>3 DEF WaitEnds

LEMMA WorkerConfig ==
  ASSUME ConfigInv, WorkerStep
  PROVE  ConfigInv'
<1> USE DEF ConfigInv, FetchTypes, LibraryInv, ReturnsInv, Fetches, Returns, Early
<1>1. UNCHANGED <<ui, fetched>>
  BY DEF WorkerStep, ServerAnswers, HandleDynamicKey, HandleLoginResult, HandleConfig, windowVars
<1>2. CASE ServerAnswers
  <2>1. answer'.kind = slot /\ slot' = "none" /\ answer'.outcome \in Outcomes(slot)
    BY <1>2 DEF ServerAnswers, Respond, NoRequest
  <2>2. UNCHANGED <<event, stored>>
    BY <1>2 DEF ServerAnswers, authVars
  <2> QED BY <1>1, <2>1, <2>2 DEF Outcomes
<1>3. CASE HandleDynamicKey \/ HandleLoginResult
  <2>1. answer.kind \in {"key", "login"} /\ answer'.kind = "none" /\ UNCHANGED <<event, stored>>
    BY <1>3 DEF HandleDynamicKey, HandleLoginResult, Answered, NoAnswer, NoRequest
  <2>2. ui \notin Early
    BY <2>1
  <2> QED BY <1>1, <2>1, <2>2
<1>4. ASSUME NEW f \in Fetches, HandleConfig(f)
      PROVE  ConfigInv'
  <2>1. answer.kind = f /\ answer'.kind = "none" /\ UNCHANGED slot
    BY <1>4 DEF HandleConfig, Answered, NoAnswer, NoRequest
  <2>2. stored' = [stored EXCEPT ![f] = answer.outcome] /\ event' = [event EXCEPT ![f] = TRUE]
    BY <1>4 DEF HandleConfig, SetEvent
  <2> QED BY <1>1, <2>1, <2>2
<1> QED BY <1>2, <1>3, <1>4 DEF WorkerStep

LEMMA ConfigNext ==
  ASSUME ConfigInv, [Next]_vars
  PROVE  ConfigInv'
<1>1. CASE UNCHANGED <<event, stored, fetched, answer, slot, ui>>
  BY <1>1 DEF ConfigInv, FetchTypes, LibraryInv, ReturnsInv
<1>2. CASE (\E account \in Accounts : EditAccount(account)) \/ EditPassword \/ HandleResult \/
      UNCHANGED vars
  BY <1>1, <1>2 DEF EditAccount, EditPassword, HandleResult, vars, clientVars, authVars, windowVars
<1>3. CASE SetCompletion \/ SetRequest \/ GetDynamicKey \/ \E byButton \in BOOLEAN : Submit(byButton)
  <2>1. ui \notin Early /\ ui' \notin Early
    BY <1>3 DEF SetCompletion, SetRequest, GetDynamicKey, Submit, InEventLoop, Early
  <2>2. UNCHANGED <<event, stored, fetched, answer>>
    BY <1>3 DEF SetCompletion, SetRequest, GetDynamicKey, Submit, windowVars, clientVars, authVars
  <2> QED BY <2>1, <2>2 DEF ConfigInv, FetchTypes, LibraryInv, ReturnsInv, Early
<1> QED BY <1>2, <1>3, FetchConfig, WaitConfig, WorkerConfig DEF Next, UiStep

\* What a fetch returns is its own answer, a timeout, or what a timeout left behind.
THEOREM FetchesExplained == Spec => []FetchExplained
<1>1. ConfigInv => FetchExplained
  BY DEF ConfigInv, ReturnsInv, FetchExplained, Early
<1> QED BY ConfigInit, ConfigNext, <1>1, PTL DEF Spec
=============================================================================
