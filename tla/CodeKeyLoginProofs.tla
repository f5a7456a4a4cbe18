------------------------- MODULE CodeKeyLoginProofs -------------------------
(***************************************************************************)
(* Theorems about QR code login, for any number of moves of the user.      *)
(***************************************************************************)
EXTENDS CodeKeyLogin, TLAPS

Kinds     == {"key", "qr", "poll"}
FlowKinds == {"key", "qr"}   \* the requests that lead to a code

\* All that can ever answer a request, and all that is posted.
AllOutcomes(kind) ==
  CASE kind = "key"  -> {"ok", "failed"}
    [] kind = "qr"   -> {"ok", "blank", "failed"}
    [] kind = "poll" -> {"continue", "scanned", "expired", "failed", "secondStep", "success"}

ImageOutcomes == {"ok", "blank", "failed"}
PollOutcomes  == {"continue", "scanned", "expired", "failed", "success"}

Results == [kind : {"image"}, outcome : ImageOutcomes, code : Codes]
             \cup [kind : {"poll"}, outcome : PollOutcomes, code : {NoCode}]

AnswerOK ==
  answer = NoAnswer \/ \E k \in Kinds : \E o \in AllOutcomes(k) : answer = [kind |-> k, outcome |-> o]

\* A move of the user starts one flow at most, and a flow is a call, a request or an
\* answer until the server gives its code: so the codes are bounded by the moves.
Token(b) == IF b THEN 1 ELSE 0
Spent == codes + Token(keyCalls > 0) + Token(slot \in FlowKinds) + Token(answer.kind \in FlowKinds)

CountInv ==
  /\ moves \in 0 .. MaxMoves
  /\ Spent <= moves
  /\ qrCalls > 0 => answer.kind = "key"

TypeInv == TypeOK /\ AnswerOK /\ results \in Seq(Results) /\ CountInv

LEMMA OneMoreCode ==
  ASSUME NEW n \in Nat, NEW m \in {n, n + 1}, NEW h \in 0 .. 2
  PROVE  m + h \in Nat /\ n + h + 1 \in Nat /\ m + h <= n + h + 1
OBVIOUS

LEMMA OneCall == 0 \in 0 .. MaxCalls /\ 1 \in 0 .. MaxCalls
BY DEF MaxCalls

LEMMA BoundsOK == TypeInv => codes \in Nat /\ codes <= MaxMoves /\ NoCode \in Codes /\ MaxMoves \in Nat
BY CodeKeyAssumption DEF TypeInv, TypeOK, Codes, NoCode

-----------------------------------------------------------------------------
(* The queue of results                                                    *)

LEMMA PostOK ==
  ASSUME NEW r \in Seq(Results), NEW m \in Results
  PROVE  LET new == Append(r, m) IN
         /\ new \in Seq(Results)
         /\ \E i \in DOMAIN new : new[i] = m
         /\ \A i \in DOMAIN r : i \in DOMAIN new /\ new[i] = r[i]
         /\ \A i \in DOMAIN new : (i \in DOMAIN r /\ new[i] = r[i]) \/ (i = Len(new) /\ new[i] = m)
<1> DEFINE new == Append(r, m)
           n == Len(r)
<1>1. /\ n \in Nat /\ DOMAIN r = 1 .. n /\ DOMAIN new = 1 .. (n + 1) /\ Len(new) = n + 1
      /\ new[n + 1] = m /\ \A i \in 1 .. n : new[i] = r[i]
  OBVIOUS
<1>2. new \in Seq(Results)
  OBVIOUS
<1> HIDE DEF new, n
<1>3. \A i \in DOMAIN r : i \in DOMAIN new /\ new[i] = r[i]
  BY <1>1
<1>4. \A i \in DOMAIN new : (i \in DOMAIN r /\ new[i] = r[i]) \/ (i = Len(new) /\ new[i] = m)
  BY <1>1
<1>5. n + 1 \in DOMAIN new /\ new[n + 1] = m
  BY <1>1
<1> QED BY <1>2, <1>3, <1>4, <1>5 DEF new

LEMMA TakeOK ==
  ASSUME NEW r \in Seq(Results), r # <<>>
  PROVE  LET t == Tail(r) IN
         /\ Head(r) \in Results
         /\ t \in Seq(Results)
         /\ 1 \in DOMAIN r /\ r[1] = Head(r)
         /\ \A i \in DOMAIN t : i + 1 \in DOMAIN r /\ t[i] = r[i + 1] /\ i \in Nat
         /\ \A i \in DOMAIN r : i # 1 => \E j \in DOMAIN t : t[j] = r[i]
         /\ Len(t) = Len(r) - 1 /\ Len(r) \in Nat
         /\ Len(t) = 0 => t = <<>>
<1> DEFINE t == Tail(r)
           n == Len(r)
<1>1. /\ n \in Nat /\ n > 0 /\ DOMAIN r = 1 .. n /\ DOMAIN t = 1 .. (n - 1) /\ Len(t) = n - 1
      /\ \A i \in 1 .. (n - 1) : t[i] = r[i + 1]
  OBVIOUS
<1>2. t \in Seq(Results) /\ Head(r) \in Results /\ r[1] = Head(r)
  OBVIOUS
<1> HIDE DEF t, n
<1>3. Len(t) = 0 => t = <<>>
  BY <1>2
<1>4. \A i \in DOMAIN t : i + 1 \in DOMAIN r /\ t[i] = r[i + 1] /\ i \in Nat
  BY <1>1
<1>5. 1 \in DOMAIN r
  BY <1>1
<1>6. ASSUME NEW i \in DOMAIN r, i # 1 PROVE \E j \in DOMAIN t : t[j] = r[i]
  <2>1. i - 1 \in 1 .. (n - 1) /\ (i - 1) + 1 = i
    BY <1>1, <1>6
  <2> QED BY <1>1, <2>1
<1> QED BY <1>1, <1>2, <1>4, <1>5, <1>6, <1>3 DEF t, n

\* A result is posted: it is the last one, and all others stay.
LEMMA PostedOK ==
  ASSUME TypeInv, NEW k, NEW o, NEW c, [kind |-> k, outcome |-> o, code |-> c] \in Results,
         results' = Posted(k, o, c)
  PROVE  /\ results' \in Seq(Results)
         /\ Pending(k)'
         /\ \A j : Pending(j) => Pending(j)'
         /\ \A i \in DOMAIN results' :
              \/ i \in DOMAIN results /\ results'[i] = results[i]
              \/ /\ i = Len(results') /\ results'[i].kind = k /\ results'[i].outcome = o
                 /\ results'[i].code = c
<1> DEFINE m == [kind |-> k, outcome |-> o, code |-> c]
<1>1. /\ m \in Results /\ m.kind = k /\ m.outcome = o /\ m.code = c
      /\ results' = Append(results, m) /\ results \in Seq(Results)
  BY DEF Posted, TypeInv
<1> HIDE DEF m
<1>2. results' \in Seq(Results)
  BY <1>1, PostOK
<1>3. \E i \in DOMAIN results' : results'[i] = m
  BY <1>1, PostOK
<1>4. \A i \in DOMAIN results : i \in DOMAIN results' /\ results'[i] = results[i]
  BY <1>1, PostOK
<1>5. \A i \in DOMAIN results' : \/ i \in DOMAIN results /\ results'[i] = results[i]
                                 \/ i = Len(results') /\ results'[i] = m
  BY <1>1, PostOK
<1>6. Pending(k)'
  BY <1>1, <1>3 DEF Pending
<1>7. \A j : Pending(j) => Pending(j)'
  BY <1>4 DEF Pending
<1>8. \A i \in DOMAIN results' :
        \/ i \in DOMAIN results /\ results'[i] = results[i]
        \/ i = Len(results') /\ results'[i].kind = k /\ results'[i].outcome = o /\ results'[i].code = c
  BY <1>1, <1>5
<1> QED BY <1>2, <1>6, <1>7, <1>8

\* The first result is handled: the others stay.
LEMMA TakenOK ==
  ASSUME TypeInv, NEW k, NextResult(k)
  PROVE  /\ results' \in Seq(Results)
         /\ Head(results) \in Results /\ Head(results).kind = k
         /\ 1 \in DOMAIN results /\ results[1] = Head(results)
         /\ \A j : j # k /\ Pending(j) => Pending(j)'
         /\ \A i \in DOMAIN results' : /\ i + 1 \in DOMAIN results /\ results'[i] = results[i + 1]
                                       /\ i \in Nat
         /\ Len(results') = Len(results) - 1 /\ Len(results) \in Nat
         /\ Len(results') = 0 => results' = <<>>
<1>1. /\ results \in Seq(Results) /\ results # <<>> /\ results' = Tail(results)
      /\ Head(results).kind = k
  BY DEF NextResult, TypeInv
<1>2. /\ 1 \in DOMAIN results /\ results[1] = Head(results)
      /\ \A i \in DOMAIN results : i # 1 => \E j \in DOMAIN results' : results'[j] = results[i]
  BY <1>1, TakeOK
<1>3. ASSUME NEW j, j # k, Pending(j)
      PROVE  Pending(j)'
  <2>1. PICK i \in DOMAIN results : results[i].kind = j
    BY <1>3 DEF Pending
  <2>2. i # 1
    BY <1>1, <1>2, <1>3, <2>1
  <2> QED BY <1>2, <2>1, <2>2 DEF Pending
<1> QED BY <1>1, <1>2, <1>3, TakeOK

-----------------------------------------------------------------------------
(* The library                                                             *)

LEMMA OutcomesOK == ASSUME NEW k \in Kinds PROVE Outcomes(k) \subseteq AllOutcomes(k)
BY DEF Kinds, Outcomes, AllOutcomes

LEMMA RespondOK ==
  ASSUME TypeInv, Respond(Outcomes(slot))
  PROVE  /\ slot \in Kinds /\ answer = NoAnswer
         /\ answer'.kind = slot /\ AnswerOK' /\ slot' = NoRequest
<1>1. slot \in Kinds /\ answer = NoAnswer /\ slot' = NoRequest
  BY DEF TypeInv, TypeOK, Respond, Working, Busy, Kinds
<1>2. PICK o \in Outcomes(slot) : answer' = [kind |-> slot, outcome |-> o]
  BY DEF Respond
<1> QED BY <1>1, <1>2, OutcomesOK DEF AnswerOK

\* What a callback is given, and what it leaves.
LEMMA AnsweredOK ==
  ASSUME TypeInv, NEW k \in Kinds, Answered(k)
  PROVE  /\ answer.kind = k /\ answer.outcome \in AllOutcomes(k)
         /\ answer' = NoAnswer /\ answer'.kind = NoRequest /\ AnswerOK'
<1>1. answer # NoAnswer /\ answer.kind = k /\ answer' = NoAnswer
  BY DEF Answered, NoAnswer, NoRequest, Kinds
<1>2. PICK j \in Kinds : \E o \in AllOutcomes(j) : answer = [kind |-> j, outcome |-> o]
  BY <1>1 DEF TypeInv, AnswerOK
<1>3. answer'.kind = NoRequest
  BY <1>1 DEF NoAnswer
<1> QED BY <1>1, <1>2, <1>3 DEF AnswerOK

\* A cancel changes nothing that the panel sees.
LEMMA CancelMoves ==
  ASSUME TypeInv, Cancel
  PROVE  AnswerOK' /\ UNCHANGED <<slot, answer>>
BY DEF Cancel, clientVars, TypeInv, AnswerOK

-----------------------------------------------------------------------------
(* What the user does                                                      *)

\* The user did something, and no flow starts: the page goes to "idle", or its
\* code is polled if nothing is under way, or nothing changes, because a code is
\* being fetched, the protocol is not accepted or another page is on top.
Rests ==
  /\ FlowUnchanged
  /\ active => active'
  /\ \/ state' = "Idle" /\ (pollTimer' => pollTimer) /\ pollTimer' \in BOOLEAN
     \/ UNCHANGED <<state, pollTimer>> /\ (requestInFlight \/ ~accepted' \/ ~active')
     \/ UNCHANGED state /\ SchedulePoll(state, requestInFlight, pollInFlight, TRUE)

\* A flow starts.
Begins ==
  /\ active'
  /\ ~requestInFlight /\ requestInFlight'
  /\ ~pollTimer' /\ ~pollInFlight'
  /\ {active', requestInFlight', pollTimer', pollInFlight'} \subseteq BOOLEAN
  /\ state' = "LoadingCode"
  /\ \/ /\ initialized' = TRUE /\ imageCompletion' = TRUE /\ codeKey' = NoCode /\ keyCalls' = 1
        /\ UNCHANGED results
     \/ /\ ~initialized /\ initialized' = FALSE /\ imageCompletion' = FALSE
        /\ results' = Posted("image", "failed", NoCode) /\ UNCHANGED <<codeKey, keyCalls>>

Moved ==
  /\ keyCalls = 0 /\ moves < MaxMoves /\ moves' = moves + 1
  /\ UNCHANGED <<picture, loginCompletion, qrCalls, polled, codes, unheard>>

LEMMA StartOK ==
  ASSUME TypeInv, NEW ok \in BOOLEAN, StartNewFlow(ok), active', active' \in BOOLEAN
  PROVE  \/ ok /\ Begins
         \/ FlowUnchanged /\ ~ok /\ state' = "Idle" /\ pollTimer' = FALSE
         \/ FlowUnchanged /\ UNCHANGED <<state, pollTimer>> /\ requestInFlight
<1>1. CASE ok /\ MayStart /\ requestInFlight' = TRUE
  BY <1>1 DEF StartNewFlow, MayStart, RequestCodeImage, EnsureInitialized, Begins, TypeInv, TypeOK
<1> QED BY <1>1 DEF StartNewFlow, MayStart

LEMMA ActivateOK ==
  ASSUME TypeInv, NEW ok \in BOOLEAN, Activate(ok), accepted' = ok
  PROVE  (Rests \/ Begins) /\ active' = TRUE
<1>1. active' = TRUE
  BY DEF Activate
<1>2. CASE ~ok /\ state' = "Idle" /\ UNCHANGED pollTimer /\ FlowUnchanged
  BY <1>1, <1>2 DEF Rests, TypeInv, TypeOK
<1>3. CASE ok /\ StartNewFlow(ok)
  BY <1>1, <1>3, StartOK DEF Rests
<1>4. CASE ok /\ SchedulePoll(state, requestInFlight, pollInFlight, ok) /\ UNCHANGED state /\ FlowUnchanged
  BY <1>1, <1>4 DEF Rests
<1> QED BY <1>1, <1>2, <1>3, <1>4 DEF Activate

LEMMA UserOK ==
  ASSUME TypeInv, SelectTab \/ Refresh \/ ToggleProtocol
  PROVE  /\ Moved /\ UNCHANGED <<clientVars, left>>
         /\ Rests \/ Begins
         /\ {active', accepted'} \subseteq BOOLEAN
<1>1. Moved /\ UNCHANGED <<clientVars, left>>
  BY DEF SelectTab, Refresh, ToggleProtocol, Move, Moved, InEventLoop
<1>2. CASE SelectTab
  BY <1>1, <1>2, ActivateOK DEF SelectTab, TypeInv, TypeOK
<1>3. CASE Refresh
  <2>1. active /\ active' = active /\ accepted' = accepted /\ StartNewFlow(accepted)
    BY <1>3 DEF Refresh
  <2> QED BY <1>1, <2>1, StartOK DEF Rests, TypeInv, TypeOK
<1>4. CASE ToggleProtocol
  <2>1. accepted' = ~accepted /\ accepted' \in BOOLEAN
    BY <1>4 DEF ToggleProtocol, TypeInv, TypeOK
  <2>2. CASE ~accepted /\ active
    <3>1. Activate(TRUE) /\ accepted' = TRUE
      BY <1>4, <2>1, <2>2 DEF ToggleProtocol
    <3> QED BY <1>1, <2>1, <3>1, ActivateOK
  <2>3. CASE accepted \/ ~active
    <3>1. UNCHANGED <<active, state, pollTimer>> /\ FlowUnchanged
      BY <1>4, <2>3 DEF ToggleProtocol
    <3> QED BY <1>1, <2>1, <2>3, <3>1 DEF Rests, TypeInv, TypeOK
  <2> QED BY <2>2, <2>3 DEF TypeInv, TypeOK
<1> QED BY <1>2, <1>3, <1>4

-----------------------------------------------------------------------------
(* Types                                                                   *)

LEMMA ResultsOK ==
  /\ \A o \in ImageOutcomes : \A c \in Codes : [kind |-> "image", outcome |-> o, code |-> c] \in Results
  /\ \A o \in PollOutcomes : [kind |-> "poll", outcome |-> o, code |-> NoCode] \in Results
  /\ \A m \in Results : /\ m.kind \in {"image", "poll"} /\ m.code \in Codes \cup {NoCode}
                        /\ m.kind = "poll" => m.outcome \in PollOutcomes
BY DEF Results

LEMMA CompleteImageOK ==
  ASSUME TypeInv, NEW o \in ImageOutcomes, NEW c \in Codes, CompleteImage(o, c)
  PROVE  /\ imageCompletion' = FALSE /\ results' \in Seq(Results)
         /\ imageCompletion => Pending("image")'
         /\ \A j : Pending(j) => Pending(j)'
<1>1. CASE imageCompletion /\ results' = Posted("image", o, c)
  BY <1>1, ResultsOK, PostedOK DEF CompleteImage
<1>2. CASE ~imageCompletion /\ results' = results
  BY <1>2 DEF CompleteImage, TypeInv, Pending
<1> QED BY <1>1, <1>2 DEF CompleteImage

LEMMA CompleteLoginOK ==
  ASSUME TypeInv, NEW o \in PollOutcomes, CompleteLogin(o)
  PROVE  /\ loginCompletion' = FALSE /\ results' \in Seq(Results)
         /\ loginCompletion => Pending("poll")'
         /\ \A j : Pending(j) => Pending(j)'
<1>1. CASE loginCompletion /\ results' = Posted("poll", o, NoCode)
  BY <1>1, ResultsOK, PostedOK DEF CompleteLogin
<1>2. CASE ~loginCompletion /\ results' = results
  BY <1>2 DEF CompleteLogin, TypeInv, Pending
<1> QED BY <1>1, <1>2 DEF CompleteLogin

LEMMA TypeInit == Init => TypeInv
<1> SUFFICES ASSUME Init PROVE TypeInv
  OBVIOUS
<1>1. <<>> \in Seq(Results) /\ 0 \in 0 .. MaxCalls /\ 0 \in 0 .. MaxMoves /\ MaxMoves \in Nat
  BY CodeKeyAssumption DEF MaxCalls
<1>2. answer.kind = NoRequest /\ AnswerOK /\ slot = NoRequest
  BY DEF Init, ClientInit, AnswerOK, NoAnswer
<1>3. TypeOK
  BY <1>1, <1>2 DEF Init, TypeOK, States, Codes, NoCode
<1>4. CountInv
  BY <1>1, <1>2 DEF Init, CountInv, Spent, Token, FlowKinds, NoRequest
<1> QED BY <1>1, <1>2, <1>3, <1>4 DEF Init, TypeInv

\* The user and the timer.
LEMMA TypeUser ==
  ASSUME TypeInv, SelectTab \/ Refresh \/ ToggleProtocol
  PROVE  TypeInv'
<1> USE DEF TypeInv, TypeOK, clientVars
<1>1. /\ Moved /\ UNCHANGED <<slot, answer, left>>
      /\ {active', accepted'} \subseteq BOOLEAN
  BY UserOK
<1>2. AnswerOK'
  BY <1>1 DEF AnswerOK
<1>3. moves' \in 0 .. MaxMoves /\ moves \in Nat
  BY <1>1, BoundsOK DEF Moved, CountInv
<1>4. CASE Rests
  <2>1. {state', pollTimer'} \subseteq States \cup BOOLEAN /\ state' \in States /\ pollTimer' \in BOOLEAN
    BY <1>4 DEF Rests, SchedulePoll, ShouldPoll, HasCode, States
  <2>2. CountInv'
    BY <1>1, <1>3, <1>4, BoundsOK DEF CountInv, Moved, Rests, FlowUnchanged, Spent, Token
  <2> QED BY <1>1, <1>2, <1>4, <2>1, <2>2 DEF Moved, Rests, FlowUnchanged
<1>5. CASE Begins
  <2>1. results' \in Seq(Results)
    BY <1>5, ResultsOK, PostedOK, BoundsOK DEF Begins, ImageOutcomes
  <2>2. keyCalls' \in 0 .. MaxCalls /\ {initialized', imageCompletion'} \subseteq BOOLEAN
    BY <1>5, OneCall DEF Begins
  <2>3. CountInv'
    BY <1>1, <1>3, <1>5, BoundsOK DEF CountInv, Moved, Begins, Spent, Token
  <2>4. codeKey' \in Codes
    BY <1>5, BoundsOK DEF Begins
  <2>5. state' \in States /\ {requestInFlight', pollInFlight', pollTimer'} \subseteq BOOLEAN
    BY <1>5 DEF Begins, States
  <2> QED BY <1>1, <1>2, <2>1, <2>2, <2>3, <2>4, <2>5 DEF Moved
<1> QED BY UserOK, <1>4, <1>5

LEMMA CancelTypes ==
  ASSUME TypeInv, Cancel
  PROVE  /\ slot' \in {NoRequest, "key", "qr", "poll"}
         /\ answer'.kind \in {NoRequest, "key", "qr", "poll"}
         /\ AnswerOK'
         /\ Token(slot' \in FlowKinds) + Token(answer'.kind \in FlowKinds)
              = Token(slot \in FlowKinds) + Token(answer.kind \in FlowKinds)
BY CancelMoves DEF TypeInv, TypeOK

LEMMA TypeLeave ==
  ASSUME TypeInv, LeaveTab
  PROVE  TypeInv'
<1> USE DEF TypeInv, TypeOK
<1>1. Cancel
  BY DEF LeaveTab, clientVars
<1>2. /\ slot' \in {NoRequest, "key", "qr", "poll"}
      /\ answer'.kind \in {NoRequest, "key", "qr", "poll"}
      /\ AnswerOK'
      /\ Token(slot' \in FlowKinds) + Token(answer'.kind \in FlowKinds)
           = Token(slot \in FlowKinds) + Token(answer.kind \in FlowKinds)
  BY <1>1, CancelTypes DEF AnswerOK
<1>3. /\ {active', pollTimer', requestInFlight', pollInFlight', left'} \subseteq BOOLEAN
      /\ UNCHANGED <<accepted, state, keyCalls, results, initialized, imageCompletion, codeKey>>
      /\ UNCHANGED <<picture, loginCompletion, qrCalls, polled, codes, unheard>>
      /\ moves < MaxMoves /\ moves' = moves + 1 /\ keyCalls = 0
  BY DEF LeaveTab, Move, InEventLoop
<1>4. moves' \in 0 .. MaxMoves /\ moves \in Nat
  BY <1>3, BoundsOK DEF CountInv
<1>5. Spent' <= moves'
  <2>1. codes \in Nat
    BY BoundsOK
  <2>2. Spent' = Spent
    BY <1>2, <1>3, <2>1 DEF Spent, Token
  <2>3. Spent \in Nat
    BY <2>1 DEF Spent, Token
  <2> QED BY <1>3, <1>4, <2>2, <2>3 DEF CountInv
<1>6. qrCalls' > 0 => answer'.kind = "key"
  <2>1. qrCalls > 0 => UNCHANGED answer
    BY <1>1, CancelMoves DEF CountInv, Kinds
  <2> QED BY <1>3, <2>1 DEF CountInv
<1> QED BY <1>2, <1>3, <1>4, <1>5, <1>6 DEF CountInv

LEMMA TypeUi ==
  ASSUME TypeInv, UiStep
  PROVE  TypeInv'
<1> USE DEF TypeInv, TypeOK, clientVars, panelVars, authVars, history
<1>1. CASE GetDynamicKey
  <2>1. UNCHANGED <<accepted, panelVars, initialized, loginCompletion, qrCalls, codeKey, polled,
                    history, codes, unheard>>
    BY <1>1 DEF GetDynamicKey
  <2>2. CASE Take("key") /\ keyCalls' = 0 /\ UNCHANGED <<answer, results, imageCompletion>>
    <3>1. CountInv'
      BY <1>1, <2>1, <2>2, BoundsOK
         DEF GetDynamicKey, CountInv, Spent, Token, Take, Busy, FlowKinds, NoRequest
    <3> QED BY <2>1, <2>2, <3>1, OneCall DEF Take, AnswerOK
  <2>3. CASE Busy /\ Cancel
    <3>1. /\ keyCalls' \in 0 .. MaxCalls /\ results' \in Seq(Results) /\ imageCompletion' \in BOOLEAN
          /\ keyCalls > 0
      <4>1. CASE keyCalls' = keyCalls + 1 /\ MayRetry(keyCalls) /\ UNCHANGED <<results,
                                                                               imageCompletion>>
        <5>1. keyCalls + 1 \in 0 .. MaxCalls
          BY <4>1 DEF MaxCalls, MayRetry
        <5> QED BY <1>1, <4>1, <5>1 DEF GetDynamicKey
      <4>2. CASE keyCalls' = 0 /\ GiveUp
        <5>1. "failed" \in ImageOutcomes
          BY DEF ImageOutcomes
        <5> QED BY <1>1, <4>2, <5>1, OneCall, BoundsOK, CompleteImageOK DEF GiveUp, GetDynamicKey
      <4> QED BY <1>1, <2>3, <4>1, <4>2 DEF GetDynamicKey, Take
    <3>2. /\ slot' \in {NoRequest, "key", "qr", "poll"}
          /\ answer'.kind \in {NoRequest, "key", "qr", "poll"}
          /\ AnswerOK'
          /\ Token(slot' \in FlowKinds) + Token(answer'.kind \in FlowKinds)
               = Token(slot \in FlowKinds) + Token(answer.kind \in FlowKinds)
      BY <2>3, CancelTypes
    <3>3. Spent' <= Spent /\ Spent \in Nat /\ Spent' \in Nat
      BY <2>1, <3>1, <3>2, BoundsOK DEF Spent, Token
    <3>4. qrCalls > 0 => UNCHANGED answer
      BY <2>3, CancelMoves DEF CountInv, Kinds
    <3>5. CountInv'
      BY <2>1, <3>3, <3>4 DEF CountInv
    <3> QED BY <2>1, <3>1, <3>2, <3>5
  <2> QED BY <1>1, <2>2, <2>3 DEF GetDynamicKey
<1>2. CASE HandleCodeImageResult
  <2>1. NextResult("image")
    BY <1>2 DEF HandleCodeImageResult
  <2>2. /\ UNCHANGED <<slot, answer, accepted, active, keyCalls, authVars, qrCalls, codeKey, polled,
                       history, codes, unheard>>
        /\ results' \in Seq(Results) /\ Head(results).code \in Codes
    BY <2>1, TakenOK, BoundsOK, ResultsOK DEF NextResult
  <2>3. /\ requestInFlight' = FALSE /\ UNCHANGED pollInFlight
        /\ picture' \in {picture, Head(results).code}
        /\ state' \in {state, "CodeReady", "Failed"}
        /\ pollTimer' \in BOOLEAN
    BY <1>2 DEF HandleCodeImageResult, SchedulePoll, ShouldPoll, HasCode
  <2> QED BY <2>2, <2>3 DEF AnswerOK, CountInv, Spent, States
<1>3. CASE HandleLoginPollResult
  <2>1. NextResult("poll")
    BY <1>3 DEF HandleLoginPollResult
  <2>2. /\ UNCHANGED <<slot, answer, accepted, active, keyCalls, authVars, qrCalls, codeKey, polled,
                       history, codes, unheard>>
        /\ results' \in Seq(Results) /\ Head(results).outcome \in PollOutcomes
    BY <2>1, TakenOK, ResultsOK DEF NextResult
  <2>3. /\ pollInFlight' = FALSE /\ UNCHANGED <<requestInFlight, picture>>
        /\ state' \in {state, StateFor(Head(results).outcome)}
        /\ pollTimer' \in BOOLEAN
    BY <1>3 DEF HandleLoginPollResult, SchedulePoll, ShouldPoll, HasCode
  <2>4. StateFor(Head(results).outcome) \in States
    BY <2>2 DEF StateFor, States, PollOutcomes
  <2> QED BY <2>2, <2>3, <2>4 DEF AnswerOK, CountInv, Spent
<1>4. CASE PollOnce
  <2>1. /\ UNCHANGED <<answer, accepted, active, requestInFlight, picture, keyCalls, initialized,
                       imageCompletion, qrCalls, codeKey, history, codes, unheard>>
        /\ pollTimer' = FALSE
    BY <1>4 DEF PollOnce
  <2>2. \/ UNCHANGED <<slot, pollInFlight, loginCompletion, results, polled>> /\ state' \in {state, "Idle"}
        \/ pollInFlight' = TRUE /\ UNCHANGED state /\ ~Busy /\ slot' = "poll" /\ loginCompletion' = TRUE
           /\ polled' = codeKey /\ UNCHANGED results
        \/ pollInFlight' = TRUE /\ UNCHANGED <<state, slot, polled>> /\ loginCompletion' = FALSE
           /\ results' = Posted("poll", "continue", NoCode)
    BY <1>4 DEF PollOnce, Take, PollTurnedAway, TurnedAway
  <2>3. results' \in Seq(Results)
    BY <2>2, ResultsOK, PostedOK DEF PollOutcomes
  <2>4. /\ {pollInFlight', loginCompletion'} \subseteq BOOLEAN /\ state' \in States
        /\ slot' \in {slot, "poll"} /\ (slot' # slot => slot = NoRequest) /\ polled' \in Codes
    BY <2>2 DEF States, Busy
  <2>5. CountInv'
    BY <2>1, <2>4, BoundsOK DEF CountInv, Spent, Token, FlowKinds, NoRequest
  <2> QED BY <2>1, <2>3, <2>4, <2>5 DEF AnswerOK
<1> QED BY <1>1, <1>2, <1>3, <1>4 DEF UiStep

LEMMA TypeWorker ==
  ASSUME TypeInv, WorkerStep
  PROVE  TypeInv'
<1> USE DEF TypeInv, TypeOK, panelVars, history
<1>1. CallbackFrame
  BY DEF WorkerStep, ServerAnswers, HandleDynamicKey, GetQrCode, HandleQrCode, HandleLoginResult
<1>2. CASE ServerAnswers
  <2>1. /\ slot \in Kinds /\ answer = NoAnswer /\ answer.kind = NoRequest
        /\ answer'.kind = slot /\ AnswerOK' /\ slot' = NoRequest
    BY <1>2, RespondOK DEF ServerAnswers, NoAnswer
  <2>2. UNCHANGED <<results, imageCompletion, loginCompletion, qrCalls, codeKey, codes, unheard>>
    BY <1>2 DEF ServerAnswers
  <2>3. CountInv'
    BY <1>1, <2>1, <2>2, BoundsOK
       DEF CallbackFrame, CountInv, Spent, Token, FlowKinds, Kinds, NoRequest
  <2> QED BY <1>1, <2>1, <2>2, <2>3 DEF CallbackFrame, Kinds
<1>3. CASE HandleDynamicKey
  <2>1. UNCHANGED <<slot, loginCompletion, codeKey, codes, unheard>>
    BY <1>3 DEF HandleDynamicKey
  <2>2. CASE answer = [kind |-> "key", outcome |-> "ok"] /\ qrCalls' = 1
             /\ UNCHANGED <<answer, imageCompletion, results>>
    <3>1. answer.kind = "key"
      BY <2>2
    <3>2. CountInv'
      BY <1>1, <2>1, <2>2, <3>1 DEF CallbackFrame, CountInv, Spent
    <3> QED BY <1>1, <2>1, <2>2, <3>2, OneCall DEF CallbackFrame, AnswerOK
  <2>3. CASE Answered("key") /\ CompleteImage("failed", NoCode) /\ UNCHANGED qrCalls
    <3>1. answer'.kind = NoRequest /\ AnswerOK' /\ answer.kind = "key"
      BY <2>3, AnsweredOK DEF Kinds
    <3>2. imageCompletion' = FALSE /\ results' \in Seq(Results)
      BY <2>3, CompleteImageOK, BoundsOK DEF ImageOutcomes
    <3>3. qrCalls' = 0
      BY <1>3, <2>3 DEF HandleDynamicKey
    <3>4. CountInv'
      BY <1>1, <2>1, <3>1, <3>3, BoundsOK
         DEF CallbackFrame, CountInv, Spent, Token, FlowKinds, NoRequest
    <3> QED BY <1>1, <2>1, <2>3, <3>1, <3>2, <3>4 DEF CallbackFrame
  <2> QED BY <1>3, <2>2, <2>3 DEF HandleDynamicKey
<1>4. CASE GetQrCode
  <2>1. /\ UNCHANGED <<loginCompletion, codeKey, codes, unheard>> /\ qrCalls > 0
    BY <1>4 DEF GetQrCode
  <2>2. CASE Take("qr") /\ Answered("key") /\ qrCalls' = 0 /\ UNCHANGED <<imageCompletion, results>>
    <3>1. answer'.kind = NoRequest /\ AnswerOK' /\ answer.kind = "key"
      BY <2>2, AnsweredOK DEF Kinds
    <3>2. CountInv'
      BY <1>1, <2>1, <2>2, <3>1, BoundsOK
         DEF CallbackFrame, CountInv, Spent, Token, FlowKinds, NoRequest, Take, Busy
    <3> QED BY <1>1, <2>1, <2>2, <3>1, <3>2, OneCall DEF CallbackFrame, Take
  <2>3. CASE Cancel /\ MayRetry(qrCalls) /\ qrCalls' = qrCalls + 1
             /\ UNCHANGED <<imageCompletion, results>>
    <3>1. qrCalls + 1 \in 0 .. MaxCalls
      BY <2>3 DEF MaxCalls, MayRetry
    <3>2. answer.kind = "key" /\ UNCHANGED <<slot, answer>>
      BY <2>1, <2>3, CancelMoves DEF CountInv, Kinds, NoRequest
    <3>3. CountInv'
      BY <1>1, <2>1, <3>2 DEF CallbackFrame, CountInv, Spent
    <3> QED BY <1>1, <2>1, <2>3, <3>1, <3>2, <3>3 DEF CallbackFrame, AnswerOK
  <2>4. CASE TurnedAway /\ Answered("key") /\ qrCalls' = 0 /\ CompleteImage("failed", NoCode)
    <3>1. answer'.kind = NoRequest /\ AnswerOK' /\ answer.kind = "key"
      BY <2>4, AnsweredOK DEF Kinds
    <3>2. imageCompletion' = FALSE /\ results' \in Seq(Results)
      BY <2>4, CompleteImageOK, BoundsOK DEF ImageOutcomes
    <3>3. CountInv'
      BY <1>1, <2>1, <2>4, <3>1, BoundsOK
         DEF CallbackFrame, CountInv, Spent, Token, FlowKinds, NoRequest, TurnedAway
    <3> QED BY <1>1, <2>1, <2>4, <3>1, <3>2, <3>3, OneCall DEF CallbackFrame, TurnedAway
  <2> QED BY <1>4, <2>2, <2>3, <2>4 DEF GetQrCode
<1>5. CASE HandleQrCode
  <2>1. answer'.kind = NoRequest /\ AnswerOK' /\ answer.kind = "qr" /\ answer.outcome \in ImageOutcomes
    BY <1>5, AnsweredOK DEF HandleQrCode, Kinds, AllOutcomes, ImageOutcomes
  <2>2. UNCHANGED <<slot, loginCompletion, qrCalls, unheard>>
    BY <1>5 DEF HandleQrCode
  <2>3. codes + 1 \in Codes /\ codes \in Nat /\ codes + 1 <= moves /\ moves \in Nat
    BY <2>1, BoundsOK DEF CountInv, Spent, Token, FlowKinds, Codes
  <2>4. codes' \in {codes, codes + 1} /\ codeKey' \in {NoCode, codes + 1}
    BY <1>5 DEF HandleQrCode
  <2>5. imageCompletion' = FALSE /\ results' \in Seq(Results)
    <3>1. (IF answer.outcome = "ok" THEN codes + 1 ELSE NoCode) \in Codes
      BY <2>3, BoundsOK
    <3> QED BY <1>5, <2>1, <3>1, CompleteImageOK DEF HandleQrCode
  <2>6. CountInv'
    <3>1. answer.kind \in FlowKinds /\ answer'.kind \notin FlowKinds
      BY <2>1 DEF FlowKinds, NoRequest
    <3>2. UNCHANGED <<slot, keyCalls, moves>>
      BY <1>1, <2>2 DEF CallbackFrame
    <3>3. Spent' <= Spent /\ Spent \in Nat /\ Spent' \in Nat
      <4>1. PICK held \in 0 .. 2 : Spent = codes + held + 1 /\ Spent' = codes' + held
        BY <2>3, <2>4, <3>1, <3>2 DEF Spent, Token
      <4> QED BY <2>3, <2>4, <4>1, OneMoreCode
    <3>4. ~(qrCalls > 0)
      BY <2>1 DEF CountInv
    <3> QED BY <2>2, <3>2, <3>3, <3>4 DEF CountInv
  <2> QED BY <1>1, <2>1, <2>2, <2>3, <2>4, <2>5, <2>6, BoundsOK DEF CallbackFrame
<1>6. CASE HandleLoginResult
  <2>1. /\ answer'.kind = NoRequest /\ AnswerOK' /\ answer.kind = "poll"
        /\ (Heard(answer.outcome) => answer.outcome \in PollOutcomes)
    BY <1>6, AnsweredOK DEF HandleLoginResult, Kinds, AllOutcomes, PollOutcomes, Heard
  <2>2. UNCHANGED <<slot, imageCompletion, qrCalls, codeKey, codes>>
    BY <1>6 DEF HandleLoginResult
  <2>3. {loginCompletion', unheard'} \subseteq BOOLEAN /\ results' \in Seq(Results)
    BY <1>6, <2>1, CompleteLoginOK DEF HandleLoginResult
  <2>4. qrCalls = 0
    BY <2>1, OneCall DEF CountInv, MaxCalls
  <2>5. CountInv'
    BY <1>1, <2>1, <2>2, <2>4, BoundsOK
       DEF CallbackFrame, CountInv, Spent, Token, FlowKinds, NoRequest
  <2> QED BY <1>1, <2>1, <2>2, <2>3, <2>5 DEF CallbackFrame
<1> QED BY <1>2, <1>3, <1>4, <1>5, <1>6 DEF WorkerStep

LEMMA TypeNext == TypeInv /\ [Next]_vars => TypeInv'
<1>1. TypeInv /\ UNCHANGED vars => TypeInv'
  BY DEF vars, clientVars, panelVars, authVars, history, TypeInv, TypeOK, AnswerOK, CountInv, Spent
<1> QED BY <1>1, TypeUi, TypeWorker, TypeUser, TypeLeave DEF Next, UserStep

\* The members of the panel and of the authenticator stay in their types, and there
\* are never more codes than moves of the user.
THEOREM TypeCorrect == Spec => []TypeOK
<1>1. TypeInv => TypeOK
  BY DEF TypeInv
<1> QED BY TypeInit, TypeNext, <1>1, PTL DEF Spec

-----------------------------------------------------------------------------
(* What is awaited is under way                                            *)

InTheLibrary == keyCalls > 0 \/ slot \in FlowKinds \/ answer.kind \in FlowKinds

LEMMA UnderwayOK ==
  /\ CodeUnderway <=> Pending("image") \/ (imageCompletion /\ InTheLibrary)
  /\ PollUnderway <=> Pending("poll") \/ (loginCompletion /\ (slot = "poll" \/ answer.kind = "poll"))
BY DEF CodeUnderway, PollUnderway, InTheLibrary, FlowKinds

LEMMA UnderwayNextOK ==
  /\ CodeUnderway' <=> Pending("image")' \/ (imageCompletion' /\ InTheLibrary')
  /\ PollUnderway' <=>
       Pending("poll")' \/ (loginCompletion' /\ (slot' = "poll" \/ answer'.kind = "poll"))
BY DEF CodeUnderway, PollUnderway, InTheLibrary, FlowKinds

LEMMA BeginsOK ==
  ASSUME TypeInv, Moved, UNCHANGED clientVars, Begins
  PROVE  CodeUnderway' /\ (PollUnderway => PollUnderway')
<1>1. UNCHANGED <<slot, answer, loginCompletion>>
  BY DEF Moved, clientVars
<1>2. CASE imageCompletion' = TRUE /\ keyCalls' = 1 /\ UNCHANGED results
  <2>1. InTheLibrary' /\ (Pending("poll") => Pending("poll")')
    BY <1>2 DEF InTheLibrary, Pending
  <2> QED BY <1>1, <1>2, <2>1, UnderwayOK, UnderwayNextOK
<1>3. CASE results' = Posted("image", "failed", NoCode)
  <2>1. Pending("image")' /\ (Pending("poll") => Pending("poll")')
    BY <1>3, PostedOK, ResultsOK, BoundsOK DEF ImageOutcomes
  <2> QED BY <1>1, <2>1, UnderwayOK, UnderwayNextOK
<1> QED BY <1>2, <1>3 DEF Begins

\* Only the panel takes the picture out of the queue.
LEMMA CodeKept ==
  ASSUME TypeInv, [Next]_vars, ~HandleCodeImageResult, CodeUnderway
  PROVE  CodeUnderway'
<1>1. CASE UNCHANGED <<slot, answer, keyCalls, imageCompletion>> /\ (Pending("image") => Pending("image")')
  BY <1>1, UnderwayOK, UnderwayNextOK DEF InTheLibrary
<1>2. CASE SelectTab \/ Refresh \/ ToggleProtocol
  <2>1. CASE Rests
    BY <1>1, <1>2, <2>1, UserOK DEF Rests, FlowUnchanged, clientVars, Pending
  <2> QED BY <1>2, <2>1, UserOK, BeginsOK
<1>3. ASSUME UNCHANGED <<keyCalls, results, imageCompletion>>,
             UNCHANGED clientVars \/ Cancel \/ Respond(Outcomes(slot))
      PROVE  CodeUnderway'
  <2>1. answer'.kind \in {answer.kind, slot} /\ (answer.kind \in Kinds => UNCHANGED answer)
        /\ (slot \in Kinds => slot \in {slot', answer'.kind})
    BY <1>3, CancelMoves, RespondOK DEF clientVars, Kinds, NoAnswer, NoRequest
  <2>2. InTheLibrary => InTheLibrary'
    BY <1>3, <2>1 DEF InTheLibrary, FlowKinds, Kinds
  <2> QED BY <1>3, <2>2, UnderwayOK, UnderwayNextOK DEF Pending
<1>4. CASE LeaveTab
  BY <1>3, <1>4 DEF LeaveTab
<1>5. CASE ServerAnswers
  BY <1>3, <1>5 DEF ServerAnswers, CallbackFrame
<1>6. ASSUME NEW o \in ImageOutcomes, NEW c \in Codes, CompleteImage(o, c)
      PROVE  CodeUnderway'
  BY <1>6, CompleteImageOK, UnderwayOK, UnderwayNextOK
<1>7. CASE GetDynamicKey
  <2>1. CASE Take("key") /\ UNCHANGED <<results, imageCompletion>>
    BY <2>1, UnderwayOK, UnderwayNextOK DEF Take, InTheLibrary, FlowKinds, Pending
  <2>2. CASE keyCalls' = keyCalls + 1 /\ UNCHANGED <<results, imageCompletion>>
    <3>1. keyCalls' > 0
      BY <1>7, <2>2 DEF GetDynamicKey, TypeInv, TypeOK, MaxCalls
    <3> QED BY <2>2, <3>1, UnderwayOK, UnderwayNextOK DEF InTheLibrary, Pending
  <2>3. CASE GiveUp
    BY <1>6, <2>3, BoundsOK DEF GiveUp, ImageOutcomes
  <2> QED BY <1>7, <2>1, <2>2, <2>3 DEF GetDynamicKey
<1>8. CASE HandleLoginPollResult
  <2>1. NextResult("poll") /\ UNCHANGED <<slot, answer, keyCalls, imageCompletion>>
    BY <1>8 DEF HandleLoginPollResult, NextResult, clientVars, authVars
  <2> QED BY <1>1, <2>1, TakenOK
<1>9. CASE PollOnce
  <2>1. UNCHANGED <<answer, keyCalls, imageCompletion>>
    BY <1>9 DEF PollOnce
  <2>2. slot' = slot \/ ~Busy
    BY <1>9 DEF PollOnce, Take, PollTurnedAway, TurnedAway
  <2>3. InTheLibrary => InTheLibrary'
    BY <2>1, <2>2 DEF InTheLibrary, Busy, FlowKinds, NoRequest
  <2>4. results' = results \/ results' = Posted("poll", "continue", NoCode)
    BY <1>9 DEF PollOnce, PollTurnedAway
  <2>5. Pending("image") => Pending("image")'
    <3>1. CASE results' = results
      BY <3>1 DEF Pending
    <3>2. CASE results' = Posted("poll", "continue", NoCode)
      BY <3>2, PostedOK, ResultsOK DEF PollOutcomes
    <3> QED BY <2>4, <3>1, <3>2
  <2> QED BY <2>1, <2>3, <2>5, UnderwayOK, UnderwayNextOK
<1>10. CASE HandleDynamicKey
  <2>1. CASE UNCHANGED <<answer, imageCompletion, results>>
    BY <1>1, <1>10, <2>1 DEF HandleDynamicKey, CallbackFrame, Pending
  <2>2. CASE CompleteImage("failed", NoCode)
    BY <1>6, <2>2, BoundsOK DEF ImageOutcomes
  <2> QED BY <1>10, <2>1, <2>2 DEF HandleDynamicKey
<1>11. CASE GetQrCode
  <2>1. CASE Take("qr") /\ UNCHANGED <<imageCompletion, results>>
    BY <2>1, UnderwayOK, UnderwayNextOK DEF Take, InTheLibrary, FlowKinds, Pending
  <2>2. CASE Cancel /\ UNCHANGED <<imageCompletion, results>>
    BY <1>3, <1>11, <2>2 DEF GetQrCode, CallbackFrame
  <2>3. CASE CompleteImage("failed", NoCode)
    BY <1>6, <2>3, BoundsOK DEF ImageOutcomes
  <2> QED BY <1>11, <2>1, <2>2, <2>3 DEF GetQrCode
<1>12. CASE HandleQrCode
  <2>1. answer.kind = "qr" /\ answer.outcome \in ImageOutcomes
    BY <1>12, AnsweredOK DEF HandleQrCode, Kinds, AllOutcomes, ImageOutcomes
  <2>2. codes + 1 \in Codes
    BY <2>1, BoundsOK DEF TypeInv, CountInv, Spent, Token, FlowKinds, Codes
  <2>3. (IF answer.outcome = "ok" THEN codes + 1 ELSE NoCode) \in Codes
    BY <2>2, BoundsOK
  <2> QED BY <1>6, <1>12, <2>1, <2>3 DEF HandleQrCode
<1>13. CASE HandleLoginResult
  <2>1. answer.kind = "poll" /\ (Heard(answer.outcome) => answer.outcome \in PollOutcomes)
    BY <1>13, AnsweredOK DEF HandleLoginResult, Kinds, AllOutcomes, PollOutcomes, Heard
  <2>2. UNCHANGED <<slot, keyCalls, imageCompletion>>
    BY <1>13 DEF HandleLoginResult, CallbackFrame
  <2>3. InTheLibrary => InTheLibrary'
    BY <2>1, <2>2 DEF InTheLibrary, FlowKinds
  <2>4. Pending("image") => Pending("image")'
    <3>1. CASE UNCHANGED results
      BY <3>1 DEF Pending
    <3>2. CASE Heard(answer.outcome) /\ CompleteLogin(answer.outcome)
      BY <2>1, <3>2, CompleteLoginOK
    <3> QED BY <1>13, <3>1, <3>2 DEF HandleLoginResult
  <2> QED BY <2>2, <2>3, <2>4, UnderwayOK, UnderwayNextOK
<1>14. CASE UNCHANGED vars
  BY <1>1, <1>14 DEF vars, clientVars, authVars, Pending
<1> QED BY <1>2, <1>4, <1>5, <1>7, <1>8, <1>9, <1>10, <1>11, <1>12, <1>13, <1>14
        DEF Next, UiStep, WorkerStep, UserStep

\* Only the panel takes the result of a poll out of the queue.
LEMMA PollKept ==
  ASSUME TypeInv, [Next]_vars, ~HandleLoginPollResult, PollUnderway
  PROVE  PollUnderway' \/ unheard'
<1>1. CASE UNCHANGED loginCompletion /\ (Pending("poll") => Pending("poll")')
           /\ (slot = "poll" \/ answer.kind = "poll" => slot' = "poll" \/ answer'.kind = "poll")
  BY <1>1, UnderwayOK, UnderwayNextOK
<1>2. CASE SelectTab \/ Refresh \/ ToggleProtocol
  <2>1. CASE Rests
    BY <1>1, <1>2, <2>1, UserOK DEF Rests, FlowUnchanged, Moved, clientVars, Pending
  <2> QED BY <1>2, <2>1, UserOK, BeginsOK
<1>3. ASSUME UNCHANGED loginCompletion, Pending("poll") => Pending("poll")',
             UNCHANGED clientVars \/ Cancel \/ Respond(Outcomes(slot))
      PROVE  PollUnderway'
  <2>1. slot = "poll" \/ answer.kind = "poll" => slot' = "poll" \/ answer'.kind = "poll"
    BY <1>3, CancelMoves, RespondOK DEF clientVars, Kinds, NoAnswer, NoRequest
  <2> QED BY <1>1, <1>3, <2>1, UnderwayOK, UnderwayNextOK
<1>4. CASE LeaveTab
  BY <1>3, <1>4 DEF LeaveTab, Move, Pending
<1>5. CASE ServerAnswers
  BY <1>3, <1>5 DEF ServerAnswers, Pending
<1>6. ASSUME NEW o \in ImageOutcomes, NEW c \in Codes, CompleteImage(o, c)
      PROVE  Pending("poll") => Pending("poll")'
  BY <1>6, CompleteImageOK
<1>7. CASE GetDynamicKey
  <2>1. UNCHANGED loginCompletion
    BY <1>7 DEF GetDynamicKey
  <2>2. CASE Take("key") /\ UNCHANGED <<answer, results>>
    BY <1>1, <2>1, <2>2 DEF Take, Busy, NoRequest, Pending
  <2>3. CASE Cancel /\ UNCHANGED results
    BY <1>3, <2>1, <2>3 DEF Pending
  <2>4. CASE Cancel /\ GiveUp
    BY <1>3, <1>6, <2>1, <2>4, BoundsOK DEF GiveUp, ImageOutcomes
  <2> QED BY <1>7, <2>2, <2>3, <2>4 DEF GetDynamicKey
<1>8. CASE HandleCodeImageResult
  <2>1. NextResult("image") /\ UNCHANGED <<slot, answer, loginCompletion>>
    BY <1>8 DEF HandleCodeImageResult, NextResult, clientVars, authVars
  <2> QED BY <1>1, <2>1, TakenOK
<1>9. CASE PollOnce
  <2>1. CASE UNCHANGED <<slot, loginCompletion, results>>
    BY <1>1, <1>9, <2>1 DEF PollOnce, Pending
  <2>2. CASE slot' = "poll" /\ loginCompletion' = TRUE
    BY <2>2, UnderwayNextOK
  <2>3. CASE PollTurnedAway
    BY <2>3, PostedOK, ResultsOK, UnderwayNextOK DEF PollTurnedAway, PollOutcomes
  <2> QED BY <1>9, <2>1, <2>2, <2>3 DEF PollOnce, Take
<1>10. ASSUME NEW k \in FlowKinds, answer.kind = k, slot' = slot \/ slot = NoRequest,
              UNCHANGED loginCompletion, Pending("poll") => Pending("poll")'
       PROVE  PollUnderway'
  BY <1>1, <1>10, UnderwayOK, UnderwayNextOK DEF FlowKinds, NoRequest
<1>11. CASE HandleDynamicKey
  <2>1. UNCHANGED <<slot, loginCompletion>> /\ answer.kind = "key"
    BY <1>11 DEF HandleDynamicKey, Answered
  <2>2. Pending("poll") => Pending("poll")'
    <3>1. CASE UNCHANGED results
      BY <3>1 DEF Pending
    <3>2. CASE CompleteImage("failed", NoCode)
      BY <1>6, <3>2, BoundsOK DEF ImageOutcomes
    <3> QED BY <1>11, <3>1, <3>2 DEF HandleDynamicKey
  <2> QED BY <1>10, <2>1, <2>2 DEF FlowKinds
<1>12. CASE GetQrCode
  <2>1. UNCHANGED loginCompletion /\ answer.kind = "key"
    BY <1>12 DEF GetQrCode, TypeInv, CountInv
  <2>2. CASE Cancel /\ UNCHANGED results
    BY <1>3, <2>1, <2>2 DEF Pending
  <2>3. CASE Take("qr") /\ UNCHANGED results
    BY <1>10, <2>1, <2>3 DEF FlowKinds, Pending, Take, Busy
  <2>4. CASE TurnedAway /\ CompleteImage("failed", NoCode)
    BY <1>6, <1>10, <2>1, <2>4, BoundsOK DEF ImageOutcomes, FlowKinds, TurnedAway
  <2> QED BY <1>12, <2>2, <2>3, <2>4 DEF GetQrCode
<1>13. CASE HandleQrCode
  <2>1. answer.kind = "qr" /\ answer.outcome \in ImageOutcomes /\ UNCHANGED <<slot,
                                                                              loginCompletion>>
    BY <1>13, AnsweredOK DEF HandleQrCode, Kinds, AllOutcomes, ImageOutcomes
  <2>2. codes + 1 \in Codes
    BY <2>1, BoundsOK DEF TypeInv, CountInv, Spent, Token, FlowKinds, Codes
  <2>3. (IF answer.outcome = "ok" THEN codes + 1 ELSE NoCode) \in Codes
    BY <2>2, BoundsOK
  <2> QED BY <1>6, <1>10, <1>13, <2>1, <2>3 DEF HandleQrCode, FlowKinds
<1>14. CASE HandleLoginResult
  <2>1. answer.kind = "poll" /\ (Heard(answer.outcome) => answer.outcome \in PollOutcomes)
    BY <1>14, AnsweredOK DEF HandleLoginResult, Kinds, AllOutcomes, PollOutcomes, Heard
  <2>2. CASE Heard(answer.outcome) /\ CompleteLogin(answer.outcome)
    BY <2>1, <2>2, CompleteLoginOK, UnderwayOK, UnderwayNextOK
  <2> QED BY <1>14, <2>2 DEF HandleLoginResult
<1>15. CASE UNCHANGED vars
  BY <1>1, <1>15 DEF vars, clientVars, authVars, Pending
<1> QED BY <1>2, <1>4, <1>5, <1>7, <1>8, <1>9, <1>11, <1>12, <1>13, <1>14, <1>15
        DEF Next, UiStep, WorkerStep, UserStep

LEMMA UnheardKept ==
  ASSUME TypeInv, [Next]_vars, unheard
  PROVE  unheard'
<1>1. UNCHANGED unheard \/ HandleLoginResult \/ LeaveTab
  BY UserOK DEF Next, UiStep, WorkerStep, UserStep, Moved, GetDynamicKey, HandleCodeImageResult,
     HandleLoginPollResult, NextResult, PollOnce, ServerAnswers, HandleDynamicKey, GetQrCode,
     HandleQrCode, vars
<1> QED BY <1>1 DEF HandleLoginResult, LeaveTab, Move

LEMMA AwaitedNext ==
  ASSUME TypeInv, NothingAwaitedInVain, [Next]_vars
  PROVE  NothingAwaitedInVain'
<1>1. ASSUME requestInFlight' PROVE CodeUnderway'
  <2>1. CASE SelectTab \/ Refresh \/ ToggleProtocol
    <3>1. CASE Begins
      BY <2>1, <3>1, UserOK, BeginsOK
    <3>2. CASE Rests
      <4>1. requestInFlight /\ ~HandleCodeImageResult
        BY <1>1, <3>2 DEF Rests, FlowUnchanged, HandleCodeImageResult
      <4> QED BY <4>1, CodeKept DEF NothingAwaitedInVain
    <3> QED BY <2>1, <3>1, <3>2, UserOK
  <2>2. CASE ~(SelectTab \/ Refresh \/ ToggleProtocol)
    <3>1. ~HandleCodeImageResult /\ ~LeaveTab
      BY <1>1 DEF HandleCodeImageResult, LeaveTab
    <3>2. UNCHANGED requestInFlight
      BY <2>2, <3>1 DEF Next, UiStep, WorkerStep, UserStep, GetDynamicKey, HandleLoginPollResult,
         PollOnce, ServerAnswers, HandleDynamicKey, GetQrCode, HandleQrCode, HandleLoginResult,
         CallbackFrame, panelVars, vars
    <3> QED BY <1>1, <3>1, <3>2, CodeKept DEF NothingAwaitedInVain
  <2> QED BY <2>1, <2>2
<1>2. ASSUME pollInFlight' PROVE PollUnderway' \/ unheard'
  <2>1. ~HandleLoginPollResult /\ ~LeaveTab
    BY <1>2 DEF HandleLoginPollResult, LeaveTab
  <2>2. CASE pollInFlight
    BY <2>1, <2>2, PollKept, UnheardKept DEF NothingAwaitedInVain
  <2>3. CASE PollOnce /\ ~pollInFlight
    <3>1. CASE slot' = "poll" /\ loginCompletion' = TRUE
      BY <3>1, UnderwayNextOK
    <3>2. CASE PollTurnedAway
      BY <3>2, PostedOK, ResultsOK, UnderwayNextOK DEF PollTurnedAway, PollOutcomes
    <3> QED BY <1>2, <2>3, <3>1, <3>2 DEF PollOnce, Take
  <2>4. CASE SelectTab \/ Refresh \/ ToggleProtocol
    <3>1. pollInFlight' => pollInFlight
      BY <2>4, UserOK DEF Rests, Begins, FlowUnchanged
    <3> QED BY <1>2, <2>2, <3>1
  <2>5. CASE ~(SelectTab \/ Refresh \/ ToggleProtocol) /\ ~PollOnce
    <3>1. UNCHANGED pollInFlight
      BY <2>1, <2>5 DEF Next, UiStep, WorkerStep, UserStep, GetDynamicKey, HandleCodeImageResult,
         ServerAnswers, HandleDynamicKey, GetQrCode, HandleQrCode, HandleLoginResult,
         CallbackFrame, panelVars, vars
    <3> QED BY <1>2, <2>2, <3>1
  <2> QED BY <2>2, <2>3, <2>4, <2>5
<1> QED BY <1>1, <1>2 DEF NothingAwaitedInVain

\* Whatever flows, tab changes and late answers overlap, what the panel waits for is
\* on its way: no flag of the panel stays set for good.
THEOREM AwaitedIsUnderway == Spec => []NothingAwaitedInVain
<1>1. Init => NothingAwaitedInVain
  BY DEF Init, NothingAwaitedInVain
<1> QED BY TypeInit, TypeNext, AwaitedNext, <1>1, PTL DEF Spec

-----------------------------------------------------------------------------
(* A code that is shown is watched                                         *)

LEMMA WatchedNext ==
  ASSUME TypeInv, NothingAwaitedInVain, WaitingCodeIsPolled, [Next]_vars
  PROVE  WaitingCodeIsPolled'
<1> SUFFICES ASSUME active', accepted', HasCode(state'), ~unheard'
             PROVE  pollTimer' \/ PollUnderway' \/ CodeUnderway'
  BY DEF WaitingCodeIsPolled
<1>1. ~unheard
  BY UnheardKept
<1>2. CASE SelectTab \/ Refresh \/ ToggleProtocol
  <2>1. ~HandleCodeImageResult /\ ~HandleLoginPollResult
    <3>1. moves' = moves + 1 /\ moves \in Nat
      BY <1>2, UserOK DEF Moved, TypeInv, CountInv
    <3>2. moves' # moves
      BY <3>1
    <3> QED BY <3>2 DEF NextResult, HandleCodeImageResult, HandleLoginPollResult, history
  <2>2. CASE requestInFlight
    BY <2>1, <2>2, CodeKept DEF NothingAwaitedInVain
  <2>3. CASE pollInFlight
    BY <1>1, <2>1, <2>3, PollKept DEF NothingAwaitedInVain
  <2>4. CASE SchedulePoll(state, requestInFlight, pollInFlight, TRUE) /\ UNCHANGED state
    BY <2>2, <2>3, <2>4 DEF SchedulePoll, ShouldPoll
  <2>5. state' \notin {"Idle", "LoadingCode"}
    BY DEF HasCode
  <2> QED BY <1>2, <2>2, <2>4, <2>5, UserOK DEF Rests, Begins
<1>3. CASE LeaveTab
  BY <1>3 DEF LeaveTab
<1>4. CASE HandleCodeImageResult
  <2>1. NextResult("image") /\ active /\ UNCHANGED pollInFlight
    BY <1>4 DEF HandleCodeImageResult, NextResult
  <2>2. ~HandleLoginPollResult
    BY <2>1 DEF HandleLoginPollResult, NextResult
  <2>3. CASE pollInFlight
    BY <1>1, <2>2, <2>3, PollKept DEF NothingAwaitedInVain
  <2>4. CASE SchedulePoll("CodeReady", FALSE, pollInFlight, accepted)
    <3>1. accepted
      BY <2>1 DEF NextResult
    <3> QED BY <2>3, <2>4, <3>1 DEF SchedulePoll, ShouldPoll, HasCode
  <2>5. state' # "Failed"
    BY DEF HasCode
  <2> QED BY <1>4, <2>1, <2>4, <2>5 DEF HandleCodeImageResult
<1>5. CASE HandleLoginPollResult
  <2>1. NextResult("poll") /\ active /\ accepted /\ UNCHANGED requestInFlight
    BY <1>5 DEF HandleLoginPollResult, NextResult
  <2>2. ~HandleCodeImageResult
    BY <2>1 DEF HandleCodeImageResult, NextResult
  <2>3. CASE requestInFlight
    BY <2>2, <2>3, CodeKept DEF NothingAwaitedInVain
  <2>4. CASE ~requestInFlight
    <3>1. SchedulePoll(state', requestInFlight, FALSE, accepted)
      BY <1>5, <2>1 DEF HandleLoginPollResult, Listens
    <3> QED BY <2>1, <2>4, <3>1 DEF SchedulePoll, ShouldPoll
  <2> QED BY <2>3, <2>4
<1>6. CASE PollOnce
  <2>1. ~HandleLoginPollResult
    <3>1. HandleLoginPollResult => ~pollInFlight' /\ Len(results') = Len(results) - 1
      BY TakenOK DEF HandleLoginPollResult
    <3>2. UNCHANGED results \/ pollInFlight'
      BY <1>6 DEF PollOnce
    <3>3. HandleLoginPollResult => Len(results) \in Nat
      BY TakenOK DEF HandleLoginPollResult
    <3> QED BY <3>1, <3>2, <3>3
  <2>2. CASE pollInFlight
    BY <1>1, <2>1, <2>2, PollKept DEF NothingAwaitedInVain
  <2>3. CASE slot' = "poll" /\ loginCompletion' = TRUE
    BY <2>3, UnderwayNextOK
  <2>4. CASE PollTurnedAway
    BY <2>4, PostedOK, ResultsOK, UnderwayNextOK DEF PollTurnedAway, PollOutcomes
  <2>5. state' # "Idle"
    BY DEF HasCode
  <2> QED BY <1>6, <2>2, <2>3, <2>4, <2>5 DEF PollOnce, Take, MayPoll, HasCode
<1>7. CASE ~HandleCodeImageResult /\ ~HandleLoginPollResult /\ UNCHANGED <<active, accepted, state,
                                                                           pollTimer>>
  BY <1>1, <1>7, CodeKept, PollKept DEF WaitingCodeIsPolled
<1>8. CASE GetDynamicKey \/ WorkerStep \/ UNCHANGED vars
  <2>1. UNCHANGED <<active, accepted, state, pollTimer>>
    BY <1>8 DEF GetDynamicKey, WorkerStep, ServerAnswers, HandleDynamicKey, GetQrCode, HandleQrCode,
       HandleLoginResult, CallbackFrame, panelVars, vars
  <2> QED BY <1>4, <1>5, <1>7, <2>1
<1> QED BY <1>2, <1>3, <1>4, <1>5, <1>6, <1>8 DEF Next, UiStep, UserStep

\* Nobody has to touch the page for an approval to be noticed: a code that is shown
\* is always being polled, or about to be, or about to be replaced.
THEOREM ShownCodeIsPolled == Spec => []WaitingCodeIsPolled
<1>1. Init => WaitingCodeIsPolled
  BY DEF Init, WaitingCodeIsPolled
<1>2. Init => NothingAwaitedInVain
  BY DEF Init, NothingAwaitedInVain
<1> QED BY TypeInit, TypeNext, AwaitedNext, WatchedNext, <1>1, <1>2, PTL DEF Spec

-----------------------------------------------------------------------------
(* The code that is polled is the one that is shown                        *)

\* How far a flow is in the library.
Later == slot = "qr" \/ answer.kind \in FlowKinds
Chain == slot = "key" \/ Later
PollOut == slot = "poll" \/ answer.kind = "poll"

OneImage == \A i, j \in DOMAIN results : results[i].kind = "image" /\ results[j].kind = "image" => i = j

\* As long as the page was never left, the panel waits for the one flow there is:
\* a call, a request, an answer or a picture in the queue.
FlowInv ==
  ~left =>
    /\ Chain => requestInFlight /\ keyCalls = 0 /\ ~Pending("image") /\ initialized
    /\ ~(slot \in FlowKinds /\ answer.kind \in FlowKinds)
    /\ Later => ~PollOut
    /\ keyCalls > 0 => requestInFlight /\ ~Pending("image") /\ initialized
    /\ ~requestInFlight => ~Pending("image")
    /\ OneImage
    /\ requestInFlight => active /\ ~pollTimer

\* The picture in the queue shows the code of the library, and no poll is behind it.
Matches(i) ==
  IF codeKey = NoCode THEN results[i].outcome # "ok"
  ELSE i = Len(results) /\ ~PollOut /\ (results[i].outcome = "ok" => results[i].code = codeKey)

\* A code whose picture cannot be used is not polled.
Shown   == codeKey \in {picture, NoCode}
Dormant == ~pollTimer /\ ~PollOut /\ ~Pending("poll") /\ ~HasCode(state)

ShownInv ==
  ~left =>
    /\ \A i \in DOMAIN results : results[i].kind = "image" => Matches(i)
    /\ ~initialized => codeKey = NoCode
    /\ requestInFlight /\ ~Pending("image") => codeKey = NoCode
    /\ ~requestInFlight => Shown \/ Dormant
    /\ slot = "poll" => polled \in {picture, NoCode}

\* Without a picture in the queue there is nothing to compare.
LEMMA NoImage ==
  /\ ~Pending("image") => OneImage /\ \A i \in DOMAIN results : results[i].kind # "image"
  /\ ~Pending("image")' => OneImage' /\ \A i \in DOMAIN results' : results'[i].kind # "image"
BY DEF Pending, OneImage

\* The queue with one picture in it.
LEMMA ImagePosted ==
  ASSUME TypeInv, ~Pending("image"), NEW o \in ImageOutcomes, NEW c \in Codes,
         results' = Posted("image", o, c)
  PROVE  /\ Pending("image")' /\ OneImage'
         /\ \A i \in DOMAIN results' : results'[i].kind = "image" =>
              i = Len(results') /\ results'[i].outcome = o /\ results'[i].code = c
<1>1. [kind |-> "image", outcome |-> o, code |-> c] \in Results
  BY ResultsOK
<1>2. /\ Pending("image")'
      /\ \A i \in DOMAIN results' :
           \/ i \in DOMAIN results /\ results'[i] = results[i]
           \/ /\ i = Len(results') /\ results'[i].kind = "image" /\ results'[i].outcome = o
              /\ results'[i].code = c
  BY <1>1, PostedOK
<1>3. \A i \in DOMAIN results' : results'[i].kind = "image" =>
        i = Len(results') /\ results'[i].outcome = o /\ results'[i].code = c
  BY <1>2, NoImage
<1> QED BY <1>2, <1>3 DEF OneImage

\* The flow is given up.
LEMMA ImageFailed ==
  ASSUME TypeInv, ~Pending("image"), codeKey = NoCode, UNCHANGED codeKey,
         CompleteImage("failed", NoCode) \/ results' = Posted("image", "failed", NoCode)
  PROVE  /\ OneImage'
         /\ \A i \in DOMAIN results' : results'[i].kind = "image" => Matches(i)'
<1>1. CASE UNCHANGED results
  BY <1>1, NoImage DEF OneImage
<1>2. CASE results' = Posted("image", "failed", NoCode)
  <2>1. /\ OneImage'
        /\ \A i \in DOMAIN results' : results'[i].kind = "image" => results'[i].outcome = "failed"
    BY <1>2, BoundsOK, ImagePosted DEF ImageOutcomes
  <2> QED BY <2>1 DEF Matches
<1> QED BY <1>1, <1>2 DEF CompleteImage

\* The invariant, taken apart and put together.
LEMMA ApartOK ==
  ASSUME ~left, FlowInv, ShownInv
  PROVE  /\ Chain => requestInFlight /\ keyCalls = 0 /\ ~Pending("image") /\ initialized
         /\ ~(slot \in FlowKinds /\ answer.kind \in FlowKinds)
         /\ Later => ~PollOut
         /\ keyCalls > 0 => requestInFlight /\ ~Pending("image") /\ initialized
         /\ ~requestInFlight => ~Pending("image")
         /\ OneImage
         /\ requestInFlight => active /\ ~pollTimer
         /\ \A i \in DOMAIN results : results[i].kind = "image" => Matches(i)
         /\ ~initialized => codeKey = NoCode
         /\ requestInFlight /\ ~Pending("image") => codeKey = NoCode
         /\ ~requestInFlight => Shown \/ Dormant
         /\ slot = "poll" => polled \in {picture, NoCode}
BY DEF FlowInv, ShownInv

\* The user's steps.
LEMMA ShownUser ==
  ASSUME TypeInv, FlowInv, ShownInv, ~left, SelectTab \/ Refresh \/ ToggleProtocol
  PROVE  FlowInv' /\ ShownInv'
<1>1. Moved /\ UNCHANGED <<slot, answer>> /\ (Rests \/ Begins)
  BY UserOK DEF clientVars
<1>2. CASE Rests
  <2>1. UNCHANGED <<requestInFlight, pollInFlight, keyCalls, results, initialized, imageCompletion,
                    codeKey, picture, polled>>
        /\ (active => active')
    BY <1>1, <1>2 DEF Rests, FlowUnchanged, Moved
  <2>2. requestInFlight /\ ~pollTimer => ~pollTimer'
    BY <1>2 DEF Rests, SchedulePoll, ShouldPoll
  <2>3. ~pollTimer /\ ~HasCode(state) => ~pollTimer' /\ ~HasCode(state')
    BY <1>2 DEF Rests, SchedulePoll, ShouldPoll, HasCode
  <2>4. FlowInv'
    BY <1>1, <2>1, <2>2, ApartOK DEF FlowInv, Chain, Later, PollOut, Pending, OneImage
  <2>5. ShownInv'
    BY <1>1, <2>1, <2>3, ApartOK DEF ShownInv, Matches, PollOut, Pending, Shown, Dormant
  <2> QED BY <2>4, <2>5
<1>3. CASE Begins
  <2>1. /\ ~requestInFlight /\ requestInFlight' /\ active' /\ ~pollTimer' /\ keyCalls = 0
        /\ ~Pending("image") /\ ~Chain
        /\ UNCHANGED <<picture, polled>>
    BY <1>1, <1>3, ApartOK DEF Begins, Moved
  <2>2. ~Chain'
    BY <1>1, <2>1 DEF Chain, Later
  <2>3. CASE initialized' = TRUE /\ codeKey' = NoCode /\ keyCalls' = 1 /\ UNCHANGED results
    <3>1. ~Pending("image")'
      BY <2>1, <2>3 DEF Pending
    <3>2. FlowInv'
      BY <2>1, <2>2, <2>3, <3>1, NoImage DEF FlowInv, Chain, Later
    <3>3. ShownInv'
      BY <1>1, <2>1, <2>3, <3>1, NoImage, ApartOK DEF ShownInv
    <3> QED BY <3>2, <3>3
  <2>4. CASE ~initialized /\ initialized' = FALSE /\ results' = Posted("image", "failed", NoCode)
             /\ UNCHANGED <<codeKey, keyCalls>>
    <3>1. codeKey = NoCode
      BY <2>4, ApartOK
    <3>2. OneImage' /\ \A i \in DOMAIN results' : results'[i].kind = "image" => Matches(i)'
      BY <2>1, <2>4, <3>1, ImageFailed
    <3>3. FlowInv'
      BY <2>1, <2>2, <2>4, <3>2 DEF FlowInv, Chain, Later
    <3>4. ShownInv'
      BY <1>1, <2>1, <2>4, <3>1, <3>2, ApartOK DEF ShownInv
    <3> QED BY <3>3, <3>4
  <2> QED BY <1>3, <2>3, <2>4 DEF Begins
<1> QED BY <1>1, <1>2, <1>3

\* The flow is given up in the library: nothing of it is left but its result.
LEMMA ShownGivenUp ==
  ASSUME TypeInv, FlowInv, ShownInv, ~left, CompleteImage("failed", NoCode),
         requestInFlight, ~Pending("image"), keyCalls' = 0, ~Chain',
         slot' = "poll" => slot = "poll",
         UNCHANGED <<requestInFlight, active, pollTimer, initialized, codeKey, picture, polled>>
  PROVE  FlowInv' /\ ShownInv'
<1>1. codeKey = NoCode
  BY ApartOK
<1>2. OneImage' /\ \A i \in DOMAIN results' : results'[i].kind = "image" => Matches(i)'
  BY <1>1, ImageFailed
<1>3. FlowInv'
  BY <1>2, ApartOK DEF FlowInv, Chain, Later
<1>4. ShownInv'
  BY <1>1, <1>2, ApartOK DEF ShownInv
<1> QED BY <1>3, <1>4

LEMMA ShownUi ==
  ASSUME TypeInv, FlowInv, ShownInv, ~left, UiStep
  PROVE  FlowInv' /\ ShownInv'
<1>1. CASE GetDynamicKey
  <2>1. UNCHANGED <<requestInFlight, active, pollTimer, initialized, codeKey, picture, polled,
                    state>>
    BY <1>1 DEF GetDynamicKey, panelVars
  <2>2. /\ keyCalls > 0 /\ requestInFlight /\ ~Pending("image") /\ initialized /\ ~Chain
        /\ codeKey = NoCode
    BY <1>1, ApartOK DEF GetDynamicKey
  <2>3. CASE Take("key") /\ keyCalls' = 0 /\ UNCHANGED <<answer, results>>
    <3>1. slot' = "key" /\ ~Later' /\ ~Pending("image")' /\ answer'.kind \notin FlowKinds
      BY <2>2, <2>3 DEF Take, Chain, Later, Pending
    <3>2. FlowInv'
      BY <2>1, <2>2, <2>3, <3>1, NoImage, ApartOK DEF FlowInv
    <3>3. ShownInv'
      BY <2>1, <2>2, <3>1, NoImage DEF ShownInv
    <3> QED BY <3>2, <3>3
  <2>4. CASE Cancel
    <3>1. ~Chain' /\ (slot' = "poll" => slot = "poll")
      BY <2>2, <2>4, CancelMoves DEF Chain, Later, FlowKinds
    <3>2. UNCHANGED results \/ (keyCalls' = 0 /\ CompleteImage("failed", NoCode))
      BY <1>1, <2>4 DEF GetDynamicKey, GiveUp
    <3>3. CASE UNCHANGED results
      <4>1. ~Pending("image")'
        BY <2>2, <3>3 DEF Pending
      <4>2. FlowInv'
        BY <2>1, <2>2, <3>1, <4>1, NoImage, ApartOK DEF FlowInv, Chain, Later, FlowKinds
      <4>3. ShownInv'
        BY <2>1, <2>2, <3>1, <4>1, NoImage, ApartOK DEF ShownInv
      <4> QED BY <4>2, <4>3
    <3>4. CASE keyCalls' = 0 /\ CompleteImage("failed", NoCode)
      BY <2>1, <2>2, <3>1, <3>4, ShownGivenUp
    <3> QED BY <3>2, <3>3, <3>4
  <2> QED BY <1>1, <2>3, <2>4 DEF GetDynamicKey
<1>2. CASE HandleCodeImageResult
  <2>1. /\ NextResult("image") /\ UNCHANGED <<slot, answer, active, keyCalls, initialized, codeKey,
                                              polled>>
        /\ requestInFlight' = FALSE
    BY <1>2 DEF HandleCodeImageResult, NextResult, clientVars, authVars
  <2>2. /\ 1 \in DOMAIN results /\ results[1].kind = "image" /\ results[1] = Head(results)
        /\ \A i \in DOMAIN results' : i + 1 \in DOMAIN results /\ results'[i] = results[i + 1] /\ i \in Nat
        /\ Len(results') = Len(results) - 1 /\ Len(results) \in Nat
        /\ (Len(results') = 0 => results' = <<>>)
    BY <2>1, TakenOK
  <2>3. Pending("image") /\ requestInFlight /\ active /\ ~pollTimer /\ ~Chain /\ keyCalls = 0
    <3>1. Pending("image")
      BY <2>2 DEF Pending
    <3>2. keyCalls = 0
      BY <2>1 DEF NextResult, InEventLoop
    <3> QED BY <3>1, <3>2, ApartOK
  <2>4. ~Pending("image")'
    <3>1. ASSUME NEW i \in DOMAIN results', results'[i].kind = "image" PROVE FALSE
      <4>1. i + 1 = 1 /\ i \in Nat
        BY <2>2, <3>1, ApartOK DEF OneImage
      <4>2. i # 0
        BY <2>1, TakenOK
      <4> QED BY <4>1, <4>2
    <3> QED BY <3>1 DEF Pending
  <2>5. ~Chain'
    BY <2>1, <2>3 DEF Chain, Later
  <2>6. FlowInv'
    BY <2>1, <2>3, <2>4, <2>5, NoImage, ApartOK DEF FlowInv, Chain, Later
  <2>7. Matches(1)
    BY <2>2, ApartOK
  <2>8. Shown' \/ Dormant'
    <3>1. CASE codeKey = NoCode
      BY <2>1, <3>1 DEF Shown
    <3>2. CASE codeKey # NoCode /\ Head(results).outcome = "ok" /\ picture' = Head(results).code
      BY <2>1, <2>2, <2>7, <3>2 DEF Matches, Shown
    <3>3. CASE codeKey # NoCode /\ state' = "Failed" /\ UNCHANGED pollTimer
      <4>1. results' = <<>> /\ ~PollOut
        BY <2>2, <2>7, <3>3 DEF Matches
      <4>2. ~Pending("poll")'
        BY <4>1 DEF Pending
      <4> QED BY <2>1, <2>3, <3>3, <4>1, <4>2 DEF Dormant, PollOut, HasCode
    <3> QED BY <1>2, <2>3, <3>1, <3>2, <3>3 DEF HandleCodeImageResult
  <2>9. slot = "poll" => UNCHANGED picture
    <3>1. picture' = picture \/ results[1].outcome = "ok"
      BY <1>2, <2>2 DEF HandleCodeImageResult
    <3>2. CASE codeKey # NoCode \/ results[1].outcome # "ok"
      BY <2>7, <3>1, <3>2 DEF Matches, PollOut
    <3> QED BY <2>7, <3>2 DEF Matches
  <2> QED BY <2>1, <2>4, <2>6, <2>8, <2>9, NoImage, ApartOK DEF ShownInv
<1>3. CASE HandleLoginPollResult
  <2>1. /\ NextResult("poll")
        /\ UNCHANGED <<slot, answer, active, keyCalls, initialized, codeKey, polled,
                       requestInFlight, picture>>
    BY <1>3 DEF HandleLoginPollResult, NextResult, clientVars, authVars
  <2>2. /\ Pending("poll") /\ (Pending("image") => Pending("image")')
        /\ \A i \in DOMAIN results' : i + 1 \in DOMAIN results /\ results'[i] = results[i + 1] /\ i \in Nat
        /\ Len(results') = Len(results) - 1 /\ Len(results) \in Nat
    BY <2>1, TakenOK DEF Pending
  <2>3. Pending("image")' => Pending("image")
    BY <2>2 DEF Pending
  <2>4. OneImage'
    <3>1. \A i, j \in DOMAIN results' : i + 1 = j + 1 => i = j
      BY <2>2
    <3> QED BY <2>2, <3>1, ApartOK DEF OneImage
  <2>5. requestInFlight /\ ~pollTimer => ~pollTimer'
    BY <1>3 DEF HandleLoginPollResult, SchedulePoll, ShouldPoll
  <2>6. FlowInv'
    BY <2>1, <2>2, <2>3, <2>4, <2>5, ApartOK DEF FlowInv, Chain, Later, PollOut
  <2>7. ASSUME NEW i \in DOMAIN results', results'[i].kind = "image"
        PROVE  Matches(i)'
    <3>1. Matches(i + 1) /\ results'[i] = results[i + 1]
      BY <2>2, <2>7, ApartOK
    <3>2. i + 1 = Len(results) => i = Len(results')
      BY <2>2
    <3> QED BY <2>1, <3>1, <3>2 DEF Matches, PollOut
  <2>8. ~requestInFlight => Shown'
    BY <2>1, <2>2, ApartOK DEF Shown, Dormant
  <2> QED BY <2>1, <2>2, <2>6, <2>7, <2>8, ApartOK DEF ShownInv
<1>4. CASE PollOnce
  <2>1. /\ pollTimer /\ pollTimer' = FALSE
        /\ UNCHANGED <<answer, active, requestInFlight, picture, keyCalls, initialized, codeKey>>
    BY <1>4 DEF PollOnce
  <2>2. ~requestInFlight /\ ~Pending("image") /\ ~Chain /\ ~(keyCalls > 0) /\ Shown
    BY <2>1, ApartOK DEF Dormant
  <2>3. \/ UNCHANGED <<slot, polled, results>>
        \/ slot' = "poll" /\ polled' = codeKey /\ UNCHANGED results
        \/ UNCHANGED <<slot, polled>> /\ results' = Posted("poll", "continue", NoCode)
    BY <1>4 DEF PollOnce, Take, PollTurnedAway, TurnedAway
  <2>4. ~Pending("image")'
    <3>1. CASE UNCHANGED results
      BY <2>2, <3>1 DEF Pending
    <3>2. CASE results' = Posted("poll", "continue", NoCode)
      <4>1. [kind |-> "poll", outcome |-> "continue", code |-> NoCode] \in Results
        BY ResultsOK DEF PollOutcomes
      <4> QED BY <2>2, <3>2, <4>1, PostedOK DEF Pending
    <3> QED BY <2>3, <3>1, <3>2
  <2>5. ~Chain' /\ ~(slot' \in FlowKinds /\ answer'.kind \in FlowKinds)
    BY <2>1, <2>2, <2>3 DEF Chain, Later, FlowKinds
  <2>6. FlowInv'
    BY <2>1, <2>2, <2>4, <2>5, NoImage DEF FlowInv, Chain
  <2>7. Shown'
    BY <2>1, <2>2 DEF Shown
  <2>8. slot' = "poll" => polled' \in {picture', NoCode}
    BY <2>1, <2>2, <2>3, ApartOK DEF Shown
  <2> QED BY <2>1, <2>2, <2>4, <2>6, <2>7, <2>8, NoImage, ApartOK DEF ShownInv
<1> QED BY <1>1, <1>2, <1>3, <1>4 DEF UiStep

LEMMA ShownWorker ==
  ASSUME TypeInv, FlowInv, ShownInv, NothingAwaitedInVain, ~left, WorkerStep
  PROVE  FlowInv' /\ ShownInv'
<1>1. UNCHANGED <<requestInFlight, active, pollTimer, initialized, picture, polled, state,
                  keyCalls>>
  BY DEF WorkerStep, ServerAnswers, HandleDynamicKey, GetQrCode, HandleQrCode, HandleLoginResult,
         CallbackFrame, panelVars
<1>2. CASE ServerAnswers
  <2>1. UNCHANGED <<results, codeKey>>
    BY <1>2 DEF ServerAnswers
  <2>2. slot \in Kinds /\ answer.kind = NoRequest /\ answer'.kind = slot /\ slot' = NoRequest
    BY <1>2, RespondOK DEF ServerAnswers, NoAnswer
  <2>3. /\ Chain' => Chain
        /\ ~(slot' \in FlowKinds /\ answer'.kind \in FlowKinds)
        /\ Later' => ~PollOut'
        /\ PollOut' <=> PollOut
        /\ slot' # "poll"
    BY <2>2 DEF Chain, Later, PollOut, FlowKinds, Kinds, NoRequest
  <2>4. FlowInv'
    BY <1>1, <2>1, <2>3, ApartOK DEF FlowInv, Pending, OneImage
  <2>5. ShownInv'
    BY <1>1, <2>1, <2>3, ApartOK DEF ShownInv, Pending, Matches, Shown, Dormant
  <2> QED BY <2>4, <2>5
<1>3. ASSUME answer.kind \in FlowKinds
      PROVE  /\ requestInFlight /\ keyCalls = 0 /\ ~Pending("image") /\ initialized
             /\ slot \notin FlowKinds /\ slot # "poll" /\ codeKey = NoCode
  BY <1>3, ApartOK DEF Chain, Later, PollOut
<1>4. CASE HandleDynamicKey
  <2>1. UNCHANGED <<slot, codeKey>> /\ answer.kind = "key"
    BY <1>4 DEF HandleDynamicKey, Answered
  <2>2. CASE UNCHANGED <<answer, results>>
    <3>1. FlowInv'
      BY <1>1, <2>1, <2>2, ApartOK DEF FlowInv, Chain, Later, PollOut, Pending, OneImage
    <3>2. ShownInv'
      BY <1>1, <2>1, <2>2, ApartOK DEF ShownInv, PollOut, Pending, Matches, Shown, Dormant
    <3> QED BY <3>1, <3>2
  <2>3. CASE Answered("key") /\ CompleteImage("failed", NoCode)
    <3>1. answer'.kind = NoRequest
      BY <2>3, AnsweredOK DEF Kinds
    <3>2. ~Chain'
      BY <1>3, <2>1, <3>1 DEF Chain, Later, FlowKinds, NoRequest
    <3> QED BY <1>1, <1>3, <2>1, <2>3, <3>2, ShownGivenUp DEF FlowKinds
  <2> QED BY <1>4, <2>2, <2>3 DEF HandleDynamicKey
<1>5. CASE GetQrCode
  <2>1. UNCHANGED codeKey /\ answer.kind = "key"
    BY <1>5 DEF GetQrCode, TypeInv, CountInv
  <2>2. CASE Take("qr") /\ Answered("key") /\ UNCHANGED results
    <3>1. answer'.kind = NoRequest /\ slot' = "qr"
      BY <2>2, AnsweredOK DEF Kinds, Take
    <3>2. ~Pending("image")'
      BY <1>3, <2>1, <2>2 DEF Pending, FlowKinds
    <3>3. ~PollOut' /\ ~(slot' \in FlowKinds /\ answer'.kind \in FlowKinds)
      BY <3>1 DEF PollOut, FlowKinds, NoRequest
    <3>4. requestInFlight /\ keyCalls = 0 /\ initialized /\ codeKey = NoCode
      BY <1>3, <2>1 DEF FlowKinds
    <3>5. FlowInv'
      BY <1>1, <3>2, <3>3, <3>4, NoImage, ApartOK DEF FlowInv
    <3>6. ShownInv'
      BY <1>1, <2>1, <3>1, <3>2, <3>4, NoImage DEF ShownInv
    <3> QED BY <3>5, <3>6
  <2>3. CASE Cancel /\ UNCHANGED results
    <3>1. UNCHANGED <<slot, answer>>
      BY <2>1, <2>3, CancelMoves DEF Kinds, NoRequest
    <3>2. FlowInv'
      BY <1>1, <2>3, <3>1, ApartOK DEF FlowInv, Chain, Later, PollOut, Pending, OneImage
    <3>3. ShownInv'
      BY <1>1, <2>1, <2>3, <3>1, ApartOK DEF ShownInv, PollOut, Pending, Matches, Shown, Dormant
    <3> QED BY <3>2, <3>3
  <2>4. CASE TurnedAway /\ Answered("key") /\ CompleteImage("failed", NoCode)
    <3>1. answer'.kind = NoRequest /\ UNCHANGED slot
      BY <2>4, AnsweredOK DEF Kinds, TurnedAway
    <3>2. ~Chain'
      BY <1>3, <2>1, <3>1 DEF Chain, Later, FlowKinds, NoRequest
    <3> QED BY <1>1, <1>3, <2>1, <2>4, <3>1, <3>2, ShownGivenUp DEF FlowKinds
  <2> QED BY <1>5, <2>2, <2>3, <2>4 DEF GetQrCode
<1>6. CASE HandleQrCode
  <2>1. /\ answer.kind = "qr" /\ answer.outcome \in ImageOutcomes /\ answer'.kind = NoRequest
        /\ UNCHANGED slot
    BY <1>6, AnsweredOK DEF HandleQrCode, Kinds, AllOutcomes, ImageOutcomes
  <2>2. codes + 1 \in Codes /\ codes + 1 # NoCode
    BY <2>1, BoundsOK DEF TypeInv, CountInv, Spent, Token, FlowKinds, Codes, NoCode
  <2>3. /\ requestInFlight /\ keyCalls = 0 /\ ~Pending("image") /\ initialized
        /\ slot \notin FlowKinds /\ slot # "poll" /\ codeKey = NoCode
    BY <1>3, <2>1 DEF FlowKinds
  <2>4. ~Chain' /\ ~PollOut'
    BY <2>1, <2>3 DEF Chain, Later, PollOut, FlowKinds, NoRequest
  <2>5. imageCompletion
    BY <2>3 DEF NothingAwaitedInVain, CodeUnderway
  <2> DEFINE c == IF answer.outcome = "ok" THEN codes + 1 ELSE NoCode
  <2>6. c \in Codes /\ results' = Posted("image", answer.outcome, c)
    BY <1>6, <2>2, <2>5, BoundsOK DEF HandleQrCode, CompleteImage
  <2>7. IF answer.outcome = "failed" THEN codeKey' = NoCode ELSE codeKey' = codes + 1
    BY <1>6 DEF HandleQrCode
  <2>8. /\ Pending("image")' /\ OneImage'
        /\ \A i \in DOMAIN results' : results'[i].kind = "image" =>
             i = Len(results') /\ results'[i].outcome = answer.outcome /\ results'[i].code = c
    <3> HIDE DEF c
    <3> QED BY <2>1, <2>3, <2>6, ImagePosted
  <2>9. \A i \in DOMAIN results' : results'[i].kind = "image" => Matches(i)'
    BY <2>2, <2>4, <2>7, <2>8 DEF Matches
  <2>10. FlowInv'
    BY <1>1, <2>3, <2>4, <2>8, ApartOK DEF FlowInv, Chain, Later
  <2>11. ShownInv'
    BY <1>1, <2>1, <2>3, <2>8, <2>9 DEF ShownInv
  <2> QED BY <2>10, <2>11
<1>7. CASE HandleLoginResult
  <2>1. /\ answer.kind = "poll" /\ answer'.kind = NoRequest
        /\ (Heard(answer.outcome) => answer.outcome \in PollOutcomes)
        /\ UNCHANGED <<slot, codeKey>>
    BY <1>7, AnsweredOK DEF HandleLoginResult, Kinds, AllOutcomes, PollOutcomes, Heard
  <2>2. PollOut /\ ~Later /\ (~requestInFlight => Shown)
    BY <2>1, ApartOK DEF PollOut, Dormant
  <2>3. (Chain' => Chain) /\ ~Later' /\ ~(slot' \in FlowKinds /\ answer'.kind \in FlowKinds)
    BY <2>1, <2>2 DEF Chain, Later, FlowKinds, NoRequest
  <2>4. /\ Pending("image") <=> Pending("image")'
        /\ \A i \in DOMAIN results' :
             results'[i].kind = "image" => i \in DOMAIN results /\ results'[i] = results[i]
    <3>1. CASE UNCHANGED results
      BY <3>1 DEF Pending
    <3>2. CASE Heard(answer.outcome) /\ results' = Posted("poll", answer.outcome, NoCode)
      <4>1. [kind |-> "poll", outcome |-> answer.outcome, code |-> NoCode] \in Results
        BY <2>1, <3>2, ResultsOK
      <4>2. \A i \in DOMAIN results' :
              results'[i].kind = "image" => i \in DOMAIN results /\ results'[i] = results[i]
        BY <3>2, <4>1, PostedOK
      <4>3. Pending("image") => Pending("image")'
        BY <3>2, <4>1, PostedOK
      <4> QED BY <4>2, <4>3 DEF Pending
    <3> QED BY <1>7, <3>1, <3>2 DEF HandleLoginResult, CompleteLogin
  <2>5. OneImage'
    BY <2>4, ApartOK DEF OneImage
  <2>6. ASSUME NEW i \in DOMAIN results', results'[i].kind = "image" PROVE Matches(i)'
    <3>1. Matches(i) /\ results'[i] = results[i]
      BY <2>4, <2>6, ApartOK
    <3>2. codeKey = NoCode /\ results'[i].outcome # "ok"
      BY <2>2, <3>1 DEF Matches
    <3> QED BY <2>1, <3>2 DEF Matches
  <2>7. FlowInv'
    BY <1>1, <2>3, <2>4, <2>5, ApartOK DEF FlowInv
  <2>8. ShownInv'
    BY <1>1, <2>1, <2>2, <2>4, <2>6, ApartOK DEF ShownInv, Shown
  <2> QED BY <2>7, <2>8
<1> QED BY <1>2, <1>4, <1>5, <1>6, <1>7 DEF WorkerStep

LEMMA ShownNext ==
  ASSUME TypeInv, NothingAwaitedInVain, FlowInv, ShownInv, [Next]_vars
  PROVE  FlowInv' /\ ShownInv'
<1>1. CASE left'
  BY <1>1 DEF FlowInv, ShownInv
<1>2. CASE ~left'
  <2>1. ~LeaveTab
    BY <1>2 DEF LeaveTab
  <2>2. ~left
    BY <1>2, <2>1, UserOK DEF Next, UiStep, WorkerStep, UserStep, GetDynamicKey,
       HandleCodeImageResult, HandleLoginPollResult, NextResult, PollOnce, ServerAnswers,
       HandleDynamicKey, GetQrCode, HandleQrCode, HandleLoginResult, CallbackFrame, history, vars
  <2>3. CASE UNCHANGED vars
    BY <2>3
       DEF vars, clientVars, panelVars, authVars, history, FlowInv, ShownInv, Chain, Later, PollOut,
       Pending, OneImage, Matches, Shown, Dormant
  <2> QED BY <2>1, <2>2, <2>3, ShownUser, ShownUi, ShownWorker DEF Next, UserStep
<1> QED BY <1>1, <1>2

\* The code that is polled is the one the user sees, though the code and its picture
\* travel on different ways, as long as the page was never left.
THEOREM ShownCodeIsPolledFor == Spec => []PollsTheShownCode
<1>1. Init => FlowInv /\ ShownInv
  BY DEF Init, ClientInit, NoAnswer, NoRequest, FlowInv, ShownInv, Chain, Later, PollOut, FlowKinds,
         Pending, OneImage, Shown
<1>2. Init => NothingAwaitedInVain
  BY DEF Init, NothingAwaitedInVain
<1>3. ShownInv => PollsTheShownCode
  BY DEF ShownInv, PollsTheShownCode
<1>4. TypeInv /\ NothingAwaitedInVain /\ FlowInv /\ ShownInv /\ [Next]_vars => FlowInv' /\ ShownInv'
  BY ShownNext
<1> QED BY TypeInit, TypeNext, AwaitedNext, <1>1, <1>2, <1>3, <1>4, PTL DEF Spec

=============================================================================
