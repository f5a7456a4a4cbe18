----------------------- MODULE PushMessageLoginProofs -----------------------
(***************************************************************************)
(* Theorems about one-click login, for any accounts and any number of      *)
(* clicks and tab changes.                                                 *)
(***************************************************************************)
EXTENDS PushMessageLogin, TLAPS

Kinds == {"key", "cancel", "send", "poll"}

\* All that can ever answer a request.
AllOutcomes(kind) ==
  CASE kind = "key"    -> {"ok", "failed"}
    [] kind = "send"   -> {"ok", "failed", "secondStep"}
    [] kind = "cancel" -> {"any"}
    [] kind = "poll"   -> {"continue", "failed", "secondStep", "success"}

AnswerOK ==
  answer = NoAnswer \/ \E k \in Kinds : \E o \in AllOutcomes(k) : answer = [kind |-> k, outcome |-> o]

TypeInv == TypeOK /\ AnswerOK /\ hides \in Nat

NoneOf(kind, r)    == \A i \in DOMAIN r : r[i].kind # kind
AtMostOne(kind, r) == \A i, j \in DOMAIN r : r[i].kind = kind /\ r[j].kind = kind => i = j

LEMMA ResultsOK ==
  /\ \A o \in {"ok", "failed"} : [kind |-> "send", outcome |-> o] \in Results
  /\ \A o \in {"success", "continue", "failed"} : [kind |-> "poll", outcome |-> o] \in Results
  /\ \A m \in Results : /\ m.kind \in {"send", "poll"}
                        /\ m.kind = "poll" => m.outcome \in {"success", "continue", "failed"}
BY DEF Results

-----------------------------------------------------------------------------
(* The queue of results                                                    *)

LEMMA PostOK ==
  ASSUME NEW r \in Seq(Results), NEW m \in Results
  PROVE  LET new == Append(r, m) IN
         /\ new \in Seq(Results)
         /\ \E i \in DOMAIN new : new[i] = m
         /\ \A k : m.kind # k =>
              /\ NoneOf(k, r) => NoneOf(k, new)
              /\ AtMostOne(k, r) => AtMostOne(k, new)
         /\ NoneOf(m.kind, r) => AtMostOne(m.kind, new)
         /\ \A i \in DOMAIN r : i \in DOMAIN new /\ new[i] = r[i]
         /\ \A i \in DOMAIN new : (i \in DOMAIN r /\ new[i] = r[i]) \/ (i = Len(new) /\ new[i] = m)
<1> DEFINE new == Append(r, m)
           n == Len(r)
<1>1. /\ n \in Nat /\ DOMAIN r = 1 .. n /\ DOMAIN new = 1 .. (n + 1) /\ Len(new) = n + 1
      /\ new[n + 1] = m /\ \A i \in 1 .. n : new[i] = r[i]
  OBVIOUS
<1>2. new \in Seq(Results)
  OBVIOUS
<1> HIDE DEF new, n
<1>3. \A i \in DOMAIN r : i \in DOMAIN new /\ new[i] = r[i]
  BY <1>1
<1>4. \A i \in DOMAIN new : (i \in DOMAIN r /\ new[i] = r[i]) \/ (i = Len(new) /\ new[i] = m)
  BY <1>1
<1>5. n + 1 \in DOMAIN new /\ new[n + 1] = m
  BY <1>1
<1>6. ASSUME NEW k, m.kind # k
      PROVE  /\ NoneOf(k, r) => NoneOf(k, new)
             /\ AtMostOne(k, r) => AtMostOne(k, new)
  BY <1>4, <1>6 DEF NoneOf, AtMostOne
<1>7. NoneOf(m.kind, r) => AtMostOne(m.kind, new)
  BY <1>4 DEF NoneOf, AtMostOne
<1> QED BY <1>2, <1>3, <1>4, <1>5, <1>6, <1>7 DEF new

LEMMA TakeOK ==
  ASSUME NEW r \in Seq(Results), r # <<>>
  PROVE  /\ Head(r) \in Results
         /\ Tail(r) \in Seq(Results)
         /\ \A k : /\ NoneOf(k, r) => NoneOf(k, Tail(r)) /\ Head(r).kind # k
                   /\ AtMostOne(k, r) => AtMostOne(k, Tail(r))
                   /\ AtMostOne(k, r) /\ Head(r).kind = k => NoneOf(k, Tail(r))
         /\ \A i \in DOMAIN r : i # 1 => \E j \in DOMAIN Tail(r) : Tail(r)[j] = r[i]
         /\ 1 \in DOMAIN r /\ r[1] = Head(r)
         /\ \A i \in DOMAIN Tail(r) : i + 1 \in DOMAIN r /\ Tail(r)[i] = r[i + 1]
         /\ Len(Tail(r)) = Len(r) - 1 /\ Len(r) \in Nat
<1> DEFINE t == Tail(r)
           n == Len(r)
<1>1. /\ n \in Nat /\ n > 0 /\ DOMAIN r = 1 .. n /\ DOMAIN t = 1 .. (n - 1) /\ Len(t) = n - 1
      /\ \A i \in 1 .. (n - 1) : t[i] = r[i + 1]
  OBVIOUS
<1>2. t \in Seq(Results) /\ Head(r) \in Results /\ r[1] = Head(r)
  OBVIOUS
<1> HIDE DEF t, n
<1>3. \A i \in DOMAIN t : i + 1 \in DOMAIN r /\ t[i] = r[i + 1] /\ i + 1 # 1
  BY <1>1
<1>4. 1 \in DOMAIN r
  BY <1>1
<1>5. ASSUME NEW i \in DOMAIN r, i # 1 PROVE \E j \in DOMAIN t : t[j] = r[i]
  <2>1. i - 1 \in 1 .. (n - 1) /\ (i - 1) + 1 = i
    BY <1>1, <1>5
  <2> QED BY <1>1, <2>1
<1>6. ASSUME NEW k
      PROVE  /\ NoneOf(k, r) => NoneOf(k, t) /\ Head(r).kind # k
             /\ AtMostOne(k, r) => AtMostOne(k, t)
             /\ AtMostOne(k, r) /\ Head(r).kind = k => NoneOf(k, t)
  <2>1. \A i, j \in DOMAIN t : i + 1 = j + 1 => i = j
    BY <1>1
  <2> QED BY <1>2, <1>3, <1>4, <2>1 DEF NoneOf, AtMostOne
<1> QED BY <1>1, <1>2, <1>3, <1>4, <1>5, <1>6 DEF t, n

-----------------------------------------------------------------------------
(* The library                                                             *)

LEMMA OutcomesOK == ASSUME NEW k \in Kinds PROVE Outcomes(k) \subseteq AllOutcomes(k)
BY DEF Kinds, Outcomes, AllOutcomes

LEMMA RespondOK ==
  ASSUME TypeInv, Respond(Outcomes(slot))
  PROVE  /\ slot \in Kinds /\ answer = NoAnswer
         /\ answer'.kind = slot /\ AnswerOK' /\ slot' = NoRequest
<1>1. slot \in Kinds /\ answer = NoAnswer /\ slot' = NoRequest
  BY DEF TypeInv, TypeOK, Respond, Working, Busy, Kinds
<1>2. PICK o \in Outcomes(slot) : answer' = [kind |-> slot, outcome |-> o]
  BY DEF Respond
<1> QED BY <1>1, <1>2, OutcomesOK DEF AnswerOK

LEMMA CancelOK ==
  ASSUME TypeInv, Cancel
  PROVE  UNCHANGED <<slot, answer>> /\ AnswerOK'
BY DEF Cancel, clientVars, TypeInv, AnswerOK

\* What a callback is given, and what it leaves.
LEMMA AnsweredOK ==
  ASSUME TypeInv, NEW k \in Kinds, Answered(k)
  PROVE  /\ answer.kind = k /\ answer.outcome \in AllOutcomes(k)
         /\ answer' = NoAnswer /\ answer'.kind = NoRequest /\ AnswerOK'
<1>1. answer # NoAnswer /\ answer.kind = k /\ answer' = NoAnswer
  BY DEF Answered, NoAnswer, NoRequest, Kinds
<1>2. PICK j \in Kinds : \E o \in AllOutcomes(j) : answer = [kind |-> j, outcome |-> o]
  BY <1>1 DEF TypeInv, AnswerOK
<1>3. answer'.kind = NoRequest
  BY <1>1 DEF NoAnswer
<1> QED BY <1>1, <1>2, <1>3 DEF AnswerOK

-----------------------------------------------------------------------------
(* Types                                                                   *)

LEMMA TypeInit == Init => TypeInv
<1> SUFFICES ASSUME Init PROVE TypeInv
  OBVIOUS
<1>1. <<>> \in Seq(Results) /\ 0 \in 0 .. MaxKeyCalls
  BY DEF MaxKeyCalls
<1>2. answer.kind = NoRequest /\ AnswerOK
  BY DEF Init, ClientInit, AnswerOK, NoAnswer
<1> QED BY <1>1, <1>2 DEF Init, ClientInit, TypeInv, TypeOK

\* What ends a chain of requests is posted, if it is still waited for.
LEMMA CompleteSendOK ==
  ASSUME TypeInv, NEW o \in {"ok", "failed"}, CompleteSend(o)
  PROVE  sendCompletion' = FALSE /\ results' \in Seq(Results)
BY ResultsOK, PostOK DEF CompleteSend, Posted, TypeInv, TypeOK

LEMMA CompleteLoginOK ==
  ASSUME TypeInv, NEW o \in {"success", "continue", "failed"}, CompleteLogin(o)
  PROVE  loginCompletion' = FALSE /\ results' \in Seq(Results)
BY ResultsOK, PostOK DEF CompleteLogin, Posted, TypeInv, TypeOK

LEMMA NextResultOK ==
  ASSUME TypeInv, NEW k, NextResult(k)
  PROVE  /\ results \in Seq(Results) /\ results # <<>> /\ results' = Tail(results)
         /\ results' \in Seq(Results)
         /\ Head(results) \in Results /\ Head(results).kind = k
         /\ keyCalls = 0
BY TakeOK DEF NextResult, InEventLoop, TypeInv, TypeOK

LEMMA TypeNext == TypeInv /\ [Next]_vars => TypeInv'
<1> SUFFICES ASSUME TypeInv, [Next]_vars PROVE TypeInv'
  OBVIOUS
<1> USE DEF TypeInv, TypeOK, clientVars, panelVars, authVars, history
<1>1. CASE UNCHANGED vars
  BY <1>1 DEF vars, AnswerOK
<1>2. CASE StartLogin
  <2>1. /\ UNCHANGED <<clientVars, visible, accountEdit, loginCompletion, issuing, recorded,
                       hides, pushedTo, unheard>>
        /\ {countdown', pollTimer', pollInFlight', sendInFlight', buttonEnabled', pushIssued',
            crossed'} \subseteq BOOLEAN
        /\ currentAccount' = accountEdit
    BY <1>2 DEF StartLogin
  <2>2. Posted("send", "failed") \in Seq(Results) /\ 1 \in 0 .. MaxKeyCalls
    BY ResultsOK, PostOK DEF Posted, MaxKeyCalls
  <2>3. /\ {initialized', sendCompletion'} \subseteq BOOLEAN /\ keyCalls' \in 0 .. MaxKeyCalls
        /\ results' \in Seq(Results)
    BY <1>2, <2>2 DEF StartLogin, EnsureInitialized
  <2> QED BY <2>1, <2>3 DEF AnswerOK
<1>3. CASE GetDynamicKey
  <2>1. UNCHANGED <<panelVars, initialized, loginCompletion, pushIssued, issuing, currentAccount,
                    recorded, history, unheard>>
    BY <1>3 DEF GetDynamicKey
  <2>2. CASE Take("key") /\ keyCalls' = 0 /\ UNCHANGED <<answer, results, sendCompletion>>
    BY <2>1, <2>2 DEF Take, AnswerOK, MaxKeyCalls
  <2>3. CASE Busy /\ Cancel
    <3>1. UNCHANGED <<slot, answer>> /\ AnswerOK'
      BY <2>3, CancelOK
    <3>2. keyCalls' \in 0 .. MaxKeyCalls /\ sendCompletion' \in BOOLEAN /\ results' \in Seq(Results)
      <4>1. CASE keyCalls' = keyCalls + 1 /\ keyCalls < MaxKeyCalls /\ UNCHANGED <<results,
                                                                                   sendCompletion>>
        <5>1. keyCalls + 1 \in 0 .. MaxKeyCalls
          BY <4>1 DEF MaxKeyCalls
        <5> QED BY <4>1, <5>1
      <4>2. CASE keyCalls' = 0 /\ GiveUp
        <5>1. 0 \in 0 .. MaxKeyCalls
          BY DEF MaxKeyCalls
        <5> QED BY <4>2, <5>1, CompleteSendOK DEF GiveUp
      <4> QED BY <1>3, <2>3, <4>1, <4>2 DEF GetDynamicKey, Take
    <3> QED BY <2>1, <3>1, <3>2
  <2> QED BY <1>3, <2>2, <2>3 DEF GetDynamicKey
<1>4. CASE HandleSendResult
  <2>1. results' \in Seq(Results)
    BY <1>4, NextResultOK DEF HandleSendResult
  <2> QED BY <1>4, <2>1 DEF HandleSendResult, RetryCountdown, RestoreActionButton, SchedulePoll,
          NothingInFlight, AnswerOK
<1>5. CASE HandleLoginPollResult
  <2>1. results' \in Seq(Results)
    BY <1>5, NextResultOK DEF HandleLoginPollResult
  <2>2. recorded' \in {recorded, accountEdit, currentAccount}
    BY <1>5 DEF HandleLoginPollResult
  <2>3. {pollInFlight', pollTimer', countdown', buttonEnabled'} \subseteq BOOLEAN
    BY <1>5 DEF HandleLoginPollResult, RestoreActionButton, SchedulePoll, NothingInFlight
  <2> QED BY <1>5, <2>1, <2>2, <2>3 DEF HandleLoginPollResult, AnswerOK
<1>6. CASE CountdownEnds
  BY <1>6 DEF CountdownEnds, RestoreActionButton, AnswerOK
<1>7. CASE PollOnce
  <2>1. Posted("poll", "failed") \in Seq(Results)
    BY ResultsOK, PostOK DEF Posted
  <2>2. \/ UNCHANGED <<slot, pollInFlight, loginCompletion, results>>
        \/ pollInFlight' = TRUE /\ slot' = "poll" /\ loginCompletion' = TRUE /\ UNCHANGED results
        \/ pollInFlight' = TRUE /\ UNCHANGED slot /\ loginCompletion' = FALSE
           /\ results' = Posted("poll", "failed")
    BY <1>7 DEF PollOnce, PollTurnedAway, TurnedAway, Take
  <2>3. results' \in Seq(Results) /\ {pollInFlight', loginCompletion'} \subseteq BOOLEAN
        /\ slot' \in {slot, "poll"}
    BY <2>1, <2>2
  <2>4. /\ pollTimer' = FALSE
        /\ UNCHANGED <<answer, visible, accountEdit, sendInFlight, buttonEnabled, countdown, keyCalls,
                       initialized, sendCompletion, pushIssued, issuing, currentAccount, recorded,
                       history, unheard>>
    BY <1>7 DEF PollOnce
  <2>5. AnswerOK' /\ answer'.kind \in {NoRequest, "key", "cancel", "send", "poll"}
    BY <2>4 DEF AnswerOK
  <2> QED BY <2>3, <2>4, <2>5
<1>8. CASE Hide
  <2>1. UNCHANGED <<slot, answer>> /\ AnswerOK'
    BY <1>8, CancelOK DEF Hide
  <2>2. /\ {visible', countdown', pollTimer', sendInFlight', pollInFlight'} \subseteq BOOLEAN
        /\ UNCHANGED <<accountEdit, buttonEnabled, keyCalls, results, authVars, recorded, clicks,
                       pushes, crossed, pushedTo, unheard>>
    BY <1>8 DEF Hide
  <2>3. hides' \in Nat
    BY <1>8 DEF Hide
  <2> QED BY <2>1, <2>2, <2>3
<1>9. CASE Show
  BY <1>9 DEF Show, AnswerOK
<1>10. ASSUME NEW a \in Accounts \cup {NoAccount}, EditAccount(a)
       PROVE  TypeInv'
  BY <1>10 DEF EditAccount, AnswerOK
<1>11. CASE ServerAnswers
  BY <1>11, RespondOK DEF ServerAnswers, Kinds
<1>12. CASE HandleDynamicKey
  <2>1. answer.outcome \in {"ok", "failed"} /\ answer'.kind = NoRequest /\ AnswerOK'
    BY <1>12, AnsweredOK DEF HandleDynamicKey, Kinds, AllOutcomes
  <2>2. /\ slot' \in {slot, "cancel"} /\ sendCompletion' \in BOOLEAN /\ results' \in Seq(Results)
        /\ UNCHANGED <<loginCompletion, pushIssued, issuing, pushes, pushedTo, unheard>>
        /\ CallbackFrame
    BY <1>12, <2>1, CompleteSendOK DEF HandleDynamicKey, Take, TurnedAway
  <2> QED BY <2>1, <2>2 DEF CallbackFrame
<1>13. CASE HandleCancelPushMessage
  <2>1. answer'.kind = NoRequest /\ AnswerOK'
    BY <1>13, AnsweredOK DEF HandleCancelPushMessage, Kinds
  <2>2. /\ issuing' \in {"no", "checked"} /\ CallbackFrame
        /\ UNCHANGED <<slot, results, sendCompletion, loginCompletion, pushIssued, pushes, pushedTo,
                       unheard>>
    BY <1>13 DEF HandleCancelPushMessage
  <2> QED BY <2>1, <2>2 DEF CallbackFrame
<1>14. CASE MarkIssued
  BY <1>14 DEF MarkIssued, CallbackFrame, AnswerOK
<1>15. CASE SendPushMessage
  <2>1. /\ slot' \in {slot, "send"} /\ issuing' \in {"no", "refused"}
        /\ pushedTo' \in {pushedTo, currentAccount}
        /\ UNCHANGED <<answer, results, sendCompletion, loginCompletion, pushIssued, unheard>>
        /\ CallbackFrame
    BY <1>15 DEF SendPushMessage, Take, TurnedAway
  <2> QED BY <2>1 DEF CallbackFrame, AnswerOK
<1>16. CASE PushRefused
  <2>1. sendCompletion' = FALSE /\ results' \in Seq(Results)
    BY <1>16, CompleteSendOK DEF PushRefused
  <2> QED BY <1>16, <2>1 DEF PushRefused, CallbackFrame, AnswerOK
<1>17. CASE HandleSendPushMessage
  <2>1. answer.outcome \in {"ok", "failed", "secondStep"} /\ answer'.kind = NoRequest /\ AnswerOK'
    BY <1>17, AnsweredOK DEF HandleSendPushMessage, Kinds, AllOutcomes
  <2>2. /\ {sendCompletion', unheard'} \subseteq BOOLEAN /\ results' \in Seq(Results)
        /\ UNCHANGED <<slot, loginCompletion, pushIssued, issuing, pushes, pushedTo>> /\ CallbackFrame
    BY <1>17, <2>1, CompleteSendOK DEF HandleSendPushMessage, Heard
  <2> QED BY <2>1, <2>2 DEF CallbackFrame
<1>18. CASE HandleLoginResult
  <2>1. /\ answer.outcome \in {"continue", "failed", "secondStep", "success"}
        /\ answer'.kind = NoRequest /\ AnswerOK'
    BY <1>18, AnsweredOK DEF HandleLoginResult, Kinds, AllOutcomes
  <2>2. /\ {loginCompletion', unheard'} \subseteq BOOLEAN /\ results' \in Seq(Results)
        /\ UNCHANGED <<slot, sendCompletion, pushIssued, issuing, pushes, pushedTo>> /\ CallbackFrame
    BY <1>18, <2>1, CompleteLoginOK DEF HandleLoginResult, Heard
  <2> QED BY <2>1, <2>2 DEF CallbackFrame
<1> QED BY <1>1, <1>2, <1>3, <1>4, <1>5, <1>6, <1>7, <1>8, <1>9, <1>10, <1>11, <1>12, <1>13, <1>14,
           <1>15, <1>16, <1>17, <1>18
        DEF Next, UiStep, WorkerStep, UserStep

\* The members of the panel and of the authenticator stay in their types.
THEOREM TypeCorrect == Spec => []TypeOK
<1>1. TypeInv => TypeOK
  BY DEF TypeInv
<1> QED BY TypeInit, TypeNext, <1>1, PTL DEF Spec

-----------------------------------------------------------------------------
(* What a step does to the polls                                           *)

PollOut == "poll" \in {slot, answer.kind}

\* Everybody but the poll leaves it alone: no poll appears in the library or in the
\* queue, and none goes away.
PollsAlone ==
  /\ slot = "poll" \/ answer.kind = "poll" <=> slot' = "poll" \/ answer'.kind = "poll"
  /\ (slot' = "poll" /\ answer'.kind = "poll") => slot = "poll" /\ answer.kind = "poll"
  /\ UNCHANGED loginCompletion
  /\ NoneOf("poll", results) => NoneOf("poll", results')
  /\ AtMostOne("poll", results) => AtMostOne("poll", results')
  /\ ~NoneOf("poll", results) => ~NoneOf("poll", results')

LEMMA SendPosted ==
  ASSUME TypeInv, NEW o \in {"ok", "failed"}, results' = Posted("send", o)
  PROVE  /\ NoneOf("poll", results) => NoneOf("poll", results')
         /\ AtMostOne("poll", results) => AtMostOne("poll", results')
         /\ ~NoneOf("poll", results) => ~NoneOf("poll", results')
<1> DEFINE m == [kind |-> "send", outcome |-> o]
<1>1. m \in Results /\ m.kind = "send" /\ results' = Append(results, m)
  BY ResultsOK DEF Posted
<1> HIDE DEF m
<1>2. results \in Seq(Results)
  BY DEF TypeInv, TypeOK
<1>3. \A i \in DOMAIN results : i \in DOMAIN results' /\ results'[i] = results[i]
  BY <1>1, <1>2, PostOK
<1>4. \A i \in DOMAIN results' : (i \in DOMAIN results /\ results'[i] = results[i]) \/ results'[i] = m
  BY <1>1, <1>2, PostOK
<1>5. /\ NoneOf("poll", results) => NoneOf("poll", results')
      /\ AtMostOne("poll", results) => AtMostOne("poll", results')
  BY <1>1, <1>4 DEF NoneOf, AtMostOne
<1> QED BY <1>3, <1>5 DEF NoneOf

LEMMA SendCompleted ==
  ASSUME TypeInv, NEW o \in {"ok", "failed"}, CompleteSend(o)
  PROVE  /\ NoneOf("poll", results) => NoneOf("poll", results')
         /\ AtMostOne("poll", results) => AtMostOne("poll", results')
         /\ ~NoneOf("poll", results) => ~NoneOf("poll", results')
<1>1. CASE results' = Posted("send", o)
  BY <1>1, SendPosted
<1>2. CASE results' = results
  BY <1>2
<1> QED BY <1>1, <1>2 DEF CompleteSend

\* The steps of the push, of the library and of the user but for leaving.
LEMMA OthersAlone ==
  ASSUME TypeInv, GetDynamicKey \/ HandleSendResult \/ CountdownEnds \/ ServerAnswers \/
             HandleDynamicKey \/ HandleCancelPushMessage \/ MarkIssued \/ SendPushMessage \/
             PushRefused \/ HandleSendPushMessage \/ StartLogin \/ Show \/
             (\E a \in Accounts \cup {NoAccount} : EditAccount(a)) \/ UNCHANGED vars
  PROVE  PollsAlone
<1> USE DEF TypeInv, TypeOK
<1>1. CASE UNCHANGED <<slot, answer, loginCompletion, results>>
  BY <1>1 DEF PollsAlone
<1>2. CASE GetDynamicKey
  <2>1. UNCHANGED loginCompletion
    BY <1>2 DEF GetDynamicKey
  <2>2. CASE Take("key") /\ UNCHANGED <<answer, results>>
    BY <2>1, <2>2 DEF PollsAlone, Take, Busy, NoRequest
  <2>3. CASE Cancel /\ UNCHANGED results
    BY <2>1, <2>3, CancelOK DEF PollsAlone
  <2>4. CASE Cancel /\ GiveUp
    BY <2>1, <2>4, CancelOK, SendCompleted DEF PollsAlone, GiveUp
  <2> QED BY <1>2, <2>2, <2>3, <2>4 DEF GetDynamicKey
<1>3. CASE HandleSendResult
  <2>1. UNCHANGED <<slot, answer, loginCompletion>>
    BY <1>3 DEF HandleSendResult, clientVars, authVars
  <2>2. /\ results \in Seq(Results) /\ results # <<>> /\ results' = Tail(results)
        /\ Head(results).kind = "send"
    BY <1>3, NextResultOK DEF HandleSendResult
  <2>3. /\ NoneOf("poll", results) => NoneOf("poll", results')
        /\ AtMostOne("poll", results) => AtMostOne("poll", results')
    BY <2>2, TakeOK
  <2>4. ASSUME NEW i \in DOMAIN results, results[i].kind = "poll"
        PROVE  \E j \in DOMAIN results' : results'[j].kind = "poll"
    <3>1. i # 1
      BY <2>2, <2>4, TakeOK
    <3> QED BY <2>2, <2>4, <3>1, TakeOK
  <2> QED BY <2>1, <2>3, <2>4 DEF PollsAlone, NoneOf
<1>4. CASE CountdownEnds \/ Show \/ (\E a \in Accounts \cup {NoAccount} : EditAccount(a)) \/ UNCHANGED vars
  BY <1>1, <1>4 DEF CountdownEnds, Show, EditAccount, vars, clientVars, authVars
<1>5. CASE ServerAnswers
  <2>1. UNCHANGED <<loginCompletion, results>>
    BY <1>5 DEF ServerAnswers, authVars
  <2>2. slot \in Kinds /\ answer.kind = NoRequest /\ answer'.kind = slot /\ slot' = NoRequest
    BY <1>5, RespondOK DEF ServerAnswers, NoAnswer
  <2> QED BY <2>1, <2>2 DEF PollsAlone, NoRequest
<1>6. CASE HandleDynamicKey
  <2>1. answer.kind = "key" /\ answer'.kind = NoRequest /\ answer.outcome \in {"ok", "failed"}
    BY <1>6, AnsweredOK DEF HandleDynamicKey, Kinds, AllOutcomes
  <2>2. UNCHANGED loginCompletion
    BY <1>6 DEF HandleDynamicKey
  <2>3. slot' = slot \/ (slot = NoRequest /\ slot' = "cancel")
    BY <1>6 DEF HandleDynamicKey, Take, TurnedAway, Busy
  <2>4. UNCHANGED results \/ CompleteSend("failed")
    BY <1>6 DEF HandleDynamicKey
  <2> QED BY <2>1, <2>2, <2>3, <2>4, SendCompleted DEF PollsAlone, NoRequest
<1>7. CASE HandleCancelPushMessage
  <2>1. answer.kind = "cancel" /\ answer'.kind = NoRequest
    BY <1>7, AnsweredOK DEF HandleCancelPushMessage, Kinds
  <2>2. UNCHANGED <<slot, loginCompletion, results>>
    BY <1>7 DEF HandleCancelPushMessage
  <2> QED BY <2>1, <2>2 DEF PollsAlone, NoRequest
<1>8. CASE MarkIssued
  BY <1>1, <1>8 DEF MarkIssued, clientVars
<1>9. CASE SendPushMessage
  <2>1. UNCHANGED <<answer, loginCompletion, results>>
    BY <1>9 DEF SendPushMessage
  <2>2. slot' = slot \/ (slot = NoRequest /\ slot' = "send")
    BY <1>9 DEF SendPushMessage, Take, TurnedAway, Busy
  <2> QED BY <2>1, <2>2 DEF PollsAlone, NoRequest
<1>10. CASE PushRefused
  <2>1. UNCHANGED <<slot, answer, loginCompletion>> /\ CompleteSend("failed")
    BY <1>10 DEF PushRefused, clientVars
  <2> QED BY <2>1, SendCompleted DEF PollsAlone
<1>11. CASE HandleSendPushMessage
  <2>1. answer.kind = "send" /\ answer'.kind = NoRequest
        /\ (Heard(answer.outcome) => answer.outcome \in {"ok", "failed"})
    BY <1>11, AnsweredOK DEF HandleSendPushMessage, Kinds, AllOutcomes, Heard
  <2>2. UNCHANGED <<slot, loginCompletion>>
    BY <1>11 DEF HandleSendPushMessage
  <2>3. UNCHANGED results \/ (Heard(answer.outcome) /\ CompleteSend(answer.outcome))
    BY <1>11 DEF HandleSendPushMessage
  <2> QED BY <2>1, <2>2, <2>3, SendCompleted DEF PollsAlone, NoRequest
<1>12. CASE StartLogin
  <2>1. UNCHANGED <<slot, answer, loginCompletion>>
    BY <1>12 DEF StartLogin, clientVars
  <2>2. UNCHANGED results \/ results' = Posted("send", "failed")
    BY <1>12 DEF StartLogin
  <2> QED BY <2>1, <2>2, SendPosted DEF PollsAlone
<1> QED BY <1>2, <1>3, <1>4, <1>5, <1>6, <1>7, <1>8, <1>9, <1>10, <1>11, <1>12

-----------------------------------------------------------------------------
(* A poll the panel waits for is on its way                                *)

LEMMA PollPosted ==
  ASSUME TypeInv, NEW o \in {"success", "continue", "failed"}, results' = Posted("poll", o)
  PROVE  /\ ~NoneOf("poll", results')
         /\ NoneOf("send", results) => NoneOf("send", results')
         /\ AtMostOne("send", results) => AtMostOne("send", results')
         /\ NoneOf("poll", results) => AtMostOne("poll", results')
         /\ \A i \in DOMAIN results' :
              results'[i].kind = "send" => i \in DOMAIN results /\ results'[i] = results[i]
<1> DEFINE m == [kind |-> "poll", outcome |-> o]
<1>1. m \in Results /\ m.kind = "poll" /\ results' = Append(results, m)
  BY ResultsOK DEF Posted
<1> HIDE DEF m
<1>2. results \in Seq(Results)
  BY DEF TypeInv, TypeOK
<1>3. \E i \in DOMAIN results' : results'[i] = m
  BY <1>1, <1>2, PostOK
<1>4. \A i \in DOMAIN results' : \/ i \in DOMAIN results /\ results'[i] = results[i]
                                 \/ i = Len(results') /\ results'[i] = m
  BY <1>1, <1>2, PostOK
<1>5. NoneOf("poll", results) => AtMostOne("poll", results')
  BY <1>4 DEF NoneOf, AtMostOne
<1>6. /\ NoneOf("send", results) => NoneOf("send", results')
      /\ AtMostOne("send", results) => AtMostOne("send", results')
  BY <1>1, <1>4 DEF NoneOf, AtMostOne
<1>7. ~NoneOf("poll", results')
  BY <1>1, <1>3 DEF NoneOf
<1> QED BY <1>1, <1>4, <1>6, <1>7, <1>5

\* What the last property looks at, other than the poll, of the steps that
\* leave the polls alone.
LEMMA OthersWait ==
  ASSUME TypeInv, GetDynamicKey \/ HandleSendResult \/ CountdownEnds \/ ServerAnswers \/
             HandleDynamicKey \/ HandleCancelPushMessage \/ MarkIssued \/ SendPushMessage \/
             PushRefused \/ HandleSendPushMessage \/ StartLogin \/ Show \/
             (\E a \in Accounts \cup {NoAccount} : EditAccount(a)) \/ UNCHANGED vars
  PROVE  (pollInFlight' => pollInFlight) /\ (unheard => unheard')
<1>1. UNCHANGED <<pollInFlight, unheard>> \/ StartLogin \/ HandleSendPushMessage
  BY DEF GetDynamicKey, HandleSendResult, CountdownEnds, ServerAnswers, HandleDynamicKey,
         HandleCancelPushMessage, MarkIssued, SendPushMessage, PushRefused, Show, EditAccount,
         CallbackFrame, panelVars, vars
<1>2. StartLogin => pollInFlight' = FALSE /\ UNCHANGED unheard
  BY DEF StartLogin
<1>3. HandleSendPushMessage => UNCHANGED pollInFlight /\ (unheard => unheard')
  BY DEF HandleSendPushMessage, CallbackFrame, panelVars
<1> QED BY <1>1, <1>2, <1>3

Underway == loginCompletion /\ PollOut

LEMMA WaitNext ==
  ASSUME TypeInv, PollInFlightAnswered, [Next]_vars
  PROVE  PollInFlightAnswered'
<1> SUFFICES pollInFlight' => unheard' \/ Underway' \/ ~NoneOf("poll", results')
  BY DEF PollInFlightAnswered, Underway, PollOut, NoneOf
<1>1. pollInFlight => unheard \/ Underway \/ ~NoneOf("poll", results)
  BY DEF PollInFlightAnswered, Underway, PollOut, NoneOf
<1>2. CASE PollOnce
  <2>1. UNCHANGED unheard
    BY <1>2 DEF PollOnce
  <2>2. CASE Take("poll") /\ loginCompletion' = TRUE
    BY <2>2 DEF Take, Underway, PollOut
  <2>3. CASE PollTurnedAway
    BY <2>3, PollPosted DEF PollTurnedAway
  <2>4. CASE UNCHANGED <<slot, pollInFlight, loginCompletion, results>>
    <3>1. UNCHANGED answer
      BY <1>2 DEF PollOnce
    <3> QED BY <1>1, <2>1, <2>4, <3>1 DEF Underway, PollOut
  <2> QED BY <1>2, <2>2, <2>3, <2>4 DEF PollOnce
<1>3. CASE HandleLoginPollResult \/ Hide
  BY <1>3 DEF HandleLoginPollResult, Hide
<1>4. CASE HandleLoginResult
  <2>1. UNCHANGED <<slot, pollInFlight>>
    BY <1>4 DEF HandleLoginResult, CallbackFrame, panelVars
  <2>2. answer.kind = "poll" /\ (Heard(answer.outcome) => answer.outcome \in {"success", "continue", "failed"})
    BY <1>4, AnsweredOK DEF HandleLoginResult, Kinds, AllOutcomes, Heard
  <2>3. CASE unheard' = TRUE
    BY <2>3
  <2>4. CASE Heard(answer.outcome) /\ CompleteLogin(answer.outcome) /\ UNCHANGED unheard
    <3>1. CASE loginCompletion
      BY <2>2, <2>4, <3>1, PollPosted DEF CompleteLogin
    <3>2. CASE ~loginCompletion
      BY <1>1, <2>1, <2>4, <3>2 DEF CompleteLogin, Underway
    <3> QED BY <3>1, <3>2
  <2> QED BY <1>4, <2>3, <2>4 DEF HandleLoginResult
<1>5. CASE PollsAlone /\ (pollInFlight' => pollInFlight) /\ (unheard => unheard')
  BY <1>1, <1>5 DEF PollsAlone, Underway, PollOut
<1> QED BY <1>2, <1>3, <1>4, <1>5, OthersAlone, OthersWait DEF Next, UiStep, WorkerStep, UserStep

\* A poll that the panel waits for is in the library with its completion, or its
\* result is in the queue, whatever is hidden, cancelled or turned away meanwhile.
THEOREM PollIsAnswered == Spec => []PollInFlightAnswered
<1>1. Init => PollInFlightAnswered
  BY DEF Init, PollInFlightAnswered
<1> QED BY TypeInit, TypeNext, WaitNext, <1>1, PTL DEF Spec

-----------------------------------------------------------------------------
(* The approval is not lost                                                *)

OkAt(r, i)   == r[i].kind = "send" /\ r[i].outcome = "ok"
NoOk(r)      == \A i \in DOMAIN r : ~OkAt(r, i)
OkIsLast(r)  == \A i \in DOMAIN r : OkAt(r, i) => i = Len(r)

PushKinds == {"key", "cancel", "send"}

\* How far the requests of the click are: they all follow one another.
Later == slot \in {"cancel", "send"} \/ answer.kind \in PushKinds
Chain == slot = "key" \/ Later \/ issuing # "no"

\* As long as the panel was never left, one thing is under way at a time: either
\* the requests of a click, whose last result is still to be looked at, or a poll.
PollInv ==
  hides = 0 =>
    /\ pollTimer => ~sendInFlight /\ ~PollOut /\ NoneOf("poll", results)
    /\ PollOut => loginCompletion /\ NoneOf("poll", results)
    /\ ~(slot = "poll" /\ answer.kind = "poll")
    /\ AtMostOne("poll", results)

SendInv ==
  hides = 0 =>
    /\ Chain => sendInFlight /\ keyCalls = 0 /\ NoneOf("send", results)
    /\ ~(slot \in PushKinds /\ answer.kind \in PushKinds)
    /\ issuing # "no" => slot = NoRequest /\ answer = NoAnswer
    /\ Later => ~PollOut
    /\ keyCalls > 0 => sendInFlight /\ NoneOf("send", results)
    /\ ~sendInFlight => NoneOf("send", results)
    /\ AtMostOne("send", results)
    /\ OkIsLast(results)
    /\ PollOut => NoOk(results)

\* The result of the click comes on top of what is there.
LEMMA SendResultPosted ==
  ASSUME TypeInv, NEW o \in {"ok", "failed"}, CompleteSend(o) \/ results' = Posted("send", o),
         NoneOf("send", results)
  PROVE  /\ AtMostOne("send", results')
         /\ OkIsLast(results')
         /\ o # "ok" => NoOk(results')
<1> DEFINE m == [kind |-> "send", outcome |-> o]
<1>1. CASE UNCHANGED results
  <2>1. NoOk(results)
    BY DEF NoneOf, NoOk, OkAt
  <2> QED BY <1>1, <2>1 DEF NoneOf, AtMostOne, OkIsLast, NoOk
<1>2. CASE results' = Append(results, m)
  <2>1. m \in Results /\ results \in Seq(Results)
    BY ResultsOK DEF TypeInv, TypeOK
  <2>2. m.kind = "send" /\ m.outcome = o
    OBVIOUS
  <2> HIDE DEF m
  <2>3. \A i \in DOMAIN results' : \/ i \in DOMAIN results /\ results'[i] = results[i]
                                   \/ i = Len(results') /\ results'[i] = m
    BY <1>2, <2>1, PostOK
  <2>4. \A i \in DOMAIN results' : results'[i].kind = "send" => i = Len(results') /\ results'[i] = m
    BY <2>3 DEF NoneOf
  <2> QED BY <2>2, <2>4 DEF AtMostOne, OkIsLast, NoOk, OkAt
<1> QED BY <1>1, <1>2 DEF CompleteSend, Posted

\* The first result is looked at.
LEMMA ResultTaken ==
  ASSUME TypeInv, NEW k, NextResult(k)
  PROVE  /\ ~NoneOf(k, results)
         /\ \A j : /\ NoneOf(j, results) => NoneOf(j, results')
                   /\ AtMostOne(j, results) => AtMostOne(j, results')
         /\ AtMostOne(k, results) => NoneOf(k, results')
         /\ OkIsLast(results) => OkIsLast(results')
         /\ NoOk(results) => NoOk(results')
         /\ OkIsLast(results) /\ OkAt(results, 1) => results' = <<>>
<1>1. /\ results \in Seq(Results) /\ results # <<>> /\ results' = Tail(results)
      /\ Head(results).kind = k /\ results' \in Seq(Results)
  BY NextResultOK
<1>2. /\ 1 \in DOMAIN results /\ results[1] = Head(results)
      /\ \A i \in DOMAIN results' : i + 1 \in DOMAIN results /\ results'[i] = results[i + 1]
      /\ Len(results') = Len(results) - 1 /\ Len(results) \in Nat
  BY <1>1, TakeOK
<1>3. \A j : /\ NoneOf(j, results) => NoneOf(j, results')
             /\ AtMostOne(j, results) => AtMostOne(j, results')
             /\ AtMostOne(j, results) /\ Head(results).kind = j => NoneOf(j, results')
  BY <1>1, TakeOK
<1>4. ~NoneOf(k, results)
  BY <1>1, <1>2 DEF NoneOf
<1>5. NoOk(results) => NoOk(results')
  BY <1>2 DEF NoOk, OkAt
<1>6. ASSUME OkIsLast(results), NEW i \in DOMAIN results', OkAt(results', i)
      PROVE  i = Len(results')
  <2>1. i + 1 = Len(results)
    BY <1>2, <1>6 DEF OkIsLast, OkAt
  <2>2. i \in Nat
    BY <1>1
  <2> QED BY <1>2, <2>1, <2>2
<1>7. OkIsLast(results) /\ OkAt(results, 1) => results' = <<>>
  <2>1. Len(results') = 0 => results' = <<>>
    BY <1>1
  <2> QED BY <1>2, <2>1 DEF OkIsLast
<1> QED BY <1>1, <1>3, <1>4, <1>5, <1>6, <1>7 DEF OkIsLast

LEMMA SendNext ==
  ASSUME TypeInv, SendInv, PollInv, [Next]_vars
  PROVE  SendInv'
<1> SUFFICES ASSUME hides' = 0 PROVE SendInv'
  BY DEF SendInv
<1>1. ~Hide /\ hides = 0
  <2>1. hides' \in {hides, hides + 1} /\ hides \in Nat
    BY DEF Next, UiStep, WorkerStep, UserStep, StartLogin, Hide, Show, EditAccount, GetDynamicKey,
           HandleSendResult, HandleLoginPollResult, CountdownEnds, PollOnce, ServerAnswers,
           HandleDynamicKey, HandleCancelPushMessage, MarkIssued, SendPushMessage, PushRefused,
           HandleSendPushMessage, HandleLoginResult, CallbackFrame, history, vars, TypeInv
  <2> QED BY <2>1 DEF Hide
<1>2. /\ Chain => sendInFlight /\ keyCalls = 0 /\ NoneOf("send", results)
      /\ ~(slot \in PushKinds /\ answer.kind \in PushKinds)
      /\ issuing # "no" => slot = NoRequest /\ answer = NoAnswer
      /\ Later => ~PollOut
      /\ keyCalls > 0 => sendInFlight /\ NoneOf("send", results)
      /\ ~sendInFlight => NoneOf("send", results)
      /\ AtMostOne("send", results)
      /\ OkIsLast(results)
      /\ PollOut => NoOk(results)
  BY <1>1 DEF SendInv
<1>3. NoneOf("send", results) => NoOk(results)
  BY DEF NoneOf, NoOk, OkAt
<1>4. NoneOf("send", results') => NoOk(results') /\ OkIsLast(results')
  BY DEF NoneOf, NoOk, OkIsLast, OkAt
<1>5. CASE StartLogin
  <2>1. /\ keyCalls = 0 /\ ~sendInFlight /\ sendInFlight' = TRUE /\ keyCalls' \in {0, 1}
        /\ UNCHANGED <<slot, answer, issuing>>
    BY <1>5 DEF StartLogin, InEventLoop, clientVars
  <2>2. ~Chain' /\ NoneOf("send", results)
    BY <1>2, <2>1 DEF Chain, Later
  <2>3. CASE keyCalls' = 1 /\ UNCHANGED results
    BY <1>2, <1>3, <2>1, <2>2, <2>3 DEF SendInv, Chain, PollOut
  <2>4. CASE keyCalls' = 0 /\ results' = Posted("send", "failed")
    <3>1. AtMostOne("send", results') /\ OkIsLast(results') /\ NoOk(results')
      BY <2>2, <2>4, SendResultPosted
    <3> QED BY <1>2, <2>1, <2>2, <2>4, <3>1 DEF SendInv, Chain
  <2> QED BY <1>5, <2>1, <2>3, <2>4 DEF StartLogin
<1>6. CASE GetDynamicKey
  <2>1. /\ UNCHANGED <<sendInFlight, issuing>> /\ keyCalls > 0 /\ sendInFlight
        /\ NoneOf("send", results) /\ ~Chain
    BY <1>2, <1>6 DEF GetDynamicKey, panelVars
  <2>2. CASE Take("key") /\ keyCalls' = 0 /\ UNCHANGED <<answer, results>>
    <3>1. slot' = "key" /\ ~Later'
      BY <2>1, <2>2 DEF Take, Chain, Later
    <3> QED BY <1>3, <2>1, <2>2, <3>1
               DEF SendInv, Chain, Later, PushKinds, AtMostOne, NoneOf, OkIsLast, NoOk, OkAt
  <2>3. CASE Cancel
    <3>1. ~Chain' /\ ~(slot' \in PushKinds /\ answer'.kind \in PushKinds)
      BY <1>2, <2>1, <2>3, CancelOK DEF Chain, Later
    <3>2. \/ UNCHANGED results
          \/ keyCalls' = 0 /\ CompleteSend("failed")
      BY <1>6, <2>1, <2>3 DEF GetDynamicKey, GiveUp, Take, Chain, Cancel, Busy
    <3>3. CASE UNCHANGED results
      BY <1>2, <1>3, <2>1, <3>1, <3>3 DEF SendInv, Chain
    <3>4. CASE keyCalls' = 0 /\ CompleteSend("failed")
      <4>1. AtMostOne("send", results') /\ OkIsLast(results') /\ NoOk(results')
        BY <2>1, <3>4, SendResultPosted
      <4> QED BY <2>1, <3>1, <3>4, <4>1 DEF SendInv, Chain
    <3> QED BY <3>2, <3>3, <3>4
  <2> QED BY <1>6, <2>2, <2>3 DEF GetDynamicKey
<1>7. CASE HandleSendResult
  <2>1. /\ NextResult("send") /\ keyCalls' = 0 /\ sendInFlight' = FALSE
        /\ UNCHANGED <<slot, answer, issuing>>
    BY <1>7 DEF HandleSendResult, NextResult, InEventLoop, clientVars, authVars
  <2>2. ~NoneOf("send", results) /\ NoneOf("send", results') /\ AtMostOne("send", results')
    BY <1>2, <2>1, ResultTaken
  <2>3. ~Chain'
    BY <1>2, <2>1, <2>2 DEF Chain, Later
  <2> QED BY <1>2, <1>4, <2>1, <2>2, <2>3 DEF SendInv, Chain
<1>8. CASE HandleLoginPollResult
  <2>1. NextResult("poll") /\ UNCHANGED <<slot, answer, sendInFlight, keyCalls, issuing>>
    BY <1>8 DEF HandleLoginPollResult, clientVars, authVars
  <2>2. /\ NoneOf("send", results) => NoneOf("send", results')
        /\ AtMostOne("send", results) => AtMostOne("send", results')
        /\ OkIsLast(results) => OkIsLast(results')
        /\ NoOk(results) => NoOk(results')
    BY <2>1, ResultTaken
  <2> QED BY <1>2, <2>1, <2>2 DEF SendInv, Chain, Later, PollOut
<1>9. CASE UNCHANGED <<slot, answer, sendInFlight, keyCalls, results, issuing>>
  BY <1>2, <1>9 DEF SendInv, Chain, Later, PollOut
<1>10. CASE CountdownEnds \/ Show \/ (\E a \in Accounts \cup {NoAccount} : EditAccount(a)) \/ UNCHANGED vars
  BY <1>9, <1>10 DEF CountdownEnds, Show, EditAccount, vars, clientVars, panelVars, authVars
<1>11. CASE PollOnce
  <2>1. /\ ~sendInFlight /\ UNCHANGED <<answer, sendInFlight, keyCalls, issuing>>
    BY <1>1, <1>11 DEF PollOnce, PollInv
  <2>2. slot' = slot \/ (slot' = "poll" /\ UNCHANGED results)
    BY <1>11 DEF PollOnce, Take, PollTurnedAway, TurnedAway
  <2>3. UNCHANGED results \/ results' = Posted("poll", "failed")
    BY <1>11 DEF PollOnce, PollTurnedAway
  <2>4. NoneOf("send", results') /\ AtMostOne("send", results')
    BY <1>2, <2>1, <2>3, PollPosted
  <2>5. ~Chain' /\ ~(slot' \in PushKinds /\ answer'.kind \in PushKinds)
    BY <1>2, <2>1, <2>2 DEF Chain, Later, PushKinds
  <2> QED BY <1>2, <1>4, <2>1, <2>4, <2>5 DEF SendInv, Chain
<1>12. CASE ServerAnswers
  <2>1. UNCHANGED <<results, sendInFlight, keyCalls, issuing>> /\ issuing = "no"
    BY <1>12 DEF ServerAnswers, panelVars, authVars
  <2>2. slot \in Kinds /\ answer.kind = NoRequest /\ answer'.kind = slot /\ slot' = NoRequest
    BY <1>12, RespondOK DEF ServerAnswers, NoAnswer
  <2>3. /\ Chain' => Chain
        /\ ~(slot' \in PushKinds /\ answer'.kind \in PushKinds)
        /\ Later' => ~PollOut'
        /\ PollOut' => PollOut
    BY <2>1, <2>2 DEF Chain, Later, PollOut, PushKinds, Kinds, NoRequest
  <2> QED BY <1>2, <2>1, <2>3 DEF SendInv
<1>13. CASE HandleDynamicKey
  <2>1. answer.kind = "key" /\ answer'.kind = NoRequest /\ issuing = "no"
    BY <1>2, <1>13, AnsweredOK DEF HandleDynamicKey, Kinds, NoAnswer, NoRequest
  <2>2. /\ Chain /\ ~PollOut /\ sendInFlight /\ keyCalls = 0 /\ NoneOf("send", results)
        /\ slot \notin PushKinds /\ slot # "poll"
    BY <1>2, <2>1 DEF Chain, Later, PushKinds, PollOut
  <2>3. UNCHANGED <<sendInFlight, keyCalls, issuing>>
    BY <1>13 DEF HandleDynamicKey, CallbackFrame, panelVars
  <2>4. CASE slot' \in {slot, "cancel"} /\ UNCHANGED results
    <3>1. ~(slot' \in PushKinds /\ answer'.kind \in PushKinds) /\ ~PollOut'
      BY <2>1, <2>2, <2>4 DEF PollOut, PushKinds, NoRequest
    <3> QED BY <1>2, <1>3, <2>1, <2>2, <2>3, <2>4, <3>1 DEF SendInv
  <2>5. CASE UNCHANGED slot /\ CompleteSend("failed")
    <3>1. ~Chain' /\ ~PollOut'
      BY <2>1, <2>2, <2>3, <2>5 DEF Chain, Later, PollOut, PushKinds, NoRequest
    <3>2. AtMostOne("send", results') /\ OkIsLast(results')
      BY <2>2, <2>5, SendResultPosted
    <3> QED BY <2>1, <2>2, <2>3, <3>1, <3>2 DEF SendInv, Chain, PushKinds, NoRequest
  <2> QED BY <1>13, <2>4, <2>5 DEF HandleDynamicKey, Take, TurnedAway
<1>14. CASE HandleCancelPushMessage
  <2>1. answer.kind = "cancel" /\ answer' = NoAnswer /\ answer'.kind = NoRequest
    BY <1>14, AnsweredOK DEF HandleCancelPushMessage, Kinds
  <2>2. /\ Chain /\ ~PollOut /\ sendInFlight /\ keyCalls = 0 /\ NoneOf("send", results)
        /\ slot \notin PushKinds /\ slot # "poll"
    BY <1>2, <2>1 DEF Chain, Later, PushKinds, PollOut
  <2>3. UNCHANGED <<slot, sendInFlight, keyCalls, results>>
    BY <1>14 DEF HandleCancelPushMessage, CallbackFrame, panelVars
  <2>4. slot = NoRequest
    BY <2>2 DEF TypeInv, TypeOK, PushKinds
  <2>5. ~PollOut' /\ ~Later' /\ ~(slot' \in PushKinds /\ answer'.kind \in PushKinds)
    BY <2>1, <2>3, <2>4 DEF PollOut, Later, PushKinds, NoRequest
  <2> QED BY <1>2, <2>1, <2>2, <2>3, <2>4, <2>5 DEF SendInv
<1>15. CASE MarkIssued
  <2>1. /\ issuing # "no" /\ issuing' # "no" /\ Chain /\ Chain'
        /\ UNCHANGED <<slot, answer, sendInFlight, keyCalls, results>>
    BY <1>15 DEF MarkIssued, CallbackFrame, panelVars, clientVars, Chain
  <2> QED BY <1>2, <2>1 DEF SendInv, Later, PollOut
<1>16. CASE SendPushMessage
  <2>1. /\ issuing # "no" /\ Chain /\ slot = NoRequest /\ answer = NoAnswer
    BY <1>2, <1>16 DEF SendPushMessage, Chain
  <2>2. /\ slot' = "send" /\ issuing' = "no"
        /\ UNCHANGED <<answer, sendInFlight, keyCalls, results>>
    BY <1>16, <2>1 DEF SendPushMessage, CallbackFrame, panelVars, Take, TurnedAway, Busy
  <2>3. ~(slot' \in PushKinds /\ answer'.kind \in PushKinds) /\ ~PollOut'
    BY <2>1, <2>2 DEF PollOut, PushKinds, NoRequest, NoAnswer
  <2> QED BY <1>2, <2>1, <2>2, <2>3 DEF SendInv
<1>17. CASE PushRefused
  <2>1. /\ issuing # "no" /\ Chain /\ slot = NoRequest /\ answer = NoAnswer /\ issuing' = "no"
        /\ UNCHANGED <<slot, answer, sendInFlight, keyCalls>> /\ CompleteSend("failed")
    BY <1>2, <1>17 DEF PushRefused, Chain, CallbackFrame, panelVars, clientVars
  <2>2. sendInFlight /\ keyCalls = 0 /\ NoneOf("send", results)
    BY <1>2, <2>1
  <2>3. ~Chain' /\ ~PollOut' /\ ~(slot' \in PushKinds)
    BY <2>1 DEF Chain, Later, PollOut, PushKinds, NoRequest, NoAnswer
  <2>4. AtMostOne("send", results') /\ OkIsLast(results')
    BY <2>1, <2>2, SendResultPosted
  <2> QED BY <2>1, <2>2, <2>3, <2>4 DEF SendInv, Chain
<1>18. CASE HandleSendPushMessage
  <2>1. /\ answer.kind = "send" /\ answer'.kind = NoRequest /\ issuing = "no"
        /\ Heard(answer.outcome) => answer.outcome \in {"ok", "failed"}
    BY <1>2, <1>18, AnsweredOK
       DEF HandleSendPushMessage, Kinds, AllOutcomes, Heard, NoAnswer, NoRequest
  <2>2. /\ Chain /\ ~PollOut /\ sendInFlight /\ keyCalls = 0 /\ NoneOf("send", results)
        /\ slot \notin PushKinds /\ slot # "poll"
    BY <1>2, <2>1 DEF Chain, Later, PushKinds, PollOut
  <2>3. UNCHANGED <<slot, sendInFlight, keyCalls, issuing>>
    BY <1>18 DEF HandleSendPushMessage, CallbackFrame, panelVars
  <2>4. ~Chain' /\ ~PollOut'
    BY <2>1, <2>2, <2>3 DEF Chain, Later, PollOut, PushKinds, NoRequest
  <2>5. AtMostOne("send", results') /\ OkIsLast(results')
    <3>1. CASE UNCHANGED results
      BY <1>2, <3>1
    <3>2. CASE Heard(answer.outcome) /\ CompleteSend(answer.outcome)
      BY <2>1, <2>2, <3>2, SendResultPosted
    <3> QED BY <1>18, <3>1, <3>2 DEF HandleSendPushMessage
  <2> QED BY <2>1, <2>2, <2>3, <2>4, <2>5 DEF SendInv, Chain, PushKinds, NoRequest
<1>19. CASE HandleLoginResult
  <2>1. /\ answer.kind = "poll" /\ answer'.kind = NoRequest /\ issuing = "no"
        /\ Heard(answer.outcome) => answer.outcome \in {"success", "continue", "failed"}
    BY <1>2, <1>19, AnsweredOK
       DEF HandleLoginResult, Kinds, AllOutcomes, Heard, NoAnswer, NoRequest
  <2>2. UNCHANGED <<slot, sendInFlight, keyCalls, issuing>>
    BY <1>19 DEF HandleLoginResult, CallbackFrame, panelVars
  <2>3. NoOk(results)
    BY <1>2, <2>1 DEF PollOut
  <2>4. UNCHANGED results \/ (Heard(answer.outcome) /\ results' = Posted("poll", answer.outcome))
    BY <1>19 DEF HandleLoginResult, CompleteLogin
  <2>5. /\ NoneOf("send", results) => NoneOf("send", results')
        /\ AtMostOne("send", results')
        /\ \A i \in DOMAIN results' :
             results'[i].kind = "send" => i \in DOMAIN results /\ results'[i] = results[i]
    BY <1>2, <2>1, <2>4, PollPosted
  <2>6. NoOk(results') /\ OkIsLast(results')
    BY <2>3, <2>5 DEF NoOk, OkIsLast, OkAt
  <2>7. /\ Chain' => Chain
        /\ ~(slot' \in PushKinds /\ answer'.kind \in PushKinds)
        /\ ~Later'
    BY <1>2, <2>1, <2>2 DEF Chain, Later, PushKinds, NoRequest, PollOut
  <2> QED BY <1>2, <2>1, <2>2, <2>5, <2>6, <2>7 DEF SendInv
<1> QED BY <1>1, <1>5, <1>6, <1>7, <1>8, <1>10, <1>11, <1>12, <1>13, <1>14,
           <1>15, <1>16, <1>17, <1>18, <1>19
        DEF Next, UiStep, WorkerStep, UserStep

LEMMA PollNext ==
  ASSUME TypeInv, SendInv, PollInv, [Next]_vars
  PROVE  PollInv'
<1> SUFFICES ASSUME hides' = 0 PROVE PollInv'
  BY DEF PollInv
<1>1. ~Hide /\ hides = 0
  <2>1. hides' \in {hides, hides + 1} /\ hides \in Nat
    BY DEF Next, UiStep, WorkerStep, UserStep, StartLogin, Hide, Show, EditAccount, GetDynamicKey,
           HandleSendResult, HandleLoginPollResult, CountdownEnds, PollOnce, ServerAnswers,
           HandleDynamicKey, HandleCancelPushMessage, MarkIssued, SendPushMessage, PushRefused,
           HandleSendPushMessage, HandleLoginResult, CallbackFrame, history, vars, TypeInv
  <2> QED BY <2>1 DEF Hide
<1>2. /\ pollTimer => ~sendInFlight /\ ~PollOut /\ NoneOf("poll", results)
      /\ PollOut => loginCompletion /\ NoneOf("poll", results)
      /\ ~(slot = "poll" /\ answer.kind = "poll")
      /\ AtMostOne("poll", results)
  BY <1>1 DEF PollInv
<1>3. CASE PollsAlone /\ (pollTimer' => pollTimer) /\ (sendInFlight' => sendInFlight)
  BY <1>2, <1>3 DEF PollsAlone, PollInv, PollOut
<1>4. CASE StartLogin
  <2>1. PollsAlone /\ pollTimer' = FALSE
    BY <1>4, OthersAlone DEF StartLogin
  <2> QED BY <1>2, <2>1 DEF PollsAlone, PollInv, PollOut
<1>5. CASE HandleSendResult
  <2>1. /\ PollsAlone /\ NextResult("send") /\ sendInFlight' = FALSE
        /\ UNCHANGED <<slot, answer>>
    BY <1>5, OthersAlone DEF HandleSendResult, clientVars
  <2>2. CASE UNCHANGED pollTimer
    BY <1>2, <2>1, <2>2 DEF PollsAlone, PollInv, PollOut
  <2>3. CASE Head(results).outcome = "ok"
    <3>1. 1 \in DOMAIN results /\ OkAt(results, 1)
      BY <2>1, <2>3, NextResultOK, TakeOK DEF OkAt
    <3>2. OkIsLast(results) /\ ~PollOut
      BY <1>1, <3>1 DEF SendInv, NoOk
    <3>3. results' = <<>>
      BY <2>1, <3>1, <3>2, ResultTaken
    <3>4. NoneOf("poll", results') /\ AtMostOne("poll", results')
      BY <3>3 DEF NoneOf, AtMostOne
    <3> QED BY <2>1, <3>2, <3>4 DEF PollInv, PollOut
  <2> QED BY <1>5, <2>2, <2>3 DEF HandleSendResult
<1>6. CASE PollOnce
  <2>1. /\ pollTimer /\ pollTimer' = FALSE /\ UNCHANGED answer
        /\ ~PollOut /\ NoneOf("poll", results)
    BY <1>2, <1>6 DEF PollOnce
  <2>2. CASE Take("poll") /\ loginCompletion' = TRUE /\ UNCHANGED results
    BY <1>2, <2>1, <2>2 DEF Take, PollInv, PollOut
  <2>3. CASE PollTurnedAway
    <3>1. ~PollOut' /\ results' = Posted("poll", "failed")
      BY <2>1, <2>3 DEF PollTurnedAway, TurnedAway, PollOut
    <3>2. AtMostOne("poll", results')
      BY <2>1, <3>1, PollPosted
    <3> QED BY <2>1, <3>1, <3>2 DEF PollInv, PollOut
  <2>4. CASE UNCHANGED <<slot, loginCompletion, results>>
    BY <1>2, <2>1, <2>4 DEF PollInv, PollOut
  <2> QED BY <1>6, <2>2, <2>3, <2>4 DEF PollOnce
<1>7. CASE HandleLoginPollResult
  <2>1. NextResult("poll") /\ UNCHANGED <<slot, answer, sendInFlight, loginCompletion>>
    BY <1>7 DEF HandleLoginPollResult, clientVars, authVars
  <2>2. ~NoneOf("poll", results) /\ NoneOf("poll", results') /\ AtMostOne("poll", results')
    BY <1>2, <2>1, ResultTaken
  <2>3. ~PollOut /\ ~pollTimer
    BY <1>2, <2>2
  <2>4. pollTimer' => ~sendInFlight
    BY <1>7, <2>3 DEF HandleLoginPollResult, SchedulePoll, NothingInFlight
  <2> QED BY <2>1, <2>2, <2>3, <2>4 DEF PollInv, PollOut
<1>8. CASE HandleLoginResult
  <2>1. answer.kind = "poll" /\ answer'.kind = NoRequest
        /\ (Heard(answer.outcome) => answer.outcome \in {"success", "continue", "failed"})
    BY <1>8, AnsweredOK DEF HandleLoginResult, Kinds, AllOutcomes, Heard
  <2>2. UNCHANGED <<slot, pollTimer>>
    BY <1>8 DEF HandleLoginResult, CallbackFrame, panelVars
  <2>3. /\ NoneOf("poll", results) /\ ~pollTimer /\ slot # "poll"
    BY <1>2, <2>1 DEF PollOut
  <2>4. UNCHANGED results \/ (Heard(answer.outcome) /\ results' = Posted("poll", answer.outcome))
    BY <1>8 DEF HandleLoginResult, CompleteLogin
  <2>5. AtMostOne("poll", results')
    BY <1>2, <2>1, <2>3, <2>4, PollPosted
  <2>6. ~PollOut' /\ ~pollTimer'
    BY <2>1, <2>2, <2>3 DEF PollOut, NoRequest
  <2> QED BY <2>5, <2>6 DEF PollInv, PollOut
<1>9. CASE GetDynamicKey \/ CountdownEnds \/ ServerAnswers \/ HandleDynamicKey \/
           HandleCancelPushMessage \/ MarkIssued \/ SendPushMessage \/ PushRefused \/
           HandleSendPushMessage \/ Show \/
           (\E a \in Accounts \cup {NoAccount} : EditAccount(a)) \/ UNCHANGED vars
  <2>1. UNCHANGED <<pollTimer, sendInFlight>>
    BY <1>9 DEF GetDynamicKey, CountdownEnds, ServerAnswers, HandleDynamicKey,
       HandleCancelPushMessage, MarkIssued, SendPushMessage, PushRefused, HandleSendPushMessage,
       Show, EditAccount, CallbackFrame, panelVars, vars
  <2> QED BY <1>3, <1>9, <2>1, OthersAlone
<1> QED BY <1>1, <1>4, <1>5, <1>6, <1>7, <1>8, <1>9 DEF Next, UiStep, WorkerStep, UserStep

\* When the user has confirmed on the phone, the completion of the poll still waits
\* for it: no click, no result in the queue and no request that is turned away has
\* used it up, as long as the panel was never left.
THEOREM ApprovalIsKept == Spec => []ApprovalNotLost
<1>1. Init => SendInv /\ PollInv
  BY DEF Init, ClientInit, NoAnswer, NoRequest, SendInv, PollInv, Chain, Later, PollOut, PushKinds,
         NoneOf, AtMostOne, OkIsLast, NoOk
<1>2. PollInv => ApprovalNotLost
  BY DEF PollInv, ApprovalNotLost, PollOut
<1>3. TypeInv /\ SendInv /\ PollInv /\ [Next]_vars => SendInv' /\ PollInv'
  BY SendNext, PollNext
<1> QED BY TypeInit, TypeNext, <1>1, <1>2, <1>3, PTL DEF Spec

-----------------------------------------------------------------------------
(* Pushes                                                                  *)

\* One push for a click is left: sent, about to be sent, or still to be issued.  A click
\* that comes when an earlier push is about to be sent adds that one.
PushInv ==
  /\ pushes \in Nat
  /\ issuing = "checked" => ~pushIssued
  /\ pushes + (IF issuing = "marked" THEN 1 ELSE 0) + (IF pushIssued THEN 0 ELSE 1)
       <= IF crossed THEN 2 ELSE 1
  /\ crossed => hides > 0

LEMMA PushNext == TypeInv /\ SendInv /\ PushInv /\ [Next]_vars => PushInv'
<1> SUFFICES ASSUME TypeInv, SendInv, PushInv, [Next]_vars PROVE PushInv'
  OBVIOUS
<1>1. hides \in Nat /\ pushIssued \in BOOLEAN /\ crossed \in BOOLEAN
  BY DEF TypeInv, TypeOK
<1>2. CASE StartLogin
  <2>1. ~sendInFlight /\ pushIssued' = FALSE /\ pushes' = 0 /\ crossed' = (issuing = "marked")
        /\ UNCHANGED <<hides, issuing>>
    BY <1>2 DEF StartLogin
  <2>2. hides = 0 => issuing = "no"
    BY <2>1 DEF SendInv, Chain
  <2> QED BY <1>1, <2>1, <2>2 DEF PushInv
<1>3. CASE HandleCancelPushMessage
  BY <1>1, <1>3 DEF HandleCancelPushMessage, MayIssue, CallbackFrame, PushInv
<1>4. CASE MarkIssued
  BY <1>1, <1>4 DEF MarkIssued, CallbackFrame, PushInv
<1>5. CASE SendPushMessage
  <2>1. /\ issuing = "marked" /\ UNCHANGED <<pushIssued, crossed, hides>>
        /\ \/ issuing' = "no" /\ pushes' = pushes + 1
           \/ issuing' = "refused" /\ UNCHANGED pushes
    BY <1>5 DEF SendPushMessage, CallbackFrame
  <2> QED BY <1>1, <2>1 DEF PushInv
<1>6. CASE PushRefused
  BY <1>1, <1>6 DEF PushRefused, CallbackFrame, PushInv
<1>7. CASE UNCHANGED <<pushes, pushIssued, issuing, crossed>> /\ hides' \in {hides, hides + 1}
  BY <1>1, <1>7 DEF PushInv
<1>8. UserStep => \/ StartLogin
                  \/ /\ UNCHANGED <<pushes, pushIssued, issuing, crossed>>
                     /\ hides' \in {hides, hides + 1}
  BY DEF UserStep, Hide, Show, EditAccount, history, authVars
<1>9. UiStep => UNCHANGED <<pushes, pushIssued, issuing, crossed, hides>>
  BY DEF UiStep, GetDynamicKey, HandleSendResult, HandleLoginPollResult, CountdownEnds, PollOnce,
         history, authVars
<1>10. WorkerStep => \/ HandleCancelPushMessage \/ MarkIssued \/ SendPushMessage \/ PushRefused
                     \/ UNCHANGED <<pushes, pushIssued, issuing, crossed, hides>>
  BY DEF WorkerStep, ServerAnswers, HandleDynamicKey, HandleSendPushMessage, HandleLoginResult,
         CallbackFrame, history, authVars
<1> QED BY <1>2, <1>3, <1>4, <1>5, <1>6, <1>7, <1>8, <1>9, <1>10 DEF Next, vars, history, authVars

\* However often the button is clicked and the panel left, and whatever chain of
\* requests still runs, a click sends one push; a second one only if the click cleared
\* the mark of an earlier push that was about to be sent, in a panel that had been left.
THEOREM OnePushForEachClick == Spec => []OnePushPerClick
<1>1. Init => SendInv /\ PollInv /\ PushInv
  BY DEF Init, ClientInit, NoAnswer, NoRequest, SendInv, PollInv, PushInv, Chain, Later, PollOut,
         PushKinds, NoneOf, AtMostOne, OkIsLast, NoOk
<1>2. TypeInv /\ PushInv => OnePushPerClick
  BY DEF PushInv, OnePushPerClick, TypeInv, TypeOK
<1>3. TypeInv /\ SendInv /\ PollInv /\ [Next]_vars => SendInv' /\ PollInv'
  BY SendNext, PollNext
<1> QED BY TypeInit, TypeNext, PushNext, <1>1, <1>2, <1>3, PTL DEF Spec
=============================================================================
