---------------------------- MODULE SdoBaseClient ----------------------------
(***************************************************************************)
(* The authentication library behind one SdoBase handle                    *)
(* (src/third_party/sdologinclient/libLoginClient), as the login panels    *)
(* see it: one worker thread that holds one request at a time, turns       *)
(* another away with ERROR_PROCESSING, and answers the one it took by one  *)
(* callback.  It is idle again before that callback runs, so a new request *)
(* can be taken while the callback of the previous one is still to come.   *)
(***************************************************************************)
VARIABLES
  slot,   \* the request that keeps m_state of the CurlHttpThread at STATE_BUSY
  answer  \* the answer whose callback has not run yet

clientVars == <<slot, answer>>

NoRequest == "none"
NoAnswer  == [kind |-> NoRequest, outcome |-> "none"]

ClientInit == slot = NoRequest /\ answer = NoAnswer

Busy    == slot # NoRequest
Working == Busy /\ answer = NoAnswer

\* CurlHttpThread::ProcessRequest
Take(kind) == ~Busy /\ slot' = kind
TurnedAway == Busy /\ UNCHANGED slot

\* The worker has the answer of the server, or gives up.
Respond(outcomes) ==
  /\ Working
  /\ \E outcome \in outcomes : answer' = [kind |-> slot, outcome |-> outcome]
  /\ slot' = NoRequest

\* SdoBase_Cancel interrupts the transfer of a request and changes nothing else: an
\* answer still comes, as a failure or from the second host.
Cancel == UNCHANGED clientVars

\* The callback for an answer of this kind runs.
Answered(kind) == answer.kind = kind /\ answer' = NoAnswer
=============================================================================
