-------------------------- MODULE HttpClientProofs --------------------------
(***************************************************************************)
(* Proofs about HttpClient for every set of calls and every retry policy:  *)
(* type correctness, the safety invariants, the bound on sleeping, that    *)
(* nothing is sent after a cancellation, and that it implements RestCall.  *)
(***************************************************************************)
EXTENDS HttpClient, TLAPS

\* What relates the fields of one call: TruthfulOutcome and PostAtMostOnce
\* speak of executions alone, and are inductive only together with where the
\* current attempt is and what a POST can have done when.
CallInv(c) ==
  /\ wire[c] # "none" => pc[c] = "wait"
  /\ pc[c] = "done" <=> outcome[c] # "none"
  /\ pc[c] = "idle" => executed[c] = 0 /\ stale[c] = 0
  /\ wire[c] = "ok" \/ outcome[c] = "ok" => executed[c] > 0

PostInv(c) ==
  request[c] = "Post" =>
    /\ pc[c] # "sleep"
    /\ pc[c] \in {"idle", "auth", "send"} \/ wire[c] \in {"request", "refused"}
         \/ outcome[c] = "refused" => executed[c] = 0 /\ stale[c] = 0
    /\ executed[c] + stale[c] <= 1
    /\ wire[c] \in Answers => stale[c] = 0

IInv == \A c \in Calls : CallInv(c) /\ PostInv(c)

\* The bound on sleeping needs the number of sleeps so far and the bound on
\* the one that is pending.
SleepInv == \A c \in Calls : /\ slept[c] <= attempt[c] * MaxDelay
                             /\ pc[c] = "sleep" => /\ attempt[c] < MaxRetries
                                                   /\ delay[c] <= MaxDelay

-----------------------------------------------------------------------------
\* retryPolicy.backoff: every delay is an integer of at most maxDelay.
LEMMA BackoffBounded ==
  ASSUME NEW n \in Nat, NEW d \in BackoffAfterAnswer(n) \cup BackoffAfterReset(n)
  PROVE  d \in Int /\ d <= MaxDelay
<1>1. Clamped(n) \in 1 .. MaxDelay
  BY PolicyAssumption DEF Clamped
<1>2. CASE d \in Jittered(n)
  <2> DEFINE half == Clamped(n) \div 2
  <2>1. half \in Int /\ half + half <= MaxDelay
    BY <1>1, PolicyAssumption
  <2>2. d \in half .. (half + half)
    BY <1>2 DEF Jittered
  <2> QED BY <2>1, <2>2, PolicyAssumption
<1>3. CASE \E r \in RetryAfters : d = Honoured(r)
  BY <1>3, PolicyAssumption DEF Honoured
<1> QED BY <1>2, <1>3 DEF BackoffAfterAnswer, BackoffAfterReset

\* The type invariant holds before any handler has made a call.
LEMMA InitTypeOK == Init => TypeOK
BY PolicyAssumption DEF Init, TypeOK, Requests, Answers, Outcomes

\* No step of doRequest, of the server or of Terraform leaves the types.
LEMMA NextTypeOK == TypeOK /\ SleepInv /\ [Next]_vars => TypeOK'
<1> SUFFICES ASSUME TypeOK, SleepInv, [Next]_vars PROVE TypeOK'
  OBVIOUS
<1> USE DEF TypeOK, Answers, Outcomes
<1>1. ASSUME NEW c \in Calls, Call(c) PROVE TypeOK'
  BY <1>1 DEF Call
<1>2. ASSUME NEW c \in Calls, Authenticate(c) PROVE TypeOK'
  BY <1>2 DEF Authenticate, Finish
<1>3. ASSUME NEW c \in Calls, Send(c) PROVE TypeOK'
  BY <1>3 DEF Send, Finish
<1>4. ASSUME NEW c \in Calls, Receive(c) PROVE TypeOK'
  <2>1. \A d \in BackoffAfterAnswer(attempt[c]) : d \in Int
    BY BackoffBounded
  <2> QED BY <1>4, <2>1 DEF Receive, Finish
<1>5. ASSUME NEW c \in Calls, Reset(c) PROVE TypeOK'
  <2>1. \A d \in BackoffAfterReset(attempt[c]) : d \in Int
    BY BackoffBounded
  <2> QED BY <1>5, <2>1 DEF Reset, Abandon, Finish
<1>6. ASSUME NEW c \in Calls, GiveUp(c) PROVE TypeOK'
  BY <1>6 DEF GiveUp, Abandon, Finish
<1>7. ASSUME NEW c \in Calls, AbortSleep(c) PROVE TypeOK'
  BY <1>7 DEF AbortSleep, Finish
<1>8. ASSUME NEW c \in Calls, ServerAnswers(c) PROVE TypeOK'
  BY <1>8 DEF ServerAnswers
<1>9. ASSUME NEW c \in Calls, ServerExecutesLate(c) PROVE TypeOK'
  BY <1>9 DEF ServerExecutesLate
<1>10. ASSUME NEW c \in Calls, Cancel(c) PROVE TypeOK'
  BY <1>10 DEF Cancel
<1>11. ASSUME NEW c \in Calls, Wake(c) PROVE TypeOK'
  <2>1. attempt[c] + 1 \in 0 .. MaxRetries
    BY <1>11, PolicyAssumption DEF SleepInv, Wake
  <2> QED BY <1>11, <2>1 DEF Wake
<1>12. CASE UNCHANGED vars
  BY <1>12 DEF vars
<1> QED BY <1>1, <1>2, <1>3, <1>4, <1>5, <1>6, <1>7, <1>8, <1>9, <1>10,
           <1>11, <1>12 DEF Next, OwnStep

-----------------------------------------------------------------------------
(* The bound on sleeping. *)

\* No call has slept before its first attempt.
LEMMA InitSleepInv == Init => SleepInv
BY PolicyAssumption DEF Init, SleepInv

\* Each attempt adds at most one capped delay to the sleep of its call.
LEMMA NextSleepInv == TypeOK /\ SleepInv /\ [Next]_vars => SleepInv'
<1> SUFFICES ASSUME TypeOK, SleepInv, [Next]_vars PROVE SleepInv'
  OBVIOUS
<1> USE DEF TypeOK, SleepInv
<1>1. ASSUME NEW c \in Calls, Call(c) PROVE SleepInv'
  BY <1>1 DEF Call
<1>2. ASSUME NEW c \in Calls, Authenticate(c) PROVE SleepInv'
  BY <1>2 DEF Authenticate, Finish
<1>3. ASSUME NEW c \in Calls, Send(c) PROVE SleepInv'
  BY <1>3 DEF Send, Finish
<1>4. ASSUME NEW c \in Calls, Receive(c) PROVE SleepInv'
  <2>1. \A d \in BackoffAfterAnswer(attempt[c]) : d \in Int /\ d <= MaxDelay
    BY BackoffBounded
  <2> QED BY <1>4, <2>1 DEF Receive, Finish, MayRetry
<1>5. ASSUME NEW c \in Calls, Reset(c) PROVE SleepInv'
  <2>1. \A d \in BackoffAfterReset(attempt[c]) : d \in Int /\ d <= MaxDelay
    BY BackoffBounded
  <2> QED BY <1>5, <2>1 DEF Reset, Finish, MayRetry
<1>6. ASSUME NEW c \in Calls, GiveUp(c) PROVE SleepInv'
  BY <1>6 DEF GiveUp, Finish
<1>7. ASSUME NEW c \in Calls, AbortSleep(c) PROVE SleepInv'
  BY <1>7 DEF AbortSleep, Finish
<1>8. ASSUME NEW c \in Calls, ServerAnswers(c) PROVE SleepInv'
  BY <1>8 DEF ServerAnswers
<1>9. ASSUME NEW c \in Calls, ServerExecutesLate(c) PROVE SleepInv'
  BY <1>9 DEF ServerExecutesLate
<1>10. ASSUME NEW c \in Calls, Cancel(c) PROVE SleepInv'
  BY <1>10 DEF Cancel
<1>11. ASSUME NEW c \in Calls, Wake(c) PROVE SleepInv'
  <2>1. (attempt[c] + 1) * MaxDelay = attempt[c] * MaxDelay + MaxDelay
    BY PolicyAssumption
  <2>2. slept'[c] <= slept[c] + MaxDelay
    BY <1>11, PolicyAssumption DEF Wake
  <2>3. slept'[c] <= attempt'[c] * MaxDelay
    <3> DEFINE m == attempt[c] * MaxDelay
    <3>1. m \in Int /\ slept[c] <= m
      BY PolicyAssumption
    <3>2. attempt'[c] * MaxDelay = m + MaxDelay
      BY <1>11, <2>1 DEF Wake
    <3>3. slept'[c] \in Int /\ slept[c] \in Int
      BY <1>11 DEF Wake
    <3> HIDE DEF m
    <3> QED BY <2>2, <3>1, <3>2, <3>3, PolicyAssumption
  <2> QED BY <1>11, <2>3 DEF Wake
<1>12. CASE UNCHANGED vars
  BY <1>12 DEF vars
<1> QED BY <1>1, <1>2, <1>3, <1>4, <1>5, <1>6, <1>7, <1>8, <1>9, <1>10,
           <1>11, <1>12 DEF Next, OwnStep

\* Type correctness of the client: every variable keeps its range, and the
\* loop of doRequest never counts past maxRetries.
THEOREM TypeCorrect == Spec => []TypeOK
<1>1. Init => TypeOK /\ SleepInv
  BY InitTypeOK, InitSleepInv
<1>2. TypeOK /\ SleepInv /\ [Next]_vars => (TypeOK /\ SleepInv)'
  BY NextTypeOK, NextSleepInv
<1> QED BY <1>1, <1>2, PTL DEF Spec

\* No call sleeps longer than maxRetries * maxDelay in all, for every policy
\* and every Retry-After a server may send.
THEOREM SleepIsBounded == Spec => []SleepBounded
<1>1. Init => TypeOK /\ SleepInv
  BY InitTypeOK, InitSleepInv
<1>2. TypeOK /\ SleepInv /\ [Next]_vars => (TypeOK /\ SleepInv)'
  BY NextTypeOK, NextSleepInv
<1>3. TypeOK /\ SleepInv => SleepBounded
  <2> SUFFICES ASSUME TypeOK, SleepInv, NEW c \in Calls
               PROVE  slept[c] <= MaxRetries * MaxDelay
    BY DEF SleepBounded
  <2>1. slept[c] \in Int /\ attempt[c] \in 0 .. MaxRetries
    BY DEF TypeOK
  <2>2. slept[c] <= attempt[c] * MaxDelay
    BY DEF SleepInv
  <2>3. attempt[c] * MaxDelay <= MaxRetries * MaxDelay
    BY <2>1, PolicyAssumption
  <2> QED BY <2>1, <2>2, <2>3, PolicyAssumption
<1> QED BY <1>1, <1>2, <1>3, PTL DEF Spec

-----------------------------------------------------------------------------
(* What an outcome tells the caller. *)

\* The inductive invariant holds before any call.
LEMMA InitIInv == Init => IInv
BY DEF Init, IInv, CallInv, PostInv, Answers

\* Each step keeps it: only an execution can make an answer of success, and a
\* POST leaves the client once.
LEMMA NextIInv == TypeOK /\ IInv /\ [Next]_vars => IInv'
<1> SUFFICES ASSUME TypeOK, IInv, [Next]_vars PROVE IInv'
  OBVIOUS
<1> USE DEF TypeOK, IInv, CallInv, PostInv, Answers, Outcomes
<1>1. ASSUME NEW c \in Calls, Call(c) PROVE IInv'
  BY <1>1 DEF Call
<1>2. ASSUME NEW c \in Calls, Authenticate(c) PROVE IInv'
  BY <1>2 DEF Authenticate, Finish
<1>3. ASSUME NEW c \in Calls, Send(c) PROVE IInv'
  BY <1>3 DEF Send, Finish
<1>4. ASSUME NEW c \in Calls, Receive(c) PROVE IInv'
  BY <1>4 DEF Receive, Finish, MayRetry, Retryable
<1>5. ASSUME NEW c \in Calls, Reset(c) PROVE IInv'
  BY <1>5 DEF Reset, Abandon, Finish, MayRetry, Retryable
<1>6. ASSUME NEW c \in Calls, GiveUp(c) PROVE IInv'
  BY <1>6 DEF GiveUp, Abandon, Finish
<1>7. ASSUME NEW c \in Calls, AbortSleep(c) PROVE IInv'
  BY <1>7 DEF AbortSleep, Finish
<1>8. ASSUME NEW c \in Calls, ServerAnswers(c) PROVE IInv'
  <2>1. PICK a \in Answers : wire' = [wire EXCEPT ![c] = a]
    BY <1>8 DEF ServerAnswers
  <2>2. \/ executed' = [executed EXCEPT ![c] = @ + 1] /\ a \in {"ok", "transient"}
        \/ executed' = executed /\ a \in {"refused", "transient"}
    BY <1>8, <2>1 DEF ServerAnswers
  <2>3. /\ wire[c] = "request"
        /\ UNCHANGED <<request, pc, stale, outcome>>
    BY <1>8 DEF ServerAnswers
  <2> QED BY <2>1, <2>2, <2>3
<1>9. ASSUME NEW c \in Calls, ServerExecutesLate(c) PROVE IInv'
  BY <1>9 DEF ServerExecutesLate
<1>10. ASSUME NEW c \in Calls, Cancel(c) PROVE IInv'
  BY <1>10 DEF Cancel
<1>11. ASSUME NEW c \in Calls, Wake(c) PROVE IInv'
  BY <1>11 DEF Wake
<1>12. CASE UNCHANGED vars
  BY <1>12 DEF vars
<1> QED BY <1>1, <1>2, <1>3, <1>4, <1>5, <1>6, <1>7, <1>8, <1>9, <1>10,
           <1>11, <1>12 DEF Next, OwnStep

\* The inductive invariant holds in every reachable state.
THEOREM IInvHolds == Spec => []IInv
<1>1. Init => IInv
  BY InitIInv
<1>2. TypeOK /\ IInv /\ [Next]_vars => IInv'
  BY NextIInv
<1> QED BY <1>1, <1>2, TypeCorrect, PTL DEF Spec

\* A POST is carried out at most once, for any number of concurrent calls and
\* any retry policy: no apply creates two objects.
THEOREM PostHappensAtMostOnce == Spec => []PostAtMostOnce
<1>1. TypeOK /\ IInv => PostAtMostOnce
  BY DEF TypeOK, IInv, CallInv, PostInv, PostAtMostOnce, Answers
<1> QED BY <1>1, TypeCorrect, IInvHolds, PTL

\* A nil error means the request was carried out; a refused POST means that
\* it was not and will not be.
THEOREM OutcomeIsTruthful == Spec => []TruthfulOutcome
<1>1. TypeOK /\ IInv => TruthfulOutcome
  BY DEF TypeOK, IInv, CallInv, PostInv, TruthfulOutcome
<1> QED BY <1>1, TypeCorrect, IInvHolds, PTL

\* Once its context has ended, no call puts an attempt on the wire.
THEOREM CancelIsFinal == Spec => NothingSentAfterCancel
<1>1. TypeOK /\ [Next]_vars
        => [\A c \in Calls : ctx[c] = "ended" /\ wire'[c] = "request"
                               => wire[c] = "request"]_vars
  <2> SUFFICES ASSUME TypeOK, [Next]_vars, NEW k \in Calls,
                      ctx[k] = "ended", wire'[k] = "request"
               PROVE  wire[k] = "request"
    OBVIOUS
  <2> USE DEF TypeOK, Answers
  <2>1. ASSUME NEW c \in Calls, Send(c) PROVE wire[k] = "request"
    BY <2>1 DEF Send
  <2>2. ASSUME NEW c \in Calls, ServerAnswers(c) PROVE wire[k] = "request"
    BY <2>2 DEF ServerAnswers
  <2>3. ASSUME NEW c \in Calls, Receive(c) PROVE wire[k] = "request"
    BY <2>3 DEF Receive
  <2>4. ASSUME NEW c \in Calls, Abandon(c) PROVE wire[k] = "request"
    BY <2>4 DEF Abandon
  <2>5. CASE UNCHANGED wire
    BY <2>5
  <2> QED BY <2>1, <2>2, <2>3, <2>4, <2>5
          DEF Next, OwnStep, vars, Call, Authenticate, Reset, GiveUp, Wake,
              AbortSleep, ServerExecutesLate, Cancel
<1> QED BY <1>1, TypeCorrect, PTL DEF Spec, NothingSentAfterCancel

-----------------------------------------------------------------------------
(* HttpClient implements RestCall. *)

\* An initial state of the client is one of the abstract call.
LEMMA InitRefines == Init => Abstract!Init
BY DEF Init, Abstract!Init, Requests, Abstract!Requests

\* Every step of the client is a Begin, Execute or Return of RestCall, or
\* nothing it sees.
LEMMA NextRefines ==
  TypeOK /\ IInv /\ [Next]_vars => [Abstract!Next]_Abstract!vars
<1> SUFFICES ASSUME TypeOK, IInv, [Next]_vars
             PROVE  [Abstract!Next]_Abstract!vars
  OBVIOUS
<1> DEFINE phaseOf == [c \in Calls |-> IF pc[c] \in {"idle", "done"}
                                      THEN pc[c] ELSE "running"]
<1> USE DEF TypeOK, IInv, CallInv, PostInv, Answers, Outcomes, Abstract!vars,
            Abstract!Next, Abstract!Begin, Abstract!Execute, Abstract!Return,
            Abstract!Outcomes, Consuming, Abstract!Consuming
<1>1. ASSUME NEW c \in Calls, Call(c) PROVE Abstract!Begin(c)
  BY <1>1 DEF Call
<1>2. ASSUME NEW c \in Calls, Authenticate(c)
      PROVE  Abstract!Return(c) \/ UNCHANGED Abstract!vars
  BY <1>2 DEF Authenticate, Finish
<1>3. ASSUME NEW c \in Calls, Send(c)
      PROVE  Abstract!Return(c) \/ UNCHANGED Abstract!vars
  BY <1>3 DEF Send, Finish
<1>4. ASSUME NEW c \in Calls, Receive(c)
      PROVE  Abstract!Return(c) \/ UNCHANGED Abstract!vars
  BY <1>4 DEF Receive, Finish
<1>5. ASSUME NEW c \in Calls, Reset(c)
      PROVE  Abstract!Return(c) \/ UNCHANGED Abstract!vars
  BY <1>5 DEF Reset, Finish
<1>6. ASSUME NEW c \in Calls, GiveUp(c)
      PROVE  Abstract!Return(c) \/ UNCHANGED Abstract!vars
  BY <1>6 DEF GiveUp, Finish
<1>7. ASSUME NEW c \in Calls, AbortSleep(c)
      PROVE  Abstract!Return(c) \/ UNCHANGED Abstract!vars
  BY <1>7 DEF AbortSleep, Finish
<1>8. ASSUME NEW c \in Calls, ServerAnswers(c)
      PROVE  Abstract!Execute(c) \/ UNCHANGED Abstract!vars
  <2>1. phaseOf[c] # "idle" /\ phaseOf' = phaseOf
    BY <1>8 DEF ServerAnswers
  <2>2. \/ /\ CanExecute(c)
           /\ executed' = [executed EXCEPT ![c] = @ + 1]
        \/ executed' = executed
    BY <1>8 DEF ServerAnswers
  <2>3. /\ wire[c] = "request"
        /\ UNCHANGED <<request, outcome>>
    BY <1>8 DEF ServerAnswers
  <2> QED BY <2>1, <2>2, <2>3 DEF CanExecute
<1>9. ASSUME NEW c \in Calls, ServerExecutesLate(c)
      PROVE  Abstract!Execute(c) \/ UNCHANGED Abstract!vars
  <2>1. phaseOf[c] # "idle" /\ phaseOf' = phaseOf
    BY <1>9 DEF ServerExecutesLate
  <2>2. \/ /\ CanExecute(c)
           /\ executed' = [executed EXCEPT ![c] = @ + 1]
        \/ executed' = executed
    BY <1>9 DEF ServerExecutesLate
  <2>3. request[c] = "Post" => executed[c] = 0 /\ outcome[c] # "refused"
    BY <1>9 DEF ServerExecutesLate
  <2>4. UNCHANGED <<request, outcome>>
    BY <1>9 DEF ServerExecutesLate
  <2> QED BY <2>1, <2>2, <2>3, <2>4 DEF CanExecute
<1>10. ASSUME NEW c \in Calls, Cancel(c) PROVE UNCHANGED Abstract!vars
  BY <1>10 DEF Cancel
<1>11. ASSUME NEW c \in Calls, Wake(c) PROVE UNCHANGED Abstract!vars
  BY <1>11 DEF Wake
<1>12. CASE UNCHANGED vars
  BY <1>12 DEF vars
<1> HIDE DEF Abstract!Begin, Abstract!Execute, Abstract!Return
<1> QED BY <1>1, <1>2, <1>3, <1>4, <1>5, <1>6, <1>7, <1>8, <1>9, <1>10,
           <1>11, <1>12 DEF Next, OwnStep

\* With attempts, delays, stale requests and contexts hidden, the client keeps
\* the promise RestCall makes to the resource handlers.
THEOREM ClientImplementsRestCall == Spec => Implements
<1>1. Init => Abstract!Init
  BY InitRefines
<1>2. TypeOK /\ IInv /\ [Next]_vars => [Abstract!Next]_Abstract!vars
  BY NextRefines
<1> QED BY <1>1, <1>2, TypeCorrect, IInvHolds, PTL
        DEF Spec, Implements, Abstract!Spec
=============================================================================
