----------------------------- MODULE HttpClient -----------------------------
(***************************************************************************)
(* Client.doRequest and Client.do (src/internal/client/client.go): one     *)
(* HTTP attempt after another under a bounded retry policy, against a      *)
(* server and a network that may execute a request and lose its answer,    *)
(* execute it late, refuse it, or never see it, while Terraform may cancel *)
(* the context of the call at any moment.  Delays are integers in units of *)
(* half the base delay; a negative one is what a Retry-After that wraps a  *)
(* time.Duration yields.                                                   *)
(***************************************************************************)
EXTENDS Integers, RestVocabulary

CONSTANTS Calls,         \* the calls made by concurrent resource handlers
          MaxRetries,    \* retryPolicy.maxRetries
          BaseDelay,     \* retryPolicy.baseDelay
          MaxDelay,      \* retryPolicy.maxDelay
          RetryAfters    \* values parseRetryAfter can return

ASSUME PolicyAssumption == /\ MaxRetries \in Nat
                           /\ BaseDelay \in Nat \ {0}
                           /\ MaxDelay \in Nat \ {0}
                           /\ RetryAfters \subseteq Int

VARIABLES request,    \* the kind of each call, fixed by the handler
          pc,         \* where doRequest is for that call
          attempt,    \* the loop variable of doRequest
          ctx,        \* "live", or "ended" once Terraform cancelled it
          wire,       \* the current attempt on the network and its answer
          stale,      \* requests of abandoned attempts the server still has
          executed,   \* times the server has carried the request out
          delay,      \* the delay computed for the pending sleep
          slept,      \* total time the call has spent in sleepContext
          outcome     \* what Client.do returned

vars == <<request, pc, attempt, ctx, wire, stale, executed, delay, slept,
          outcome>>

\* The statuses doRequest tells apart.
Answers == {"ok", "refused", "transient"}

\* The `retryable` argument Get, Put, ... pass to do: Post alone passes false,
\* no method in the mutation.
EveryMethodRetried(c) == TRUE
Retryable(c) == request[c] # "Post"

\* `retryable && attempt < c.retry.maxRetries`, off by one in the mutation.
OneRetryTooMany(c) == Retryable(c) /\ attempt[c] <= MaxRetries
MayRetry(c) == Retryable(c) /\ attempt[c] < MaxRetries

-----------------------------------------------------------------------------
(* retryPolicy.backoff *)

\* The doubling loop, which stops once the delay has reached maxDelay.
Doubled[n \in Nat] ==
  IF n = 0 THEN BaseDelay
  ELSE IF Doubled[n - 1] < MaxDelay THEN 2 * Doubled[n - 1] ELSE Doubled[n - 1]

Clamped(n) == IF Doubled[n] \in 1 .. MaxDelay THEN Doubled[n] ELSE MaxDelay

\* Equal jitter: half the delay plus a random part of the other half.
Jittered(n) == LET half == Clamped(n) \div 2 IN half .. (half + half)

\* A Retry-After wins over the jittered delay and has the same cap, which the
\* mutation drops.
HonouredUncapped(r) == r
Honoured(r) == IF r > MaxDelay THEN MaxDelay ELSE r

\* Every delay backoff can return after attempt n of a transient answer, which
\* may carry a Retry-After; a connection reset carries none.
BackoffAfterAnswer(n) == Jittered(n) \cup {Honoured(r) : r \in RetryAfters}
BackoffAfterReset(n) == Jittered(n)

-----------------------------------------------------------------------------
Init == /\ request \in [Calls -> Requests]
        /\ pc = [c \in Calls |-> "idle"]
        /\ attempt = [c \in Calls |-> 0]
        /\ ctx = [c \in Calls |-> "live"]
        /\ wire = [c \in Calls |-> "none"]
        /\ stale = [c \in Calls |-> 0]
        /\ executed = [c \in Calls |-> 0]
        /\ delay = [c \in Calls |-> 0]
        /\ slept = [c \in Calls |-> 0]
        /\ outcome = [c \in Calls |-> "none"]

\* do returns; the mutation takes every status for a success.
FinishIgnoringStatus(c, o) ==
  /\ pc' = [pc EXCEPT ![c] = "done"]
  /\ outcome' = [outcome EXCEPT ![c] = IF o = "refused" THEN "ok" ELSE o]
Finish(c, o) == /\ pc' = [pc EXCEPT ![c] = "done"]
                /\ outcome' = [outcome EXCEPT ![c] = o]

\* The request of the attempt that is being given up: the server may still
\* have it, or it may be lost.  An answer on its way is lost.
Abandon(c) == /\ wire' = [wire EXCEPT ![c] = "none"]
              /\ \/ wire[c] = "request" /\ stale' = [stale EXCEPT ![c] = @ + 1]
                 \/ UNCHANGED stale

\* A handler calls Get, Put, Post, ...: do calls doRequest.
Call(c) == /\ pc[c] = "idle"
           /\ pc' = [pc EXCEPT ![c] = "auth"]
           /\ UNCHANGED <<request, attempt, ctx, wire, stale, executed, delay,
                          slept, outcome>>

\* authProvider.Header succeeds, or its error ends the call, retry or not.
Authenticate(c) ==
  /\ pc[c] = "auth"
  /\ \/ pc' = [pc EXCEPT ![c] = "send"] /\ UNCHANGED outcome
     \/ Finish(c, "authError")
  /\ UNCHANGED <<request, attempt, ctx, wire, stale, executed, delay, slept>>

\* A mutation of Send: the request is made without the context of the call.
SendWithoutContext(c) ==
  /\ pc[c] = "send"
  /\ pc' = [pc EXCEPT ![c] = "wait"]
  /\ wire' = [wire EXCEPT ![c] = "request"]
  /\ UNCHANGED <<request, attempt, ctx, stale, executed, delay, slept, outcome>>

\* httpClient.Do puts the request on the wire; the transport sends nothing for
\* a context that has ended, and the call aborts.
Send(c) ==
  /\ pc[c] = "send"
  /\ \/ /\ ctx[c] = "live"
        /\ pc' = [pc EXCEPT ![c] = "wait"]
        /\ wire' = [wire EXCEPT ![c] = "request"]
        /\ UNCHANGED outcome
     \/ /\ ctx[c] = "ended"
        /\ Finish(c, "aborted")
        /\ UNCHANGED wire
  /\ UNCHANGED <<request, attempt, ctx, stale, executed, delay, slept>>

\* httpClient.Do returns a response.  A transient status is retried while the
\* policy allows it; any other ends the call, a 2xx also when its body does
\* not decode.
Receive(c) ==
  /\ pc[c] = "wait"
  /\ wire[c] \in Answers
  /\ wire' = [wire EXCEPT ![c] = "none"]
  /\ \/ /\ wire[c] = "transient" /\ MayRetry(c)
        /\ \E d \in BackoffAfterAnswer(attempt[c]) :
             delay' = [delay EXCEPT ![c] = d]
        /\ pc' = [pc EXCEPT ![c] = "sleep"]
        /\ UNCHANGED outcome
     \/ /\ ~(wire[c] = "transient" /\ MayRetry(c))
        /\ \/ Finish(c, wire[c])
           \/ wire[c] = "ok" /\ Finish(c, "decodeError")
        /\ UNCHANGED delay
  /\ UNCHANGED <<request, attempt, ctx, stale, executed, slept>>

\* httpClient.Do returns ECONNRESET: retried after a backoff while the policy
\* allows it and the context is live.
Reset(c) ==
  /\ pc[c] = "wait"
  /\ Abandon(c)
  /\ \/ /\ ctx[c] = "live" /\ MayRetry(c)
        /\ \E d \in BackoffAfterReset(attempt[c]) :
             delay' = [delay EXCEPT ![c] = d]
        /\ pc' = [pc EXCEPT ![c] = "sleep"]
        /\ UNCHANGED outcome
     \/ /\ ctx[c] = "ended"
        /\ Finish(c, "aborted") /\ UNCHANGED delay
     \/ /\ ctx[c] = "live" /\ ~MayRetry(c)
        /\ Finish(c, "failed") /\ UNCHANGED delay
  /\ UNCHANGED <<request, attempt, ctx, executed, slept>>

\* A mutation of GiveUp: an http.Client without a timeout.
GiveUpWithoutTimeout(c) ==
  /\ pc[c] = "wait" /\ ctx[c] = "ended"
  /\ Abandon(c) /\ Finish(c, "aborted")
  /\ UNCHANGED <<request, attempt, ctx, executed, delay, slept>>

\* httpClient.Do returns any other error: the timeout of one attempt, an
\* unreachable host, or the end of the context.  None of them is retried, and
\* requestError tells the three apart.
GiveUp(c) ==
  /\ pc[c] = "wait"
  /\ Abandon(c)
  /\ \/ ctx[c] = "ended" /\ Finish(c, "aborted")
     \/ ctx[c] = "live" /\ \E o \in {"timeout", "failed"} : Finish(c, o)
  /\ UNCHANGED <<request, attempt, ctx, executed, delay, slept>>

\* sleepContext returns nil, after the delay or at once when it is not
\* positive, and the loop starts its next attempt.
Wake(c) ==
  /\ pc[c] = "sleep"
  /\ pc' = [pc EXCEPT ![c] = "auth"]
  /\ attempt' = [attempt EXCEPT ![c] = @ + 1]
  /\ slept' = [slept EXCEPT ![c] = @ + (IF delay[c] > 0 THEN delay[c] ELSE 0)]
  /\ UNCHANGED <<request, ctx, wire, stale, executed, delay, outcome>>

\* sleepContext sees the context end while it waits.
AbortSleep(c) ==
  /\ pc[c] = "sleep"
  /\ ctx[c] = "ended" /\ delay[c] > 0
  /\ Finish(c, "aborted")
  /\ UNCHANGED <<request, attempt, ctx, wire, stale, executed, delay, slept>>

-----------------------------------------------------------------------------
(* The server, the network and Terraform. *)

\* A consuming request finds its target only the first time.
CanExecute(c) == request[c] \in Consuming => executed[c] = 0

\* The server answers the current attempt: it has carried the request out and
\* says so, it has carried it out but a proxy or a late failure turns the
\* answer into a 5xx, or it has not carried it out.
ServerAnswers(c) ==
  /\ wire[c] = "request"
  /\ \/ /\ CanExecute(c)
        /\ executed' = [executed EXCEPT ![c] = @ + 1]
        /\ wire' \in {[wire EXCEPT ![c] = a] : a \in {"ok", "transient"}}
     \/ /\ UNCHANGED executed
        /\ wire' \in {[wire EXCEPT ![c] = a] : a \in {"refused", "transient"}}
  /\ UNCHANGED <<request, pc, attempt, ctx, stale, delay, slept, outcome>>

\* The server gets to the request of an abandoned attempt.
ServerExecutesLate(c) ==
  /\ stale[c] > 0
  /\ stale' = [stale EXCEPT ![c] = @ - 1]
  /\ \/ CanExecute(c) /\ executed' = [executed EXCEPT ![c] = @ + 1]
     \/ UNCHANGED executed
  /\ UNCHANGED <<request, pc, attempt, ctx, wire, delay, slept, outcome>>

\* Terraform stops the operation: the context of the call ends.
Cancel(c) == /\ ctx[c] = "live"
             /\ pc[c] # "done"
             /\ ctx' = [ctx EXCEPT ![c] = "ended"]
             /\ UNCHANGED <<request, pc, attempt, wire, stale, executed, delay,
                            slept, outcome>>

\* The steps of doRequest that need nothing of the network.
OwnStep(c) == \/ Authenticate(c) \/ Send(c) \/ Receive(c) \/ GiveUp(c)
              \/ Wake(c) \/ AbortSleep(c)

Next == \E c \in Calls : \/ Call(c) \/ OwnStep(c) \/ Reset(c)
                         \/ ServerAnswers(c) \/ ServerExecutesLate(c)
                         \/ Cancel(c)

Spec == Init /\ [][Next]_vars

\* The goroutine of a call is scheduled, its timer fires, and the timeout of
\* http.Client ends an attempt that gets no answer.  Nothing is assumed of the
\* server, of the network or of the user.
FairSpec == Spec /\ \A c \in Calls : WF_vars(OwnStep(c))

-----------------------------------------------------------------------------
TypeOK ==
  /\ request \in [Calls -> Requests]
  /\ pc \in [Calls -> {"idle", "auth", "send", "wait", "sleep", "done"}]
  /\ attempt \in [Calls -> 0 .. MaxRetries]
  /\ ctx \in [Calls -> {"live", "ended"}]
  /\ wire \in [Calls -> {"none", "request"} \cup Answers]
  /\ stale \in [Calls -> Nat]
  /\ executed \in [Calls -> Nat]
  /\ delay \in [Calls -> Int]
  /\ slept \in [Calls -> Nat]
  /\ outcome \in [Calls -> Outcomes \cup {"none"}]

\* A POST reaches the server at most once, whatever is lost, late or answered
\* with a 5xx: one apply never creates two objects.
PostAtMostOnce ==
  \A c \in Calls : request[c] = "Post" =>
    executed[c] + stale[c] + (IF wire[c] = "request" THEN 1 ELSE 0) <= 1

\* A nil error means that the server carried the request out, and the refusal
\* of a POST means that it never did and never will: nothing is orphaned.
TruthfulOutcome ==
  \A c \in Calls :
    /\ outcome[c] = "ok" => executed[c] > 0
    /\ (outcome[c] = "refused" /\ request[c] = "Post")
          => executed[c] = 0 /\ stale[c] = 0

\* A call never spends more than maxRetries times maxDelay between attempts,
\* whatever Retry-After the server sends.
SleepBounded == \A c \in Calls : slept[c] <= MaxRetries * MaxDelay

\* No attempt is put on the wire for a context that has ended.
NothingSentAfterCancel ==
  [][\A c \in Calls : ctx[c] = "ended" /\ wire'[c] = "request"
                        => wire[c] = "request"]_vars

\* Every call returns, however the server and the network behave.
CallsReturn == \A c \in Calls : pc[c] = "auth" ~> pc[c] = "done"

\* The promise of RestCall, with attempts, delays and the network hidden.
Abstract == INSTANCE RestCall WITH
  phase <- [c \in Calls |-> IF pc[c] \in {"idle", "done"} THEN pc[c]
                            ELSE "running"]

Implements == Abstract!Spec
=============================================================================
