----------------------------- MODULE OAuthToken -----------------------------
(***************************************************************************)
(* OAuthCredentialsProvider (src/internal/client/auth/                     *)
(* oauth_credentials.go): the access token that all requests of the        *)
(* provider share.  Any number of goroutines call Header; the token and    *)
(* its expiry are read and written under the RWMutex mu (one atomic step), *)
(* and refreshMu serialises the refreshes.  Time passes between any two    *)
(* steps; it is an integer, and a lifetime is at least two units so that   *)
(* nine tenths of it round down to something positive.                      *)
(***************************************************************************)
EXTENDS Integers

CONSTANTS Callers,          \* goroutines that need an Authorization header
          ExpiresIn,        \* values of expires_in the endpoint may answer
          DefaultLifetime,  \* 3600 s, used when expires_in is not positive
          MaxTime           \* bound on the clock

ASSUME LifetimeAssumption == /\ ExpiresIn \subseteq Int
                             /\ \A e \in ExpiresIn : e > 0 => e >= 2
                             /\ DefaultLifetime \in Nat
                             /\ DefaultLifetime >= 2
                             /\ MaxTime \in Nat

NoCaller == "no caller"

ASSUME CallerAssumption == NoCaller \notin Callers

VARIABLES now,          \* the clock
          token,        \* TRUE once the provider has a token
          expiry,       \* p.expiry
          realExpiry,   \* when the server stops accepting that token
          trusted,      \* the endpoint told the lifetime, within the margin
          refreshMu,    \* the goroutine that holds the mutex, or NoCaller
          pc,           \* where each goroutine is in Header
          entered,      \* when it called Header
          issuedAt,     \* when the endpoint issued the token it answers with
          expiresIn,    \* the expires_in of that answer
          handed        \* realExpiry of the token Header returned, if trusted

vars == <<now, token, expiry, realExpiry, trusted, refreshMu, pc, entered,
          issuedAt, expiresIn, handed>>

cache == <<token, expiry, realExpiry, trusted>>
answer == <<issuedAt, expiresIn>>

\* tokenValid
TokenValid == token /\ now < expiry

\* The lifetime refresh assumes, and the part of it the token is used for.
\* One mutation believes any expires_in, another uses the whole lifetime.
LifetimeAsTold(e) == e
Lifetime(e) == IF e > 0 THEN e ELSE DefaultLifetime
RefreshAfterWhole(e) == Lifetime(e)
RefreshAfter(e) == (9 * Lifetime(e)) \div 10

\* A tenth of the lifetime, rounded up: what RefreshAfter leaves over for an
\* answer that is under way.
Margin(e) == (Lifetime(e) + 9) \div 10

GoTo(c, l) == pc' = [pc EXCEPT ![c] = l]

\* The answer of the endpoint is a local of refresh: forgotten when it returns.
Forget(c) == /\ issuedAt' = [issuedAt EXCEPT ![c] = 0]
             /\ expiresIn' = [expiresIn EXCEPT ![c] = 0]

-----------------------------------------------------------------------------
Init == /\ now = 0
        /\ token = FALSE /\ trusted = FALSE
        /\ expiry = 0 /\ realExpiry = 0
        /\ refreshMu = NoCaller
        /\ pc = [c \in Callers |-> "idle"]
        /\ entered = [c \in Callers |-> 0]
        /\ issuedAt = [c \in Callers |-> 0]
        /\ expiresIn = [c \in Callers |-> 0]
        /\ handed = [c \in Callers |-> 0]

\* doRequest calls Header for its next attempt.
Enter(c) == /\ pc[c] = "idle"
            /\ GoTo(c, "check")
            /\ entered' = [entered EXCEPT ![c] = now]
            /\ UNCHANGED <<now, cache, refreshMu, answer, handed>>

\* Header looks at the cached token without refreshMu.
Check(c) == /\ pc[c] = "check"
            /\ \/ TokenValid /\ GoTo(c, "read")
               \/ ~TokenValid /\ GoTo(c, "lock")
            /\ UNCHANGED <<now, cache, refreshMu, entered, answer, handed>>

\* Mutations of the two steps: no refreshMu, and no second look at the cache.
AcquireUnguarded(c) ==
  /\ pc[c] = "lock" /\ GoTo(c, "recheck")
  /\ UNCHANGED <<now, cache, refreshMu, entered, answer, handed>>
RecheckSkipped(c) ==
  /\ pc[c] = "recheck" /\ GoTo(c, "request")
  /\ UNCHANGED <<now, cache, refreshMu, entered, answer, handed>>

\* refreshMu.Lock: it does not watch the context of the caller.
Acquire(c) == /\ pc[c] = "lock"
              /\ refreshMu = NoCaller
              /\ refreshMu' = c
              /\ GoTo(c, "recheck")
              /\ UNCHANGED <<now, cache, entered, answer, handed>>

\* A token fetched by another goroutine in the meantime is reused.
Recheck(c) == /\ pc[c] = "recheck"
              /\ \/ TokenValid /\ GoTo(c, "read") /\ refreshMu' = NoCaller
                 \/ ~TokenValid /\ GoTo(c, "request") /\ UNCHANGED refreshMu
              /\ UNCHANGED <<now, cache, entered, answer, handed>>

\* The token endpoint issues a token.
Issue(c) == /\ pc[c] = "request"
            /\ GoTo(c, "answered")
            /\ issuedAt' = [issuedAt EXCEPT ![c] = now]
            /\ \E e \in ExpiresIn : expiresIn' = [expiresIn EXCEPT ![c] = e]
            /\ UNCHANGED <<now, cache, refreshMu, entered, handed>>

\* refresh stores the token of a complete answer and unlocks.
Store(c) ==
  /\ pc[c] = "answered"
  /\ token' = TRUE
  /\ expiry' = now + RefreshAfter(expiresIn[c])
  /\ realExpiry' = issuedAt[c] + Lifetime(expiresIn[c])
  /\ trusted' = /\ expiresIn[c] > 0
                /\ now - issuedAt[c] <= Margin(expiresIn[c])
  /\ refreshMu' = NoCaller
  /\ GoTo(c, "read")
  /\ Forget(c)
  /\ UNCHANGED <<now, entered, handed>>

\* A mutation of Fail: an error path that does not unlock refreshMu.
FailHoldingLock(c) ==
  /\ pc[c] \in {"request", "answered"}
  /\ GoTo(c, "failed") /\ Forget(c)
  /\ UNCHANGED <<now, cache, refreshMu, entered, handed>>

\* The endpoint is unreachable or refuses, its answer is late, broken or has no
\* token, or the context of this caller ended: Header returns an error and the
\* cache is left alone.
Fail(c) == /\ pc[c] \in {"request", "answered"}
           /\ refreshMu' = NoCaller
           /\ GoTo(c, "failed")
           /\ Forget(c)
           /\ UNCHANGED <<now, cache, entered, handed>>

\* Header returns the token that is cached by now.
Read(c) == /\ pc[c] = "read"
           /\ handed' = [handed EXCEPT ![c] =
                           IF trusted THEN realExpiry ELSE MaxTime + 1]
           /\ GoTo(c, "done")
           /\ UNCHANGED <<now, cache, refreshMu, entered, answer>>

\* The request is over; the goroutine may make another one.
Leave(c) == /\ pc[c] \in {"done", "failed"}
            /\ GoTo(c, "idle")
            /\ handed' = [handed EXCEPT ![c] = 0]
            /\ entered' = [entered EXCEPT ![c] = 0]
            /\ UNCHANGED <<now, cache, refreshMu, answer>>

Tick == /\ now < MaxTime
        /\ now' = now + 1
        /\ UNCHANGED <<cache, refreshMu, pc, entered, answer, handed>>

Next == \/ Tick
        \/ \E c \in Callers :
             \/ Enter(c) \/ Check(c) \/ Acquire(c) \/ Recheck(c) \/ Issue(c)
             \/ Store(c) \/ Fail(c) \/ Read(c) \/ Leave(c)

Spec == Init /\ [][Next]_vars

\* Goroutines are scheduled, the 30 s timeout of the token client ends every
\* request, and sync.Mutex hands the lock to a waiter that keeps waiting (its
\* starvation mode).  The endpoint need not answer nor anyone call Header.
FairSpec == /\ Spec
            /\ \A c \in Callers : /\ WF_vars(Check(c) \/ Recheck(c) \/ Read(c))
                                  /\ WF_vars(Store(c) \/ Fail(c))
                                  /\ SF_vars(Acquire(c))

-----------------------------------------------------------------------------
TypeOK ==
  /\ now \in 0 .. MaxTime
  /\ token \in BOOLEAN /\ trusted \in BOOLEAN
  /\ expiry \in Nat /\ realExpiry \in Nat
  /\ refreshMu \in Callers \cup {NoCaller}
  /\ pc \in [Callers -> {"idle", "check", "lock", "recheck", "request",
                         "answered", "read", "done", "failed"}]
  /\ entered \in [Callers -> 0 .. MaxTime]
  /\ issuedAt \in [Callers -> 0 .. MaxTime]
  /\ expiresIn \in [Callers -> ExpiresIn \cup {0}]
  /\ handed \in [Callers -> Nat]

\* At most one goroutine is talking to the token endpoint (CHANGELOG.md:225,
\* "refresh is single-flight").
SingleFlight ==
  \A c, d \in Callers : /\ pc[c] \in {"request", "answered"}
                        /\ pc[d] \in {"request", "answered"}
                        => c = d

\* Concurrent requests share one token: one that is still usable is never
\* replaced, however the refreshes of several goroutines interleave.
ValidTokenKept == [][cache' # cache => ~TokenValid]_vars

\* A token Header returns was still accepted by the server when Header was
\* called, unless the endpoint misreported its lifetime or took longer than a
\* tenth of it to answer: the check, the refresh by this or another goroutine
\* and the final read never add up to a token that was dead on arrival.
HandedOutAlive == \A c \in Callers : pc[c] = "done" => handed[c] > entered[c]

\* Every call of Header returns, although waiters queue behind refreshMu and
\* every one of them may have to try the endpoint itself.
HeaderReturns == \A c \in Callers :
                   pc[c] = "check" ~> pc[c] \in {"done", "failed"}
=============================================================================
