-------------------------- MODULE OAuthTokenProofs --------------------------
(***************************************************************************)
(* Proofs about OAuthToken for any number of goroutines, any lifetimes the *)
(* endpoint may answer and any bound on the clock.                         *)
(***************************************************************************)
EXTENDS OAuthToken, TLAPS

Holding == {"recheck", "request", "answered"}

\* The goroutine between Lock and Unlock is the holder of refreshMu.
MutexInv == \A c \in Callers : pc[c] \in Holding <=> refreshMu = c

\* While a goroutine talks to the endpoint the cached token stays unusable:
\* only the holder writes the cache, and time does not revive a token.
RefreshInv == \A c \in Callers : pc[c] \in {"request", "answered"} => ~TokenValid

\* The provider stops using a trusted token no later than the server does, and
\* a goroutine about to read the cache finds a token that outlives its entry.
AliveInv ==
  /\ trusted => expiry <= realExpiry
  /\ \A c \in Callers :
       /\ entered[c] <= now /\ issuedAt[c] <= now
       /\ pc[c] = "read" => token /\ expiry > entered[c]
       /\ pc[c] = "done" => handed[c] > entered[c]

-----------------------------------------------------------------------------
\* The lifetime splits into a positive part the token is used for and a margin.
LEMMA LifetimeSplits ==
  ASSUME NEW e \in ExpiresIn \cup {0}
  PROVE  /\ Lifetime(e) \in Nat
         /\ RefreshAfter(e) \in Nat /\ RefreshAfter(e) > 0
         /\ Margin(e) \in Nat
         /\ RefreshAfter(e) + Margin(e) <= Lifetime(e)
<1>1. Lifetime(e) \in Nat /\ Lifetime(e) >= 2
  BY LifetimeAssumption DEF Lifetime
<1> QED BY <1>1 DEF RefreshAfter, Margin

\* A provider without a token is well typed.
LEMMA InitTypeOK == Init => TypeOK
<1> SUFFICES ASSUME Init PROVE TypeOK
  OBVIOUS
<1>1. token \in BOOLEAN /\ trusted \in BOOLEAN
  BY ZenonT(20) DEF Init
<1>2. refreshMu \in Callers \cup {NoCaller}
  BY ZenonT(20) DEF Init
<1>3. now \in 0 .. MaxTime /\ expiry \in Nat /\ realExpiry \in Nat
  BY LifetimeAssumption DEF Init
<1>4. /\ pc \in [Callers -> {"idle", "check", "lock", "recheck", "request",
                            "answered", "read", "done", "failed"}]
      /\ entered \in [Callers -> 0 .. MaxTime]
      /\ issuedAt \in [Callers -> 0 .. MaxTime]
      /\ expiresIn \in [Callers -> ExpiresIn \cup {0}]
      /\ handed \in [Callers -> Nat]
  BY LifetimeAssumption DEF Init
<1> QED BY <1>1, <1>2, <1>3, <1>4 DEF TypeOK

\* No step of Header or refresh, nor the clock, leaves the types.
LEMMA NextTypeOK == TypeOK /\ [Next]_vars => TypeOK'
<1> SUFFICES ASSUME TypeOK, [Next]_vars PROVE TypeOK'
  OBVIOUS
<1> USE LifetimeAssumption DEF TypeOK, cache, answer
<1>1. ASSUME NEW c \in Callers, Enter(c) PROVE TypeOK'
  BY <1>1 DEF Enter, GoTo
<1>2. ASSUME NEW c \in Callers, Check(c) PROVE TypeOK'
  BY <1>2 DEF Check, GoTo
<1>3. ASSUME NEW c \in Callers, Acquire(c) PROVE TypeOK'
  BY <1>3 DEF Acquire, GoTo
<1>4. ASSUME NEW c \in Callers, Recheck(c) PROVE TypeOK'
  BY <1>4 DEF Recheck, GoTo
<1>5. ASSUME NEW c \in Callers, Issue(c) PROVE TypeOK'
  BY <1>5 DEF Issue, GoTo
<1>6. ASSUME NEW c \in Callers, Store(c) PROVE TypeOK'
  <2>1. expiresIn[c] \in ExpiresIn \cup {0}
    OBVIOUS
  <2>2. RefreshAfter(expiresIn[c]) \in Nat /\ Lifetime(expiresIn[c]) \in Nat
    BY <2>1, LifetimeSplits
  <2> QED BY <1>6, <2>2 DEF Store, Forget, GoTo
<1>7. ASSUME NEW c \in Callers, Fail(c) PROVE TypeOK'
  BY <1>7 DEF Fail, Forget, GoTo
<1>8. ASSUME NEW c \in Callers, Read(c) PROVE TypeOK'
  BY <1>8 DEF Read, GoTo
<1>9. ASSUME NEW c \in Callers, Leave(c) PROVE TypeOK'
  BY <1>9 DEF Leave, GoTo
<1>10. CASE Tick
  BY <1>10, LifetimeAssumption DEF Tick
<1>11. CASE UNCHANGED vars
  BY <1>11 DEF vars, cache, answer
<1> QED BY <1>1, <1>2, <1>3, <1>4, <1>5, <1>6, <1>7, <1>8, <1>9, <1>10, <1>11 DEF Next

\* Every path through refresh, the failing ones included, unlocks what it
\* locked.
LEMMA NextMutexInv == TypeOK /\ MutexInv /\ [Next]_vars => MutexInv'
<1> SUFFICES ASSUME TypeOK, MutexInv, [Next]_vars PROVE MutexInv'
  OBVIOUS
<1> USE CallerAssumption DEF TypeOK, MutexInv, Holding
<1>1. ASSUME NEW c \in Callers, Enter(c) PROVE MutexInv'
  BY <1>1 DEF Enter, GoTo
<1>2. ASSUME NEW c \in Callers, Check(c) PROVE MutexInv'
  BY <1>2 DEF Check, GoTo
<1>3. ASSUME NEW c \in Callers, Acquire(c) PROVE MutexInv'
  BY <1>3 DEF Acquire, GoTo
<1>4. ASSUME NEW c \in Callers, Recheck(c) PROVE MutexInv'
  BY <1>4 DEF Recheck, GoTo
<1>5. ASSUME NEW c \in Callers, Issue(c) PROVE MutexInv'
  BY <1>5 DEF Issue, GoTo
<1>6. ASSUME NEW c \in Callers, Store(c) PROVE MutexInv'
  BY <1>6 DEF Store, Forget, GoTo
<1>7. ASSUME NEW c \in Callers, Fail(c) PROVE MutexInv'
  BY <1>7 DEF Fail, Forget, GoTo
<1>8. ASSUME NEW c \in Callers, Read(c) PROVE MutexInv'
  BY <1>8 DEF Read, GoTo
<1>9. ASSUME NEW c \in Callers, Leave(c) PROVE MutexInv'
  BY <1>9 DEF Leave, GoTo
<1>10. CASE Tick
  BY <1>10, LifetimeAssumption DEF Tick
<1>11. CASE UNCHANGED vars
  BY <1>11 DEF vars, cache, answer
<1> QED BY <1>1, <1>2, <1>3, <1>4, <1>5, <1>6, <1>7, <1>8, <1>9, <1>10, <1>11 DEF Next

\* While a goroutine refreshes, nobody else can make the cached token usable.
LEMMA NextRefreshInv ==
  TypeOK /\ MutexInv /\ RefreshInv /\ [Next]_vars => RefreshInv'
<1> SUFFICES ASSUME TypeOK, MutexInv, RefreshInv, [Next]_vars PROVE RefreshInv'
  OBVIOUS
<1> USE CallerAssumption DEF TypeOK, MutexInv, Holding, RefreshInv, TokenValid,
                             cache, answer
<1>1. ASSUME NEW c \in Callers, Enter(c) PROVE RefreshInv'
  BY <1>1 DEF Enter, GoTo
<1>2. ASSUME NEW c \in Callers, Check(c) PROVE RefreshInv'
  BY <1>2 DEF Check, GoTo
<1>3. ASSUME NEW c \in Callers, Acquire(c) PROVE RefreshInv'
  BY <1>3 DEF Acquire, GoTo
<1>4. ASSUME NEW c \in Callers, Recheck(c) PROVE RefreshInv'
  BY <1>4 DEF Recheck, GoTo
<1>5. ASSUME NEW c \in Callers, Issue(c) PROVE RefreshInv'
  BY <1>5 DEF Issue, GoTo
<1>6. ASSUME NEW c \in Callers, Store(c) PROVE RefreshInv'
  BY <1>6 DEF Store, Forget, GoTo
<1>7. ASSUME NEW c \in Callers, Fail(c) PROVE RefreshInv'
  BY <1>7 DEF Fail, Forget, GoTo
<1>8. ASSUME NEW c \in Callers, Read(c) PROVE RefreshInv'
  BY <1>8 DEF Read, GoTo
<1>9. ASSUME NEW c \in Callers, Leave(c) PROVE RefreshInv'
  BY <1>9 DEF Leave, GoTo
<1>10. CASE Tick
  BY <1>10, LifetimeAssumption DEF Tick
<1>11. CASE UNCHANGED vars
  BY <1>11 DEF vars, cache, answer
<1> QED BY <1>1, <1>2, <1>3, <1>4, <1>5, <1>6, <1>7, <1>8, <1>9, <1>10, <1>11 DEF Next

\* Between its check and its read a goroutine can only see the cache move to
\* tokens that live longer.
LEMMA NextAliveInv ==
  TypeOK /\ RefreshInv /\ AliveInv /\ [Next]_vars => AliveInv'
<1> SUFFICES ASSUME TypeOK, RefreshInv, AliveInv, [Next]_vars PROVE AliveInv'
  OBVIOUS
<1> USE LifetimeAssumption DEF TypeOK, AliveInv, TokenValid, cache, answer
<1>1. ASSUME NEW c \in Callers, Enter(c) PROVE AliveInv'
  BY <1>1 DEF Enter, GoTo
<1>2. ASSUME NEW c \in Callers, Check(c) PROVE AliveInv'
  BY <1>2 DEF Check, GoTo
<1>3. ASSUME NEW c \in Callers, Acquire(c) PROVE AliveInv'
  BY <1>3 DEF Acquire, GoTo
<1>4. ASSUME NEW c \in Callers, Recheck(c) PROVE AliveInv'
  BY <1>4 DEF Recheck, GoTo
<1>5. ASSUME NEW c \in Callers, Issue(c) PROVE AliveInv'
  BY <1>5 DEF Issue, GoTo
<1>6. ASSUME NEW c \in Callers, Store(c) PROVE AliveInv'
  <2> DEFINE r == RefreshAfter(expiresIn[c])
             m == Margin(expiresIn[c])
             l == Lifetime(expiresIn[c])
  <2>1. r \in Nat /\ r > 0 /\ m \in Nat /\ l \in Nat /\ r + m <= l
    BY LifetimeSplits
  <2>2. /\ expiry' = now + r
        /\ realExpiry' = issuedAt[c] + l
        /\ trusted' => now - issuedAt[c] <= m
        /\ token'
    BY <1>6 DEF Store
  <2> HIDE DEF r, m, l
  <2>3. trusted' => expiry' <= realExpiry'
    BY <2>1, <2>2
  <2>4. expiry' > now
    BY <2>1, <2>2
  <2> QED BY <1>6, <2>2, <2>3, <2>4 DEF Store, Forget, GoTo
<1>7. ASSUME NEW c \in Callers, Fail(c) PROVE AliveInv'
  BY <1>7 DEF Fail, Forget, GoTo
<1>8. ASSUME NEW c \in Callers, Read(c) PROVE AliveInv'
  BY <1>8 DEF Read, GoTo
<1>9. ASSUME NEW c \in Callers, Leave(c) PROVE AliveInv'
  BY <1>9 DEF Leave, GoTo
<1>10. CASE Tick
  BY <1>10, LifetimeAssumption DEF Tick
<1>11. CASE UNCHANGED vars
  BY <1>11 DEF vars, cache, answer
<1> QED BY <1>1, <1>2, <1>3, <1>4, <1>5, <1>6, <1>7, <1>8, <1>9, <1>10, <1>11 DEF Next

\* Every state of the token cache is well typed, for any number of goroutines.
THEOREM TypeCorrect == Spec => []TypeOK
<1> QED BY InitTypeOK, NextTypeOK, PTL DEF Spec

\* refreshMu admits one goroutine between Lock and Unlock, and the token it
\* found unusable is unusable until it stores a new one.
THEOREM RefreshIsExclusive == Spec => [](MutexInv /\ RefreshInv)
<1>1. Init => MutexInv /\ RefreshInv
  BY CallerAssumption DEF Init, MutexInv, RefreshInv, Holding
<1>2. TypeOK /\ MutexInv /\ RefreshInv /\ [Next]_vars
        => (MutexInv /\ RefreshInv)'
  BY NextMutexInv, NextRefreshInv
<1> QED BY <1>1, <1>2, TypeCorrect, PTL DEF Spec

\* At most one goroutine talks to the token endpoint at a time.
THEOREM RefreshIsSingleFlight == Spec => []SingleFlight
<1>1. MutexInv => SingleFlight
  BY DEF MutexInv, SingleFlight, Holding
<1> QED BY <1>1, RefreshIsExclusive, PTL

\* No interleaving of refreshes replaces a token that is still usable.
THEOREM ValidTokenIsKept == Spec => ValidTokenKept
<1>1. TypeOK /\ RefreshInv /\ [Next]_vars => [cache' # cache => ~TokenValid]_vars
  BY DEF Next, Tick, Enter, Check, Acquire, Recheck, Issue, Store, Fail, Read,
         Leave, vars, cache, RefreshInv
<1> QED BY <1>1, TypeCorrect, RefreshIsExclusive, PTL DEF Spec, ValidTokenKept

\* A trusted token that Header returns outlives the moment Header was called.
THEOREM HandedOutTokenIsAlive == Spec => []HandedOutAlive
<1>1. Init => AliveInv
  BY DEF Init, AliveInv
<1>2. TypeOK /\ RefreshInv /\ AliveInv /\ [Next]_vars => AliveInv'
  BY NextAliveInv
<1>3. AliveInv => HandedOutAlive
  BY DEF AliveInv, HandedOutAlive
<1> QED BY <1>1, <1>2, <1>3, TypeCorrect, RefreshIsExclusive, PTL DEF Spec
=============================================================================
