------------------------ MODULE InUseLifecycleProofs ------------------------
(***************************************************************************)
(* What the handlers of a metalake never do, proved for any names, comments *)
(* and bounds, whatever calls are lost, late, repeated or interrupted.  The *)
(* action properties follow from what one request does to the server and    *)
(* from where a handler is when it sends it (ControlInv).                   *)
(***************************************************************************)
EXTENDS InUseLifecycle, TLAPS

LEMMA BoundsAreNaturals == MaxFaults \in Nat /\ MaxChanges \in Nat
  BY BoundAssumption

\* An object that exists has a comment, its service and its content.
LEMMA ObjectFields ==
  ASSUME NEW o \in Objects, o.exists
  PROVE  o \in [exists : {TRUE}, comment : Comments, inUse : BOOLEAN, nonEmpty : BOOLEAN]
<1>1. o # Absent
  BY DEF Absent
<1> QED
  BY <1>1 DEF Objects

LEMMA ObjectType ==
  ASSUME NEW c \in Comments, NEW u \in BOOLEAN, NEW n \in BOOLEAN
  PROVE  /\ Object(c, u, n) \in Objects
         /\ Object(c, u, n).exists /\ Object(c, u, n).comment = c
         /\ Object(c, u, n).inUse = u /\ Object(c, u, n).nonEmpty = n
  BY DEF Objects, Object

LEMMA AbsentType == Absent \in Objects /\ ~Absent.exists
  BY DEF Objects, Absent

LEMMA ResourceFields ==
  ASSUME NEW s \in Resources, s.tracked
  PROVE  s \in [tracked : {TRUE}, name : Names, comment : Comments, inUse : BOOLEAN,
                force : BOOLEAN]
<1>1. s # None
  BY DEF None
<1> QED
  BY <1>1 DEF Resources

LEMMA ResourceType ==
  ASSUME NEW n \in Names, NEW c \in Comments, NEW u \in BOOLEAN, NEW f \in BOOLEAN
  PROVE  Resource(n, c, u, f) \in Resources /\ Resource(n, c, u, f).tracked
  BY DEF Resources, Resource

LEMMA NoneType == None \in Resources /\ ~None.tracked
  BY DEF Resources, None

-----------------------------------------------------------------------------
(* What one request does.                                                  *)

LEMMA RequestType ==
  ASSUME NEW n \in Names, NEW m \in Names, NEW c \in Comments, NEW u \in BOOLEAN
  PROVE  /\ Post(n, c) \in Requests /\ Patch(n, u) \in Requests
         /\ Put(n, m, c) \in Requests /\ Put(n, m, "keep") \in Requests
         /\ Drop(n, u) \in Requests
  BY DEF Requests, Post, Patch, Put, Drop

LEMMA RequestMethods ==
  ASSUME NEW r \in Requests
  PROVE  /\ r.name \in Names
         /\ r.method \in {"POST", "PATCH", "PUT", "DELETE"}
         /\ r.method = "POST" => r.comment \in Comments
         /\ r.method = "PATCH" => r.inUse \in BOOLEAN /\ r = Patch(r.name, r.inUse)
         /\ r.method = "PUT" => r.to \in Names /\ r.comment \in Comments \cup {"keep"}
         /\ r.method = "DELETE" => r.force \in BOOLEAN /\ r = Drop(r.name, r.force)
  BY DEF Requests, Patch, Drop

\* Nothing is carried out that is not answered with a success.
LEMMA AfterRefused == ASSUME NEW r, Reply(r) # "ok" PROVE After(r) = server
  BY DEF After

\* A POST adds an object in use.
LEMMA AfterPost ==
  ASSUME NEW r, r.method = "POST", Reply(r) = "ok"
  PROVE  ~Exists(r.name) /\ After(r) = [server EXCEPT ![r.name] = Object(r.comment, TRUE, FALSE)]
<1>1. ~Exists(r.name)
  BY DEF Reply, Allowed
<1>2. After(r) = [server EXCEPT ![r.name] = Object(r.comment, TRUE, FALSE)]
  BY DEF After
<1> QED
  BY <1>1, <1>2

\* A PATCH changes nothing but the service of one object.
LEMMA AfterPatch ==
  ASSUME NEW r, r.method = "PATCH", Reply(r) = "ok"
  PROVE  Exists(r.name) /\ After(r) = [server EXCEPT ![r.name].inUse = r.inUse]
<1>1. Exists(r.name)
  BY DEF Reply
<1>2. After(r) = [server EXCEPT ![r.name].inUse = r.inUse]
  BY DEF After
<1> QED
  BY <1>1, <1>2

\* A PUT moves an object in use with its content.
LEMMA AfterPut ==
  ASSUME server \in [Names -> Objects], NEW r \in Requests,
         r.method = "PUT", Reply(r) = "ok"
  PROVE  /\ Exists(r.name) /\ (r.to = r.name \/ ~Exists(r.to))
         /\ \E o \in Objects :
              /\ After(r) = [server EXCEPT ![r.name] = Absent, ![r.to] = o]
              /\ o.exists /\ o.inUse /\ o.nonEmpty = server[r.name].nonEmpty
<1>1. Exists(r.name) /\ server[r.name].inUse /\ (r.to = r.name \/ ~Exists(r.to))
  BY DEF Reply, Allowed
<1> DEFINE old == server[r.name]
           o == IF r.comment = "keep" THEN old ELSE [old EXCEPT !.comment = r.comment]
<1>2. After(r) = [server EXCEPT ![r.name] = Absent, ![r.to] = o]
  BY DEF After
<1>3. old \in [exists : {TRUE}, comment : Comments, inUse : BOOLEAN, nonEmpty : BOOLEAN]
  BY <1>1, RequestMethods, ObjectFields DEF Exists
<1> HIDE DEF old
<1>4. o \in Objects /\ o.exists /\ o.inUse = old.inUse /\ o.nonEmpty = old.nonEmpty
  BY <1>3, RequestMethods DEF Objects
<1> HIDE DEF o
<1> QED
  BY <1>1, <1>2, <1>4 DEF old

\* A drop removes one object, with what is inside only if it is forced.
LEMMA AfterDrop ==
  ASSUME NEW r, r.method = "DELETE", Reply(r) = "ok"
  PROVE  /\ Exists(r.name) /\ (r.force \/ ~server[r.name].nonEmpty)
         /\ After(r) = [server EXCEPT ![r.name] = Absent]
<1>1. Exists(r.name) /\ (r.force \/ ~server[r.name].nonEmpty)
  BY DEF Reply, Allowed
<1>2. After(r) = [server EXCEPT ![r.name] = Absent]
  BY DEF After
<1> QED
  BY <1>1, <1>2

\* Only a POST is not answered with a 404 for an object that is not there.
LEMMA NotFoundIsGone ==
  ASSUME NEW r, Reply(r) = "notFound"
  PROVE  ~Exists(r.name) /\ After(r) = server
<1>1. ~Exists(r.name)
  BY DEF Reply
<1> QED
  BY <1>1, AfterRefused

\* Every request leaves a well-typed server.
LEMMA AfterType ==
  ASSUME server \in [Names -> Objects], NEW r \in Requests
  PROVE  After(r) \in [Names -> Objects]
<1> USE RequestMethods
<1>1. CASE Reply(r) # "ok"
  BY <1>1, AfterRefused
<1>2. CASE Reply(r) = "ok" /\ r.method = "POST"
  <2>1. Object(r.comment, TRUE, FALSE) \in Objects
    BY <1>2, ObjectType
  <2> QED
    BY <1>2, <2>1, AfterPost
<1>3. CASE Reply(r) = "ok" /\ r.method = "PATCH"
  <2>1. server[r.name] \in [exists : {TRUE}, comment : Comments, inUse : BOOLEAN,
                            nonEmpty : BOOLEAN]
    BY <1>3, AfterPatch, ObjectFields DEF Exists
  <2>2. [server[r.name] EXCEPT !.inUse = r.inUse] \in Objects
    BY <1>3, <2>1 DEF Objects
  <2> QED
    BY <1>3, <2>2, AfterPatch
<1>4. CASE Reply(r) = "ok" /\ r.method = "PUT"
  <2>1. PICK o \in Objects : After(r) = [server EXCEPT ![r.name] = Absent, ![r.to] = o]
    BY <1>4, AfterPut
  <2> QED
    BY <1>4, <2>1, AbsentType
<1>5. CASE Reply(r) = "ok" /\ r.method = "DELETE"
  BY <1>5, AfterDrop, AbsentType
<1> QED
  BY <1>1, <1>2, <1>3, <1>4, <1>5

\* Content leaves the server by a forced drop only.
LEMMA ContentKept ==
  ASSUME server \in [Names -> Objects], NEW r \in Requests, NEW n \in Names,
         Exists(n), server[n].nonEmpty, ~After(r)[n].exists,
         \A m \in Names : After(r)[m].exists => ~After(r)[m].nonEmpty
  PROVE  r = Drop(n, TRUE)
<1> USE RequestMethods DEF Exists
<1>1. Reply(r) = "ok"
  BY AfterRefused
<1>2. CASE r.method = "POST"
  <2>1. n # r.name /\ After(r) = [server EXCEPT ![r.name] = Object(r.comment, TRUE, FALSE)]
    BY <1>1, <1>2, AfterPost
  <2>2. After(r)[n] = server[n]
    BY <2>1
  <2> QED
    BY <2>2
<1>3. CASE r.method = "PATCH"
  <2>1. server[n] \in [exists : {TRUE}, comment : Comments, inUse : BOOLEAN,
                       nonEmpty : BOOLEAN]
    BY ObjectFields
  <2>2. After(r)[n] \in {server[n], [server[n] EXCEPT !.inUse = r.inUse]}
    <3>1. After(r) = [server EXCEPT ![r.name].inUse = r.inUse]
      BY <1>1, <1>3, AfterPatch
    <3> QED
      BY <3>1
  <2>3. [server[n] EXCEPT !.inUse = r.inUse].exists = TRUE /\ server[n].exists = TRUE
    BY <2>1
  <2>4. After(r)[n].exists = TRUE
    BY <2>2, <2>3
  <2> QED
    BY <2>4
<1>4. CASE r.method = "PUT"
  <2>1. PICK o \in Objects :
          /\ After(r) = [server EXCEPT ![r.name] = Absent, ![r.to] = o]
          /\ o.exists /\ o.inUse /\ o.nonEmpty = server[r.name].nonEmpty
    BY <1>1, <1>4, AfterPut
  <2>2. r.to \in Names /\ After(r)[r.to] = o
    BY <1>4, <2>1
  <2>3. n = r.name
    BY <1>4, <2>1, <2>2
  <2> QED
    BY <2>1, <2>2, <2>3
<1>5. CASE r.method = "DELETE"
  <2>1. n = r.name
    BY <1>1, <1>5, AfterDrop
  <2>2. r.force
    BY <1>1, <1>5, <2>1, AfterDrop
  <2> QED
    BY <1>5, <2>1, <2>2
<1> QED
  BY <1>2, <1>3, <1>4, <1>5

\* An object that stays goes out of service by a PATCH only.
LEMMA ServiceKept ==
  ASSUME server \in [Names -> Objects], NEW r \in Requests, NEW n \in Names,
         Exists(n), server[n].inUse, After(r)[n].exists, ~After(r)[n].inUse
  PROVE  r = Patch(n, FALSE)
<1> USE RequestMethods DEF Exists
<1>1. Reply(r) = "ok"
  BY AfterRefused
<1>2. CASE r.method = "POST"
  <2>1. n # r.name /\ After(r) = [server EXCEPT ![r.name] = Object(r.comment, TRUE, FALSE)]
    BY <1>1, <1>2, AfterPost
  <2>2. After(r)[n] = server[n]
    BY <2>1
  <2> QED
    BY <2>2
<1>3. CASE r.method = "PATCH"
  <2>0. After(r) = [server EXCEPT ![r.name].inUse = r.inUse]
    BY <1>1, <1>3, AfterPatch
  <2>1. n = r.name
    <3> SUFFICES ASSUME n # r.name PROVE FALSE
      OBVIOUS
    <3>1. After(r)[n] = server[n]
      BY <2>0
    <3> QED
      BY <3>1
  <2>2. r.inUse = FALSE
    <3>1. server[n] \in [exists : {TRUE}, comment : Comments, inUse : BOOLEAN,
                         nonEmpty : BOOLEAN]
      BY ObjectFields
    <3>2. After(r)[n] = [server[n] EXCEPT !.inUse = r.inUse]
      BY <2>0, <2>1
    <3>3. After(r)[n].inUse = r.inUse /\ r.inUse \in BOOLEAN
      BY <1>3, <3>1, <3>2
    <3> QED
      BY <3>3
  <2> QED
    BY <1>3, <2>1, <2>2
<1>4. CASE r.method = "PUT"
  <2>1. PICK o \in Objects :
          /\ After(r) = [server EXCEPT ![r.name] = Absent, ![r.to] = o]
          /\ o.exists /\ o.inUse
    BY <1>1, <1>4, AfterPut
  <2> QED
    BY <1>4, <2>1, AbsentType
<1>5. CASE r.method = "DELETE"
  BY <1>1, <1>5, AfterDrop, AbsentType
<1> QED
  BY <1>2, <1>3, <1>4, <1>5

-----------------------------------------------------------------------------
(* A call.                                                                 *)

\* Whatever becomes of a call, the request is carried out once or not at all, or is
\* late; a success was one, and a 404 means that the object is not there or that the
\* request has moved or dropped it before.
LEMMA CallEffect ==
  ASSUME TypeOK, NEW r \in Requests, NEW a, Answered(r, a)
  PROVE  /\ server' \in {server, After(r)} /\ server' \in [Names -> Objects]
         /\ ctx' \in {"live", "ended"} /\ late' \subseteq Requests
         /\ faults' \in 0 .. MaxFaults
         /\ a = "ok" => server' = After(r) /\ Reply(r) = "ok"
         /\ a = "notFound" => /\ server' = After(r)
                              /\ \/ Reply(r) = "notFound"
                                 \/ r.method \in {"PUT", "DELETE"} /\ Reply(r) = "ok"
<1>1. After(r) \in [Names -> Objects]
  BY AfterType DEF TypeOK
<1>2. CASE Prompt(r, a)
  BY <1>1, <1>2 DEF Prompt, TypeOK
<1>3. CASE Lost(r, a)
  BY <1>1, <1>3, BoundsAreNaturals DEF Lost, TypeOK
<1>4. CASE Repeated(r, a)
  BY <1>1, <1>4, BoundsAreNaturals DEF Repeated, TypeOK
<1>5. CASE Overtaken(r, a)
  BY <1>1, <1>5, BoundsAreNaturals DEF Overtaken, TypeOK
<1>6. CASE NotSent(r, a)
  BY <1>1, <1>6 DEF NotSent, TypeOK
<1> QED
  BY <1>2, <1>3, <1>4, <1>5, <1>6 DEF Answered

-----------------------------------------------------------------------------
(* Where a handler is.                                                     *)

\* What a handler was called for still holds while it is at work, since neither the
\* configuration nor the state changes before it ends; and a call that takes an object
\* out of service is only on the way to do what is configured.
ControlInv ==
  /\ pc \in {"create", "createDisabled"} => config.tracked /\ ~state.tracked
  /\ pc \in {"enable", "put", "redisable", "disable", "save"} =>
       config.tracked /\ state.tracked
  /\ pc \in {"createDisabled", "redisable", "disable"} => ~config.inUse
  /\ pc \in {"disableForDrop", "drop", "reenable"} => ~config.tracked /\ state.tracked

Inv == TypeOK /\ ControlInv

\* The request of each call is a request.
LEMMA RequestsSent ==
  ASSUME TypeOK
  PROVE  /\ config.tracked =>
              /\ config.name \in Names
              /\ Post(config.name, config.comment) \in Requests
              /\ \A u \in BOOLEAN : Patch(config.name, u) \in Requests
         /\ state.tracked =>
              /\ state.name \in Names
              /\ \A u \in BOOLEAN : Patch(state.name, u) \in Requests
              /\ Drop(state.name, state.force) \in Requests
         /\ config.tracked /\ state.tracked =>
              Put(state.name, config.name,
                  IF config.comment = state.comment THEN "keep" ELSE config.comment) \in Requests
<1>1. config.tracked => config \in [tracked : {TRUE}, name : Names, comment : Comments,
                                    inUse : BOOLEAN, force : BOOLEAN]
  BY ResourceFields DEF TypeOK
<1>2. state.tracked => state \in [tracked : {TRUE}, name : Names, comment : Comments,
                                  inUse : BOOLEAN, force : BOOLEAN]
  BY ResourceFields DEF TypeOK
<1> QED
  BY <1>1, <1>2, RequestType

\* One step of a handler: the calls it may make, and where it goes.
LEMMA HandlerStep ==
  ASSUME Inv, NEW r \in Requests, NEW a \in Answers, Answered(r, a), UNCHANGED environment
  PROVE  /\ server' \in [Names -> Objects] /\ ctx' \in {"live", "ended"}
         /\ late' \subseteq Requests /\ faults' \in 0 .. MaxFaults
         /\ config' = config /\ changes' = changes /\ outside' = outside
  BY CallEffect DEF Inv, environment

\* The strengthening is inductive.
THEOREM TypeAndControl == Spec => []Inv
<1>1. Init => Inv
  <2> SUFFICES ASSUME Init PROVE Inv
    OBVIOUS
  <2>1. server \in [Names -> Objects]
    BY AbsentType DEF Init
  <2> QED
    BY <2>1, NoneType, BoundsAreNaturals DEF Init, Inv, TypeOK, ControlInv
<1>2. Inv /\ [Next]_vars => Inv'
  <2> SUFFICES ASSUME Inv, [Next]_vars PROVE Inv'
    OBVIOUS
  <2> USE RequestsSent, NoneType DEF Inv, TypeOK, ControlInv, End, Continue, environment
  <2>1. CASE Refresh
    <3>1. ASSUME state.tracked, Exists(state.name)
          PROVE  [state EXCEPT !.comment = server[state.name].comment] \in Resources
      <4>1. state \in [tracked : {TRUE}, name : Names, comment : Comments,
                       inUse : BOOLEAN, force : BOOLEAN]
        BY <3>1, ResourceFields
      <4>2. server[state.name].comment \in Comments
        <5>1. server[state.name] \in Objects /\ server[state.name].exists
          BY <3>1, <4>1 DEF Exists
        <5>2. server[state.name] \in [exists : {TRUE}, comment : Comments, inUse : BOOLEAN,
                                      nonEmpty : BOOLEAN]
          BY <5>1, ObjectFields
        <5> QED
          BY <5>2
      <4>3. [state EXCEPT !.comment = server[state.name].comment] \in
              [tracked : {TRUE}, name : Names, comment : Comments, inUse : BOOLEAN,
               force : BOOLEAN]
        BY <4>1, <4>2
      <4> QED
        BY <4>3 DEF Resources
    <3>2. state' \in Resources /\ faults' \in 0 .. MaxFaults
      BY <2>1, <3>1, BoundsAreNaturals DEF Refresh
    <3>3. pc' \in {"idle", "plan"}
      BY <2>1 DEF Refresh
    <3> QED
      BY <2>1, <3>2, <3>3 DEF Refresh
  <2>2. CASE Plan
    <3>1. config.tracked /\ state.tracked => config.inUse \in BOOLEAN /\ state.inUse \in BOOLEAN
      BY ResourceFields
    <3> QED
      BY <2>2, <3>1 DEF Plan, TemporarilyEnabled, InUseChanged
  <2>3. CASE Create
    BY <2>3, HandlerStep DEF Create
  <2>4. CASE CreateDisabled
    BY <2>4, HandlerStep DEF CreateDisabled
  <2>5. CASE Enable
    BY <2>5, HandlerStep DEF Enable
  <2>6. CASE Update
    BY <2>6, HandlerStep DEF Update, TemporarilyEnabled
  <2>7. CASE Redisable
    BY <2>7, HandlerStep DEF Redisable
  <2>8. CASE Disable
    BY <2>8, HandlerStep DEF Disable
  <2>9. CASE Save
    BY <2>9 DEF Save
  <2>10. CASE DisableForDrop
    BY <2>10, HandlerStep DEF DisableForDrop
  <2>11. CASE DropObject
    BY <2>11, HandlerStep DEF DropObject
  <2>12. CASE Reenable
    BY <2>12, HandlerStep DEF Reenable
  <2>13. CASE ImportState
    <3>1. PICK n \in Names : Exists(n) /\ state' = Resource(n, server[n].comment, TRUE, FALSE)
      BY <2>13 DEF ImportState
    <3>2. server[n].comment \in Comments
      <4>1. server[n] \in Objects /\ server[n].exists
        BY <3>1 DEF Exists
      <4>2. server[n] \in [exists : {TRUE}, comment : Comments, inUse : BOOLEAN,
                           nonEmpty : BOOLEAN]
        BY <4>1, ObjectFields
      <4> QED
        BY <4>2
    <3>3. state' \in Resources
      BY <3>1, <3>2, ResourceType
    <3> QED
      BY <2>13, <3>3 DEF ImportState
  <2>14. CASE Configure
    BY <2>14, BoundsAreNaturals DEF Configure
  <2>15. CASE OutsideContent
    <3>1. ASSUME NEW n \in Names, Exists(n)
          PROVE  [server[n] EXCEPT !.nonEmpty = ~@] \in Objects
      BY <3>1, ObjectFields DEF Exists, Objects
    <3> QED
      BY <2>15, <3>1 DEF OutsideContent
  <2>16. CASE OutsideObject
    <3>1. PICK k \in OutsideNames, o \in Objects : server' = [server EXCEPT ![k] = o]
      BY <2>16, ObjectType, AbsentType DEF OutsideObject
    <3>2. server' \in [Names -> Objects]
      BY <3>1
    <3>3. UNCHANGED <<state, config, pc, ctx, late, result, faults, changes>>
      BY <2>16 DEF OutsideObject
    <3>4. /\ state' = state /\ config' = config /\ pc' = pc /\ ctx' = ctx /\ late' = late /\ result' = result
          /\ faults' = faults /\ changes' = changes /\ outside' \subseteq OutsideNames
      BY <2>16, <3>3 DEF OutsideObject
    <3> QED
      BY <3>2, <3>4
  <2>17. CASE CarriedOutLate
    BY <2>17, AfterType DEF CarriedOutLate
  <2>18. CASE UNCHANGED vars
    BY <2>18 DEF vars
  <2> QED
    BY <2>1, <2>2, <2>3, <2>4, <2>5, <2>6, <2>7, <2>8, <2>9, <2>10, <2>11, <2>12,
       <2>13, <2>14, <2>15, <2>16, <2>17, <2>18 DEF Next
<1> QED
  BY <1>1, <1>2, PTL DEF Spec

\* Every state of a metalake and its handlers is well typed.
THEOREM TypeCorrect == Spec => []TypeOK
<1>1. Inv => TypeOK
  BY DEF Inv
<1> QED
  BY <1>1, TypeAndControl, PTL

-----------------------------------------------------------------------------
(* What a step may do to the server.                                       *)

\* The request a handler sends from where it is.
Sent(r) ==
  \/ pc = "create" /\ r = Post(config.name, config.comment)
  \/ pc \in {"createDisabled", "disable"} /\ r = Patch(config.name, FALSE)
  \/ pc \in {"redisable", "disableForDrop"} /\ r = Patch(state.name, FALSE)
  \/ pc \in {"enable", "reenable"} /\ r = Patch(state.name, TRUE)
  \/ pc = "put" /\ r = Put(state.name, config.name,
                           IF config.comment = state.comment THEN "keep" ELSE config.comment)
  \/ pc = "drop" /\ r = Drop(state.name, state.force)

\* What a step does to the server: nothing, a request of a handler or one that was
\* lost, or a change by someone else.
ServerStep ==
  \/ server' = server
  \/ \E r \in Requests : server' = After(r) /\ (r \in late \/ Sent(r))
  \/ OutsideContent \/ OutsideObject

LEMMA ServerSteps ==
  ASSUME Inv, [Next]_vars
  PROVE  ServerStep
<1>0. TypeOK /\ ControlInv
  BY DEF Inv
<1>1. ASSUME NEW r \in Requests, NEW a, Answered(r, a), Sent(r)
      PROVE  ServerStep
  <2>1. server' \in {server, After(r)}
    BY <1>0, <1>1, CallEffect
  <2> QED
    BY <1>1, <2>1 DEF ServerStep
<1> USE DEF ControlInv
<1>2. CASE Create
  <2>1. Post(config.name, config.comment) \in Requests
    BY <1>0, <1>2, RequestsSent DEF Create
  <2>2. Sent(Post(config.name, config.comment))
    BY <1>2 DEF Create, Sent
  <2>3. \E a \in Answers : Answered(Post(config.name, config.comment), a)
    BY <1>2 DEF Create
  <2> QED
    BY <1>1, <2>1, <2>2, <2>3
<1>3. CASE CreateDisabled
  <2>1. Patch(config.name, FALSE) \in Requests
    BY <1>0, <1>3, RequestsSent DEF CreateDisabled
  <2>2. Sent(Patch(config.name, FALSE))
    BY <1>3 DEF CreateDisabled, Sent
  <2>3. \E a \in Answers : Answered(Patch(config.name, FALSE), a)
    BY <1>3 DEF CreateDisabled
  <2> QED
    BY <1>1, <2>1, <2>2, <2>3
<1>4. CASE Enable
  <2>1. Patch(state.name, TRUE) \in Requests
    BY <1>0, <1>4, RequestsSent DEF Enable
  <2>2. Sent(Patch(state.name, TRUE))
    BY <1>4 DEF Enable, Sent
  <2>3. \E a \in Answers : Answered(Patch(state.name, TRUE), a)
    BY <1>4 DEF Enable
  <2> QED
    BY <1>1, <2>1, <2>2, <2>3
<1>5. CASE Update
  <2> DEFINE r == Put(state.name, config.name,
                      IF config.comment = state.comment THEN "keep" ELSE config.comment)
  <2>1. r \in Requests
    BY <1>0, <1>5, RequestsSent DEF Update
  <2>2. Sent(r)
    BY <1>5 DEF Update, Sent
  <2>3. \E a \in Answers : Answered(r, a)
    BY <1>5 DEF Update
  <2> HIDE DEF r
  <2> QED
    BY <1>1, <2>1, <2>2, <2>3
<1>6. CASE Redisable
  <2>1. Patch(state.name, FALSE) \in Requests
    BY <1>0, <1>6, RequestsSent DEF Redisable
  <2>2. Sent(Patch(state.name, FALSE))
    BY <1>6 DEF Redisable, Sent
  <2>3. \E a \in Answers : Answered(Patch(state.name, FALSE), a)
    BY <1>6 DEF Redisable
  <2> QED
    BY <1>1, <2>1, <2>2, <2>3
<1>7. CASE Disable
  <2>1. Patch(config.name, FALSE) \in Requests
    BY <1>0, <1>7, RequestsSent DEF Disable
  <2>2. Sent(Patch(config.name, FALSE))
    BY <1>7 DEF Disable, Sent
  <2>3. \E a \in Answers : Answered(Patch(config.name, FALSE), a)
    BY <1>7 DEF Disable
  <2> QED
    BY <1>1, <2>1, <2>2, <2>3
<1>8. CASE DisableForDrop
  <2>1. Patch(state.name, FALSE) \in Requests
    BY <1>0, <1>8, RequestsSent DEF DisableForDrop
  <2>2. Sent(Patch(state.name, FALSE))
    BY <1>8 DEF DisableForDrop, Sent
  <2>3. \E a \in Answers : Answered(Patch(state.name, FALSE), a)
    BY <1>8 DEF DisableForDrop
  <2> QED
    BY <1>1, <2>1, <2>2, <2>3
<1>9. CASE DropObject
  <2>1. Drop(state.name, state.force) \in Requests
    BY <1>0, <1>9, RequestsSent DEF DropObject
  <2>2. Sent(Drop(state.name, state.force))
    BY <1>9 DEF DropObject, Sent
  <2>3. \E a \in Answers : Answered(Drop(state.name, state.force), a)
    BY <1>9 DEF DropObject
  <2> QED
    BY <1>1, <2>1, <2>2, <2>3
<1>10. CASE Reenable
  <2>1. Patch(state.name, TRUE) \in Requests
    BY <1>0, <1>10, RequestsSent DEF Reenable
  <2>2. Sent(Patch(state.name, TRUE))
    BY <1>10 DEF Reenable, Sent
  <2>3. \E a \in Answers : Answered(Patch(state.name, TRUE), a)
    BY <1>10 DEF Reenable
  <2> QED
    BY <1>1, <2>1, <2>2, <2>3
<1>11. CASE CarriedOutLate
  <2>1. \E r \in late : server' = After(r)
    BY <1>11 DEF CarriedOutLate
  <2>2. late \subseteq Requests
    BY <1>0 DEF TypeOK
  <2> QED
    BY <2>1, <2>2 DEF ServerStep
<1>12. CASE Refresh \/ Plan \/ Save \/ ImportState \/ Configure \/ UNCHANGED vars
  <2>1. server' = server
    BY <1>12 DEF Refresh, Plan, Save, ImportState, Configure, vars
  <2> QED
    BY <2>1 DEF ServerStep
<1>13. CASE OutsideContent \/ OutsideObject
  BY <1>13 DEF ServerStep
<1> QED
  BY <1>2, <1>3, <1>4, <1>5, <1>6, <1>7, <1>8, <1>9, <1>10, <1>11, <1>12, <1>13 DEF Next

LEMMA RequestsDiffer ==
  ASSUME NEW n, NEW m, NEW c, NEW u
  PROVE  /\ Post(m, c) # Drop(n, TRUE) /\ Post(m, c) # Patch(n, FALSE)
         /\ Patch(m, u) # Drop(n, TRUE) /\ Drop(m, u) # Patch(n, FALSE)
         /\ \A k : /\ Put(m, k, c) # Drop(n, TRUE) /\ Put(m, k, c) # Patch(n, FALSE)
         /\ Patch(m, TRUE) # Patch(n, FALSE)
         /\ Drop(m, u) = Drop(n, TRUE) => u = TRUE
  BY DEF Post, Patch, Put, Drop

\* An object with something inside leaves the server only through a forced drop, now or
\* late, or by someone else.
THEOREM ContentLeavesByForce == Spec => NonEmptyOnlyByForce
<1>1. ASSUME Inv, [Next]_vars, NEW n \in Names,
             Exists(n), server[n].nonEmpty, ~server'[n].exists,
             \A m \in Names : server'[m].exists => ~server'[m].nonEmpty,
             outside' = outside
      PROVE  (state.tracked /\ state.force) \/ Drop(n, TRUE) \in late
  <2>1. server \in [Names -> Objects] /\ ControlInv
    BY <1>1 DEF Inv, TypeOK
  <2>2. server' # server
    BY <1>1 DEF Exists
  <2>3. ASSUME NEW r \in Requests, server' = After(r), r \in late \/ Sent(r)
        PROVE  (state.tracked /\ state.force) \/ Drop(n, TRUE) \in late
    <3>1. r = Drop(n, TRUE)
      BY <1>1, <2>1, <2>3, ContentKept
    <3>2. CASE Sent(r)
      <4>1. pc = "drop" /\ r = Drop(state.name, state.force)
        BY <3>1, <3>2, RequestsDiffer DEF Sent
      <4>2. state.force = TRUE
        BY <3>1, <4>1 DEF Drop
      <4>3. state.tracked
        BY <2>1, <4>1 DEF ControlInv
      <4> QED
        BY <4>2, <4>3
    <3> QED
      BY <2>3, <3>1, <3>2
  <2>4. CASE OutsideContent
    <3>1. PICK k \in Names : Exists(k) /\ server' = [server EXCEPT ![k].nonEmpty = ~@]
      BY <2>4 DEF OutsideContent
    <3>2. server[n] \in [exists : {TRUE}, comment : Comments, inUse : BOOLEAN,
                         nonEmpty : BOOLEAN]
      BY <1>1, <2>1, ObjectFields DEF Exists
    <3>3. server'[n] \in {server[n], [server[n] EXCEPT !.nonEmpty = ~@]}
      BY <2>1, <3>1
    <3>4. server[n].exists = TRUE /\ [server[n] EXCEPT !.nonEmpty = ~@].exists = TRUE
      BY <3>2
    <3>5. server'[n].exists = TRUE
      BY <3>3, <3>4
    <3> QED
      BY <1>1, <3>5
  <2>5. CASE OutsideObject
    <3>1. PICK k \in OutsideNames \ outside : outside' = outside \cup {k}
      BY <2>5 DEF OutsideObject
    <3> QED
      BY <1>1, <3>1
  <2> QED
    BY <1>1, <2>2, <2>3, <2>4, <2>5, ServerSteps DEF ServerStep
<1>2. Inv /\ [Next]_vars =>
        [\A n \in Names :
           /\ Exists(n) /\ server[n].nonEmpty /\ ~server'[n].exists
           /\ \A m \in Names : server'[m].exists => ~server'[m].nonEmpty
           /\ outside' = outside
           => (state.tracked /\ state.force) \/ Drop(n, TRUE) \in late]_vars
  BY <1>1
<1> QED
  BY <1>2, TypeAndControl, PTL DEF Spec, NonEmptyOnlyByForce

\* An object goes out of service only while the configuration disables or destroys it,
\* or by a late request of a time when it did.
THEOREM DisabledWhenRequested == Spec => DisabledOnlyOnRequest
<1>1. ASSUME Inv, [Next]_vars, NEW n \in Names,
             Exists(n), server[n].inUse, server'[n].exists, ~server'[n].inUse
      PROVE  ~config.tracked \/ ~config.inUse \/ Patch(n, FALSE) \in late
  <2>1. server \in [Names -> Objects] /\ ControlInv
    BY <1>1 DEF Inv, TypeOK
  <2>2. server' # server
    BY <1>1
  <2>3. ASSUME NEW r \in Requests, server' = After(r), r \in late \/ Sent(r)
        PROVE  ~config.tracked \/ ~config.inUse \/ Patch(n, FALSE) \in late
    <3>1. r = Patch(n, FALSE)
      BY <1>1, <2>1, <2>3, ServiceKept
    <3>2. CASE Sent(r)
      <4>1. pc \in {"createDisabled", "disable", "redisable", "disableForDrop"}
        BY <3>1, <3>2, RequestsDiffer DEF Sent
      <4> QED
        BY <2>1, <4>1 DEF ControlInv
    <3> QED
      BY <2>3, <3>1, <3>2
  <2>4. CASE OutsideContent
    <3>1. PICK k \in Names : Exists(k) /\ server' = [server EXCEPT ![k].nonEmpty = ~@]
      BY <2>4 DEF OutsideContent
    <3>2. server[n] \in [exists : {TRUE}, comment : Comments, inUse : BOOLEAN,
                         nonEmpty : BOOLEAN]
      BY <1>1, <2>1, ObjectFields DEF Exists
    <3>3. server'[n] \in {server[n], [server[n] EXCEPT !.nonEmpty = ~@]}
      BY <2>1, <3>1
    <3>4. [server[n] EXCEPT !.nonEmpty = ~@].inUse = server[n].inUse
      BY <3>2
    <3>5. server'[n].inUse = server[n].inUse
      BY <3>3, <3>4
    <3> QED
      BY <1>1, <3>5
  <2>5. CASE OutsideObject
    <3>1. PICK k \in OutsideNames \ outside :
            \/ server' = [server EXCEPT ![k] = Absent]
            \/ \E c \in Comments : server' = [server EXCEPT ![k] = Object(c, TRUE, FALSE)]
      BY <2>5 DEF OutsideObject
    <3>2. k = n
      BY <1>1, <2>1, <3>1
    <3>3. server'[n] = Absent \/ \E c \in Comments : server'[n] = Object(c, TRUE, FALSE)
      BY <2>1, <3>1, <3>2
    <3> QED
      BY <1>1, <3>3, AbsentType, ObjectType
  <2> QED
    BY <1>1, <2>2, <2>3, <2>4, <2>5, ServerSteps DEF ServerStep
<1>2. Inv /\ [Next]_vars =>
        [\A n \in Names :
           /\ Exists(n) /\ server[n].inUse
           /\ server'[n].exists /\ ~server'[n].inUse
           => \/ ~config.tracked \/ ~config.inUse
              \/ Patch(n, FALSE) \in late]_vars
  BY <1>1
<1> QED
  BY <1>2, TypeAndControl, PTL DEF Spec, DisabledOnlyOnRequest

\* Terraform forgets an object only when the server does not have it any more,
\* whatever was lost, repeated or interrupted.
THEOREM ForgottenMeansGone == Spec => ForgottenOnlyWhenGone
<1>1. Inv /\ [Next]_vars =>
        [state.tracked /\ ~state'.tracked => ~server'[state.name].exists]_vars
  <2> SUFFICES ASSUME Inv, Next, state.tracked, ~state'.tracked
               PROVE  ~server'[state.name].exists
    OBVIOUS
  <2>1. TypeOK /\ ControlInv
    BY DEF Inv
  <2>2. state # state' /\ state.name \in Names /\ server \in [Names -> Objects]
    BY <2>1, RequestsSent DEF TypeOK
  <2>3. CASE Refresh
    <3>1. ~Exists(state.name) /\ server' = server
      <4>1. state \in [tracked : {TRUE}, name : Names, comment : Comments,
                       inUse : BOOLEAN, force : BOOLEAN]
        BY <2>1, ResourceFields DEF TypeOK
      <4>2. [state EXCEPT !.comment = server[state.name].comment].tracked = TRUE
        BY <4>1
      <4> QED
        BY <2>2, <2>3, <4>2 DEF Refresh
    <3> QED
      BY <3>1 DEF Exists
  <2>4. CASE DisableForDrop
    <3> DEFINE r == Patch(state.name, FALSE)
    <3>1. Answered(r, "notFound")
      BY <2>2, <2>4 DEF DisableForDrop, End, Continue
    <3>2. r \in Requests /\ r.method = "PATCH" /\ r.name = state.name
      BY <2>1, RequestsSent DEF Patch
    <3>3. Reply(r) = "notFound" /\ server' = After(r)
      BY <2>1, <3>1, <3>2, CallEffect
    <3> HIDE DEF r
    <3> QED
      BY <3>2, <3>3, NotFoundIsGone DEF Exists
  <2>5. CASE DropObject
    <3> DEFINE r == Drop(state.name, state.force)
    <3>1. PICK a \in {"ok", "notFound"} : Answered(r, a)
      BY <2>2, <2>5 DEF DropObject, End
    <3>2. r \in Requests /\ r.method = "DELETE" /\ r.name = state.name
      BY <2>1, RequestsSent DEF Drop
    <3>3. server' = After(r) /\ Reply(r) \in {"ok", "notFound"}
      BY <2>1, <3>1, <3>2, CallEffect
    <3> HIDE DEF r
    <3>4. CASE Reply(r) = "ok"
      <4>1. server'[state.name] = Absent
        BY <2>2, <3>2, <3>3, <3>4, AfterDrop
      <4> QED
        BY <4>1, AbsentType
    <3>5. CASE Reply(r) = "notFound"
      BY <3>2, <3>3, <3>5, NotFoundIsGone DEF Exists
    <3> QED
      BY <3>3, <3>4, <3>5
  <2>6. CASE Create \/ CreateDisabled \/ ImportState
    BY <2>1, <2>6 DEF Create, CreateDisabled, ImportState, ControlInv
  <2>7. CASE Enable \/ Update \/ Redisable \/ Disable \/ Save
    BY <2>1, <2>2, <2>7 DEF Enable, Update, Redisable, Disable, Save, End, Continue, ControlInv
  <2>8. CASE Plan \/ Reenable \/ Configure \/ OutsideContent \/ OutsideObject \/ CarriedOutLate
    BY <2>1, <2>2, <2>8 DEF Plan, Reenable, Configure, OutsideContent, OutsideObject,
       CarriedOutLate, End, Continue
  <2> QED
    BY <2>3, <2>4, <2>5, <2>6, <2>7, <2>8 DEF Next
<1> QED
  BY <1>1, TypeAndControl, PTL DEF Spec, ForgottenOnlyWhenGone

-----------------------------------------------------------------------------
(* When every call answers truthfully.                                     *)

\* The resource whose name the object has: the planned one from where a handler has
\* made or renamed it.
Held == IF pc \in {"createDisabled", "disable", "save"} THEN config ELSE state

\* Whether a handler has just reported success.
Applied == pc = "idle" /\ result \in {"created", "updated"}

\* The server has no object but the one held, unless somebody else acted there.
HeldInv == \A n \in Names \ outside : Exists(n) => Held.tracked /\ Held.name = n

\* The object is there while a handler is at work and after a success, unless somebody
\* else dropped it; if nobody ever acted, it is always there.
PresentInv ==
  /\ Held.tracked
  /\ \/ outside = {}
     \/ Held.name \notin outside /\ (pc # "idle" \/ Applied)
  => Exists(Held.name)

\* Where the comment decides what is sent, and after a success, it is the one held.
CommentInv ==
  /\ Held.tracked /\ Exists(Held.name)
  /\ \/ pc \in {"plan", "enable", "put", "createDisabled", "disable", "save"}
     \/ Applied
  => server[Held.name].comment = Held.comment

\* Where the object is in or out of service as recorded.
Restored == \/ pc \in {"idle", "plan", "enable", "disableForDrop", "save"}
            \/ pc = "drop" /\ state.force

\* What is recorded in use is in service, except while a handler has it out of service
\* for a time, and out of service before an unforced drop; if nobody else ever acted,
\* what is recorded is how it is.
ServiceInv ==
  Held.tracked /\ Exists(Held.name) =>
    /\ (Restored \/ pc = "put") /\ Held.name \notin outside /\ Held.inUse
         => server[Held.name].inUse
    /\ pc = "drop" /\ ~state.force /\ Held.name \notin outside
         => ~server[Held.name].inUse
    /\ outside = {} =>
         /\ Restored => server[Held.name].inUse = Held.inUse
         /\ pc = "put" => server[Held.name].inUse

\* Why a handler is where it is, or how it has ended.
ReasonInv ==
  /\ Applied => state.tracked
  /\ pc = "enable" => (InUseChanged /\ config.inUse) \/ TemporarilyEnabled
  /\ pc = "put" => UpdatesPlanned
  /\ pc = "redisable" => outside # {} /\ ~state.inUse
  /\ pc = "reenable" => state.inUse /\ result \notin {"created", "updated"}
  /\ pc = "disableForDrop" => ~state.force

Truthful == ctx = "live" /\ late = {}
QuietInv ==
  faults = 0 => /\ Truthful
                /\ HeldInv /\ PresentInv /\ CommentInv /\ ServiceInv /\ ReasonInv

-----------------------------------------------------------------------------
(* What a truthful call does.                                              *)

\* A call without a fault is answered at once.
LEMMA PromptCall ==
  ASSUME TypeOK, faults = 0, faults' = 0, ctx = "live", late = {}, NEW r, NEW a, Answered(r, a)
  PROVE  a = Reply(r) /\ server' = After(r) /\ ctx' = "live" /\ late' = {}
<1>1. ~Lost(r, a) /\ ~Repeated(r, a) /\ ~Overtaken(r, a) /\ ~NotSent(r, a)
  BY DEF Lost, Repeated, Overtaken, NotSent
<1> QED
  BY <1>1 DEF Answered, Prompt

\* A PATCH is refused by nobody: it finds its object or not.
LEMMA Patched ==
  ASSUME server \in [Names -> Objects], NEW n \in Names, NEW u \in BOOLEAN
  PROVE  /\ Reply(Patch(n, u)) = IF Exists(n) THEN "ok" ELSE "notFound"
         /\ ~Exists(n) => After(Patch(n, u)) = server
         /\ Exists(n) => /\ After(Patch(n, u))[n].exists
                         /\ After(Patch(n, u))[n].inUse = u
                         /\ After(Patch(n, u))[n].comment = server[n].comment
         /\ \A m \in Names \ {n} : After(Patch(n, u))[m] = server[m]
<1> DEFINE r == Patch(n, u)
<1>1. r.method = "PATCH" /\ r.name = n /\ r.inUse = u
  BY DEF Patch
<1> HIDE DEF r
<1>2. Allowed(r)
  BY <1>1 DEF Allowed
<1>3. Reply(r) = IF Exists(n) THEN "ok" ELSE "notFound"
  BY <1>1, <1>2 DEF Reply
<1>4. CASE ~Exists(n)
  <2>1. After(r) = server
    BY <1>3, <1>4, AfterRefused
  <2> QED
    BY <1>3, <1>4, <2>1 DEF r
<1>5. CASE Exists(n)
  <2>1. After(r) = [server EXCEPT ![n].inUse = u]
    BY <1>1, <1>3, <1>5, AfterPatch
  <2>2. server[n] \in [exists : {TRUE}, comment : Comments, inUse : BOOLEAN,
                       nonEmpty : BOOLEAN]
    BY <1>5, ObjectFields DEF Exists
  <2>3. After(r)[n] = [server[n] EXCEPT !.inUse = u]
    BY <2>1
  <2>4. After(r)[n].exists /\ After(r)[n].inUse = u /\ After(r)[n].comment = server[n].comment
    BY <2>2, <2>3
  <2>5. \A m \in Names \ {n} : After(r)[m] = server[m]
    BY <2>1
  <2> QED
    BY <1>3, <1>5, <2>4, <2>5 DEF r
<1> QED
  BY <1>4, <1>5

\* A POST is refused for a name that is taken.
LEMMA Posted ==
  ASSUME server \in [Names -> Objects], NEW n \in Names, NEW c \in Comments
  PROVE  /\ Reply(Post(n, c)) = IF Exists(n) THEN "refused" ELSE "ok"
         /\ Exists(n) => After(Post(n, c)) = server
         /\ ~Exists(n) => /\ After(Post(n, c))[n].exists
                          /\ After(Post(n, c))[n].inUse = TRUE
                          /\ After(Post(n, c))[n].comment = c
         /\ \A m \in Names \ {n} : After(Post(n, c))[m] = server[m]
<1> DEFINE r == Post(n, c)
<1>1. r.method = "POST" /\ r.name = n /\ r.comment = c
  BY DEF Post
<1> HIDE DEF r
<1>2. Allowed(r) <=> ~Exists(n)
  BY <1>1 DEF Allowed
<1>3. Reply(r) = IF Exists(n) THEN "refused" ELSE "ok"
  BY <1>1, <1>2 DEF Reply
<1>4. CASE Exists(n)
  <2>1. After(r) = server
    BY <1>3, <1>4, AfterRefused
  <2> QED
    BY <1>3, <1>4, <2>1 DEF r
<1>5. CASE ~Exists(n)
  <2>1. After(r) = [server EXCEPT ![n] = Object(c, TRUE, FALSE)]
    BY <1>1, <1>3, <1>5, AfterPost
  <2>2. After(r)[n] = Object(c, TRUE, FALSE) /\ \A m \in Names \ {n} : After(r)[m] = server[m]
    BY <2>1
  <2> QED
    BY <1>3, <1>5, <2>2, ObjectType DEF r
<1> QED
  BY <1>4, <1>5

\* A drop is refused for an object in use or with content, unless it is forced.
LEMMA Dropped ==
  ASSUME server \in [Names -> Objects], NEW n \in Names, NEW f \in BOOLEAN
  PROVE  /\ Reply(Drop(n, f)) \in {"ok", "notFound", "refused"}
         /\ Reply(Drop(n, f)) = "notFound" <=> ~Exists(n)
         /\ Reply(Drop(n, f)) = "refused" => ~f
         /\ Reply(Drop(n, f)) # "ok" => After(Drop(n, f)) = server
         /\ Reply(Drop(n, f)) = "ok" => ~After(Drop(n, f))[n].exists
         /\ \A m \in Names \ {n} : After(Drop(n, f))[m] = server[m]
<1> DEFINE r == Drop(n, f)
<1>1. r.method = "DELETE" /\ r.name = n /\ r.force = f
  BY DEF Drop
<1> HIDE DEF r
<1>2. f => Allowed(r)
  BY <1>1 DEF Allowed
<1>3. /\ Reply(r) \in {"ok", "notFound", "refused"}
      /\ Reply(r) = "notFound" <=> ~Exists(n)
      /\ Reply(r) = "refused" => ~f
  BY <1>1, <1>2 DEF Reply
<1>4. CASE Reply(r) # "ok"
  <2>1. After(r) = server
    BY <1>4, AfterRefused
  <2> QED
    BY <1>3, <1>4, <2>1 DEF r
<1>5. CASE Reply(r) = "ok"
  <2>1. After(r) = [server EXCEPT ![n] = Absent]
    BY <1>1, <1>5, AfterDrop
  <2>2. After(r)[n] = Absent /\ \A m \in Names \ {n} : After(r)[m] = server[m]
    BY <2>1
  <2> QED
    BY <1>3, <1>5, <2>2, AbsentType DEF r
<1> QED
  BY <1>4, <1>5

\* A PUT alters and moves an object in use, unless the new name is taken.
LEMMA Moved ==
  ASSUME server \in [Names -> Objects], NEW n \in Names, NEW k \in Names,
         NEW c \in Comments \cup {"keep"}
  PROVE  /\ Reply(Put(n, k, c)) =
              IF ~Exists(n) THEN "notFound"
              ELSE IF server[n].inUse /\ (k = n \/ ~Exists(k)) THEN "ok" ELSE "refused"
         /\ Reply(Put(n, k, c)) # "ok" => After(Put(n, k, c)) = server
         /\ Reply(Put(n, k, c)) = "ok" =>
              /\ After(Put(n, k, c))[k].exists
              /\ After(Put(n, k, c))[k].inUse
              /\ After(Put(n, k, c))[k].comment = IF c = "keep" THEN server[n].comment ELSE c
              /\ k # n => ~After(Put(n, k, c))[n].exists
         /\ \A m \in Names \ {n, k} : After(Put(n, k, c))[m] = server[m]
<1> DEFINE r == Put(n, k, c)
<1>1. r.method = "PUT" /\ r.name = n /\ r.to = k /\ r.comment = c
  BY DEF Put
<1> HIDE DEF r
<1>2. Allowed(r) <=> server[n].inUse /\ (k = n \/ ~Exists(k))
  BY <1>1 DEF Allowed
<1>3. Reply(r) = IF ~Exists(n) THEN "notFound"
                 ELSE IF server[n].inUse /\ (k = n \/ ~Exists(k)) THEN "ok" ELSE "refused"
  BY <1>1, <1>2 DEF Reply
<1>4. CASE Reply(r) # "ok"
  <2>1. After(r) = server
    BY <1>4, AfterRefused
  <2> QED
    BY <1>3, <1>4, <2>1 DEF r
<1>5. CASE Reply(r) = "ok"
  <2> DEFINE o == IF c = "keep" THEN server[n] ELSE [server[n] EXCEPT !.comment = c]
  <2>1. After(r) = [server EXCEPT ![n] = Absent, ![k] = o]
    BY <1>1, <1>5 DEF After
  <2>2. Exists(n) /\ server[n].inUse
    BY <1>3, <1>5
  <2>3. server[n] \in [exists : {TRUE}, comment : Comments, inUse : BOOLEAN,
                       nonEmpty : BOOLEAN]
    BY <2>2, ObjectFields DEF Exists
  <2>4. /\ o.exists /\ o.inUse = server[n].inUse
        /\ o.comment = IF c = "keep" THEN server[n].comment ELSE c
    BY <2>3
  <2> HIDE DEF o
  <2>5. After(r)[k] = o /\ (k # n => After(r)[n] = Absent)
    BY <2>1
  <2>6. \A m \in Names \ {n, k} : After(r)[m] = server[m]
    BY <2>1
  <2> QED
    BY <1>3, <1>5, <2>2, <2>4, <2>5, <2>6, AbsentType DEF r
<1> QED
  BY <1>4, <1>5

\* Faults are counted and never taken back.
LEMMA FaultsGrow ==
  ASSUME TypeOK, [Next]_vars, faults' = 0
  PROVE  faults = 0
<1>1. faults \in Nat
  BY BoundsAreNaturals DEF TypeOK
<1>2. ASSUME NEW r, NEW a, Answered(r, a)
      PROVE  faults' \in {faults, faults + 1}
  BY <1>2 DEF Answered, Prompt, Lost, Repeated, Overtaken, NotSent
<1>3. faults' \in {faults, faults + 1}
  <2>1. CASE Create
    BY <1>2, <2>1 DEF Create
  <2>2. CASE CreateDisabled
    BY <1>2, <2>2 DEF CreateDisabled
  <2>3. CASE Enable
    BY <1>2, <2>3 DEF Enable
  <2>4. CASE Update
    BY <1>2, <2>4 DEF Update
  <2>5. CASE Redisable
    BY <1>2, <2>5 DEF Redisable
  <2>6. CASE Disable
    BY <1>2, <2>6 DEF Disable
  <2>7. CASE DisableForDrop
    BY <1>2, <2>7 DEF DisableForDrop
  <2>8. CASE DropObject
    BY <1>2, <2>8 DEF DropObject
  <2>9. CASE Reenable
    BY <1>2, <2>9 DEF Reenable
  <2>10. CASE Refresh
    BY <2>10 DEF Refresh
  <2>11. CASE Plan
    BY <2>11 DEF Plan
  <2>12. CASE Save
    BY <2>12 DEF Save
  <2>13. CASE ImportState
    BY <2>13 DEF ImportState
  <2>14. CASE Configure
    BY <2>14 DEF Configure
  <2>15. CASE OutsideContent
    BY <2>15 DEF OutsideContent
  <2>16. CASE OutsideObject
    BY <2>16 DEF OutsideObject
  <2>17. CASE CarriedOutLate
    BY <2>17 DEF CarriedOutLate
  <2>18. CASE UNCHANGED vars
    BY <2>18 DEF vars
  <2> QED
    BY <2>1, <2>2, <2>3, <2>4, <2>5, <2>6, <2>7, <2>8, <2>9, <2>10, <2>11, <2>12, <2>13, <2>14, <2>15, <2>16, <2>17, <2>18 DEF Next
<1> QED
  BY <1>1, <1>3

\* What the configuration and the state say of the object.
LEMMA Described ==
  ASSUME TypeOK
  PROVE  /\ config.tracked => /\ config.name \in Names /\ config.comment \in Comments
                              /\ config.inUse \in BOOLEAN /\ config.force \in BOOLEAN
         /\ state.tracked => /\ state.name \in Names /\ state.comment \in Comments
                             /\ state.inUse \in BOOLEAN /\ state.force \in BOOLEAN
  BY ResourceFields DEF TypeOK

\* Every step whose calls are answered truthfully preserves it.
LEMMA QuietStep ==
  ASSUME Inv, QuietInv, [Next]_vars
  PROVE  QuietInv'
<1> SUFFICES ASSUME faults' = 0
             PROVE  /\ Truthful'
                    /\ HeldInv' /\ PresentInv' /\ CommentInv' /\ ServiceInv' /\ ReasonInv'
  BY DEF QuietInv
<1>0. /\ TypeOK /\ ControlInv /\ faults = 0 /\ Truthful
      /\ server \in [Names -> Objects]
      /\ HeldInv /\ PresentInv /\ CommentInv /\ ServiceInv /\ ReasonInv
  BY FaultsGrow DEF Inv, QuietInv, TypeOK
<1>t. /\ config.tracked => /\ config.name \in Names /\ config.comment \in Comments
                           /\ config.inUse \in BOOLEAN /\ config.force \in BOOLEAN
      /\ state.tracked => /\ state.name \in Names /\ state.comment \in Comments
                          /\ state.inUse \in BOOLEAN /\ state.force \in BOOLEAN
  BY <1>0, Described
<1>b. \A n \in Names : Exists(n) => server[n].inUse \in BOOLEAN
  <2> SUFFICES ASSUME NEW n \in Names, Exists(n) PROVE server[n].inUse \in BOOLEAN
    OBVIOUS
  <2>1. server[n] \in [exists : {TRUE}, comment : Comments, inUse : BOOLEAN, nonEmpty : BOOLEAN]
    BY <1>0, ObjectFields DEF Exists
  <2> QED
    BY <2>1
<1> USE DEF HeldInv, PresentInv, CommentInv, ServiceInv, ReasonInv, Applied, Restored,
            InUseChanged, TemporarilyEnabled, UpdatesPlanned, RenamePlanned, Held, Exists,
            ControlInv, End, Continue
<1>1. CASE Enable
  <2>1. PICK a \in Answers :
          /\ Answered(Patch(state.name, TRUE), a)
          /\ \/ a = "ok" /\ Continue(IF UpdatesPlanned THEN "put" ELSE "save")
             \/ a # "ok" /\ End("updateFailed", state)
    BY <1>1 DEF Enable
  <2>2. pc = "enable" /\ config' = config /\ outside' = outside
    BY <1>1 DEF Enable, environment
  <2>3. a = Reply(Patch(state.name, TRUE)) /\ server' = After(Patch(state.name, TRUE)) /\ Truthful'
    BY <1>0, <2>1, PromptCall DEF Truthful
  <2>4. /\ state.name \in Names
        /\ a = IF Exists(state.name) THEN "ok" ELSE "notFound"
        /\ ~Exists(state.name) => server' = server
        /\ Exists(state.name) => /\ server'[state.name].exists
                             /\ server'[state.name].inUse = TRUE
                             /\ server'[state.name].comment = server[state.name].comment
        /\ \A m \in Names \ {state.name} : server'[m] = server[m]
    <3>1. state.name \in Names
      BY <1>0, <1>t, <2>2
    <3> DEFINE r == Patch(state.name, TRUE)
    <3>2. /\ Reply(r) = IF Exists(state.name) THEN "ok" ELSE "notFound"
          /\ ~Exists(state.name) => After(r) = server
          /\ Exists(state.name) => /\ After(r)[state.name].exists
                               /\ After(r)[state.name].inUse = TRUE
                               /\ After(r)[state.name].comment = server[state.name].comment
          /\ \A m \in Names \ {state.name} : After(r)[m] = server[m]
      BY <1>0, <3>1, Patched
    <3> HIDE DEF r
    <3>3. a = Reply(r) /\ server' = After(r)
      BY <2>3 DEF r
    <3> QED
      BY <3>1, <3>2, <3>3
  <2>5. HeldInv'
    BY <1>0, <1>t, <2>1, <2>2, <2>4, NoneType
  <2>6. PresentInv'
    BY <1>0, <1>t, <2>1, <2>2, <2>4, NoneType
  <2>7. CommentInv'
    BY <1>0, <1>t, <2>1, <2>2, <2>4, NoneType
  <2>8. ServiceInv'
    BY <1>0, <1>t, <2>1, <2>2, <2>4, NoneType, <1>b
  <2>9. ReasonInv'
    BY <1>0, <1>t, <2>1, <2>2, <2>4, NoneType
  <2> QED
    BY <2>3, <2>5, <2>6, <2>7, <2>8, <2>9
<1>2. CASE CreateDisabled
  <2>1. PICK a \in Answers :
          /\ Answered(Patch(config.name, FALSE), a)
          /\ \/ a = "ok" /\ End("created", config)
             \/ a # "ok" /\ End("createFailed", None)
    BY <1>2 DEF CreateDisabled
  <2>2. pc = "createDisabled" /\ config' = config /\ outside' = outside
    BY <1>2 DEF CreateDisabled, environment
  <2>3. a = Reply(Patch(config.name, FALSE)) /\ server' = After(Patch(config.name, FALSE)) /\ Truthful'
    BY <1>0, <2>1, PromptCall DEF Truthful
  <2>4. /\ config.name \in Names
        /\ a = IF Exists(config.name) THEN "ok" ELSE "notFound"
        /\ ~Exists(config.name) => server' = server
        /\ Exists(config.name) => /\ server'[config.name].exists
                             /\ server'[config.name].inUse = FALSE
                             /\ server'[config.name].comment = server[config.name].comment
        /\ \A m \in Names \ {config.name} : server'[m] = server[m]
    <3>1. config.name \in Names
      BY <1>0, <1>t, <2>2
    <3> DEFINE r == Patch(config.name, FALSE)
    <3>2. /\ Reply(r) = IF Exists(config.name) THEN "ok" ELSE "notFound"
          /\ ~Exists(config.name) => After(r) = server
          /\ Exists(config.name) => /\ After(r)[config.name].exists
                               /\ After(r)[config.name].inUse = FALSE
                               /\ After(r)[config.name].comment = server[config.name].comment
          /\ \A m \in Names \ {config.name} : After(r)[m] = server[m]
      BY <1>0, <3>1, Patched
    <3> HIDE DEF r
    <3>3. a = Reply(r) /\ server' = After(r)
      BY <2>3 DEF r
    <3> QED
      BY <3>1, <3>2, <3>3
  <2>5. HeldInv'
    BY <1>0, <1>t, <2>1, <2>2, <2>4, NoneType
  <2>6. PresentInv'
    BY <1>0, <1>t, <2>1, <2>2, <2>4, NoneType
  <2>7. CommentInv'
    BY <1>0, <1>t, <2>1, <2>2, <2>4, NoneType
  <2>8. ServiceInv'
    BY <1>0, <1>t, <2>1, <2>2, <2>4, NoneType, <1>b
  <2>9. ReasonInv'
    BY <1>0, <1>t, <2>1, <2>2, <2>4, NoneType
  <2> QED
    BY <2>3, <2>5, <2>6, <2>7, <2>8, <2>9
<1>3. CASE Disable
  <2>1. PICK a \in Answers :
          /\ Answered(Patch(config.name, FALSE), a)
          /\ \/ a = "ok" /\ Continue("save")
             \/ a # "ok" /\ End("updateFailed", state)
    BY <1>3 DEF Disable
  <2>2. pc = "disable" /\ config' = config /\ outside' = outside
    BY <1>3 DEF Disable, environment
  <2>3. a = Reply(Patch(config.name, FALSE)) /\ server' = After(Patch(config.name, FALSE)) /\ Truthful'
    BY <1>0, <2>1, PromptCall DEF Truthful
  <2>4. /\ config.name \in Names
        /\ a = IF Exists(config.name) THEN "ok" ELSE "notFound"
        /\ ~Exists(config.name) => server' = server
        /\ Exists(config.name) => /\ server'[config.name].exists
                             /\ server'[config.name].inUse = FALSE
                             /\ server'[config.name].comment = server[config.name].comment
        /\ \A m \in Names \ {config.name} : server'[m] = server[m]
    <3>1. config.name \in Names
      BY <1>0, <1>t, <2>2
    <3> DEFINE r == Patch(config.name, FALSE)
    <3>2. /\ Reply(r) = IF Exists(config.name) THEN "ok" ELSE "notFound"
          /\ ~Exists(config.name) => After(r) = server
          /\ Exists(config.name) => /\ After(r)[config.name].exists
                               /\ After(r)[config.name].inUse = FALSE
                               /\ After(r)[config.name].comment = server[config.name].comment
          /\ \A m \in Names \ {config.name} : After(r)[m] = server[m]
      BY <1>0, <3>1, Patched
    <3> HIDE DEF r
    <3>3. a = Reply(r) /\ server' = After(r)
      BY <2>3 DEF r
    <3> QED
      BY <3>1, <3>2, <3>3
  <2>5. HeldInv'
    BY <1>0, <1>t, <2>1, <2>2, <2>4, NoneType
  <2>6. PresentInv'
    BY <1>0, <1>t, <2>1, <2>2, <2>4, NoneType
  <2>7. CommentInv'
    BY <1>0, <1>t, <2>1, <2>2, <2>4, NoneType
  <2>8. ServiceInv'
    BY <1>0, <1>t, <2>1, <2>2, <2>4, NoneType, <1>b
  <2>9. ReasonInv'
    BY <1>0, <1>t, <2>1, <2>2, <2>4, NoneType
  <2> QED
    BY <2>3, <2>5, <2>6, <2>7, <2>8, <2>9
<1>4. CASE Redisable
  <2>1. PICK a \in Answers :
          /\ Answered(Patch(state.name, FALSE), a)
          /\ End("updateFailed", state)
    BY <1>4 DEF Redisable
  <2>2. pc = "redisable" /\ config' = config /\ outside' = outside
    BY <1>4 DEF Redisable, environment
  <2>3. a = Reply(Patch(state.name, FALSE)) /\ server' = After(Patch(state.name, FALSE)) /\ Truthful'
    BY <1>0, <2>1, PromptCall DEF Truthful
  <2>4. /\ state.name \in Names
        /\ a = IF Exists(state.name) THEN "ok" ELSE "notFound"
        /\ ~Exists(state.name) => server' = server
        /\ Exists(state.name) => /\ server'[state.name].exists
                             /\ server'[state.name].inUse = FALSE
                             /\ server'[state.name].comment = server[state.name].comment
        /\ \A m \in Names \ {state.name} : server'[m] = server[m]
    <3>1. state.name \in Names
      BY <1>0, <1>t, <2>2
    <3> DEFINE r == Patch(state.name, FALSE)
    <3>2. /\ Reply(r) = IF Exists(state.name) THEN "ok" ELSE "notFound"
          /\ ~Exists(state.name) => After(r) = server
          /\ Exists(state.name) => /\ After(r)[state.name].exists
                               /\ After(r)[state.name].inUse = FALSE
                               /\ After(r)[state.name].comment = server[state.name].comment
          /\ \A m \in Names \ {state.name} : After(r)[m] = server[m]
      BY <1>0, <3>1, Patched
    <3> HIDE DEF r
    <3>3. a = Reply(r) /\ server' = After(r)
      BY <2>3 DEF r
    <3> QED
      BY <3>1, <3>2, <3>3
  <2>5. HeldInv'
    BY <1>0, <1>t, <2>1, <2>2, <2>4, NoneType
  <2>6. PresentInv'
    BY <1>0, <1>t, <2>1, <2>2, <2>4, NoneType
  <2>7. CommentInv'
    BY <1>0, <1>t, <2>1, <2>2, <2>4, NoneType
  <2>8. ServiceInv'
    BY <1>0, <1>t, <2>1, <2>2, <2>4, NoneType, <1>b
  <2>9. ReasonInv'
    BY <1>0, <1>t, <2>1, <2>2, <2>4, NoneType
  <2> QED
    BY <2>3, <2>5, <2>6, <2>7, <2>8, <2>9
<1>5. CASE Reenable
  <2>1. PICK a \in Answers :
          /\ Answered(Patch(state.name, TRUE), a)
          /\ pc' = "idle" /\ state' = state /\ result' = result
    BY <1>5 DEF Reenable
  <2>2. pc = "reenable" /\ config' = config /\ outside' = outside
    BY <1>5 DEF Reenable, environment
  <2>3. a = Reply(Patch(state.name, TRUE)) /\ server' = After(Patch(state.name, TRUE)) /\ Truthful'
    BY <1>0, <2>1, PromptCall DEF Truthful
  <2>4. /\ state.name \in Names
        /\ a = IF Exists(state.name) THEN "ok" ELSE "notFound"
        /\ ~Exists(state.name) => server' = server
        /\ Exists(state.name) => /\ server'[state.name].exists
                             /\ server'[state.name].inUse = TRUE
                             /\ server'[state.name].comment = server[state.name].comment
        /\ \A m \in Names \ {state.name} : server'[m] = server[m]
    <3>1. state.name \in Names
      BY <1>0, <1>t, <2>2
    <3> DEFINE r == Patch(state.name, TRUE)
    <3>2. /\ Reply(r) = IF Exists(state.name) THEN "ok" ELSE "notFound"
          /\ ~Exists(state.name) => After(r) = server
          /\ Exists(state.name) => /\ After(r)[state.name].exists
                               /\ After(r)[state.name].inUse = TRUE
                               /\ After(r)[state.name].comment = server[state.name].comment
          /\ \A m \in Names \ {state.name} : After(r)[m] = server[m]
      BY <1>0, <3>1, Patched
    <3> HIDE DEF r
    <3>3. a = Reply(r) /\ server' = After(r)
      BY <2>3 DEF r
    <3> QED
      BY <3>1, <3>2, <3>3
  <2>5. HeldInv'
    BY <1>0, <1>t, <2>1, <2>2, <2>4, NoneType
  <2>6. PresentInv'
    BY <1>0, <1>t, <2>1, <2>2, <2>4, NoneType
  <2>7. CommentInv'
    BY <1>0, <1>t, <2>1, <2>2, <2>4, NoneType
  <2>8. ServiceInv'
    BY <1>0, <1>t, <2>1, <2>2, <2>4, NoneType, <1>b
  <2>9. ReasonInv'
    BY <1>0, <1>t, <2>1, <2>2, <2>4, NoneType
  <2> QED
    BY <2>3, <2>5, <2>6, <2>7, <2>8, <2>9
<1>6. CASE DisableForDrop
  <2>1. PICK a \in Answers :
          /\ Answered(Patch(state.name, FALSE), a)
          /\ \/ a = "ok" /\ Continue("drop")
             \/ a = "notFound" /\ End("destroyed", None)
             \/ a \in {"refused", "error"} /\ End("destroyFailed", state)
    BY <1>6 DEF DisableForDrop
  <2>2. pc = "disableForDrop" /\ config' = config /\ outside' = outside
    BY <1>6 DEF DisableForDrop, environment
  <2>3. a = Reply(Patch(state.name, FALSE)) /\ server' = After(Patch(state.name, FALSE)) /\ Truthful'
    BY <1>0, <2>1, PromptCall DEF Truthful
  <2>4. /\ state.name \in Names
        /\ a = IF Exists(state.name) THEN "ok" ELSE "notFound"
        /\ ~Exists(state.name) => server' = server
        /\ Exists(state.name) => /\ server'[state.name].exists
                             /\ server'[state.name].inUse = FALSE
                             /\ server'[state.name].comment = server[state.name].comment
        /\ \A m \in Names \ {state.name} : server'[m] = server[m]
    <3>1. state.name \in Names
      BY <1>0, <1>t, <2>2
    <3> DEFINE r == Patch(state.name, FALSE)
    <3>2. /\ Reply(r) = IF Exists(state.name) THEN "ok" ELSE "notFound"
          /\ ~Exists(state.name) => After(r) = server
          /\ Exists(state.name) => /\ After(r)[state.name].exists
                               /\ After(r)[state.name].inUse = FALSE
                               /\ After(r)[state.name].comment = server[state.name].comment
          /\ \A m \in Names \ {state.name} : After(r)[m] = server[m]
      BY <1>0, <3>1, Patched
    <3> HIDE DEF r
    <3>3. a = Reply(r) /\ server' = After(r)
      BY <2>3 DEF r
    <3> QED
      BY <3>1, <3>2, <3>3
  <2>5. HeldInv'
    BY <1>0, <1>t, <2>1, <2>2, <2>4, NoneType
  <2>6. PresentInv'
    BY <1>0, <1>t, <2>1, <2>2, <2>4, NoneType
  <2>7. CommentInv'
    BY <1>0, <1>t, <2>1, <2>2, <2>4, NoneType
  <2>8. ServiceInv'
    BY <1>0, <1>t, <2>1, <2>2, <2>4, NoneType, <1>b
  <2>9. ReasonInv'
    BY <1>0, <1>t, <2>1, <2>2, <2>4, NoneType
  <2> QED
    BY <2>3, <2>5, <2>6, <2>7, <2>8, <2>9
<1>7. CASE Create
  <2>1. PICK a \in Answers :
          /\ Answered(Post(config.name, config.comment), a)
          /\ \/ a = "ok" /\ config.inUse /\ End("created", config)
             \/ a = "ok" /\ ~config.inUse /\ Continue("createDisabled")
             \/ a # "ok" /\ End("createFailed", None)
    BY <1>7 DEF Create
  <2>2. pc = "create" /\ config' = config /\ outside' = outside
    BY <1>7 DEF Create, environment
  <2>3. a = Reply(Post(config.name, config.comment)) /\ server' = After(Post(config.name, config.comment)) /\ Truthful'
    BY <1>0, <2>1, PromptCall DEF Truthful
  <2>4. /\ config.name \in Names
        /\ a = IF Exists(config.name) THEN "refused" ELSE "ok"
        /\ Exists(config.name) => server' = server
        /\ ~Exists(config.name) => /\ server'[config.name].exists
                                   /\ server'[config.name].inUse = TRUE
                                   /\ server'[config.name].comment = config.comment
        /\ \A m \in Names \ {config.name} : server'[m] = server[m]
    <3>1. config.name \in Names /\ config.comment \in Comments
      BY <1>0, <1>t, <2>2
    <3> DEFINE r == Post(config.name, config.comment)
    <3>2. /\ Reply(r) = IF Exists(config.name) THEN "refused" ELSE "ok"
          /\ Exists(config.name) => After(r) = server
          /\ ~Exists(config.name) => /\ After(r)[config.name].exists
                                     /\ After(r)[config.name].inUse = TRUE
                                     /\ After(r)[config.name].comment = config.comment
          /\ \A m \in Names \ {config.name} : After(r)[m] = server[m]
      BY <1>0, <3>1, Posted
    <3> HIDE DEF r
    <3>3. a = Reply(r) /\ server' = After(r)
      BY <2>3 DEF r
    <3> QED
      BY <3>1, <3>2, <3>3
  <2>5. HeldInv'
    BY <1>0, <1>t, <2>1, <2>2, <2>4, NoneType
  <2>6. PresentInv'
    BY <1>0, <1>t, <2>1, <2>2, <2>4, NoneType
  <2>7. CommentInv'
    BY <1>0, <1>t, <2>1, <2>2, <2>4, NoneType
  <2>8. ServiceInv'
    BY <1>0, <1>t, <2>1, <2>2, <2>4, NoneType, <1>b
  <2>9. ReasonInv'
    BY <1>0, <1>t, <2>1, <2>2, <2>4, NoneType
  <2> QED
    BY <2>3, <2>5, <2>6, <2>7, <2>8, <2>9
<1>8. CASE DropObject
  <2>1. PICK a \in Answers :
          /\ Answered(Drop(state.name, state.force), a)
          /\ \/ a \in {"ok", "notFound"} /\ End("destroyed", None)
             \/ /\ a \in {"refused", "error"}
                /\ pc' = IF ~state.force /\ state.inUse THEN "reenable" ELSE "idle"
                /\ result' = IF a = "refused" THEN "destroyRefused" ELSE "destroyFailed"
                /\ UNCHANGED state
    BY <1>8 DEF DropObject
  <2>2. pc = "drop" /\ config' = config /\ outside' = outside
    BY <1>8 DEF DropObject, environment
  <2>3. a = Reply(Drop(state.name, state.force)) /\ server' = After(Drop(state.name, state.force)) /\ Truthful'
    BY <1>0, <2>1, PromptCall DEF Truthful
  <2>4. /\ state.name \in Names
        /\ a \in {"ok", "notFound", "refused"}
        /\ a = "notFound" <=> ~Exists(state.name)
        /\ a = "refused" => ~state.force
        /\ a # "ok" => server' = server
        /\ a = "ok" => ~server'[state.name].exists
        /\ \A m \in Names \ {state.name} : server'[m] = server[m]
    <3>1. state.name \in Names /\ state.force \in BOOLEAN
      BY <1>0, <1>t, <2>2
    <3> QED
      BY <1>0, <2>3, <3>1, Dropped
  <2>5. HeldInv'
    BY <1>0, <1>t, <2>1, <2>2, <2>4, NoneType
  <2>6. PresentInv'
    BY <1>0, <1>t, <2>1, <2>2, <2>4, NoneType
  <2>7. CommentInv'
    BY <1>0, <1>t, <2>1, <2>2, <2>4, NoneType
  <2>8. ServiceInv'
    BY <1>0, <1>t, <2>1, <2>2, <2>4, NoneType, <1>b
  <2>9. ReasonInv'
    BY <1>0, <1>t, <2>1, <2>2, <2>4, NoneType
  <2> QED
    BY <2>3, <2>5, <2>6, <2>7, <2>8, <2>9
<1>9. CASE Update
  <2> DEFINE c == IF config.comment = state.comment THEN "keep" ELSE config.comment
             r == Put(state.name, config.name, c)
  <2>1. PICK a \in Answers :
          /\ Answered(r, a)
          /\ \/ a = "ok" /\ Continue(IF ~config.inUse THEN "disable" ELSE "save")
             \/ a # "ok" /\ TemporarilyEnabled /\ Continue("redisable")
             \/ a # "ok" /\ ~TemporarilyEnabled /\ End("updateFailed", state)
    BY <1>9 DEF Update
  <2>2. pc = "put" /\ config' = config /\ outside' = outside
    BY <1>9 DEF Update, environment
  <2> HIDE DEF r
  <2>3. a = Reply(r) /\ server' = After(r) /\ Truthful'
    BY <1>0, <2>1, PromptCall DEF Truthful
  <2>4. /\ state.name \in Names /\ config.name \in Names
        /\ a = IF ~Exists(state.name) THEN "notFound"
              ELSE IF /\ server[state.name].inUse
                      /\ config.name = state.name \/ ~Exists(config.name)
                   THEN "ok" ELSE "refused"
        /\ a # "ok" => server' = server
        /\ a = "ok" =>
             /\ server'[config.name].exists /\ server'[config.name].inUse
             /\ server'[config.name].comment =
                   IF config.comment = state.comment THEN server[state.name].comment
                   ELSE config.comment
             /\ config.name # state.name => ~server'[state.name].exists
        /\ \A m \in Names \ {state.name, config.name} : server'[m] = server[m]
    BY <1>0, <1>t, <2>2, <2>3, Moved, KeepAssumption DEF r
  <2>5. HeldInv'
    BY <1>0, <1>t, <2>1, <2>2, <2>4, NoneType
  <2>6. PresentInv'
    BY <1>0, <1>t, <2>1, <2>2, <2>4, NoneType
  <2>7. CommentInv'
    BY <1>0, <1>t, <2>1, <2>2, <2>4, NoneType
  <2>8. ServiceInv'
    BY <1>0, <1>t, <2>1, <2>2, <2>4, NoneType, <1>b
  <2>9. ReasonInv'
    BY <1>0, <1>t, <2>1, <2>2, <2>4, NoneType
  <2> QED
    BY <2>3, <2>5, <2>6, <2>7, <2>8, <2>9
<1>10. CASE Refresh
  <2>1. ASSUME state.tracked
        PROVE  LET s == [state EXCEPT !.comment = server[state.name].comment]
               IN  /\ s.tracked /\ s.name = state.name /\ s.inUse = state.inUse
                   /\ s.force = state.force /\ s.comment = server[state.name].comment
    <3>1. state \in [tracked : {TRUE}, name : Names, comment : Comments, inUse : BOOLEAN,
                    force : BOOLEAN]
      BY <1>0, <2>1, ResourceFields DEF TypeOK
    <3> QED
      BY <3>1
  <2>5. HeldInv'
    BY <1>0, <1>t, <1>10, <2>1, NoneType DEF Refresh, environment, Truthful
  <2>6. PresentInv'
    BY <1>0, <1>t, <1>10, <2>1, NoneType DEF Refresh, environment, Truthful
  <2>7. CommentInv'
    BY <1>0, <1>t, <1>10, <2>1, NoneType DEF Refresh, environment, Truthful
  <2>8. ServiceInv'
    BY <1>0, <1>t, <1>10, <2>1, NoneType DEF Refresh, environment, Truthful
  <2>9. ReasonInv'
    BY <1>0, <1>t, <1>10, NoneType DEF Refresh, environment, Truthful
  <2>10. Truthful'
    BY <1>0, <1>t, <1>10, NoneType DEF Refresh, environment, Truthful
  <2> QED
    BY <2>5, <2>6, <2>7, <2>8, <2>9, <2>10
<1>11. CASE Plan
  <2>5. HeldInv'
    BY <1>0, <1>t, <1>11 DEF Plan, environment, Truthful
  <2>6. PresentInv'
    BY <1>0, <1>t, <1>11 DEF Plan, environment, Truthful
  <2>7. CommentInv'
    BY <1>0, <1>t, <1>11 DEF Plan, environment, Truthful
  <2>8. ServiceInv'
    BY <1>0, <1>t, <1>11 DEF Plan, environment, Truthful
  <2>9. ReasonInv'
    BY <1>0, <1>t, <1>11 DEF Plan, environment, Truthful
  <2>10. Truthful'
    BY <1>0, <1>t, <1>11 DEF Plan, environment, Truthful
  <2> QED
    BY <2>5, <2>6, <2>7, <2>8, <2>9, <2>10
<1>12. CASE Save
  <2>5. HeldInv'
    BY <1>0, <1>t, <1>12 DEF Save, environment, Truthful
  <2>6. PresentInv'
    BY <1>0, <1>t, <1>12 DEF Save, environment, Truthful
  <2>7. CommentInv'
    BY <1>0, <1>t, <1>12 DEF Save, environment, Truthful
  <2>8. ServiceInv'
    BY <1>0, <1>t, <1>12 DEF Save, environment, Truthful
  <2>9. ReasonInv'
    BY <1>0, <1>t, <1>12 DEF Save, environment, Truthful
  <2>10. Truthful'
    BY <1>0, <1>t, <1>12 DEF Save, environment, Truthful
  <2> QED
    BY <2>5, <2>6, <2>7, <2>8, <2>9, <2>10
<1>13. CASE ImportState
  <2>1. /\ pc = "idle" /\ ~state.tracked /\ pc' = pc /\ server' = server /\ config' = config
        /\ outside' = outside /\ ctx' = ctx /\ late' = late /\ result' = "imported"
        /\ state'.tracked /\ state'.name \in Names /\ Exists(state'.name)
    BY <1>13 DEF ImportState, Resource, environment
  <2>5. HeldInv'
    BY <1>0, <1>t, <1>13, <2>1 DEF environment, Truthful
  <2>6. PresentInv'
    BY <1>0, <1>t, <1>13, <2>1 DEF environment, Truthful
  <2>7. CommentInv'
    BY <1>0, <1>t, <1>13, <2>1 DEF environment, Truthful
  <2>8. ServiceInv'
    BY <1>0, <1>t, <1>13, <2>1 DEF environment, Truthful
  <2>9. ReasonInv'
    BY <1>0, <1>t, <1>13, <2>1 DEF environment, Truthful
  <2>10. Truthful'
    BY <1>0, <1>t, <1>13, <2>1 DEF environment, Truthful
  <2> QED
    BY <2>5, <2>6, <2>7, <2>8, <2>9, <2>10
<1>14. CASE Configure
  <2>5. HeldInv'
    BY <1>0, <1>t, <1>14 DEF Configure, Truthful
  <2>6. PresentInv'
    BY <1>0, <1>t, <1>14 DEF Configure, Truthful
  <2>7. CommentInv'
    BY <1>0, <1>t, <1>14 DEF Configure, Truthful
  <2>8. ServiceInv'
    BY <1>0, <1>t, <1>14 DEF Configure, Truthful
  <2>9. ReasonInv'
    BY <1>0, <1>t, <1>14 DEF Configure, Truthful
  <2>10. Truthful'
    BY <1>0, <1>t, <1>14 DEF Configure, Truthful
  <2> QED
    BY <2>5, <2>6, <2>7, <2>8, <2>9, <2>10
<1>15. CASE OutsideContent
  <2>1. \A n \in Names : /\ server'[n].exists <=> Exists(n)
                         /\ Exists(n) => /\ server'[n].inUse = server[n].inUse
                                          /\ server'[n].comment = server[n].comment
    <3>1. PICK k \in Names : Exists(k) /\ server' = [server EXCEPT ![k].nonEmpty = ~@]
      BY <1>15 DEF OutsideContent
    <3>2. server[k] \in [exists : {TRUE}, comment : Comments, inUse : BOOLEAN, nonEmpty : BOOLEAN]
      BY <1>0, <3>1, ObjectFields DEF Exists
    <3>3. server'[k] = [server[k] EXCEPT !.nonEmpty = ~@]
      BY <1>0, <3>1
    <3>4. /\ server'[k].exists /\ server'[k].inUse = server[k].inUse
          /\ server'[k].comment = server[k].comment
      BY <3>2, <3>3
    <3>5. \A n \in Names \ {k} : server'[n] = server[n]
      BY <1>0, <3>1
    <3> QED
      BY <3>1, <3>4, <3>5
  <2>5. HeldInv'
    BY <1>0, <1>t, <1>15, <2>1 DEF OutsideContent, environment, Truthful
  <2>6. PresentInv'
    BY <1>0, <1>t, <1>15, <2>1 DEF OutsideContent, environment, Truthful
  <2>7. CommentInv'
    BY <1>0, <1>t, <1>15, <2>1 DEF OutsideContent, environment, Truthful
  <2>8. ServiceInv'
    BY <1>0, <1>t, <1>15, <2>1 DEF OutsideContent, environment, Truthful
  <2>9. ReasonInv'
    BY <1>0, <1>t, <1>15, <2>1 DEF OutsideContent, environment, Truthful
  <2>10. Truthful'
    BY <1>0, <1>t, <1>15, <2>1 DEF OutsideContent, environment, Truthful
  <2> QED
    BY <2>5, <2>6, <2>7, <2>8, <2>9, <2>10
<1>16. CASE OutsideObject
  <2>1. PICK k \in OutsideNames \ outside :
          /\ outside' = outside \cup {k}
          /\ \/ Exists(k) /\ server' = [server EXCEPT ![k] = Absent]
             \/ /\ ~Exists(k)
                /\ \E c \in Comments : server' = [server EXCEPT ![k] = Object(c, TRUE, FALSE)]
    BY <1>16 DEF OutsideObject
  <2>2. /\ \A m \in Names \ {k} : server'[m] = server[m]
        /\ k \in Names => (server'[k].exists <=> ~Exists(k))
        /\ state' = state /\ config' = config /\ pc' = pc /\ result' = result
        /\ ctx' = ctx /\ late' = late
    <3>1. \A m \in Names \ {k} : server'[m] = server[m]
      BY <1>0, <2>1
    <3>2. ASSUME k \in Names PROVE server'[k].exists <=> ~Exists(k)
      <4>1. CASE Exists(k) /\ server' = [server EXCEPT ![k] = Absent]
        <5>1. server'[k] = Absent
          BY <1>0, <3>2, <4>1
        <5> QED
          BY <4>1, <5>1, AbsentType
      <4>2. ASSUME ~Exists(k),
                   NEW c \in Comments, server' = [server EXCEPT ![k] = Object(c, TRUE, FALSE)]
            PROVE  server'[k].exists
        <5>1. server'[k] = Object(c, TRUE, FALSE)
          BY <1>0, <3>2, <4>2
        <5> QED
          BY <5>1, ObjectType
      <4> QED
        BY <2>1, <4>1, <4>2
    <3> QED
      BY <1>16, <3>1, <3>2 DEF OutsideObject
  <2>5. HeldInv'
    BY <1>0, <1>t, <1>16, <2>1, <2>2 DEF Truthful
  <2>6. PresentInv'
    BY <1>0, <1>t, <1>16, <2>1, <2>2 DEF Truthful
  <2>7. CommentInv'
    BY <1>0, <1>t, <1>16, <2>1, <2>2 DEF Truthful
  <2>8. ServiceInv'
    BY <1>0, <1>t, <1>16, <2>1, <2>2 DEF Truthful
  <2>9. ReasonInv'
    BY <1>0, <1>t, <1>16, <2>1, <2>2 DEF Truthful
  <2>10. Truthful'
    BY <1>0, <1>t, <1>16, <2>1, <2>2 DEF Truthful
  <2> QED
    BY <2>5, <2>6, <2>7, <2>8, <2>9, <2>10
<1>17. CASE CarriedOutLate
  <2>5. HeldInv'
    BY <1>0, <1>t, <1>17 DEF CarriedOutLate, Truthful
  <2>6. PresentInv'
    BY <1>0, <1>t, <1>17 DEF CarriedOutLate, Truthful
  <2>7. CommentInv'
    BY <1>0, <1>t, <1>17 DEF CarriedOutLate, Truthful
  <2>8. ServiceInv'
    BY <1>0, <1>t, <1>17 DEF CarriedOutLate, Truthful
  <2>9. ReasonInv'
    BY <1>0, <1>t, <1>17 DEF CarriedOutLate, Truthful
  <2>10. Truthful'
    BY <1>0, <1>t, <1>17 DEF CarriedOutLate, Truthful
  <2> QED
    BY <2>5, <2>6, <2>7, <2>8, <2>9, <2>10
<1>18. CASE UNCHANGED vars
  <2>5. HeldInv'
    BY <1>0, <1>t, <1>18 DEF vars, Truthful
  <2>6. PresentInv'
    BY <1>0, <1>t, <1>18 DEF vars, Truthful
  <2>7. CommentInv'
    BY <1>0, <1>t, <1>18 DEF vars, Truthful
  <2>8. ServiceInv'
    BY <1>0, <1>t, <1>18 DEF vars, Truthful
  <2>9. ReasonInv'
    BY <1>0, <1>t, <1>18 DEF vars, Truthful
  <2>10. Truthful'
    BY <1>0, <1>t, <1>18 DEF vars, Truthful
  <2> QED
    BY <2>5, <2>6, <2>7, <2>8, <2>9, <2>10
<1> QED
  BY <1>1, <1>2, <1>3, <1>4, <1>5, <1>6, <1>7, <1>8, <1>9, <1>10, <1>11, <1>12, <1>13, <1>14, <1>15, <1>16, <1>17, <1>18 DEF Next

\* The strengthening for truthful answers is inductive.
THEOREM QuietAlways == Spec => []QuietInv
<1>1. Init => QuietInv
  <2> SUFFICES ASSUME Init PROVE QuietInv
    OBVIOUS
  <2>1. \A n \in Names : ~Exists(n)
    BY AbsentType DEF Init, Exists
  <2> QED
    BY <2>1, NoneType DEF Init, QuietInv, Truthful, HeldInv, PresentInv, CommentInv,
       ServiceInv, ReasonInv, Applied, Held
<1> QED
  BY <1>1, QuietStep, TypeAndControl, PTL DEF Spec

\* An object that state reports in use is in service between operations, through
\* every disable and restore of refused updates and destroys.
THEOREM RecordedMeansInService == Spec => []InServiceAsRecorded
<1>1. QuietInv => InServiceAsRecorded
  BY DEF QuietInv, ServiceInv, Restored, Held, InServiceAsRecorded
<1> QED
  BY <1>1, QuietAlways, PTL

\* An update that fails and a destroy that is refused leave the object in service
\* exactly if state records it in use, unless the update was asked to enable.
THEOREM FailuresLeaveService == Spec => FailedLeavesService
<1>1. Inv /\ QuietInv /\ [Next]_vars =>
        [/\ pc # "idle" /\ pc' = "idle" /\ faults' = 0
         /\ result' \in {"updateFailed", "destroyRefused"}
         /\ state.name \notin outside /\ server'[state.name].exists
         /\ config.tracked /\ config.inUse => state.inUse
         => server'[state.name].inUse = state.inUse]_vars
  <2> SUFFICES ASSUME Inv, QuietInv, [Next]_vars,
                      pc # "idle", pc' = "idle", faults' = 0,
                      result' \in {"updateFailed", "destroyRefused"},
                      state.name \notin outside, server'[state.name].exists,
                      config.tracked /\ config.inUse => state.inUse
               PROVE  server'[state.name].inUse = state.inUse
    OBVIOUS
  <2>0. /\ TypeOK /\ ControlInv /\ faults = 0 /\ ctx = "live" /\ late = {}
        /\ server \in [Names -> Objects]
        /\ HeldInv /\ ServiceInv /\ ReasonInv
    BY FaultsGrow DEF Inv, QuietInv, Truthful, TypeOK
  <2>t. /\ config.tracked => config.name \in Names /\ config.inUse \in BOOLEAN
        /\ state.tracked => state.name \in Names /\ state.inUse \in BOOLEAN
    BY <2>0, Described
  <2>b. ASSUME NEW n \in Names, server[n].exists PROVE server[n].inUse \in BOOLEAN
    <3>1. server[n] \in [exists : {TRUE}, comment : Comments, inUse : BOOLEAN, nonEmpty : BOOLEAN]
      BY <2>0, <2>b, ObjectFields
    <3> QED
      BY <3>1
  \* A PATCH that ends a handler has found the object, which then is as it says.
  <2>p. ASSUME NEW u \in BOOLEAN, NEW a, state.tracked, Answered(Patch(state.name, u), a)
        PROVE  a = "ok" /\ server'[state.name].inUse = u
    <3> DEFINE r == Patch(state.name, u)
    <3>1. a = Reply(r) /\ server' = After(r)
      BY <2>0, <2>p, PromptCall
    <3>2. /\ Reply(r) = IF Exists(state.name) THEN "ok" ELSE "notFound"
          /\ ~Exists(state.name) => After(r) = server
          /\ Exists(state.name) => After(r)[state.name].inUse = u
      BY <2>0, <2>t, <2>p, Patched
    <3> HIDE DEF r
    <3> QED
      BY <3>1, <3>2 DEF Exists
  <2>1. CASE Enable
    <3>1. state.tracked /\ pc = "enable"
      BY <2>0, <2>1 DEF Enable, ControlInv
    <3> QED
      BY <2>1, <2>p, <3>1 DEF Enable, Continue
  <2>2. CASE Redisable
    <3>1. state.tracked /\ ~state.inUse
      BY <2>0, <2>2 DEF Redisable, ControlInv, ReasonInv
    <3> QED
      BY <2>2, <2>p, <2>t, <3>1 DEF Redisable
  <2>3. CASE Reenable
    <3>1. state.tracked /\ state.inUse
      BY <2>0, <2>3 DEF Reenable, ControlInv, ReasonInv
    <3> QED
      BY <2>3, <2>p, <2>t, <3>1 DEF Reenable
  \* A disabling PATCH fails for an object that is not there; it would be the one held.
  <2>4. CASE Disable
    <3> DEFINE r == Patch(config.name, FALSE)
    <3>1. /\ pc = "disable" /\ state.tracked /\ config.tracked
          /\ \E a \in Answers : Answered(r, a) /\ a # "ok"
      BY <2>0, <2>4 DEF Disable, ControlInv, Continue
    <3>2. PICK a \in Answers : Answered(r, a) /\ a # "ok"
      BY <3>1
    <3>3. a = Reply(r) /\ server' = After(r)
      BY <2>0, <3>2, PromptCall
    <3>4. /\ Reply(r) = IF Exists(config.name) THEN "ok" ELSE "notFound"
          /\ ~Exists(config.name) => After(r) = server
      BY <2>0, <2>t, <3>1, Patched
    <3> HIDE DEF r
    <3>5. ~Exists(config.name) /\ server' = server
      BY <3>2, <3>3, <3>4
    <3>6. config.name = state.name
      BY <2>0, <2>t, <3>1, <3>5 DEF HeldInv, Held, Exists
    <3> QED
      BY <3>5, <3>6 DEF Exists
  <2>5. CASE Update
    <3> DEFINE c == IF config.comment = state.comment THEN "keep" ELSE config.comment
               r == Put(state.name, config.name, c)
    <3>1. /\ pc = "put" /\ state.tracked /\ config.tracked /\ ~TemporarilyEnabled
          /\ \E a \in Answers : Answered(r, a) /\ a # "ok"
      BY <2>0, <2>5 DEF Update, ControlInv, Continue
    <3>2. PICK a \in Answers : Answered(r, a) /\ a # "ok"
      BY <3>1
    <3>3. a = Reply(r) /\ server' = After(r)
      BY <2>0, <3>2, PromptCall
    <3> HIDE DEF r
    <3>4. server' = server
      BY <3>2, <3>3, AfterRefused
    <3>5. server[state.name].inUse
      BY <2>0, <2>t, <3>1, <3>4 DEF ServiceInv, ReasonInv, Held, Restored, Exists,
         TemporarilyEnabled, InUseChanged
    <3>6. state.inUse
      BY <2>0, <2>t, <3>1 DEF ReasonInv, TemporarilyEnabled, InUseChanged
    <3> QED
      BY <2>b, <2>t, <3>1, <3>4, <3>5, <3>6
  <2>6. CASE DropObject
    <3> DEFINE r == Drop(state.name, state.force)
    <3>1. /\ pc = "drop" /\ state.tracked
          /\ Answered(r, "refused") /\ (state.force \/ ~state.inUse)
      BY <2>0, <2>6 DEF DropObject, ControlInv, End
    <3>2. Reply(r) = "refused" /\ server' = After(r)
      BY <2>0, <3>1, PromptCall
    <3>3. state.force \in BOOLEAN
      BY <2>0, <3>1, Described
    <3>4. ~state.force /\ server' = server
      BY <2>0, <2>t, <3>1, <3>2, <3>3, Dropped
    <3>5. ~server[state.name].inUse
      BY <2>0, <2>t, <3>1, <3>4 DEF ServiceInv, Held, Exists
    <3> QED
      BY <2>b, <2>t, <3>1, <3>4, <3>5
  <2>7. CASE Create \/ CreateDisabled \/ Save \/ DisableForDrop \/ Plan
    BY <2>7 DEF Create, CreateDisabled, Save, DisableForDrop, Plan, End, Continue
  <2>8. CASE \/ Refresh \/ ImportState \/ Configure \/ OutsideContent
             \/ OutsideObject \/ CarriedOutLate \/ UNCHANGED vars
    BY <2>8 DEF Refresh, ImportState, Configure, OutsideContent, OutsideObject,
       CarriedOutLate, vars
  <2> QED
    BY <2>1, <2>2, <2>3, <2>4, <2>5, <2>6, <2>7, <2>8 DEF Next
<1> QED
  BY <1>1, TypeAndControl, QuietAlways, PTL DEF Spec, FailedLeavesService

\* An apply that reports success leaves the object as configured, whatever mix of
\* rename, alteration and in_use it made.
THEOREM AppliesConverge == Spec => []AppliedMeansConverged
<1>1. Inv /\ QuietInv => AppliedMeansConverged
  <2> SUFFICES ASSUME TypeOK, QuietInv, faults = 0, pc = "idle",
                      result \in {"created", "updated"}, config = state,
                      config.name \notin outside
               PROVE  /\ Exists(config.name)
                      /\ server[config.name].comment = config.comment
                      /\ config.inUse => server[config.name].inUse
                      /\ outside = {} => server[config.name].inUse = config.inUse
    BY DEF Inv, AppliedMeansConverged
  <2> QED
    BY DEF QuietInv, PresentInv, CommentInv, ServiceInv, ReasonInv, Restored, Applied, Held
<1> QED
  BY <1>1, TypeAndControl, QuietAlways, PTL

\* No operation loses an object, failed or not: between operations the server has none
\* but the one state tracks.
THEOREM NothingIsOrphaned == Spec => []NothingOrphaned
<1>1. QuietInv => NothingOrphaned
  BY DEF QuietInv, HeldInv, Held, NothingOrphaned
<1> QED
  BY <1>1, QuietAlways, PTL
=============================================================================
