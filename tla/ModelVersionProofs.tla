------------------------- MODULE ModelVersionProofs -------------------------
(***************************************************************************)
(* Theorems about ModelVersion for every number of resources, artifacts,   *)
(* versions and faults.  Under Serial, which is what depends_on between    *)
(* the versions of a model gives, and with nobody else linking versions,   *)
(* every resource manages versions of its own only, whatever calls fail.   *)
(* Without either, a create never records one that is older than its own.  *)
(***************************************************************************)
EXTENDS ModelVersion, TLAPS

Labels == {"idle", "link", "list", "get", "update", "delete"}

\* newestModelVersion requests a version only once it has settled on a number.
FoundInv == \A r \in Resources : pc[r] = "get" => found[r] \in Numbers

\* The type invariant holds initially.
LEMMA InitTypeOK == Init => TypeOK
  <1> SUFFICES ASSUME Init PROVE TypeOK OBVIOUS
  <1>1. next \in 0 .. MaxVersions BY BoundAssumption DEF Init
  <1>2. /\ faults \in 0 .. MaxFaults /\ changes \in 0 .. MaxChanges
        /\ outside \in 0 .. MaxOutside
    BY BoundAssumption DEF Init
  <1> QED BY <1>1, <1>2 DEF Init, TypeOK

\* What the helpers of the actions keep of the type invariant.
LEMMA HelpersKeepTypes ==
  ASSUME TypeOK, NEW r \in Resources
  PROVE  /\ \A l \in Labels : GoTo(r, l) => pc' \in [Resources -> Labels]
         /\ \A n \in Numbers \cup {NoVersion}, t \in BOOLEAN :
              Keep(r, n, t) =>
                /\ version' \in [Resources -> Numbers \cup {NoVersion}]
                /\ tainted' \in [Resources -> BOOLEAN]
         /\ Fault(r) => /\ faults' \in 0 .. MaxFaults
                        /\ pc' \in [Resources -> Labels]
         /\ \A who \in Resources \cup {Someone}, u \in URIs \cup {NoURI} :
              Link(who, u) => /\ uri' \in [Numbers -> URIs \cup {NoURI}]
                              /\ next' \in 0 .. MaxVersions
                              /\ linkedBy' \in [Numbers -> Resources \cup {Someone}]
  <1>1. \A l \in Labels : GoTo(r, l) => pc' \in [Resources -> Labels]
    BY DEF TypeOK, GoTo, Labels
  <1>2. \A n \in Numbers \cup {NoVersion}, t \in BOOLEAN :
          Keep(r, n, t) => /\ version' \in [Resources -> Numbers \cup {NoVersion}]
                           /\ tainted' \in [Resources -> BOOLEAN]
    BY DEF TypeOK, Keep
  <1>3. Fault(r) => faults' \in 0 .. MaxFaults /\ pc' \in [Resources -> Labels]
    BY BoundAssumption, <1>1 DEF TypeOK, Fault, Labels
  <1>4. ASSUME NEW who \in Resources \cup {Someone},
               NEW u \in URIs \cup {NoURI}, Link(who, u)
        PROVE  /\ uri' \in [Numbers -> URIs \cup {NoURI}]
               /\ next' \in 0 .. MaxVersions
               /\ linkedBy' \in [Numbers -> Resources \cup {Someone}]
    <2>1. next \in Numbers BY <1>4, BoundAssumption DEF TypeOK, Link, Numbers
    <2>2. next' \in 0 .. MaxVersions
      BY <1>4, BoundAssumption DEF TypeOK, Link
    <2> QED BY <1>4, <2>1, <2>2 DEF TypeOK, Link
  <1> QED BY <1>1, <1>2, <1>3, <1>4

\* Recording a version that is there keeps the types of the state.
LEMMA RecordKeepsTypes ==
  ASSUME TypeOK, NEW r \in Resources, NEW n \in Numbers, Record(r, n)
  PROVE  /\ version' \in [Resources -> Numbers \cup {NoVersion}]
         /\ tainted' \in [Resources -> BOOLEAN]
  <1>1. \E t \in BOOLEAN : Keep(r, n, t) BY DEF Record
  <1> QED BY <1>1, HelpersKeepTypes

\* Every step keeps the type invariant.
LEMMA NextTypeOK == TypeOK /\ FoundInv /\ [Next]_vars => TypeOK'
  <1> SUFFICES ASSUME TypeOK, FoundInv, [Next]_vars PROVE TypeOK' OBVIOUS
  <1>1. ASSUME NEW r \in Resources, Begin(r) PROVE TypeOK'
    <2>1. pc' \in [Resources -> Labels]
      BY <1>1, HelpersKeepTypes DEF Begin, Labels, TypeOK
    <2>2. /\ version' \in [Resources -> Numbers \cup {NoVersion}]
          /\ tainted' \in [Resources -> BOOLEAN]
      BY <1>1, HelpersKeepTypes DEF Begin, Forget, state, TypeOK
    <2> QED BY <1>1, <2>1, <2>2 DEF Begin, server, bounds, Labels, TypeOK
  <1>2. ASSUME NEW r \in Resources, LinkModelVersion(r) PROVE TypeOK'
    <2>1. config[r] \in URIs \cup {NoURI} BY DEF TypeOK
    <2>2. /\ pc' \in [Resources -> Labels] /\ faults' \in 0 .. MaxFaults
      BY <1>2, HelpersKeepTypes DEF LinkModelVersion, Labels, TypeOK
    <2>3. Link(r, config[r]) \/ UNCHANGED server
      BY <1>2 DEF LinkModelVersion
    <2>4. /\ uri' \in [Numbers -> URIs \cup {NoURI}]
          /\ next' \in 0 .. MaxVersions
          /\ linkedBy' \in [Numbers -> Resources \cup {Someone}]
      BY <2>1, <2>3, HelpersKeepTypes DEF server, TypeOK
    <2>5. UNCHANGED <<state, found, config, changes, outside>>
      BY <1>2 DEF LinkModelVersion, Fault
    <2> QED BY <2>2, <2>4, <2>5 DEF state, Labels, TypeOK
  <1>3. ASSUME NEW r \in Resources, ListModelVersions(r) PROVE TypeOK'
    <2>1. pc' \in [Resources -> Labels] /\ faults' \in 0 .. MaxFaults
      BY <1>3, HelpersKeepTypes DEF ListModelVersions, Labels, TypeOK
    <2>2. /\ version' \in [Resources -> Numbers \cup {NoVersion}]
          /\ tainted' \in [Resources -> BOOLEAN]
      BY <1>3, RecordKeepsTypes DEF ListModelVersions, Fault, state, TypeOK
    <2>3. found' \in [Resources -> Numbers \cup {NoVersion}]
      BY <1>3 DEF ListModelVersions, Fault, TypeOK
    <2> QED BY <1>3, <2>1, <2>2, <2>3
            DEF ListModelVersions, server, Labels, TypeOK
  <1>4. ASSUME NEW r \in Resources, GetModelVersion(r) PROVE TypeOK'
    <2>1. /\ pc' \in [Resources -> Labels] /\ faults' \in 0 .. MaxFaults
          /\ UNCHANGED found
      BY <1>4, HelpersKeepTypes DEF GetModelVersion, Fault, Labels, TypeOK
    <2>2. CASE /\ Linked(found[r]) /\ Record(r, found[r])
      <3>1. found[r] \in Numbers
        BY <1>4 DEF GetModelVersion, FoundInv
      <3> QED BY <1>4, <2>1, <2>2, <3>1, RecordKeepsTypes
              DEF GetModelVersion, server, Labels, TypeOK
    <2>3. CASE UNCHANGED state
      BY <1>4, <2>1, <2>3 DEF GetModelVersion, server, state, Labels, TypeOK
    <2> QED BY <1>4, <2>2, <2>3 DEF GetModelVersion, Fault
  <1>5. ASSUME NEW r \in Resources, UpdateModelVersion(r) PROVE TypeOK'
    <2>1. /\ pc' \in [Resources -> Labels] /\ faults' \in 0 .. MaxFaults
          /\ UNCHANGED found
      BY <1>5, HelpersKeepTypes DEF UpdateModelVersion, Fault, Labels, TypeOK
    <2>2. /\ version' \in [Resources -> Numbers \cup {NoVersion}]
          /\ tainted' \in [Resources -> BOOLEAN]
      <3>1. version[r] \in Numbers \cup {NoVersion} BY DEF TypeOK
      <3> QED BY <1>5, <3>1, HelpersKeepTypes
              DEF UpdateModelVersion, Fault, state, TypeOK
    <2>3. uri' \in [Numbers -> URIs \cup {NoURI}]
      BY <1>5 DEF UpdateModelVersion, TypeOK
    <2> QED BY <1>5, <2>1, <2>2, <2>3 DEF UpdateModelVersion, Labels, TypeOK
  <1>6. ASSUME NEW r \in Resources, DeleteModelVersion(r) PROVE TypeOK'
    <2>1. /\ pc' \in [Resources -> Labels] /\ faults' \in 0 .. MaxFaults
          /\ UNCHANGED found
      BY <1>6, HelpersKeepTypes DEF DeleteModelVersion, Fault, Labels, TypeOK
    <2>2. /\ version' \in [Resources -> Numbers \cup {NoVersion}]
          /\ tainted' \in [Resources -> BOOLEAN]
      BY <1>6, HelpersKeepTypes
         DEF DeleteModelVersion, Forget, Fault, state, TypeOK
    <2>3. uri' \in [Numbers -> URIs \cup {NoURI}]
      BY <1>6 DEF DeleteModelVersion, TypeOK
    <2> QED BY <1>6, <2>1, <2>2, <2>3 DEF DeleteModelVersion, Labels, TypeOK
  <1>7. ASSUME NEW r \in Resources, ImportState(r) PROVE TypeOK'
    <2>1. outside' \in 0 .. MaxOutside
      BY <1>7, BoundAssumption DEF ImportState, TypeOK
    <2> QED BY <1>7, <2>1, HelpersKeepTypes DEF ImportState, server, TypeOK
  <1>8. CASE Configure
    BY <1>8, BoundAssumption DEF Configure, server, state, TypeOK
  <1>9. CASE OutsideLink
    <2>1. outside' \in 0 .. MaxOutside
      BY <1>9, BoundAssumption DEF OutsideLink, TypeOK
    <2>2. PICK u \in URIs : Link(Someone, u) BY <1>9 DEF OutsideLink
    <2>3. next \in Numbers BY <2>2, BoundAssumption DEF TypeOK, Link, Numbers
    <2>4. next' \in 0 .. MaxVersions BY <2>2, BoundAssumption DEF TypeOK, Link
    <2> QED BY <1>9, <2>1, <2>2, <2>3, <2>4
            DEF OutsideLink, Link, state, TypeOK
  <1>10. CASE UNCHANGED vars
    BY <1>10 DEF vars, server, state, bounds, TypeOK
  <1> QED BY <1>1, <1>2, <1>3, <1>4, <1>5, <1>6, <1>7, <1>8, <1>9, <1>10
          DEF Next

\* Every step keeps FoundInv.
LEMMA NextFoundInv == TypeOK /\ FoundInv /\ [Next]_vars => FoundInv'
  <1> SUFFICES ASSUME TypeOK, FoundInv, [Next]_vars,
                      NEW q \in Resources, pc'[q] = "get"
               PROVE  found'[q] \in Numbers
    BY DEF FoundInv
  <1> USE DEF TypeOK, FoundInv
  <1>1. ASSUME NEW r \in Resources, ListModelVersions(r)
        PROVE  found'[q] \in Numbers
    <2>1. CASE pc' = [pc EXCEPT ![r] = "idle"] /\ UNCHANGED found
      BY <2>1
    <2>2. CASE /\ pc' = [pc EXCEPT ![r] = "get"]
               /\ \E n \in Numbers : found' = [found EXCEPT ![r] = n]
      BY <2>2
    <2> QED BY <1>1, <2>1, <2>2 DEF ListModelVersions, Fault, GoTo
  <1>2. ASSUME NEW r \in Resources, NEW l \in Labels \ {"get"}, GoTo(r, l),
               UNCHANGED found
        PROVE  found'[q] \in Numbers
    BY <1>2 DEF GoTo
  <1>3. ASSUME UNCHANGED <<pc, found>> PROVE found'[q] \in Numbers
    BY <1>3
  <1>4. ASSUME NEW r \in Resources, Begin(r) PROVE found'[q] \in Numbers
    BY <1>2, <1>3, <1>4 DEF Begin, Labels
  <1>5. ASSUME NEW r \in Resources, LinkModelVersion(r)
        PROVE  found'[q] \in Numbers
    <2>1. CASE GoTo(r, "list") /\ UNCHANGED found BY <1>2, <2>1 DEF Labels
    <2>2. CASE Fault(r) BY <1>2, <2>2 DEF Fault, Labels
    <2> QED BY <1>5, <2>1, <2>2 DEF LinkModelVersion
  <1>6. ASSUME NEW r \in Resources,
               GetModelVersion(r) \/ UpdateModelVersion(r)
                 \/ DeleteModelVersion(r)
        PROVE  found'[q] \in Numbers
    <2>1. GoTo(r, "idle") /\ UNCHANGED found
      BY <1>6 DEF GetModelVersion, UpdateModelVersion, DeleteModelVersion, Fault
    <2> QED BY <1>2, <2>1 DEF Labels
  <1>7. CASE \E r \in Resources : ImportState(r)
    BY <1>3, <1>7 DEF ImportState
  <1>8. CASE Configure \/ OutsideLink \/ UNCHANGED vars
    BY <1>3, <1>8 DEF Configure, OutsideLink, vars
  <1> QED BY <1>1, <1>4, <1>5, <1>6, <1>7, <1>8 DEF Next

\* Every state is well typed.
THEOREM TypeCorrect == Spec => []TypeOK
  <1>1. Init => TypeOK /\ FoundInv BY InitTypeOK DEF Init, FoundInv
  <1>2. TypeOK /\ FoundInv /\ [Next]_vars => (TypeOK /\ FoundInv)'
    BY NextTypeOK, NextFoundInv
  <1> QED BY <1>1, <1>2, PTL DEF Spec

-----------------------------------------------------------------------------
\* Nobody else links or imports versions and no two operations overlap.
Undisturbed == Serial /\ MaxOutside = 0

\* No two handlers are at work.
SerialInv ==
  \A q, r \in Resources : pc[q] # "idle" /\ pc[r] # "idle" => q = r

\* No version, linked or recorded, has a number that is not assigned yet.
AssignedInv ==
  /\ \A n \in Numbers : Linked(n) => n < next
  /\ \A r \in Resources : version[r] # NoVersion => version[r] < next

\* The version a Create has just linked is the last, and the number it settled
\* on is that of a version of its own.
CreateInv ==
  /\ \A r \in Resources : pc[r] = "link" => config[r] # NoURI
  /\ \A r \in Resources : pc[r] = "list" =>
       next - 1 \in Numbers /\ linkedBy[next - 1] = r /\ Linked(next - 1)
  /\ \A r \in Resources : pc[r] = "get" => linkedBy[found[r]] = r

\* Update and Delete run for tracked resources only.
TrackedInv ==
  \A r \in Resources : pc[r] \in {"update", "delete"} => version[r] # NoVersion

OwnInv == SerialInv /\ AssignedInv /\ CreateInv /\ TrackedInv /\ OwnVersionRecorded

\* The inductive invariant holds initially.
LEMMA InitOwnInv == Init => OwnInv
  <1> SUFFICES ASSUME Init PROVE OwnInv OBVIOUS
  <1>1. \A n \in Numbers : ~Linked(n) BY DEF Init, Linked
  <1> QED BY <1>1 DEF Init, OwnInv, SerialInv, AssignedInv, CreateInv, TrackedInv,
                      OwnVersionRecorded

\* One handler at a time: only Begin leaves "idle", when every other is there.
LEMMA NextSerialInv ==
  Undisturbed /\ TypeOK /\ SerialInv /\ [Next]_vars => SerialInv'
  <1> SUFFICES ASSUME Undisturbed, TypeOK, SerialInv, [Next]_vars
               PROVE  SerialInv'
    OBVIOUS
  <1> USE DEF TypeOK, SerialInv
  <1>1. ASSUME UNCHANGED pc PROVE SerialInv' BY <1>1
  <1>2. ASSUME NEW r \in Resources, NEW l, GoTo(r, l),
               pc[r] # "idle" \/ \A q \in Resources : pc[q] = "idle"
        PROVE  SerialInv'
    BY <1>2 DEF GoTo
  <1>3. ASSUME NEW r \in Resources, Begin(r) PROVE SerialInv'
    BY <1>1, <1>2, <1>3 DEF Begin, Undisturbed
  <1>4. ASSUME NEW r \in Resources, pc[r] # "idle",
               \E l \in Labels : GoTo(r, l)
        PROVE  SerialInv'
    BY <1>2, <1>4
  <1>5. ASSUME NEW r \in Resources,
               \/ LinkModelVersion(r) \/ ListModelVersions(r)
               \/ GetModelVersion(r) \/ UpdateModelVersion(r)
               \/ DeleteModelVersion(r)
        PROVE  SerialInv'
    <2>1. pc[r] # "idle" /\ \E l \in Labels : GoTo(r, l)
      BY <1>5 DEF LinkModelVersion, ListModelVersions, GetModelVersion,
                  UpdateModelVersion, DeleteModelVersion, Fault, Labels
    <2> QED BY <1>4, <2>1
  <1>6. CASE (\E r \in Resources : ImportState(r)) \/ Configure \/ OutsideLink
               \/ UNCHANGED vars
    BY <1>1, <1>6 DEF ImportState, Configure, OutsideLink, vars
  <1> QED BY <1>3, <1>5, <1>6 DEF Next

\* A step that leaves the server alone and at most forgets a version keeps the
\* facts about numbers.
LEMMA ServerUnchanged ==
  ASSUME TypeOK, AssignedInv, OwnVersionRecorded, UNCHANGED server,
         \A r \in Resources : version'[r] \in {version[r], NoVersion}
  PROVE  AssignedInv' /\ OwnVersionRecorded'
  BY DEF AssignedInv, OwnVersionRecorded, server, Linked

\* Each step of an undisturbed run keeps the inductive invariant.
LEMMA NextOwnInv ==
  Undisturbed /\ TypeOK /\ FoundInv /\ OwnInv /\ [Next]_vars => OwnInv'
  <1> SUFFICES ASSUME Undisturbed, TypeOK, FoundInv, OwnInv, [Next]_vars
               PROVE  OwnInv'
    OBVIOUS
  <1> DEFINE Rest == AssignedInv /\ CreateInv /\ TrackedInv /\ OwnVersionRecorded
  <1>0. SerialInv /\ SerialInv' BY NextSerialInv DEF OwnInv
  <1>1. ASSUME NEW r \in Resources, Begin(r) PROVE Rest'
    <2>1. AssignedInv' /\ OwnVersionRecorded'
      <3>1. \A q \in Resources : version'[q] \in {version[q], NoVersion}
        BY <1>1 DEF Begin, Forget, Keep, state, TypeOK
      <3> QED BY <1>1, <3>1, ServerUnchanged DEF Begin, OwnInv
    <2>2. CreateInv'
      BY <1>1 DEF Begin, GoTo, OwnInv, CreateInv, server, Linked, TypeOK
    <2>3. TrackedInv'
      <3>1. CASE Forget(r) /\ UNCHANGED pc
        BY <1>1, <3>1 DEF Begin, Forget, Keep, OwnInv, TrackedInv, TypeOK
      <3>2. CASE UNCHANGED version
        BY <1>1, <3>2 DEF Begin, GoTo, OwnInv, TrackedInv, TypeOK
      <3> QED BY <1>1, <3>1, <3>2 DEF Begin, state
    <2> QED BY <2>1, <2>2, <2>3
  <1>2. ASSUME NEW r \in Resources, LinkModelVersion(r) PROVE Rest'
    <2>0. /\ pc[r] = "link" /\ config[r] # NoURI
          /\ UNCHANGED <<version, config>>
          /\ \A q \in Resources \ {r} : pc[q] = "idle" /\ pc'[q] = "idle"
      BY <1>2, <1>0 DEF LinkModelVersion, Fault, GoTo, state, OwnInv,
                        SerialInv, CreateInv, TypeOK
    <2>1. CASE UNCHANGED server /\ GoTo(r, "idle")
      BY <2>0, <2>1, ServerUnchanged
         DEF OwnInv, CreateInv, TrackedInv, GoTo, TypeOK
    <2>2. CASE Link(r, config[r])
      <3>1. next \in Numbers /\ next' = next + 1
        BY <2>2, BoundAssumption DEF Link, Numbers, TypeOK
      <3>2. /\ \A n \in Numbers \ {next} : /\ uri'[n] = uri[n]
                                           /\ linkedBy'[n] = linkedBy[n]
            /\ uri'[next] = config[r] /\ linkedBy'[next] = r
        BY <2>2, <3>1 DEF Link, TypeOK
      <3>3. AssignedInv'
        <4>1. ASSUME NEW n \in Numbers, Linked(n)' PROVE n < next'
          <5>1. n = next \/ Linked(n)
            BY <3>2, <4>1 DEF Linked
          <5> QED
            BY <3>1, <5>1 DEF OwnInv, AssignedInv, Numbers
        <4>2. ASSUME NEW q \in Resources, version[q] # NoVersion PROVE version[q] < next'
          <5>1. version[q] \in Numbers
            BY <4>2 DEF TypeOK
          <5> QED
            BY <3>1, <4>2, <5>1 DEF OwnInv, AssignedInv, Numbers
        <4> QED
          BY <2>0, <4>1, <4>2 DEF AssignedInv
      <3>4. OwnVersionRecorded'
        BY <2>0, <3>1, <3>2 DEF OwnInv, AssignedInv, OwnVersionRecorded,
                                Numbers, NoVersion, TypeOK
      <3>5. CreateInv' /\ TrackedInv'
        <4>1. pc'[r] \in {"list", "idle"}
          BY <1>2 DEF LinkModelVersion, Fault, GoTo, TypeOK
        <4>2. next' - 1 = next BY <3>1 DEF Numbers
        <4> QED BY <2>0, <3>1, <3>2, <4>1, <4>2
                DEF CreateInv, TrackedInv, Linked
      <3> QED BY <3>3, <3>4, <3>5
    <2> QED BY <1>2, <2>1, <2>2 DEF LinkModelVersion, Fault
  <1>3. ASSUME NEW r \in Resources, ListModelVersions(r) PROVE Rest'
    <2>0. /\ pc[r] = "list" /\ UNCHANGED <<server, config>>
          /\ next - 1 \in Numbers /\ linkedBy[next - 1] = r /\ Linked(next - 1)
          /\ \A q \in Resources \ {r} : pc[q] = "idle" /\ pc'[q] = "idle"
      BY <1>3, <1>0 DEF ListModelVersions, Fault, GoTo, OwnInv,
                        SerialInv, CreateInv, TypeOK
    <2>1. \A n \in Numbers : Newest(n) => n = next - 1
      BY <2>0 DEF Newest, OwnInv, AssignedInv, Numbers, TypeOK
    <2>2. CASE Record(r, next - 1) /\ GoTo(r, "idle")
      <3>1. version' = [version EXCEPT ![r] = next - 1]
        BY <2>2 DEF Record, Keep
      <3>2. AssignedInv' /\ OwnVersionRecorded'
        BY <2>0, <3>1 DEF OwnInv, AssignedInv, OwnVersionRecorded, server,
                          Linked, Numbers, TypeOK
      <3>3. CreateInv' /\ TrackedInv'
        BY <2>0, <2>2 DEF GoTo, CreateInv, TrackedInv, TypeOK
      <3> QED BY <3>2, <3>3
    <2>3. CASE /\ found' = [found EXCEPT ![r] = next - 1]
               /\ GoTo(r, "get") /\ UNCHANGED state
      <3>1. AssignedInv' /\ OwnVersionRecorded'
        BY <2>0, <2>3, ServerUnchanged DEF state, OwnInv
      <3>2. CreateInv' /\ TrackedInv'
        BY <2>0, <2>3 DEF GoTo, server, CreateInv, TrackedInv, TypeOK
      <3> QED BY <3>1, <3>2
    <2>4. CASE GoTo(r, "idle") /\ UNCHANGED state
      BY <2>0, <2>4, ServerUnchanged
         DEF state, OwnInv, GoTo, CreateInv, TrackedInv, TypeOK
    <2> QED BY <1>3, <2>1, <2>2, <2>3, <2>4 DEF ListModelVersions, Fault
  <1>4. ASSUME NEW r \in Resources, GetModelVersion(r) PROVE Rest'
    <2>0. /\ UNCHANGED <<server, config>> /\ GoTo(r, "idle")
          /\ found[r] \in Numbers /\ linkedBy[found[r]] = r
          /\ \A q \in Resources : pc'[q] = "idle"
      BY <1>4, <1>0 DEF GetModelVersion, Fault, GoTo, OwnInv, FoundInv,
                        SerialInv, CreateInv, TypeOK
    <2>1. CreateInv' /\ TrackedInv' BY <2>0 DEF CreateInv, TrackedInv
    <2>2. CASE Linked(found[r]) /\ Record(r, found[r])
      <3>1. version' = [version EXCEPT ![r] = found[r]]
        BY <2>2 DEF Record, Keep
      <3>2. AssignedInv' /\ OwnVersionRecorded'
        BY <2>0, <2>2, <3>1 DEF OwnInv, AssignedInv, OwnVersionRecorded,
                                server, Linked, TypeOK
      <3> QED BY <2>1, <3>2
    <2>3. CASE UNCHANGED state
      BY <2>0, <2>1, <2>3, ServerUnchanged DEF state, OwnInv
    <2> QED BY <1>4, <2>2, <2>3 DEF GetModelVersion, Fault
  <1>5. ASSUME NEW r \in Resources, UpdateModelVersion(r) PROVE Rest'
    <2>0. /\ version[r] \in Numbers /\ UNCHANGED <<next, linkedBy, version>>
          /\ uri' = uri \/ (/\ Linked(version[r])
                            /\ uri' = [uri EXCEPT ![version[r]] = config[r]])
          /\ \A q \in Resources : pc'[q] = "idle"
      BY <1>5, <1>0 DEF UpdateModelVersion, Keep, Fault, GoTo, OwnInv, state,
                        SerialInv, TrackedInv, TypeOK
    <2>1. CreateInv' /\ TrackedInv' BY <2>0 DEF CreateInv, TrackedInv
    <2>2. AssignedInv' /\ OwnVersionRecorded'
      BY <2>0 DEF OwnInv, AssignedInv, OwnVersionRecorded, Linked, TypeOK
    <2> QED BY <2>1, <2>2
  <1>6. ASSUME NEW r \in Resources, DeleteModelVersion(r) PROVE Rest'
    <2>0. /\ UNCHANGED <<next, linkedBy>>
          /\ \A q \in Resources : version'[q] \in {version[q], NoVersion}
          /\ uri' = uri \/ uri' = [uri EXCEPT ![version[r]] = NoURI]
          /\ \A q \in Resources : pc'[q] = "idle"
      BY <1>6, <1>0 DEF DeleteModelVersion, Forget, Keep, Fault, GoTo, OwnInv,
                        state, SerialInv, TypeOK
    <2>1. CreateInv' /\ TrackedInv' BY <2>0 DEF CreateInv, TrackedInv
    <2>2. AssignedInv' /\ OwnVersionRecorded'
      BY <2>0 DEF OwnInv, AssignedInv, OwnVersionRecorded, Linked, TypeOK
    <2> QED BY <2>1, <2>2
  <1>7. ASSUME NEW r \in Resources, ImportState(r) PROVE Rest'
    BY <1>7 DEF ImportState, Undisturbed, TypeOK
  <1>8. CASE Configure
    <2>0. /\ UNCHANGED <<server, state, pc>>
          /\ \A q \in Resources : pc[q] = "idle"
      BY <1>8 DEF Configure
    <2>1. AssignedInv' /\ OwnVersionRecorded'
      BY <2>0, ServerUnchanged DEF state, OwnInv
    <2>2. CreateInv' /\ TrackedInv' BY <2>0 DEF CreateInv, TrackedInv
    <2> QED BY <1>0, <2>1, <2>2 DEF OwnInv
  <1>9. CASE OutsideLink
    BY <1>9 DEF OutsideLink, Undisturbed, TypeOK
  <1>10. CASE UNCHANGED vars
    <2>1. AssignedInv' /\ OwnVersionRecorded'
      BY <1>10, ServerUnchanged DEF vars, state, OwnInv
    <2>2. CreateInv' /\ TrackedInv'
      BY <1>10 DEF vars, server, state, OwnInv, CreateInv, TrackedInv, Linked
    <2> QED BY <1>0, <2>1, <2>2 DEF OwnInv
  <1> QED BY <1>0, <1>1, <1>2, <1>3, <1>4, <1>5, <1>6, <1>7, <1>8, <1>9, <1>10
          DEF Next, OwnInv

\* The inductive invariant of undisturbed runs.
THEOREM OwnInvHolds == Undisturbed => (Spec => [](TypeOK /\ FoundInv /\ OwnInv))
  <1> SUFFICES ASSUME Undisturbed
               PROVE  Spec => [](TypeOK /\ FoundInv /\ OwnInv)
    OBVIOUS
  <1>1. Init => TypeOK /\ FoundInv /\ OwnInv
    BY InitTypeOK, InitOwnInv DEF Init, FoundInv
  <1>2. TypeOK /\ FoundInv /\ OwnInv /\ [Next]_vars
          => (TypeOK /\ FoundInv /\ OwnInv)'
    BY NextTypeOK, NextFoundInv, NextOwnInv
  <1> QED BY <1>1, <1>2, PTL DEF Spec

\* What newestModelVersion relies on: if the operations on the versions of a
\* model never overlap and nobody else links any, every resource records a
\* version it linked itself, whatever calls fail or lose their answer.
THEOREM OwnVersionIsRecorded == Undisturbed => (Spec => []OwnVersionRecorded)
  <1> SUFFICES ASSUME Undisturbed PROVE Spec => []OwnVersionRecorded OBVIOUS
  <1>1. TypeOK /\ FoundInv /\ OwnInv => OwnVersionRecorded BY DEF OwnInv
  <1> QED BY <1>1, OwnInvHolds, PTL

\* Under the same conditions no version is managed by two resources.
THEOREM VersionsAreNotShared == Undisturbed => (Spec => []VersionsNotShared)
  <1> SUFFICES ASSUME Undisturbed PROVE Spec => []VersionsNotShared OBVIOUS
  <1>1. TypeOK /\ FoundInv /\ OwnInv => VersionsNotShared
    BY DEF OwnInv, OwnVersionRecorded, VersionsNotShared
  <1> QED BY <1>1, OwnInvHolds, PTL

\* Nor does a destroy or an update of one resource touch the version of another.
THEOREM OthersVersionsAreUntouched ==
  Undisturbed => (Spec => OthersVersionsUntouched)
  <1> SUFFICES ASSUME Undisturbed PROVE Spec => OthersVersionsUntouched OBVIOUS
  <1> DEFINE Own(n, r) ==
        pc[r] \in {"update", "delete"} /\ pc'[r] # pc[r] /\ uri'[n] # uri[n]
          => linkedBy[n] = r
  <1>1. TypeOK /\ FoundInv /\ OwnInv /\ [Next]_vars
          => [\A n \in Numbers, r \in Resources : Own(n, r)]_vars
    <2> SUFFICES ASSUME TypeOK, OwnInv, [Next]_vars,
                        NEW n \in Numbers, NEW r \in Resources,
                        pc[r] \in {"update", "delete"}, pc'[r] # pc[r],
                        uri'[n] # uri[n]
                 PROVE  linkedBy[n] = r
      OBVIOUS
    <2>1. \A q \in Resources : pc[q] # "idle" => q = r
      BY DEF OwnInv, SerialInv
    <2>2. ASSUME NEW q \in Resources, UpdateModelVersion(q) \/ DeleteModelVersion(q)
          PROVE  linkedBy[n] = r
      <3>1. q = r BY <2>1, <2>2 DEF UpdateModelVersion, DeleteModelVersion
      <3>2. n = version[r]
        BY <2>2, <3>1 DEF UpdateModelVersion, DeleteModelVersion, TypeOK
      <3> QED BY <3>2 DEF OwnInv, OwnVersionRecorded, Numbers, NoVersion, TypeOK
    <2>3. ASSUME NEW q \in Resources, Begin(q) \/ ImportState(q) PROVE FALSE
      BY <2>3 DEF Begin, ImportState, server
    <2>4. ASSUME NEW q \in Resources, \/ LinkModelVersion(q)
                                      \/ ListModelVersions(q)
                                      \/ GetModelVersion(q)
          PROVE  FALSE
      BY <2>1, <2>4 DEF LinkModelVersion, ListModelVersions, GetModelVersion
    <2>5. ASSUME Configure \/ OutsideLink \/ UNCHANGED vars PROVE FALSE
      BY <2>5 DEF Configure, OutsideLink, vars
    <2> QED BY <2>2, <2>3, <2>4, <2>5 DEF Next
  <1> QED BY <1>1, OwnInvHolds, PTL DEF Spec, OthersVersionsUntouched

-----------------------------------------------------------------------------
\* A Create works for an untracked resource, and no version of its own that still
\* exists is newer than the one it has settled on, however many others link theirs.
SettledInv ==
  \A r \in Resources :
    /\ pc[r] \in {"link", "list", "get"} => version[r] = NoVersion
    /\ pc[r] = "get" => \A n \in Numbers : linkedBy[n] = r /\ Linked(n) => n <= found[r]

\* A version that appears is linked by the handler that posts it.
LEMMA AppearsOnlyByLink ==
  ASSUME TypeOK, [Next]_vars, NEW n \in Numbers, Linked(n)', ~Linked(n) \/ linkedBy'[n] # linkedBy[n]
  PROVE  \/ \E r \in Resources : LinkModelVersion(r) /\ linkedBy'[n] = r
         \/ linkedBy'[n] = Someone
  <1> USE DEF TypeOK, Linked
  <1>1. ASSUME NEW who, NEW u, Link(who, u) PROVE linkedBy'[n] = who
    BY <1>1 DEF Link
  <1>2. ASSUME NEW r \in Resources, LinkModelVersion(r)
        PROVE  linkedBy'[n] = r
    BY <1>1, <1>2 DEF LinkModelVersion, server
  <1>3. ASSUME NEW r \in Resources, UpdateModelVersion(r) PROVE FALSE
    BY <1>3 DEF UpdateModelVersion
  <1>4. ASSUME NEW r \in Resources, DeleteModelVersion(r) PROVE FALSE
    BY <1>4 DEF DeleteModelVersion
  <1>5. ASSUME NEW r \in Resources,
               Begin(r) \/ ListModelVersions(r) \/ GetModelVersion(r) \/ ImportState(r)
        PROVE  FALSE
    BY <1>5 DEF Begin, ListModelVersions, GetModelVersion, ImportState, server
  <1>6. CASE OutsideLink
    BY <1>1, <1>6 DEF OutsideLink
  <1>7. CASE Configure \/ UNCHANGED vars
    BY <1>7 DEF Configure, vars, server
  <1> QED BY <1>2, <1>3, <1>4, <1>5, <1>6, <1>7 DEF Next

\* The handlers of one resource leave the others where they are.
LEMMA OthersStay ==
  ASSUME TypeOK, [Next]_vars, NEW q \in Resources,
         pc'[q] # pc[q] \/ found'[q] # found[q]
           \/ version'[q] # version[q]
  PROVE  \/ Begin(q) \/ LinkModelVersion(q) \/ ListModelVersions(q) \/ GetModelVersion(q)
         \/ UpdateModelVersion(q) \/ DeleteModelVersion(q) \/ ImportState(q)
  <1> USE DEF TypeOK, GoTo, Keep, Forget, Record, Fault, state
  <1>1. ASSUME NEW r \in Resources \ {q}, Begin(r) PROVE FALSE
    BY <1>1 DEF Begin
  <1>2. ASSUME NEW r \in Resources \ {q}, LinkModelVersion(r) PROVE FALSE
    BY <1>2 DEF LinkModelVersion
  <1>3. ASSUME NEW r \in Resources \ {q}, ListModelVersions(r) PROVE FALSE
    BY <1>3 DEF ListModelVersions
  <1>4. ASSUME NEW r \in Resources \ {q}, GetModelVersion(r) PROVE FALSE
    BY <1>4 DEF GetModelVersion
  <1>5. ASSUME NEW r \in Resources \ {q}, UpdateModelVersion(r) PROVE FALSE
    BY <1>5 DEF UpdateModelVersion
  <1>6. ASSUME NEW r \in Resources \ {q}, DeleteModelVersion(r) PROVE FALSE
    BY <1>6 DEF DeleteModelVersion
  <1>7. ASSUME NEW r \in Resources \ {q}, ImportState(r) PROVE FALSE
    BY <1>7 DEF ImportState
  <1>8. CASE Configure \/ OutsideLink \/ UNCHANGED vars
    BY <1>8 DEF Configure, OutsideLink, vars
  <1> QED BY <1>1, <1>2, <1>3, <1>4, <1>5, <1>6, <1>7, <1>8 DEF Next

\* Every step keeps SettledInv.
LEMMA NextSettledInv == TypeOK /\ FoundInv /\ SettledInv /\ [Next]_vars => SettledInv'
  <1> SUFFICES ASSUME TypeOK, FoundInv, SettledInv, [Next]_vars, NEW q \in Resources
               PROVE  /\ pc'[q] \in {"link", "list", "get"} => version'[q] = NoVersion
                      /\ pc'[q] = "get" => \A n \in Numbers :
                           linkedBy'[n] = q /\ Linked(n)' => n <= found'[q]
    BY DEF SettledInv
  <1>1. pc'[q] \in {"link", "list", "get"} => version'[q] = NoVersion
    <2> USE DEF TypeOK, GoTo, Keep, Forget, Record, Fault, state, SettledInv
    <2>1. CASE pc'[q] = pc[q] /\ found'[q] = found[q] /\ version'[q] = version[q]
      BY <2>1
    <2>2. CASE Begin(q) BY <2>2 DEF Begin
    <2>3. CASE LinkModelVersion(q) BY <2>3 DEF LinkModelVersion
    <2>4. CASE ListModelVersions(q) BY <2>4 DEF ListModelVersions
    <2>5. CASE GetModelVersion(q) BY <2>5 DEF GetModelVersion
    <2>6. CASE UpdateModelVersion(q) BY <2>6 DEF UpdateModelVersion
    <2>7. CASE DeleteModelVersion(q) BY <2>7 DEF DeleteModelVersion
    <2>8. CASE ImportState(q) BY <2>8 DEF ImportState
    <2> QED BY <2>1, <2>2, <2>3, <2>4, <2>5, <2>6, <2>7, <2>8, OthersStay
  <1>2. ASSUME pc'[q] = "get", NEW n \in Numbers, linkedBy'[n] = q, Linked(n)'
        PROVE  n <= found'[q]
    <2>1. CASE pc[q] = "get" /\ found'[q] = found[q] /\ ~LinkModelVersion(q)
      <3>1. Linked(n) /\ linkedBy[n] = q
        <4>1. ASSUME NEW r \in Resources, LinkModelVersion(r), linkedBy'[n] = r PROVE FALSE
          BY <1>2, <2>1, <4>1
        <4>2. linkedBy'[n] # Someone
          BY <1>2, ResourceAssumption
        <4> QED BY <1>2, <4>1, <4>2, AppearsOnlyByLink
      <3> QED BY <2>1, <3>1 DEF SettledInv
    <2>2. CASE ListModelVersions(q)
      <3>1. PICK m \in Numbers : Newest(m) /\ found' = [found EXCEPT ![q] = m]
        BY <1>2, <2>2 DEF ListModelVersions, Fault, GoTo, TypeOK
      <3>2. Linked(n)
        BY <1>2, <2>2 DEF ListModelVersions, server, Linked
      <3> QED BY <3>1, <3>2 DEF Newest, TypeOK
    <2>3. CASE Begin(q) BY <1>2, <2>1, <2>3 DEF Begin, GoTo, TypeOK
    <2>4. CASE LinkModelVersion(q) BY <1>2, <2>4 DEF LinkModelVersion, Fault, GoTo, TypeOK
    <2>5. CASE GetModelVersion(q) \/ UpdateModelVersion(q) \/ DeleteModelVersion(q)
      BY <1>2, <2>5 DEF GetModelVersion, UpdateModelVersion, DeleteModelVersion, Fault, GoTo,
         TypeOK
    <2>6. CASE ImportState(q) BY <1>2, <2>6 DEF ImportState
    <2>7. CASE pc'[q] = pc[q] /\ found'[q] = found[q]
      BY <1>2, <2>1, <2>4, <2>7
    <2> QED BY <2>2, <2>3, <2>4, <2>5, <2>6, <2>7, OthersStay
  <1> QED BY <1>1, <1>2

\* A Create never records a version older than one that its resource linked and that
\* still exists, whatever other handlers, users and the server do meanwhile.
THEOREM NeverOlder == Spec => NeverOlderThanOwn
  <1>1. Init => TypeOK /\ FoundInv /\ SettledInv
    BY InitTypeOK DEF Init, FoundInv, SettledInv
  <1>2. TypeOK /\ FoundInv /\ SettledInv /\ [Next]_vars => (TypeOK /\ FoundInv /\ SettledInv)'
    BY NextTypeOK, NextFoundInv, NextSettledInv
  <1>3. TypeOK /\ FoundInv /\ SettledInv /\ [Next]_vars =>
          [\A r \in Resources :
             pc[r] \in {"list", "get"} /\ pc'[r] = "idle" /\ version'[r] # NoVersion
               => \A n \in Numbers : linkedBy[n] = r /\ Linked(n) => n <= version'[r]]_vars
    <2> SUFFICES ASSUME TypeOK, FoundInv, SettledInv, [Next]_vars, NEW r \in Resources,
                        pc[r] \in {"list", "get"}, pc'[r] = "idle", version'[r] # NoVersion,
                        NEW n \in Numbers, linkedBy[n] = r, Linked(n)
                 PROVE  n <= version'[r]
      OBVIOUS
    <2>1. version[r] = NoVersion
      BY DEF SettledInv
    <2>2. ListModelVersions(r) \/ GetModelVersion(r)
      <3>1. pc'[r] # pc[r]
        OBVIOUS
      <3> QED BY <3>1, OthersStay DEF Begin, LinkModelVersion, UpdateModelVersion,
              DeleteModelVersion, ImportState
    <2>3. CASE ListModelVersions(r)
      <3>1. PICK m \in Numbers : Newest(m) /\ version' = [version EXCEPT ![r] = m]
        BY <2>1, <2>3 DEF ListModelVersions, Record, Keep, Fault, state
      <3> QED BY <3>1 DEF Newest, TypeOK
    <2>4. CASE GetModelVersion(r)
      <3>1. pc[r] = "get" /\ version' = [version EXCEPT ![r] = found[r]]
        BY <2>1, <2>4 DEF GetModelVersion, Record, Keep, Fault, state
      <3> QED BY <3>1 DEF SettledInv, TypeOK
    <2> QED BY <2>2, <2>3, <2>4
  <1> QED BY <1>1, <1>2, <1>3, PTL DEF Spec, NeverOlderThanOwn
=============================================================================
