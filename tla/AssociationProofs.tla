-------------------------- MODULE AssociationProofs --------------------------
(***************************************************************************)
(* Theorems about Association for any number of resources and names, any   *)
(* faults and any interference.  They rest on one invariant: what a        *)
(* resource has in state during an apply is what its Read found attached,  *)
(* and that is still so unless somebody else acted.                        *)
(***************************************************************************)
EXTENDS Association, TLAPS

\* Between the plan and the end of an apply, state is what Read found.
StateInv == \A r \in Resources :
              pc[r] = "apply" /\ state[r] # NotTracked => state[r] = seen[r]

\* An apply has something to do.
PlannedInv == \A r \in Resources : pc[r] = "apply" => config[r] # state[r]

\* Nobody else acted, so the object still carries what Read found.
UndisturbedInv == \A r \in Resources :
                    pc[r] = "apply" /\ ~disturbed[r] => direct = seen[r]

\* Nothing is attached to an object that is gone.
GoneInv == ~object => direct = {}

ApplyInv == TypeOK /\ StateInv /\ PlannedInv /\ UndisturbedInv /\ GoneInv

-----------------------------------------------------------------------------
\* Read keeps exactly the names attached to the object itself.
LEMMA ReadFindsDirect == DirectNames(Listing) = direct
  <1>1. ASSUME NEW n \in direct PROVE n \in DirectNames(Listing)
    <2>1. [name |-> n, inherited |-> FALSE] \in Listing BY <1>1 DEF Listing
    <2> QED BY <2>1 DEF DirectNames
  <1>2. ASSUME NEW n \in DirectNames(Listing) PROVE n \in direct
    <2>1. PICK entry \in Listing : ~entry.inherited /\ entry.name = n
      BY <1>2 DEF DirectNames
    <2> QED BY <2>1 DEF Listing
  <1> QED BY <1>1, <1>2

\* Applying the difference of two sets of names to the first yields the second.
LEMMA DiffLeadsToDesired ==
  ASSUME NEW current, NEW desired
  PROVE  (current \ Diff(current, desired).remove)
           \cup Diff(current, desired).add = desired
  BY DEF Diff

\* A set of names is not the mark of an untracked resource.
LEMMA NamesAreTracked == ASSUME NEW s \in NameSets PROVE s # NotTracked
  BY NamesAssumption DEF NameSets

\* Every request asks for names, and detaches only names of the state.
LEMMA RequestType ==
  ASSUME TypeOK, NEW r \in Resources, config[r] # state[r]
  PROVE  /\ Request(r) \in RequestSet
         /\ state[r] # NotTracked => Request(r).remove \subseteq state[r]
         /\ state[r] = NotTracked => Request(r).remove = {}
  <1>1. /\ config[r] \in NameSets \cup {NotTracked}
        /\ state[r] \in NameSets \cup {NotTracked}
    BY DEF TypeOK
  <1>2. CASE Destroying(r)
    BY <1>1, <1>2 DEF Request, Destroying, RequestSet, NameSets
  <1>3. CASE ~Destroying(r) /\ state[r] = NotTracked
    BY <1>1, <1>3 DEF Request, Destroying, RequestSet, NameSets
  <1>4. CASE ~Destroying(r) /\ state[r] # NotTracked
    BY <1>1, <1>4 DEF Request, Destroying, Diff, RequestSet, NameSets
  <1> QED BY <1>2, <1>3, <1>4

\* The request leaves a set of names attached, and none to a lost object.
LEMMA AfterType ==
  ASSUME TypeOK, GoneInv, NEW q \in RequestSet
  PROVE  After(q) \in NameSets /\ (~object => After(q) = {})
  BY DEF TypeOK, GoneInv, After, Accepted, RequestSet, NameSets

\* Whoever is still applying and not marked as disturbed was not before either,
\* and nothing was attached or detached by anybody else.
LEMMA DisturbMarks ==
  ASSUME NEW others, Disturb(others), NEW q \in Resources,
         q \in others \/ direct' = direct
  PROVE  pc[q] = "apply" /\ pc'[q] = "apply" /\ ~disturbed'[q]
           => ~disturbed[q] /\ direct' = direct
  BY DEF Disturb

\* A handler that returns keeps the invariant, whatever it did to the object.
LEMMA LeaveKeeps ==
  ASSUME ApplyInv, NEW r \in Resources, Leave(r),
         state' = state \/ state' = [state EXCEPT ![r] = config[r]],
         direct' \in NameSets, ~object => direct' = {}, late' \subseteq RequestSet,
         faults' \in 0 .. MaxFaults,
         NEW others, Disturb(others),
         direct' = direct \/ others = Resources \ {r},
         UNCHANGED <<object, present, config, changes, outside>>
  PROVE  ApplyInv'
  <1>1. \A q \in Resources : q # r =>
          /\ pc'[q] = pc[q] /\ unchecked'[q] = unchecked[q]
          /\ seen'[q] = seen[q] /\ state'[q] = state[q]
    BY DEF ApplyInv, TypeOK, Leave
  <1>2. pc'[r] = "idle" /\ unchecked'[r] = {}
    BY DEF ApplyInv, TypeOK, Leave
  <1>3. TypeOK'
    <2>1. /\ pc' \in [Resources -> {"idle", "apply"}]
          /\ unchecked' \in [Resources -> NameSets]
          /\ seen' \in [Resources -> NameSets]
      BY DEF ApplyInv, TypeOK, Leave, NameSets
    <2>2. state' \in [Resources -> NameSets \cup {NotTracked}]
      BY DEF ApplyInv, TypeOK
    <2>3. disturbed' \in [Resources -> BOOLEAN] BY DEF Disturb
    <2>4. \A q \in Resources : pc'[q] = "idle" => unchecked'[q] = {}
      BY <1>1, <1>2 DEF ApplyInv, TypeOK
    <2> QED BY <2>1, <2>2, <2>3, <2>4 DEF ApplyInv, TypeOK
  <1>4. StateInv' /\ PlannedInv'
    BY <1>1, <1>2 DEF ApplyInv, StateInv, PlannedInv
  <1>5. UndisturbedInv'
    <2> SUFFICES ASSUME NEW q \in Resources, pc'[q] = "apply", ~disturbed'[q]
                 PROVE  direct' = seen'[q]
      BY DEF UndisturbedInv
    <2>1. q # r /\ pc[q] = "apply" BY <1>1, <1>2
    <2>2. ~disturbed[q] /\ direct' = direct BY <2>1, DisturbMarks
    <2> QED BY <2>1, <2>2, <1>1 DEF ApplyInv, UndisturbedInv
  <1>6. GoneInv' BY DEF GoneInv
  <1> QED BY <1>3, <1>4, <1>5, <1>6 DEF ApplyInv

\* The invariant holds initially.
LEMMA InitApplyInv == Init => ApplyInv
  <1> SUFFICES ASSUME Init PROVE ApplyInv OBVIOUS
  <1>1. /\ faults \in 0 .. MaxFaults /\ changes \in 0 .. MaxChanges
        /\ outside \in 0 .. MaxOutside
    BY BoundAssumption DEF Init
  <1>2. TypeOK BY <1>1 DEF Init, TypeOK, NameSets
  <1> QED BY <1>2 DEF Init, ApplyInv, StateInv, PlannedInv, UndisturbedInv, GoneInv

\* What Read and the plan leave of one resource: at rest, or applying with the
\* names found in state.
LEMMA ReadKeeps ==
  ASSUME ApplyInv, NEW r \in Resources, Read(r)
  PROVE  ApplyInv'
  <1>1. /\ direct' = direct /\ object' = object /\ present' = present
        /\ late' = late /\ config' = config /\ changes' = changes
        /\ outside' = outside /\ pc[r] = "idle" /\ unchecked[r] = {}
    BY DEF Read, server, ApplyInv, TypeOK
  <1>2. faults' \in 0 .. MaxFaults
    BY BoundAssumption DEF Read, ApplyInv, TypeOK
  <1>3. /\ state' \in [Resources -> NameSets \cup {NotTracked}]
        /\ \A q \in Resources : q # r => state'[q] = state[q]
    BY ReadFindsDirect DEF Read, ApplyInv, TypeOK
  <1>4. \/ UNCHANGED handler
        \/ /\ state'[r] = NotTracked \/ state'[r] = direct
           /\ Plan(r, state'[r])
    BY ReadFindsDirect DEF Read, ApplyInv, TypeOK
  <1>5. CASE UNCHANGED handler
    <2>1. pc' = pc /\ unchecked' = unchecked /\ seen' = seen
      BY <1>5 DEF handler
    <2>2. TypeOK'
      <3>1. disturbed' \in [Resources -> BOOLEAN] BY DEF Read, Disturb
      <3> QED BY <1>1, <1>2, <1>3, <2>1, <3>1 DEF ApplyInv, TypeOK
    <2>3. StateInv' /\ PlannedInv' /\ GoneInv'
      BY <1>1, <1>3, <2>1 DEF ApplyInv, StateInv, PlannedInv, GoneInv
    <2>4. UndisturbedInv'
      BY <1>1, <2>1, DisturbMarks DEF Read, ApplyInv, UndisturbedInv
    <2> QED BY <2>2, <2>3, <2>4 DEF ApplyInv
  <1>6. CASE /\ state'[r] # config[r] /\ Plan(r, state'[r])
             /\ state'[r] = NotTracked \/ state'[r] = direct
    <2>1. /\ pc' = [pc EXCEPT ![r] = "apply"]
          /\ seen' = [seen EXCEPT ![r] = direct]
      BY <1>6 DEF Plan
    <2>2. unchecked' \in [Resources -> NameSets]
      <3>1. state'[r] = NotTracked => config[r] \in NameSets
        BY <1>6 DEF ApplyInv, TypeOK
      <3>2. ~Destroying(r) => Diff(state'[r], config[r]).add \in NameSets
        BY DEF ApplyInv, TypeOK, Diff, Destroying, NameSets
      <3> QED BY <1>6, <3>1, <3>2 DEF Plan, ApplyInv, TypeOK, NameSets
    <2>3. \A q \in Resources : q # r =>
            pc'[q] = pc[q] /\ seen'[q] = seen[q] /\ unchecked'[q] = unchecked[q]
      BY <1>6, <2>1 DEF Plan, ApplyInv, TypeOK
    <2>4. pc'[r] = "apply" /\ seen'[r] = direct
      BY <2>1 DEF ApplyInv, TypeOK
    <2>5. TypeOK'
      <3>1. /\ pc' \in [Resources -> {"idle", "apply"}]
            /\ seen' \in [Resources -> NameSets]
        BY <2>1 DEF ApplyInv, TypeOK
      <3>2. disturbed' \in [Resources -> BOOLEAN] BY DEF Read, Disturb
      <3>3. \A q \in Resources : pc'[q] = "idle" => unchecked'[q] = {}
        BY <2>3, <2>4 DEF ApplyInv, TypeOK
      <3> QED BY <1>1, <1>2, <1>3, <2>2, <3>1, <3>2, <3>3 DEF ApplyInv, TypeOK
    <2>6. StateInv' /\ PlannedInv' /\ GoneInv'
      BY <1>1, <1>3, <1>6, <2>3, <2>4
      DEF ApplyInv, StateInv, PlannedInv, GoneInv
    <2>7. UndisturbedInv'
      <3> SUFFICES ASSUME NEW q \in Resources, pc'[q] = "apply", ~disturbed'[q]
                   PROVE  direct' = seen'[q]
        BY DEF UndisturbedInv
      <3>1. CASE q = r BY <3>1, <1>1, <2>4
      <3>2. CASE q # r
        BY <3>2, <1>1, <2>3, DisturbMarks DEF Read, ApplyInv, UndisturbedInv
      <3> QED BY <3>1, <3>2
    <2> QED BY <2>5, <2>6, <2>7 DEF ApplyInv
  <1> QED BY <1>4, <1>5, <1>6 DEF Plan

\* Reading the policies one by one keeps the invariant.
LEMMA CheckPolicyKeeps ==
  ASSUME ApplyInv, NEW r \in Resources, CheckPolicy(r)
  PROVE  ApplyInv'
  <1>1. /\ direct' = direct /\ object' = object /\ present' = present
        /\ late' = late /\ config' = config /\ changes' = changes
        /\ outside' = outside /\ pc[r] = "apply" /\ Disturb({})
    BY DEF CheckPolicy, server
  <1>2. faults' \in 0 .. MaxFaults
    BY BoundAssumption DEF CheckPolicy, ApplyInv, TypeOK
  <1>3. CASE Fail(r)
    <2>1. Leave(r) /\ state' = state BY <1>3 DEF Fail
    <2>2. direct' \in NameSets /\ late' \subseteq RequestSet /\ (~object => direct' = {})
      BY <1>1 DEF ApplyInv, TypeOK, GoneInv
    <2> QED BY <1>1, <1>2, <2>1, <2>2, LeaveKeeps
  <1>4. CASE \E n \in unchecked[r] :
               /\ unchecked' = [unchecked EXCEPT ![r] = @ \ {n}]
               /\ UNCHANGED <<pc, seen, state, faults>>
    <2>1. unchecked' \in [Resources -> NameSets]
      BY <1>4 DEF ApplyInv, TypeOK, NameSets
    <2>2. \A q \in Resources : pc'[q] = "idle" => unchecked'[q] = {}
      BY <1>4, <1>1 DEF ApplyInv, TypeOK
    <2>3. disturbed' \in [Resources -> BOOLEAN] BY <1>1 DEF Disturb
    <2>4. TypeOK' BY <1>1, <1>4, <2>1, <2>2, <2>3 DEF ApplyInv, TypeOK
    <2>5. StateInv' /\ PlannedInv' /\ GoneInv'
      BY <1>1, <1>4 DEF ApplyInv, StateInv, PlannedInv, GoneInv
    <2>6. UndisturbedInv'
      BY <1>1, <1>4, DisturbMarks DEF ApplyInv, UndisturbedInv
    <2> QED BY <2>4, <2>5, <2>6 DEF ApplyInv
  <1> QED BY <1>3, <1>4 DEF CheckPolicy

\* The request of a handler keeps the invariant.
LEMMA AssociateKeeps ==
  ASSUME ApplyInv, NEW r \in Resources, Associate(r)
  PROVE  ApplyInv'
  <1>1. /\ object' = object /\ present' = present /\ config' = config
        /\ changes' = changes /\ outside' = outside /\ pc[r] = "apply"
        /\ Disturb(Resources \ {r})
    BY DEF Associate
  <1>2. Succeed(r) \/ Fail(r) BY DEF Associate
  <1>3. /\ Leave(r)
        /\ state' = state \/ state' = [state EXCEPT ![r] = config[r]]
    BY <1>2 DEF Succeed, Fail
  <1>4. Request(r) \in RequestSet
    BY <1>1, RequestType DEF ApplyInv, PlannedInv
  <1>5. direct' \in {direct, After(Request(r))}
        /\ late' \in {late, late \cup {Request(r)}}
    BY DEF Associate
  <1>6. direct' \in NameSets /\ (~object => direct' = {})
    BY <1>4, <1>5, AfterType DEF ApplyInv, TypeOK, GoneInv
  <1>7. late' \subseteq RequestSet BY <1>4, <1>5 DEF ApplyInv, TypeOK
  <1>8. faults' \in 0 .. MaxFaults
    BY BoundAssumption DEF Associate, ApplyInv, TypeOK
  <1> QED BY <1>1, <1>3, <1>6, <1>7, <1>8, LeaveKeeps

\* An import keeps the invariant.
LEMMA ImportKeeps ==
  ASSUME ApplyInv, NEW r \in Resources, ImportState(r)
  PROVE  ApplyInv'
  <1>1. /\ UNCHANGED <<server, config, handler, disturbed, faults, changes>>
        /\ pc[r] = "idle" /\ state' = [state EXCEPT ![r] = direct]
        /\ outside' \in 0 .. MaxOutside
    BY ReadFindsDirect, BoundAssumption DEF ImportState, ApplyInv, TypeOK
  <1>2. TypeOK' BY <1>1 DEF ApplyInv, TypeOK, server, handler
  <1> QED BY <1>1, <1>2
    DEF ApplyInv, TypeOK, StateInv, PlannedInv, UndisturbedInv, GoneInv, server,
        handler

\* An edit of the configuration keeps the invariant, as nothing is applied.
LEMMA ConfigureKeeps ==
  ASSUME ApplyInv, Configure
  PROVE  ApplyInv'
  <1>1. /\ UNCHANGED <<server, state, handler, disturbed, faults, outside>>
        /\ \A r \in Resources : pc[r] # "apply"
        /\ config' \in [Resources -> NameSets \cup {NotTracked}]
        /\ changes' \in 0 .. MaxChanges
    BY BoundAssumption DEF Configure, ApplyInv, TypeOK, NameSets
  <1>2. TypeOK' BY <1>1 DEF ApplyInv, TypeOK, server, handler
  <1> QED BY <1>1, <1>2
    DEF ApplyInv, StateInv, PlannedInv, UndisturbedInv, GoneInv, server, handler

\* What others do, and requests carried out late, mark every apply.
LEMMA OutsideKeeps ==
  ASSUME ApplyInv, Others \/ CarriedOutLate
  PROVE  ApplyInv'
  <1>1. UNCHANGED <<config, state, handler, faults, changes>> /\ Disturb(Resources)
    BY DEF Others, CarriedOutLate, bounds
  <1>2. /\ direct' \in NameSets /\ present' \in NameSets /\ object' \in BOOLEAN
        /\ late' \subseteq RequestSet /\ outside' \in 0 .. MaxOutside
        /\ ~object' => direct' = {}
    <2>1. CASE Others
      <3>1. late' = late /\ outside' \in 0 .. MaxOutside
        BY <2>1, BoundAssumption DEF Others, ApplyInv, TypeOK
      <3>2. direct' \in NameSets
        BY <2>1 DEF Others, ApplyInv, TypeOK, NameSets
      <3>3. present' \in NameSets /\ object' \in BOOLEAN
        BY <2>1 DEF Others, ApplyInv, TypeOK, NameSets
      <3>4. ~object' => direct' = {}
        BY <2>1 DEF Others, ApplyInv, GoneInv
      <3> QED BY <3>1, <3>2, <3>3, <3>4 DEF ApplyInv, TypeOK
    <2>2. CASE CarriedOutLate
      BY <2>2, AfterType DEF CarriedOutLate, ApplyInv, TypeOK, GoneInv, bounds
    <2> QED BY <2>1, <2>2
  <1>3. disturbed' \in [Resources -> BOOLEAN] BY <1>1 DEF Disturb
  <1>4. TypeOK' BY <1>1, <1>2, <1>3 DEF ApplyInv, TypeOK, handler
  <1>5. StateInv' /\ PlannedInv' /\ GoneInv'
    BY <1>1, <1>2 DEF ApplyInv, StateInv, PlannedInv, GoneInv, handler
  <1>6. UndisturbedInv'
    BY <1>1, DisturbMarks DEF ApplyInv, UndisturbedInv, handler
  <1> QED BY <1>4, <1>5, <1>6 DEF ApplyInv

\* Every step keeps the invariant.
LEMMA NextKeeps == ApplyInv /\ [Next]_vars => ApplyInv'
  <1> SUFFICES ASSUME ApplyInv, [Next]_vars PROVE ApplyInv' OBVIOUS
  <1>1. CASE UNCHANGED vars
    BY <1>1 DEF ApplyInv, TypeOK, StateInv, PlannedInv, UndisturbedInv, GoneInv,
                vars, server, handler, bounds
  <1>2. ASSUME NEW r \in Resources,
               Read(r) \/ CheckPolicy(r) \/ Associate(r) \/ ImportState(r)
        PROVE  ApplyInv'
    BY <1>2, ReadKeeps, CheckPolicyKeeps, AssociateKeeps, ImportKeeps
  <1>3. CASE Configure BY <1>3, ConfigureKeeps
  <1>4. CASE Others \/ CarriedOutLate BY <1>4, OutsideKeeps
  <1> QED BY <1>1, <1>2, <1>3, <1>4 DEF Next

\* The invariant holds in every state.
LEMMA ApplyInvHolds == Spec => []ApplyInv
  <1> QED BY InitApplyInv, NextKeeps, PTL DEF Spec

-----------------------------------------------------------------------------
\* Every reachable state is well typed, and a handler that has returned left
\* nothing unchecked behind (association.go, all handlers).
THEOREM TypeCorrect == Spec => []TypeOK
  <1>1. ApplyInv => TypeOK BY DEF ApplyInv
  <1> QED BY <1>1, ApplyInvHolds, PTL

\* Only Associate ends an operation and leaves state as configured.
LEMMA AppliedByAssociate ==
  ASSUME ApplyInv, [Next]_vars, NEW r \in Resources, Applied(r)
  PROVE  Associate(r)
  <1>1. pc' # pc BY DEF Applied
  <1>2. config[r] # state[r] /\ pc[r] = "apply"
    BY DEF Applied, ApplyInv, PlannedInv
  <1>3. PICK q \in Resources : Read(q) \/ CheckPolicy(q) \/ Associate(q)
    BY <1>1 DEF Next, ImportState, Configure, Others, CarriedOutLate, handler, vars
  <1>4. ASSUME NEW p \in Resources, Leave(p) PROVE p = r
    BY <1>4 DEF Leave, Applied, ApplyInv, TypeOK
  <1>5. ~Read(q)
    BY <1>2 DEF Read, Plan, Applied, ApplyInv, TypeOK, handler
  <1>6. ~CheckPolicy(q)
    BY <1>1, <1>2, <1>4 DEF CheckPolicy, Fail, Applied
  <1> QED BY <1>3, <1>4, <1>5, <1>6 DEF Associate, Succeed, Fail

\* A successful Associate that had something to send had it accepted, or was a
\* destroy of something gone.
LEMMA SuccessMeansAccepted ==
  ASSUME ApplyInv, NEW r \in Resources, Associate(r), Applied(r)
  PROVE  \/ Empty(Request(r)) /\ direct' = direct
         \/ Accepted(Request(r)) /\ direct' = After(Request(r))
         \/ Destroying(r) /\ NotFound(Request(r)) /\ direct' = direct
  <1>1. ~Fail(r)
    BY DEF Applied, Fail, ApplyInv, PlannedInv
  <1> QED BY <1>1 DEF Associate, CountsAsGone

\* An update that succeeds undisturbed leaves exactly the configured names
\* attached (association.go, Update).
THEOREM UpdateAttachesWhatIsConfigured == Spec => UpdateConverges
  <1>1. ASSUME ApplyInv, [Next]_vars, NEW r \in Resources,
               Applied(r), state[r] # NotTracked, ~Destroying(r), ~disturbed[r]
        PROVE  direct' = config[r]
    <2>1. Associate(r) BY <1>1, AppliedByAssociate
    <2>2. direct = state[r]
      BY <1>1 DEF Applied, ApplyInv, StateInv, UndisturbedInv
    <2>3. Request(r) = Diff(direct, config[r]) BY <1>1, <2>2 DEF Request
    <2>4. CASE Empty(Request(r)) /\ direct' = direct
      BY <2>3, <2>4, DiffLeadsToDesired DEF Empty
    <2>5. CASE Accepted(Request(r)) /\ direct' = After(Request(r))
      BY <2>3, <2>5, DiffLeadsToDesired DEF After
    <2> QED BY <1>1, <2>1, <2>4, <2>5, SuccessMeansAccepted
  <1>2. ApplyInv /\ [Next]_vars =>
          [\A r \in Resources :
             Applied(r) /\ state[r] # NotTracked /\ ~Destroying(r) /\ ~disturbed[r]
               => direct' = config[r]]_vars
    BY <1>1
  <1> QED BY <1>2, ApplyInvHolds, PTL DEF Spec, UpdateConverges

\* A handler detaches only what its own Read found attached to the object
\* (association.go, Read, Update and Delete).
THEOREM OnlyWhatReadFoundIsDetached == Spec => OnlySeenDetached
  <1>1. ASSUME ApplyInv, [Next]_vars, NEW r \in Resources,
               pc[r] = "apply", pc'[r] = "idle"
        PROVE  direct \ direct' \subseteq seen[r]
    <2>1. \/ direct' = direct
          \/ Associate(r)
      <3>1. PICK q \in Resources : Read(q) \/ CheckPolicy(q) \/ Associate(q)
        BY <1>1
        DEF Next, ImportState, Configure, Others, CarriedOutLate, handler, vars
      <3>2. Associate(q) => q = r
        BY <1>1 DEF Associate, Succeed, Fail, Leave, ApplyInv, TypeOK
      <3> QED BY <3>1, <3>2 DEF Read, CheckPolicy, server
    <2>2. CASE Associate(r)
      <3>1. direct' = direct \/ direct' = After(Request(r))
        BY <2>2 DEF Associate
      <3>2. Request(r).remove \subseteq seen[r]
        BY <1>1, RequestType
        DEF ApplyInv, PlannedInv, StateInv, TypeOK
      <3> QED BY <3>1, <3>2 DEF After
    <2> QED BY <2>1, <2>2
  <1>2. ApplyInv /\ [Next]_vars =>
          [\A r \in Resources :
             pc[r] = "apply" /\ pc'[r] = "idle"
               => direct \ direct' \subseteq seen[r]]_vars
    BY <1>1
  <1> QED BY <1>2, ApplyInvHolds, PTL DEF Spec, OnlySeenDetached

\* A destroy that succeeds while all its names exist detaches all of them
\* (association.go, Delete).
THEOREM DestroyDetachesItsNames == Spec => DestroyDetaches
  <1>1. ASSUME ApplyInv, [Next]_vars, NEW r \in Resources,
               Applied(r), Destroying(r), state[r] \subseteq present
        PROVE  direct' \cap state[r] = {}
    <2>1. Associate(r) BY <1>1, AppliedByAssociate
    <2>2. Request(r) = [add |-> {}, remove |-> state[r]]
      BY <1>1 DEF Request, Destroying, Applied, ApplyInv, PlannedInv
    <2>3. CASE Empty(Request(r)) BY <2>2, <2>3 DEF Empty
    <2>4. CASE Accepted(Request(r)) /\ direct' = After(Request(r))
      BY <2>2, <2>4 DEF After
    <2>5. CASE NotFound(Request(r)) /\ direct' = direct
      BY <1>1, <2>2, <2>5 DEF NotFound, ApplyInv, GoneInv
    <2> QED BY <1>1, <2>1, <2>3, <2>4, <2>5, SuccessMeansAccepted
  <1>2. ApplyInv /\ [Next]_vars =>
          [\A r \in Resources :
             Applied(r) /\ Destroying(r) /\ state[r] \subseteq present
               => direct' \cap state[r] = {}]_vars
    BY <1>1
  <1> QED BY <1>2, ApplyInvHolds, PTL DEF Spec, DestroyDetaches
=============================================================================
