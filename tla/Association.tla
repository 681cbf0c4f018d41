----------------------------- MODULE Association -----------------------------
(***************************************************************************)
(* gravitino_tag_association and gravitino_policy_association              *)
(* (src/internal/resources/tag/association.go and policy/association.go):  *)
(* what is attached to one metadata object, managed by several resources   *)
(* and by people outside Terraform.  Gravitino attaches and detaches names *)
(* with one POST, so that Update sends the difference between the names    *)
(* the last Read found and the configured ones; everybody else may act     *)
(* between that Read and the POST.  A policy is read and compared with the *)
(* type of the object before it is attached, unless its content is not     *)
(* shown; a tag is not.                                                    *)
(***************************************************************************)
EXTENDS Naturals

CONSTANTS Resources,     \* the association resources of one object
          Names,         \* tags, or policies
          Inherited,     \* names attached to a parent of the object
          Incompatible,  \* policies that do not support the object's type
          Opaque,        \* policies whose content the provider is not shown
          Checked,       \* TRUE for policies, FALSE for tags
          NotTracked,    \* no resource, in configuration or state
          MaxFaults,     \* bound on calls whose answer is lost
          MaxChanges,    \* bound on edits of the configuration
          MaxOutside     \* bound on what others do, and on imports

ASSUME NamesAssumption == /\ Inherited \subseteq Names
                          /\ Incompatible \subseteq Names
                          /\ Opaque \subseteq Names
                          /\ Checked \in BOOLEAN
                          /\ \A names \in SUBSET Names : NotTracked # names
ASSUME BoundAssumption == /\ MaxFaults \in Nat /\ MaxChanges \in Nat
                          /\ MaxOutside \in Nat

VARIABLES object,      \* whether the object exists
          present,     \* the names that exist in the metalake
          direct,      \* the names attached to the object itself
          late,        \* requests the server may still carry out
          config,      \* the configured names, or NotTracked
          state,       \* the names in Terraform state, or NotTracked
          pc,          \* "idle", or "apply" from the plan to the end
          unchecked,   \* policies that are still to be read
          seen,        \* history: what was attached when Read asked
          disturbed,   \* history: others changed that since then
          faults, changes, outside    \* counters of the bounds

server == <<object, present, direct, late>>
handler == <<pc, unchecked, seen>>
bounds == <<faults, changes, outside>>
vars == <<server, config, state, handler, disturbed, bounds>>

Init == /\ object = TRUE /\ present = Names
        /\ direct = {} /\ late = {}
        /\ config = [r \in Resources |-> NotTracked]
        /\ state = [r \in Resources |-> NotTracked]
        /\ pc = [r \in Resources |-> "idle"]
        /\ unchecked = [r \in Resources |-> {}]
        /\ seen = [r \in Resources |-> {}]
        /\ disturbed = [r \in Resources |-> FALSE]
        /\ faults = 0 /\ changes = 0 /\ outside = 0

-----------------------------------------------------------------------------
(* Requests, and what Gravitino makes of them.                             *)

\* DiffAssociationNames.  A mutation run forgets what is to be removed.
DiffWithoutRemovals(current, desired) ==
  [add |-> desired \ current, remove |-> {}]
Diff(current, desired) ==
  [add |-> desired \ current, remove |-> current \ desired]

Destroying(r) == config[r] = NotTracked

\* What Create, Update and Delete ask for.
Request(r) ==
  IF Destroying(r) THEN [add |-> {}, remove |-> state[r]]
  ELSE IF state[r] = NotTracked THEN [add |-> config[r], remove |-> {}]
  ELSE Diff(state[r], config[r])

Empty(q) == q.add = {} /\ q.remove = {}
Mismatched(q) == Checked /\ q.add \cap (Incompatible \ Opaque) # {}

\* A name that does not exist cannot be attached; whether it may be detached is
\* up to the server.
Accepted(q) == object /\ q.add \subseteq present \ Incompatible
NotFound(q) == ~object \/ ~(q.add \cup q.remove \subseteq present)

\* What is attached already may be refused as a conflict.
Refused(q) == q.add \cap (direct \cup Incompatible) # {}

After(q) == IF Accepted(q) THEN (direct \ q.remove) \cup q.add ELSE direct

\* The list of an object shows what its parents carry, marked as inherited.
Listing == [name : direct, inherited : {FALSE}]
             \cup [name : Inherited \cap present, inherited : {TRUE}]

\* Read leaves out the inherited entries, but not in a mutation run.
EveryName(list) == {entry.name : entry \in list}
DirectNames(list) == {entry.name : entry \in {e \in list : ~e.inherited}}

-----------------------------------------------------------------------------
(* The handlers.                                                           *)

\* History: whoever acts, the others that are applying are disturbed.
Disturb(others) ==
  disturbed' = [r \in Resources |->
                  \/ disturbed[r] /\ pc'[r] = "apply"
                  \/ r \in others /\ pc[r] = "apply" /\ direct' # direct]

\* The handler returns; a mutation run keeps the names it did not come to.
LeaveUnreset(r) == /\ pc' = [pc EXCEPT ![r] = "idle"]
                   /\ UNCHANGED <<unchecked, seen>>
Leave(r) == /\ pc' = [pc EXCEPT ![r] = "idle"]
            /\ unchecked' = [unchecked EXCEPT ![r] = {}]
            /\ seen' = [seen EXCEPT ![r] = {}]

\* State is what was planned; Terraform core keeps the prior state of a handler
\* that fails.
Succeed(r) == Leave(r) /\ state' = [state EXCEPT ![r] = config[r]]
Fail(r) == Leave(r) /\ UNCHANGED state

\* The plan: nothing to do, or a handler whose first requests read the policies
\* to attach.
Plan(r, found) ==
  IF found = config[r]
  THEN UNCHANGED handler
  ELSE /\ pc' = [pc EXCEPT ![r] = "apply"]
       /\ unchecked' = [unchecked EXCEPT ![r] =
            IF Checked /\ ~Destroying(r)
            THEN IF found = NotTracked THEN config[r]
                 ELSE Diff(found, config[r]).add
            ELSE {}]
       /\ seen' = [seen EXCEPT ![r] = direct]

\* terraform apply starts: Read, and the plan.  A 404 removes the resource from
\* state; any other error ends the operation.
Read(r) ==
  /\ pc[r] = "idle"
  /\ \/ /\ state[r] = NotTracked /\ config[r] # NotTracked
        /\ Plan(r, NotTracked)
        /\ UNCHANGED <<state, faults>>
     \/ /\ state[r] # NotTracked /\ object
        /\ state' = [state EXCEPT ![r] = DirectNames(Listing)]
        /\ Plan(r, DirectNames(Listing))
        /\ UNCHANGED faults
     \/ /\ state[r] # NotTracked /\ ~object
        /\ state' = [state EXCEPT ![r] = NotTracked]
        /\ UNCHANGED <<handler, faults>>
     \/ /\ state[r] # NotTracked /\ faults < MaxFaults
        /\ faults' = faults + 1
        /\ UNCHANGED <<state, handler>>
  /\ Disturb({})
  /\ UNCHANGED <<server, config, changes, outside>>

\* checkPoliciesSupportObjectType reads the policies one by one, in any order.
\* One that is gone, or an error, ends the handler before it sends anything.
CheckPolicy(r) ==
  /\ pc[r] = "apply"
  /\ \E n \in unchecked[r] :
       \/ /\ n \in present
          /\ unchecked' = [unchecked EXCEPT ![r] = @ \ {n}]
          /\ UNCHANGED <<pc, seen, state, faults>>
       \/ /\ n \notin present
          /\ Fail(r) /\ UNCHANGED faults
       \/ /\ faults < MaxFaults
          /\ faults' = faults + 1 /\ Fail(r)
  /\ Disturb({})
  /\ UNCHANGED <<server, config, changes, outside>>

\* A destroy that finds the object or one of its names gone has succeeded; a
\* mutation run takes any refusal for that.
RefusalIsGone(r, answer) == Destroying(r)
CountsAsGone(r, answer) == Destroying(r) /\ answer = "notFound"

\* The one request of Create, Update and Delete.  Nothing is sent when there is
\* nothing to do or a policy does not fit; an answer other than 2xx and 4xx, or
\* none, fails the handler whether the request was carried out, will be, or
\* never is.
Associate(r) ==
  /\ pc[r] = "apply" /\ unchecked[r] = {}
  /\ LET q == Request(r)
         sent == ~Empty(q) /\ ~Mismatched(q)
     IN \/ /\ Empty(q)
           /\ Succeed(r) /\ UNCHANGED <<direct, late, faults>>
        \/ /\ Mismatched(q)
           /\ Fail(r) /\ UNCHANGED <<direct, late, faults>>
        \/ /\ sent /\ Accepted(q)
           /\ direct' = After(q)
           /\ Succeed(r) /\ UNCHANGED <<late, faults>>
        \/ /\ sent
           /\ \E answer \in {"notFound", "refused"} :
                /\ answer = "notFound" => NotFound(q)
                /\ answer = "refused" => Refused(q)
                /\ IF CountsAsGone(r, answer) THEN Succeed(r) ELSE Fail(r)
           /\ UNCHANGED <<direct, late, faults>>
        \/ /\ sent /\ faults < MaxFaults
           /\ \/ direct' \in {direct, After(q)} /\ UNCHANGED late
              \/ late' = late \cup {q} /\ UNCHANGED direct
           /\ IF CountsAsGone(r, "error") THEN Succeed(r) ELSE Fail(r)
           /\ faults' = faults + 1
  /\ Disturb(Resources \ {r})
  /\ UNCHANGED <<object, present, config, changes, outside>>

\* terraform import, followed by Read.
ImportState(r) ==
  /\ pc[r] = "idle" /\ state[r] = NotTracked /\ config[r] # NotTracked
  /\ object /\ outside < MaxOutside
  /\ state' = [state EXCEPT ![r] = DirectNames(Listing)]
  /\ outside' = outside + 1
  /\ UNCHANGED <<server, config, handler, disturbed, faults, changes>>

-----------------------------------------------------------------------------
\* The user edits the configuration while nothing is applied.
Configure == /\ changes < MaxChanges
             /\ \A r \in Resources : pc[r] = "idle"
             /\ \E r \in Resources, c \in (SUBSET Names) \cup {NotTracked} :
                  config' = [config EXCEPT ![r] = c]
             /\ changes' = changes + 1
             /\ UNCHANGED <<server, state, handler, disturbed, faults, outside>>

\* Others attach and detach names, delete a tag or policy, which detaches it
\* everywhere, and drop the object.
Others == /\ outside < MaxOutside
          /\ outside' = outside + 1
          /\ \/ /\ object
                /\ \E n \in present : direct' \in {direct \cup {n}, direct \ {n}}
                /\ UNCHANGED <<object, present>>
             \/ \E n \in present : /\ present' = present \ {n}
                                   /\ direct' = direct \ {n}
                                   /\ UNCHANGED object
             \/ object' = FALSE /\ direct' = {} /\ UNCHANGED present
          /\ UNCHANGED <<late, config, state, handler, faults, changes>>
          /\ Disturb(Resources)

\* The server gets to a request whose caller has given up.
CarriedOutLate ==
  \E q \in late : /\ direct' = After(q)
                  /\ late' = late \ {q}
                  /\ UNCHANGED <<object, present, config, state, handler, bounds>>
                  /\ Disturb(Resources)

Next == \/ \E r \in Resources :
             Read(r) \/ CheckPolicy(r) \/ Associate(r) \/ ImportState(r)
        \/ Configure \/ Others \/ CarriedOutLate

Spec == Init /\ [][Next]_vars

-----------------------------------------------------------------------------
NameSets == SUBSET Names
RequestSet == [add : NameSets, remove : NameSets]

TypeOK ==
  /\ object \in BOOLEAN
  /\ present \in NameSets
  /\ direct \in NameSets
  /\ late \subseteq RequestSet
  /\ config \in [Resources -> NameSets \cup {NotTracked}]
  /\ state \in [Resources -> NameSets \cup {NotTracked}]
  /\ pc \in [Resources -> {"idle", "apply"}]
  /\ unchecked \in [Resources -> NameSets]
  /\ \A r \in Resources : pc[r] = "idle" => unchecked[r] = {}
  /\ seen \in [Resources -> NameSets]
  /\ disturbed \in [Resources -> BOOLEAN]
  /\ faults \in 0 .. MaxFaults
  /\ changes \in 0 .. MaxChanges
  /\ outside \in 0 .. MaxOutside

\* The operation of r ends and state says what is configured.
Applied(r) == /\ pc[r] = "apply" /\ pc'[r] = "idle"
              /\ state'[r] = config[r]

\* When Update reports success and nobody else interfered since the Read of the
\* same apply, exactly the configured names are attached to the object, whatever
\* came before: lost calls, imports, other resources (association.go, Update).
UpdateConverges ==
  [][\A r \in Resources :
       Applied(r) /\ state[r] # NotTracked /\ ~Destroying(r) /\ ~disturbed[r]
         => direct' = config[r]]_vars

\* A handler detaches nothing that was not attached when its apply read the
\* object: neither what a parent carries, nor what another resource or user
\* attached meanwhile (association.go, Read and Update).
OnlySeenDetached ==
  [][\A r \in Resources :
       pc[r] = "apply" /\ pc'[r] = "idle" => direct \ direct' \subseteq seen[r]]_vars

\* A destroy that reports success while every name of its state still exists
\* leaves none of them attached (association.go, Delete).
DestroyDetaches ==
  [][\A r \in Resources :
       Applied(r) /\ Destroying(r) /\ state[r] \subseteq present
         => direct' \cap state[r] = {}]_vars
=============================================================================
