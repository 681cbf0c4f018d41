---------------------------- MODULE ModelVersion ----------------------------
(***************************************************************************)
(* gravitino_model_version (src/internal/resources/model_version/          *)
(* resource.go).  Linking a version answers without the number the server  *)
(* assigned, so Create asks for the newest version of the model in a       *)
(* second request.  Terraform runs the handlers of several resources of    *)
(* the same model at once unless they depend on each other; between any    *)
(* two requests of one of them the others, or someone outside, make        *)
(* theirs.  A version is what it points to (its uri); the other attributes *)
(* are written and read with it.                                           *)
(***************************************************************************)
EXTENDS Integers

CONSTANTS Resources,     \* the gravitino_model_version resources of one model
          URIs,          \* artifact locations
          MaxVersions,   \* bound on the versions ever linked
          MaxFaults,     \* bound on calls whose answer is lost
          MaxChanges,    \* bound on edits of the configuration
          MaxOutside,    \* bound on outside links, late links and imports
          Serial         \* TRUE: one resource operation at a time

ASSUME BoundAssumption == /\ MaxVersions \in Nat /\ MaxFaults \in Nat
                          /\ MaxChanges \in Nat /\ MaxOutside \in Nat
                          /\ Serial \in BOOLEAN

Numbers == 0 .. (MaxVersions - 1)
NoURI == "no uri"
NoVersion == -1
Someone == "someone else"

ASSUME ResourceAssumption == Someone \notin Resources
ASSUME URIAssumption == NoURI \notin URIs

VARIABLES uri,        \* [Numbers -> URIs \cup {NoURI}], the versions there are
          next,       \* the number the server assigns next
          linkedBy,   \* who linked each version
          config,     \* the uri in the configuration, NoURI if not configured
          version,    \* the version number in state, NoVersion if not tracked
          tainted,    \* Terraform core will replace the resource
          pc,         \* the next request of the operation of each resource
          found,      \* the number newestModelVersion settled on
          faults, changes, outside    \* counters of the bounds

server == <<uri, next, linkedBy>>
state == <<version, tainted>>
bounds == <<faults, changes, outside>>
vars == <<server, config, state, pc, found, bounds>>

Linked(n) == uri[n] # NoURI

\* The highest number of the list; a mutation run takes the lowest instead.
LowestLinked(n) == Linked(n) /\ \A m \in Numbers : Linked(m) => n <= m
Newest(n) == Linked(n) /\ \A m \in Numbers : Linked(m) => m <= n

Init == /\ uri = [n \in Numbers |-> NoURI]
        /\ next = 0
        /\ linkedBy = [n \in Numbers |-> Someone]
        /\ config = [r \in Resources |-> NoURI]
        /\ version = [r \in Resources |-> NoVersion]
        /\ tainted = [r \in Resources |-> FALSE]
        /\ pc = [r \in Resources |-> "idle"]
        /\ found = [r \in Resources |-> NoVersion]
        /\ faults = 0 /\ changes = 0 /\ outside = 0

GoTo(r, l) == pc' = [pc EXCEPT ![r] = l]

\* What Terraform core keeps in state: a resource, or nothing.  A mutation run
\* counts versions from one.
KeepOneBased(r, n, t) == /\ version' = [version EXCEPT ![r] = n + 1]
                         /\ tainted' = [tainted EXCEPT ![r] = t]
Keep(r, n, t) == /\ version' = [version EXCEPT ![r] = n]
                 /\ tainted' = [tainted EXCEPT ![r] = t]

Forget(r) == Keep(r, NoVersion, FALSE)

\* setModelVersionState at the end of Create, and what Terraform core makes of
\* it: a uri that is not the planned one taints the resource, while the planned
\* uris map is kept whatever the server has.
Record(r, n) == \/ Keep(r, n, uri[n] # config[r])
                \/ Keep(r, n, FALSE)

\* The server links a new version with the next number.
Link(who, u) == /\ next < MaxVersions
                /\ uri' = [uri EXCEPT ![next] = u]
                /\ linkedBy' = [linkedBy EXCEPT ![next] = who]
                /\ next' = next + 1

\* An error answer, whatever became of the request: the handler fails and the
\* prior state stays.
Fault(r) == /\ faults < MaxFaults
            /\ faults' = faults + 1
            /\ GoTo(r, "idle")
            /\ UNCHANGED <<state, found>>

-----------------------------------------------------------------------------
\* terraform apply starts on a resource that is not what is configured: Read,
\* then one handler.  A 404 removes the resource from state.
Begin(r) ==
  /\ pc[r] = "idle"
  /\ Serial => \A q \in Resources : pc[q] = "idle"
  /\ \/ /\ version[r] = NoVersion /\ config[r] # NoURI
        /\ GoTo(r, "link") /\ UNCHANGED state
     \/ /\ version[r] # NoVersion /\ ~Linked(version[r])
        /\ Forget(r) /\ UNCHANGED pc
     \/ /\ version[r] # NoVersion /\ Linked(version[r])
        /\ \/ tainted[r] \/ config[r] = NoURI
        /\ GoTo(r, "delete") /\ UNCHANGED state
     \/ /\ version[r] # NoVersion /\ Linked(version[r]) /\ ~tainted[r]
        /\ config[r] \notin {NoURI, uri[version[r]]}
        /\ GoTo(r, "update") /\ UNCHANGED state
  /\ UNCHANGED <<server, config, found, bounds>>

\* Create, first request: POST, answered with a plain BaseResponse.
LinkModelVersion(r) ==
  /\ pc[r] = "link"
  /\ \/ /\ Link(r, config[r])
        /\ GoTo(r, "list") /\ UNCHANGED <<state, found, faults>>
     \/ /\ Fault(r)
        /\ Link(r, config[r]) \/ UNCHANGED server
  /\ UNCHANGED <<config, changes, outside>>

\* Create, second request: newestModelVersion takes the highest number of the
\* list.  A server that lists details has answered with the version as well; of
\* one that lists bare numbers the version is requested next.
ListModelVersions(r) ==
  /\ pc[r] = "list"
  /\ \/ \E n \in Numbers :
          /\ Newest(n)
          /\ \/ Record(r, n) /\ GoTo(r, "idle") /\ UNCHANGED found
             \/ /\ found' = [found EXCEPT ![r] = n]
                /\ GoTo(r, "get") /\ UNCHANGED state
          /\ UNCHANGED faults
     \/ /\ \A n \in Numbers : ~Linked(n)
        /\ GoTo(r, "idle") /\ UNCHANGED <<state, found, faults>>
     \/ Fault(r)
  /\ UNCHANGED <<server, config, changes, outside>>

\* Create, third request.
GetModelVersion(r) ==
  /\ pc[r] = "get"
  /\ \/ /\ Linked(found[r])
        /\ Record(r, found[r])
        /\ GoTo(r, "idle") /\ UNCHANGED <<found, faults>>
     \/ /\ ~Linked(found[r])
        /\ GoTo(r, "idle") /\ UNCHANGED <<state, found, faults>>
     \/ Fault(r)
  /\ UNCHANGED <<server, config, changes, outside>>

\* Update: one PUT with the changed attributes to the version in state.
UpdateModelVersion(r) ==
  /\ pc[r] = "update"
  /\ LET n == version[r]
         updated == uri' = [uri EXCEPT ![n] = config[r]]
     IN \/ /\ Linked(n) /\ updated
           /\ Keep(r, n, FALSE)
           /\ GoTo(r, "idle") /\ UNCHANGED <<found, faults>>
        \/ /\ ~Linked(n) /\ UNCHANGED uri
           /\ GoTo(r, "idle") /\ UNCHANGED <<state, found, faults>>
        \/ Fault(r) /\ ((Linked(n) /\ updated) \/ UNCHANGED uri)
  /\ UNCHANGED <<next, linkedBy, config, changes, outside>>

\* Delete: a version that is gone already counts as deleted.
DeleteModelVersion(r) ==
  /\ pc[r] = "delete"
  /\ LET removed == uri' = [uri EXCEPT ![version[r]] = NoURI]
     IN \/ /\ removed
           /\ Forget(r)
           /\ GoTo(r, "idle") /\ UNCHANGED <<found, faults>>
        \/ Fault(r) /\ (removed \/ UNCHANGED uri)
  /\ UNCHANGED <<next, linkedBy, config, changes, outside>>

-----------------------------------------------------------------------------
\* The user edits the configuration while nothing is applied.
Configure == /\ changes < MaxChanges
             /\ \A r \in Resources : pc[r] = "idle"
             /\ \E r \in Resources, u \in URIs \cup {NoURI} :
                  config' = [config EXCEPT ![r] = u]
             /\ changes' = changes + 1
             /\ UNCHANGED <<server, state, pc, found, faults, outside>>

\* Someone else links a version, or the server gets to a POST whose caller has
\* given up.
OutsideLink == /\ outside < MaxOutside
               /\ \E u \in URIs : Link(Someone, u)
               /\ outside' = outside + 1
               /\ UNCHANGED <<config, state, pc, found, faults, changes>>

\* terraform import of a version by its number, followed by Read.
ImportState(r) ==
  /\ pc[r] = "idle" /\ version[r] = NoVersion /\ config[r] # NoURI
  /\ outside < MaxOutside
  /\ \E n \in Numbers : Linked(n) /\ Keep(r, n, FALSE)
  /\ outside' = outside + 1
  /\ UNCHANGED <<server, config, pc, found, faults, changes>>

Next == \/ \E r \in Resources :
             \/ Begin(r) \/ LinkModelVersion(r) \/ ListModelVersions(r)
             \/ GetModelVersion(r) \/ UpdateModelVersion(r)
             \/ DeleteModelVersion(r) \/ ImportState(r)
        \/ Configure \/ OutsideLink

Spec == Init /\ [][Next]_vars

-----------------------------------------------------------------------------
TypeOK ==
  /\ uri \in [Numbers -> URIs \cup {NoURI}]
  /\ next \in 0 .. MaxVersions
  /\ linkedBy \in [Numbers -> Resources \cup {Someone}]
  /\ config \in [Resources -> URIs \cup {NoURI}]
  /\ version \in [Resources -> Numbers \cup {NoVersion}]
  /\ tainted \in [Resources -> BOOLEAN]
  /\ pc \in [Resources -> {"idle", "link", "list", "get", "update", "delete"}]
  /\ found \in [Resources -> Numbers \cup {NoVersion}]
  /\ faults \in 0 .. MaxFaults
  /\ changes \in 0 .. MaxChanges
  /\ outside \in 0 .. MaxOutside

\* model_version/resource.go:354-355: the newest version is the one that was
\* just linked, so the version in state is one this resource linked.
OwnVersionRecorded ==
  \A r \in Resources : version[r] # NoVersion => linkedBy[version[r]] = r

\* No two resources manage the same version, so that no destroy or update of
\* one takes away or rewrites what the other manages.
VersionsNotShared ==
  \A q, r \in Resources : version[q] = version[r] /\ version[q] # NoVersion
                            => q = r

\* No handler removes or rewrites a version that another resource linked.
OthersVersionsUntouched ==
  [][\A n \in Numbers, r \in Resources :
       pc[r] \in {"update", "delete"} /\ pc'[r] # pc[r] /\ uri'[n] # uri[n]
         => linkedBy[n] = r]_vars

\* Even when handlers of several resources overlap and a model loses versions
\* meanwhile, Create never records a version older than one that its resource
\* linked and that still exists.
NeverOlderThanOwn ==
  [][\A r \in Resources :
       pc[r] \in {"list", "get"} /\ pc'[r] = "idle" /\ version'[r] # NoVersion
         => \A n \in Numbers : linkedBy[n] = r /\ Linked(n)
                                 => n <= version'[r]]_vars
=============================================================================
