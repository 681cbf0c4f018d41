------------------------------ MODULE PlanApply ------------------------------
(***************************************************************************)
(* One resource of the provider under terraform plan and apply, whatever    *)
(* its kind: Terraform reads it, plans, and runs Create, Update or Delete,   *)
(* whose requests are carried out one after the other.  The kind is chosen   *)
(* once; ResourceKinds says what it asks for and how it merges answers.      *)
(* Others change the object between any two requests, the server refuses     *)
(* what it must, answers are lost, and the configuration is edited.          *)
(***************************************************************************)
EXTENDS ResourceKinds
LOCAL INSTANCE SequencesExt
LOCAL INSTANCE TLC

CONSTANTS Kinds,        \* the kinds one behaviour may be about
          Names,        \* names of objects
          Keys,         \* keys of properties that may be configured
          ManagedKey,   \* a reserved property the server adds to some objects
          CatalogKey,   \* one the catalog adds to a table, which is not reserved
          Members,      \* roles, users and privileges
          ManagedKinds, \* kinds to whose objects the server adds them
          AutoIncrements, \* what the auto increment of a column may be edited to
          MaxEdits,     \* bound on edits of the configuration
          MaxOutside,   \* bound on what others do
          MaxFaults,    \* bound on lost answers
          MaxApplies    \* how many applies have to be enough

ASSUME BoundAssumption == /\ MaxEdits \in Nat /\ MaxOutside \in Nat
                          /\ MaxFaults \in Nat /\ MaxApplies \in Nat
ASSUME NameAssumption == Names # {} /\ Null \notin Names /\ Unknown \notin Names
ASSUME ValueAssumption == Null # Unknown
\* What the server adds is not configured, and is added to no kind that reads every
\* property as its own.
ASSUME ManagedAssumption ==
  /\ ManagedKey \notin Keys /\ CatalogKey \notin Keys \cup {ManagedKey}
  /\ ManagedKinds \subseteq {"catalog", "table", "fileset", "partition", "identity"}
ASSUME KindAssumption ==
  Kinds \subseteq {"catalog", "schema", "topic", "model", "fileset", "tag", "policy", "view",
                   "derived_view", "function", "table", "job_template", "partition", "identity", "user",
                   "group", "role", "owner", "idp_user", "idp_group", "statistics",
                   "partition_statistics"}

VARIABLES kind,      \* what the resource is
          config,    \* its configuration, or Null
          state,     \* its Terraform state, or Null
          server,    \* what exists: from names to attributes
          known,     \* the members that exist
          pc,        \* "idle", "create", "update", "delete" or "undo"
          planned,   \* the plan of the running apply
          next,      \* whether the object is created again after its Delete
          todo,      \* requests the handler has still to send
          answer,    \* the last object the handler was answered with, or Null
          clean,     \* history: applied, and nothing has changed since
          disturbed, \* history: others have acted since the plan
          ours,      \* history: the name of the object the provider made, or Null
          applies,   \* history: applies begun since anything else happened
          edits, outside, faults   \* counters of the bounds

handler == <<pc, planned, next, todo, answer>>
bounds == <<edits, outside, faults>>
vars == <<kind, config, state, server, known, handler, clean, disturbed, ours, applies,
          bounds>>

Attrs == SchemaOf(kind).attrs
StatisticsKinds == {"statistics", "partition_statistics"}

-----------------------------------------------------------------------------
(* Gravitino.                                                              *)

Exists(n) == n \in DOMAIN server
View(srv, n) == Overlay([name |-> n], srv[n])

\* What the server adds by itself, and the name it gives an identity partition.
AddedKeys == {ManagedKey} \cup (IF kind = "table" THEN {CatalogKey} ELSE {})
WithManaged(o) ==
  IF kind \in ManagedKinds /\ "props" \in DOMAIN o
  THEN [o EXCEPT !.props = Overlay(@, [k \in AddedKeys |-> "managed"])]
  ELSE o
NameGiven(q) == IF q.target = Unknown THEN CHOOSE n \in Names : TRUE ELSE q.target

\* The name a request leaves the object with, and the object.
TargetOf(q) == IF "name" \in DOMAIN q.changes.plain THEN q.changes.plain.name
               ELSE NameGiven(q)
Changed(o, c) ==
  [a \in DOMAIN o |->
     LET v == IF a \in DOMAIN c.plain THEN c.plain[a] ELSE o[a]
     IN CASE a = "props"       -> Overlay(c.set, Only(v, DOMAIN v \ c.drop))
          [] a = "members"     -> (v \ c.remove) \cup c.add
          [] a = "columns"     -> ColumnsAfter(v, c.ops)
          [] a = "definitions" -> DefinitionsAfter(v, c.ops)
          [] OTHER         -> v]

\* Whether the server can do what is asked: a catalog is altered while it is in
\* use, and dropped while it is not.
InUseAllows(q) ==
  kind = "catalog" => /\ q.verb = "put" => server[q.target].flag
                      /\ q.verb = "delete" => ~server[q.target].flag
Possible(q) ==
  CASE q.verb = "post"        -> ~Exists(NameGiven(q))
    [] q.verb = "unsupported" -> FALSE
    [] OTHER -> /\ Exists(q.target)
                /\ InUseAllows(q)
                /\ kind = "function" /\ q.changes.ops # <<>> =>
                     DefinitionsAfter(server[q.target].definitions, q.changes.ops) # Null
                /\ kind = "table" /\ q.changes.ops # <<>> =>
                     ColumnsAfter(server[q.target].columns, q.changes.ops) # Null
                /\ TargetOf(q) # q.target => ~Exists(TargetOf(q))
                /\ q.changes.add \subseteq known

After(q) ==
  CASE q.verb \in {"get", "list"} -> server
    [] q.verb = "post"   -> Overlay([n \in {NameGiven(q)} |->
                                       WithManaged(q.changes.plain)], server)
    [] q.verb \in {"delete", "force"} -> Only(server, DOMAIN server \ {q.target})
    [] OTHER -> Overlay([n \in {TargetOf(q)} |->
                           WithManaged(Changed(server[q.target],
                             [q.changes EXCEPT !.plain = Only(@, DOMAIN @ \ {"name"})]))],
                        Only(server, DOMAIN server \ {q.target}))

\* The provider's object: made by its POST, moved by its PUT.
OursAfter(q) ==
  CASE q.verb = "post" -> NameGiven(q)
    [] q.verb \in {"delete", "force"} /\ q.target = ours -> Null
    [] q.verb \in {"put", "patch"} /\ q.target = ours -> TargetOf(q)
    [] OTHER -> ours

-----------------------------------------------------------------------------
(* Configurations.                                                         *)

Maps == {[k \in ks |-> "1"] : ks \in SUBSET Keys} \cup {[k \in Keys |-> "2"]}
Columns3 == <<[name |-> "a", type |-> 1, comment |-> "c", nullable |-> TRUE,
               default |-> Null, auto |-> FALSE],
              [name |-> "b", type |-> 1, comment |-> Null, nullable |-> TRUE,
               default |-> Null, auto |-> FALSE],
              [name |-> "c", type |-> 2, comment |-> Null, nullable |-> FALSE,
               default |-> "d", auto |-> FALSE]>>
ColumnLists ==
  {[i \in 1..3 |-> Columns3[f[i]]] : f \in Permutations(1..3)}
    \cup {SubSeq(Columns3, 1, 2)}
    \cup {[Columns3 EXCEPT ![1].type = t] : t \in {2, 11}}
    \cup {[Columns3 EXCEPT ![1].comment = c] : c \in {Null, ""}}
    \cup {[Columns3 EXCEPT ![2].nullable = FALSE], [Columns3 EXCEPT ![3].default = Null]}
    \cup {[Columns3 EXCEPT ![2].auto = v] : v \in AutoIncrements}
Indexes == {[name |-> n, props |-> Null] : n \in {Null, "i", "j"}}
             \cup {[name |-> Null, props |-> m] : m \in Maps}

Impl(r, b) == [runtime |-> r, body |-> b]
Definition(p, r, impls) == [params |-> p, returns |-> r, impls |-> impls]
ImplLists == {<<Impl("spark", 1)>>, <<Impl("spark", 2)>>, <<Impl("trino", 1)>>,
              <<Impl("spark", 1), Impl("trino", 1)>>, <<Impl("trino", 1), Impl("spark", 2)>>}
DefinitionLists ==
  {<<Definition(1, 1, l)>> : l \in ImplLists}
    \cup {<<Definition(p, 2, <<Impl("spark", 1)>>)>> : p \in {1, 2}}
    \cup {<<Definition(1, 1, <<Impl("spark", 1)>>), Definition(2, 1, <<Impl("spark", 1)>>)>>,
          <<Definition(2, 1, <<Impl("spark", 2)>>), Definition(1, 1, <<Impl("trino", 1)>>)>>}

ConfigurableAs(a) == CASE a = "name"    -> IF kind = "identity" THEN {Null} ELSE Names
                [] a = "comment" -> {Null, "", "a", "b"}
                [] a = "props"   -> IF kind \in StatisticsKinds THEN Maps ELSE {Null} \cup Maps
                [] a = "members" -> IF kind = "idp_user" THEN {Null}
                                    ELSE {Null} \cup SUBSET Members
                [] a \in {"flag", "force"} -> BOOLEAN
                [] a = "columns" -> ColumnLists
                [] a = "index"   -> Indexes
                [] a = "definitions" -> DefinitionLists
                [] OTHER         -> {1, 2}
FirstName == CHOOSE n \in Names : TRUE
FirstValue(a) == CASE a = "name"    -> IF kind = "identity" THEN Null ELSE FirstName
              [] a = "comment" -> "a"
              [] a = "props"   -> [k \in Keys |-> "1"]
              [] a = "members" -> IF kind = "idp_user" THEN Null ELSE Members
              [] a = "flag"    -> TRUE
              [] a = "force"   -> FALSE
              [] a = "columns" -> Columns3
              [] a = "index"   -> [name |-> Null, props |-> Null]
              [] a = "definitions" -> <<Definition(1, 1, <<Impl("spark", 1)>>)>>
              [] OTHER         -> 1
FirstConfig == [a \in Attrs |-> FirstValue(a)]

\* An owner and statistics belong to an object that is there without the provider.
Attached == {"owner"} \cup StatisticsKinds
InitialServer(k) ==
  CASE k = "owner"           -> [n \in {FirstName} |-> [content |-> 0]]
    [] k \in StatisticsKinds -> [n \in {FirstName} |-> [props |-> [m \in {ManagedKey} |-> "0"]]]
    [] OTHER                 -> NoMap

Init == /\ kind \in Kinds
        /\ config = FirstConfig /\ state = Null
        /\ server = InitialServer(kind) /\ known = Members
        /\ pc = "idle" /\ planned = Null /\ next = FALSE
        /\ todo = <<>> /\ answer = Null
        /\ clean = FALSE /\ disturbed = FALSE /\ ours = Null /\ applies = 0
        /\ edits = 0 /\ outside = 0 /\ faults = 0

-----------------------------------------------------------------------------
(* Terraform and the handlers.                                             *)

Start(op, p, requests, again) ==
  /\ pc' = op /\ planned' = p /\ next' = again
  /\ todo' = requests /\ answer' = Null
  /\ clean' = FALSE /\ disturbed' = FALSE
Stop == /\ pc' = "idle" /\ planned' = Null /\ next' = FALSE
        /\ todo' = <<>> /\ answer' = Null /\ disturbed' = FALSE

\* A plan that Terraform core does not accept ends there.
StartCreate(p) ==
  IF Accepted(kind, p, config, Null) THEN Start("create", p, Creates(kind, p), FALSE)
  ELSE Stop /\ clean' = FALSE

\* What Terraform does about the state s it has read.  Whatever differs from the
\* configuration makes the audit record unknown, so that there is something to do
\* even when the plan turns out to be the state.
Decide(s) ==
  CASE s = Null /\ config = Null -> Stop /\ clean' = TRUE
    [] s = Null /\ config # Null -> StartCreate(PlanCreate(kind, config))
    [] s # Null /\ config = Null -> Start("delete", s, Deletes(kind, s), FALSE)
    [] OTHER ->
         LET p == PlanUpdate(kind, config, s)
             accepted == Accepted(kind, p, config, s)
             replaced == Replaces(kind, config, p, s)
             again == Accepted(kind, PlanCreate(kind, config), config, Null)
         IN IF p = s /\ SameAsState(kind, config, s) THEN Stop /\ clean' = TRUE
            ELSE IF ~accepted \/ (replaced /\ ~again) THEN Stop /\ clean' = FALSE
            ELSE IF replaced THEN Start("delete", s, Deletes(kind, s), TRUE)
            ELSE Start("update", p, Updates(kind, p, s), FALSE)

\* Read: what exists is merged into state, what does not is removed from it.
ReadState == IF state = Null THEN Null
             ELSE Refreshed(kind, IF Exists(state.name) THEN View(server, state.name)
                                  ELSE Null, state, {ManagedKey})
ReadAndPlan == /\ pc = "idle"
               /\ state' = ReadState
               /\ Decide(ReadState)
               /\ applies' = IF pc' = "idle" \/ applies > MaxApplies THEN applies
                             ELSE applies + 1
               /\ UNCHANGED <<kind, config, server, known, ours, bounds>>

\* A handler that has failed leaves the state it found, after it has undone what
\* the failed request was prepared by.
Fail == Stop /\ clean' = FALSE /\ UNCHANGED state
FailAfter(q) ==
  IF q.undo = <<>> THEN Fail
  ELSE /\ pc' = "undo" /\ todo' = q.undo /\ next' = FALSE
       /\ UNCHANGED <<state, planned, answer, clean, disturbed>>

\* A 404 is a success of Delete; the update of a function that is not there removes it
\* from state, and so does the GET that ends the update of a role or a tag.
GoneOnUpdate(q) == /\ pc = "update" /\ ~Exists(q.target)
                   /\ kind = "function" \/ (kind \in {"role", "tag"} /\ q.verb = "get")
CountsAsGone(q) == pc = "delete" /\ ~Exists(q.target)

Refused(q) ==
  CASE CountsAsGone(q) -> /\ todo' = <<>>
                          /\ UNCHANGED <<state, pc, planned, next, answer, clean, disturbed>>
    [] GoneOnUpdate(q) -> Stop /\ state' = Null /\ clean' = FALSE
    [] OTHER           -> FailAfter(q)

\* The answer to a PATCH and to a delete names no object.
AnswerTo(q) == IF q.verb \in {"patch", "delete", "force"} THEN answer
               ELSE View(After(q), TargetOf(q))

\* The next request: carried out, refused (a server also refuses to drop what is
\* not empty), or left without an answer whether it is carried out or not.
Call ==
  /\ pc # "idle" /\ todo # <<>>
  /\ LET q == Head(todo)
     IN \/ /\ Possible(q)
           /\ server' = After(q) /\ ours' = OursAfter(q)
           /\ todo' = IF q.verb # "list" THEN Tail(todo)
                      ELSE Listed(kind, server[q.target].props, planned, {ManagedKey})
           /\ answer' = AnswerTo(q)
           /\ UNCHANGED <<state, pc, planned, next, clean, disturbed, applies, outside, faults>>
        \/ /\ ~Possible(q)
           /\ Refused(q)
           /\ UNCHANGED <<server, ours, applies, outside, faults>>
        \/ /\ q.verb = "delete" /\ Possible(q) /\ outside < MaxOutside
           /\ outside' = outside + 1 /\ applies' = 0
           /\ Refused(q)
           /\ UNCHANGED <<server, ours, faults>>
        \/ /\ faults < MaxFaults
           /\ faults' = faults + 1 /\ applies' = 0
           /\ FailAfter(q)
           /\ \/ UNCHANGED <<server, ours>>
              \/ Possible(q) /\ server' = After(q) /\ ours' = OursAfter(q)
           /\ UNCHANGED outside
  /\ UNCHANGED <<kind, config, known, edits>>

\* The handler writes state; a replaced object is created next.  A mutation run keeps
\* the old state until then.
WrittenOnceReplaced ==
  IF pc = "delete" THEN IF next THEN state ELSE Null
  ELSE IF answer = Null THEN Kept(kind, planned, state)
  ELSE Applied(kind, answer, planned, {ManagedKey})
Written ==
  IF pc = "delete" THEN Null
  ELSE IF answer = Null THEN Kept(kind, planned, state)
  ELSE Applied(kind, answer, planned, {ManagedKey})
Finish ==
  /\ pc # "idle" /\ todo = <<>>
  /\ \/ pc = "undo" /\ Fail
     \/ /\ pc # "undo"
        /\ state' = Written
        /\ IF next THEN StartCreate(PlanCreate(kind, config))
           ELSE Stop /\ clean' = ~disturbed
  /\ UNCHANGED <<kind, config, server, known, ours, applies, bounds>>

\* terraform import writes the name and reads the object.
Imported(n) == [a \in Attrs |-> IF a = "name" THEN n ELSE Null]
ImportState ==
  /\ pc = "idle" /\ state = Null /\ config # Null
  /\ \E n \in DOMAIN server :
       /\ state' = Refreshed(kind, View(server, n), Imported(n), {ManagedKey})
       /\ ours' = IF kind \in Attached THEN Null ELSE n
  /\ clean' = FALSE /\ applies' = 0
  /\ UNCHANGED <<kind, config, server, known, handler, disturbed, bounds>>
-----------------------------------------------------------------------------
(* The environment.                                                        *)

Edit == /\ pc = "idle" /\ edits < MaxEdits
        /\ edits' = edits + 1 /\ clean' = FALSE /\ applies' = 0
        /\ \/ /\ config # Null
              /\ \E a \in Attrs : \E v \in ConfigurableAs(a) \ {config[a]} :
                   config' = [config EXCEPT ![a] = v]
           \/ config # Null /\ config' = Null
           \/ config = Null /\ config' = FirstConfig
        /\ UNCHANGED <<kind, state, server, known, handler, disturbed, ours, outside, faults>>

\* Others drop the object, change an attribute of it, make one, or drop a member.
OthersValue(o, a) == CASE a = "comment" -> {"", "b"}
                       [] a = "props"   -> {Only(o[a], {}), Overlay([k \in {ManagedKey} |-> "x"], o[a]),
                                            [k \in DOMAIN o[a] |-> "2"]}
                       [] a = "members" -> SUBSET known
                       [] a = "flag"    -> BOOLEAN
                       [] a = "columns" -> {[o[a] EXCEPT ![1].type = 2], Reverse(o[a]), Tail(o[a])}
                       [] a = "index"   -> {}
                       [] a = "definitions" ->
                            {SelectSeq(o[a], LAMBDA d : d.params # 3)
                               \o <<Definition(3, 1, <<Impl("spark", 1)>>)>>,
                             [o[a] EXCEPT ![1].impls = <<Impl("trino", 2)>>],
                             [o[a] EXCEPT ![1].returns = 2]}
                       [] OTHER         -> {2}
Others ==
  /\ outside < MaxOutside /\ outside' = outside + 1
  /\ clean' = FALSE /\ applies' = 0 /\ disturbed' = (pc # "idle")
  /\ \/ \E n \in DOMAIN server :
          /\ server' = Only(server, DOMAIN server \ {n})
          /\ ours' = IF ours = n THEN Null ELSE ours
          /\ UNCHANGED known
     \/ \E n \in DOMAIN server : \E a \in DOMAIN server[n] :
          /\ \E v \in OthersValue(server[n], a) :
               server' = [server EXCEPT ![n][a] = v]
          /\ UNCHANGED <<known, ours>>
     \/ \E m \in known :
          /\ known' = known \ {m}
          /\ server' = [n \in DOMAIN server |->
               IF "members" \in DOMAIN server[n]
               THEN [server[n] EXCEPT !.members = @ \ {m}] ELSE server[n]]
          /\ UNCHANGED ours
  /\ UNCHANGED <<kind, config, state, handler, edits, faults>>

Next == ReadAndPlan \/ Call \/ Finish \/ ImportState \/ Edit \/ Others
Spec == Init /\ [][Next]_vars
-----------------------------------------------------------------------------
(* Properties.                                                             *)

TypeOK ==
  /\ kind \in Kinds
  /\ pc \in {"idle", "create", "update", "delete", "undo"}
  /\ config = Null \/ DOMAIN config = Attrs
  /\ state = Null \/ (DOMAIN state = Attrs /\ state.name \in Names)
  /\ DOMAIN server \subseteq Names
  /\ known \subseteq Members
  /\ ours \in DOMAIN server \cup {Null}
  /\ pc = "idle" => planned = Null /\ todo = <<>> /\ answer = Null
  /\ pc = "create" => state = Null
  /\ pc \in {"update", "delete"} => state # Null
  /\ clean => pc = "idle"

\* A job template shows an attribute that is configured as empty as not set at all.
EmptyOf(a, v) == \/ a = "comment" /\ v = ""
                 \/ a = "props" /\ v = NoMap
ShownAsNull(c) == kind = "job_template" /\ \E a \in DOMAIN c : EmptyOf(a, c[a])
\* What an imported table spells its own way is planned, without a change, forever.
Respelled(c) == kind = "table" /\ (CanonicalColumns(c.columns) # c.columns \/ c.comment = "")
NeverQuiet(c) == ShownAsNull(c) \/ Respelled(c)

\* What Terraform core checks after every apply ("Provider produced inconsistent
\* result after apply"): the state a handler writes has every value that was known
\* in its plan, whichever requests it took and however the answer spells an empty
\* comment or adds a property of its own.
AppliedAsPlanned ==
  [][(Finish /\ pc \in {"create", "update"} /\ ~disturbed) =>
       \A a \in Attrs : \/ planned[a] = Unknown
                        \/ state'[a] = planned[a]
                        \/ a = "index" /\ ~IndexChanged(planned[a], state'[a])
                        \/ kind = "job_template" /\ EmptyOf(a, planned[a])]_vars

\* An apply that succeeded leaves nothing to do: as long as neither the
\* configuration nor the object is touched, the next refresh and plan are empty.
QuietAfterApply ==
  clean => IF config = Null THEN state = Null
           ELSE /\ ReadState # Null
                /\ \/ /\ PlanUpdate(kind, config, ReadState) = ReadState
                      /\ SameAsState(kind, config, ReadState)
                   \/ NeverQuiet(config)

\* The kinds that keep the keys and the comment of the plan when the server does
\* not show them: what others have removed there stays removed.
TracksKeys == kind \in {"catalog", "table", "tag", "topic", "policy", "fileset", "partition", "identity"}
TracksComment == kind \in {"tag", "topic"}

SetOfDefinitions(defs) ==
  {[defs[i] EXCEPT !.impls = ToSet(@)] : i \in DOMAIN defs}
Agrees(a, c, v) ==
  \/ c = Null /\ a \in SchemaOf(kind).computed
  \/ CASE a = "comment" -> v = OnServer(a, c) \/ (TracksComment /\ v = "")
       [] a = "props"   ->
            /\ \A k \in DOMAIN AsMap(c) : IF k \in DOMAIN v THEN v[k] = c[k] ELSE TracksKeys
            /\ \/ DOMAIN v \subseteq DOMAIN AsMap(c) \/ TracksKeys
               \/ kind \in StatisticsKinds /\ DOMAIN v \ {ManagedKey} \subseteq DOMAIN c
       [] a = "members" -> v = AsSet(c)
       [] a \in {"secret", "force"} -> TRUE
       [] a = "columns" -> v = ColumnsToServer(CanonicalColumns(c))
       [] a = "index"   -> /\ c.name \in {Null, v.name}
                           /\ \A k \in DOMAIN AsMap(c.props) : AsMap(c.props)[k] = v.props[k]
       [] a = "definitions" -> SetOfDefinitions(v) = SetOfDefinitions(c)
       [] a = "flag"    -> v = c \/ kind = "catalog"
       [] OTHER         -> v = c

\* Drift is seen and undone: after an apply, or a plan that finds nothing to do,
\* the server has what is configured, whatever others did to the object or an
\* interrupted handler left half done before.
DriftRepaired ==
  clean /\ config # Null =>
    /\ Exists(state.name)
    /\ \A a \in Attrs \ {"name"} : Agrees(a, config[a], server[state.name][a])

\* The object the provider made is the one in its state.  Without a lost answer it
\* can only be lost from state by a Create whose second request is refused: that
\* of a user, a group or an IDP group.
TwoStepCreates == {"user", "group", "idp_group"}
OrphansOnlyFromHalves ==
  (pc = "idle" /\ ours # Null /\ faults = 0) =>
    \/ state # Null /\ state.name = ours
    \/ kind \in TwoStepCreates

\* What is configured and cannot be had, however often it is applied: a member that
\* does not exist, a name another object has, an owner or statistics of nothing, and a catalog
\* that others have disabled or enabled, which its Read does not show.
OutOfReach ==
  config # Null /\
    \/ "members" \in Attrs /\ ~(AsSet(config.members) \subseteq known)
    \/ Exists(config.name) /\ kind \notin Attached /\ (state = Null \/ state.name # config.name)
    \/ kind \in Attached /\ ~Exists(config.name)
    \/ /\ kind = "catalog" /\ state # Null /\ Exists(state.name)
       /\ server[state.name].flag # state.flag

\* A plan Terraform core does not accept, as the provider makes it when it shows "" as
\* not set or spells a type its own way.
PlanRefused ==
  config # Null /\ ~Accepted(kind, IF state = Null THEN PlanCreate(kind, config)
                                   ELSE PlanUpdate(kind, config, state), config, state)

\* Applying again and again comes to an end: once no one interferes, MaxApplies
\* applies leave nothing to do, also after one that failed halfway, unless what is
\* configured cannot be had.
SettlesWithin ==
  (pc = "idle" /\ applies > MaxApplies) =>
    OutOfReach \/ PlanRefused \/ (config # Null /\ NeverQuiet(config))

\* The comment of Update in partition/resource.go: "Update is unreachable".
UpdateUnreachable == kind \in {"partition", "identity"} => pc # "update"

\* The description of column in table/schema.go: type, comment, nullable,
\* auto_increment, default_value and position "are applied in place": an Update that
\* succeeds leaves the table with the planned columns.
ColumnsAppliedInPlace ==
  [][(Finish /\ kind = "table" /\ pc = "update" /\ ~disturbed) =>
       answer.columns = ColumnsToServer(planned.columns)]_vars
=============================================================================
