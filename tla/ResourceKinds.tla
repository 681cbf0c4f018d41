---------------------------- MODULE ResourceKinds ----------------------------
(***************************************************************************)
(* What distinguishes the resources of the provider that follow Terraform's *)
(* plain lifecycle: which attributes replace the object, which the server   *)
(* may fill in, which requests Create and Update send, in which order, and  *)
(* how an answer is merged into what was planned (after an apply) or into   *)
(* the state (on a refresh).  One section per question, one operator per    *)
(* resource; PlanApply runs them.                                          *)
(*                                                                         *)
(* Attributes stand for all of their sort: "comment" an optional string,    *)
(* "props" an optional map, "members" an optional set of names (roles,      *)
(* users, privileges), "flag" a boolean with a default, "content" a payload *)
(* that is always configured (of a table: what cannot be altered), "secret"   *)
(* one the server never shows; "columns", "index" and "definitions" are those  *)
(* of TableColumns and FunctionDefinitions.  The parents of an object, its id   *)
(* and its audit record are left out.                                      *)
(***************************************************************************)
EXTENDS TerraformValues, TableColumns, FunctionDefinitions

\* What an attribute is once the server has it: JSON leaves out an empty string.
OnServer(a, v) == CASE a = "comment" /\ v \in NotSet -> ""
                    [] a = "props"   -> AsMap(v)
                    [] a = "members" -> AsSet(v)
                    [] a = "columns" -> ColumnsToServer(v)
                    [] a = "index"   -> [name |-> IF v.name \in NotSet THEN "i" ELSE v.name,
                                         props |-> AsMap(v.props)]
                    [] OTHER         -> v

-----------------------------------------------------------------------------
(* Schema: the attributes a change of which replaces the object, those the  *)
(* server may compute, those of them that keep their state while they are   *)
(* not configured (UseStateForUnknown).                                    *)

CatalogSchema == [attrs |-> {"name", "comment", "props", "flag", "force"}, replace |-> {},
                  computed |-> {"comment", "props"}, keep |-> {"comment", "props"}]
SchemaSchema == [attrs |-> {"name", "comment", "props"},
                 replace |-> {"name", "comment"}, computed |-> {}, keep |-> {}]
TopicSchema == [attrs |-> {"name", "comment", "props"},
                replace |-> {"name"}, computed |-> {"props"}, keep |-> {"props"}]
ModelSchema == [attrs |-> {"name", "comment", "props"},
                replace |-> {}, computed |-> {}, keep |-> {}]
FilesetSchema == [attrs |-> {"name", "comment", "props"}, replace |-> {},
                  computed |-> {"comment", "props"}, keep |-> {"comment", "props"}]
TagSchema == [attrs |-> {"name", "comment", "props"}, replace |-> {},
              computed |-> {"comment", "props"}, keep |-> {"comment", "props"}]
PolicySchema == [attrs |-> {"name", "comment", "props", "flag"}, replace |-> {},
                 computed |-> {"comment", "props"}, keep |-> {"comment", "props"}]
ViewSchema == [attrs |-> {"name", "comment", "props"},
               replace |-> {"comment"}, computed |-> {"props"}, keep |-> {}]
\* A view whose columns are not configured: any change makes them unknown in the plan,
\* and a view whose columns are planned to change is replaced.
DerivedViewSchema == [attrs |-> {"name", "comment", "props"},
                      replace |-> {"name", "comment", "props"},
                      computed |-> {"props"}, keep |-> {}]
FunctionSchema == [attrs |-> {"name", "comment", "definitions"},
                   replace |-> {"name"}, computed |-> {}, keep |-> {}]
TableSchema == [attrs |-> {"name", "comment", "props", "columns", "content", "index"},
                replace |-> {"content"}, computed |-> {"props"}, keep |-> {"props"}]
JobTemplateSchema == [attrs |-> {"name", "comment", "content", "props"},
                      replace |-> {}, computed |-> {}, keep |-> {}]
PartitionSchema == [attrs |-> {"name", "props"}, replace |-> {"name", "props"},
                    computed |-> {"name", "props"}, keep |-> {}]
UserSchema == [attrs |-> {"name", "members"}, replace |-> {"name"},
               computed |-> {"members"}, keep |-> {"members"}]
GroupSchema == [attrs |-> {"name", "members"}, replace |-> {"name"},
                computed |-> {"members"}, keep |-> {"members"}]
RoleSchema == [attrs |-> {"name", "props", "members"}, replace |-> {"name"},
               computed |-> {"props", "members"}, keep |-> {"props"}]
OwnerSchema == [attrs |-> {"name", "content"}, replace |-> {"name"},
                computed |-> {}, keep |-> {}]
IdpUserSchema == [attrs |-> {"name", "secret", "members"}, replace |-> {"name"},
                  computed |-> {"members"}, keep |-> {}]
IdpGroupSchema == [attrs |-> {"name", "members"}, replace |-> {"name"},
                   computed |-> {"members"}, keep |-> {"members"}]
StatisticsSchema == [attrs |-> {"name", "props"}, replace |-> {"name"},
                     computed |-> {}, keep |-> {}]
PartitionStatisticsSchema == [attrs |-> {"name", "props"}, replace |-> {"name"},
                              computed |-> {}, keep |-> {}]

SchemaOf(kind) == CASE kind = "catalog"      -> CatalogSchema
                    [] kind = "schema"       -> SchemaSchema
                    [] kind = "topic"        -> TopicSchema
                    [] kind = "model"        -> ModelSchema
                    [] kind = "fileset"      -> FilesetSchema
                    [] kind = "tag"          -> TagSchema
                    [] kind = "policy"       -> PolicySchema
                    [] kind = "view"         -> ViewSchema
                    [] kind = "derived_view" -> DerivedViewSchema
                    [] kind = "function"     -> FunctionSchema
                    [] kind = "table"        -> TableSchema
                    [] kind = "job_template" -> JobTemplateSchema
                    [] kind \in {"partition", "identity"} -> PartitionSchema
                    [] kind = "user"         -> UserSchema
                    [] kind = "group"        -> GroupSchema
                    [] kind = "role"         -> RoleSchema
                    [] kind = "owner"        -> OwnerSchema
                    [] kind = "idp_user"     -> IdpUserSchema
                    [] kind = "idp_group"    -> IdpGroupSchema
                    [] kind = "statistics"   -> StatisticsSchema
                    [] kind = "partition_statistics" -> PartitionStatisticsSchema

-----------------------------------------------------------------------------
(* The plan.                                                               *)

\* The comment of a function: "" is planned as no comment, and to clear one
\* replaces the function.
PlannedComment(c) == IF c = "" THEN Null ELSE c
CommentCleared(p, s) == p.comment = Null /\ s.comment # Null

\* mapplanmodifier.RequiresReplaceIfConfigured on the properties of a role.
RolePropertiesReplaced(c, p, s) == c.props # Null /\ p.props # s.props

\* ModifyPlan: the catalog names an identity partition.
IdentityName(p) == [p EXCEPT !.name = Unknown]

\* The plan of a table is made canonical.
CanonicalisePlan(p) == [p EXCEPT !.comment = OptionalStringToTF(@),
                                 !.columns = CanonicalColumns(@)]

Modified(kind, p) ==
  CASE kind = "function" -> [p EXCEPT !.comment = PlannedComment(@)]
    [] kind = "identity" -> IdentityName(p)
    [] kind = "table"    -> CanonicalisePlan(p)
    [] OTHER             -> p

\* The Terraform framework: what is not configured and may be computed is unknown
\* in the plan of a new object, and keeps its state unless something else changes.
\* The name of an index is computed, too.
Fill(a, v, name) == IF a = "index" /\ v.name = Null THEN [v EXCEPT !.name = name] ELSE v

PlanCreate(kind, c) ==
  LET sch == SchemaOf(kind)
  IN Modified(kind, [a \in sch.attrs |->
       IF c[a] = Null /\ a \in sch.computed THEN Unknown ELSE Fill(a, c[a], Unknown)])

NotConfigured(kind, c, a) == c[a] = Null /\ a \in SchemaOf(kind).computed
IndexName(s) == IF s.index = Null THEN Null ELSE s.index.name
SameAsState(kind, c, s) ==
  \A a \in SchemaOf(kind).attrs :
    NotConfigured(kind, c, a)
      \/ s[a] = (IF a = "index" THEN Fill(a, c[a], IndexName(s)) ELSE c[a])

PlanUpdate(kind, c, s) ==
  LET sch == SchemaOf(kind)
      same == SameAsState(kind, c, s)
      kept(a) == same \/ (a \in sch.keep /\ s[a] # Null)
  IN Modified(kind, [a \in sch.attrs |->
       IF ~NotConfigured(kind, c, a)
       THEN Fill(a, c[a], IF a = "index" /\ same THEN IndexName(s) ELSE Unknown)
       ELSE IF kept(a) THEN s[a] ELSE Unknown])

\* Terraform core takes a planned value that is the configured one, or the one in
\* state if something is configured, or that may be computed.
AcceptedValue(p, c, before) == p = c \/ (p = before /\ before # Null /\ c # Null)
AcceptedColumn(p, c, before) ==
  \A f \in {"type", "comment"} :
    AcceptedValue(p[f], c[f], IF before = Null THEN Null ELSE before[f])
Accepted(kind, p, c, s) ==
  \A a \in SchemaOf(kind).attrs \ SchemaOf(kind).computed :
    CASE a = "index"   -> TRUE
      [] a = "columns" -> \A i \in DOMAIN p[a] :
           AcceptedColumn(p[a][i], c[a][i], IF s # Null /\ i \in DOMAIN s[a] THEN s[a][i]
                                            ELSE Null)
      [] OTHER -> AcceptedValue(p[a], c[a], IF s = Null THEN Null ELSE s[a])

\* What ModifyPlan of a table adds: columns and index.
TableReplaced(p, s) == \/ ColumnsReplaceRequired(p.columns, s.columns)
                       \/ s.index = Null
                       \/ IndexChanged(p.index, s.index)

\* RequiresReplace runs before ModifyPlan, which asks for no replacement of an
\* identity partition.
Replaces(kind, c, p, s) ==
  \/ \E a \in SchemaOf(kind).replace :
        p[a] # s[a] /\ ~(kind = "identity" /\ a = "name")
  \/ kind = "function" /\ CommentCleared(p, s)
  \/ kind = "role" /\ RolePropertiesReplaced(c, p, s)
  \/ kind = "table" /\ TableReplaced(p, s)

-----------------------------------------------------------------------------
(* Requests.  A PUT carries changes: plain attributes with their new value,  *)
(* properties to set and to drop, members to add and to remove, and the       *)
(* ordered requests for columns or definitions.  "undo" is what the handler   *)
(* asks for when the request fails, before it gives up.                      *)

Nothing == [plain |-> NoMap, set |-> NoMap, drop |-> {}, add |-> {}, remove |-> {},
            ops |-> <<>>]
AsksOrElse(verb, target, changes, undo) ==
  [verb |-> verb, target |-> target, changes |-> Overlay(changes, Nothing),
   undo |-> undo]
Asks(verb, target, changes) == AsksOrElse(verb, target, changes, <<>>)
Get(n) == Asks("get", n, Nothing)

Post(p, attrs) ==
  Asks("post", p.name,
       [plain |-> [a \in attrs \ {"name"} |-> OnServer(a, p[a])]])

Differs(a, p, s) == a \in DOMAIN p /\ p[a] # Unknown /\ p[a] # s[a]

\* One update request per property that is new, changed or gone.  A mutation run
\* forgets those that are gone.
PropertyUpdatesKept(p, s) ==
  [set |-> IF Differs("props", p, s) THEN AsMap(p.props) ELSE NoMap, drop |-> {}]
PropertyUpdates(p, s) ==
  IF ~Differs("props", p, s) THEN [set |-> NoMap, drop |-> {}]
  ELSE LET old == AsMap(s.props)
           new == AsMap(p.props)
       IN [set |-> Only(new, {k \in DOMAIN new : k \notin DOMAIN old
                                                  \/ old[k] # new[k]}),
           drop |-> DOMAIN old \ DOMAIN new]

PlainUpdates(p, s, attrs) ==
  [a \in {x \in attrs : Differs(x, p, s)} |-> OnServer(a, p[a])]

Changes(p, s, attrs) ==
  Overlay([plain |-> PlainUpdates(p, s, attrs)],
          Overlay(PropertyUpdates(p, s), Nothing))

Send(s, changes) == IF changes = Nothing THEN <<>>
                    ELSE <<Asks("put", s.name, changes)>>
SendOrGet(s, changes) == IF changes = Nothing THEN <<Get(s.name)>>
                         ELSE <<Asks("put", s.name, changes)>>

\* A catalog is altered only while it is in use: a disabled one is enabled for the
\* PUT, and disabled again whether that succeeds (at the new name) or not.
Enable(n, flag) == <<Asks("patch", n, [plain |-> [flag |-> flag]])>>
Temporarily(p, s, changes) == p.flag = s.flag /\ ~p.flag /\ changes # Nothing
CatalogUpdate(p, s) ==
  LET changes == Changes(p, s, {"name", "comment"})
      briefly == Temporarily(p, s, changes)
  IN (IF (p.flag # s.flag /\ p.flag) \/ briefly THEN Enable(s.name, TRUE) ELSE <<>>)
     \o (IF changes = Nothing THEN <<>>
         ELSE <<AsksOrElse("put", s.name, changes,
                           IF briefly THEN Enable(s.name, FALSE) ELSE <<>>)>>)
     \o (IF (p.flag # s.flag /\ ~p.flag) \/ briefly THEN Enable(p.name, FALSE) ELSE <<>>)

SchemaUpdate(p, s) == Send(s, Changes(p, s, {}))
TopicUpdate(p, s) == SendOrGet(s, Changes(p, s, {"comment"}))
ModelUpdate(p, s) == SendOrGet(s, Changes(p, s, {"name", "comment"}))
FilesetUpdate(p, s) == Send(s, Changes(p, s, {"name", "comment"}))
\* The comment of a tag is compared while it is unknown, too, and then cleared.
TagUpdate(p, s) ==
  SendOrGet(s, Changes([p EXCEPT !.comment = IF @ = Unknown THEN "" ELSE @], s,
                       {"name", "comment"}))
ViewUpdate(p, s) == SendOrGet(s, Changes(p, s, {"name"}))
FunctionUpdate(p, s) ==
  SendOrGet(s, Overlay([ops |-> DefinitionUpdates(p.definitions, s.definitions)],
                       Changes(p, s, {"comment"})))

\* A change Gravitino has no request for is an error (the plan should have replaced
\* the table); the table is read back after the PUT.
TableUpdate(p, s) ==
  IF p.content # s.content \/ TableReplaced(p, s)
  THEN <<Asks("unsupported", s.name, Nothing)>>
  ELSE Send(s, Overlay([ops |-> ColumnUpdates(p.columns, s.columns)],
                       Changes(p, s, {"name", "comment"})))
       \o <<Get(p.name)>>

\* The environments are sent as a whole, as is every part of the content.
JobTemplateUpdate(p, s) ==
  Send(s, Overlay([plain |-> PlainUpdates(p, s, {"name", "comment", "content", "props"})],
                  Nothing))

\* One PUT for name, comment and content (with the properties as a whole, unless they
\* are the same map), then one PATCH for the flag, at the name the PUT has given.
PolicyPatchAtOldName(p, s) ==
  IF Differs("flag", p, s)
  THEN <<Asks("patch", s.name, [plain |-> [flag |-> p.flag]])>>
  ELSE <<>>
PolicyPatch(p, s) ==
  IF Differs("flag", p, s)
  THEN <<Asks("patch", p.name, [plain |-> [flag |-> p.flag]])>>
  ELSE <<>>
PolicyContentEqual(p, s) == AsMap(p.props) = AsMap(s.props)
PolicyAttrs(p, s) ==
  {"name", "comment"} \cup (IF PolicyContentEqual(p, s) THEN {} ELSE {"props"})
PolicyUpdate(p, s) ==
  Send(s, Overlay([plain |-> PlainUpdates(p, s, PolicyAttrs(p, s))], Nothing))
  \o PolicyPatch(p, s)

\* Every attribute replaces the partition: there is nothing to update.
PartitionUpdate(p, s) == <<Asks("unsupported", s.name, Nothing)>>

\* diffRoles, granted first and revoked afterwards.
RolesUpdate(p, s) ==
  LET grant == AsSet(p.members) \ AsSet(s.members)
      revoke == AsSet(s.members) \ AsSet(p.members)
  IN (IF grant = {} THEN <<>> ELSE <<Asks("put", s.name, [add |-> grant])>>)
     \o (IF revoke = {} THEN <<>> ELSE <<Asks("put", s.name, [remove |-> revoke])>>)
UserUpdate(p, s) == RolesUpdate(p, s)
GroupUpdate(p, s) == RolesUpdate(p, s)

\* The privileges are overridden, and the role is read back.
RoleUpdate(p, s) ==
  Send(s, Overlay([plain |-> PlainUpdates(p, s, {"members"})], Nothing))
  \o <<Get(p.name)>>

OwnerUpdate(p, s) == <<Asks("put", p.name, [plain |-> [content |-> p.content]])>>

IdpUserUpdate(p, s) ==
  Send(s, Overlay([plain |-> PlainUpdates(p, s, {"secret"})], Nothing))

IdpGroupUpdate(p, s) ==
  LET wanted == IF p.members = Unknown THEN AsSet(s.members) ELSE AsSet(p.members)
      had == AsSet(s.members)
  IN Send(s, Overlay([add |-> wanted \ had, remove |-> had \ wanted], Nothing))

\* apply: what is there is listed first, and only what differs from it is written, then
\* dropped.  A statistic the catalog supplies is neither; that of a partition is named
\* by the partition, too.
CurrentStatistics(v, reserved) == Only(v, DOMAIN v \ reserved)
CurrentPartitions(v, reserved) == Only(v, DOMAIN v \ reserved)
ToWrite(current, desired) ==
  Only(desired, {k \in DOMAIN desired : k \notin DOMAIN current \/ current[k] # desired[k]})
Write(n, set) == IF set = NoMap THEN <<>> ELSE <<Asks("put", n, [set |-> set])>>
DropNames(n, names) == IF names = {} THEN <<>> ELSE <<Asks("put", n, [drop |-> names])>>
StatisticsWrites(p, current) ==
  Write(p.name, ToWrite(current, p.props))
  \o DropNames(p.name, DOMAIN current \ DOMAIN p.props)
PartitionStatisticsWrites(p, current) ==
  Write(p.name, ToWrite(current, p.props))
  \o DropNames(p.name, DOMAIN current \ DOMAIN p.props)
Listed(kind, v, p, reserved) ==
  IF kind = "statistics" THEN StatisticsWrites(p, CurrentStatistics(v, reserved))
  ELSE PartitionStatisticsWrites(p, CurrentPartitions(v, reserved))
List(p) == <<Asks("list", p.name, Nothing)>>
StatisticsUpdate(p, s) == List(p)
PartitionStatisticsUpdate(p, s) == List(p)

Updates(kind, p, s) == CASE kind = "catalog"      -> CatalogUpdate(p, s)
                         [] kind = "schema"       -> SchemaUpdate(p, s)
                         [] kind = "topic"        -> TopicUpdate(p, s)
                         [] kind = "model"        -> ModelUpdate(p, s)
                         [] kind = "fileset"      -> FilesetUpdate(p, s)
                         [] kind = "tag"          -> TagUpdate(p, s)
                         [] kind = "policy"       -> PolicyUpdate(p, s)
                         [] kind \in {"view", "derived_view"} -> ViewUpdate(p, s)
                         [] kind = "function"     -> FunctionUpdate(p, s)
                         [] kind = "table"        -> TableUpdate(p, s)
                         [] kind = "job_template" -> JobTemplateUpdate(p, s)
                         [] kind \in {"partition", "identity"} -> PartitionUpdate(p, s)
                         [] kind = "user"         -> UserUpdate(p, s)
                         [] kind = "group"        -> GroupUpdate(p, s)
                         [] kind = "role"         -> RoleUpdate(p, s)
                         [] kind = "owner"        -> OwnerUpdate(p, s)
                         [] kind = "idp_user"     -> IdpUserUpdate(p, s)
                         [] kind = "idp_group"    -> IdpGroupUpdate(p, s)
                         [] kind = "statistics"   -> StatisticsUpdate(p, s)
                         [] kind = "partition_statistics" -> PartitionStatisticsUpdate(p, s)

\* Create: one POST of the planned values for most resources.
\* A catalog is created in use.
CatalogCreate(p) ==
  <<Asks("post", p.name, [plain |-> [comment |-> OnServer("comment", p.comment),
                                     props |-> AsMap(p.props), flag |-> TRUE]])>>
  \o (IF p.flag THEN <<>> ELSE Enable(p.name, FALSE))
SchemaCreate(p) == <<Post(p, SchemaSchema.attrs)>>
TopicCreate(p) == <<Post(p, TopicSchema.attrs)>>
ModelCreate(p) == <<Post(p, ModelSchema.attrs)>>
FilesetCreate(p) == <<Post(p, FilesetSchema.attrs)>>
TagCreate(p) == <<Post(p, TagSchema.attrs)>>
PolicyCreate(p) == <<Post(p, PolicySchema.attrs)>>
ViewCreate(p) == <<Post(p, ViewSchema.attrs)>>
FunctionCreate(p) == <<Post(p, FunctionSchema.attrs)>>
TableCreate(p) == <<Post(p, TableSchema.attrs)>>
PartitionCreate(p) == <<Post(p, PartitionSchema.attrs)>>
RoleCreate(p) == <<Post(p, RoleSchema.attrs)>>

\* The registered template is read back.
JobTemplateCreate(p) == <<Post(p, JobTemplateSchema.attrs), Get(p.name)>>

\* A new user, group or IDP group is empty; what was planned comes in a second
\* request.
Bare(p) == Asks("post", p.name, [plain |-> [members |-> {}]])
Join(p) == IF AsSet(p.members) = {} THEN <<>>
           ELSE <<Asks("put", p.name, [add |-> p.members])>>
UserCreate(p) == <<Bare(p)>> \o Join(p)
GroupCreate(p) == <<Bare(p)>> \o Join(p)
IdpGroupCreate(p) == <<Bare(p)>> \o Join(p)

IdpUserCreate(p) ==
  <<Asks("post", p.name, [plain |-> [members |-> {}, secret |-> p.secret]])>>

\* An owner is set, whoever the owner was.
OwnerCreate(p) == <<Asks("put", p.name, [plain |-> [content |-> p.content]])>>

StatisticsCreate(p) == List(p)
PartitionStatisticsCreate(p) == List(p)

Creates(kind, p) == CASE kind = "catalog"      -> CatalogCreate(p)
                      [] kind = "schema"       -> SchemaCreate(p)
                      [] kind = "topic"        -> TopicCreate(p)
                      [] kind = "model"        -> ModelCreate(p)
                      [] kind = "fileset"      -> FilesetCreate(p)
                      [] kind = "tag"          -> TagCreate(p)
                      [] kind = "policy"       -> PolicyCreate(p)
                      [] kind \in {"view", "derived_view"} -> ViewCreate(p)
                      [] kind = "function"     -> FunctionCreate(p)
                      [] kind = "table"        -> TableCreate(p)
                      [] kind = "job_template" -> JobTemplateCreate(p)
                      [] kind \in {"partition", "identity"} -> PartitionCreate(p)
                      [] kind = "user"         -> UserCreate(p)
                      [] kind = "group"        -> GroupCreate(p)
                      [] kind = "role"         -> RoleCreate(p)
                      [] kind = "owner"        -> OwnerCreate(p)
                      [] kind = "idp_user"     -> IdpUserCreate(p)
                      [] kind = "idp_group"    -> IdpGroupCreate(p)
                      [] kind = "statistics"   -> StatisticsCreate(p)
                      [] kind = "partition_statistics" -> PartitionStatisticsCreate(p)

\* Delete: one request, whose 404 is a success; nothing for an owner, who stays.
Drop(s) == <<Asks("delete", s.name, Nothing)>>
SchemaDelete(s) == Drop(s)
TopicDelete(s) == Drop(s)
ModelDelete(s) == Drop(s)
FilesetDelete(s) == Drop(s)
TagDelete(s) == Drop(s)
PolicyDelete(s) == Drop(s)
ViewDelete(s) == Drop(s)
FunctionDelete(s) == Drop(s)
TableDelete(s) == Drop(s)
JobTemplateDelete(s) == Drop(s)
PartitionDelete(s) == Drop(s)
UserDelete(s) == Drop(s)
GroupDelete(s) == Drop(s)
RoleDelete(s) == Drop(s)
OwnerDelete(s) == <<>>
IdpUserDelete(s) == Drop(s)
IdpGroupDelete(s) == Drop(s)

\* The statistics in state, of an object that stays.
StatisticsDelete(s) == DropNames(s.name, DOMAIN s.props)
PartitionStatisticsDelete(s) == DropNames(s.name, DOMAIN s.props)

\* A catalog is disabled first unless the drop is forced, and enabled again when
\* the drop is refused.
CatalogDelete(s) ==
  IF s.force THEN <<Asks("force", s.name, Nothing)>>
  ELSE Enable(s.name, FALSE)
       \o <<AsksOrElse("delete", s.name, Nothing,
                       IF s.flag THEN Enable(s.name, TRUE) ELSE <<>>)>>

Deletes(kind, s) == CASE kind = "catalog"      -> CatalogDelete(s)
                      [] kind = "schema"       -> SchemaDelete(s)
                      [] kind = "topic"        -> TopicDelete(s)
                      [] kind = "model"        -> ModelDelete(s)
                      [] kind = "fileset"      -> FilesetDelete(s)
                      [] kind = "tag"          -> TagDelete(s)
                      [] kind = "policy"       -> PolicyDelete(s)
                      [] kind \in {"view", "derived_view"} -> ViewDelete(s)
                      [] kind = "function"     -> FunctionDelete(s)
                      [] kind = "table"        -> TableDelete(s)
                      [] kind = "job_template" -> JobTemplateDelete(s)
                      [] kind \in {"partition", "identity"} -> PartitionDelete(s)
                      [] kind = "user"         -> UserDelete(s)
                      [] kind = "group"        -> GroupDelete(s)
                      [] kind = "role"         -> RoleDelete(s)
                      [] kind = "owner"        -> OwnerDelete(s)
                      [] kind = "idp_user"     -> IdpUserDelete(s)
                      [] kind = "idp_group"    -> IdpGroupDelete(s)
                      [] kind = "statistics"   -> StatisticsDelete(s)
                      [] kind = "partition_statistics" -> PartitionStatisticsDelete(s)

-----------------------------------------------------------------------------
(* Answers.  v is the object the server answered with, m what it is merged  *)
(* into: the plan after an apply, the state on a refresh.                   *)

\* stringFromResponse, optionalString, optionalStringToTF: three ways to show an
\* empty string.
StringFromResponse(v, m) == IF v # "" THEN v ELSE IF m \in NotSet THEN Null ELSE ""

\* An empty map stays empty where there was one.
MapFromResponse(v, m) == IF v # NoMap THEN v ELSE IF m \in NotSet THEN Null ELSE NoMap

\* tag and topic: commentFromServer and propertiesToState.
CommentFromServer(v, m) == IF v # "" THEN v ELSE IF m \in NotSet THEN Null ELSE m
PropertiesToState(v, m) == IF m \in NotSet THEN MapToTF(v) ELSE ProjectProperties(v, m)

TagState(v, m) == [m EXCEPT !.name = v.name,
                            !.comment = CommentFromServer(v.comment, @),
                            !.props = PropertiesToState(v.props, @)]
TopicState(v, m) == [m EXCEPT !.name = v.name,
                              !.comment = CommentFromServer(v.comment, @),
                              !.props = PropertiesToState(v.props, @)]

\* mergeSchemaResponse: an apply keeps what was planned.  A mutation run adopts
\* the answer there, too.
SchemaStateAdopted(v, m, refresh) ==
  [m EXCEPT !.name = v.name, !.comment = OptionalStringToTF(v.comment),
            !.props = MapFromResponse(v.props, @)]
SchemaState(v, m, refresh) ==
  IF ~refresh THEN m
  ELSE [m EXCEPT !.name = v.name,
                 !.comment = StringFromResponse(v.comment, @),
                 !.props = MapFromResponse(v.props, @)]

\* mergeCatalogProperties; in_use and force_destroy are never read back, and an
\* imported catalog counts as in use and not to be forced.
MergeCatalogProperties(v, m, managed) ==
  CASE m = Unknown -> Null
    [] m = Null    -> MapToTF(Only(v, DOMAIN v \ managed))
    [] OTHER       -> ProjectProperties(v, m)
CatalogState(v, m, managed) ==
  [m EXCEPT !.name = v.name, !.comment = v.comment,
            !.props = MergeCatalogProperties(v.props, @, managed),
            !.flag = IF @ = Null THEN TRUE ELSE @,
            !.force = IF @ = Null THEN FALSE ELSE @]
\* An Update without a PUT has no answer to take them from.
CatalogKept(p, s) == [p EXCEPT !.props = IF @ = Unknown THEN Null ELSE @]

ModelState(v, m, refresh) ==
  [m EXCEPT !.name = v.name,
            !.comment = StringFromResponse(v.comment, @),
            !.props = IF refresh \/ @ = Unknown THEN MapFromResponse(v.props, @) ELSE @]

ViewState(v, m, refresh) ==
  [m EXCEPT !.name = v.name,
            !.comment = StringFromResponse(v.comment, @),
            !.props = IF refresh \/ @ = Unknown THEN MapFromResponse(v.props, @) ELSE @]

\* serverProperties: the key Gravitino adds to every fileset never reaches state.
ServerProperties(v, managed) == Only(v, DOMAIN v \ managed)

FilesetState(v, m, refresh, managed) ==
  [m EXCEPT !.name = IF refresh \/ @ \in NotSet THEN v.name ELSE @,
            !.comment = IF refresh \/ @ \in NotSet THEN v.comment ELSE @,
            !.props = IF @ \in NotSet THEN ServerProperties(v.props, managed)
                      ELSE IF refresh THEN ProjectProperties(v.props, @) ELSE @]

\* tfutil.StringOrPrevious and MapOrPrevious, when an update had nothing to send.
Previous(p, s) == IF p = Unknown THEN s ELSE p
FilesetKept(p, s) == [a \in DOMAIN p |-> Previous(p[a], s[a])]

\* reconcileStringMap; the planned flag is what the PATCH has set.
ReconcileStringMap(v, m) == IF m \in NotSet THEN v ELSE ProjectProperties(v, m)
PolicyState(v, m) == [m EXCEPT !.name = v.name, !.comment = v.comment, !.flag = v.flag,
                               !.props = ReconcileStringMap(v.props, @)]
PolicyApplied(v, p) == [PolicyState(v, p) EXCEPT !.flag = p.flag]
PolicyKept(p, s) == [a \in DOMAIN p |-> Previous(p[a], s[a])]

FunctionState(v, m, refresh) ==
  [m EXCEPT !.name = v.name, !.comment = OptionalStringToTF(v.comment),
            !.definitions = MapDefinitions(v.definitions, IF @ = Null THEN <<>> ELSE @,
                                           ~refresh)]

TableState(v, m, refresh, reserved) ==
  [m EXCEPT !.name = v.name, !.comment = OptionalStringToTF(v.comment),
            !.props = MergeTableProperties(v.props, @, refresh, reserved),
            !.columns = ColumnsFromServer(v.columns), !.content = v.content,
            !.index = MergeTableIndex(v.index, @, refresh)]

JobTemplateState(v, m) == [m EXCEPT !.name = v.name, !.content = v.content,
                                    !.comment = OptionalStringToTF(v.comment),
                                    !.props = MapToTF(v.props)]

MergePartitionProperties(v, m) ==
  IF m \in NotSet THEN MapToTF(v) ELSE ProjectProperties(v, m)
PartitionState(v, m) ==
  [m EXCEPT !.name = v.name, !.props = MergePartitionProperties(v.props, @)]

UserState(v, m) == [m EXCEPT !.name = v.name, !.members = v.members]
GroupState(v, m) == [m EXCEPT !.name = v.name, !.members = v.members]
UserKept(p, s) == [p EXCEPT !.members = Previous(@, s.members)]
GroupKept(p, s) == [p EXCEPT !.members = Previous(@, s.members)]

RoleState(v, m) == [m EXCEPT !.name = v.name, !.props = v.props, !.members = v.members]

OwnerState(v, m) == [m EXCEPT !.content = v.content]

\* The password is taken from the plan, everything else from the answer.
IdpUserState(v, m) == [m EXCEPT !.name = v.name, !.members = v.members]
IdpUserKept(p, s) == [s EXCEPT !.secret = p.secret]
IdpGroupState(v, m) == [m EXCEPT !.name = v.name, !.members = v.members]
IdpGroupKept(p, s) == [s EXCEPT !.members = AsSet(Previous(p.members, s.members))]

\* Read: what is not there is taken out of state.
IfThere(v, s) == IF v = Null THEN Null ELSE s
CatalogRead(v, s, managed) == IfThere(v, CatalogState(v, s, managed))
SchemaRead(v, s) == IfThere(v, SchemaState(v, s, TRUE))
TopicRead(v, s) == IfThere(v, TopicState(v, s))
ModelRead(v, s) == IfThere(v, ModelState(v, s, TRUE))
FilesetRead(v, s, managed) == IfThere(v, FilesetState(v, s, TRUE, managed))
TagRead(v, s) == IfThere(v, TagState(v, s))
PolicyRead(v, s) == IfThere(v, PolicyState(v, s))
ViewRead(v, s) == IfThere(v, ViewState(v, s, TRUE))
FunctionRead(v, s) == IfThere(v, FunctionState(v, s, TRUE))
TableRead(v, s, managed) == IfThere(v, TableState(v, s, TRUE, managed))
JobTemplateRead(v, s) == IfThere(v, JobTemplateState(v, s))
PartitionRead(v, s) == IfThere(v, PartitionState(v, s))
UserRead(v, s) == IfThere(v, UserState(v, s))
GroupRead(v, s) == IfThere(v, GroupState(v, s))
RoleRead(v, s) == IfThere(v, RoleState(v, s))
OwnerRead(v, s) == IfThere(v, OwnerState(v, s))
IdpUserRead(v, s) == IfThere(v, IdpUserState(v, s))
IdpGroupRead(v, s) == IfThere(v, IdpGroupState(v, s))

StatisticsRead(v, s, reserved) ==
  IF v = Null THEN Null
  ELSE [s EXCEPT !.name = v.name, !.props = CurrentStatistics(v.props, reserved)]
PartitionStatisticsRead(v, s, reserved) ==
  IF v = Null THEN Null
  ELSE [s EXCEPT !.name = v.name, !.props = CurrentPartitions(v.props, reserved)]

Refreshed(kind, v, s, managed) ==
  CASE kind = "catalog"      -> CatalogRead(v, s, managed)
    [] kind = "schema"       -> SchemaRead(v, s)
    [] kind = "topic"        -> TopicRead(v, s)
    [] kind = "model"        -> ModelRead(v, s)
    [] kind = "fileset"      -> FilesetRead(v, s, managed)
    [] kind = "tag"          -> TagRead(v, s)
    [] kind = "policy"       -> PolicyRead(v, s)
    [] kind \in {"view", "derived_view"} -> ViewRead(v, s)
    [] kind = "function"     -> FunctionRead(v, s)
    [] kind = "table"        -> TableRead(v, s, managed)
    [] kind = "job_template" -> JobTemplateRead(v, s)
    [] kind \in {"partition", "identity"} -> PartitionRead(v, s)
    [] kind = "user"         -> UserRead(v, s)
    [] kind = "group"        -> GroupRead(v, s)
    [] kind = "role"         -> RoleRead(v, s)
    [] kind = "owner"        -> OwnerRead(v, s)
    [] kind = "idp_user"     -> IdpUserRead(v, s)
    [] kind = "idp_group"    -> IdpGroupRead(v, s)
    [] kind = "statistics"   -> StatisticsRead(v, s, managed)
    [] kind = "partition_statistics" -> PartitionStatisticsRead(v, s, managed)

\* The state Create and Update write when all their requests are answered.
Applied(kind, v, p, managed) ==
  CASE kind = "schema"  -> SchemaState(v, p, FALSE)
    [] kind = "model"   -> ModelState(v, p, FALSE)
    [] kind = "fileset" -> FilesetState(v, p, FALSE, managed)
    [] kind = "policy"  -> PolicyApplied(v, p)
    [] kind \in {"view", "derived_view"} -> ViewState(v, p, FALSE)
    [] kind = "function" -> FunctionState(v, p, FALSE)
    [] kind = "table"   -> TableState(v, p, FALSE, managed)
    [] kind \in {"owner", "statistics", "partition_statistics"} -> p
    [] OTHER            -> Refreshed(kind, v, p, managed)

\* The state Update writes when there is no answer to take it from.
Kept(kind, p, s) == CASE kind = "catalog"      -> CatalogKept(p, s)
                      [] kind = "schema"       -> p
                      [] kind = "fileset"      -> FilesetKept(p, s)
                      [] kind = "policy"       -> PolicyKept(p, s)
                      [] kind = "job_template" -> p
                      [] kind = "user"         -> UserKept(p, s)
                      [] kind = "group"        -> GroupKept(p, s)
                      [] kind = "idp_user"     -> IdpUserKept(p, s)
                      [] kind = "idp_group"    -> IdpGroupKept(p, s)
=============================================================================
