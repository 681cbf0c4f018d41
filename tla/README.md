# A TLA+ model of the Gravitino Terraform provider

The provider translates Terraform's create, read, update, delete and import of
about twenty-five resource types into REST calls to an Apache Gravitino server.
It keeps almost no state of its own. What is hard about it is between the
calls: a handler makes one to four of them, each can fail, be lost, be carried
out late or be retried by the client; Terraform runs the handlers of many
resources at once, may be interrupted at any moment, and remembers only what a
handler put into state.

The modules here state what the provider promises under these conditions. TLC
checks them on small instances; TLAPS proves the most important ones for every
value of the constants.

## The system and its parts

| Part | State it keeps | Operations | Hard behaviour | What makes it correct |
|---|---|---|---|---|
| REST client (`internal/client/client.go`) | loop variables of one call | Get, Post, Put, Patch, Delete through `do` and `doRequest` | lost and late requests, 5xx after a commit, retries, cancellation, Retry-After | a POST happens once; results are truthful; waiting is bounded; cancellation is final |
| OAuth token cache (`client/auth/oauth_credentials.go`) | token and expiry under `mu`, `refreshMu` | `Header`, `refresh` | goroutines that find the token expired together, a slow endpoint, failing refreshes | one refresh at a time; no usable token replaced; no dead token handed out; every caller answered |
| Version gates (`client/server_version.go`, `client/version.go`, `models/version.go`) | the remembered server version | the probe of Configure, open and closed gates in front of handlers | a probe fails, several probe at once, the server is upgraded meanwhile | a closed gate never lets pass what the server refuses; nothing is refused without a reason |
| Metalake and catalog (`resources/metalake`, `resources/catalog`) | Terraform state: name, attributes, `in_use`, `force_destroy` | CRUD and import; enable, PUT, disable; disable, drop, restore | each call of a sequence can fail alone; rename in the middle; interrupt; `in_use` is never read back | an apply that succeeds converged; nothing is orphaned; nothing is forgotten that exists; only a forced drop removes content |
| Model version (`resources/model_version`) | version number, artifact | link, then find the number; PUT; DELETE; import | the number is found by a second request that races with other resources | a resource manages the version it linked |
| Tag and policy associations | the attached names | difference of sets sent as one call; reading the policies first | several resources manage one object; a tag is deleted before the destroy | an update that succeeds undisturbed converges; nothing is detached that the apply did not see |
| Users, groups, roles, owners, identity provider users and groups | Terraform state | creates and updates of two requests (add, then grant; grant, then revoke) | the second request fails | nothing else than such a create loses an object; the next apply finishes the work |
| Schema, topic, fileset, model, view, tag, policy | Terraform state | one PUT of the differences (a policy: PUT, then PATCH), or a GET when there are none | answers that spell nothing in three ways, properties the server adds, renames | what is planned is what is shown afterwards; a plan after an apply is empty; drift is repaired |
| Table and function | columns, indexes, definitions | one PUT of an ordered list of updates | the order of the requests, positions, merging an answer in another order | the list turns the old object into the planned one |
| Partition, statistics | Terraform state | every change replaces; list, write what differs, drop the rest | a name the catalog chooses; reserved statistics | as above |
| Jobs and job templates | the run and its status | run, cancel, poll with a deadline | a cancellation racing completion, no executor at work | a destroy returns and forgets no run it has not stopped |
| Kerberos transport, static authentication, provider configuration, data sources | a token library, none, none, none | one repetition after a 401; a header; validation; one GET | none that outlives a request | not modelled, see the end |

They interact in three ways. Every handler calls the REST client, which calls
the authentication provider before each attempt. Handlers of different resources
run concurrently (Terraform's default is ten) and meet on the server, at the
token and at the remembered version. Terraform core sits above them: it calls
Read before planning, computes one operation from configuration and state, and
after a handler's error keeps the prior state, which is nothing for a create.

## Modules

- `RestVocabulary`, `RestCall`: what one client call promises to the handler
  that makes it. A call has one outcome; the server may carry it out before or
  after it; "ok" means it was carried out, a refused POST means it was not.
- `HttpClient`: `doRequest` and `do`, one action for each place the code can
  stop at: `Authenticate` (the `Header` call), `Send` (`httpClient.Do` starts),
  `Receive`, `Reset` and `GiveUp` (it returns a response, ECONNRESET, any other
  error), `Wake` and `AbortSleep` (`sleepContext`). The server and the network
  (`ServerAnswers`, `ServerExecutesLate`, `Abandon`) may carry a request out and
  lose the answer, turn it into a 5xx, carry it out long after its caller gave
  up, or never see it. `Cancel` ends the context. `Implements` is the refinement
  of `RestCall`: attempts, delays and the wire are hidden, `phase` is what is
  left of `pc`.
- `OAuthToken`: `Header` step by step, one step per critical section. The
  check, `refreshMu.Lock`, the second check, the request to the endpoint, the
  store and the final read are separate, so that the clock and other goroutines
  move between them. `issuedAt`, `realExpiry`, `trusted` and `handed` are
  history: when the server stops accepting a token and whether the endpoint told
  the truth in time.
- `VersionGate`: `DetectServerVersion`, `ResolveServerVersion` and `AtLeast`, one
  step per access to the remembered version, for handlers that stand at gates at
  once. `told` and `failed` are history: what the server has ever reported and
  whose own probe failed.
- `InUseLifecycle`: `gravitino_metalake`, whose handlers `gravitino_catalog`
  repeats. One action per request of a handler; `pc` names the next one. `Plan`
  is Terraform's comparison of configuration and state together with the local
  computations at the top of the handlers; `End` is what Terraform keeps. A
  request is answered at once (`Prompt`), lost or late (`Lost`,
  `CarriedOutLate`), retried after it was carried out (`Repeated`), retried and
  answered while its first attempt is still on its way (`Overtaken`), or not sent
  because Terraform was interrupted (`NotSent`): the outcomes `RestCall` allows.
  Someone else creates, drops, fills and empties objects; nobody else writes
  `in_use`, which the documentation declares unwatched.
- `ModelVersion`: several `gravitino_model_version` resources of one model.
  `linkedBy` is history: who linked which version. `Serial` says whether
  operations overlap, as they do by default, or not, as with `depends_on`.
- `Association`: several `gravitino_tag_association` or (`Checked`)
  `gravitino_policy_association` resources of one object. `Read` is the refresh
  and the plan, `CheckPolicy` one GET of `checkPoliciesSupportObjectType`,
  `Associate` the one POST of Create, Update or Delete. A policy whose content the
  provider is not shown (`Opaque`) is sent whether it fits or not. Others attach and detach
  names, delete a tag everywhere and drop the object in between. `seen` and
  `disturbed` are history: what the Read of an apply found, and whether anybody
  else changed it since.
- `JobRun`: `gravitino_job` and the `gravitino_job_template` it runs. `Plan` is
  Terraform's order of the two; `Look`, `Cancel` and `Poll` are the requests of
  Delete and of `waitForTerminalJob`, `Execute` the executor, which may not be
  there at all. `abandoned` and `stray` are history: the runs a destroy gave up
  waiting for, and those nobody tracks.
- `TerraformValues`: null, unknown and what the helpers of `tfutil` make of them.
  `TableColumns`: the ordered column requests of `tableColumnUpdates`, and what a
  server makes of them one after the other. `FunctionDefinitions`: the same for
  definitions and implementations, and the merge that puts an answer into the
  planned order.
- `ResourceKinds`: what distinguishes the other twenty-two kinds (a view whose
  columns are configured and one whose columns Gravitino derives count as two, and so
  does a partition the catalog names), in the order a
  handler comes to it: the schema (what replaces, what is computed, what keeps its
  state), the plan modifiers, the requests of Update, Create and Delete, and how
  an answer is merged into plan or state. One operator per resource and question
  (`TagUpdate`, `FilesetState`, ...), all of them pure.
- `PlanApply`: one resource of any of these kinds under plan and apply.
  `ReadAndPlan` is Read, the framework's plan and Terraform's choice of a handler;
  `Call` the next request of the handler with everything that can become of it;
  `Finish` the state it writes; `ImportState` an import; `Edit` and `Others` change
  the configuration and the object, also between two requests. `clean` (an apply
  has succeeded and nothing has changed since), `disturbed`, `ours` (the object
  the provider made) and `applies` are history.
- `MC*`: the instances for TLC. `*Proofs`: the theorems.

Operators whose comment calls them a mutation are what a plausible slip would
make of the definition after them. No specification uses them; they serve to
check that each property notices the slip.

## What the runs check

| Run | Bounds | Shows |
|---|---|---|
| `HttpClient.cfg` | one call, 3 retries, base delay 100 ms and cap 2 s in units of 50 ms, Retry-After zero, at the cap, beyond it and wrapped below zero | `PostAtMostOnce`, `TruthfulOutcome`, `SleepBounded`, `NothingSentAfterCancel`, `CallsReturn`, and that it implements `RestCall` |
| `OAuthToken.cfg` | two goroutines, lifetimes 2, 3 and one misreported, clock to 4 | `SingleFlight`, `ValidTokenKept`, `HandedOutAlive`, `HeaderReturns` |
| `VersionGate.cfg` | two handlers, six versions around 1.3.1, unparsable reports, two failing probes | `ClosedGatesHold`, `RefusalsJustified` |
| `InUse.cfg` | two names, two attribute values, three edits, two faults, someone else once at one name | `InServiceAsRecorded`, `FailedLeavesService`, `AppliedMeansConverged`, `NothingOrphaned` as long as every call is answered; `ForgottenOnlyWhenGone`, `NonEmptyOnlyByForce`, `DisabledOnlyOnRequest` always |
| `ModelVersionSerial.cfg` | two resources, four versions, four edits, two faults, no overlap | `OwnVersionRecorded` |
| `ModelVersionParallel.cfg` | three edits, overlap, one outside version or import | `NeverOlderThanOwn` |
| `ModelVersionRace.cfg` | two edits, overlap | a counterexample: two creates of one apply record the same version |
| `Association.cfg` | two policy associations, four policies of which one is inherited and two do not fit the object, one of these opaque, two edits, one fault, two outside acts | `UpdateConverges`, `OnlySeenDetached`, `DestroyDetaches` |
| `JobRun.cfg` | two values of `job_conf`, three runs, two ticks until the deadline, two faults, two edits, with and without an executor | `ForgottenIsStopping`, `TemplateRefusedForAReason`, `DestroyReturns` |
| `PlanApply.cfg` | twenty-one kinds, two names, one property with two values, one reserved property the server adds and one that is not reserved and a catalog adds to a table, two members, six orders of three columns and their changes, nine lists of definitions; two edits, two outside acts, one lost answer | `AppliedAsPlanned`, `QuietAfterApply`, `DriftRepaired`, `OrphansOnlyFromHalves`, `SettlesWithin` |
| `PartitionIdentity.cfg` | the same for partitions, also those whose name the catalog chooses | a counterexample: the Update of a partition is reachable |
| `TableAutoIncrement.cfg` | one edit of a table | a counterexample: a change of `auto_increment` is planned in place and never sent |

Why these bounds are enough to be interesting. Calls of the client share
nothing, so one call shows all there is; its policy is the real one, so the
last retry and the clamp are reached. Two goroutines suffice for a race on the
token, and the clock is long enough for two tokens to expire one after the
other. Two handlers at a gate probe and store in either order, and versions lie on
each side of every component of the comparison. Two names make a rename, a
conflict and a rename back; three edits make a create, an update and a destroy or
a second update; two faults make a failing call and a failing recovery from it.
Four versions let each resource be replaced. Two policies that
fit allow an update that attaches one and detaches another while one of them is
inherited; the two resources of the object differ in nothing, so that TLC may take
them for each other (`SYMMETRY`). Three runs are the
one in state, its replacement and one of somebody else; the poll has about five
ticks of a second in the code and two here, since a tick that finds the run active
changes nothing but the count. In `PlanApply` one object and one resource of a
kind are all its handlers can tell apart; two edits change two attributes, or one
and back, before or between applies, and one outside act falls before the refresh
while another falls into the handler. `MaxApplies` = 1 says that a single
undisturbed apply is enough. `InUse.cfg` (8.2 million states, two minutes),
`Association.cfg` (5.5 million) and `PlanApply.cfg` (4.7 million) are the largest.

`InUseLifecycle`, `ModelVersion`, `Association` and `JobRun` come to rest when
their bounds are used up, and a client call when it has returned, so deadlock is
not checked there. It is for `OAuthToken`, `VersionGate` and `PlanApply`, where there is
always a next call or plan.

Abstractions to know about. In `InUseLifecycle` the attributes altered by PUT are
one value, and a version in `ModelVersion` is what it points to. Reading and
planning a model version is one step with the start of its handler; a late link
of a model version counts as an outside one. The object type of an association is
one the version gate lets through or an error; which policies fit it does not
change. Gravitino may refuse to attach what is attached already, and may answer a
request to detach a name that no longer exists with a 404, as the code expects, or
ignore it. Durations wrap only in `RetryAfters`, where the code does not guard
against it: `OAuthToken` takes an `expires_in` that makes the duration negative for one
that was not told, and leaves out one that wraps to a positive duration. In `PlanApply` an attribute stands for all of its sort (`comment` an
optional string, `props` an optional map, `members` an optional set, `flag` a
boolean with a default, `content` a payload that is always configured, `secret`
one the server never shows), one index for all of a table, and sort orders,
distribution and partitioning for one another; the types of columns are numbers of
which two spell the same type. A privilege is its member of a set. A request is
carried out, refused or lost: what the client does to make it so is
`HttpClient`. The gravitino objects above and below an object are left out; that
they are in the way is the refusal of a delete.

## Fairness

`HttpClient` assumes only that the goroutine of a call runs, that timers fire and
that `http.Client.Timeout`, which `New` always sets, ends an attempt without an
answer (weak fairness of `OwnStep`, of which `GiveUp` is a disjunct). Nothing is
assumed of the server: `CallsReturn` holds if it never answers. `OAuthToken`
assumes that goroutines run, that the 30 s timeout of `tokenHTTPClient` ends a
request once the endpoint has not answered or its answer is not usable (weak
fairness of `Store` or `Fail`), and that
`sync.Mutex` gives the lock to a waiter that keeps waiting, as its starvation
mode does (strong fairness of `Acquire`). `JobRun` assumes that a handler that has
begun goes on (weak fairness of `Provider`): its calls end, as `CallsReturn` says,
and the ticker of the wait ticks. Of the executor it assumes nothing, which is what
the deadline of `waitForTerminalJob` is for. The other modules state no liveness;
that applies come to an end is `SettlesWithin`, which counts them.

## What is proved

All theorems hold for any values of the constants that satisfy the named
assumptions of their modules (`PolicyAssumption`, `LifetimeAssumption`,
`CallerAssumption`, `BoundAssumption`, `ResourceAssumption`, `URIAssumption`,
`NamesAssumption`, `VersionAssumption`, `FailureAssumption`, `ConfAssumption`,
`NullAssumption`, `KeepAssumption`, `NameAssumption`, `ValueAssumption`,
`KindAssumption`, `ManagedAssumption`).

- `HttpClientProofs`: `TypeCorrect`, `SleepIsBounded`, `PostHappensAtMostOnce`,
  `OutcomeIsTruthful`, `CancelIsFinal` and `ClientImplementsRestCall`. The count
  of executions alone is not inductive: `CallInv` ties it to where the attempt is
  and what its answer says, and `PostInv` says that executions, requests on the
  wire and late requests of a POST never add up to more than one and that a POST
  never sleeps. `SleepInv` bounds the sleep so far by the attempts so far and the
  pending delay by the cap; `BackoffBounded` is its lemma about `backoff`. The
  refinement maps every step to a step of `RestCall` or to a stutter and uses the
  same invariant.
- `OAuthTokenProofs`: `TypeCorrect`, `RefreshIsSingleFlight`, `ValidTokenIsKept`
  and `HandedOutTokenIsAlive`. `MutexInv` says that whoever is between the second
  check and the unlock holds `refreshMu`; `RefreshInv` that the token such a
  goroutine found unusable stays so, because time only grows and nobody else can
  store; `AliveInv` that a trusted token expires for the server no earlier than
  for the cache and later than every caller about to read it has entered.
- `ModelVersionProofs`: `TypeCorrect`, and for undisturbed runs (`Serial`, nobody
  outside) `OwnVersionIsRecorded`, `VersionsAreNotShared` and
  `OthersVersionsAreUntouched` (no destroy or update touches the version of another
  resource), whatever calls fail. The last two are proved only; the run
  `ModelVersionSerial.cfg` checks the first. `CreateInv` says that
  between the POST and the record the version just linked is the last one, which
  needs `SerialInv` (no two handlers at work) and `AssignedInv` (no number is
  linked or recorded before it is assigned). Without `Serial` the first theorem
  is false, as `ModelVersionRace.cfg` shows. `NeverOlder` needs neither: whatever
  overlaps, `SettledInv` says that a create works for an untracked resource and
  that a version of its own is never newer than the one it has settled on.
- `AssociationProofs`: `TypeCorrect`, `UpdateAttachesWhatIsConfigured`,
  `OnlyWhatReadFoundIsDetached` and `DestroyDetachesItsNames`, for any number of
  resources, names, faults and outside acts. None of them is inductive alone:
  `StateInv` says that during an apply state is what its Read found,
  `UndisturbedInv` that the object still carries that unless somebody else acted,
  `PlannedInv` that there is something to do, `GoneInv` that nothing is attached
  to an object that is gone. `DiffLeadsToDesired` is the lemma about
  `DiffAssociationNames`, `ReadFindsDirect` the one about the inherited entries.
- `VersionGateProofs`: `TypeCorrect`, `ClosedGatesAlwaysHold` and
  `RefusalsAreJustified`, for any set of versions and any number of handlers.
  `SoundInv` says that a version that is remembered or held and recent enough was
  reported by a server that accepts, which an upgrade does not take back;
  `ReportedInv` that only what was reported is remembered or held, and that an old
  one was reported before anybody is refused for it. `AtLeastIsNotBefore`, the
  lemma about `ServerVersionAtLeast`, says that its comparison is the
  lexicographic order.
- `JobRunProofs`: `TypeCorrect`, `ForgottenRunsAreStopping` and
  `TemplatesAreRefusedForAReason`. `TrackedInv` says that every active run is the
  one in state, was abandoned or is a stray one, and that during the wait the run
  has been told to stop.
- `PlanApplyProofs`: for every kind of resource, any names and members and whatever
  is lost, refused, edited or done by others. `TypeCorrect` rests on `TypeInv`: what
  a handler has planned, still has to send and has been answered must fit together
  (`PlannedInv`, `TodoInv`, `AnswerInv`), or a state without the attributes of its
  kind, or a handler with no answer to write, could not be ruled out. That each
  handler begins that way are the lemmas about the requests of Create and Delete
  and the theorem `UpdateRequests`: whatever a plan changes, the requests of Update
  go to the old name before the one PUT that renames, to the new one after it, and
  none after it can be refused. `NoOrphansWithoutFaults` needs that order.
  Its invariant `OursInv` follows the object the provider made through the places
  of a handler: not made yet or made and named by the answer (`CreateInv`), keeping
  its name, still to be moved or moved (`UpdateInv`), still to be dropped
  (`DeleteInv`). A refused request is then always one that leaves the object where
  state has it, for what follows a creation or a move depends only on the object
  being there, and whoever else removes it ends `ours` with it.
  `AppliesShowThePlan` is `AppliedAsPlanned` for every kind but tables and functions:
  after an apply that succeeds and that nobody interferes with, state shows what was
  planned, the rule whose breach Terraform reports as an inconsistent result. It
  needs two more invariants. `ValueInv` says what an attribute can hold where:
  `Proper` values on the server, in requests and in answers, `Sound` ones in the
  configuration, the plan and state, where a value may also be missing or unknown
  and the property the server adds to a catalog never gets to. `WorkInv` says of a
  handler that is still undisturbed that the requests it has left, carried out one
  after the other on its object as it is now (`Ahead`), take the object to one that
  shows the plan (`FitsAll`), and that once no answer is to come the last one shows
  it already (`Quiet`). A request that is answered keeps that by moving one step of
  `Ahead` from the list to the server; that it holds when a handler begins are
  `CreateFits` and `UpdateDelivers`, kind by kind, the second for every object the
  refreshed state fits and not only for the one that was read; and `AppliedFits` and
  `KeptFits` turn the object that fits into the state that shows the plan. To fit is
  less than to be equal where the merges hide something: the keys others have added
  or removed, the empty comment of a tag. The requests for owners and statistics are
  PUTs to an object that is there without the provider, and `AttachedInv` says the
  same of them: what is left to put takes the object to the plan, or the list that
  says what to put is still to come (`OwnerIsSet`, `WritesMatch`).
  `DriftIsRepaired` is `DriftRepaired`, and `QuietAfterApplies` is `QuietAfterApply`, for
  the same kinds (the second but for partitions that the catalog names, whose plan
  never knows the name). They rest on `CleanInv`: while nothing has changed since an
  apply, or since a plan that found nothing to do, state shows the configuration and
  the object fits it (`ObjectShows`). An apply establishes that because its plan has what is
  configured (`PlanInv`) and `WorkInv` has taken the object to the plan; a plan that
  finds nothing to do because a refresh shows no more than the object has
  (`ReadMatches`) and that plan equals the state. The theorem about quietness is the converse: what a
  refresh shows of an object that fits the configuration is what is configured
  (`ReadAsConfigured`, which needs that the merge of an answer gives back a value the
  answer fits), and a state with what is configured is its own plan (`QuietPlan`).
  `AppliesSettle` is `SettlesWithin`: once no one interferes the second plan finds
  nothing to do, also after an apply that failed halfway, unless what is configured
  cannot be had. What an apply that failed leaves is seldom clean, so the invariant
  `SettleInv` says that an apply that has ended is clean or `Blocked`: a member is
  configured that the server does not know (`LacksMembers`), the name is somebody
  else's (`RunsIntoName`), the object an owner or a statistic is put on is missing
  (`LacksObject`), or others have disabled a catalog that its state has in use, which
  its Read does not show (`RunsIntoFlag`); and that each of these stays until somebody acts. That
  nothing else can stop a handler are three more invariants: `PathInv` says what
  requests ask for (no member that is not configured, no rename of anything but the
  object in state, no deletion of anything else), `CatalogInv` that a PUT or DELETE of a
  catalog comes behind the PATCH it needs, and `FlagInv` that a catalog in state knows
  whether it is in use. The theorem is for `MaxApplies # 0`, as with 0 the first apply
  would be one too many, and for every kind but tables, functions and the partitions the
  catalog names: the plans of the first two need not be accepted, that of the third is
  never empty, which `SettlesWithin` excuses but the invariants do not follow.
  `ManagedAssumption` says what the
  instances have: the property the server adds is never configured, and it is added
  to no kind whose Read shows every property as its own.
  The other four are about operators the handlers are built from.
  `PropertyUpdatesAreExact` and `StatisticsWritesAreExact` say that the
  requests turn what there is into what is planned and touch nothing else,
  `MemberUpdatesAreExact` the same for the one or two requests about roles,
  `TagRefreshIsIdempotent` that a second refresh finds what the first has
  written. `NullIsNoRecord`, the hypothesis of the theorems about states, says that
  `Null`, which stands for an object or a state that is not there, is no function;
  TLC, for which `Null` is a model value, cannot evaluate that, so that it is no
  assumption of the module. `NotSetIsNoValue` says the same of `Null` and `Unknown`
  next to every value an attribute can have: a map, a text, a boolean, a set of
  members.
- `InUseLifecycleProofs`: `TypeCorrect`, `ContentLeavesByForce`,
  `DisabledWhenRequested` and `ForgottenMeansGone`, for any names, comments and
  bounds and whatever calls are lost, late, repeated or interrupted. `ControlInv`
  says that what a handler was called for still holds while it is at work and that
  it takes an object out of service only if that is configured. `CallEffect` says
  what becomes of one call, `ServerSteps` that a step leaves the server alone,
  carries out the request its handler sends or one that is late, or is somebody
  else's; `ContentKept` and `ServiceKept` name the one request that can remove
  content and the one that can take an object out of service.
  `RecordedMeansInService`, `FailuresLeaveService`, `AppliesConverge` and
  `NothingIsOrphaned` speak of
  runs whose calls answer truthfully; they follow together from `QuietInv`, which
  no one of them is strong enough to replace. `HeldInv` says under which name the
  object is at each place of a handler, the old or the planned one, `PresentInv`
  and `CommentInv` what is there, `ServiceInv` whether it is in service, and
  `ReasonInv` why the handler took that turn: without it, that a failed PUT may
  be followed by a PATCH that disables a metalake that state reports in use could
  not be ruled out.

Only model-checked: the liveness properties (`CallsReturn`, `HeaderReturns`,
`DestroyReturns`), which fairness and ENABLED keep out of the prover's reach;
and for tables and functions `AppliedAsPlanned`, `DriftRepaired`, `QuietAfterApply` and
`SettlesWithin`: what becomes of the columns of a table and the definitions of a function
needs induction over lists. So for these two kinds, and where a theorem says so for identity
partitions, it is `PlanApply.cfg` that shows the property.

## Disagreements between the code and what it says

Shown by a run:

1. `model_version/resource.go:354-355` says that the newest version is the one
   that was just linked. Two creates of one apply break that
   (`ModelVersionRace.cfg`); with `uris`, which the code keeps as planned, not
   even an inconsistency is reported.
2. `partition/resource.go:323-325` says that Update is unreachable. `ModifyPlan`
   (199) makes the name of an identity partition unknown in every plan, so that
   anything else to do ends in the Update that only reports an error
   (`PartitionIdentity.cfg`).
3. `table/schema.go:88-90` says that changes of `auto_increment` are applied in
   place. `updates.go:112` does not compare it, no request is sent, and Terraform
   reports an inconsistent result after every apply (`TableAutoIncrement.cfg`).

Known limits, which the properties except by name or the models leave out:

- `docs/index.md:144-145` calls PUT safe to repeat. One that renames its target is
  not: the retry of a committed rename is refused (`client.go:414`) and the handler
  reports a failure. `RestCall` permits that only for requests that consume their
  target.
- Metalake: a restore that fails because Terraform was interrupted leaves the metalake
  out of service (`metalake/resource.go:359-379`), which `DisabledOnlyOnRequest`
  allows: the destroy was asked for. A PUT that fails after a requested enable leaves the metalake enabled
  while state says disabled (`metalake/resource.go:261`, against the comment at
  99-100); `in_use` is never read back (436). A catalog that others have disabled
  and that is imported with `in_use = false` cannot be altered
  (`catalog/resource.go:114-121` documents it).
- Tag association: the 404 of a destroy of several names is taken for success though
  the others stay attached (`tag/association.go:264-266`); the Read of one of two
  resources of an object takes the names of the other (181). A policy may be deleted
  between its GET and the POST (`policy/association.go:341`).
- Policy: a PUT that renamed and a PATCH without an answer leave the old name in
  state (`policy/resource.go:267`). A create of a user, group or identity provider
  group whose second request fails leaves an object that is not in state.
- User and group: roles that others grant or revoke between refresh and apply make
  one inconsistent result (`user/resource.go:176`). Statistics: an apply lists again
  and drops what others have added since the plan (`statistics/resource.go:330`);
  two resources of one object undo each other.
- Empty values: the comment `""` of a function is planned as null
  (`comment_plan_modifier.go:13-17`) and the plan of a table respells types and
  empty comments (`plan.go:74-110`), which Terraform core refuses or plans again
  forever; an empty `comment` or `environments` of a job template becomes null
  after the apply. `PlanRefused`, `Respelled` and `ShownAsNull` name these cases.
- Job: a cancellation that finds the run ended is refused and the destroy fails
  once; the lost answer of a POST leaves a run nobody tracks.
- Version: of two concurrent stores the older version may win and be remembered
  after an upgrade (`server_version.go:84`), which refuses more than it has to and
  never less.

## What is not modelled

- The Kerberos transport: its repetition of a request after a 401 is inside one
  attempt of the client, so that to `HttpClient` it is part of `Send`; what is left
  is the rewinding of a body and a library. The static providers add a constant
  header.
- Provider configuration: validation that runs once before any handler.
- Data sources: one GET, no state.
- The conversion between JSON and Terraform values where no order, merge or
  spelling of nothing is involved: data types, literals, expressions, and the
  spelling of the types of a function (`function_tfsdk.go:344-349`). Parsing of
  import ids, validators, the wording of errors.
- Documentation tooling and the acceptance harness.

What the plan has left, in this order: a metalake with a catalog inside it; two
statistics resources of one object.
