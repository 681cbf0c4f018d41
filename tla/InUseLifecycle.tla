--------------------------- MODULE InUseLifecycle ---------------------------
(***************************************************************************)
(* The handlers of gravitino_metalake (src/internal/resources/metalake/    *)
(* resource.go), which gravitino_catalog repeats line for line: an object  *)
(* that Gravitino refuses to alter while it is disabled and refuses to     *)
(* drop while it is in use, so that Update and Delete wrap their request   *)
(* in enabling and disabling PATCH calls, each of which can fail alone.    *)
(*                                                                         *)
(* One resource, the Gravitino server, Terraform core (refresh, plan,      *)
(* apply, and what it keeps in state when a handler fails) and everyone    *)
(* else who touches the server.  A call of the client ends as RestCall     *)
(* allows; every departure from a prompt true answer counts as a fault.    *)
(***************************************************************************)
EXTENDS Naturals

CONSTANTS Names,        \* names the object may have
          Comments,     \* stands for every attribute altered by PUT
          MaxFaults,    \* bound on calls that are lost, late or sent twice
          MaxChanges,   \* bound on edits of the configuration
          OutsideNames  \* names at which someone else may act, once each

ASSUME BoundAssumption == MaxFaults \in Nat /\ MaxChanges \in Nat
\* "keep" stands for an attribute a PUT does not carry.
ASSUME KeepAssumption == "keep" \notin Comments

VARIABLES server,       \* [Names -> object]
          state,        \* the resource in Terraform state
          config,       \* the resource in the configuration
          pc,           \* the next call of the operation in progress
          ctx,          \* "live", or "ended" once Terraform is interrupted
          late,         \* requests the server may still carry out
          result,       \* how the last operation ended
          faults, changes,    \* counters of the bounds
          outside       \* names at which someone else created or dropped

vars == <<server, state, config, pc, ctx, late, result, faults, changes,
          outside>>
environment == <<config, changes, outside>>

Absent == [exists |-> FALSE]
Object(c, u, n) == [exists |-> TRUE, comment |-> c, inUse |-> u, nonEmpty |-> n]
Objects == {Absent} \cup [exists : {TRUE}, comment : Comments, inUse : BOOLEAN,
                          nonEmpty : BOOLEAN]

\* A resource as configuration and state describe it; None when it is not
\* configured, or not tracked.
None == [tracked |-> FALSE]
Resource(n, c, u, f) ==
  [tracked |-> TRUE, name |-> n, comment |-> c, inUse |-> u, force |-> f]
Resources == {None} \cup [tracked : {TRUE}, name : Names, comment : Comments,
                         inUse : BOOLEAN, force : BOOLEAN]

-----------------------------------------------------------------------------
(* Gravitino: what a request does and answers.  A mutation of the client       *)
(* forces every drop.                                                      *)

Post(n, c) == [method |-> "POST", name |-> n, comment |-> c]
Patch(n, u) == [method |-> "PATCH", name |-> n, inUse |-> u]
Put(n, to, c) == [method |-> "PUT", name |-> n, to |-> to, comment |-> c]
DropForced(n, f) == [method |-> "DELETE", name |-> n, force |-> TRUE]
Drop(n, f) == [method |-> "DELETE", name |-> n, force |-> f]

\* "refused" is a 4xx other than 404, "error" every other failure of a call.
Answers == {"ok", "notFound", "refused", "error"}

Exists(n) == server[n].exists

\* A name is given once, only an object in use is altered, and only a forced drop takes
\* one that is in use or has something inside.
Allowed(r) ==
  CASE r.method = "POST"   -> ~Exists(r.name)
    [] r.method = "PUT"    -> /\ server[r.name].inUse
                              /\ r.to = r.name \/ ~Exists(r.to)
    [] r.method = "DELETE" -> \/ r.force
                              \/ ~server[r.name].inUse /\ ~server[r.name].nonEmpty
    [] r.method = "PATCH"  -> TRUE
Reply(r) == IF r.method # "POST" /\ ~Exists(r.name) THEN "notFound"
            ELSE IF Allowed(r) THEN "ok" ELSE "refused"

\* A PUT carries only the attributes that change: "keep" leaves the comment.
After(r) ==
  IF Reply(r) # "ok" THEN server
  ELSE CASE r.method = "POST" ->
              [server EXCEPT ![r.name] = Object(r.comment, TRUE, FALSE)]
         [] r.method = "PATCH" -> [server EXCEPT ![r.name].inUse = r.inUse]
         [] r.method = "DELETE" -> [server EXCEPT ![r.name] = Absent]
         [] r.method = "PUT" ->
              LET old == server[r.name]
                  new == IF r.comment = "keep" THEN old
                         ELSE [old EXCEPT !.comment = r.comment]
              IN [server EXCEPT ![r.name] = Absent, ![r.to] = new]

\* The request is carried out and answered at once.
Prompt(r, a) == /\ ctx = "live"
                /\ a = Reply(r) /\ server' = After(r)
                /\ UNCHANGED <<ctx, late, faults>>

\* The handler sees an error (timeout, 5xx after the retries, broken body,
\* interrupt) whether the request was carried out, will be, or never is.
Lost(r, a) == /\ ctx = "live" /\ faults < MaxFaults
              /\ a = "error"
              /\ ctx' \in {"live", "ended"}
              /\ \/ server' \in {server, After(r)} /\ UNCHANGED late
                 \/ late' = late \cup {r} /\ UNCHANGED server
              /\ faults' = faults + 1

\* A rename or a drop is carried out, answered with a 5xx and retried: the
\* second attempt does not find the object.
Repeated(r, a) == /\ ctx = "live" /\ faults < MaxFaults
                  /\ a = "notFound"
                  /\ r.method = "DELETE" \/ (r.method = "PUT" /\ r.to # r.name)
                  /\ Reply(r) = "ok" /\ server' = After(r)
                  /\ faults' = faults + 1
                  /\ UNCHANGED <<ctx, late>>

\* An attempt times out, the retry is answered truthfully, and the server may
\* still carry out the attempt it got first.
Overtaken(r, a) == /\ ctx = "live" /\ faults < MaxFaults
                   /\ r.method # "POST"
                   /\ a = Reply(r) /\ server' = After(r)
                   /\ late' = late \cup {r}
                   /\ faults' = faults + 1
                   /\ UNCHANGED ctx

\* Nothing is sent for a context that has ended.
NotSent(r, a) == /\ ctx = "ended"
                 /\ a = "error"
                 /\ UNCHANGED <<server, ctx, late, faults>>

Answered(r, a) == \/ Prompt(r, a) \/ Lost(r, a) \/ Repeated(r, a)
                  \/ Overtaken(r, a) \/ NotSent(r, a)

-----------------------------------------------------------------------------
Init == /\ server = [n \in Names |-> Absent]
        /\ state = None /\ config = None
        /\ pc = "idle" /\ ctx = "live" /\ late = {}
        /\ result = "none"
        /\ faults = 0 /\ changes = 0 /\ outside = {}

\* The operation ends.  Terraform core keeps the prior state of a handler that
\* returns an error, which is no state at all for Create.
End(res, s) == pc' = "idle" /\ result' = res /\ state' = s

Continue(l) == pc' = l /\ UNCHANGED <<state, result>>

\* terraform apply: Read refreshes the resource.  A 404 removes it from state,
\* any other error ends the run; in_use is never read back.
Refresh ==
  /\ pc = "idle"
  /\ \/ state.tracked
        /\ LET n == state.name IN
           \/ /\ Exists(n)
              /\ state' = [state EXCEPT !.comment = server[n].comment]
              /\ pc' = "plan" /\ UNCHANGED <<result, faults>>
           \/ /\ ~Exists(n)
              /\ state' = None
              /\ pc' = "plan" /\ UNCHANGED <<result, faults>>
           \/ /\ faults < MaxFaults /\ faults' = faults + 1
              /\ result' = "readFailed"
              /\ UNCHANGED <<state, pc>>
     \/ ~state.tracked /\ config.tracked
        /\ pc' = "plan" /\ UNCHANGED <<state, result, faults>>
  /\ ctx' = "live"
  /\ UNCHANGED <<server, late, environment>>

RenamePlanned == config.name # state.name
\* A mutation plans a PUT for a rename only.
UpdatesPlannedForRename == RenamePlanned
UpdatesPlanned == RenamePlanned \/ config.comment # state.comment
InUseChanged == config.inUse # state.inUse
\* A mutation that forgets that only an object out of service is enabled for a
\* time.
TemporarilyEnabledAlways == ~InUseChanged /\ UpdatesPlanned
TemporarilyEnabled == ~InUseChanged /\ ~config.inUse /\ UpdatesPlanned

\* Terraform core compares configuration and state and calls one handler; the
\* first call of that handler depends on the two.
Plan ==
  /\ pc = "plan"
  /\ \/ /\ config = state
        /\ End("noChanges", state)
     \/ /\ config.tracked /\ ~state.tracked
        /\ Continue("create")
     \/ /\ ~config.tracked /\ state.tracked
        /\ Continue(IF state.force THEN "drop" ELSE "disableForDrop")
     \/ /\ config.tracked /\ state.tracked /\ config # state
        /\ \/ /\ (InUseChanged /\ config.inUse) \/ TemporarilyEnabled
              /\ Continue("enable")
           \/ /\ ~((InUseChanged /\ config.inUse) \/ TemporarilyEnabled)
              /\ Continue(IF UpdatesPlanned THEN "put"
                          ELSE IF InUseChanged THEN "disable" ELSE "save")
  /\ UNCHANGED <<server, ctx, late, faults, environment>>

-----------------------------------------------------------------------------
(* Create *)

\* Create, first call.  The object is created in use.
Create ==
  /\ pc = "create"
  /\ \E a \in Answers :
       /\ Answered(Post(config.name, config.comment), a)
       /\ \/ a = "ok" /\ config.inUse
             /\ End("created", config)
          \/ a = "ok" /\ ~config.inUse /\ Continue("createDisabled")
          \/ a # "ok" /\ End("createFailed", None)
  /\ UNCHANGED environment

\* Create, second call, for a configured in_use = false.
CreateDisabled ==
  /\ pc = "createDisabled"
  /\ \E a \in Answers :
       /\ Answered(Patch(config.name, FALSE), a)
       /\ \/ a = "ok" /\ End("created", config)
          \/ a # "ok" /\ End("createFailed", None)
  /\ UNCHANGED environment

-----------------------------------------------------------------------------
(* Update: enable, PUT, disable *)

\* Enable before the metadata updates, for good or for their duration.
Enable ==
  /\ pc = "enable"
  /\ \E a \in Answers :
       /\ Answered(Patch(state.name, TRUE), a)
       /\ \/ a = "ok" /\ Continue(IF UpdatesPlanned THEN "put" ELSE "save")
          \/ a # "ok" /\ End("updateFailed", state)
  /\ UNCHANGED environment

\* The metadata updates, sent to the current name.
Update ==
  /\ pc = "put"
  /\ \E a \in Answers :
       /\ Answered(Put(state.name, config.name,
                       IF config.comment = state.comment THEN "keep"
                       ELSE config.comment), a)
       /\ \/ /\ a = "ok"
             /\ Continue(IF ~config.inUse THEN "disable" ELSE "save")
          \/ a # "ok" /\ TemporarilyEnabled /\ Continue("redisable")
          \/ /\ a # "ok" /\ ~TemporarilyEnabled
             /\ End("updateFailed", state)
  /\ UNCHANGED environment

\* A mutation of Redisable that restores nothing.
RedisableSkipped ==
  /\ pc = "redisable"
  /\ End("updateFailed", state)
  /\ UNCHANGED <<server, ctx, late, faults, environment>>

\* After a failed PUT the disabled state is restored; an error is only logged.
Redisable ==
  /\ pc = "redisable"
  /\ \E a \in Answers : Answered(Patch(state.name, FALSE), a)
  /\ End("updateFailed", state)
  /\ UNCHANGED environment

\* A mutation of Disable that still uses the name in state after a rename.
DisableAtOldName ==
  /\ pc = "disable"
  /\ \E a \in Answers :
       /\ Answered(Patch(state.name, FALSE), a)
       /\ \/ a = "ok" /\ Continue("save")
          \/ a # "ok" /\ End("updateFailed", state)
  /\ UNCHANGED environment

\* Disable after the metadata updates, at the new name.
Disable ==
  /\ pc = "disable"
  /\ \E a \in Answers :
       /\ Answered(Patch(config.name, FALSE), a)
       /\ \/ a = "ok" /\ Continue("save")
          \/ a # "ok" /\ End("updateFailed", state)
  /\ UNCHANGED environment

\* resp.State.Set with the planned values.
Save == /\ pc = "save"
        /\ End("updated", config)
        /\ UNCHANGED <<server, ctx, late, faults, environment>>

-----------------------------------------------------------------------------
(* Delete: disable, drop, restore *)

\* A mutation of DisableForDrop that takes any error for a missing object.
DisableForDropErrorIsGone ==
  /\ pc = "disableForDrop"
  /\ \E a \in Answers :
       /\ Answered(Patch(state.name, FALSE), a)
       /\ \/ a = "ok" /\ Continue("drop")
          \/ a # "ok" /\ End("destroyed", None)
  /\ UNCHANGED environment

\* Delete, first call: a metalake that is gone already counts as destroyed.
DisableForDrop ==
  /\ pc = "disableForDrop"
  /\ \E a \in Answers :
       /\ Answered(Patch(state.name, FALSE), a)
       /\ \/ a = "ok" /\ Continue("drop")
          \/ a = "notFound" /\ End("destroyed", None)
          \/ a \in {"refused", "error"} /\ End("destroyFailed", state)
  /\ UNCHANGED environment

\* Delete, second call, or the first of a forced destroy.
DropObject ==
  /\ pc = "drop"
  /\ \E a \in Answers :
       /\ Answered(Drop(state.name, state.force), a)
       /\ \/ a \in {"ok", "notFound"} /\ End("destroyed", None)
          \/ /\ a \in {"refused", "error"}
             /\ pc' = IF ~state.force /\ state.inUse THEN "reenable" ELSE "idle"
             /\ result' = IF a = "refused" THEN "destroyRefused"
                          ELSE "destroyFailed"
             /\ UNCHANGED state
  /\ UNCHANGED environment

\* A mutation of Reenable that restores nothing.
ReenableSkipped ==
  /\ pc = "reenable"
  /\ pc' = "idle"
  /\ UNCHANGED <<server, ctx, late, faults, state, result, environment>>

\* A refused destroy must not leave a live metalake out of service; an error of
\* this call is only logged.
Reenable ==
  /\ pc = "reenable"
  /\ \E a \in Answers : Answered(Patch(state.name, TRUE), a)
  /\ pc' = "idle"
  /\ UNCHANGED <<state, result, environment>>

-----------------------------------------------------------------------------
(* Everything else that happens between the calls. *)

\* A mutation of ImportState that leaves the name of the resource unset.
ImportWithoutName ==
  /\ pc = "idle" /\ ~state.tracked
  /\ \E n \in Names : /\ Exists(n)
                      /\ state' = Resource("", server[n].comment, TRUE, FALSE)
  /\ result' = "imported"
  /\ UNCHANGED <<server, pc, ctx, late, faults, environment>>

\* terraform import followed by Read: in_use is assumed to be true.
ImportState ==
  /\ pc = "idle" /\ ~state.tracked
  /\ \E n \in Names :
       /\ Exists(n)
       /\ state' = Resource(n, server[n].comment, TRUE, FALSE)
  /\ result' = "imported"
  /\ UNCHANGED <<server, pc, ctx, late, faults, environment>>

\* The user edits the configuration between two runs.
Configure ==
  /\ pc = "idle" /\ changes < MaxChanges
  /\ config' \in Resources \ {config}
  /\ changes' = changes + 1
  /\ UNCHANGED <<server, state, pc, ctx, late, result, faults, outside>>

\* Someone else fills or empties the object.
OutsideContent ==
  /\ \E n \in Names : /\ Exists(n)
                      /\ server' = [server EXCEPT ![n].nonEmpty = ~@]
  /\ UNCHANGED <<state, pc, ctx, late, result, faults, environment>>

\* Someone else creates or drops the object.  in_use is documented as not
\* watched, so nobody else writes it.
OutsideObject ==
  /\ \E n \in OutsideNames \ outside :
       /\ \/ Exists(n) /\ server' = [server EXCEPT ![n] = Absent]
          \/ /\ ~Exists(n)
             /\ \E c \in Comments :
                  server' = [server EXCEPT ![n] = Object(c, TRUE, FALSE)]
       /\ outside' = outside \cup {n}
  /\ UNCHANGED <<state, config, pc, ctx, late, result, faults, changes>>

\* The server carries out a request whose answer nobody waits for.
CarriedOutLate ==
  \E r \in late :
    /\ server' = After(r)
    /\ late' = late \ {r}
    /\ UNCHANGED <<state, pc, ctx, result, faults, environment>>

Next == \/ Refresh \/ Plan \/ Create \/ CreateDisabled
        \/ Enable \/ Update \/ Redisable \/ Disable \/ Save
        \/ DisableForDrop \/ DropObject \/ Reenable
        \/ ImportState \/ Configure
        \/ OutsideContent \/ OutsideObject \/ CarriedOutLate

Spec == Init /\ [][Next]_vars

-----------------------------------------------------------------------------
Requests ==
  [method : {"POST"}, name : Names, comment : Comments]
    \cup [method : {"PATCH"}, name : Names, inUse : BOOLEAN]
    \cup [method : {"PUT"}, name : Names, to : Names, comment : Comments \cup {"keep"}]
    \cup [method : {"DELETE"}, name : Names, force : BOOLEAN]

TypeOK ==
  /\ server \in [Names -> Objects]
  /\ state \in Resources /\ config \in Resources
  /\ pc \in {"idle", "plan", "create", "createDisabled", "enable", "put",
             "redisable", "disable", "save", "disableForDrop", "drop",
             "reenable"}
  /\ ctx \in {"live", "ended"}
  /\ late \subseteq Requests
  /\ result \in {"none", "noChanges", "readFailed", "created", "createFailed",
                 "updated", "updateFailed", "destroyed", "destroyFailed",
                 "destroyRefused", "imported"}
  /\ faults \in 0 .. MaxFaults
  /\ changes \in 0 .. MaxChanges /\ outside \subseteq OutsideNames

\* An object that state reports in use is in service between operations,
\* through every disable and restore of refused updates and destroys, as long
\* as every call answers truthfully and nobody else replaces the object.
InServiceAsRecorded ==
  faults = 0 /\ pc = "idle" /\ state.tracked /\ state.name \notin outside
    => (Exists(state.name) /\ state.inUse => server[state.name].inUse)

\* An update that fails and a destroy that is refused leave the object in service
\* exactly if state records it in use: what was enabled for a PUT is disabled
\* again, what was disabled for a drop is enabled again, and what was out of service
\* before stays out.  Left out is an update that was asked to enable.
FailedLeavesService ==
  [][/\ pc # "idle" /\ pc' = "idle" /\ faults' = 0
     /\ result' \in {"updateFailed", "destroyRefused"}
     /\ state.name \notin outside /\ server'[state.name].exists
     /\ config.tracked /\ config.inUse => state.inUse
     => server'[state.name].inUse = state.inUse]_vars

\* An apply that reports success leaves the object as configured, at the
\* configured name, whatever mix of rename, alteration and in_use it made, when
\* every call answers truthfully.  It may be in service against the configuration,
\* but only after an update that someone else's object made fail.
AppliedMeansConverged ==
  faults = 0 /\ pc = "idle" /\ result \in {"created", "updated"} /\ config = state
    /\ config.name \notin outside
    => /\ Exists(config.name)
       /\ server[config.name].comment = config.comment
       /\ config.inUse => server[config.name].inUse
       /\ outside = {} => server[config.name].inUse = config.inUse

\* When every call answers truthfully, no operation loses an object, failed or
\* not: between operations the server has none but the one state tracks.
NothingOrphaned ==
  faults = 0 /\ pc = "idle" => \A n \in Names \ outside :
                   Exists(n) => state.tracked /\ state.name = n

\* Terraform forgets the object only when the server does not have it any
\* more, whatever was lost, repeated or interrupted.
ForgottenOnlyWhenGone ==
  [][state.tracked /\ ~state'.tracked => ~server'[state.name].exists]_vars

\* An object with something inside leaves the server only through a forced
\* drop, now or late, or by someone else.
NonEmptyOnlyByForce ==
  [][\A n \in Names :
       /\ Exists(n) /\ server[n].nonEmpty /\ ~server'[n].exists
       /\ \A m \in Names : server'[m].exists => ~server'[m].nonEmpty
       /\ outside' = outside
       => (state.tracked /\ state.force) \/ Drop(n, TRUE) \in late]_vars

\* An object goes out of service only while the configuration disables it or
\* destroys it, or by a late request of a time when it did.
DisabledOnlyOnRequest ==
  [][\A n \in Names :
       /\ Exists(n) /\ server[n].inUse
       /\ server'[n].exists /\ ~server'[n].inUse
       => \/ ~config.tracked \/ ~config.inUse
          \/ Patch(n, FALSE) \in late]_vars
=============================================================================
