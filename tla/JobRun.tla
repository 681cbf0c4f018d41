------------------------------- MODULE JobRun -------------------------------
(***************************************************************************)
(* gravitino_job (src/internal/resources/job/resource.go) and the template   *)
(* it runs.  A run cannot be deleted: Delete cancels it and waits, not for    *)
(* long, until it has stopped, so that Terraform can delete the template       *)
(* next, which Gravitino refuses while the template has active runs.  Runs     *)
(* move on their own as far as a job executor moves them; there may be none.   *)
(*                                                                         *)
(* One action per request of a handler; pc names the next one, and then what   *)
(* Terraform does once it has succeeded.                                     *)
(***************************************************************************)
EXTENDS Naturals

CONSTANTS Null,
          Confs,      \* values of job_conf
          MaxRuns,    \* bound on runs
          MaxPolls,   \* ticks of the poll until its deadline has passed
          MaxFaults,  \* bound on calls that fail or whose answer is lost
          MaxEdits    \* bound on edits of the configuration

ASSUME BoundAssumption ==
  MaxRuns \in Nat /\ MaxPolls \in Nat /\ MaxFaults \in Nat /\ MaxEdits \in Nat
ASSUME ConfAssumption == Null \notin Confs

VARIABLES config,     \* the job_conf that is configured, or Null: neither job nor template
          state,      \* the job in Terraform state: its run and its job_conf
          template,   \* whether the template exists
          status,     \* of each run
          executor,   \* whether a job executor is at work
          pc, then,   \* the request the handler has to send, and what follows it
          polls,      \* ticks of the wait so far
          abandoned,  \* history: runs a destroy gave up waiting for
          stray,      \* history: runs of others, and those whose POST was not answered
          faults, edits   \* counters of the bounds

server == <<template, status>>
handler == <<pc, then, polls>>
history == <<abandoned, stray>>
vars == <<config, state, server, executor, handler, history, faults, edits>>

Runs == 1 .. MaxRuns
Statuses == {"none", "queued", "started", "cancelling", "succeeded", "failed", "canceled", "gone"}
Job(r, c) == [run |-> r, conf |-> c]
Jobs == [run : Runs, conf : Confs \cup {Null}]
ASSUME NullAssumption == Null \notin Jobs

\* jobIsTerminal; a mutation run takes a run that is being cancelled for stopped.
JobIsTerminalWhenCancelling(s) == s \in {"succeeded", "failed", "canceled", "cancelling"}
JobIsTerminal(s) == s \in {"succeeded", "failed", "canceled"}

\* What Gravitino counts as active, and as ended.
Active(s) == s \in {"queued", "started", "cancelling"}
Ended(s) == ~Active(s) /\ s \notin {"none", "gone"}

Init == /\ config \in Confs /\ state = Null
        /\ template = FALSE /\ status = [r \in Runs |-> "none"]
        /\ executor \in BOOLEAN
        /\ pc = "idle" /\ then = "idle" /\ polls = 0
        /\ abandoned = {} /\ stray = {}
        /\ faults = 0 /\ edits = 0

-----------------------------------------------------------------------------
(* Terraform.                                                              *)

Goto(p, next) == pc' = p /\ then' = next /\ polls' = 0
Stop == Goto("idle", "idle")

\* Read: a run that is not there is removed from state; job_conf is not read back.
Refreshed == IF state # Null /\ status[state.run] = "gone" THEN Null ELSE state

\* The template first; every change of the job is a replacement; a destroy takes the
\* job first.  There is nothing to do otherwise.
Plan ==
  /\ pc = "idle"
  /\ state' = Refreshed
  /\ \/ config # Null /\ ~template /\ Goto("register", "run")
     \/ config # Null /\ template /\ state' = Null /\ Goto("run", "idle")
     \/ config # Null /\ template /\ state' # Null /\ state'.conf # config /\ Goto("look", "run")
     \/ config = Null /\ state' # Null /\ Goto("look", "drop")
     \/ config = Null /\ state' = Null /\ template /\ Goto("drop", "idle")
  /\ UNCHANGED <<config, server, executor, history, faults, edits>>

\* A call that gets no usable answer is the end of the handler; Terraform keeps what
\* was in state.
Fault == faults < MaxFaults /\ faults' = faults + 1
Unanswered == Fault /\ Stop /\ UNCHANGED state

Register ==
  /\ pc = "register"
  /\ \/ template' = TRUE /\ Goto(IF state = Null THEN then ELSE "idle", "idle")
        /\ UNCHANGED <<state, faults>>
     \/ Unanswered /\ UNCHANGED template
  /\ UNCHANGED <<config, status, executor, history, edits>>

-----------------------------------------------------------------------------
(* Create: the server numbers the run, or refuses it.                      *)

Unused(r) == status[r] = "none" /\ \A q \in 1 .. r - 1 : status[q] # "none"
Run ==
  /\ pc = "run"
  /\ \/ \E r \in Runs :
          /\ Unused(r) /\ template
          /\ status' = [status EXCEPT ![r] = "queued"]
          /\ \/ state' = Job(r, config) /\ Stop /\ UNCHANGED <<stray, faults>>
             \/ Unanswered /\ stray' = stray \cup {r}
     \/ Unanswered /\ UNCHANGED <<status, stray>>
     \/ Stop /\ UNCHANGED <<state, status, stray, faults>>
  /\ UNCHANGED <<config, template, executor, abandoned, edits>>

-----------------------------------------------------------------------------
(* Delete.                                                                 *)

\* A success takes the run out of state; a mutation run goes on with it there.
ForgetLater == UNCHANGED state /\ Goto(then, "idle")
Forget == state' = Null /\ Goto(then, "idle")

\* The run is read first: there is nothing to cancel when it is not there or has ended.
Look ==
  /\ pc = "look"
  /\ \/ /\ \/ status[state.run] = "gone"
           \/ JobIsTerminal(status[state.run])
        /\ Forget /\ UNCHANGED faults
     \/ /\ status[state.run] # "gone" /\ ~JobIsTerminal(status[state.run])
        /\ Goto("cancel", then) /\ UNCHANGED <<state, faults>>
     \/ Unanswered
  /\ UNCHANGED <<config, server, executor, history, edits>>

\* To cancel a run that has ended since is refused; that it is not there is no error.
\* A mutation run waits whatever the answer is.
CancelFailsSilently == Goto("wait", then) /\ Fault /\ UNCHANGED state
CancelFails == Unanswered
Cancelled(r) == [status EXCEPT ![r] = IF Active(@) THEN "cancelling" ELSE @]
Cancel ==
  /\ pc = "cancel"
  /\ \/ /\ ~Ended(status[state.run])
        /\ status' = Cancelled(state.run)
        /\ Goto("wait", then) /\ UNCHANGED <<state, faults>>
     \/ /\ Ended(status[state.run])
        /\ Stop /\ UNCHANGED <<state, status, faults>>
     \/ /\ CancelFails
        /\ status' \in {status, Cancelled(state.run)}
  /\ UNCHANGED <<config, template, executor, history, edits>>

\* waitForTerminalJob: one tick.  A mutation run has no deadline.
DeadlinePassedNever == FALSE
DeadlinePassed == polls >= MaxPolls
GiveUp == Forget /\ abandoned' = abandoned \cup {state.run}
Poll ==
  /\ pc = "wait"
  /\ \/ DeadlinePassed /\ GiveUp /\ UNCHANGED faults
     \/ ~DeadlinePassed /\ GiveUp /\ Fault
     \/ /\ ~DeadlinePassed
        /\ status[state.run] = "gone" \/ JobIsTerminal(status[state.run])
        /\ Forget /\ UNCHANGED <<abandoned, faults>>
     \/ /\ ~DeadlinePassed
        /\ status[state.run] # "gone" /\ ~JobIsTerminal(status[state.run])
        /\ polls' = IF polls < MaxPolls THEN polls + 1 ELSE polls
        /\ UNCHANGED <<pc, then, state, abandoned, faults>>
  /\ UNCHANGED <<config, server, executor, stray, edits>>

\* Terraform is interrupted: the wait ends as if the run had stopped, and nothing
\* more is done.
Interrupt ==
  /\ pc = "wait" /\ Fault
  /\ state' = Null /\ Stop
  /\ abandoned' = abandoned \cup {state.run}
  /\ UNCHANGED <<config, server, executor, stray, edits>>

\* Delete of gravitino_job_template.
DropTemplate ==
  /\ pc = "drop"
  /\ \/ /\ \A r \in Runs : ~Active(status[r])
        /\ template' = FALSE /\ Stop /\ UNCHANGED <<state, faults>>
     \/ /\ \E r \in Runs : Active(status[r])
        /\ Stop /\ UNCHANGED <<state, template, faults>>
     \/ Unanswered /\ UNCHANGED template
  /\ UNCHANGED <<config, status, executor, history, edits>>

\* terraform import: any run, without its job_conf.
ImportState ==
  /\ pc = "idle" /\ state = Null /\ config # Null
  /\ \E r \in Runs : /\ status[r] \notin {"none", "gone"}
                     /\ state' = Job(r, Null)
  /\ UNCHANGED <<config, server, executor, handler, history, faults, edits>>

-----------------------------------------------------------------------------
(* The environment.                                                        *)

Edit == /\ pc = "idle" /\ edits < MaxEdits
        /\ edits' = edits + 1
        /\ config' \in (Confs \cup {Null}) \ {config}
        /\ UNCHANGED <<state, server, executor, handler, history, faults>>

\* The executor moves a run; without one every run stays where it is.
Moves == {<<"queued", "started">>, <<"started", "succeeded">>, <<"started", "failed">>,
          <<"cancelling", "canceled">>}
Execute ==
  /\ executor
  /\ \E r \in Runs : \E m \in Moves :
       /\ status[r] = m[1]
       /\ status' = [status EXCEPT ![r] = m[2]]
  /\ UNCHANGED <<config, state, template, executor, handler, history, faults, edits>>

\* Somebody else runs the template; Gravitino clears out a run that has ended.
OtherRun ==
  /\ \E r \in Runs :
       \/ /\ template /\ Unused(r)
          /\ status' = [status EXCEPT ![r] = "queued"]
          /\ stray' = stray \cup {r}
       \/ /\ Ended(status[r])
          /\ status' = [status EXCEPT ![r] = "gone"]
          /\ UNCHANGED stray
  /\ UNCHANGED <<config, state, template, executor, handler, abandoned, faults, edits>>

Provider == Register \/ Run \/ Look \/ Cancel \/ Poll \/ DropTemplate
Next == Plan \/ Provider \/ Interrupt \/ ImportState \/ Edit \/ Execute \/ OtherRun

\* A handler that has begun goes on: a call ends by its timeout at the latest, and the
\* ticker ticks.  Of the executor nothing is assumed.
Spec == Init /\ [][Next]_vars /\ WF_vars(Provider)

-----------------------------------------------------------------------------
(* Properties.                                                             *)

TypeOK ==
  /\ config \in Confs \cup {Null}
  /\ state \in {Null} \cup Jobs
  /\ template \in BOOLEAN /\ status \in [Runs -> Statuses] /\ executor \in BOOLEAN
  /\ pc \in {"idle", "register", "run", "look", "cancel", "wait", "drop"}
  /\ then \in {"idle", "run", "drop"} /\ polls \in 0 .. MaxPolls
  /\ pc \in {"look", "cancel", "wait"} => state # Null
  /\ pc \in {"run", "drop"} => state = Null
  /\ abandoned \subseteq Runs /\ stray \subseteq Runs
  /\ faults \in 0 .. MaxFaults /\ edits \in 0 .. MaxEdits

\* A run leaves Terraform state only when it has stopped, is gone or has been told to
\* stop: whatever finishes, fails or is interrupted meanwhile, a destroy never leaves
\* behind a job that nobody has cancelled.
ForgottenIsStopping ==
  [][(state # Null /\ state' # state) =>
       status'[state.run] \notin {"queued", "started"}]_vars

\* resource.go:260-266: the wait makes the destruction of a template after its jobs
\* deterministic while an executor does its work.  When the template is refused, a run
\* is active that the destroy gave up waiting for, or one it never knew of.
TemplateRefusedForAReason ==
  [][(pc = "drop" /\ pc' = "idle" /\ template' /\ faults' = faults) =>
       \E r \in abandoned \cup stray : Active(status[r])]_vars

\* A destroy returns, with and without a job executor.
DestroyReturns == pc \in {"look", "cancel", "wait", "drop"} ~> pc = "idle"
=============================================================================
