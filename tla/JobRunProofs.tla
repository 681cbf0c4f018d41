----------------------------- MODULE JobRunProofs -----------------------------
(***************************************************************************)
(* What a destroy of gravitino_job guarantees, proved for any number of runs, *)
(* ticks, faults and edits, with and without a job executor.  The invariant    *)
(* is where an active run can be: in state, given up by a destroy, or never     *)
(* known to Terraform.                                                        *)
(***************************************************************************)
EXTENDS JobRun, TLAPS

\* A run with what it was configured with is a job.
LEMMA JobHasRun ==
  ASSUME NEW r \in Runs, NEW c \in Confs \cup {Null}
  PROVE  /\ Job(r, c) \in Jobs /\ Job(r, c).run = r
  BY DEF Job, Jobs

LEMMA BoundsAreNaturals ==
  ASSUME TypeOK
  PROVE  faults \in Nat /\ edits \in Nat /\ polls \in Nat
  BY BoundAssumption DEF TypeOK

\* Steps of Goto and of the counters keep their types.
LEMMA FaultType == ASSUME TypeOK, Fault PROVE faults' \in 0 .. MaxFaults
  BY BoundAssumption DEF TypeOK, Fault
LEMMA GotoType ==
  ASSUME NEW p, NEW n, Goto(p, n)
  PROVE  pc' = p /\ then' = n /\ polls' \in 0 .. MaxPolls
  BY BoundAssumption DEF Goto
LEMMA StatusType ==
  ASSUME status \in [Runs -> Statuses], NEW r \in Runs, NEW v \in Statuses
  PROVE  [status EXCEPT ![r] = v] \in [Runs -> Statuses]
  OBVIOUS

-----------------------------------------------------------------------------
\* Every state of a job and its template is well typed: a handler that looks for a
\* run, cancels it or waits for it has one in state.
THEOREM TypeCorrect == Spec => []TypeOK
<1>1. Init => TypeOK
  <2> SUFFICES ASSUME Init PROVE TypeOK
    OBVIOUS
  <2>1. faults \in 0 .. MaxFaults /\ edits \in 0 .. MaxEdits /\ polls \in 0 .. MaxPolls
    BY BoundAssumption DEF Init
  <2>2. status \in [Runs -> Statuses]
    BY DEF Init, Statuses
  <2> QED
    BY <2>1, <2>2 DEF Init, TypeOK
<1>2. TypeOK /\ [Next]_vars => TypeOK'
  <2> SUFFICES ASSUME TypeOK, [Next]_vars PROVE TypeOK'
    OBVIOUS
  <2>1. CASE Plan
    <3>1. state' = state \/ state' = Null
      BY <2>1 DEF Plan, Refreshed
    <3>2. /\ pc' \in {"register", "run", "look", "drop"} /\ then' \in {"idle", "run", "drop"}
          /\ polls' \in 0 .. MaxPolls
          /\ pc' = "look" => state' # Null
          /\ pc' \in {"run", "drop"} => state' = Null
      BY <2>1, BoundAssumption DEF Plan, Goto
    <3> QED
      BY <2>1, <3>1, <3>2 DEF Plan, TypeOK, server, history
  <2>2. CASE Register
    <3>1. faults' \in 0 .. MaxFaults
      BY <2>2, FaultType DEF Register, Unanswered, TypeOK
    <3>2. template' \in BOOLEAN
      BY <2>2 DEF Register, TypeOK
    <3>3. /\ state' = state
          /\ pc' \in {"idle", then} /\ then' = "idle"
          /\ polls' \in 0 .. MaxPolls
          /\ pc' # "idle" => state = Null
      BY <2>2, BoundAssumption DEF Register, Unanswered, Stop, Goto
    <3> QED
      BY <2>2, <3>1, <3>2, <3>3 DEF Register, TypeOK, history
  <2>3. CASE Run
    <3>1. faults' \in 0 .. MaxFaults
      BY <2>3, FaultType DEF Run, Unanswered, TypeOK
    <3>2. state' \in {Null} \cup Jobs
      BY <2>3, JobHasRun DEF Run, Unanswered, TypeOK
    <3>3. status' \in [Runs -> Statuses] /\ stray' \subseteq Runs
      BY <2>3, StatusType DEF Run, Statuses, TypeOK
    <3>4. pc' = "idle" /\ then' = "idle" /\ polls' \in 0 .. MaxPolls
      BY <2>3, BoundAssumption DEF Run, Unanswered, Stop, Goto
    <3> QED
      BY <2>3, <3>1, <3>2, <3>3, <3>4 DEF Run, TypeOK
  <2>4. CASE Look
    <3>1. faults' \in 0 .. MaxFaults
      BY <2>4, FaultType DEF Look, Unanswered, TypeOK
    <3>2. /\ \/ state' = state /\ pc' \in {"cancel", "idle"}
             \/ state' = Null /\ pc' \in {"idle", "run", "drop"}
          /\ then' \in {"idle", "run", "drop"} /\ polls' \in 0 .. MaxPolls
      BY <2>4, BoundAssumption DEF Look, Forget, Unanswered, Stop, Goto, TypeOK
    <3> QED
      BY <2>4, <3>1, <3>2 DEF Look, TypeOK, server, history
  <2>5. CASE Cancel
    <3>1. faults' \in 0 .. MaxFaults
      BY <2>5, FaultType DEF Cancel, CancelFails, Unanswered, TypeOK
    <3>2. /\ state' = state /\ pc' \in {"wait", "idle"}
          /\ then' \in {"idle", "run", "drop"} /\ polls' \in 0 .. MaxPolls
      BY <2>5, BoundAssumption DEF Cancel, CancelFails, Unanswered, Stop, Goto, TypeOK
    <3>3. status' \in [Runs -> Statuses]
      BY <2>5, StatusType DEF Cancel, Cancelled, Statuses, TypeOK
    <3> QED
      BY <2>5, <3>1, <3>2, <3>3 DEF Cancel, TypeOK, history
  <2>6. CASE Poll
    <3>1. faults' \in 0 .. MaxFaults
      BY <2>6, FaultType DEF Poll, TypeOK
    <3>2. state # Null /\ state.run \in Runs
      BY <2>6 DEF Poll, TypeOK, Jobs
    <3>3. abandoned' \subseteq Runs
      BY <2>6, <3>2 DEF Poll, GiveUp, TypeOK
    <3>4. /\ \/ state' = state /\ pc' = "wait"
             \/ state' = Null /\ pc' \in {"idle", "run", "drop"}
          /\ then' \in {"idle", "run", "drop"}
      BY <2>6 DEF Poll, GiveUp, Forget, Goto, TypeOK
    <3>5. polls' \in 0 .. MaxPolls
      BY <2>6, BoundAssumption DEF Poll, GiveUp, Forget, Goto, TypeOK
    <3> QED
      BY <2>6, <3>1, <3>2, <3>3, <3>4, <3>5 DEF Poll, TypeOK, server
  <2>7. CASE DropTemplate
    <3>1. faults' \in 0 .. MaxFaults
      BY <2>7, FaultType DEF DropTemplate, Unanswered, TypeOK
    <3>2. template' \in BOOLEAN
      BY <2>7 DEF DropTemplate, TypeOK
    <3>3. /\ state' = state
          /\ pc' = "idle" /\ then' = "idle" /\ polls' \in 0 .. MaxPolls
      BY <2>7, BoundAssumption DEF DropTemplate, Unanswered, Stop, Goto
    <3> QED
      BY <2>7, <3>1, <3>2, <3>3 DEF DropTemplate, TypeOK, history
  <2>8. CASE Interrupt
    <3>1. faults' \in 0 .. MaxFaults
      BY <2>8, FaultType DEF Interrupt
    <3>2. abandoned' \subseteq Runs
      BY <2>8 DEF Interrupt, TypeOK, Jobs
    <3>3. pc' = "idle" /\ then' = "idle" /\ polls' \in 0 .. MaxPolls
      BY <2>8, BoundAssumption DEF Interrupt, Stop, Goto
    <3> QED
      BY <2>8, <3>1, <3>2, <3>3 DEF Interrupt, TypeOK, server
  <2>9. CASE ImportState
    <3>1. state' \in Jobs
      BY <2>9, JobHasRun DEF ImportState
    <3> QED
      BY <2>9, <3>1 DEF ImportState, TypeOK, server, handler, history
  <2>10. CASE Edit
    <3>1. edits' \in 0 .. MaxEdits
      BY <2>10, BoundAssumption DEF Edit, TypeOK
    <3> QED
      BY <2>10, <3>1 DEF Edit, TypeOK, server, handler, history
  <2>11. CASE Execute
    <3>1. status' \in [Runs -> Statuses]
      BY <2>11, StatusType DEF Execute, Moves, Statuses, TypeOK
    <3> QED
      BY <2>11, <3>1 DEF Execute, TypeOK, handler, history
  <2>12. CASE OtherRun
    <3>1. status' \in [Runs -> Statuses] /\ stray' \subseteq Runs
      BY <2>12, StatusType DEF OtherRun, Statuses, TypeOK
    <3> QED
      BY <2>12, <3>1 DEF OtherRun, TypeOK, handler
  <2>13. CASE UNCHANGED vars
    BY <2>13 DEF vars, TypeOK, server, handler, history
  <2> QED
    BY <2>1, <2>2, <2>3, <2>4, <2>5, <2>6, <2>7, <2>8, <2>9, <2>10, <2>11, <2>12, <2>13
       DEF Next, Provider
<1> QED
  BY <1>1, <1>2, PTL DEF Spec

-----------------------------------------------------------------------------
\* The run in state has been started, and while a handler waits for it it has been
\* told to stop.  Every active run is in state, given up, or unknown to Terraform.
TrackedInv ==
  /\ state # Null => status[state.run] # "none"
  /\ pc = "wait" => status[state.run] \notin {"none", "queued", "started"}
  /\ \A r \in Runs : Active(status[r]) =>
       r \in abandoned \cup stray \/ (state # Null /\ state.run = r)

LEMMA TrackedInvariant == Spec => []TrackedInv
<1>1. Init => TrackedInv
  BY DEF Init, TrackedInv, Active
<1>2. TypeOK /\ TrackedInv /\ [Next]_vars => TrackedInv'
  <2> SUFFICES ASSUME TypeOK, TrackedInv, [Next]_vars PROVE TrackedInv'
    OBVIOUS
  <2>0. /\ status \in [Runs -> Statuses]
        /\ state \in {Null} \cup [run : Runs, conf : Confs \cup {Null}]
        /\ config \in Confs \cup {Null}
        /\ pc \in {"look", "cancel", "wait"} => state # Null
        /\ pc \in {"run", "drop"} => state = Null
        /\ then \in {"idle", "run", "drop"}
    BY DEF TypeOK, Jobs
  <2> USE DEF TrackedInv, Active
  <2>1. CASE Plan
    BY <2>0, <2>1 DEF Plan, Refreshed, Goto, server, history
  <2>2. CASE Register
    BY <2>0, <2>2 DEF Register, Unanswered, Stop, Goto, history
  <2>3. CASE Run
    <3>1. state = Null
      BY <2>0, <2>3 DEF Run
    <3>2. pc' = "idle"
      BY <2>3 DEF Run, Unanswered, Stop, Goto
    <3>3. ASSUME UNCHANGED <<state, status, stray>> PROVE TrackedInv'
      BY <2>0, <2>3, <3>1, <3>2, <3>3 DEF Run
    <3>4. ASSUME NEW r \in Runs, status' = [status EXCEPT ![r] = "queued"],
                 \/ state' = Job(r, config) /\ UNCHANGED stray
                 \/ state' = state /\ stray' = stray \cup {r}
          PROVE  TrackedInv'
      <4>1. Job(r, config).run = r /\ abandoned' = abandoned
        BY <2>3 DEF Job, Run
      <4>2. status'[r] = "queued" /\ \A q \in Runs : q # r => status'[q] = status[q]
        BY <2>0, <3>4
      <4>3. \/ state' = Null /\ stray' = stray \cup {r}
            \/ state' # Null /\ state'.run = r /\ UNCHANGED stray
        BY <2>0, <3>1, <3>4, <4>1, JobHasRun, NullAssumption
      <4> QED
        BY <2>0, <3>1, <3>2, <3>4, <4>1, <4>2, <4>3
    <3> QED
      BY <2>3, <3>3, <3>4 DEF Run, Unanswered
  <2>4. CASE Look
    BY <2>0, <2>4 DEF Look, Forget, JobIsTerminal, Unanswered, Stop, Goto, server, history
  <2>5. CASE Cancel
    <3>1. state # Null /\ state.run \in Runs /\ state' = state
      BY <2>0, <2>5 DEF Cancel, CancelFails, Unanswered
    <3>2. \/ status' = status
          \/ status' = Cancelled(state.run)
      BY <2>5 DEF Cancel, CancelFails
    <3>3. \A r \in Runs : \/ status'[r] = status[r]
                          \/ r = state.run /\ Active(status[r]) /\ status'[r] = "cancelling"
      BY <2>0, <3>1, <3>2 DEF Cancelled
    <3>4. pc' = "wait" => ~Ended(status[state.run]) /\ status' = Cancelled(state.run)
      BY <2>5 DEF Cancel, CancelFails, Unanswered, Stop, Goto
    <3>5. pc' = "wait" => status'[state.run] \in {"cancelling", "gone"}
      BY <2>0, <3>1, <3>4 DEF Cancelled, Ended
    <3> QED
      BY <2>0, <2>5, <3>1, <3>3, <3>5 DEF Cancel, history
  <2>6. CASE Poll
    <3>1. \/ state' = Null /\ abandoned' = abandoned \cup {state.run} /\ pc' # "wait"
          \/ state' = Null /\ UNCHANGED abandoned /\ ~Active(status[state.run]) /\ pc' # "wait"
          \/ UNCHANGED <<state, pc, abandoned>>
      BY <2>0, <2>6 DEF Poll, GiveUp, Forget, Goto, JobIsTerminal
    <3> QED
      BY <2>0, <2>6, <3>1 DEF Poll, server
  <2>7. CASE DropTemplate
    BY <2>0, <2>7 DEF DropTemplate, Unanswered, Stop, Goto, history
  <2>8. CASE Interrupt
    BY <2>0, <2>8 DEF Interrupt, Stop, Goto, server
  <2>9. CASE ImportState
    BY <2>0, <2>9 DEF ImportState, Job, server, handler, history
  <2>10. CASE Edit
    BY <2>0, <2>10 DEF Edit, server, handler, history
  <2>11. CASE Execute
    <3>1. PICK r \in Runs, m \in Moves : status[r] = m[1] /\ status' = [status EXCEPT ![r] = m[2]]
      BY <2>11 DEF Execute
    <3>2. /\ status[r] \in {"queued", "started", "cancelling"}
          /\ status'[r] \in {"started", "succeeded", "failed", "canceled"}
          /\ status'[r] = "started" => status[r] = "queued"
      BY <2>0, <3>1 DEF Moves
    <3>3. \A q \in Runs : q # r => status'[q] = status[q]
      BY <2>0, <3>1
    <3> QED
      BY <2>0, <2>11, <3>2, <3>3 DEF Execute, handler, history
  <2>12. CASE OtherRun
    <3>1. PICK r \in Runs :
            \/ status[r] = "none" /\ status' = [status EXCEPT ![r] = "queued"]
               /\ stray' = stray \cup {r}
            \/ Ended(status[r]) /\ status' = [status EXCEPT ![r] = "gone"] /\ UNCHANGED stray
      BY <2>12 DEF OtherRun, Unused
    <3> QED
      BY <2>0, <2>12, <3>1 DEF OtherRun, Ended, handler
  <2>13. CASE UNCHANGED vars
    BY <2>13 DEF vars, server, handler, history
  <2> QED
    BY <2>1, <2>2, <2>3, <2>4, <2>5, <2>6, <2>7, <2>8, <2>9, <2>10, <2>11, <2>12, <2>13
       DEF Next, Provider
<1> QED
  BY <1>1, <1>2, TypeCorrect, PTL DEF Spec

-----------------------------------------------------------------------------
\* Whatever finishes, fails or is interrupted, a run leaves Terraform state only when it
\* has stopped, is gone or has been told to stop.
THEOREM ForgottenRunsAreStopping == Spec => ForgottenIsStopping
<1>1. TypeOK /\ TrackedInv /\ [Next]_vars =>
        [(state # Null /\ state' # state) =>
           status'[state.run] \notin {"queued", "started"}]_vars
  <2> SUFFICES ASSUME TypeOK, TrackedInv, Next, state # Null, state' # state
               PROVE  status'[state.run] \notin {"queued", "started"}
    BY DEF vars, server, handler, history
  <2>0. pc \in {"run", "drop"} => state = Null
    BY DEF TypeOK
  <2>1. CASE Plan
    BY <2>1 DEF Plan, Refreshed, server
  <2>2. CASE Look
    BY <2>2 DEF Look, Forget, JobIsTerminal, Unanswered, server
  <2>3. CASE Poll
    BY <2>3 DEF Poll, TrackedInv, server
  <2>4. CASE Interrupt
    BY <2>4 DEF Interrupt, TrackedInv, server
  <2>5. CASE Register \/ Cancel \/ DropTemplate
    BY <2>5 DEF Register, Cancel, CancelFails, DropTemplate, Unanswered
  <2>6. CASE Run \/ ImportState
    BY <2>0, <2>6 DEF Run, ImportState
  <2>7. CASE Edit \/ Execute \/ OtherRun
    BY <2>7 DEF Edit, Execute, OtherRun
  <2> QED
    BY <2>1, <2>2, <2>3, <2>4, <2>5, <2>6, <2>7 DEF Next, Provider
<1> QED
  BY <1>1, TypeCorrect, TrackedInvariant, PTL DEF Spec, ForgottenIsStopping

\* A template is refused for an active run only if a destroy gave that run up or
\* Terraform never knew of it.
THEOREM TemplatesAreRefusedForAReason == Spec => TemplateRefusedForAReason
<1>1. TypeOK /\ TrackedInv /\ [Next]_vars =>
        [(pc = "drop" /\ pc' = "idle" /\ template' /\ faults' = faults) =>
           \E r \in abandoned \cup stray : Active(status[r])]_vars
  <2> SUFFICES ASSUME TypeOK, TrackedInv, Next, pc = "drop", pc' = "idle", template',
                      faults' = faults
               PROVE  \E r \in abandoned \cup stray : Active(status[r])
    OBVIOUS
  <2>1. state = Null /\ faults + 1 # faults
    BY BoundAssumption DEF TypeOK
  <2>2. DropTemplate
    BY DEF Next, Provider, Plan, Register, Run, Look, Cancel, Poll, Interrupt, ImportState,
           Edit, Execute, OtherRun, handler
  <2>3. \E r \in Runs : Active(status[r])
    BY <2>1, <2>2 DEF DropTemplate, Unanswered, Fault
  <2> QED
    BY <2>1, <2>3 DEF TrackedInv
<1> QED
  BY <1>1, TypeCorrect, TrackedInvariant, PTL DEF Spec, TemplateRefusedForAReason
=============================================================================
