--------------------------- MODULE PlatformProofs ---------------------------
(***************************************************************************)
(* Theorems about Platform, for every number of executions, workers,       *)
(* schedulers, operators, steps and attempts.                              *)
(***************************************************************************)
EXTENDS Platform, TLAPS

-----------------------------------------------------------------------------
(* Type correctness                                                        *)

(* What every transaction that queues a dispatch does to the outbox.       *)
LEMMA AddDispatchType ==
    ASSUME DatabaseTypeOK, NEW e \in Executions, AddDispatch(e)
    PROVE  /\ dispatches' \in [Executions -> Nat]
           /\ outbox' \in SUBSET OutboxRow
BY DEF DatabaseTypeOK, AddDispatch, OutboxRow

(* What every write of lease_expires_at does to the clock comparisons.     *)
LEMMA LeaseExpiryType ==
    ASSUME DatabaseTypeOK, NEW e \in Executions, LeaseExpiryWritten(e)
    PROVE  /\ lease_past' \in SUBSET Executions
           /\ lease_view' \in [Schedulers -> SUBSET Executions]
BY DEF DatabaseTypeOK, LeaseExpiryWritten

(* The same for next_retry_at.                                             *)
LEMMA NextRetryType ==
    ASSUME DatabaseTypeOK, NEW e \in Executions, NextRetryWritten(e)
    PROVE  /\ retry_past' \in SUBSET Executions
           /\ retry_view' \in [Schedulers -> SUBSET Executions]
BY DEF DatabaseTypeOK, NextRetryWritten

(* An audit event of a known type keeps its table well typed.              *)
LEMMA AppendAuditType ==
    ASSUME DatabaseTypeOK, NEW e \in Executions, NEW type \in AuditType,
           AppendAudit(e, type)
    PROVE  audit_events' \in [Executions -> AuditType]
BY DEF DatabaseTypeOK, AppendAudit

(* So does a failure record.                                               *)
LEMMA AddFailureType ==
    ASSUME DatabaseTypeOK, NEW e \in Executions, NEW kind \in FailureKind,
           AddFailure(e, kind)
    PROVE  failure_records' \in [Executions -> FailureKind]
BY DEF DatabaseTypeOK, AddFailure

(* A worker that is not idle has an execution.                             *)
HasExecution ==
    \A w \in Workers : worker[w].pc # "idle" => worker[w].execution \in Executions

StepPoints == {"renew_before", "begin_step", "run", "renew_after",
               "commit_step", "commit_failure"}

(* Steps are begun and committed inside the workflow.                      *)
IndexInside ==
    \A w \in Workers : worker[w].pc \in StepPoints => worker[w].index < NumSteps

WorkerInv == WorkerTypeOK /\ HasExecution /\ IndexInside

TypeInv == TypeOK /\ WorkerInv

(* An idle worker is well typed, and the two facts above ask nothing of it.*)
LEMMA IdleType == Idle \in WorkerState /\ Idle.pc = "idle"
<1>1. 0 \in Nat /\ 0 \in 0 .. NumSteps
  BY StepsAssumption
<1>2. NewSteps \in [StepIndex -> StepStatus]
  BY DEF NewSteps, StepStatus
<1> QED
  BY <1>1, <1>2, Zenon DEF Idle, WorkerState, WorkerPoints, Outcomes, ErrorCode

(* The transitions that end with an idle worker keep the worker invariant. *)
LEMMA GoesIdle ==
    ASSUME WorkerInv, NEW w \in Workers, worker' = [worker EXCEPT ![w] = Idle]
    PROVE  WorkerInv'
<1>1. WorkerTypeOK'
  BY IdleType DEF WorkerInv, WorkerTypeOK
<1>2. \A v \in Workers : worker'[v] = IF v = w THEN Idle ELSE worker[v]
  BY DEF WorkerInv, WorkerTypeOK
<1>3. HasExecution' /\ IndexInside'
  BY <1>2, IdleType DEF WorkerInv, HasExecution, IndexInside, StepPoints
<1> QED
  BY <1>1, <1>3 DEF WorkerInv

(* The empty platform is well typed.                                       *)
LEMMA InitTypeInv == Init => TypeInv
<1> SUFFICES ASSUME Init PROVE TypeInv
  OBVIOUS
<1> USE DEF Init, DatabaseInit, QueueInit, WorkerInit, SchedulerInit, ApiInit
<1>0. 0 \in Nat /\ 0 \in 0 .. NumSteps /\ 0 \in 0 .. MaxFaults /\ 0 \in 0 .. MaxCalls
  BY StepsAssumption, FaultsAssumption, MaxCallsAssumption
<1>1. NewExecution \in Execution
  BY <1>0, Zenon DEF NewExecution, Execution, ExecutionStatus, ErrorCode
<1>2. NewSteps \in [StepIndex -> StepStatus]
  BY DEF NewSteps, StepStatus
<1>3. DatabaseTypeOK
  BY <1>1, <1>2 DEF DatabaseTypeOK, FailureKind, AuditType
<1>4. WorkerInv
  BY IdleType DEF WorkerInv, WorkerTypeOK, HasExecution, IndexInside, StepPoints
<1>5. CycleStart \in SchedulerState
  BY Zenon DEF SchedulerState, CycleStart, SchedulerPoints
<1>6. SchedulerTypeOK
  BY <1>5 DEF SchedulerTypeOK
<1>7. NoRequest \in Requests
  BY <1>0, Zenon DEF NoRequest, Requests, LoadRow, LoadedRow, NewExecution, ErrorCode
<1>8. ApiTypeOK
  BY <1>7 DEF ApiTypeOK
<1> QED
  BY <1>0, <1>3, <1>4, <1>6, <1>8 DEF TypeInv, TypeOK, WorkerInv

-----------------------------------------------------------------------------
(* The transitions of a worker keep the types.                             *)

(* What follows from being inside an execution.                            *)
LEMMA WorkerFacts ==
    ASSUME TypeInv, NEW w \in Workers
    PROVE  /\ worker[w] \in WorkerState
           /\ worker[w].pc # "idle" =>
                 /\ worker[w].execution \in Executions
                 /\ RowOf(w) \in Execution
                 /\ step_executions[worker[w].execution] \in [StepIndex -> StepStatus]
           /\ worker[w].pc \in StepPoints => worker[w].index \in StepIndex
<1>1. worker[w] \in WorkerState
  BY DEF TypeInv, WorkerInv, WorkerTypeOK
<1>2. worker[w].index \in Nat
  BY <1>1, StepsAssumption DEF WorkerState
<1> QED
  BY <1>1, <1>2, StepsAssumption
  DEF TypeInv, TypeOK, WorkerInv, HasExecution, IndexInside, DatabaseTypeOK,
      RowOf, StepIndex

(* A worker whose new local state is known keeps the worker invariant when *)
(* that state does.                                                        *)
LEMMA WorkerMoves ==
    ASSUME WorkerInv, NEW w \in Workers, NEW new \in WorkerState,
           worker' = [worker EXCEPT ![w] = new],
           new.pc # "idle" => new.execution \in Executions,
           new.pc \in StepPoints => new.index < NumSteps
    PROVE  WorkerInv'
<1>1. WorkerTypeOK'
  BY DEF WorkerInv, WorkerTypeOK
<1>2. \A v \in Workers : worker'[v] = IF v = w THEN new ELSE worker[v]
  BY DEF WorkerInv, WorkerTypeOK
<1> QED
  BY <1>1, <1>2 DEF WorkerInv, HasExecution, IndexInside

(* RowOf a claimed execution, with the columns a claim writes.             *)
LEMMA ClaimValuesType ==
    ASSUME NEW row \in Execution, NEW token \in Nat
    PROVE  ClaimValues(row, token) \in Execution
<1>1. row.attempt_count + 1 \in Nat
  BY DEF Execution
<1> QED
  BY <1>1, Zenon DEF ClaimValues, Execution, ExecutionStatus

(* A popped identifier is an execution's, and the worker now has one.      *)
LEMMA DequeueType ==
    ASSUME TypeInv, NEW w \in Workers, Dequeue(w)
    PROVE  WorkerInv' /\ DatabaseTypeOK' /\ queue' \in Seq(Executions)
<1>1. PICK e \in Executions :
         /\ dequeue(e)
         /\ worker' = [worker EXCEPT ![w].pc = "claim", ![w].execution = e]
  BY DEF Dequeue
<1> DEFINE new == [worker[w] EXCEPT !.pc = "claim", !.execution = e]
<1>2. worker' = [worker EXCEPT ![w] = new]
  BY <1>1 DEF TypeInv, WorkerInv, WorkerTypeOK, WorkerState
<1>3. new \in WorkerState
  BY WorkerFacts, Zenon DEF WorkerState, WorkerPoints
<1>4. new.pc = "claim" /\ new.execution = e
  BY WorkerFacts DEF WorkerState
<1>5. WorkerInv'
  BY <1>2, <1>3, <1>4, WorkerMoves DEF TypeInv, StepPoints
<1>6. queue' \in Seq(Executions)
  BY <1>1 DEF dequeue, TypeInv, TypeOK
<1>7. DatabaseTypeOK'
  BY DEF Dequeue, dbVars, dispatchVars, leaseClock, retryClock, TypeInv, TypeOK,
         DatabaseTypeOK
<1> QED
  BY <1>5, <1>6, <1>7

(* A claim counts an attempt and draws a token, both numbers.              *)
LEMMA ClaimType ==
    ASSUME TypeInv, NEW w \in Workers, Claim(w)
    PROVE  WorkerInv' /\ DatabaseTypeOK' /\ queue' \in Seq(Executions)
<1> DEFINE e == worker[w].execution
           token == tokens[e] + 1
           new == [worker[w] EXCEPT !.pc = "load", !.lease_token = token]
<1>1. e \in Executions /\ executions[e] \in Execution /\ token \in Nat
  BY WorkerFacts DEF Claim, RowOf, TypeInv, TypeOK, DatabaseTypeOK
<1>2. executions' \in [Executions -> Execution] /\ tokens' \in [Executions -> Nat]
  BY <1>1, ClaimValuesType DEF Claim, TypeInv, TypeOK, DatabaseTypeOK
<1>3. DatabaseTypeOK'
  BY <1>1, <1>2, LeaseExpiryType, NextRetryType
  DEF Claim, TypeInv, TypeOK, DatabaseTypeOK, dispatchVars
<1>4. worker' = [worker EXCEPT ![w] = new]
  BY DEF Claim, TypeInv, WorkerInv, WorkerTypeOK, WorkerState
<1>5. new \in WorkerState
  BY <1>1, WorkerFacts, Zenon DEF WorkerState, WorkerPoints
<1>6. new.pc = "load" /\ new.execution = e
  BY WorkerFacts DEF WorkerState
<1>7. WorkerInv'
  BY <1>1, <1>4, <1>5, <1>6, WorkerMoves DEF TypeInv, StepPoints
<1> QED
  BY <1>3, <1>7 DEF Claim, TypeInv, TypeOK

(* The locals taken from a row have the types of its columns.              *)
LEMMA LoadType ==
    ASSUME TypeInv, NEW w \in Workers, Load(w)
    PROVE  WorkerInv' /\ DatabaseTypeOK' /\ queue' \in Seq(Executions)
<1> DEFINE e == worker[w].execution
           row == RowOf(w)
           new == [worker[w] EXCEPT
                      !.pc = LoopPoint(row.current_step),
                      !.index = row.current_step,
                      !.attempt_count = row.attempt_count,
                      !.last_error_code = row.last_error_code,
                      !.accumulated_output = row.output_payload,
                      !.step_rows = step_executions[e]]
<1>1. /\ e \in Executions /\ row \in Execution
      /\ step_executions[e] \in [StepIndex -> StepStatus]
      /\ worker[w] \in WorkerState
  BY WorkerFacts DEF Load
<1>2. LoopPoint(row.current_step) \in WorkerPoints
  BY DEF LoopPoint, WorkerPoints, RenewPoints
<1>3. worker' = [worker EXCEPT ![w] = new]
  BY DEF Load, TypeInv, WorkerInv, WorkerTypeOK, WorkerState
<1>4. new \in WorkerState
  BY <1>1, <1>2, Zenon DEF WorkerState, Execution
<1>5. /\ new.pc = LoopPoint(row.current_step)
      /\ new.index = row.current_step
      /\ new.execution = e
  BY <1>1, Zenon DEF WorkerState
<1>6. new.pc \in StepPoints => new.index < NumSteps
  BY <1>5 DEF StepPoints, LoopPoint
<1>7. WorkerInv'
  BY <1>1, <1>3, <1>4, <1>5, <1>6, WorkerMoves DEF TypeInv
<1> QED
  BY <1>7 DEF Load, TypeInv, TypeOK, dbVars, dispatchVars, leaseClock,
              retryClock, DatabaseTypeOK

(* A renewal that matches: the worker moves on, inside a step if it was.   *)
LEMMA RenewedType ==
    ASSUME TypeInv, NEW w \in Workers, NEW from \in RenewPoints,
           NEW to \in CommitPoints, Renewed(w, from, to),
           to \in StepPoints => from \in StepPoints
    PROVE  WorkerInv' /\ DatabaseTypeOK' /\ queue' \in Seq(Executions)
<1> DEFINE new == [worker[w] EXCEPT !.pc = to]
<1>1. worker[w].execution \in Executions /\ worker[w].pc = from
  BY WorkerFacts DEF Renewed, RenewPoints
<1>2. worker' = [worker EXCEPT ![w] = new]
  BY DEF Renewed, TypeInv, WorkerInv, WorkerTypeOK, WorkerState
<1>3. new \in WorkerState
  BY WorkerFacts, Zenon DEF WorkerState, WorkerPoints
<1>4. /\ new.pc = to /\ new.execution = worker[w].execution
      /\ new.index = worker[w].index
  BY WorkerFacts DEF WorkerState
<1>5. new.pc \in StepPoints => new.index < NumSteps
  BY <1>1, <1>4 DEF TypeInv, WorkerInv, IndexInside
<1>6. WorkerInv'
  BY <1>1, <1>2, <1>3, <1>4, <1>5, WorkerMoves DEF TypeInv
<1>7. DatabaseTypeOK'
  BY <1>1, LeaseExpiryType
  DEF Renewed, TypeInv, TypeOK, DatabaseTypeOK, dispatchVars, retryClock
<1> QED
  BY <1>6, <1>7 DEF Renewed, TypeInv, TypeOK

(* A broken step is reported at an index inside the workflow.              *)
LEMMA RenewBeforeInvalidType ==
    ASSUME TypeInv, NEW w \in Workers, RenewBeforeInvalid(w)
    PROVE  WorkerInv' /\ DatabaseTypeOK' /\ queue' \in Seq(Executions)
<1> DEFINE new == [worker[w] EXCEPT !.pc = "commit_failure",
                                    !.outcome = "invalid"]
<1>1. /\ worker[w].execution \in Executions
      /\ worker[w].pc = "renew_before"
      /\ worker[w].index < NumSteps
  BY WorkerFacts
  DEF RenewBeforeInvalid, StepPoints, TypeInv, WorkerInv, IndexInside
<1>2. worker' = [worker EXCEPT ![w] = new]
  BY DEF RenewBeforeInvalid, TypeInv, WorkerInv, WorkerTypeOK, WorkerState
<1>3. new \in WorkerState
  <2>1. "commit_failure" \in WorkerPoints /\ "invalid" \in Outcomes
    BY DEF WorkerPoints, CommitPoints, Outcomes
  <2>2. worker[w] \in WorkerState
    BY WorkerFacts
  <2> QED
    BY <2>1, <2>2 DEF WorkerState
<1>4. new.execution = worker[w].execution /\ new.index = worker[w].index
  BY WorkerFacts DEF WorkerState
<1>5. WorkerInv'
  BY <1>1, <1>2, <1>3, <1>4, WorkerMoves DEF TypeInv
<1>6. DatabaseTypeOK'
  BY <1>1, LeaseExpiryType
  DEF RenewBeforeInvalid, TypeInv, TypeOK, DatabaseTypeOK, dispatchVars,
      retryClock
<1> QED
  BY <1>5, <1>6 DEF RenewBeforeInvalid, TypeInv, TypeOK

(* The step row begun lies inside the workflow.                            *)
LEMMA BeginStepType ==
    ASSUME TypeInv, NEW w \in Workers, BeginStep(w)
    PROVE  WorkerInv' /\ DatabaseTypeOK' /\ queue' \in Seq(Executions)
<1> DEFINE e == worker[w].execution
           i == worker[w].index
           rows == [worker[w].step_rows EXCEPT ![i] = "running"]
           new == [worker[w] EXCEPT !.pc = "run", !.step_rows = rows]
           stored == step_executions[e]
           written == Assign(stored[i], worker[w].step_rows[i], "running")
<1>1. /\ e \in Executions /\ i \in StepIndex /\ worker[w] \in WorkerState
      /\ stored \in [StepIndex -> StepStatus]
      /\ i < NumSteps
  BY WorkerFacts DEF BeginStep, StepPoints, TypeInv, WorkerInv, IndexInside
<1>2. rows \in [StepIndex -> StepStatus] /\ written \in StepStatus
  BY <1>1 DEF WorkerState, StepStatus, Assign
<1>3. worker' = [worker EXCEPT ![w] = new]
  BY DEF BeginStep, TypeInv, WorkerInv, WorkerTypeOK, WorkerState
<1>4. new \in WorkerState
  BY <1>1, <1>2, Zenon DEF WorkerState, WorkerPoints
<1>5. new.execution = e /\ new.index = i
  BY <1>1 DEF WorkerState
<1>6. WorkerInv'
  BY <1>1, <1>3, <1>4, <1>5, WorkerMoves DEF TypeInv
<1>7. step_executions' = [step_executions EXCEPT ![e] = [stored EXCEPT ![i] = written]]
  BY DEF BeginStep
<1>8. step_executions' \in [Executions -> [StepIndex -> StepStatus]]
  BY <1>1, <1>2, <1>7 DEF TypeInv, TypeOK, DatabaseTypeOK
<1>9. DatabaseTypeOK'
  BY <1>8 DEF BeginStep, TypeInv, TypeOK, DatabaseTypeOK, dispatchVars,
              leaseClock, retryClock
<1> QED
  BY <1>6, <1>9 DEF BeginStep, TypeInv, TypeOK

(* The runner only leaves its outcome.                                     *)
LEMMA RunStepType ==
    ASSUME TypeInv, NEW w \in Workers, RunStep(w)
    PROVE  WorkerInv' /\ DatabaseTypeOK' /\ queue' \in Seq(Executions)
<1>1. PICK outcome \in RunnerOutcomes :
         worker' = [worker EXCEPT ![w].pc = "renew_after",
                                  ![w].outcome = outcome]
  BY DEF RunStep
<1> DEFINE new == [worker[w] EXCEPT !.pc = "renew_after", !.outcome = outcome]
<1>2. worker' = [worker EXCEPT ![w] = new]
  BY <1>1 DEF TypeInv, WorkerInv, WorkerTypeOK, WorkerState
<1>3. new \in WorkerState
  <2>1. "renew_after" \in WorkerPoints /\ outcome \in Outcomes
    BY DEF WorkerPoints, RenewPoints, Outcomes
  <2>2. worker[w] \in WorkerState
    BY WorkerFacts
  <2> QED
    BY <2>1, <2>2 DEF WorkerState
<1>4. /\ worker[w].execution \in Executions
      /\ worker[w].index < NumSteps
  BY WorkerFacts DEF RunStep, StepPoints, TypeInv, WorkerInv, IndexInside
<1>5. new.execution = worker[w].execution /\ new.index = worker[w].index
  BY WorkerFacts DEF WorkerState
<1>6. WorkerInv'
  BY <1>2, <1>3, <1>4, <1>5, WorkerMoves DEF TypeInv
<1> QED
  BY <1>6 DEF RunStep, TypeInv, TypeOK, dbVars, dispatchVars, leaseClock,
              retryClock, DatabaseTypeOK

(* A completed step moves current_step at most to the end.                 *)
LEMMA CommitStepType ==
    ASSUME TypeInv, NEW w \in Workers, CommitStep(w)
    PROVE  WorkerInv' /\ DatabaseTypeOK' /\ queue' \in Seq(Executions)
<1> DEFINE e == worker[w].execution
           i == worker[w].index
           merged == worker[w].accumulated_output \cup {i}
           rows == [worker[w].step_rows EXCEPT ![i] = "succeeded"]
           new == [worker[w] EXCEPT !.pc = LoopPoint(i + 1), !.index = i + 1,
                                    !.accumulated_output = merged,
                                    !.step_rows = rows, !.outcome = "none"]
           row == executions[e]
           payload == Assign(row.output_payload,
                             worker[w].accumulated_output, merged)
           written == [row EXCEPT !.current_step = i + 1,
                                  !.output_payload = payload]
<1>1. /\ e \in Executions /\ i \in StepIndex /\ worker[w] \in WorkerState
      /\ row \in Execution
  BY WorkerFacts DEF CommitStep, StepPoints, RowOf
<1>2. i + 1 \in 0 .. NumSteps
  BY <1>1, StepsAssumption DEF StepIndex
<1>3. /\ rows \in [StepIndex -> StepStatus]
      /\ merged \in SUBSET StepIndex
      /\ LoopPoint(i + 1) \in WorkerPoints
  BY <1>1 DEF WorkerState, StepStatus, LoopPoint, WorkerPoints, RenewPoints
<1>4. payload \in SUBSET StepIndex
  BY <1>1, <1>3 DEF Assign, Execution
<1>5. written \in Execution
  BY <1>1, <1>2, <1>4, Zenon DEF Execution
<1>6. executions' = [executions EXCEPT ![e] = written]
  BY DEF CommitStep, TypeInv, TypeOK, DatabaseTypeOK, Execution
<1>7. executions' \in [Executions -> Execution]
  BY <1>1, <1>5, <1>6 DEF TypeInv, TypeOK, DatabaseTypeOK
<1>8. step_executions' \in [Executions -> [StepIndex -> StepStatus]]
  BY <1>1 DEF CommitStep, TypeInv, TypeOK, DatabaseTypeOK, StepStatus
<1>9. audit_events' \in [Executions -> AuditType]
  BY <1>1, AppendAuditType DEF CommitStep, AuditType, TypeInv, TypeOK
<1>10. DatabaseTypeOK'
  BY <1>7, <1>8, <1>9 DEF CommitStep, TypeInv, TypeOK, DatabaseTypeOK,
                          dispatchVars, leaseClock, retryClock
<1>11. worker' = [worker EXCEPT ![w] = new]
  BY DEF CommitStep, TypeInv, WorkerInv, WorkerTypeOK, WorkerState
<1>12. new \in WorkerState
  BY <1>1, <1>2, <1>3, Zenon DEF WorkerState, Outcomes
<1>13. /\ new.pc = LoopPoint(i + 1) /\ new.index = i + 1
       /\ new.execution = e
  BY <1>1, Zenon DEF WorkerState
<1>14. new.pc \in StepPoints => new.index < NumSteps
  BY <1>13 DEF StepPoints, LoopPoint
<1>15. WorkerInv'
  BY <1>1, <1>11, <1>12, <1>13, <1>14, WorkerMoves DEF TypeInv
<1> QED
  BY <1>10, <1>15 DEF CommitStep, TypeInv, TypeOK

(* The row a successful execution ends with.                               *)
LEMMA SuccessValuesType ==
    ASSUME NEW row \in Execution, NEW loaded \in ErrorCode
    PROVE  SuccessValues(row, loaded) \in Execution
<1>1. Assign(row.last_error_code, loaded, "none") \in ErrorCode
  BY DEF Assign, ErrorCode, Execution
<1>2. 0 \in Nat
  OBVIOUS
<1> QED
  BY <1>1, <1>2, Zenon DEF SuccessValues, Execution, ExecutionStatus

(* A success writes a row of the table's type.                             *)
LEMMA CommitSuccessType ==
    ASSUME TypeInv, NEW w \in Workers, CommitSuccess(w)
    PROVE  WorkerInv' /\ DatabaseTypeOK' /\ queue' \in Seq(Executions)
<1> DEFINE e == worker[w].execution
<1>1. /\ e \in Executions /\ executions[e] \in Execution
      /\ worker[w].last_error_code \in ErrorCode
  BY WorkerFacts DEF CommitSuccess, RowOf, WorkerState
<1>2. executions' \in [Executions -> Execution]
  BY <1>1, SuccessValuesType
  DEF CommitSuccess, TypeInv, TypeOK, DatabaseTypeOK
<1>3. audit_events' \in [Executions -> AuditType]
  BY <1>1, AppendAuditType DEF CommitSuccess, AuditType, TypeInv, TypeOK
<1>4. DatabaseTypeOK'
  BY <1>1, <1>2, <1>3, LeaseExpiryType
  DEF CommitSuccess, TypeInv, TypeOK, DatabaseTypeOK, dispatchVars, retryClock
<1>5. WorkerInv'
  BY GoesIdle DEF CommitSuccess, TypeInv
<1> QED
  BY <1>4, <1>5 DEF CommitSuccess, TypeInv, TypeOK

(* The row a failed attempt ends with, but for its status.                 *)
LEMMA FailureValuesType ==
    ASSUME NEW row \in Execution, NEW loaded \in ErrorCode,
           NEW code \in ErrorCode
    PROVE  FailureValues(row, loaded, code) \in Execution
<1>1. Assign(row.last_error_code, loaded, code) \in ErrorCode
  BY DEF Assign, Execution
<1>2. 0 \in Nat
  OBVIOUS
<1> QED
  BY <1>1, <1>2, Zenon DEF FailureValues, Execution

(* The two ways it is given one.                                           *)
LEMMA FailedRowType ==
    ASSUME NEW failed \in Execution
    PROVE  /\ [failed EXCEPT !.status = "retry_scheduled",
                             !.next_retry_at = TRUE] \in Execution
           /\ [failed EXCEPT !.status = "dead_letter",
                             !.finished_at = TRUE] \in Execution
BY Zenon DEF Execution, ExecutionStatus

(* So does a failure, with a known error code and failure kind.            *)
LEMMA FailExecutionType ==
    ASSUME TypeInv, NEW w \in Workers, FailExecution(w)
    PROVE  WorkerInv' /\ DatabaseTypeOK' /\ queue' \in Seq(Executions)
<1> DEFINE e == worker[w].execution
           outcome == worker[w].outcome
           kind == IF TransientOutcome(outcome) THEN "transient" ELSE "permanent"
           failed == FailureValues(executions[e], worker[w].last_error_code,
                                   ErrorCodeOf(outcome))
<1>1. /\ e \in Executions /\ executions[e] \in Execution
      /\ worker[w].last_error_code \in ErrorCode
      /\ worker[w].index \in StepIndex
  BY WorkerFacts DEF FailExecution, RowOf, WorkerState, StepPoints
<1>2. ErrorCodeOf(outcome) \in ErrorCode /\ kind \in FailureKind
  BY DEF ErrorCodeOf, ErrorCode, FailureKind
<1>3. step_executions' \in [Executions -> [StepIndex -> StepStatus]]
  BY <1>1 DEF FailExecution, FailedStep, TypeInv, TypeOK, DatabaseTypeOK,
              StepStatus
<1>4. failure_records' \in [Executions -> FailureKind]
  BY <1>1, <1>2, AddFailureType DEF FailExecution, TypeInv, TypeOK
<1>5. /\ lease_past' \in SUBSET Executions
      /\ lease_view' \in [Schedulers -> SUBSET Executions]
  BY <1>1, LeaseExpiryType DEF FailExecution, TypeInv, TypeOK
<1>6. failed \in Execution
  BY <1>1, <1>2, FailureValuesType
<1>7. DatabaseTypeOK'
  <2>1. CASE /\ executions' = [executions EXCEPT
                   ![e] = [failed EXCEPT !.status = "retry_scheduled",
                                         !.next_retry_at = TRUE]]
             /\ NextRetryWritten(e)
             /\ AppendAudit(e, "execution_retry_scheduled")
    <3>1. executions' \in [Executions -> Execution]
      BY <1>1, <1>6, <2>1, FailedRowType
      DEF TypeInv, TypeOK, DatabaseTypeOK
    <3>2. audit_events' \in [Executions -> AuditType]
      BY <1>1, <2>1, AppendAuditType DEF AuditType, TypeInv, TypeOK
    <3> QED
      BY <1>1, <1>3, <1>4, <1>5, <2>1, <3>1, <3>2, NextRetryType
      DEF FailExecution, TypeInv, TypeOK, DatabaseTypeOK, dispatchVars
  <2>2. CASE /\ executions' = [executions EXCEPT
                   ![e] = [failed EXCEPT !.status = "dead_letter",
                                         !.finished_at = TRUE]]
             /\ AppendAudit(e, "execution_dead_lettered")
             /\ UNCHANGED retryClock
    <3>1. executions' \in [Executions -> Execution]
      BY <1>1, <1>6, <2>2, FailedRowType
      DEF TypeInv, TypeOK, DatabaseTypeOK
    <3>2. audit_events' \in [Executions -> AuditType]
      BY <1>1, <2>2, AppendAuditType DEF AuditType, TypeInv, TypeOK
    <3> QED
      BY <1>3, <1>4, <1>5, <2>2, <3>1, <3>2
      DEF FailExecution, TypeInv, TypeOK, DatabaseTypeOK, dispatchVars,
          retryClock
  <2> QED
    BY <2>1, <2>2 DEF FailExecution
<1>8. WorkerInv'
  BY GoesIdle DEF FailExecution, TypeInv
<1> QED
  BY <1>7, <1>8 DEF FailExecution, TypeInv, TypeOK

(* Every step of a worker keeps the types.                                 *)
LEMMA WorkerRunsType ==
    ASSUME TypeInv, NEW w \in Workers, WorkerRuns(w)
    PROVE  TypeInv'
<1> DEFINE Goal == WorkerInv' /\ DatabaseTypeOK' /\ queue' \in Seq(Executions)
<1>1. ASSUME worker' = [worker EXCEPT ![w] = Idle], UNCHANGED <<dbVars, queue>>
      PROVE  Goal
  BY <1>1, GoesIdle DEF TypeInv, TypeOK, dbVars, dispatchVars, leaseClock,
                        retryClock, DatabaseTypeOK
<1>2. Goal
  <2>1. CASE ClaimMiss(w) \/ RenewMiss(w) \/ BeginStepConflict(w)
    BY <1>1, <2>1 DEF ClaimMiss, RenewMiss, BeginStepConflict
  <2>2. CASE RenewBefore(w)
    BY <2>2, RenewedType DEF RenewBefore, RenewPoints, CommitPoints, StepPoints
  <2>3. CASE RenewAfter(w)
    BY <2>3, RenewedType DEF RenewAfter, RenewPoints, CommitPoints, StepPoints
  <2>4. CASE RenewFinal(w)
    BY <2>4, RenewedType DEF RenewFinal, RenewPoints, CommitPoints, StepPoints
  <2> QED
    BY <2>1, <2>2, <2>3, <2>4, DequeueType, ClaimType, LoadType,
       RenewBeforeInvalidType, BeginStepType, RunStepType, CommitStepType,
       CommitSuccessType, FailExecutionType
    DEF WorkerRuns, WorkerStep
<1> QED
  BY <1>2 DEF WorkerRuns, TypeInv, TypeOK, WorkerInv, SchedulerTypeOK,
              ApiTypeOK, budget

-----------------------------------------------------------------------------
(* The transitions of a scheduler keep the types.                          *)

SchedulerGoal == SchedulerTypeOK' /\ DatabaseTypeOK' /\ queue' \in Seq(Executions)

(* Batches are subsets of what they are taken from.                        *)
LEMMA BatchSubset ==
    ASSUME NEW S, NEW B \in Batches(S)
    PROVE  B \subseteq S
BY DEF Batches

(* The entries of a reap batch are well typed.                             *)
LEMMA LoadedType ==
    ASSUME DatabaseTypeOK, NEW e \in Executions
    PROVE  Loaded(e) \in ReapEntry
<1>1. executions[e].lease_token \in Nat /\ executions[e].attempt_count \in Nat
  BY DEF DatabaseTypeOK, Execution
<1> QED
  BY <1>1, Zenon DEF Loaded, ReapEntry

(* The point after a batch is one of the two given.                        *)
LEMMA AfterType ==
    ASSUME NEW rest, NEW inside \in SchedulerPoints, NEW next \in SchedulerPoints
    PROVE  After(rest, inside, next) \in SchedulerPoints
BY DEF After

(* The batch the reaper reads consists of well-typed entries.              *)
LEMMA ReapSelectType ==
    ASSUME TypeInv, NEW s \in Schedulers, ReapSelect(s)
    PROVE  SchedulerGoal
<1> DEFINE expired == {e \in lease_past : /\ executions[e].status = "running"
                                          /\ executions[e].lease_token # 0}
<1>1. PICK B \in Batches(expired) :
         scheduler' = [scheduler EXCEPT
             ![s].pc = After(B, "reap", "retry_select"),
             ![s].reaping = {Loaded(e) : e \in B}]
  BY DEF ReapSelect
<1>2. B \subseteq Executions
  BY BatchSubset DEF TypeInv, TypeOK, DatabaseTypeOK
<1>3. {Loaded(e) : e \in B} \in SUBSET ReapEntry
  BY <1>2, LoadedType DEF TypeInv, TypeOK
<1>4. After(B, "reap", "retry_select") \in SchedulerPoints
  BY AfterType DEF SchedulerPoints
<1>5. SchedulerTypeOK'
  BY <1>1, <1>3, <1>4, Zenon DEF TypeInv, TypeOK, SchedulerTypeOK, SchedulerState
<1>6. lease_view' \in [Schedulers -> SUBSET Executions]
  BY DEF ReapSelect, TypeInv, TypeOK, DatabaseTypeOK
<1> QED
  BY <1>5, <1>6 DEF ReapSelect, SchedulerGoal, TypeInv, TypeOK,
                    DatabaseTypeOK, dispatchVars, retryClock

(* A handled entry leaves a batch of entries.                              *)
LEMMA ReapedEntryType ==
    ASSUME TypeInv, NEW s \in Schedulers, NEW entry, ReapedEntry(s, entry)
    PROVE  SchedulerTypeOK'
<1> DEFINE rest == scheduler[s].reaping \ {entry}
<1>1. rest \in SUBSET ReapEntry
  BY DEF TypeInv, TypeOK, SchedulerTypeOK, SchedulerState
<1>2. After(rest, "reap", "retry_select") \in SchedulerPoints
  BY AfterType DEF SchedulerPoints
<1> HIDE DEF rest
<1> QED
  BY <1>1, <1>2, Zenon
  DEF ReapedEntry, rest, TypeInv, TypeOK, SchedulerTypeOK, SchedulerState

(* The columns the reaper writes.                                          *)
LEMMA ReapValuesType ==
    ASSUME NEW row \in Execution, NEW retryable \in BOOLEAN
    PROVE  ReapValues(row, retryable) \in Execution
<1>1. 0 \in Nat /\ (~retryable) \in BOOLEAN
  OBVIOUS
<1>2. (IF retryable THEN "queued" ELSE "dead_letter") \in ExecutionStatus
  BY DEF ExecutionStatus
<1> QED
  BY <1>1, <1>2, Zenon DEF ReapValues, Execution, ErrorCode

(* A reap that requeues adds a well-typed outbox row.                      *)
LEMMA ReapRequeueType ==
    ASSUME TypeInv, NEW s \in Schedulers, ReapRequeue(s)
    PROVE  SchedulerGoal
<1>1. PICK entry \in scheduler[s].reaping :
         LET e == entry.execution
         IN  /\ executions' = [executions EXCEPT ![e] = ReapValues(@, TRUE)]
             /\ LeaseExpiryWritten(e)
             /\ AddDispatch(e)
             /\ AppendAudit(e, "execution_lease_requeued")
             /\ ReapedEntry(s, entry)
             /\ UNCHANGED <<step_executions, failure_records, tokens,
                            retryClock, queue>>
  BY DEF ReapRequeue
<1> DEFINE e == entry.execution
<1>2. e \in Executions
  BY DEF TypeInv, TypeOK, SchedulerTypeOK, SchedulerState, ReapEntry
<1>3. executions' \in [Executions -> Execution]
  BY <1>1, <1>2, ReapValuesType DEF TypeInv, TypeOK, DatabaseTypeOK
<1>4. audit_events' \in [Executions -> AuditType]
  BY <1>1, <1>2, AppendAuditType DEF AuditType, TypeInv, TypeOK
<1>5. DatabaseTypeOK'
  BY <1>1, <1>2, <1>3, <1>4, LeaseExpiryType, AddDispatchType
  DEF TypeInv, TypeOK, DatabaseTypeOK, retryClock
<1> QED
  BY <1>1, <1>5, ReapedEntryType DEF SchedulerGoal, TypeInv, TypeOK

(* A reap that dead-letters adds a failure record.                         *)
LEMMA ReapDeadLetterType ==
    ASSUME TypeInv, NEW s \in Schedulers, ReapDeadLetter(s)
    PROVE  SchedulerGoal
<1>1. PICK entry \in scheduler[s].reaping :
         LET e == entry.execution
         IN  /\ executions' = [executions EXCEPT ![e] = ReapValues(@, FALSE)]
             /\ LeaseExpiryWritten(e)
             /\ AddFailure(e, "transient")
             /\ AppendAudit(e, "execution_lease_dead_lettered")
             /\ ReapedEntry(s, entry)
             /\ UNCHANGED <<step_executions, dispatchVars, tokens, retryClock,
                            queue>>
  BY DEF ReapDeadLetter
<1> DEFINE e == entry.execution
<1>2. e \in Executions
  BY DEF TypeInv, TypeOK, SchedulerTypeOK, SchedulerState, ReapEntry
<1>3. executions' \in [Executions -> Execution]
  BY <1>1, <1>2, ReapValuesType DEF TypeInv, TypeOK, DatabaseTypeOK
<1>4. /\ audit_events' \in [Executions -> AuditType]
      /\ failure_records' \in [Executions -> FailureKind]
  BY <1>1, <1>2, AppendAuditType, AddFailureType
  DEF AuditType, FailureKind, TypeInv, TypeOK
<1>5. DatabaseTypeOK'
  BY <1>1, <1>2, <1>3, <1>4, LeaseExpiryType
  DEF TypeInv, TypeOK, DatabaseTypeOK, retryClock, dispatchVars
<1> QED
  BY <1>1, <1>5, ReapedEntryType DEF SchedulerGoal, TypeInv, TypeOK

(* A step that changes no table changes no type of one.                    *)
LEMMA UnchangedTables ==
    ASSUME TypeInv, SchedulerTypeOK', UNCHANGED <<dbVars, queue>>
    PROVE  SchedulerGoal
BY DEF SchedulerGoal, TypeInv, TypeOK, dbVars, dispatchVars, leaseClock,
       retryClock, DatabaseTypeOK

(* A missed reap only expires the rest of the batch.                       *)
LEMMA ReapMissType ==
    ASSUME TypeInv, NEW s \in Schedulers, ReapMiss(s)
    PROVE  SchedulerGoal
<1>1. PICK entry \in scheduler[s].reaping :
         LET rest == {[x EXCEPT !.loaded = FALSE] :
                         x \in scheduler[s].reaping \ {entry}}
         IN  scheduler' = [scheduler EXCEPT
                 ![s].pc = After(rest, "reap", "retry_select"),
                 ![s].reaping = rest]
  BY DEF ReapMiss
<1> DEFINE rest == {[x EXCEPT !.loaded = FALSE] :
                       x \in scheduler[s].reaping \ {entry}}
<1>2. scheduler[s].reaping \in SUBSET ReapEntry
  BY DEF TypeInv, TypeOK, SchedulerTypeOK, SchedulerState
<1>3. \A x \in ReapEntry : [x EXCEPT !.loaded = FALSE] \in ReapEntry
  BY Zenon DEF ReapEntry
<1>4. rest \in SUBSET ReapEntry
  BY <1>2, <1>3
<1>5. After(rest, "reap", "retry_select") \in SchedulerPoints
  BY AfterType DEF SchedulerPoints
<1>6. scheduler' = [scheduler EXCEPT
                 ![s].pc = After(rest, "reap", "retry_select"),
                 ![s].reaping = rest]
  BY <1>1
<1> HIDE DEF rest
<1>7. SchedulerTypeOK'
  BY <1>4, <1>5, <1>6, Zenon
  DEF TypeInv, TypeOK, SchedulerTypeOK, SchedulerState
<1> QED
  BY <1>7, UnchangedTables DEF ReapMiss

(* An entry read again is well typed.                                      *)
LEMMA ReapReloadType ==
    ASSUME TypeInv, NEW s \in Schedulers, ReapReload(s)
    PROVE  SchedulerGoal
<1>1. PICK entry \in scheduler[s].reaping :
         LET fresh == Loaded(entry.execution)
             rest == (scheduler[s].reaping \ {entry})
                         \cup {x \in {fresh} : x.lease_token # 0}
         IN  scheduler' = [scheduler EXCEPT
                 ![s].pc = After(rest, "reap", "retry_select"),
                 ![s].reaping = rest]
  BY DEF ReapReload
<1> DEFINE fresh == Loaded(entry.execution)
           rest == (scheduler[s].reaping \ {entry})
                       \cup {x \in {fresh} : x.lease_token # 0}
<1>2. scheduler[s].reaping \in SUBSET ReapEntry
  BY DEF TypeInv, TypeOK, SchedulerTypeOK, SchedulerState
<1>3. entry.execution \in Executions
  BY <1>2 DEF ReapEntry
<1>4. fresh \in ReapEntry
  BY <1>3, LoadedType DEF TypeInv, TypeOK
<1>5. rest \in SUBSET ReapEntry
  BY <1>2, <1>4
<1>6. After(rest, "reap", "retry_select") \in SchedulerPoints
  BY AfterType DEF SchedulerPoints
<1>7. scheduler' = [scheduler EXCEPT
                 ![s].pc = After(rest, "reap", "retry_select"),
                 ![s].reaping = rest]
  BY <1>1
<1> HIDE DEF rest
<1>8. SchedulerTypeOK'
  BY <1>5, <1>6, <1>7, Zenon
  DEF TypeInv, TypeOK, SchedulerTypeOK, SchedulerState
<1> QED
  BY <1>8, UnchangedTables DEF ReapReload

(* The batch of due retries consists of executions.                        *)
LEMMA RetrySelectType ==
    ASSUME TypeInv, NEW s \in Schedulers, RetrySelect(s)
    PROVE  SchedulerGoal
<1> DEFINE due == {e \in retry_past : executions[e].status = "retry_scheduled"}
<1>1. PICK B \in Batches(due) :
         scheduler' = [scheduler EXCEPT
             ![s].pc = After(B, "retry", "publish_select"),
             ![s].retrying = B]
  BY DEF RetrySelect
<1>2. B \in SUBSET Executions
  BY BatchSubset DEF TypeInv, TypeOK, DatabaseTypeOK
<1>3. After(B, "retry", "publish_select") \in SchedulerPoints
  BY AfterType DEF SchedulerPoints
<1>4. SchedulerTypeOK'
  BY <1>1, <1>2, <1>3, Zenon DEF TypeInv, TypeOK, SchedulerTypeOK, SchedulerState
<1>5. retry_view' \in [Schedulers -> SUBSET Executions]
  BY DEF RetrySelect, TypeInv, TypeOK, DatabaseTypeOK
<1> QED
  BY <1>4, <1>5 DEF RetrySelect, SchedulerGoal, TypeInv, TypeOK,
                    DatabaseTypeOK, dispatchVars, leaseClock

(* A handled retry leaves a batch of executions.                           *)
LEMMA PreparedRetryType ==
    ASSUME TypeInv, NEW s \in Schedulers, NEW e, PreparedRetry(s, e)
    PROVE  SchedulerTypeOK'
<1> DEFINE rest == scheduler[s].retrying \ {e}
<1>1. rest \in SUBSET Executions
  BY DEF TypeInv, TypeOK, SchedulerTypeOK, SchedulerState
<1>2. After(rest, "retry", "publish_select") \in SchedulerPoints
  BY AfterType DEF SchedulerPoints
<1> HIDE DEF rest
<1> QED
  BY <1>1, <1>2, Zenon
  DEF PreparedRetry, rest, TypeInv, TypeOK, SchedulerTypeOK, SchedulerState

(* A requeued retry keeps the tables well typed.                           *)
LEMMA PrepareRetryType ==
    ASSUME TypeInv, NEW s \in Schedulers, PrepareRetry(s)
    PROVE  SchedulerGoal
<1>1. PICK e \in scheduler[s].retrying :
         /\ PreparedRetry(s, e)
         /\ executions' = [executions EXCEPT ![e].status = "queued",
                                             ![e].next_retry_at = FALSE]
         /\ NextRetryWritten(e)
         /\ AppendAudit(e, "execution_requeued")
         /\ AddDispatch(e)
         /\ UNCHANGED <<step_executions, failure_records, tokens, leaseClock,
                        queue>>
  BY DEF PrepareRetry
<1>2. e \in Executions
  BY DEF TypeInv, TypeOK, SchedulerTypeOK, SchedulerState
<1> DEFINE written == [executions[e] EXCEPT !.status = "queued",
                                            !.next_retry_at = FALSE]
<1>3. executions' \in [Executions -> Execution]
  <2>1. executions[e] \in Execution
    BY <1>2 DEF TypeInv, TypeOK, DatabaseTypeOK
  <2>2. written \in Execution
    BY <2>1, Zenon DEF Execution, ExecutionStatus
  <2>3. executions' = [executions EXCEPT ![e] = written]
    BY <1>1 DEF TypeInv, TypeOK, DatabaseTypeOK, Execution
  <2> QED
    BY <1>2, <2>2, <2>3 DEF TypeInv, TypeOK, DatabaseTypeOK
<1>4. audit_events' \in [Executions -> AuditType]
  BY <1>1, <1>2, AppendAuditType DEF AuditType, TypeInv, TypeOK
<1>5. DatabaseTypeOK'
  BY <1>1, <1>2, <1>3, <1>4, NextRetryType, AddDispatchType
  DEF TypeInv, TypeOK, DatabaseTypeOK, leaseClock
<1> QED
  BY <1>1, <1>5, PreparedRetryType DEF SchedulerGoal, TypeInv, TypeOK

(* The batch to publish consists of outbox rows.                           *)
LEMMA PublishSelectType ==
    ASSUME TypeInv, NEW s \in Schedulers, PublishSelect(s)
    PROVE  SchedulerGoal
<1>1. PICK B \in Batches(outbox) :
         scheduler' = [scheduler EXCEPT
             ![s].pc = After(B, "publish", "reap_select"),
             ![s].publishing = B]
  BY DEF PublishSelect
<1>2. B \in SUBSET OutboxRow
  BY BatchSubset DEF TypeInv, TypeOK, DatabaseTypeOK
<1>3. After(B, "publish", "reap_select") \in SchedulerPoints
  BY AfterType DEF SchedulerPoints
<1>4. SchedulerTypeOK'
  BY <1>1, <1>2, <1>3, Zenon DEF TypeInv, TypeOK, SchedulerTypeOK, SchedulerState
<1> QED
  BY <1>4, UnchangedTables DEF PublishSelect

(* The identifier of a record a scheduler publishes is an execution's.     *)
LEMMA PublishingType ==
    ASSUME TypeInv, NEW s \in Schedulers, NEW record \in scheduler[s].publishing
    PROVE  /\ record \in OutboxRow
           /\ record[1] \in Executions
           /\ scheduler[s].publishing \ {record} \in SUBSET OutboxRow
BY DEF TypeInv, TypeOK, SchedulerTypeOK, SchedulerState, OutboxRow

(* RPUSH keeps the queue a sequence of executions.                         *)
LEMMA EnqueueType ==
    ASSUME TypeInv, NEW e \in Executions, enqueue(e)
    PROVE  queue' \in Seq(Executions)
BY DEF TypeInv, TypeOK, enqueue

(* A push keeps the queue a sequence of executions.                        *)
LEMMA PublishType ==
    ASSUME TypeInv, NEW s \in Schedulers, Publish(s)
    PROVE  SchedulerGoal
<1>1. PICK record \in scheduler[s].publishing :
         /\ enqueue(record[1])
         /\ scheduler' = [scheduler EXCEPT ![s].pc = "mark_published",
                                           ![s].publishing = @ \ {record},
                                           ![s].marking = {record}]
  BY DEF Publish
<1>2. {record} \in SUBSET OutboxRow
  BY PublishingType
<1> DEFINE new == [scheduler[s] EXCEPT
                      !.pc = "mark_published",
                      !.publishing = scheduler[s].publishing \ {record},
                      !.marking = {record}]
<1>3. SchedulerTypeOK'
  <2>1. new \in SchedulerState
    BY <1>2, PublishingType, Zenon
    DEF TypeInv, TypeOK, SchedulerTypeOK, SchedulerState, SchedulerPoints
  <2>2. scheduler' = [scheduler EXCEPT ![s] = new]
    BY <1>1 DEF TypeInv, TypeOK, SchedulerTypeOK, SchedulerState
  <2> QED
    BY <2>1, <2>2 DEF TypeInv, TypeOK, SchedulerTypeOK
<1> QED
  BY <1>1, <1>3, PublishingType, EnqueueType
  DEF Publish, SchedulerGoal, TypeInv, TypeOK, dbVars, dispatchVars,
      leaseClock, retryClock, DatabaseTypeOK

(* A push that raises does too, whether or not it was applied.             *)
LEMMA PublishFailsType ==
    ASSUME TypeInv, NEW s \in Schedulers, PublishFails(s)
    PROVE  SchedulerGoal
<1>1. PICK record \in scheduler[s].publishing :
         LET rest == scheduler[s].publishing \ {record}
         IN  /\ UNCHANGED queue \/ enqueue(record[1])
             /\ scheduler' = [scheduler EXCEPT
                   ![s].pc = After(rest, "publish", "reap_select"),
                   ![s].publishing = rest]
  BY DEF PublishFails
<1> DEFINE rest == scheduler[s].publishing \ {record}
<1>2. rest \in SUBSET OutboxRow /\ record[1] \in Executions
  BY PublishingType
<1>3. After(rest, "publish", "reap_select") \in SchedulerPoints
  BY AfterType DEF SchedulerPoints
<1>4. scheduler' = [scheduler EXCEPT
                   ![s].pc = After(rest, "publish", "reap_select"),
                   ![s].publishing = rest]
  BY <1>1
<1>5. queue' \in Seq(Executions)
  BY <1>1, <1>2, EnqueueType DEF TypeInv, TypeOK
<1> HIDE DEF rest
<1>6. SchedulerTypeOK'
  BY <1>2, <1>3, <1>4, Zenon DEF TypeInv, TypeOK, SchedulerTypeOK, SchedulerState
<1> QED
  BY <1>5, <1>6 DEF PublishFails, SchedulerGoal, TypeInv, TypeOK, dbVars,
                    dispatchVars, leaseClock, retryClock, DatabaseTypeOK

(* Marking takes a row out of the outbox.                                  *)
LEMMA MarkPublishedType ==
    ASSUME TypeInv, NEW s \in Schedulers, MarkPublished(s)
    PROVE  SchedulerGoal
<1>1. After(scheduler[s].publishing, "publish", "reap_select") \in SchedulerPoints
  BY AfterType DEF SchedulerPoints
<1>2. SchedulerTypeOK'
  BY <1>1, Zenon
  DEF MarkPublished, TypeInv, TypeOK, SchedulerTypeOK, SchedulerState
<1>3. outbox' \in SUBSET OutboxRow
  BY DEF MarkPublished, TypeInv, TypeOK, DatabaseTypeOK
<1> QED
  BY <1>2, <1>3 DEF MarkPublished, SchedulerGoal, TypeInv, TypeOK,
                    DatabaseTypeOK, leaseClock, retryClock

(* A worker that does not move keeps the worker invariant.                 *)
LEMMA WorkerStays ==
    ASSUME WorkerInv, UNCHANGED worker
    PROVE  WorkerInv'
BY DEF WorkerInv, WorkerTypeOK, HasExecution, IndexInside

(* Every step of a scheduler keeps the types.                              *)
LEMMA SchedulerRunsType ==
    ASSUME TypeInv, NEW s \in Schedulers, SchedulerRuns(s)
    PROVE  TypeInv'
<1>1. SchedulerGoal
  <2>1. CASE PrepareRetryMiss(s)
    BY <2>1, PreparedRetryType, UnchangedTables DEF PrepareRetryMiss
  <2> QED
    BY <2>1, ReapSelectType, ReapRequeueType, ReapDeadLetterType, ReapMissType,
       ReapReloadType, RetrySelectType, PrepareRetryType, PublishSelectType,
       PublishType, MarkPublishedType
    DEF SchedulerRuns, SchedulerStep
<1>2. WorkerInv'
  BY WorkerStays DEF SchedulerRuns, TypeInv
<1> QED
  BY <1>1, <1>2 DEF SchedulerRuns, SchedulerGoal, TypeInv, TypeOK, WorkerInv,
                    ApiTypeOK, budget

-----------------------------------------------------------------------------
(* The API, the clock and the faults keep the types.                       *)

(* Only the tables change, and they keep their types.                      *)
LEMMA OnlyTables ==
    ASSUME TypeInv, DatabaseTypeOK', UNCHANGED <<queue, worker, scheduler, budget>>,
           ApiTypeOK'
    PROVE  TypeInv'
BY WorkerStays DEF TypeInv, TypeOK, WorkerInv, SchedulerTypeOK, budget

(* A new execution is a row of the table's type.                           *)
LEMMA RequestType ==
    ASSUME TypeInv, NEW e \in Executions, ExecutionRequested(e)
    PROVE  TypeInv'
<1>1. executions[e] \in Execution
  BY DEF TypeInv, TypeOK, DatabaseTypeOK
<1>2. [executions[e] EXCEPT !.status = "queued"] \in Execution
  BY <1>1, Zenon DEF Execution, ExecutionStatus
<1>3. executions' = [executions EXCEPT ![e] = [executions[e] EXCEPT !.status = "queued"]]
  BY DEF ExecutionRequested, RequestExecution, TypeInv, TypeOK, DatabaseTypeOK,
         Execution
<1>4. executions' \in [Executions -> Execution]
  BY <1>2, <1>3 DEF TypeInv, TypeOK, DatabaseTypeOK
<1>5. audit_events' \in [Executions -> AuditType]
  BY AppendAuditType
  DEF ExecutionRequested, RequestExecution, AuditType, TypeInv, TypeOK
<1>6. DatabaseTypeOK'
  BY <1>4, <1>5, AddDispatchType
  DEF ExecutionRequested, RequestExecution, TypeInv, TypeOK, DatabaseTypeOK,
      leaseClock, retryClock
<1> QED
  BY <1>6, OnlyTables DEF ExecutionRequested, RequestExecution, TypeInv, TypeOK,
                          ApiTypeOK

(* What an operator's request has read has the types of the columns.       *)
LEMMA ReadType ==
    ASSUME TypeInv, NEW o \in Operators, NEW e \in Executions,
           OperatorReads(o, e)
    PROVE  TypeInv'
<1>1. PICK call \in {"retry", "cancel"} : \E allowed : CallRead(o, e, call, allowed)
  BY DEF OperatorReads, RetryRead, CancelRead
<1> DEFINE new == [call |-> call, execution |-> {e},
                   row |-> LoadRow(executions[e])]
<1>2. request' = [request EXCEPT ![o] = new] /\ UNCHANGED dbVars
  BY <1>1 DEF CallRead
<1>3. executions[e] \in Execution
  BY DEF TypeInv, TypeOK, DatabaseTypeOK
<1>4. LoadRow(executions[e]) \in LoadedRow
  BY <1>3, Zenon DEF LoadRow, LoadedRow, Execution
<1>5. {e} \in SUBSET Executions /\ call \in {"none", "retry", "cancel"}
  OBVIOUS
<1>6. new \in Requests
  BY <1>4, <1>5, Zenon DEF Requests
<1>7. ApiTypeOK'
  BY <1>2, <1>6 DEF TypeInv, TypeOK, ApiTypeOK
<1>8. DatabaseTypeOK'
  BY <1>2 DEF dbVars, dispatchVars, leaseClock, retryClock, TypeInv, TypeOK,
              DatabaseTypeOK
<1>9. faults' \in 0 .. MaxFaults /\ calls' \in 0 .. MaxCalls
  BY MaxCallsAssumption DEF OperatorReads, TypeInv, TypeOK
<1>10. WorkerInv'
  BY WorkerStays DEF OperatorReads, TypeInv
<1> QED
  BY <1>7, <1>8, <1>9, <1>10
  DEF OperatorReads, TypeInv, TypeOK, WorkerInv, SchedulerTypeOK

(* The columns the two calls write.                                        *)
LEMMA CallValuesType ==
    ASSUME NEW row \in Execution, NEW loaded \in LoadedRow
    PROVE  /\ RetryValues(row, loaded) \in Execution
           /\ CancelValues(row, loaded) \in Execution
<1>1. /\ Assign(row.attempt_count, loaded.attempt_count, 0) \in Nat
      /\ Assign(row.last_error_code, loaded.last_error_code, "none") \in ErrorCode
  BY DEF Assign, Execution, ErrorCode
<1>2. /\ Assign(row.finished_at, loaded.finished_at, FALSE) \in BOOLEAN
      /\ Assign(row.next_retry_at, loaded.next_retry_at, FALSE) \in BOOLEAN
  BY Zenon DEF Assign, Execution
<1>3. RetryValues(row, loaded) \in Execution
  BY <1>1, <1>2, Zenon DEF RetryValues, Execution, ExecutionStatus
<1>4. CancelValues(row, loaded) \in Execution
  BY <1>2, Zenon DEF CancelValues, Execution, ExecutionStatus
<1> QED
  BY <1>3, <1>4

(* What it commits does too.                                               *)
LEMMA CommitType ==
    ASSUME TypeInv, NEW o \in Operators, OperatorCommits(o)
    PROVE  TypeInv'
<1>1. request[o] \in Requests
  BY DEF TypeInv, TypeOK, ApiTypeOK
<1>2. /\ request[o].row \in LoadedRow
      /\ request[o].execution \in SUBSET Executions
  BY <1>1 DEF Requests
<1>3. NoRequest \in Requests
  <2>1. 0 \in Nat
    OBVIOUS
  <2> QED
    BY <2>1, Zenon DEF NoRequest, Requests, LoadRow, LoadedRow, NewExecution,
                       ErrorCode
<1>4. ASSUME request' = [request EXCEPT ![o] = NoRequest]
      PROVE  ApiTypeOK'
  BY <1>3, <1>4 DEF TypeInv, TypeOK, ApiTypeOK
<1>5. ASSUME NEW e \in Executions, NextRetryCleared(e, request[o].row)
      PROVE  /\ retry_past' \in SUBSET Executions
             /\ retry_view' \in [Schedulers -> SUBSET Executions]
  BY <1>5, NextRetryType
  DEF NextRetryCleared, retryClock, TypeInv, TypeOK, DatabaseTypeOK
<1>6. CASE RetryCommit(o)
  <2>1. PICK e \in request[o].execution :
           /\ executions' = [executions EXCEPT
                 ![e] = RetryValues(@, request[o].row)]
           /\ NextRetryCleared(e, request[o].row)
           /\ AddDispatch(e)
           /\ AppendAudit(e, "execution_manual_retry_requested")
           /\ request' = [request EXCEPT ![o] = NoRequest]
           /\ UNCHANGED <<step_executions, failure_records, tokens, leaseClock>>
    BY <1>6 DEF RetryCommit
  <2>2. e \in Executions
    BY <1>2
  <2>3. executions' \in [Executions -> Execution]
    BY <1>2, <2>1, <2>2, CallValuesType DEF TypeInv, TypeOK, DatabaseTypeOK
  <2>4. audit_events' \in [Executions -> AuditType]
    BY <2>1, <2>2, AppendAuditType DEF AuditType, TypeInv, TypeOK
  <2>5. DatabaseTypeOK'
    BY <1>5, <2>1, <2>2, <2>3, <2>4, AddDispatchType
    DEF TypeInv, TypeOK, DatabaseTypeOK, leaseClock
  <2> QED
    BY <1>4, <2>1, <2>5, OnlyTables DEF OperatorCommits
<1>7. CASE CancelCommit(o)
  <2>1. PICK e \in request[o].execution :
           /\ executions' = [executions EXCEPT
                 ![e] = CancelValues(@, request[o].row)]
           /\ NextRetryCleared(e, request[o].row)
           /\ AppendAudit(e, "execution_cancelled")
           /\ request' = [request EXCEPT ![o] = NoRequest]
           /\ UNCHANGED <<step_executions, failure_records, dispatchVars,
                          tokens, leaseClock>>
    BY <1>7 DEF CancelCommit
  <2>2. e \in Executions
    BY <1>2
  <2>3. executions' \in [Executions -> Execution]
    BY <1>2, <2>1, <2>2, CallValuesType DEF TypeInv, TypeOK, DatabaseTypeOK
  <2>4. audit_events' \in [Executions -> AuditType]
    BY <2>1, <2>2, AppendAuditType DEF AuditType, TypeInv, TypeOK
  <2>5. DatabaseTypeOK'
    BY <1>5, <2>1, <2>2, <2>3, <2>4
    DEF TypeInv, TypeOK, DatabaseTypeOK, leaseClock, dispatchVars
  <2> QED
    BY <1>4, <2>1, <2>5, OnlyTables DEF OperatorCommits
<1> QED
  BY <1>6, <1>7 DEF OperatorCommits, Commit

(* The clock passes expiries and due times of executions.                  *)
LEMMA TimeType ==
    ASSUME TypeInv, NEW e \in Executions, LeaseExpires(e) \/ RetryBecomesDue(e)
    PROVE  TypeInv'
<1>1. CASE LeaseExpires(e)
  <2>1. DatabaseTypeOK'
    BY <1>1 DEF LeaseExpires, TypeInv, TypeOK, DatabaseTypeOK, dispatchVars,
                retryClock
  <2> QED
    BY <1>1, <2>1, OnlyTables DEF LeaseExpires, TypeInv, TypeOK, ApiTypeOK
<1>2. CASE RetryBecomesDue(e)
  <2>1. DatabaseTypeOK'
    BY <1>2 DEF RetryBecomesDue, TypeInv, TypeOK, DatabaseTypeOK, dispatchVars,
                leaseClock
  <2> QED
    BY <1>2, <2>1, OnlyTables DEF RetryBecomesDue, TypeInv, TypeOK, ApiTypeOK
<1> QED
  BY <1>1, <1>2

(* Crashes and Redis errors stay within their bound and lose locals only.  *)
LEMMA FaultType ==
    ASSUME TypeInv,
           \/ \E w \in Workers : WorkerFault(w)
           \/ \E s \in Schedulers : SchedulerFault(s)
    PROVE  TypeInv'
<1>1. ASSUME Fault PROVE faults' \in 0 .. MaxFaults /\ calls' \in 0 .. MaxCalls
  BY <1>1, FaultsAssumption DEF Fault, TypeInv, TypeOK
<1>2. ASSUME NEW w \in Workers, WorkerFault(w) PROVE TypeInv'
  <2>1. WorkerInv'
    BY <1>2, GoesIdle DEF WorkerFault, WorkerCrash, TypeInv
  <2>2. DatabaseTypeOK' /\ queue' \in Seq(Executions)
    BY <1>2 DEF WorkerFault, WorkerCrash, dbVars, dispatchVars, leaseClock,
                retryClock, TypeInv, TypeOK, DatabaseTypeOK
  <2> QED
    BY <1>1, <1>2, <2>1, <2>2
    DEF WorkerFault, Fault, TypeInv, TypeOK, WorkerInv, SchedulerTypeOK, ApiTypeOK
<1>3. ASSUME NEW s \in Schedulers, SchedulerFault(s) PROVE TypeInv'
  <2>1. WorkerInv'
    BY <1>3, WorkerStays DEF SchedulerFault, TypeInv
  <2>2. CycleStart \in SchedulerState
    BY Zenon DEF SchedulerState, CycleStart, SchedulerPoints
  <2>3. ASSUME SchedulerCrash(s) PROVE SchedulerGoal
    BY <2>2, <2>3, UnchangedTables
    DEF SchedulerCrash, TypeInv, TypeOK, SchedulerTypeOK
  <2>4. SchedulerGoal
    BY <1>3, <2>3, PublishFailsType DEF SchedulerFault
  <2> QED
    BY <1>1, <1>3, <2>1, <2>4
    DEF SchedulerFault, Fault, SchedulerGoal, TypeInv, TypeOK, WorkerInv, ApiTypeOK
<1> QED
  BY <1>2, <1>3

(* TypeInv is inductive.                                                   *)
LEMMA NextTypeInv == TypeInv /\ [Next]_vars => TypeInv'
<1> SUFFICES ASSUME TypeInv, [Next]_vars PROVE TypeInv'
  OBVIOUS
<1>1. CASE Next
  BY <1>1, WorkerRunsType, SchedulerRunsType, RequestType, ReadType, CommitType,
     TimeType, FaultType
  DEF Next
<1>2. CASE UNCHANGED vars
  <2>1. WorkerInv'
    BY <1>2, WorkerStays DEF vars, TypeInv
  <2> QED
    BY <1>2, <2>1
    DEF vars, dbVars, dispatchVars, leaseClock, retryClock, budget, TypeInv,
        TypeOK, DatabaseTypeOK, WorkerInv, SchedulerTypeOK, ApiTypeOK
<1> QED
  BY <1>1, <1>2

(* Every column, local variable and queue entry keeps its type, whatever   *)
(* the processes of the platform interleave.                               *)
THEOREM TypeCorrect == Spec => []TypeOK
<1>1. Spec => []TypeInv
  BY InitTypeInv, NextTypeInv, PTL DEF Spec
<1>2. TypeInv => TypeOK
  BY DEF TypeInv
<1> QED
  BY <1>1, <1>2, PTL
=============================================================================
