------------------------------- MODULE Worker -------------------------------
(***************************************************************************)
(* app/worker.py and app/services/executions.py: a worker pops an          *)
(* execution identifier, claims the execution, and runs its steps, each    *)
(* database transaction being one action.                                  *)
(*                                                                         *)
(* The lease is checked by _renew_lease, a transaction of its own; the     *)
(* transaction that follows it writes the rows by primary key and checks   *)
(* nothing.  CommitPoints are the program points between the two.          *)
(***************************************************************************)
EXTENDS Database, RedisQueue

CONSTANTS
    Workers,       \* the worker processes
    InvalidSteps,  \* the <<execution, index>> whose persisted definition
                   \* fails the isinstance checks
    NoExecution    \* the execution of an idle worker

ASSUME NoExecutionAssumption == NoExecution \notin Executions

VARIABLE worker    \* the local state of every worker

(* What the runner may do with a step: return, raise a transient or a      *)
(* permanent StepFailure, or raise any other exception.                    *)
RunnerOutcomes == {"succeeded", "transient", "permanent", "unexpected"}
Outcomes == RunnerOutcomes \cup {"none", "invalid"}

CommitPoints == {"begin_step", "commit_step", "commit_failure",
                 "commit_success"}
RenewPoints == {"renew_before", "renew_after", "renew_final"}
WorkerPoints == {"idle", "claim", "load", "run"}
                    \cup RenewPoints \cup CommitPoints

(* The attempt_count, last_error_code and step_rows a worker works with    *)
(* are those of its session: loaded once, never refreshed by a commit.     *)
WorkerState == [pc: WorkerPoints, execution: Executions \cup {NoExecution},
                lease_token: Nat, index: 0 .. NumSteps, attempt_count: Nat,
                last_error_code: ErrorCode,
                accumulated_output: SUBSET StepIndex,
                step_rows: [StepIndex -> StepStatus], outcome: Outcomes]

Idle == [pc |-> "idle", execution |-> NoExecution, lease_token |-> 0,
         index |-> 0, attempt_count |-> 0, last_error_code |-> "none",
         accumulated_output |-> {}, step_rows |-> NewSteps,
         outcome |-> "none"]

WorkerTypeOK == worker \in [Workers -> WorkerState]

WorkerInit == worker = [w \in Workers |-> Idle]

(* The row worker w has claimed, as the table holds it now.                *)
RowOf(w) == executions[worker[w].execution]

(* Mutant: the kind of a failure is recorded in place of its code.         *)
ErrorCodeOfKind(outcome) == outcome

ErrorCodeOf(outcome) ==
    CASE outcome = "invalid"    -> "invalid_definition"
      [] outcome = "unexpected" -> "unexpected_step_failure"
      [] OTHER                  -> "step_failed"

TransientOutcome(outcome) == outcome \in {"transient", "unexpected"}

-----------------------------------------------------------------------------
(* run() of app/worker.py: BLPOP; a new ExecutionService per delivery.     *)
Dequeue(w) ==
    /\ worker[w].pc = "idle"
    /\ \E e \in Executions :
          /\ dequeue(e)
          /\ worker' = [worker EXCEPT ![w].pc = "claim", ![w].execution = e]
    /\ UNCHANGED dbVars

ClaimWhere(e) == executions[e].status = "queued"

ClaimValues(row, token) ==
    [row EXCEPT !.status = "running", !.attempt_count = @ + 1,
                !.next_retry_at = FALSE, !.lease_token = token]

(* The conditional UPDATE of run() finds the execution queued.             *)
Claim(w) ==
    LET e == worker[w].execution
        token == tokens[e] + 1
    IN  /\ worker[w].pc = "claim"
        /\ ClaimWhere(e)
        /\ tokens' = [tokens EXCEPT ![e] = token]
        /\ executions' = [executions EXCEPT ![e] = ClaimValues(@, token)]
        /\ LeaseExpiryWritten(e)
        /\ NextRetryWritten(e)
        /\ worker' = [worker EXCEPT ![w].pc = "load", ![w].lease_token = token]
        /\ UNCHANGED <<step_executions, failure_records, audit_events,
                       dispatchVars, queue>>

(* It does not: a duplicate delivery, dropped.                             *)
ClaimMiss(w) ==
    /\ worker[w].pc = "claim"
    /\ ~ClaimWhere(worker[w].execution)
    /\ worker' = [worker EXCEPT ![w] = Idle]
    /\ UNCHANGED <<dbVars, queue>>

(* Where the loop over the steps goes when it is at step i.                *)
LoopPoint(i) == IF i < NumSteps THEN "renew_before" ELSE "renew_final"

(* _load, and the locals _run_steps takes from the loaded objects.  The    *)
(* queries of selectinload are part of the action: another claim between   *)
(* them draws a new token, and w misses the renewal that comes before any  *)
(* use of what it read.  A worker that has stalled past its lease may      *)
(* write between them without a claim; the rows of the steps that w then   *)
(* has decide no more than whether BeginStep inserts or updates one.       *)
Load(w) ==
    LET row == RowOf(w)
    IN  /\ worker[w].pc = "load"
        /\ worker' = [worker EXCEPT
              ![w].pc = LoopPoint(row.current_step),
              ![w].index = row.current_step,
              ![w].attempt_count = row.attempt_count,
              ![w].last_error_code = row.last_error_code,
              ![w].accumulated_output = row.output_payload,
              ![w].step_rows = step_executions[worker[w].execution]]
        /\ UNCHANGED <<dbVars, queue>>

-----------------------------------------------------------------------------
(* _renew_lease                                                            *)

(* Mutant: any running execution is taken for one's own.                   *)
RenewWhereStatusOnly(w) == RowOf(w).status = "running"

RenewWhere(w) ==
    /\ RowOf(w).status = "running"
    /\ RowOf(w).lease_token = worker[w].lease_token

(* The renewal matches one row, and w goes on to its next transaction.     *)
Renewed(w, from, to) ==
    /\ worker[w].pc = from
    /\ RenewWhere(w)
    /\ LeaseExpiryWritten(worker[w].execution)
    /\ worker' = [worker EXCEPT ![w].pc = to]
    /\ UNCHANGED <<executions, step_executions, failure_records, audit_events,
                   dispatchVars, tokens, retryClock, queue>>

(* Before a step that is well formed.                                      *)
RenewBefore(w) ==
    /\ <<worker[w].execution, worker[w].index>> \notin InvalidSteps
    /\ Renewed(w, "renew_before", "begin_step")

(* Before a step whose persisted definition is not.                        *)
RenewBeforeInvalid(w) ==
    /\ worker[w].pc = "renew_before"
    /\ RenewWhere(w)
    /\ <<worker[w].execution, worker[w].index>> \in InvalidSteps
    /\ LeaseExpiryWritten(worker[w].execution)
    /\ worker' = [worker EXCEPT ![w].pc = "commit_failure",
                                ![w].outcome = "invalid"]
    /\ UNCHANGED <<executions, step_executions, failure_records, audit_events,
                   dispatchVars, tokens, retryClock, queue>>

(* After the runner returned, or raised.                                   *)
RenewAfter(w) ==
    Renewed(w, "renew_after",
            IF worker[w].outcome = "succeeded" THEN "commit_step"
                                               ELSE "commit_failure")

(* After the last step.                                                    *)
RenewFinal(w) == Renewed(w, "renew_final", "commit_success")

(* No row matches: the worker gives the execution up and writes nothing.   *)
RenewMiss(w) ==
    /\ worker[w].pc \in RenewPoints
    /\ ~RenewWhere(w)
    /\ worker' = [worker EXCEPT ![w] = Idle]
    /\ UNCHANGED <<dbVars, queue>>

-----------------------------------------------------------------------------
(* The body of the loop in _run_steps                                      *)

(* The row of the step is inserted, or set to running again.               *)
BeginStep(w) ==
    LET e == worker[w].execution
        i == worker[w].index
        known == worker[w].step_rows[i]
    IN  /\ worker[w].pc = "begin_step"
        /\ known = "absent" => step_executions[e][i] = "absent"
        /\ step_executions' =
              [step_executions EXCEPT ![e][i] = Assign(@, known, "running")]
        /\ worker' = [worker EXCEPT ![w].pc = "run",
                                    ![w].step_rows[i] = "running"]
        /\ UNCHANGED <<executions, failure_records, audit_events, dispatchVars,
                       tokens, leaseClock, retryClock, queue>>

(* The insert breaks uq_step_execution_index: nothing catches the          *)
(* IntegrityError, and the worker process ends and is restarted.           *)
BeginStepConflict(w) ==
    LET i == worker[w].index
    IN  /\ worker[w].pc = "begin_step"
        /\ worker[w].step_rows[i] = "absent"
        /\ step_executions[worker[w].execution][i] # "absent"
        /\ worker' = [worker EXCEPT ![w] = Idle]
        /\ UNCHANGED <<dbVars, queue>>

(* self.runner.run(...), outside any transaction.                          *)
RunStep(w) ==
    /\ worker[w].pc = "run"
    /\ \E outcome \in RunnerOutcomes :
          worker' = [worker EXCEPT ![w].pc = "renew_after",
                                   ![w].outcome = outcome]
    /\ UNCHANGED <<dbVars, queue>>

(* The transaction after a successful step.                                *)
CommitStep(w) ==
    LET e == worker[w].execution
        i == worker[w].index
        merged == worker[w].accumulated_output \cup {i}
    IN  /\ worker[w].pc = "commit_step"
        /\ step_executions' = [step_executions EXCEPT ![e][i] = "succeeded"]
        /\ executions' = [executions EXCEPT
              ![e].current_step = i + 1,
              ![e].output_payload =
                  Assign(@, worker[w].accumulated_output, merged)]
        /\ AppendAudit(e, "step_succeeded")
        /\ worker' = [worker EXCEPT ![w].pc = LoopPoint(i + 1),
                                    ![w].index = i + 1,
                                    ![w].accumulated_output = merged,
                                    ![w].step_rows[i] = "succeeded",
                                    ![w].outcome = "none"]
        /\ UNCHANGED <<failure_records, dispatchVars, tokens, leaseClock,
                       retryClock, queue>>

(* The transaction after the loop.                                         *)
SuccessValues(row, loaded) ==
    [row EXCEPT !.status = "succeeded", !.finished_at = TRUE,
                !.lease_token = 0,
                !.last_error_code = Assign(@, loaded, "none")]

CommitSuccess(w) ==
    LET e == worker[w].execution
    IN  /\ worker[w].pc = "commit_success"
        /\ executions' = [executions EXCEPT
              ![e] = SuccessValues(@, worker[w].last_error_code)]
        /\ LeaseExpiryWritten(e)
        /\ AppendAudit(e, "execution_succeeded")
        /\ worker' = [worker EXCEPT ![w] = Idle]
        /\ UNCHANGED <<step_executions, failure_records, dispatchVars, tokens,
                       retryClock, queue>>

-----------------------------------------------------------------------------
(* _fail_execution, with the caller's changes to the step row              *)

(* execution.current_step already is the index of the failed step in the   *)
(* session, so that assignment writes nothing.                             *)
FailureValues(row, loaded, code) ==
    [row EXCEPT !.lease_token = 0,
                !.last_error_code = Assign(@, loaded, code)]

(* Mutant: the attempt to come is counted as used.                         *)
RetryableCountsNext(w) ==
    /\ TransientOutcome(worker[w].outcome)
    /\ worker[w].attempt_count + 1 < MaxAttempts

Retryable(w) ==
    /\ TransientOutcome(worker[w].outcome)
    /\ worker[w].attempt_count < MaxAttempts

FailedStep(w) ==
    step_executions' =
        IF worker[w].outcome = "invalid"
        THEN step_executions
        ELSE [step_executions EXCEPT
                 ![worker[w].execution][worker[w].index] = "failed"]

FailExecution(w) ==
    LET e == worker[w].execution
        outcome == worker[w].outcome
        failed == FailureValues(executions[e], worker[w].last_error_code,
                                ErrorCodeOf(outcome))
    IN  /\ worker[w].pc = "commit_failure"
        /\ FailedStep(w)
        /\ AddFailure(e, IF TransientOutcome(outcome) THEN "transient"
                                                      ELSE "permanent")
        /\ LeaseExpiryWritten(e)
        /\ \/ /\ Retryable(w)
              /\ executions' = [executions EXCEPT
                    ![e] = [failed EXCEPT !.status = "retry_scheduled",
                                          !.next_retry_at = TRUE]]
              /\ NextRetryWritten(e)
              /\ AppendAudit(e, "execution_retry_scheduled")
           \/ /\ ~Retryable(w)
              /\ executions' = [executions EXCEPT
                    ![e] = [failed EXCEPT !.status = "dead_letter",
                                          !.finished_at = TRUE]]
              /\ AppendAudit(e, "execution_dead_lettered")
              /\ UNCHANGED retryClock
        /\ worker' = [worker EXCEPT ![w] = Idle]
        /\ UNCHANGED <<dispatchVars, tokens, queue>>

-----------------------------------------------------------------------------
(* The transactions a worker makes after it has checked its lease.         *)
LeasedWrite(w) ==
    BeginStep(w) \/ CommitStep(w) \/ CommitSuccess(w) \/ FailExecution(w)

WorkerStep(w) ==
    \/ Dequeue(w)
    \/ Claim(w)
    \/ ClaimMiss(w)
    \/ Load(w)
    \/ RenewBefore(w)
    \/ RenewBeforeInvalid(w)
    \/ RenewAfter(w)
    \/ RenewFinal(w)
    \/ RenewMiss(w)
    \/ BeginStep(w)
    \/ BeginStepConflict(w)
    \/ RunStep(w)
    \/ CommitStep(w)
    \/ CommitSuccess(w)
    \/ FailExecution(w)

(* The process dies: its open transaction rolls back, its locals are gone, *)
(* and so is a message it has popped.                                      *)
WorkerCrash(w) ==
    /\ worker[w].pc # "idle"
    /\ worker' = [worker EXCEPT ![w] = Idle]
    /\ UNCHANGED <<dbVars, queue>>
=============================================================================
