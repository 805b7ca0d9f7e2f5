------------------------------ MODULE Database ------------------------------
(***************************************************************************)
(* The tables of app/domain/models.py that the worker, the scheduler and   *)
(* the API share, and the two things every writer of them does: queue a    *)
(* dispatch intent, and write a timestamp that somebody compares with its  *)
(* reading of the clock.                                                   *)
(*                                                                         *)
(* One action of the project is one database statement or transaction:     *)
(* PostgreSQL runs at READ COMMITTED, an UPDATE holds its row until the    *)
(* commit, and every transaction of the code writes the row of a single    *)
(* execution.  A SELECT whose result is used by a later transaction is an  *)
(* action of its own.                                                      *)
(*                                                                         *)
(* Data that no decision reads is left out: names, payload contents,       *)
(* messages, started_at, and the attempt counters of step and outbox rows. *)
(* lease_owner, heartbeat_at and lease_expires_at are written and cleared  *)
(* together with lease_token, so lease_token stands for the four of them.  *)
(***************************************************************************)
EXTENDS Naturals, Sequences, FiniteSets

CONSTANTS
    Executions,   \* the executions that may be requested
    Schedulers,   \* the scheduler processes
    NumSteps,     \* len(workflow.steps)
    MaxAttempts   \* workflow.max_attempts

(* WorkflowCreate accepts at least one step and at least one attempt.      *)
ASSUME StepsAssumption == NumSteps \in Nat \ {0}
ASSUME AttemptsAssumption == MaxAttempts \in Nat \ {0}

VARIABLES
    executions,       \* table executions
    step_executions,  \* table step_executions: the status of every step row
    failure_records,  \* kind of the newest failure record of an execution
    audit_events,     \* type of the newest audit event of an execution
    outbox,           \* the unpublished rows of dispatch_outbox
    dispatches,       \* how many outbox rows an execution has been given
    tokens,           \* how many lease tokens have been drawn for it
    lease_past,       \* executions with lease_expires_at <= the current time
    lease_view,       \* ... with lease_expires_at <= the now a scheduler took
    retry_past,       \* executions with next_retry_at <= the current time
    retry_view        \* ... with next_retry_at <= the now a scheduler took

leaseClock == <<lease_past, lease_view>>
retryClock == <<retry_past, retry_view>>
dispatchVars == <<outbox, dispatches>>
dbVars == <<executions, step_executions, failure_records, audit_events,
            dispatchVars, tokens, leaseClock, retryClock>>

StepIndex == 0 .. (NumSteps - 1)

(* "absent" is an execution whose row has not been inserted.               *)
ExecutionStatus == {"absent", "queued", "running", "retry_scheduled",
                    "succeeded", "dead_letter", "cancelled"}
Terminal == {"succeeded", "dead_letter", "cancelled"}

(* "absent" is a step without a row; the code never stores "pending".      *)
StepStatus == {"absent", "running", "succeeded", "failed"}

FailureKind == {"none", "transient", "permanent"}

ErrorCode == {"none", "invalid_definition", "step_failed",
              "unexpected_step_failure", "worker_lease_expired"}

AuditType == {"none", "execution_requested", "step_succeeded",
              "execution_succeeded", "execution_retry_scheduled",
              "execution_dead_lettered", "execution_lease_requeued",
              "execution_lease_dead_lettered", "execution_requeued",
              "execution_manual_retry_requested", "execution_cancelled"}

(* lease_token 0 is NULL; the nullable timestamps are "is set"; the output *)
(* payload is the set of steps whose output has been merged into it.       *)
Execution == [status: ExecutionStatus, attempt_count: Nat,
              current_step: 0 .. NumSteps, output_payload: SUBSET StepIndex,
              lease_token: Nat, next_retry_at: BOOLEAN, finished_at: BOOLEAN,
              last_error_code: ErrorCode]

NewExecution == [status |-> "absent", attempt_count |-> 0,
                 current_step |-> 0, output_payload |-> {}, lease_token |-> 0,
                 next_retry_at |-> FALSE, finished_at |-> FALSE,
                 last_error_code |-> "none"]

NewSteps == [i \in StepIndex |-> "absent"]

(* An outbox row is named by its execution and its number.                 *)
OutboxRow == Executions \X (Nat \ {0})

DatabaseTypeOK ==
    /\ executions \in [Executions -> Execution]
    /\ step_executions \in [Executions -> [StepIndex -> StepStatus]]
    /\ failure_records \in [Executions -> FailureKind]
    /\ audit_events \in [Executions -> AuditType]
    /\ outbox \in SUBSET OutboxRow
    /\ dispatches \in [Executions -> Nat]
    /\ tokens \in [Executions -> Nat]
    /\ lease_past \in SUBSET Executions
    /\ lease_view \in [Schedulers -> SUBSET Executions]
    /\ retry_past \in SUBSET Executions
    /\ retry_view \in [Schedulers -> SUBSET Executions]

DatabaseInit ==
    /\ executions = [e \in Executions |-> NewExecution]
    /\ step_executions = [e \in Executions |-> NewSteps]
    /\ failure_records = [e \in Executions |-> "none"]
    /\ audit_events = [e \in Executions |-> "none"]
    /\ outbox = {}
    /\ dispatches = [e \in Executions |-> 0]
    /\ tokens = [e \in Executions |-> 0]
    /\ lease_past = {}
    /\ lease_view = [s \in Schedulers |-> {}]
    /\ retry_past = {}
    /\ retry_view = [s \in Schedulers |-> {}]

-----------------------------------------------------------------------------
(* The ORM writes a column at flush only when the assigned value differs   *)
(* from the one the session loaded; otherwise the stored value stays,      *)
(* whatever another transaction has made of it since.                      *)
Assign(stored, loaded, new) == IF loaded = new THEN stored ELSE new

(* Mutant: an execution has one outbox row, which is used again.           *)
AddDispatchReused(e) ==
    /\ dispatches' = [dispatches EXCEPT ![e] = @ + 1]
    /\ outbox' = outbox \cup {<<e, 1>>}

(* session.add(DispatchOutbox(execution_id=e)), in the caller's transaction.*)
AddDispatch(e) ==
    /\ dispatches' = [dispatches EXCEPT ![e] = @ + 1]
    /\ outbox' = outbox \cup {<<e, dispatches[e] + 1>>}

(* append_audit_event(event_type=type), in the caller's transaction.       *)
AppendAudit(e, type) == audit_events' = [audit_events EXCEPT ![e] = type]

(* session.add(FailureRecord(kind=kind)), in the caller's transaction.     *)
AddFailure(e, kind) == failure_records' = [failure_records EXCEPT ![e] = kind]

(* lease_expires_at gets a new value or NULL: it is then later than every  *)
(* reading of the clock taken so far, or compares with none.               *)
LeaseExpiryWritten(e) ==
    /\ lease_past' = lease_past \ {e}
    /\ lease_view' = [s \in Schedulers |-> lease_view[s] \ {e}]

(* next_retry_at gets a new value or NULL.                                 *)
NextRetryWritten(e) ==
    /\ retry_past' = retry_past \ {e}
    /\ retry_view' = [s \in Schedulers |-> retry_view[s] \ {e}]
=============================================================================
