-------------------------------- MODULE Api ---------------------------------
(***************************************************************************)
(* The requests of app/api that write executions: request_execution of     *)
(* app/services/execution_requests.py (the path that inserts a row), and   *)
(* the manual retry and the cancellation of app/api/routes/executions.py.  *)
(*                                                                         *)
(* The last two read the row, test its status in Python, and then write    *)
(* by primary key whatever the row holds by then: a read and a commit.     *)
(***************************************************************************)
EXTENDS Database

CONSTANTS
    Operators,     \* requests an operator may have in flight
    OperatorCalls  \* the calls they may be: a subset of {"retry", "cancel"}

ASSUME CallsAssumption == OperatorCalls \subseteq {"retry", "cancel"}

VARIABLE request   \* the request each operator has in flight, or none

(* The columns of the loaded row that a call assigns to.                   *)
LoadedRow == [attempt_count: Nat, finished_at: BOOLEAN,
              next_retry_at: BOOLEAN, last_error_code: ErrorCode]

LoadRow(row) == [attempt_count |-> row.attempt_count,
                 finished_at |-> row.finished_at,
                 next_retry_at |-> row.next_retry_at,
                 last_error_code |-> row.last_error_code]

(* The execution of a request is a set of one, or none.                    *)
Requests == [call: {"none", "retry", "cancel"}, execution: SUBSET Executions,
             row: LoadedRow]

NoRequest == [call |-> "none", execution |-> {},
              row |-> LoadRow(NewExecution)]

ApiTypeOK == request \in [Operators -> Requests]

ApiInit == request = [o \in Operators |-> NoRequest]

-----------------------------------------------------------------------------
(* A request with a fresh idempotency key: row, outbox row and audit event *)
(* in one transaction.                                                     *)
RequestExecution(e) ==
    /\ executions[e].status = "absent"
    /\ executions' = [executions EXCEPT ![e].status = "queued"]
    /\ AddDispatch(e)
    /\ AppendAudit(e, "execution_requested")
    /\ UNCHANGED <<step_executions, failure_records, tokens, leaseClock,
                   retryClock, request>>

(* _get_execution and the status test in front of a call.                  *)
CallRead(o, e, call, allowed) ==
    /\ call \in OperatorCalls
    /\ request[o] = NoRequest
    /\ executions[e].status \in allowed
    /\ request' = [request EXCEPT
          ![o] = [call |-> call, execution |-> {e},
                  row |-> LoadRow(executions[e])]]
    /\ UNCHANGED dbVars

RetryRead(o, e) == CallRead(o, e, "retry", {"dead_letter"})

CancelRead(o, e) == CallRead(o, e, "cancel", {"queued", "retry_scheduled"})

(* next_retry_at = None, written when the session had loaded a value.      *)
NextRetryCleared(e, loaded) ==
    IF loaded.next_retry_at THEN NextRetryWritten(e) ELSE UNCHANGED retryClock

(* Mutant: finished_at is left as it is.                                   *)
RetryValuesFinished(row, loaded) ==
    [row EXCEPT !.status = "queued",
                !.attempt_count = Assign(@, loaded.attempt_count, 0),
                !.next_retry_at = Assign(@, loaded.next_retry_at, FALSE),
                !.last_error_code = Assign(@, loaded.last_error_code, "none")]

RetryValues(row, loaded) ==
    [row EXCEPT !.status = "queued",
                !.attempt_count = Assign(@, loaded.attempt_count, 0),
                !.finished_at = Assign(@, loaded.finished_at, FALSE),
                !.next_retry_at = Assign(@, loaded.next_retry_at, FALSE),
                !.last_error_code = Assign(@, loaded.last_error_code, "none")]

CancelValues(row, loaded) ==
    [row EXCEPT !.status = "cancelled", !.finished_at = TRUE,
                !.next_retry_at = Assign(@, loaded.next_retry_at, FALSE)]

(* The commit of retry_dead_letter_execution.                              *)
RetryCommit(o) ==
    \E e \in request[o].execution :
        /\ request[o].call = "retry"
        /\ executions' = [executions EXCEPT
              ![e] = RetryValues(@, request[o].row)]
        /\ NextRetryCleared(e, request[o].row)
        /\ AddDispatch(e)
        /\ AppendAudit(e, "execution_manual_retry_requested")
        /\ request' = [request EXCEPT ![o] = NoRequest]
        /\ UNCHANGED <<step_executions, failure_records, tokens, leaseClock>>

(* The commit of cancel_execution.                                         *)
CancelCommit(o) ==
    \E e \in request[o].execution :
        /\ request[o].call = "cancel"
        /\ executions' = [executions EXCEPT
              ![e] = CancelValues(@, request[o].row)]
        /\ NextRetryCleared(e, request[o].row)
        /\ AppendAudit(e, "execution_cancelled")
        /\ request' = [request EXCEPT ![o] = NoRequest]
        /\ UNCHANGED <<step_executions, failure_records, dispatchVars, tokens,
                       leaseClock>>

Commit(o) == RetryCommit(o) \/ CancelCommit(o)
=============================================================================
