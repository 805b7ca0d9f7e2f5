----------------------------- MODULE Scheduler ------------------------------
(***************************************************************************)
(* app/scheduler.py and the parts of app/services/scheduling.py that move  *)
(* executions: a cycle reaps expired leases, requeues due retries and      *)
(* publishes the outbox, in that order.  Each of the three reads a batch   *)
(* in one transaction and then handles it in one transaction per row, on   *)
(* what the batch said.                                                    *)
(*                                                                         *)
(* prepare_due_schedules, the other function of the cycle, touches no      *)
(* execution that exists; the ones it inserts are requested like any other *)
(* (RequestExecution of Api).                                              *)
(*                                                                         *)
(* The batches are ordered by timestamps the model does not keep, so the   *)
(* order in which a batch is handled is left open.                         *)
(***************************************************************************)
EXTENDS Database, RedisQueue

CONSTANT BatchSize  \* the limit of every batch query

ASSUME BatchAssumption == BatchSize \in Nat \ {0}

VARIABLE scheduler  \* the local state of every scheduler

SchedulerPoints == {"reap_select", "reap", "retry_select", "retry",
                    "publish_select", "publish", "mark_published"}

(* A reaped execution as the session holds it.  A rollback expires every   *)
(* object of the session: loaded is then FALSE, and the next access to the *)
(* object reads its row again.                                             *)
ReapEntry == [execution: Executions, lease_token: Nat, attempt_count: Nat,
              loaded: BOOLEAN]

(* marking holds the record whose published_at is about to be committed.   *)
SchedulerState == [pc: SchedulerPoints, reaping: SUBSET ReapEntry,
                   retrying: SUBSET Executions,
                   publishing: SUBSET OutboxRow,
                   marking: SUBSET OutboxRow]

CycleStart == [pc |-> "reap_select", reaping |-> {}, retrying |-> {},
               publishing |-> {}, marking |-> {}]

SchedulerTypeOK == scheduler \in [Schedulers -> SchedulerState]

SchedulerInit == scheduler = [s \in Schedulers |-> CycleStart]

(* The batches a query with LIMIT BatchSize may return of the rows S.      *)
Batches(S) ==
    {B \in SUBSET S :
        \/ B = S /\ Cardinality(B) <= BatchSize
        \/ Cardinality(B) = BatchSize}

(* The point after a batch, or still inside it.                            *)
After(rest, inside, next) == IF rest = {} THEN next ELSE inside

-----------------------------------------------------------------------------
(* reap_expired_executions                                                 *)

Loaded(e) == [execution |-> e, lease_token |-> executions[e].lease_token,
              attempt_count |-> executions[e].attempt_count, loaded |-> TRUE]

ReapSelect(s) ==
    LET expired == {e \in lease_past : /\ executions[e].status = "running"
                                       /\ executions[e].lease_token # 0}
    IN  /\ scheduler[s].pc = "reap_select"
        /\ lease_view' = [lease_view EXCEPT ![s] = lease_past]
        /\ \E B \in Batches(expired) :
              scheduler' = [scheduler EXCEPT
                  ![s].pc = After(B, "reap", "retry_select"),
                  ![s].reaping = {Loaded(e) : e \in B}]
        /\ UNCHANGED <<executions, step_executions, failure_records,
                       audit_events, dispatchVars, tokens, lease_past,
                       retryClock, queue>>

(* Mutant: the expiry is not compared again.                               *)
ReapWhereUnexpired(s, entry) ==
    /\ executions[entry.execution].status = "running"
    /\ executions[entry.execution].lease_token = entry.lease_token

(* Mutant: the expiry is compared the wrong way round.                     *)
ReapWhereFlipped(s, entry) ==
    /\ executions[entry.execution].status = "running"
    /\ executions[entry.execution].lease_token = entry.lease_token
    /\ entry.execution \notin lease_view[s]

ReapWhere(s, entry) ==
    /\ executions[entry.execution].status = "running"
    /\ executions[entry.execution].lease_token = entry.lease_token
    /\ entry.execution \in lease_view[s]

(* Mutant: one attempt too many.                                           *)
ReapRetryableOneMore(entry) == entry.attempt_count <= MaxAttempts

ReapRetryable(entry) == entry.attempt_count < MaxAttempts

ReapValues(row, retryable) ==
    [row EXCEPT !.status = IF retryable THEN "queued" ELSE "dead_letter",
                !.lease_token = 0, !.finished_at = ~retryable,
                !.last_error_code = "worker_lease_expired"]

(* s is done with the entry.                                               *)
ReapedEntry(s, entry) ==
    LET rest == scheduler[s].reaping \ {entry}
    IN  scheduler' = [scheduler EXCEPT
            ![s].pc = After(rest, "reap", "retry_select"),
            ![s].reaping = rest]

(* The conditional UPDATE matches, and attempts remain.                    *)
ReapRequeue(s) ==
    \E entry \in scheduler[s].reaping :
        LET e == entry.execution
        IN  /\ scheduler[s].pc = "reap"
            /\ entry.loaded
            /\ ReapWhere(s, entry)
            /\ ReapRetryable(entry)
            /\ executions' = [executions EXCEPT ![e] = ReapValues(@, TRUE)]
            /\ LeaseExpiryWritten(e)
            /\ AddDispatch(e)
            /\ AppendAudit(e, "execution_lease_requeued")
            /\ ReapedEntry(s, entry)
            /\ UNCHANGED <<step_executions, failure_records, tokens,
                           retryClock, queue>>

(* It matches, and no attempt remains.                                     *)
ReapDeadLetter(s) ==
    \E entry \in scheduler[s].reaping :
        LET e == entry.execution
        IN  /\ scheduler[s].pc = "reap"
            /\ entry.loaded
            /\ ReapWhere(s, entry)
            /\ ~ReapRetryable(entry)
            /\ executions' = [executions EXCEPT ![e] = ReapValues(@, FALSE)]
            /\ LeaseExpiryWritten(e)
            /\ AddFailure(e, "transient")
            /\ AppendAudit(e, "execution_lease_dead_lettered")
            /\ ReapedEntry(s, entry)
            /\ UNCHANGED <<step_executions, dispatchVars, tokens, retryClock,
                           queue>>

(* It matches no row: rollback, which expires the rest of the batch.       *)
ReapMiss(s) ==
    \E entry \in scheduler[s].reaping :
        LET rest == {[x EXCEPT !.loaded = FALSE] :
                        x \in scheduler[s].reaping \ {entry}}
        IN  /\ scheduler[s].pc = "reap"
            /\ entry.loaded
            /\ ~ReapWhere(s, entry)
            /\ scheduler' = [scheduler EXCEPT
                  ![s].pc = After(rest, "reap", "retry_select"),
                  ![s].reaping = rest]
            /\ UNCHANGED <<dbVars, queue>>

(* The next entry is read again; without a lease token it is skipped.      *)
ReapReload(s) ==
    \E entry \in scheduler[s].reaping :
        LET fresh == Loaded(entry.execution)
            rest == (scheduler[s].reaping \ {entry})
                        \cup {x \in {fresh} : x.lease_token # 0}
        IN  /\ scheduler[s].pc = "reap"
            /\ \A x \in scheduler[s].reaping : ~x.loaded
            /\ scheduler' = [scheduler EXCEPT
                  ![s].pc = After(rest, "reap", "retry_select"),
                  ![s].reaping = rest]
            /\ UNCHANGED <<dbVars, queue>>

-----------------------------------------------------------------------------
(* prepare_due_retries                                                     *)

RetrySelect(s) ==
    LET due == {e \in retry_past : executions[e].status = "retry_scheduled"}
    IN  /\ scheduler[s].pc = "retry_select"
        /\ retry_view' = [retry_view EXCEPT ![s] = retry_past]
        /\ \E B \in Batches(due) :
              scheduler' = [scheduler EXCEPT
                  ![s].pc = After(B, "retry", "publish_select"),
                  ![s].retrying = B]
        /\ UNCHANGED <<executions, step_executions, failure_records,
                       audit_events, dispatchVars, tokens, leaseClock,
                       retry_past, queue>>

(* Mutant: next_retry_at is not compared again.                            *)
RetryWhereAnyTime(s, e) == executions[e].status = "retry_scheduled"

RetryWhere(s, e) ==
    /\ executions[e].status = "retry_scheduled"
    /\ e \in retry_view[s]

PreparedRetry(s, e) ==
    LET rest == scheduler[s].retrying \ {e}
    IN  /\ scheduler[s].pc = "retry"
        /\ scheduler' = [scheduler EXCEPT
              ![s].pc = After(rest, "retry", "publish_select"),
              ![s].retrying = rest]

PrepareRetry(s) ==
    \E e \in scheduler[s].retrying :
        /\ PreparedRetry(s, e)
        /\ RetryWhere(s, e)
        /\ executions' = [executions EXCEPT ![e].status = "queued",
                                            ![e].next_retry_at = FALSE]
        /\ NextRetryWritten(e)
        /\ AppendAudit(e, "execution_requeued")
        /\ AddDispatch(e)
        /\ UNCHANGED <<step_executions, failure_records, tokens, leaseClock,
                       queue>>

PrepareRetryMiss(s) ==
    \E e \in scheduler[s].retrying :
        /\ PreparedRetry(s, e)
        /\ ~RetryWhere(s, e)
        /\ UNCHANGED <<dbVars, queue>>

-----------------------------------------------------------------------------
(* publish_dispatch_outbox                                                 *)

PublishSelect(s) ==
    /\ scheduler[s].pc = "publish_select"
    /\ \E B \in Batches(outbox) :
          scheduler' = [scheduler EXCEPT
              ![s].pc = After(B, "publish", "reap_select"),
              ![s].publishing = B]
    /\ UNCHANGED <<dbVars, queue>>

(* RPUSH succeeds; published_at is still to be committed.                  *)
Publish(s) ==
    /\ scheduler[s].pc = "publish"
    /\ \E record \in scheduler[s].publishing :
          /\ enqueue(record[1])
          /\ scheduler' = [scheduler EXCEPT ![s].pc = "mark_published",
                                            ![s].publishing = @ \ {record},
                                            ![s].marking = {record}]
    /\ UNCHANGED dbVars

(* RPUSH raises, whether or not Redis has applied it: the record keeps its *)
(* place in the outbox and only its attempt_count and last_error change.   *)
PublishFails(s) ==
    /\ scheduler[s].pc = "publish"
    /\ \E record \in scheduler[s].publishing :
          LET rest == scheduler[s].publishing \ {record}
          IN  /\ \/ UNCHANGED queue
                 \/ enqueue(record[1])
              /\ scheduler' = [scheduler EXCEPT
                    ![s].pc = After(rest, "publish", "reap_select"),
                    ![s].publishing = rest]
    /\ UNCHANGED dbVars

MarkPublished(s) ==
    /\ scheduler[s].pc = "mark_published"
    /\ outbox' = outbox \ scheduler[s].marking
    /\ scheduler' = [scheduler EXCEPT
          ![s].pc = After(scheduler[s].publishing, "publish", "reap_select"),
          ![s].marking = {}]
    /\ UNCHANGED <<executions, step_executions, failure_records, audit_events,
                   dispatches, tokens, leaseClock, retryClock, queue>>

-----------------------------------------------------------------------------
SchedulerStep(s) ==
    \/ ReapSelect(s)
    \/ ReapRequeue(s)
    \/ ReapDeadLetter(s)
    \/ ReapMiss(s)
    \/ ReapReload(s)
    \/ RetrySelect(s)
    \/ PrepareRetry(s)
    \/ PrepareRetryMiss(s)
    \/ PublishSelect(s)
    \/ Publish(s)
    \/ MarkPublished(s)

(* The process dies and is restarted: a new cycle.                         *)
SchedulerCrash(s) ==
    /\ scheduler[s] # CycleStart
    /\ scheduler' = [scheduler EXCEPT ![s] = CycleStart]
    /\ UNCHANGED <<dbVars, queue>>
=============================================================================
