------------------------------ MODULE Platform ------------------------------
(***************************************************************************)
(* The workers, the schedulers and the API over one database and one       *)
(* queue, with the passage of time, process crashes and Redis errors.      *)
(***************************************************************************)
EXTENDS Worker, Scheduler, Api

CONSTANTS
    MaxFaults,     \* bound: crashes and Redis errors in a behaviour
    MaxCalls,      \* bound: manual retries and cancellations in a behaviour
    Stalls,        \* may a lease run out between its renewal and the commit
                   \* that follows?
    CrashAfterPop  \* may a worker die between BLPOP and the claim?

ASSUME FaultsAssumption == MaxFaults \in Nat
ASSUME MaxCallsAssumption == MaxCalls \in Nat
ASSUME StallsAssumption == Stalls \in BOOLEAN
ASSUME CrashAfterPopAssumption == CrashAfterPop \in BOOLEAN

VARIABLES
    faults,  \* faults so far
    calls    \* operator calls so far

budget == <<faults, calls>>
vars == <<dbVars, queue, worker, scheduler, request, budget>>

TypeOK ==
    /\ DatabaseTypeOK
    /\ queue \in Seq(Executions)
    /\ WorkerTypeOK
    /\ SchedulerTypeOK
    /\ ApiTypeOK
    /\ faults \in 0 .. MaxFaults
    /\ calls \in 0 .. MaxCalls

Init ==
    /\ DatabaseInit
    /\ QueueInit
    /\ WorkerInit
    /\ SchedulerInit
    /\ ApiInit
    /\ faults = 0
    /\ calls = 0

-----------------------------------------------------------------------------
(* Time                                                                    *)

(* w is between a renewal and the commit it guards, and holds e's lease.   *)
Committing(w, e) ==
    /\ worker[w].pc \in CommitPoints
    /\ worker[w].execution = e
    /\ worker[w].lease_token = executions[e].lease_token

(* The clock passes lease_expires_at.                                      *)
LeaseExpires(e) ==
    /\ executions[e].lease_token # 0
    /\ e \notin lease_past
    /\ Stalls \/ \A w \in Workers : ~Committing(w, e)
    /\ lease_past' = lease_past \cup {e}
    /\ UNCHANGED <<executions, step_executions, failure_records, audit_events,
                   dispatchVars, tokens, lease_view, retryClock, queue,
                   worker, scheduler, request, budget>>

(* The clock passes next_retry_at.                                         *)
RetryBecomesDue(e) ==
    /\ executions[e].next_retry_at
    /\ e \notin retry_past
    /\ retry_past' = retry_past \cup {e}
    /\ UNCHANGED <<executions, step_executions, failure_records, audit_events,
                   dispatchVars, tokens, leaseClock, retry_view, queue,
                   worker, scheduler, request, budget>>

-----------------------------------------------------------------------------
WorkerRuns(w) ==
    WorkerStep(w) /\ UNCHANGED <<scheduler, request, budget>>

SchedulerRuns(s) ==
    SchedulerStep(s) /\ UNCHANGED <<worker, request, budget>>

OperatorReads(o, e) ==
    /\ calls < MaxCalls
    /\ calls' = calls + 1
    /\ RetryRead(o, e) \/ CancelRead(o, e)
    /\ UNCHANGED <<queue, worker, scheduler, faults>>

OperatorCommits(o) ==
    Commit(o) /\ UNCHANGED <<queue, worker, scheduler, budget>>

ExecutionRequested(e) ==
    RequestExecution(e) /\ UNCHANGED <<queue, worker, scheduler, budget>>

Fault ==
    /\ faults < MaxFaults
    /\ faults' = faults + 1
    /\ UNCHANGED <<request, calls>>

WorkerFault(w) ==
    /\ worker[w].pc = "claim" => CrashAfterPop
    /\ WorkerCrash(w)
    /\ Fault
    /\ UNCHANGED scheduler

SchedulerFault(s) ==
    /\ SchedulerCrash(s) \/ PublishFails(s)
    /\ Fault
    /\ UNCHANGED worker

Next ==
    \/ \E e \in Executions : \/ ExecutionRequested(e)
                             \/ LeaseExpires(e)
                             \/ RetryBecomesDue(e)
    \/ \E w \in Workers : WorkerRuns(w) \/ WorkerFault(w)
    \/ \E s \in Schedulers : SchedulerRuns(s) \/ SchedulerFault(s)
    \/ \E o \in Operators : \/ OperatorCommits(o)
                            \/ \E e \in Executions : OperatorReads(o, e)

Spec == Init /\ [][Next]_vars

(* Every process that can take a step takes one, and the clock goes on.    *)
Fairness ==
    /\ \A w \in Workers : WF_vars(WorkerRuns(w))
    /\ \A s \in Schedulers : WF_vars(SchedulerRuns(s))
    /\ \A e \in Executions : WF_vars(LeaseExpires(e))
    /\ \A e \in Executions : WF_vars(RetryBecomesDue(e))

FairSpec == Spec /\ Fairness

-----------------------------------------------------------------------------
(* Properties                                                              *)

(* An outbox row of e that no publisher is about to mark.                  *)
InOutbox(e) ==
    \E row \in outbox :
        /\ row[1] = e
        /\ \A s \in Schedulers : row \notin scheduler[s].marking

InQueue(e) == \E i \in 1 .. Len(queue) : queue[i] = e

BeingClaimed(e) ==
    \E w \in Workers : worker[w].pc = "claim" /\ worker[w].execution = e

(* A delivery of e is on its way.                                          *)
HasDelivery(e) == InOutbox(e) \/ InQueue(e) \/ BeingClaimed(e)

(* No execution is stranded: whatever the processes interleave, an         *)
(* execution that is not finished is one that somebody will look at.  A    *)
(* queued one has a delivery on its way, a running one a lease the reaper  *)
(* can see expire, and a scheduled retry a due time.                       *)
NeverStranded ==
    \A e \in Executions :
        /\ executions[e].status = "queued" => HasDelivery(e)
        /\ executions[e].status = "running" => executions[e].lease_token # 0
        /\ executions[e].status = "retry_scheduled" =>
              executions[e].next_retry_at

(* A worker about to commit what it did under a lease still holds the      *)
(* lease: nobody has reaped or reclaimed the execution since the renewal.  *)
WriterHoldsLease ==
    \A w \in Workers :
        worker[w].pc \in CommitPoints =>
            /\ RowOf(w).status = "running"
            /\ RowOf(w).lease_token = worker[w].lease_token

(* The lease has one owner: however long a worker stalls, and whatever has *)
(* been reaped, requeued or retried meanwhile, of those that have claimed  *)
(* an execution at most one gets past the check of the lease.              *)
OneOwner ==
    \A v, w \in Workers :
        (/\ v # w
         /\ {worker[v].pc, worker[w].pc} \cap {"idle", "claim"} = {}
         /\ worker[v].execution = worker[w].execution)
            => ~(RenewWhere(v) /\ RenewWhere(w))

(* current_step, the step rows and the output agree: the steps before it   *)
(* have succeeded and are the ones whose output has been merged, those     *)
(* after it have not begun, and a success has them all.                    *)
StepsInOrder ==
    \A e \in Executions :
        LET done == executions[e].current_step
        IN  /\ \A i \in StepIndex :
                  /\ i < done <=> step_executions[e][i] = "succeeded"
                  /\ i > done => step_executions[e][i] = "absent"
            /\ executions[e].output_payload = {i \in StepIndex : i < done}
            /\ executions[e].status = "succeeded" => done = NumSteps

(* An execution is dead-lettered only for a permanent failure or with its  *)
(* attempts used up.                                                       *)
DeadLetterJustified ==
    \A e \in Executions :
        executions[e].status = "dead_letter" =>
            \/ failure_records[e] = "permanent"
            \/ executions[e].attempt_count >= MaxAttempts

QueuedEvents == {"execution_requested", "execution_lease_requeued",
                 "execution_requeued", "execution_manual_retry_requested"}

(* The newest audit events that fit a status.                              *)
EventsOf(status) ==
    CASE status = "absent"          -> {"none"}
      [] status = "queued"          -> QueuedEvents
      [] status = "running"         -> QueuedEvents \cup {"step_succeeded"}
      [] status = "retry_scheduled" -> {"execution_retry_scheduled"}
      [] status = "succeeded"       -> {"execution_succeeded"}
      [] status = "cancelled"       -> {"execution_cancelled"}
      [] status = "dead_letter"     -> {"execution_dead_lettered",
                                        "execution_lease_dead_lettered"}

(* The row of an execution tells one story: its status, the newest audit   *)
(* event, finished_at and the presence of a lease agree.                   *)
RowAgrees ==
    \A e \in Executions :
        /\ audit_events[e] \in EventsOf(executions[e].status)
        /\ executions[e].finished_at <=> executions[e].status \in Terminal
        /\ executions[e].lease_token # 0 <=> executions[e].status = "running"

(* The platform implements the life cycle it promises.                     *)
Lifecycle == INSTANCE ExecutionLifecycle WITH
    status   <- [e \in Executions |-> executions[e].status],
    attempts <- [e \in Executions |-> executions[e].attempt_count],
    done     <- [e \in Executions |-> executions[e].current_step]

ImplementsLifecycle == Lifecycle!Spec

(* A scheduler ends a run only when its lease has run out by then, though  *)
(* it chose the execution in an earlier transaction and the worker may     *)
(* have renewed the lease in between.                                      *)
ReapsOnlyExpired ==
    [][\A s \in Schedulers, e \in Executions :
          (/\ SchedulerRuns(s)
           /\ executions[e].status = "running"
           /\ executions'[e].status # "running") => e \in lease_past]_vars

(* A scheduler requeues an execution only when its retry is due by then,   *)
(* though another scheduler may have requeued it, and a worker failed it   *)
(* again, since it was chosen.                                             *)
RetriesOnlyDue ==
    [][\A s \in Schedulers, e \in Executions :
          (/\ SchedulerRuns(s)
           /\ executions[e].status = "retry_scheduled"
           /\ executions'[e].status # "retry_scheduled")
              => e \in retry_past]_vars

(* Every execution that has been queued reaches a terminal status.         *)
Settles ==
    \A e \in Executions :
        executions[e].status = "queued" ~> executions[e].status \in Terminal

(* What a worker commits under a lease it commits while it holds it.       *)
FencedWrites ==
    [][\A w \in Workers : LeasedWrite(w) => RenewWhere(w)]_vars

(* A succeeded execution stays succeeded, whatever an operator asks for by *)
(* retry_dead_letter_execution or cancel_execution while it runs.          *)
SuccessIsFinal ==
    [][\A e \in Executions :
          executions[e].status = "succeeded"
             => executions'[e].status = "succeeded"]_vars
=============================================================================
