------------------------- MODULE ExecutionLifecycle -------------------------
(***************************************************************************)
(* What the platform promises of an execution, whatever process does it:   *)
(* the life cycle of ExecutionStatus, a bounded number of attempts, and    *)
(* steps that are completed one after the other, once each.                *)
(***************************************************************************)
EXTENDS Naturals

CONSTANTS Executions, NumSteps, MaxAttempts

VARIABLES
    status,    \* status of every execution
    attempts,  \* attempts used since it was requested or manually retried
    done       \* steps completed

vars == <<status, attempts, done>>

Init ==
    /\ status = [e \in Executions |-> "absent"]
    /\ attempts = [e \in Executions |-> 0]
    /\ done = [e \in Executions |-> 0]

(* The status of e goes from one of a set to another status.               *)
Move(e, from, to) ==
    /\ status[e] \in from
    /\ status' = [status EXCEPT ![e] = to]

Keep == UNCHANGED <<attempts, done>>

Request(e) == Move(e, {"absent"}, "queued") /\ Keep

Claim(e) ==
    /\ Move(e, {"queued"}, "running")
    /\ attempts[e] < MaxAttempts
    /\ attempts' = [attempts EXCEPT ![e] = @ + 1]
    /\ UNCHANGED done

CompleteStep(e) ==
    /\ status[e] = "running"
    /\ done[e] < NumSteps
    /\ done' = [done EXCEPT ![e] = @ + 1]
    /\ UNCHANGED <<status, attempts>>

Succeed(e) ==
    /\ Move(e, {"running"}, "succeeded")
    /\ done[e] = NumSteps
    /\ Keep

(* A transient failure, or a lost worker, with attempts left.              *)
ScheduleRetry(e) ==
    /\ Move(e, {"running"}, "retry_scheduled")
    /\ attempts[e] < MaxAttempts
    /\ Keep

Requeue(e) ==
    /\ Move(e, {"running"}, "queued")
    /\ attempts[e] < MaxAttempts
    /\ Keep

RetryDue(e) == Move(e, {"retry_scheduled"}, "queued") /\ Keep

DeadLetter(e) == Move(e, {"running"}, "dead_letter") /\ Keep

ManualRetry(e) ==
    /\ Move(e, {"dead_letter"}, "queued")
    /\ attempts' = [attempts EXCEPT ![e] = 0]
    /\ UNCHANGED done

Cancel(e) == Move(e, {"queued", "retry_scheduled"}, "cancelled") /\ Keep

Next ==
    \E e \in Executions :
        \/ Request(e) \/ Claim(e) \/ CompleteStep(e) \/ Succeed(e)
        \/ ScheduleRetry(e) \/ Requeue(e) \/ RetryDue(e) \/ DeadLetter(e)
        \/ ManualRetry(e) \/ Cancel(e)

Spec == Init /\ [][Next]_vars
=============================================================================
