-------------------------- MODULE LifecycleProofs ---------------------------
(***************************************************************************)
(* The platform implements ExecutionLifecycle, and the columns of a row    *)
(* tell one story, when the lease fences the workers (FencingProofs) and   *)
(* the operators only retry: a late cancellation can overwrite any status. *)
(***************************************************************************)
EXTENDS FencingProofs

OnlyRetries == OperatorCalls \subseteq {"retry"}

NoCancellation ==
    \A o \in Operators : request[o].call # "cancel"

(* RowAgrees for one execution.                                            *)
RowStory(e) ==
    /\ audit_events[e] \in EventsOf(executions[e].status)
    /\ executions[e].finished_at <=> executions[e].status \in Terminal
    /\ executions[e].lease_token # 0 <=> executions[e].status = "running"

(* Whoever waits for a worker has an attempt left for it.                  *)
AttemptsLeft(e) ==
    /\ executions[e].status \in {"absent", "queued", "retry_scheduled"} =>
          executions[e].attempt_count < MaxAttempts
    /\ executions[e].status = "running" =>
          executions[e].attempt_count <= MaxAttempts

Told(e) ==
    RowStory(e) /\ AttemptsLeft(e) /\ executions[e].status # "cancelled"

StoryInv ==
    /\ FenceInv
    /\ NoCancellation
    /\ \A e \in Executions : Told(e)

(* What a step has to do to the rows.                                      *)
StoryGoal ==
    /\ \A e \in Executions : Told(e)'
    /\ Lifecycle!Next \/ UNCHANGED Lifecycle!vars

(* The rows of all executions but e are left alone.                        *)
OthersAtRest(e) ==
    \A f \in Executions \ {e} : /\ executions'[f] = executions[f]
                                /\ audit_events'[f] = audit_events[f]

-----------------------------------------------------------------------------
(* No row is written.                                                      *)
LEMMA RowsAtRest ==
    ASSUME StoryInv, UNCHANGED <<executions, audit_events>>
    PROVE  StoryGoal
<1>1. \A e \in Executions : Told(e)'
  BY DEF StoryInv, Told, RowStory, AttemptsLeft
<1>2. UNCHANGED Lifecycle!vars
  BY DEF Lifecycle!vars
<1> QED
  BY <1>1, <1>2 DEF StoryGoal

(* One row is written: what the abstract variables become.                 *)
LEMMA MappedRow ==
    ASSUME NEW e \in Executions, OthersAtRest(e)
    PROVE  /\ [f \in Executions |-> executions'[f].status] =
                 [[f \in Executions |-> executions[f].status]
                     EXCEPT ![e] = executions'[e].status]
           /\ [f \in Executions |-> executions'[f].attempt_count] =
                 [[f \in Executions |-> executions[f].attempt_count]
                     EXCEPT ![e] = executions'[e].attempt_count]
           /\ [f \in Executions |-> executions'[f].current_step] =
                 [[f \in Executions |-> executions[f].current_step]
                     EXCEPT ![e] = executions'[e].current_step]
BY DEF OthersAtRest

(* A row that is written with a new status and nothing else of what the    *)
(* life cycle is about.                                                    *)
LEMMA MappedKeep ==
    ASSUME NEW e \in Executions, OthersAtRest(e),
           executions'[e].attempt_count = executions[e].attempt_count,
           executions'[e].current_step = executions[e].current_step
    PROVE  Lifecycle!Keep
BY DEF Lifecycle!Keep, OthersAtRest

(* The written row tells its story, and the others still do.               *)
LEMMA StoriesKept ==
    ASSUME StoryInv, NEW e \in Executions, OthersAtRest(e), Told(e)'
    PROVE  \A f \in Executions : Told(f)'
<1>1. ASSUME NEW f \in Executions \ {e} PROVE Told(f)'
  BY DEF StoryInv, OthersAtRest, Told, RowStory, AttemptsLeft
<1> QED
  BY <1>1

-----------------------------------------------------------------------------
(* Workers                                                                 *)

(* A claim uses an attempt that was left.                                  *)
LEMMA ClaimStory ==
    ASSUME StoryInv, TypeInv, NEW w \in Workers, Claim(w)
    PROVE  StoryGoal
<1>0. PICK e : e = worker[w].execution
  OBVIOUS
<1> DEFINE row == executions[e]
<1>1. /\ e \in Executions /\ row \in Execution /\ tokens[e] \in Nat
  BY <1>0, WorkerFacts DEF Claim, RowOf, TypeInv, TypeOK, DatabaseTypeOK
<1>2. row.status = "queued" /\ Told(e)
  BY <1>0, <1>1 DEF Claim, ClaimWhere, StoryInv
<1>3. /\ executions'[e].current_step = row.current_step
      /\ executions'[e].attempt_count = row.attempt_count + 1
      /\ executions'[e].finished_at = row.finished_at
      /\ executions'[e].status = "running"
      /\ executions'[e].lease_token = tokens[e] + 1
      /\ \A f \in Executions \ {e} : executions'[f] = executions[f]
  BY <1>0, <1>1
  DEF Claim, ClaimValues, TypeInv, TypeOK, DatabaseTypeOK, Execution
<1>4. OthersAtRest(e) /\ audit_events'[e] = audit_events[e]
  BY <1>3 DEF OthersAtRest, Claim
<1>5. Told(e)'
  <2>1. RowStory(e)'
    BY <1>1, <1>2, <1>3, <1>4 DEF Told, RowStory, EventsOf, Terminal
  <2>2. AttemptsLeft(e)'
    BY <1>1, <1>2, <1>3, AttemptsAssumption DEF Told, AttemptsLeft, Execution
  <2> QED
    BY <1>3, <2>1, <2>2 DEF Told
<1>6. Lifecycle!Claim(e)
  <2>1. row.attempt_count < MaxAttempts
    BY <1>2 DEF Told, AttemptsLeft
  <2>2. UNCHANGED [f \in Executions |-> executions[f].current_step]
    BY <1>3
  <2> QED
    BY <1>1, <1>2, <1>3, <1>4, <2>1, <2>2, MappedRow
    DEF Lifecycle!Claim, Lifecycle!Move
<1> QED
  BY <1>1, <1>4, <1>5, <1>6, StoriesKept DEF StoryGoal, Lifecycle!Next

(* A worker commits to a running row.                                      *)
LEMMA CommittingRow ==
    ASSUME StoryInv, NEW w \in Workers, worker[w].pc \in CommitPoints
    PROVE  /\ TypeInv
           /\ worker[w].execution \in Executions
           /\ RowOf(w) \in Execution
           /\ RowOf(w).status = "running"
           /\ RowOf(w).lease_token = worker[w].lease_token
           /\ SessionAgrees(w)
           /\ Told(worker[w].execution)
<1>1. TypeInv /\ Fenced
  BY DEF StoryInv, FenceInv, TimingInv
<1> QED
  BY <1>1, CommittingFacts DEF StoryInv, Told, RowOf

(* A completed step.                                                       *)
LEMMA CommitStepStory ==
    ASSUME StoryInv, NEW w \in Workers, CommitStep(w)
    PROVE  StoryGoal
<1>0. PICK e : e = worker[w].execution
  OBVIOUS
<1> DEFINE i == worker[w].index
           row == executions[e]
<1>1. worker[w].pc \in CommitPoints
  BY DEF CommitStep, CommitPoints
<1>2. /\ TypeInv /\ e \in Executions /\ row \in Execution
      /\ row.status = "running" /\ i = row.current_step /\ Told(e)
  BY <1>0, <1>1, CommittingRow DEF SessionAgrees, RowOf
<1>3. i < NumSteps /\ i \in Nat
  <2>1. worker[w].pc \in StepPoints
    BY DEF CommitStep, StepPoints
  <2>2. i \in StepIndex
    BY <1>2, <2>1, WorkerFacts
  <2> QED
    BY <2>2, StepsAssumption DEF StepIndex
<1>4. /\ executions'[e].current_step = i + 1
      /\ executions'[e].attempt_count = row.attempt_count
      /\ executions'[e].finished_at = row.finished_at
      /\ executions'[e].status = row.status
      /\ executions'[e].lease_token = row.lease_token
      /\ \A f \in Executions \ {e} : executions'[f] = executions[f]
  BY <1>0, <1>2 DEF CommitStep, TypeInv, TypeOK, DatabaseTypeOK, Execution
<1>5. OthersAtRest(e) /\ audit_events'[e] = "step_succeeded"
  BY <1>0, <1>2, <1>4
  DEF OthersAtRest, CommitStep, AppendAudit, TypeInv, TypeOK, DatabaseTypeOK
<1>6. Told(e)'
  BY <1>2, <1>4, <1>5
  DEF Told, RowStory, AttemptsLeft, EventsOf, Terminal
<1>7. Lifecycle!CompleteStep(e)
  <2>1. UNCHANGED [f \in Executions |-> executions[f].status]
    BY <1>4
  <2>2. UNCHANGED [f \in Executions |-> executions[f].attempt_count]
    BY <1>4
  <2> DEFINE done == [f \in Executions |-> executions[f].current_step]
  <2>3. done' = [done EXCEPT ![e] = i + 1]
    BY <1>2, <1>4, <1>5, MappedRow
  <2>4. done[e] = i /\ i < NumSteps
    BY <1>2, <1>3
  <2>5. [f \in Executions |-> executions[f].status][e] = "running"
    BY <1>2
  <2> QED
    BY <2>1, <2>2, <2>3, <2>4, <2>5 DEF Lifecycle!CompleteStep
<1> QED
  BY <1>2, <1>5, <1>6, <1>7, StoriesKept DEF StoryGoal, Lifecycle!Next

(* A success, with all steps completed.                                    *)
LEMMA CommitSuccessStory ==
    ASSUME StoryInv, NEW w \in Workers, CommitSuccess(w)
    PROVE  StoryGoal
<1>0. PICK e : e = worker[w].execution
  OBVIOUS
<1> DEFINE row == executions[e]
<1>1. worker[w].pc \in CommitPoints
  BY DEF CommitSuccess, CommitPoints
<1>2. /\ TypeInv /\ e \in Executions /\ row \in Execution
      /\ row.status = "running" /\ worker[w].index = row.current_step
  BY <1>0, <1>1, CommittingRow DEF SessionAgrees, RowOf
<1>3. row.current_step = NumSteps
  BY <1>2 DEF StoryInv, FenceInv, Fenced, WorkerFits, CommitSuccess
<1>4. /\ executions'[e].current_step = row.current_step
      /\ executions'[e].attempt_count = row.attempt_count
      /\ executions'[e].finished_at = TRUE
      /\ executions'[e].status = "succeeded"
      /\ executions'[e].lease_token = 0
      /\ \A f \in Executions \ {e} : executions'[f] = executions[f]
  BY <1>0, <1>2
  DEF CommitSuccess, SuccessValues, TypeInv, TypeOK, DatabaseTypeOK, Execution
<1>5. OthersAtRest(e) /\ audit_events'[e] = "execution_succeeded"
  BY <1>0, <1>2, <1>4
  DEF OthersAtRest, CommitSuccess, AppendAudit, TypeInv, TypeOK, DatabaseTypeOK
<1>6. Told(e)'
  BY <1>4, <1>5 DEF Told, RowStory, AttemptsLeft, EventsOf, Terminal
<1>7. Lifecycle!Succeed(e)
  BY <1>2, <1>3, <1>4, <1>5, MappedRow, MappedKeep
  DEF Lifecycle!Succeed, Lifecycle!Move
<1> QED
  BY <1>2, <1>5, <1>6, <1>7, StoriesKept DEF StoryGoal, Lifecycle!Next

(* A failure, retried only while attempts are left.                        *)
LEMMA FailExecutionStory ==
    ASSUME StoryInv, NEW w \in Workers, FailExecution(w)
    PROVE  StoryGoal
<1>0. PICK e : e = worker[w].execution
  OBVIOUS
<1> DEFINE row == executions[e]
           failed == FailureValues(row, worker[w].last_error_code,
                                   ErrorCodeOf(worker[w].outcome))
<1>1. worker[w].pc \in CommitPoints
  BY DEF FailExecution, CommitPoints
<1>2. /\ TypeInv /\ e \in Executions /\ row \in Execution
      /\ row.status = "running" /\ Told(e)
      /\ worker[w].attempt_count = row.attempt_count
  BY <1>0, <1>1, CommittingRow DEF SessionAgrees, RowOf
<1>3. /\ failed.current_step = row.current_step
      /\ failed.attempt_count = row.attempt_count
      /\ failed.finished_at = row.finished_at
      /\ failed.lease_token = 0
      /\ failed \in Execution
  <2>1. ErrorCodeOf(worker[w].outcome) \in ErrorCode
    BY DEF ErrorCodeOf, ErrorCode
  <2>2. worker[w].last_error_code \in ErrorCode
    BY <1>2, WorkerFacts DEF WorkerState
  <2>3. failed \in Execution
    BY <1>2, <2>1, <2>2, FailureValuesType
  <2> QED
    BY <1>2, <2>3 DEF FailureValues, Execution
<1>4. \/ /\ Retryable(w)
         /\ executions' = [executions EXCEPT
               ![e] = [failed EXCEPT !.status = "retry_scheduled",
                                     !.next_retry_at = TRUE]]
         /\ AppendAudit(e, "execution_retry_scheduled")
      \/ /\ executions' = [executions EXCEPT
               ![e] = [failed EXCEPT !.status = "dead_letter",
                                     !.finished_at = TRUE]]
         /\ AppendAudit(e, "execution_dead_lettered")
  BY <1>0 DEF FailExecution
<1> HIDE DEF failed
<1>5. /\ \A new : executions' = [executions EXCEPT ![e] = new] =>
            /\ executions'[e] = new
            /\ \A f \in Executions \ {e} : executions'[f] = executions[f]
      /\ \A type : AppendAudit(e, type) =>
            /\ audit_events'[e] = type
            /\ \A f \in Executions \ {e} : audit_events'[f] = audit_events[f]
  BY <1>2 DEF TypeInv, TypeOK, DatabaseTypeOK, AppendAudit
<1>6. CASE /\ Retryable(w)
           /\ executions' = [executions EXCEPT
                 ![e] = [failed EXCEPT !.status = "retry_scheduled",
                                       !.next_retry_at = TRUE]]
           /\ AppendAudit(e, "execution_retry_scheduled")
  <2>1. /\ executions'[e].current_step = row.current_step
        /\ executions'[e].attempt_count = row.attempt_count
        /\ executions'[e].finished_at = row.finished_at
        /\ executions'[e].status = "retry_scheduled"
        /\ executions'[e].lease_token = 0
    <3>1. executions'[e] = [failed EXCEPT !.status = "retry_scheduled",
                                          !.next_retry_at = TRUE]
      BY <1>5, <1>6
    <3>2. executions'[e].finished_at = failed.finished_at
      BY <1>3, <3>1, Zenon DEF Execution
    <3> QED
      BY <1>3, <3>1, <3>2 DEF Execution
  <2>2. OthersAtRest(e) /\ audit_events'[e] = "execution_retry_scheduled"
    BY <1>5, <1>6 DEF OthersAtRest
  <2>3. row.attempt_count < MaxAttempts
    BY <1>2, <1>6 DEF Retryable
  <2>4. Told(e)'
    BY <1>2, <2>1, <2>2, <2>3
    DEF Told, RowStory, AttemptsLeft, EventsOf, Terminal
  <2>5. Lifecycle!ScheduleRetry(e)
    BY <1>2, <2>1, <2>2, <2>3, MappedRow, MappedKeep
  DEF Lifecycle!ScheduleRetry, Lifecycle!Move
  <2> QED
    BY <1>2, <2>2, <2>4, <2>5, StoriesKept DEF StoryGoal, Lifecycle!Next
<1>7. CASE /\ executions' = [executions EXCEPT
                 ![e] = [failed EXCEPT !.status = "dead_letter",
                                       !.finished_at = TRUE]]
           /\ AppendAudit(e, "execution_dead_lettered")
  <2>1. /\ executions'[e].current_step = row.current_step
        /\ executions'[e].attempt_count = row.attempt_count
        /\ executions'[e].finished_at = TRUE
        /\ executions'[e].status = "dead_letter"
        /\ executions'[e].lease_token = 0
    <3>1. executions'[e] = [failed EXCEPT !.status = "dead_letter",
                                          !.finished_at = TRUE]
      BY <1>5, <1>7
    <3>2. executions'[e].finished_at = TRUE
      BY <1>3, <3>1, Zenon DEF Execution
    <3> QED
      BY <1>3, <3>1, <3>2 DEF Execution
  <2>2. OthersAtRest(e) /\ audit_events'[e] = "execution_dead_lettered"
    BY <1>5, <1>7 DEF OthersAtRest
  <2>3. Told(e)'
    BY <2>1, <2>2 DEF Told, RowStory, AttemptsLeft, EventsOf, Terminal
  <2>4. Lifecycle!DeadLetter(e)
    BY <1>2, <2>1, <2>2, MappedRow, MappedKeep
  DEF Lifecycle!DeadLetter, Lifecycle!Move
  <2> QED
    BY <1>2, <2>2, <2>3, <2>4, StoriesKept DEF StoryGoal, Lifecycle!Next
<1> QED
  BY <1>4, <1>6, <1>7

(* Every step of a worker, and its crash.                                  *)
LEMMA WorkerStory ==
    ASSUME StoryInv, NEW w \in Workers, WorkerRuns(w) \/ WorkerFault(w)
    PROVE  StoryGoal
<1>1. TypeInv
  BY DEF StoryInv, FenceInv, TimingInv
<1>2. CASE \/ Dequeue(w) \/ ClaimMiss(w) \/ Load(w) \/ RenewBefore(w)
           \/ RenewBeforeInvalid(w) \/ RenewAfter(w) \/ RenewFinal(w)
           \/ RenewMiss(w) \/ BeginStep(w) \/ BeginStepConflict(w)
           \/ RunStep(w) \/ WorkerCrash(w)
  <2>1. UNCHANGED <<executions, audit_events>>
    BY <1>2 DEF Dequeue, ClaimMiss, Load, RenewBefore, RenewBeforeInvalid,
       RenewAfter, RenewFinal, Renewed, RenewMiss, BeginStep,
       BeginStepConflict, RunStep, WorkerCrash, dbVars
  <2> QED
    BY <2>1, RowsAtRest
<1>3. CASE \/ Claim(w) \/ CommitStep(w) \/ CommitSuccess(w)
           \/ FailExecution(w)
  BY <1>1, <1>3, ClaimStory, CommitStepStory, CommitSuccessStory,
     FailExecutionStory
<1> QED
  BY <1>2, <1>3 DEF WorkerRuns, WorkerFault, WorkerStep

-----------------------------------------------------------------------------
(* Schedulers                                                              *)

(* A reap requeues only while attempts are left.                           *)
LEMMA ReapStory ==
    ASSUME StoryInv, NEW s \in Schedulers, ReapRequeue(s) \/ ReapDeadLetter(s)
    PROVE  StoryGoal
<1>1. TypeInv /\ Fenced
  BY DEF StoryInv, FenceInv, TimingInv
<1>2. PICK entry \in scheduler[s].reaping :
         /\ ReapWhere(s, entry)
         /\ \/ /\ ReapRetryable(entry)
               /\ executions' = [executions EXCEPT
                     ![entry.execution] = ReapValues(@, TRUE)]
               /\ AppendAudit(entry.execution, "execution_lease_requeued")
            \/ /\ executions' = [executions EXCEPT
                     ![entry.execution] = ReapValues(@, FALSE)]
               /\ AppendAudit(entry.execution, "execution_lease_dead_lettered")
  BY Zenon DEF ReapRequeue, ReapDeadLetter
<1> DEFINE e == entry.execution
           row == executions[e]
<1>3. EntryFits(entry) /\ entry \in ReapEntry
  BY <1>1 DEF Fenced, TypeInv, TypeOK, SchedulerTypeOK, SchedulerState
<1>4. e \in Executions /\ row \in Execution
  BY <1>1, <1>3 DEF ReapEntry, TypeInv, TypeOK, DatabaseTypeOK
<1>5. row.status = "running" /\ Told(e) /\ row.attempt_count = entry.attempt_count
  BY <1>1, <1>2, <1>3, <1>4
  DEF ReapWhere, EntryFits, StoryInv, Told, RowStory
<1>6. /\ \A new : executions' = [executions EXCEPT ![e] = new] =>
            /\ executions'[e] = new
            /\ \A f \in Executions \ {e} : executions'[f] = executions[f]
      /\ \A type : AppendAudit(e, type) =>
            /\ audit_events'[e] = type
            /\ \A f \in Executions \ {e} : audit_events'[f] = audit_events[f]
  BY <1>1, <1>4 DEF TypeInv, TypeOK, DatabaseTypeOK, AppendAudit
<1>7. \A retryable \in BOOLEAN :
         /\ ReapValues(row, retryable).current_step = row.current_step
         /\ ReapValues(row, retryable).attempt_count = row.attempt_count
         /\ ReapValues(row, retryable).finished_at = ~retryable
         /\ ReapValues(row, retryable).lease_token = 0
         /\ ReapValues(row, retryable).status =
               IF retryable THEN "queued" ELSE "dead_letter"
  BY <1>4 DEF ReapValues, Execution
<1>8. CASE /\ ReapRetryable(entry)
           /\ executions' = [executions EXCEPT ![e] = ReapValues(@, TRUE)]
           /\ AppendAudit(e, "execution_lease_requeued")
  <2>1. /\ executions'[e].current_step = row.current_step
        /\ executions'[e].attempt_count = row.attempt_count
        /\ executions'[e].finished_at = FALSE
        /\ executions'[e].status = "queued"
        /\ executions'[e].lease_token = 0
        /\ OthersAtRest(e)
        /\ audit_events'[e] = "execution_lease_requeued"
    BY <1>6, <1>7, <1>8 DEF OthersAtRest
  <2>2. row.attempt_count < MaxAttempts
    BY <1>5, <1>8 DEF ReapRetryable
  <2> HIDE DEF e
  <2>3. Told(e)'
    BY <2>1, <2>2
    DEF Told, RowStory, AttemptsLeft, EventsOf, QueuedEvents, Terminal
  <2>4. Lifecycle!Requeue(e)
    BY <1>4, <1>5, <2>1, <2>2, MappedRow, MappedKeep
  DEF Lifecycle!Requeue, Lifecycle!Move
  <2> QED
    BY <1>4, <2>1, <2>3, <2>4, StoriesKept DEF StoryGoal, Lifecycle!Next
<1>9. CASE /\ executions' = [executions EXCEPT ![e] = ReapValues(@, FALSE)]
           /\ AppendAudit(e, "execution_lease_dead_lettered")
  <2>1. /\ executions'[e].current_step = row.current_step
        /\ executions'[e].attempt_count = row.attempt_count
        /\ executions'[e].finished_at = TRUE
        /\ executions'[e].status = "dead_letter"
        /\ executions'[e].lease_token = 0
        /\ OthersAtRest(e)
        /\ audit_events'[e] = "execution_lease_dead_lettered"
    BY <1>6, <1>7, <1>9 DEF OthersAtRest
  <2> HIDE DEF e
  <2>2. Told(e)'
    BY <2>1 DEF Told, RowStory, AttemptsLeft, EventsOf, Terminal
  <2>3. Lifecycle!DeadLetter(e)
    BY <1>4, <1>5, <2>1, MappedRow, MappedKeep
  DEF Lifecycle!DeadLetter, Lifecycle!Move
  <2> QED
    BY <1>4, <2>1, <2>2, <2>3, StoriesKept DEF StoryGoal, Lifecycle!Next
<1> QED
  BY <1>2, <1>8, <1>9

(* A due retry goes back to the queue.                                     *)
LEMMA PrepareRetryStory ==
    ASSUME StoryInv, NEW s \in Schedulers, PrepareRetry(s)
    PROVE  StoryGoal
<1>1. TypeInv
  BY DEF StoryInv, FenceInv, TimingInv
<1>2. PICK e \in scheduler[s].retrying :
         /\ RetryWhere(s, e)
         /\ executions' = [executions EXCEPT ![e].status = "queued",
                                             ![e].next_retry_at = FALSE]
         /\ AppendAudit(e, "execution_requeued")
  BY DEF PrepareRetry
<1>3. e \in Executions /\ executions[e] \in Execution
  BY <1>1 DEF TypeInv, TypeOK, SchedulerTypeOK, SchedulerState, DatabaseTypeOK
<1>4. executions[e].status = "retry_scheduled" /\ Told(e)
  BY <1>2, <1>3 DEF RetryWhere, StoryInv
<1>5. /\ executions'[e].current_step = executions[e].current_step
      /\ executions'[e].attempt_count = executions[e].attempt_count
      /\ executions'[e].finished_at = executions[e].finished_at
      /\ executions'[e].lease_token = executions[e].lease_token
      /\ executions'[e].status = "queued"
      /\ \A f \in Executions \ {e} : executions'[f] = executions[f]
  BY <1>1, <1>2, <1>3 DEF TypeInv, TypeOK, DatabaseTypeOK, Execution
<1>6. OthersAtRest(e) /\ audit_events'[e] = "execution_requeued"
  BY <1>1, <1>2, <1>3, <1>5
  DEF OthersAtRest, AppendAudit, TypeInv, TypeOK, DatabaseTypeOK
<1>7. Told(e)'
  BY <1>4, <1>5, <1>6
  DEF Told, RowStory, AttemptsLeft, EventsOf, QueuedEvents, Terminal
<1>8. Lifecycle!RetryDue(e)
  BY <1>3, <1>4, <1>5, <1>6, MappedRow, MappedKeep
  DEF Lifecycle!RetryDue, Lifecycle!Move
<1> QED
  BY <1>3, <1>6, <1>7, <1>8, StoriesKept DEF StoryGoal, Lifecycle!Next

(* Every step of a scheduler, and its faults.                              *)
LEMMA SchedulerStory ==
    ASSUME StoryInv, NEW s \in Schedulers, SchedulerRuns(s) \/ SchedulerFault(s)
    PROVE  StoryGoal
<1>1. CASE \/ ReapSelect(s) \/ ReapMiss(s) \/ ReapReload(s)
           \/ RetrySelect(s) \/ PrepareRetryMiss(s)
           \/ PublishSelect(s) \/ Publish(s) \/ PublishFails(s)
           \/ MarkPublished(s) \/ SchedulerCrash(s)
  <2>1. UNCHANGED <<executions, audit_events>>
    BY <1>1 DEF ReapSelect, ReapMiss, ReapReload, RetrySelect,
       PrepareRetryMiss, PublishSelect, Publish, PublishFails, MarkPublished,
       SchedulerCrash, dbVars
  <2> QED
    BY <2>1, RowsAtRest
<1>2. CASE ReapRequeue(s) \/ ReapDeadLetter(s) \/ PrepareRetry(s)
  BY <1>2, ReapStory, PrepareRetryStory
<1> QED
  BY <1>1, <1>2 DEF SchedulerRuns, SchedulerFault, SchedulerStep

-----------------------------------------------------------------------------
(* The API                                                                 *)

(* A request inserts the row.                                              *)
LEMMA RequestStory ==
    ASSUME StoryInv, NEW e \in Executions, ExecutionRequested(e)
    PROVE  StoryGoal
<1>1. TypeInv
  BY DEF StoryInv, FenceInv, TimingInv
<1>2. /\ executions[e].status = "absent"
      /\ executions' = [executions EXCEPT ![e].status = "queued"]
      /\ AppendAudit(e, "execution_requested")
  BY DEF ExecutionRequested, RequestExecution
<1>3. executions[e] \in Execution /\ Told(e)
  BY <1>1 DEF TypeInv, TypeOK, DatabaseTypeOK, StoryInv
<1>4. /\ executions'[e].current_step = executions[e].current_step
      /\ executions'[e].attempt_count = executions[e].attempt_count
      /\ executions'[e].finished_at = executions[e].finished_at
      /\ executions'[e].lease_token = executions[e].lease_token
      /\ executions'[e].status = "queued"
      /\ \A f \in Executions \ {e} : executions'[f] = executions[f]
  BY <1>1, <1>2, <1>3 DEF TypeInv, TypeOK, DatabaseTypeOK, Execution
<1>5. OthersAtRest(e) /\ audit_events'[e] = "execution_requested"
  BY <1>1, <1>2, <1>4
  DEF OthersAtRest, AppendAudit, TypeInv, TypeOK, DatabaseTypeOK
<1>6. Told(e)'
  BY <1>2, <1>3, <1>4, <1>5
  DEF Told, RowStory, AttemptsLeft, EventsOf, QueuedEvents, Terminal
<1>7. Lifecycle!Request(e)
  BY <1>2, <1>4, <1>5, MappedRow, MappedKeep DEF Lifecycle!Request, Lifecycle!Move
<1> QED
  BY <1>5, <1>6, <1>7, StoriesKept DEF StoryGoal, Lifecycle!Next

(* A manual retry that finds the row as it has read it resets the attempts *)
(* and finished_at; with another reading the ORM would leave them alone.   *)
LEMMA RetryCommitStory ==
    ASSUME StoryInv, NEW o \in Operators, RetryCommit(o)
    PROVE  StoryGoal
<1>1. TypeInv /\ Fenced
  BY DEF StoryInv, FenceInv, TimingInv
<1>2. PICK e \in request[o].execution :
         /\ request[o].call = "retry"
         /\ executions' = [executions EXCEPT
               ![e] = RetryValues(@, request[o].row)]
         /\ AppendAudit(e, "execution_manual_retry_requested")
  BY DEF RetryCommit
<1> DEFINE row == executions[e]
<1>3. e \in Executions /\ row \in Execution
  BY <1>1 DEF ApiTypeOK, Requests, TypeInv, TypeOK, DatabaseTypeOK
<1>4. /\ row.status = "dead_letter" /\ request[o].row = LoadRow(row)
      /\ Told(e)
  BY <1>1, <1>2, <1>3 DEF Fenced, RequestFits, StoryInv
<1>5. row.finished_at = TRUE
  BY <1>3, <1>4 DEF Told, RowStory, Terminal, Execution
<1>6. /\ request[o].row.finished_at = TRUE
      /\ request[o].row.attempt_count = row.attempt_count
  BY <1>4, <1>5 DEF LoadRow
<1>7. executions'[e] = RetryValues(row, request[o].row)
  BY <1>1, <1>2, <1>3 DEF TypeInv, TypeOK, DatabaseTypeOK
<1>8. /\ executions'[e].current_step = row.current_step
      /\ executions'[e].attempt_count = 0
      /\ executions'[e].lease_token = row.lease_token
      /\ executions'[e].status = "queued"
  BY <1>3, <1>6, <1>7 DEF RetryValues, Assign, Execution
<1>9. executions'[e].finished_at = FALSE
  <2>1. Assign(row.finished_at, request[o].row.finished_at, FALSE) = FALSE
    BY <1>6 DEF Assign
  <2>2. executions'[e].finished_at =
           Assign(row.finished_at, request[o].row.finished_at, FALSE)
    BY <1>3, <1>7, Zenon DEF RetryValues, Execution
  <2> QED
    BY <2>1, <2>2
<1>10. OthersAtRest(e) /\ audit_events'[e] = "execution_manual_retry_requested"
  BY <1>1, <1>2, <1>3
  DEF OthersAtRest, AppendAudit, TypeInv, TypeOK, DatabaseTypeOK
<1>11. Told(e)'
  BY <1>4, <1>8, <1>9, <1>10, AttemptsAssumption
  DEF Told, RowStory, AttemptsLeft, EventsOf, QueuedEvents, Terminal
<1>12. Lifecycle!ManualRetry(e)
  <2>1. UNCHANGED [f \in Executions |-> executions[f].current_step]
    BY <1>8, <1>10 DEF OthersAtRest
  <2> QED
    BY <1>3, <1>4, <1>8, <1>10, <2>1, MappedRow
    DEF Lifecycle!ManualRetry, Lifecycle!Move
<1> QED
  BY <1>3, <1>10, <1>11, <1>12, StoriesKept DEF StoryGoal, Lifecycle!Next

(* Nobody cancels.                                                         *)
LEMMA NobodyCancels ==
    ASSUME OnlyRetries, TypeInv, NoCancellation, [Next]_vars
    PROVE  NoCancellation'
<1>1. request \in [Operators -> Requests]
  BY DEF TypeInv, TypeOK, ApiTypeOK
<1>2. CASE UNCHANGED request
  BY <1>2 DEF NoCancellation
<1>3. ASSUME NEW o \in Operators, OperatorCommits(o) PROVE NoCancellation'
  <2>1. request' = [request EXCEPT ![o] = NoRequest]
    BY <1>3 DEF OperatorCommits, Commit, RetryCommit, CancelCommit
  <2> QED
    BY <1>1, <2>1 DEF NoCancellation, NoRequest
<1>4. ASSUME NEW o \in Operators, NEW e \in Executions, OperatorReads(o, e)
      PROVE  NoCancellation'
  <2>1. RetryRead(o, e)
    BY <1>4 DEF OperatorReads, CancelRead, CallRead, OnlyRetries
  <2>2. request' = [request EXCEPT
           ![o] = [call |-> "retry", execution |-> {e},
                   row |-> LoadRow(executions[e])]]
    BY <2>1 DEF RetryRead, CallRead
  <2> QED
    BY <1>1, <2>2 DEF NoCancellation
<1>5. ASSUME NEW e \in Executions,
             ExecutionRequested(e) \/ LeaseExpires(e) \/ RetryBecomesDue(e)
      PROVE  UNCHANGED request
  BY <1>5 DEF ExecutionRequested, RequestExecution, LeaseExpires, RetryBecomesDue
<1>6. ASSUME NEW w \in Workers, WorkerRuns(w) \/ WorkerFault(w)
      PROVE  UNCHANGED request
  BY <1>6 DEF WorkerRuns, WorkerFault, Fault
<1>7. ASSUME NEW s \in Schedulers, SchedulerRuns(s) \/ SchedulerFault(s)
      PROVE  UNCHANGED request
  BY <1>7 DEF SchedulerRuns, SchedulerFault, Fault
<1> QED
  BY <1>2, <1>3, <1>4, <1>5, <1>6, <1>7 DEF Next, vars

-----------------------------------------------------------------------------
(* Every step keeps the stories and is one of the life cycle.              *)
LEMMA NextStory ==
    ASSUME StoryInv, [Next]_vars
    PROVE  StoryGoal
<1>1. ASSUME NEW w \in Workers, WorkerRuns(w) \/ WorkerFault(w)
      PROVE  StoryGoal
  BY <1>1, WorkerStory
<1>2. ASSUME NEW s \in Schedulers, SchedulerRuns(s) \/ SchedulerFault(s)
      PROVE  StoryGoal
  BY <1>2, SchedulerStory
<1>3. ASSUME NEW e \in Executions, ExecutionRequested(e)
      PROVE  StoryGoal
  BY <1>3, RequestStory
<1>4. ASSUME NEW e \in Executions, LeaseExpires(e) \/ RetryBecomesDue(e)
      PROVE  StoryGoal
  BY <1>4, RowsAtRest DEF LeaseExpires, RetryBecomesDue
<1>5. ASSUME NEW o \in Operators, OperatorCommits(o)
      PROVE  StoryGoal
  <2>1. RetryCommit(o)
    BY <1>5 DEF OperatorCommits, Commit, CancelCommit, StoryInv, NoCancellation
  <2> QED
    BY <2>1, RetryCommitStory
<1>6. ASSUME NEW o \in Operators, NEW e \in Executions, OperatorReads(o, e)
      PROVE  StoryGoal
  <2>1. UNCHANGED <<executions, audit_events>>
    BY <1>6 DEF OperatorReads, RetryRead, CancelRead, CallRead, dbVars
  <2> QED
    BY <2>1, RowsAtRest
<1>7. CASE UNCHANGED vars
  BY <1>7, RowsAtRest DEF vars, dbVars
<1> QED
  BY <1>1, <1>2, <1>3, <1>4, <1>5, <1>6, <1>7 DEF Next

(* StoryInv always holds.                                                  *)
LEMMA SpecStoryInv ==
    ASSUME ~Stalls, RetriesApart, OnlyRetries
    PROVE  Spec => []StoryInv
<1>1. Init => NoCancellation /\ \A e \in Executions : Told(e)
  BY AttemptsAssumption
  DEF Init, DatabaseInit, ApiInit, NoRequest, NoCancellation, NewExecution,
      Told, RowStory, AttemptsLeft, EventsOf, Terminal
<1>2. FenceInv /\ FenceInv' /\ StoryInv /\ [Next]_vars => StoryInv'
  <2> SUFFICES ASSUME FenceInv', StoryInv, [Next]_vars PROVE StoryInv'
    OBVIOUS
  <2>1. TypeInv /\ NoCancellation
    BY DEF StoryInv, FenceInv, TimingInv
  <2> QED
    BY <2>1, NextStory, NobodyCancels DEF StoryGoal, StoryInv
<1>3. FenceInv /\ NoCancellation /\ (\A e \in Executions : Told(e)) => StoryInv
  BY DEF StoryInv
<1> QED
  BY <1>1, <1>2, <1>3, SpecFenceInv, PTL DEF Spec

(* A worker past its renewal still holds the lease when it commits: the    *)
(* two transactions are as good as one, although the second checks nothing.*)
THEOREM LeaseGuardsCommit ==
    ASSUME ~Stalls, RetriesApart, OnlyRetries
    PROVE  Spec => []WriterHoldsLease
<1>1. StoryInv => WriterHoldsLease
  BY CommittingRow DEF WriterHoldsLease
<1> QED
  BY <1>1, SpecStoryInv, PTL

(* Status, newest audit event, finished_at and lease of a row agree.       *)
THEOREM RowTellsOneStory ==
    ASSUME ~Stalls, RetriesApart, OnlyRetries
    PROVE  Spec => []RowAgrees
<1>1. StoryInv => RowAgrees
  BY DEF StoryInv, Told, RowStory, RowAgrees
<1> QED
  BY <1>1, SpecStoryInv, PTL

(* The workers, schedulers and operators together implement the life cycle *)
(* of ExecutionStatus: no status is left but along its edges, no attempt   *)
(* is made beyond max_attempts, no step is completed twice.                *)
THEOREM PlatformImplementsLifecycle ==
    ASSUME ~Stalls, RetriesApart, OnlyRetries
    PROVE  Spec => ImplementsLifecycle
<1>1. Init => Lifecycle!Init
  BY DEF Init, DatabaseInit, NewExecution, Lifecycle!Init
<1>2. StoryInv /\ [Next]_vars => [Lifecycle!Next]_(Lifecycle!vars)
  BY NextStory DEF StoryGoal
<1> QED
  BY <1>1, <1>2, SpecStoryInv, PTL DEF Spec, ImplementsLifecycle, Lifecycle!Spec

(* Under these hypotheses no worker writes under a lease it has lost: the  *)
(* stall is what it takes.                                                 *)
THEOREM FencedWithoutStalls ==
    ASSUME ~Stalls, RetriesApart, OnlyRetries
    PROVE  Spec => FencedWrites
<1>1. ASSUME StoryInv, NEW w \in Workers, LeasedWrite(w)
      PROVE  RenewWhere(w)
  <2>1. worker[w].pc \in CommitPoints
    BY <1>1 DEF LeasedWrite, BeginStep, CommitStep, CommitSuccess, FailExecution,
                CommitPoints
  <2> QED
    BY <1>1, <2>1, CommittingRow DEF RenewWhere
<1>2. StoryInv /\ [Next]_vars =>
         [\A w \in Workers : LeasedWrite(w) => RenewWhere(w)]_vars
  BY <1>1
<1> QED
  BY <1>2, SpecStoryInv, PTL DEF Spec, FencedWrites

(* ... and a success is final: it takes two manual retries at a time, a    *)
(* late cancellation or a stalled worker to undo one.                      *)
THEOREM SuccessStays ==
    ASSUME ~Stalls, RetriesApart, OnlyRetries
    PROVE  Spec => SuccessIsFinal
<1>1. ASSUME StoryInv, [Next]_vars, NEW e \in Executions,
             executions[e].status = "succeeded"
      PROVE  executions'[e].status = "succeeded"
  <2> DEFINE status == [f \in Executions |-> executions[f].status]
  <2>1. status[e] = "succeeded" /\ status'[e] = executions'[e].status
    BY <1>1
  <2>2. Lifecycle!Next \/ UNCHANGED Lifecycle!vars
    BY <1>1, NextStory DEF StoryGoal
  <2>3. ASSUME NEW f \in Executions, NEW from, NEW to,
               Lifecycle!Move(f, from, to), "succeeded" \notin from
        PROVE  status'[e] = status[e]
    BY <2>1, <2>3 DEF Lifecycle!Move
  <2>4. CASE Lifecycle!Next
    <3>1. PICK f \in Executions :
             \/ Lifecycle!CompleteStep(f)
             \/ \E from, to : /\ Lifecycle!Move(f, from, to)
                             /\ "succeeded" \notin from
      <4>1. PICK f \in Executions :
               \/ Lifecycle!Request(f) \/ Lifecycle!Claim(f)
               \/ Lifecycle!CompleteStep(f) \/ Lifecycle!Succeed(f)
               \/ Lifecycle!ScheduleRetry(f) \/ Lifecycle!Requeue(f)
               \/ Lifecycle!RetryDue(f) \/ Lifecycle!DeadLetter(f)
               \/ Lifecycle!ManualRetry(f) \/ Lifecycle!Cancel(f)
        BY <2>4 DEF Lifecycle!Next
      <4>2. \/ Lifecycle!CompleteStep(f)
            \/ Lifecycle!Move(f, {"absent"}, "queued")
            \/ Lifecycle!Move(f, {"queued"}, "running")
            \/ Lifecycle!Move(f, {"running"}, "succeeded")
            \/ Lifecycle!Move(f, {"running"}, "retry_scheduled")
            \/ Lifecycle!Move(f, {"running"}, "queued")
            \/ Lifecycle!Move(f, {"retry_scheduled"}, "queued")
            \/ Lifecycle!Move(f, {"running"}, "dead_letter")
            \/ Lifecycle!Move(f, {"dead_letter"}, "queued")
            \/ Lifecycle!Move(f, {"queued", "retry_scheduled"}, "cancelled")
        BY <4>1, Zenon
        DEF Lifecycle!Request, Lifecycle!Claim, Lifecycle!Succeed,
            Lifecycle!ScheduleRetry, Lifecycle!Requeue, Lifecycle!RetryDue,
            Lifecycle!DeadLetter, Lifecycle!ManualRetry, Lifecycle!Cancel
      <4> QED
        BY <4>2
    <3>2. Lifecycle!CompleteStep(f) => status' = status
      BY DEF Lifecycle!CompleteStep
    <3> QED
      BY <2>1, <2>3, <3>1, <3>2
  <2>5. CASE UNCHANGED Lifecycle!vars
    BY <2>1, <2>5 DEF Lifecycle!vars
  <2> QED
    BY <2>1, <2>2, <2>4, <2>5
<1>2. StoryInv /\ [Next]_vars =>
         [\A e \in Executions :
            executions[e].status = "succeeded"
               => executions'[e].status = "succeeded"]_vars
  BY <1>1
<1> QED
  BY <1>2, SpecStoryInv, PTL DEF Spec, SuccessIsFinal
=============================================================================
