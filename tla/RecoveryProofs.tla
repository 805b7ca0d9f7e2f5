--------------------------- MODULE RecoveryProofs ---------------------------
(***************************************************************************)
(* No execution is stranded, for every number of processes, with stalled   *)
(* workers, racing operators, crashes and Redis errors; but not when a     *)
(* worker may die between BLPOP and the claim.                             *)
(***************************************************************************)
EXTENDS PlatformProofs

(* Outbox rows are numbered as they are added, and a publisher only holds  *)
(* rows that have been added: the next row is one that nobody is marking.  *)
Numbered(row, upTo) == row[2] <= upTo[row[1]]

RowNumbers ==
    /\ \A row \in outbox : Numbered(row, dispatches)
    /\ \A s \in Schedulers :
          \A row \in scheduler[s].publishing \cup scheduler[s].marking :
              Numbered(row, dispatches)

RecoveryInv == TypeInv /\ RowNumbers /\ NeverStranded

(* With no execution there is none to strand.                              *)
LEMMA InitRecoveryInv == Init => RecoveryInv
<1> SUFFICES ASSUME Init PROVE RecoveryInv
  OBVIOUS
<1>1. TypeInv
  BY InitTypeInv
<1>2. RowNumbers
  BY DEF Init, DatabaseInit, SchedulerInit, CycleStart, RowNumbers
<1>3. NeverStranded
  BY DEF Init, DatabaseInit, NewExecution, NeverStranded
<1> QED
  BY <1>1, <1>2, <1>3 DEF RecoveryInv

-----------------------------------------------------------------------------
(* Deliveries                                                              *)

(* A step that neither loses an unmarked row, nor an entry of the queue,   *)
(* nor a worker about to claim, loses no delivery.                         *)
LEMMA DeliveryKept ==
    ASSUME \A row \in outbox :
              (\A s \in Schedulers : row \notin scheduler[s].marking) =>
                 /\ row \in outbox'
                 /\ \A s \in Schedulers : row \notin scheduler'[s].marking,
           \A i \in 1 .. Len(queue) :
              \E j \in 1 .. Len(queue') : queue'[j] = queue[i],
           \A w \in Workers : worker[w].pc = "claim" =>
              /\ worker'[w].pc = "claim"
              /\ worker'[w].execution = worker[w].execution,
           NEW e, HasDelivery(e)
    PROVE  HasDelivery(e)'
<1>1. CASE InOutbox(e)
  BY <1>1 DEF InOutbox, HasDelivery
<1>2. CASE InQueue(e)
  BY <1>2 DEF InQueue, HasDelivery
<1>3. CASE BeingClaimed(e)
  BY <1>3 DEF BeingClaimed, HasDelivery
<1> QED
  BY <1>1, <1>2, <1>3 DEF HasDelivery

(* The rows are as they were, and so are the deliveries of queued ones.    *)
LEMMA RowsUnchanged ==
    ASSUME NeverStranded, UNCHANGED executions,
           \A e \in Executions :
              executions[e].status = "queued" /\ HasDelivery(e) => HasDelivery(e)'
    PROVE  NeverStranded'
BY DEF NeverStranded

(* One row is written, and deserves the status it gets.                    *)
LEMMA RowWritten ==
    ASSUME TypeInv, NeverStranded, NEW e \in Executions, NEW new,
           executions' = [executions EXCEPT ![e] = new],
           \A f \in Executions \ {e} : HasDelivery(f) => HasDelivery(f)',
           new.status = "queued" => HasDelivery(e)',
           new.status = "running" => new.lease_token # 0,
           new.status = "retry_scheduled" => new.next_retry_at
    PROVE  NeverStranded'
<1>1. \A f \in Executions : executions'[f] = IF f = e THEN new ELSE executions[f]
  BY DEF TypeInv, TypeOK, DatabaseTypeOK
<1> SUFFICES ASSUME NEW f \in Executions
             PROVE  /\ executions'[f].status = "queued" => HasDelivery(f)'
                    /\ executions'[f].status = "running" =>
                          executions'[f].lease_token # 0
                    /\ executions'[f].status = "retry_scheduled" =>
                          executions'[f].next_retry_at
  BY DEF NeverStranded
<1>2. CASE f = e
  BY <1>1, <1>2
<1>3. CASE f # e
  BY <1>1, <1>3 DEF NeverStranded
<1> QED
  BY <1>2, <1>3

(* A transaction that adds a dispatch: the execution has a delivery, and   *)
(* the rows stay numbered.                                                 *)
LEMMA DispatchAdded ==
    ASSUME TypeInv, RowNumbers, NEW e \in Executions, AddDispatch(e),
           \A s \in Schedulers :
              /\ scheduler'[s].publishing \subseteq scheduler[s].publishing
              /\ scheduler'[s].marking \subseteq scheduler[s].marking
    PROVE  HasDelivery(e)' /\ RowNumbers'
<1> DEFINE k == dispatches[e] + 1
           new == <<e, k>>
<1>1. /\ outbox' = outbox \cup {new}
      /\ dispatches' = [dispatches EXCEPT ![e] = k]
  BY DEF AddDispatch
<1>2. dispatches \in [Executions -> Nat]
  BY DEF TypeInv, TypeOK, DatabaseTypeOK
<1>3. \A row \in OutboxRow : Numbered(row, dispatches) => row # new /\ Numbered(row, dispatches')
  BY <1>1, <1>2 DEF Numbered, OutboxRow
<1>4. Numbered(new, dispatches')
  BY <1>1, <1>2 DEF Numbered
<1>5. outbox \subseteq OutboxRow
  BY DEF TypeInv, TypeOK, DatabaseTypeOK
<1>6. \A s \in Schedulers : /\ scheduler[s].publishing \subseteq OutboxRow
                            /\ scheduler[s].marking \subseteq OutboxRow
  BY DEF TypeInv, TypeOK, SchedulerTypeOK, SchedulerState
<1>7. RowNumbers'
  <2>1. \A row \in outbox' : Numbered(row, dispatches')
    BY <1>1, <1>3, <1>4, <1>5 DEF RowNumbers
  <2>2. \A s \in Schedulers :
           \A row \in scheduler'[s].publishing \cup scheduler'[s].marking :
              Numbered(row, dispatches')
    BY <1>3, <1>6 DEF RowNumbers
  <2> QED
    BY <2>1, <2>2 DEF RowNumbers
<1>8. \A s \in Schedulers : new \notin scheduler'[s].marking
  BY <1>3, <1>6 DEF RowNumbers
<1>9. InOutbox(e)'
  BY <1>1, <1>8 DEF InOutbox
<1> QED
  BY <1>7, <1>9 DEF HasDelivery

-----------------------------------------------------------------------------
(* Workers                                                                 *)

(* A worker that is not about to claim moves, and loses no delivery.       *)
LEMMA WorkerKeepsDelivery ==
    ASSUME TypeInv, NEW w \in Workers, worker[w].pc # "claim",
           \A v \in Workers : v # w => worker'[v] = worker[v],
           UNCHANGED <<outbox, queue, scheduler>>,
           NEW e, HasDelivery(e)
    PROVE  HasDelivery(e)'
<1>1. \A v \in Workers : worker[v].pc = "claim" =>
         /\ worker'[v].pc = "claim"
         /\ worker'[v].execution = worker[v].execution
  OBVIOUS
<1> QED
  BY <1>1, DeliveryKept

(* The outbox and the publishers are left alone.                           *)
LEMMA RowNumbersKept ==
    ASSUME RowNumbers, UNCHANGED <<outbox, dispatches, scheduler>>
    PROVE  RowNumbers'
BY DEF RowNumbers, Numbered

(* A popped delivery is in the hands of a claiming worker.                 *)
LEMMA DequeueRecovers ==
    ASSUME RecoveryInv, NEW w \in Workers, Dequeue(w), UNCHANGED scheduler
    PROVE  RowNumbers' /\ NeverStranded'
<1>1. PICK e \in Executions :
         /\ dequeue(e)
         /\ worker' = [worker EXCEPT ![w].pc = "claim", ![w].execution = e]
  BY DEF Dequeue
<1>2. UNCHANGED <<executions, outbox, dispatches>>
  BY DEF Dequeue, dbVars, dispatchVars
<1>3. /\ worker'[w].pc = "claim" /\ worker'[w].execution = e
      /\ \A v \in Workers : v # w => worker'[v] = worker[v]
  BY <1>1 DEF RecoveryInv, TypeInv, WorkerInv, WorkerTypeOK, WorkerState
<1>4. worker[w].pc = "idle"
  BY DEF Dequeue
<1>5. ASSUME NEW f, HasDelivery(f) PROVE HasDelivery(f)'
  <2>1. CASE InOutbox(f)
    BY <1>2, <2>1 DEF InOutbox, HasDelivery
  <2>2. CASE BeingClaimed(f)
    BY <1>3, <1>4, <2>2 DEF BeingClaimed, HasDelivery
  <2>3. CASE InQueue(f)
    <3>1. PICK i \in 1 .. Len(queue) : queue[i] = f
      BY <2>3 DEF InQueue
    <3>2. CASE i = 1
      <4>1. f = e
        BY <1>1, <3>1, <3>2 DEF dequeue, RecoveryInv, TypeInv, TypeOK
      <4> QED
        BY <1>3, <4>1 DEF BeingClaimed, HasDelivery
    <3>3. CASE i # 1
      <4>1. queue \in Seq(Executions)
        BY DEF RecoveryInv, TypeInv, TypeOK
      <4>2. i - 1 \in 1 .. Len(queue') /\ queue'[i - 1] = f
        BY <1>1, <3>1, <3>3, <4>1 DEF dequeue
      <4> QED
        BY <4>2 DEF InQueue, HasDelivery
    <3> QED
      BY <3>2, <3>3
  <2> QED
    BY <1>5, <2>1, <2>2, <2>3 DEF HasDelivery
<1> QED
  BY <1>2, <1>5, RowNumbersKept, RowsUnchanged DEF RecoveryInv

(* A claimed execution is running under a lease.                           *)
LEMMA ClaimRecovers ==
    ASSUME RecoveryInv, NEW w \in Workers, Claim(w), UNCHANGED scheduler
    PROVE  RowNumbers' /\ NeverStranded'
<1>1. PICK e \in Executions : e = worker[w].execution
  BY WorkerFacts DEF RecoveryInv, Claim
<1> DEFINE token == tokens[e] + 1
           new == ClaimValues(executions[e], token)
<1>2. UNCHANGED <<outbox, dispatches, queue>>
  BY DEF Claim, dispatchVars
<1>3. executions' = [executions EXCEPT ![e] = new]
  BY <1>1 DEF Claim
<1>4. token # 0 /\ token \in Nat /\ executions[e] \in Execution
  BY DEF RecoveryInv, TypeInv, TypeOK, DatabaseTypeOK
<1>5. new.status = "running" /\ new.lease_token # 0
  BY <1>4 DEF ClaimValues, Execution
<1>6. \A v \in Workers : v # w => worker'[v] = worker[v]
  BY DEF Claim, RecoveryInv, TypeInv, WorkerInv, WorkerTypeOK
<1>7. ASSUME NEW f \in Executions \ {e}, HasDelivery(f) PROVE HasDelivery(f)'
  <2>1. CASE InOutbox(f)
    BY <1>2, <2>1 DEF InOutbox, HasDelivery
  <2>2. CASE InQueue(f)
    BY <1>2, <2>2 DEF InQueue, HasDelivery
  <2>3. CASE BeingClaimed(f)
    BY <1>1, <1>6, <1>7, <2>3 DEF BeingClaimed, HasDelivery
  <2> QED
    BY <1>7, <2>1, <2>2, <2>3 DEF HasDelivery
<1> HIDE DEF new
<1> QED
  BY <1>2, <1>3, <1>5, <1>7, RowNumbersKept, RowWritten DEF RecoveryInv

(* A delivery is dropped only when its execution is not queued.            *)
LEMMA ClaimMissRecovers ==
    ASSUME RecoveryInv, NEW w \in Workers, ClaimMiss(w), UNCHANGED scheduler
    PROVE  RowNumbers' /\ NeverStranded'
<1>1. UNCHANGED <<executions, outbox, dispatches, queue>>
  BY DEF ClaimMiss, dbVars, dispatchVars
<1>2. \A v \in Workers : v # w => worker'[v] = worker[v]
  BY DEF ClaimMiss, RecoveryInv, TypeInv, WorkerInv, WorkerTypeOK
<1>3. ASSUME NEW f \in Executions, executions[f].status = "queued", HasDelivery(f)
      PROVE  HasDelivery(f)'
  <2>1. CASE InOutbox(f)
    BY <1>1, <2>1 DEF InOutbox, HasDelivery
  <2>2. CASE InQueue(f)
    BY <1>1, <2>2 DEF InQueue, HasDelivery
  <2>3. CASE BeingClaimed(f)
    BY <1>2, <1>3, <2>3 DEF BeingClaimed, HasDelivery, ClaimMiss, ClaimWhere
  <2> QED
    BY <1>3, <2>1, <2>2, <2>3 DEF HasDelivery
<1> QED
  BY <1>1, <1>3, RowNumbersKept, RowsUnchanged DEF RecoveryInv

(* The worker moves, and the rows of executions stay as they are.          *)
LEMMA WorkerMovesRecovers ==
    ASSUME RecoveryInv, NEW w \in Workers, worker[w].pc # "claim",
           \A v \in Workers : v # w => worker'[v] = worker[v],
           UNCHANGED <<executions, outbox, dispatches, queue, scheduler>>
    PROVE  RowNumbers' /\ NeverStranded'
BY WorkerKeepsDelivery, RowNumbersKept, RowsUnchanged DEF RecoveryInv

(* The worker commits a row that is not queued.                            *)
LEMMA WorkerWritesRecovers ==
    ASSUME RecoveryInv, NEW w \in Workers, worker[w].pc # "claim",
           \A v \in Workers : v # w => worker'[v] = worker[v],
           UNCHANGED <<outbox, dispatches, queue, scheduler>>,
           NEW e \in Executions, NEW new,
           executions' = [executions EXCEPT ![e] = new],
           new.status = "queued" => HasDelivery(e),
           new.status = "running" => new.lease_token # 0,
           new.status = "retry_scheduled" => new.next_retry_at
    PROVE  RowNumbers' /\ NeverStranded'
<1>1. \A f \in Executions : HasDelivery(f) => HasDelivery(f)'
  BY WorkerKeepsDelivery DEF RecoveryInv
<1> QED
  BY <1>1, RowNumbersKept, RowWritten DEF RecoveryInv

(* A completed step changes neither status nor lease.                      *)
LEMMA CommitStepRecovers ==
    ASSUME RecoveryInv, NEW w \in Workers, CommitStep(w), UNCHANGED scheduler
    PROVE  RowNumbers' /\ NeverStranded'
<1>1. PICK e \in Executions : e = worker[w].execution
  BY WorkerFacts DEF RecoveryInv, CommitStep
<1> DEFINE row == executions[e]
<1> DEFINE next == worker[w].index + 1
           payload == Assign(row.output_payload, worker[w].accumulated_output,
                             worker[w].accumulated_output \cup {worker[w].index})
<1>2. executions' = [executions EXCEPT ![e].current_step = next,
                                       ![e].output_payload = payload]
  BY <1>1 DEF CommitStep, RecoveryInv, TypeInv, TypeOK, DatabaseTypeOK, Execution
<1> DEFINE new == [row EXCEPT !.current_step = next, !.output_payload = payload]
<1>3. row \in Execution
  BY DEF RecoveryInv, TypeInv, TypeOK, DatabaseTypeOK
<1>4. executions' = [executions EXCEPT ![e] = new]
  BY <1>2 DEF RecoveryInv, TypeInv, TypeOK, DatabaseTypeOK
<1>5. /\ new.status = row.status /\ new.lease_token = row.lease_token
      /\ new.next_retry_at = row.next_retry_at
  BY <1>3, Zenon DEF Execution
<1>6. \A v \in Workers : v # w => worker'[v] = worker[v]
  BY DEF CommitStep, RecoveryInv, TypeInv, WorkerInv, WorkerTypeOK
<1> HIDE DEF new
<1>7. /\ new.status = "queued" => HasDelivery(e)
      /\ new.status = "running" => new.lease_token # 0
      /\ new.status = "retry_scheduled" => new.next_retry_at
  BY <1>5 DEF RecoveryInv, NeverStranded
<1> QED
  BY <1>4, <1>6, <1>7, WorkerWritesRecovers DEF CommitStep, dispatchVars

(* A success is terminal.                                                  *)
LEMMA CommitSuccessRecovers ==
    ASSUME RecoveryInv, NEW w \in Workers, CommitSuccess(w), UNCHANGED scheduler
    PROVE  RowNumbers' /\ NeverStranded'
<1>1. PICK e \in Executions : e = worker[w].execution
  BY WorkerFacts DEF RecoveryInv, CommitSuccess
<1> DEFINE new == SuccessValues(executions[e], worker[w].last_error_code)
<1>2. executions[e] \in Execution
  BY DEF RecoveryInv, TypeInv, TypeOK, DatabaseTypeOK
<1>3. executions' = [executions EXCEPT ![e] = new]
  BY <1>1 DEF CommitSuccess
<1>4. new.status = "succeeded"
  BY <1>2, Zenon DEF SuccessValues, Execution
<1>5. \A v \in Workers : v # w => worker'[v] = worker[v]
  BY DEF CommitSuccess, RecoveryInv, TypeInv, WorkerInv, WorkerTypeOK
<1> HIDE DEF new
<1> QED
  BY <1>3, <1>4, <1>5, WorkerWritesRecovers DEF CommitSuccess, dispatchVars

(* A failure is terminal or has a due time.                                *)
LEMMA FailExecutionRecovers ==
    ASSUME RecoveryInv, NEW w \in Workers, FailExecution(w), UNCHANGED scheduler
    PROVE  RowNumbers' /\ NeverStranded'
<1>1. PICK e \in Executions : e = worker[w].execution
  BY WorkerFacts DEF RecoveryInv, FailExecution
<1> DEFINE failed == FailureValues(executions[e], worker[w].last_error_code,
                                   ErrorCodeOf(worker[w].outcome))
           retried == [failed EXCEPT !.status = "retry_scheduled",
                                     !.next_retry_at = TRUE]
           dead == [failed EXCEPT !.status = "dead_letter", !.finished_at = TRUE]
<1>2. executions' = [executions EXCEPT ![e] = retried]
      \/ executions' = [executions EXCEPT ![e] = dead]
  BY <1>1 DEF FailExecution
<1>3. failed \in Execution
  <2>1. executions[e] \in Execution /\ worker[w].last_error_code \in ErrorCode
    BY WorkerFacts
    DEF RecoveryInv, TypeInv, TypeOK, DatabaseTypeOK, WorkerState
  <2>2. ErrorCodeOf(worker[w].outcome) \in ErrorCode
    BY DEF ErrorCodeOf, ErrorCode
  <2> QED
    BY <2>1, <2>2, FailureValuesType
<1> HIDE DEF failed
<1>4. /\ retried.status = "retry_scheduled" /\ retried.next_retry_at
      /\ dead.status = "dead_letter"
  BY <1>3, Zenon DEF Execution
<1>5. \A v \in Workers : v # w => worker'[v] = worker[v]
  BY DEF FailExecution, RecoveryInv, TypeInv, WorkerInv, WorkerTypeOK
<1>6. worker[w].pc # "claim" /\ UNCHANGED <<outbox, dispatches, queue, scheduler>>
  BY DEF FailExecution, dispatchVars
<1> HIDE DEF retried, dead
<1>7. CASE executions' = [executions EXCEPT ![e] = retried]
  BY <1>4, <1>5, <1>6, <1>7, WorkerWritesRecovers
<1>8. CASE executions' = [executions EXCEPT ![e] = dead]
  BY <1>4, <1>5, <1>6, <1>8, WorkerWritesRecovers
<1> QED
  BY <1>2, <1>7, <1>8

(* The other steps of a worker write no row of executions.                 *)
LEMMA OtherWorkerStep ==
    ASSUME TypeInv, NEW w \in Workers,
           \/ Load(w) \/ RenewBefore(w) \/ RenewBeforeInvalid(w)
           \/ RenewAfter(w) \/ RenewFinal(w) \/ RenewMiss(w) \/ BeginStep(w)
           \/ BeginStepConflict(w) \/ RunStep(w)
    PROVE  /\ worker[w].pc # "claim"
           /\ \A v \in Workers : v # w => worker'[v] = worker[v]
           /\ UNCHANGED <<executions, outbox, dispatches, queue>>
<1> USE DEF TypeInv, WorkerInv, WorkerTypeOK, dbVars, dispatchVars
<1>1. CASE Load(w) \/ RunStep(w)
  BY <1>1 DEF Load, RunStep
<1>2. CASE RenewMiss(w)
  BY <1>2 DEF RenewMiss, RenewPoints
<1>3. CASE BeginStep(w) \/ BeginStepConflict(w)
  BY <1>3 DEF BeginStep, BeginStepConflict
<1>4. CASE RenewBefore(w) \/ RenewAfter(w) \/ RenewFinal(w)
  BY <1>4 DEF RenewBefore, RenewAfter, RenewFinal, Renewed
<1>5. CASE RenewBeforeInvalid(w)
  BY <1>5 DEF RenewBeforeInvalid
<1> QED
  BY <1>1, <1>2, <1>3, <1>4, <1>5

(* No step of a worker strands an execution.                               *)
LEMMA WorkerRecovers ==
    ASSUME RecoveryInv, NEW w \in Workers, WorkerRuns(w)
    PROVE  RowNumbers' /\ NeverStranded'
<1>1. UNCHANGED scheduler
  BY DEF WorkerRuns
<1>2. CASE \/ Load(w) \/ RenewBefore(w) \/ RenewBeforeInvalid(w)
           \/ RenewAfter(w) \/ RenewFinal(w) \/ RenewMiss(w) \/ BeginStep(w)
           \/ BeginStepConflict(w) \/ RunStep(w)
  BY <1>1, <1>2, OtherWorkerStep, WorkerMovesRecovers DEF RecoveryInv
<1> QED
  BY <1>1, <1>2, DequeueRecovers, ClaimRecovers, ClaimMissRecovers,
     CommitStepRecovers, CommitSuccessRecovers, FailExecutionRecovers
  DEF WorkerRuns, WorkerStep

-----------------------------------------------------------------------------
(* Schedulers                                                              *)

(* No publisher takes up a new row.                                        *)
PublishersShrink ==
    \A s \in Schedulers :
        /\ scheduler'[s].publishing \subseteq scheduler[s].publishing
        /\ scheduler'[s].marking \subseteq scheduler[s].marking

(* The scheduler is between batches, or inside one that is not of rows.    *)
LEMMA SchedulerMovesRecovers ==
    ASSUME RecoveryInv, PublishersShrink,
           UNCHANGED <<executions, outbox, dispatches, queue, worker>>
    PROVE  RowNumbers' /\ NeverStranded'
<1>1. \A e \in Executions : HasDelivery(e) => HasDelivery(e)'
  BY DeliveryKept DEF PublishersShrink
<1>2. RowNumbers'
  BY DEF RecoveryInv, RowNumbers, Numbered, PublishersShrink
<1> QED
  BY <1>1, <1>2, RowsUnchanged DEF RecoveryInv

(* A row goes back to the queue, with a dispatch.                          *)
LEMMA RequeueRecovers ==
    ASSUME RecoveryInv, PublishersShrink, NEW e \in Executions, NEW new,
           executions' = [executions EXCEPT ![e] = new],
           new.status = "queued", AddDispatch(e), UNCHANGED <<queue, worker>>
    PROVE  RowNumbers' /\ NeverStranded'
<1>1. HasDelivery(e)' /\ RowNumbers'
  BY DispatchAdded DEF RecoveryInv, PublishersShrink
<1>2. outbox \subseteq outbox'
  BY DEF AddDispatch
<1>3. \A f \in Executions : HasDelivery(f) => HasDelivery(f)'
  BY <1>2, DeliveryKept DEF PublishersShrink
<1> QED
  BY <1>1, <1>3, RowWritten DEF RecoveryInv

(* A scheduler moves to another point with another batch of executions.    *)
LEMMA BatchShrinks ==
    ASSUME TypeInv, NEW s \in Schedulers, NEW point, NEW batch,
           \/ scheduler' = [scheduler EXCEPT ![s].pc = point, ![s].reaping = batch]
           \/ scheduler' = [scheduler EXCEPT ![s].pc = point, ![s].retrying = batch]
    PROVE  PublishersShrink
<1>1. scheduler \in [Schedulers -> SchedulerState]
  BY DEF TypeInv, TypeOK, SchedulerTypeOK
<1> DEFINE r == [scheduler[s] EXCEPT !.pc = point, !.reaping = batch]
           t == [scheduler[s] EXCEPT !.pc = point, !.retrying = batch]
<1>2. /\ r.publishing = scheduler[s].publishing /\ r.marking = scheduler[s].marking
      /\ t.publishing = scheduler[s].publishing /\ t.marking = scheduler[s].marking
  <2>1. scheduler[s] \in SchedulerState
    BY <1>1
  <2>2. r.publishing = scheduler[s].publishing /\ r.marking = scheduler[s].marking
    BY <2>1 DEF SchedulerState
  <2>3. t.publishing = scheduler[s].publishing /\ t.marking = scheduler[s].marking
    BY <2>1 DEF SchedulerState
  <2> QED
    BY <2>2, <2>3
<1>3. \/ scheduler' = [scheduler EXCEPT ![s] = r]
      \/ scheduler' = [scheduler EXCEPT ![s] = t]
  BY <1>1
<1> HIDE DEF r, t
<1>4. \A u \in Schedulers : u # s => scheduler'[u] = scheduler[u]
  BY <1>1, <1>3
<1>5. scheduler'[s] = r \/ scheduler'[s] = t
  BY <1>1, <1>3
<1> QED
  BY <1>2, <1>4, <1>5 DEF PublishersShrink

(* What a scheduler does to its local state outside of publishing.         *)
LEMMA ReapShrinks ==
    ASSUME TypeInv, NEW s \in Schedulers,
           \/ ReapSelect(s) \/ ReapMiss(s) \/ ReapReload(s) \/ RetrySelect(s)
           \/ SchedulerCrash(s)
           \/ \E entry \in scheduler[s].reaping : ReapedEntry(s, entry)
           \/ \E e \in scheduler[s].retrying : PreparedRetry(s, e)
    PROVE  PublishersShrink
<1>1. CASE ReapSelect(s)
  BY <1>1, BatchShrinks, Zenon DEF ReapSelect
<1>2. CASE ReapMiss(s)
  BY <1>2, BatchShrinks, Zenon DEF ReapMiss
<1>3. CASE ReapReload(s)
  <2>1. \E point, batch :
           scheduler' = [scheduler EXCEPT ![s].pc = point, ![s].reaping = batch]
    BY <1>3, Zenon DEF ReapReload
  <2> QED
    BY <2>1, BatchShrinks, Zenon
<1>4. CASE RetrySelect(s)
  BY <1>4, BatchShrinks, Zenon DEF RetrySelect
<1>5. CASE SchedulerCrash(s)
  BY <1>5 DEF SchedulerCrash, CycleStart, PublishersShrink, TypeInv, TypeOK,
              SchedulerTypeOK
<1>6. CASE \E entry \in scheduler[s].reaping : ReapedEntry(s, entry)
  BY <1>6, BatchShrinks, Zenon DEF ReapedEntry
<1>7. CASE \E e \in scheduler[s].retrying : PreparedRetry(s, e)
  BY <1>7, BatchShrinks, Zenon DEF PreparedRetry
<1> QED
  BY <1>1, <1>2, <1>3, <1>4, <1>5, <1>6, <1>7

(* A reaped execution is terminal or has a new outbox row.                 *)
LEMMA ReapRecovers ==
    ASSUME RecoveryInv, NEW s \in Schedulers, UNCHANGED worker,
           ReapRequeue(s) \/ ReapDeadLetter(s)
    PROVE  RowNumbers' /\ NeverStranded'
<1>1. CASE ReapRequeue(s)
  <2>1. PICK entry \in scheduler[s].reaping :
           /\ executions' = [executions EXCEPT
                 ![entry.execution] = ReapValues(@, TRUE)]
           /\ AddDispatch(entry.execution)
           /\ ReapedEntry(s, entry)
           /\ UNCHANGED queue
    BY <1>1 DEF ReapRequeue
  <2> DEFINE e == entry.execution
             new == ReapValues(executions[e], TRUE)
  <2>2. e \in Executions /\ executions[e] \in Execution
    BY DEF RecoveryInv, TypeInv, TypeOK, SchedulerTypeOK, SchedulerState,
           ReapEntry, DatabaseTypeOK
  <2>3. new.status = "queued"
    BY <2>2, Zenon DEF ReapValues, Execution
  <2>4. PublishersShrink
    BY <2>1, ReapShrinks DEF RecoveryInv
  <2>5. executions' = [executions EXCEPT ![e] = new]
    BY <2>1
  <2> HIDE DEF new
  <2> QED
    BY <2>1, <2>2, <2>3, <2>4, <2>5, RequeueRecovers
<1>2. CASE ReapDeadLetter(s)
  <2>1. PICK entry \in scheduler[s].reaping :
           /\ executions' = [executions EXCEPT
                 ![entry.execution] = ReapValues(@, FALSE)]
           /\ ReapedEntry(s, entry)
           /\ UNCHANGED <<outbox, dispatches, queue>>
    BY <1>2 DEF ReapDeadLetter, dispatchVars
  <2> DEFINE e == entry.execution
             new == ReapValues(executions[e], FALSE)
  <2>2. e \in Executions /\ executions[e] \in Execution
    BY DEF RecoveryInv, TypeInv, TypeOK, SchedulerTypeOK, SchedulerState,
           ReapEntry, DatabaseTypeOK
  <2>3. new.status = "dead_letter"
    BY <2>2, Zenon DEF ReapValues, Execution
  <2>4. PublishersShrink
    BY <2>1, ReapShrinks DEF RecoveryInv
  <2>5. executions' = [executions EXCEPT ![e] = new]
    BY <2>1
  <2>6. \A f \in Executions : HasDelivery(f) => HasDelivery(f)'
    BY <2>1, <2>4, DeliveryKept DEF PublishersShrink
  <2>7. RowNumbers'
    BY <2>1, <2>4 DEF RecoveryInv, RowNumbers, Numbered, PublishersShrink
  <2> HIDE DEF new
  <2> QED
    BY <2>2, <2>3, <2>5, <2>6, <2>7, RowWritten DEF RecoveryInv
<1> QED
  BY <1>1, <1>2

(* A requeued retry has a new outbox row.                                  *)
LEMMA PrepareRetryRecovers ==
    ASSUME RecoveryInv, NEW s \in Schedulers, UNCHANGED worker, PrepareRetry(s)
    PROVE  RowNumbers' /\ NeverStranded'
<1>1. PICK e \in scheduler[s].retrying :
         /\ PreparedRetry(s, e)
         /\ executions' = [executions EXCEPT ![e].status = "queued",
                                             ![e].next_retry_at = FALSE]
         /\ AddDispatch(e)
         /\ UNCHANGED queue
  BY DEF PrepareRetry
<1> DEFINE new == [executions[e] EXCEPT !.status = "queued",
                                        !.next_retry_at = FALSE]
<1>2. e \in Executions /\ executions[e] \in Execution
  BY DEF RecoveryInv, TypeInv, TypeOK, SchedulerTypeOK, SchedulerState,
         DatabaseTypeOK
<1>3. new.status = "queued"
  BY <1>2, Zenon DEF Execution
<1>4. executions' = [executions EXCEPT ![e] = new]
  BY <1>1 DEF RecoveryInv, TypeInv, TypeOK, DatabaseTypeOK
<1>5. PublishersShrink
  BY <1>1, ReapShrinks DEF RecoveryInv
<1> HIDE DEF new
<1> QED
  BY <1>1, <1>2, <1>3, <1>4, <1>5, RequeueRecovers

(* A batch of the outbox holds rows that have been added.                  *)
LEMMA PublishSelectRecovers ==
    ASSUME RecoveryInv, NEW s \in Schedulers, UNCHANGED worker, PublishSelect(s)
    PROVE  RowNumbers' /\ NeverStranded'
<1>1. PICK B \in Batches(outbox) :
         scheduler' = [scheduler EXCEPT
             ![s].pc = After(B, "publish", "reap_select"),
             ![s].publishing = B]
  BY DEF PublishSelect
<1>2. UNCHANGED <<executions, outbox, dispatches, queue>>
  BY DEF PublishSelect, dbVars, dispatchVars
<1>3. B \subseteq outbox
  BY BatchSubset
<1>4. scheduler \in [Schedulers -> SchedulerState]
  BY DEF RecoveryInv, TypeInv, TypeOK, SchedulerTypeOK
<1> DEFINE new == [scheduler[s] EXCEPT
                      !.pc = After(B, "publish", "reap_select"),
                      !.publishing = B]
<1>5. new.publishing = B /\ new.marking = scheduler[s].marking
  BY <1>4, Zenon DEF SchedulerState
<1>6. scheduler' = [scheduler EXCEPT ![s] = new]
  BY <1>1, <1>4
<1> HIDE DEF new
<1>7. \A u \in Schedulers : scheduler'[u] = IF u = s THEN new ELSE scheduler[u]
  BY <1>4, <1>6
<1>8. RowNumbers'
  BY <1>2, <1>3, <1>5, <1>7 DEF RecoveryInv, RowNumbers, Numbered
<1>9. \A u \in Schedulers : scheduler'[u].marking = scheduler[u].marking
  BY <1>5, <1>7
<1>10. \A e \in Executions : HasDelivery(e) => HasDelivery(e)'
  BY <1>2, <1>9, DeliveryKept
<1> QED
  BY <1>2, <1>8, <1>10, RowsUnchanged DEF RecoveryInv

(* A row about to be marked is one whose identifier is in the queue.       *)
LEMMA PublishRecovers ==
    ASSUME RecoveryInv, NEW s \in Schedulers, UNCHANGED worker, Publish(s)
    PROVE  RowNumbers' /\ NeverStranded'
<1>1. PICK record \in scheduler[s].publishing :
         /\ enqueue(record[1])
         /\ scheduler' = [scheduler EXCEPT ![s].pc = "mark_published",
                                           ![s].publishing = @ \ {record},
                                           ![s].marking = {record}]
  BY DEF Publish
<1>2. UNCHANGED <<executions, outbox, dispatches>>
  BY DEF Publish, dbVars, dispatchVars
<1>3. scheduler \in [Schedulers -> SchedulerState]
  BY DEF RecoveryInv, TypeInv, TypeOK, SchedulerTypeOK
<1> DEFINE rest == scheduler[s].publishing \ {record}
           new == [scheduler[s] EXCEPT !.pc = "mark_published",
                                       !.publishing = rest,
                                       !.marking = {record}]
<1>4. new.publishing = rest /\ new.marking = {record}
  BY <1>3, Zenon DEF SchedulerState
<1>5. scheduler' = [scheduler EXCEPT ![s] = new]
  BY <1>1, <1>3
<1> HIDE DEF new
<1>6. \A u \in Schedulers : scheduler'[u] = IF u = s THEN new ELSE scheduler[u]
  BY <1>3, <1>5
<1>7. RowNumbers'
  BY <1>2, <1>4, <1>6 DEF RecoveryInv, RowNumbers, Numbered
<1>8. queue \in Seq(Executions) /\ record[1] \in Executions
  BY PublishingType DEF RecoveryInv, TypeInv, TypeOK
<1>9. /\ \A i \in 1 .. Len(queue) : i \in 1 .. Len(queue') /\ queue'[i] = queue[i]
      /\ Len(queue) + 1 \in 1 .. Len(queue')
      /\ queue'[Len(queue) + 1] = record[1]
  BY <1>1, <1>8 DEF enqueue
<1>10. ASSUME NEW e \in Executions, HasDelivery(e) PROVE HasDelivery(e)'
  <2>1. CASE InQueue(e)
    BY <1>9, <2>1 DEF InQueue, HasDelivery
  <2>2. CASE BeingClaimed(e)
    BY <2>2 DEF BeingClaimed, HasDelivery
  <2>3. CASE InOutbox(e)
    <3>1. PICK row \in outbox :
             /\ row[1] = e
             /\ \A u \in Schedulers : row \notin scheduler[u].marking
      BY <2>3 DEF InOutbox
    <3>2. CASE row = record
      BY <1>9, <3>1, <3>2 DEF InQueue, HasDelivery
    <3>3. CASE row # record
      <4>1. \A u \in Schedulers : row \notin scheduler'[u].marking
        BY <1>4, <1>6, <3>1, <3>3
      <4> QED
        BY <1>2, <3>1, <4>1 DEF InOutbox, HasDelivery
    <3> QED
      BY <3>2, <3>3
  <2> QED
    BY <1>10, <2>1, <2>2, <2>3 DEF HasDelivery
<1> QED
  BY <1>2, <1>7, <1>10, RowsUnchanged DEF RecoveryInv

(* A row that could not be published stays in the outbox.                  *)
LEMMA PublishFailsRecovers ==
    ASSUME RecoveryInv, NEW s \in Schedulers, UNCHANGED worker, PublishFails(s)
    PROVE  RowNumbers' /\ NeverStranded'
<1>1. PICK record \in scheduler[s].publishing :
         LET rest == scheduler[s].publishing \ {record}
         IN  /\ UNCHANGED queue \/ enqueue(record[1])
             /\ scheduler' = [scheduler EXCEPT
                   ![s].pc = After(rest, "publish", "reap_select"),
                   ![s].publishing = rest]
  BY DEF PublishFails
<1> DEFINE rest == scheduler[s].publishing \ {record}
           new == [scheduler[s] EXCEPT
                      !.pc = After(rest, "publish", "reap_select"),
                      !.publishing = rest]
<1>2. UNCHANGED <<executions, outbox, dispatches>>
  BY DEF PublishFails, dbVars, dispatchVars
<1>3. scheduler \in [Schedulers -> SchedulerState]
  BY DEF RecoveryInv, TypeInv, TypeOK, SchedulerTypeOK
<1>4. new.publishing = rest /\ new.marking = scheduler[s].marking
  BY <1>3, Zenon DEF SchedulerState
<1>5. scheduler' = [scheduler EXCEPT ![s] = new]
  BY <1>1, <1>3
<1> HIDE DEF new
<1>6. \A u \in Schedulers : scheduler'[u] = IF u = s THEN new ELSE scheduler[u]
  BY <1>3, <1>5
<1>7. PublishersShrink
  BY <1>4, <1>6 DEF PublishersShrink
<1>8. RowNumbers'
  BY <1>2, <1>7 DEF RecoveryInv, RowNumbers, Numbered, PublishersShrink
<1>9. queue \in Seq(Executions) /\ record[1] \in Executions
  BY PublishingType DEF RecoveryInv, TypeInv, TypeOK
<1>10. \A i \in 1 .. Len(queue) : i \in 1 .. Len(queue') /\ queue'[i] = queue[i]
  <2>1. CASE UNCHANGED queue
    BY <2>1
  <2>2. CASE enqueue(record[1])
    BY <1>9, <2>2 DEF enqueue
  <2> QED
    BY <1>1, <2>1, <2>2
<1>11. \A e \in Executions : HasDelivery(e) => HasDelivery(e)'
  BY <1>2, <1>7, <1>10, DeliveryKept DEF PublishersShrink
<1> QED
  BY <1>2, <1>8, <1>11, RowsUnchanged DEF RecoveryInv

(* Only rows that are being marked leave the outbox.                       *)
LEMMA MarkPublishedRecovers ==
    ASSUME RecoveryInv, NEW s \in Schedulers, UNCHANGED worker, MarkPublished(s)
    PROVE  RowNumbers' /\ NeverStranded'
<1>1. scheduler \in [Schedulers -> SchedulerState]
  BY DEF RecoveryInv, TypeInv, TypeOK, SchedulerTypeOK
<1> DEFINE new == [scheduler[s] EXCEPT
               !.pc = After(scheduler[s].publishing, "publish", "reap_select"),
               !.marking = {}]
<1>2. new.publishing = scheduler[s].publishing /\ new.marking = {}
  BY <1>1, Zenon DEF SchedulerState
<1>3. scheduler' = [scheduler EXCEPT ![s] = new]
  BY <1>1 DEF MarkPublished
<1> HIDE DEF new
<1>4. \A u \in Schedulers : scheduler'[u] = IF u = s THEN new ELSE scheduler[u]
  BY <1>1, <1>3
<1>5. PublishersShrink
  BY <1>2, <1>4 DEF PublishersShrink
<1>6. /\ outbox' = outbox \ scheduler[s].marking
      /\ UNCHANGED <<executions, dispatches, queue>>
  BY DEF MarkPublished
<1>7. RowNumbers'
  BY <1>5, <1>6 DEF RecoveryInv, RowNumbers, Numbered, PublishersShrink
<1>8. \A e \in Executions : HasDelivery(e) => HasDelivery(e)'
  BY <1>5, <1>6, DeliveryKept DEF PublishersShrink
<1> QED
  BY <1>6, <1>7, <1>8, RowsUnchanged DEF RecoveryInv

(* No step of a scheduler strands an execution.                            *)
LEMMA SchedulerRecovers ==
    ASSUME RecoveryInv, NEW s \in Schedulers, SchedulerRuns(s)
    PROVE  RowNumbers' /\ NeverStranded'
<1>1. UNCHANGED worker
  BY DEF SchedulerRuns
<1>2. CASE \/ ReapSelect(s) \/ ReapMiss(s) \/ ReapReload(s) \/ RetrySelect(s)
           \/ PrepareRetryMiss(s)
  <2>1. PublishersShrink
    BY <1>2, ReapShrinks DEF RecoveryInv, PrepareRetryMiss
  <2>2. UNCHANGED <<executions, outbox, dispatches, queue>>
    BY <1>2 DEF ReapSelect, ReapMiss, ReapReload, RetrySelect,
                PrepareRetryMiss, dbVars, dispatchVars
  <2> QED
    BY <1>1, <2>1, <2>2, SchedulerMovesRecovers
<1> QED
  BY <1>1, <1>2, ReapRecovers, PrepareRetryRecovers, PublishSelectRecovers,
     PublishRecovers, MarkPublishedRecovers
  DEF SchedulerRuns, SchedulerStep

-----------------------------------------------------------------------------
(* The API, the clock and the faults                                       *)

(* A requested execution has an outbox row.                                *)
LEMMA RequestRecovers ==
    ASSUME RecoveryInv, NEW e \in Executions, ExecutionRequested(e)
    PROVE  RowNumbers' /\ NeverStranded'
<1> DEFINE new == [executions[e] EXCEPT !.status = "queued"]
<1>1. executions[e] \in Execution
  BY DEF RecoveryInv, TypeInv, TypeOK, DatabaseTypeOK
<1>2. new.status = "queued"
  BY <1>1, Zenon DEF Execution
<1>3. executions' = [executions EXCEPT ![e] = new]
  BY DEF ExecutionRequested, RequestExecution, RecoveryInv, TypeInv, TypeOK,
         DatabaseTypeOK
<1>4. PublishersShrink
  BY DEF ExecutionRequested, PublishersShrink
<1> HIDE DEF new
<1> QED
  BY <1>2, <1>3, <1>4, RequeueRecovers DEF ExecutionRequested, RequestExecution

(* Whatever row a manual retry finds, it leaves one with a dispatch; and a *)
(* cancelled row needs none.                                               *)
LEMMA CommitRecovers ==
    ASSUME RecoveryInv, NEW o \in Operators, OperatorCommits(o)
    PROVE  RowNumbers' /\ NeverStranded'
<1>1. request[o].execution \subseteq Executions
  BY DEF RecoveryInv, TypeInv, TypeOK, ApiTypeOK, Requests
<1>2. PublishersShrink /\ UNCHANGED <<queue, worker, scheduler>>
  BY DEF OperatorCommits, PublishersShrink
<1>3. CASE RetryCommit(o)
  <2>1. PICK e \in request[o].execution :
           /\ executions' = [executions EXCEPT
                 ![e] = RetryValues(@, request[o].row)]
           /\ AddDispatch(e)
    BY <1>3 DEF RetryCommit
  <2> DEFINE new == RetryValues(executions[e], request[o].row)
  <2>2. e \in Executions /\ executions[e] \in Execution
    BY <1>1 DEF RecoveryInv, TypeInv, TypeOK, DatabaseTypeOK
  <2>3. new.status = "queued"
    BY <2>2, Zenon DEF RetryValues, Execution
  <2>4. executions' = [executions EXCEPT ![e] = new]
    BY <2>1
  <2> HIDE DEF new
  <2> QED
    BY <1>2, <2>1, <2>2, <2>3, <2>4, RequeueRecovers
<1>4. CASE CancelCommit(o)
  <2>1. PICK e \in request[o].execution :
           /\ executions' = [executions EXCEPT
                 ![e] = CancelValues(@, request[o].row)]
           /\ UNCHANGED <<outbox, dispatches>>
    BY <1>4 DEF CancelCommit, dispatchVars
  <2> DEFINE new == CancelValues(executions[e], request[o].row)
  <2>2. e \in Executions /\ executions[e] \in Execution
    BY <1>1 DEF RecoveryInv, TypeInv, TypeOK, DatabaseTypeOK
  <2>3. new.status = "cancelled"
    BY <2>2, Zenon DEF CancelValues, Execution
  <2>4. executions' = [executions EXCEPT ![e] = new]
    BY <2>1
  <2>5. \A f \in Executions : HasDelivery(f) => HasDelivery(f)'
    BY <1>2, <2>1, DeliveryKept
  <2>6. RowNumbers'
    BY <1>2, <2>1, RowNumbersKept DEF RecoveryInv
  <2> HIDE DEF new
  <2> QED
    BY <2>2, <2>3, <2>4, <2>5, <2>6, RowWritten DEF RecoveryInv
<1> QED
  BY <1>3, <1>4 DEF OperatorCommits, Commit

(* Nothing that carries a delivery changes.                                *)
LEMMA NothingMovesRecovers ==
    ASSUME RecoveryInv,
           UNCHANGED <<executions, outbox, dispatches, queue, worker, scheduler>>
    PROVE  RowNumbers' /\ NeverStranded'
<1>1. PublishersShrink
  BY DEF PublishersShrink
<1> QED
  BY <1>1, SchedulerMovesRecovers

(* No crash or Redis error does, unless it is a crash after the pop.       *)
LEMMA FaultRecovers ==
    ASSUME RecoveryInv, ~CrashAfterPop,
           \/ \E w \in Workers : WorkerFault(w)
           \/ \E s \in Schedulers : SchedulerFault(s)
    PROVE  RowNumbers' /\ NeverStranded'
<1>1. ASSUME NEW w \in Workers, WorkerFault(w)
      PROVE  RowNumbers' /\ NeverStranded'
  <2>1. \A v \in Workers : v # w => worker'[v] = worker[v]
    BY <1>1 DEF WorkerFault, WorkerCrash, RecoveryInv, TypeInv, WorkerInv,
                WorkerTypeOK
  <2> QED
    BY <1>1, <2>1, WorkerMovesRecovers
    DEF WorkerFault, WorkerCrash, dbVars, dispatchVars
<1>2. ASSUME NEW s \in Schedulers, SchedulerFault(s)
      PROVE  RowNumbers' /\ NeverStranded'
  <2>1. CASE SchedulerCrash(s)
    BY <1>2, <2>1, ReapShrinks, SchedulerMovesRecovers
    DEF RecoveryInv, SchedulerFault, SchedulerCrash, dbVars, dispatchVars
  <2>2. CASE PublishFails(s)
    BY <1>2, <2>2, PublishFailsRecovers DEF SchedulerFault
  <2> QED
    BY <1>2, <2>1, <2>2 DEF SchedulerFault
<1> QED
  BY <1>1, <1>2

(* RecoveryInv is inductive when no worker dies after the pop.             *)
LEMMA NextRecoveryInv ==
    ASSUME ~CrashAfterPop
    PROVE  RecoveryInv /\ [Next]_vars => RecoveryInv'
<1> SUFFICES ASSUME RecoveryInv, [Next]_vars PROVE RecoveryInv'
  OBVIOUS
<1>1. TypeInv'
  BY NextTypeInv DEF RecoveryInv
<1>2. RowNumbers' /\ NeverStranded'
  <2>1. ASSUME NEW e \in Executions, LeaseExpires(e) \/ RetryBecomesDue(e)
        PROVE  RowNumbers' /\ NeverStranded'
    BY <2>1, NothingMovesRecovers DEF LeaseExpires, RetryBecomesDue, dispatchVars
  <2>2. ASSUME NEW o \in Operators, NEW e \in Executions, OperatorReads(o, e)
        PROVE  RowNumbers' /\ NeverStranded'
    BY <2>2, NothingMovesRecovers
    DEF OperatorReads, RetryRead, CancelRead, CallRead, dbVars, dispatchVars
  <2>3. CASE UNCHANGED vars
    BY <2>3, NothingMovesRecovers DEF vars, dbVars, dispatchVars
  <2> QED
    BY <2>1, <2>2, <2>3, WorkerRecovers, SchedulerRecovers, RequestRecovers,
       CommitRecovers, FaultRecovers
    DEF Next
<1> QED
  BY <1>1, <1>2 DEF RecoveryInv

(* No execution is ever stranded by the platform: outbox, queue, lease and *)
(* retry time always leave somebody to move it on, provided that no worker *)
(* dies with a delivery it has popped and not yet claimed.                 *)
THEOREM NoExecutionStranded ==
    ASSUME ~CrashAfterPop
    PROVE  Spec => []NeverStranded
<1>1. Spec => []RecoveryInv
  BY InitRecoveryInv, NextRecoveryInv, PTL DEF Spec
<1>2. RecoveryInv => NeverStranded
  BY DEF RecoveryInv
<1> QED
  BY <1>1, <1>2, PTL
=============================================================================
