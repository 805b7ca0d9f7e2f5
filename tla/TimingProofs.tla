---------------------------- MODULE TimingProofs ----------------------------
(***************************************************************************)
(* A scheduler acts on what it chose in an earlier transaction only when   *)
(* that is still due: no lease is taken and no retry is started early.     *)
(***************************************************************************)
EXTENDS PlatformProofs

(* What was due by the time a scheduler took is due now, unless the column *)
(* has been written since; and then it is no longer due by that time.      *)
ViewsBehind ==
    \A s \in Schedulers : /\ lease_view[s] \subseteq lease_past
                          /\ retry_view[s] \subseteq retry_past

TimingInv == TypeInv /\ ViewsBehind

(* The three things a step may do to the leases that are due.              *)
LeaseDueMoves ==
    \/ UNCHANGED leaseClock
    \/ \E e \in Executions : LeaseExpiryWritten(e)
    \/ \E s \in Schedulers : /\ lease_view' = [lease_view EXCEPT ![s] = lease_past]
                             /\ UNCHANGED lease_past
    \/ /\ lease_past \subseteq lease_past'
       /\ UNCHANGED lease_view

(* ... and to the retries.                                                 *)
RetryDueMoves ==
    \/ UNCHANGED retryClock
    \/ \E e \in Executions : NextRetryWritten(e)
    \/ \E s \in Schedulers : /\ retry_view' = [retry_view EXCEPT ![s] = retry_past]
                             /\ UNCHANGED retry_past
    \/ /\ retry_past \subseteq retry_past'
       /\ UNCHANGED retry_view

(* What the two kinds of clock step do keeps a view behind the clock.      *)
LEMMA DueMovesKeepViews ==
    ASSUME TypeInv, ViewsBehind, LeaseDueMoves, RetryDueMoves
    PROVE  ViewsBehind'
<1>1. /\ lease_view \in [Schedulers -> SUBSET Executions]
      /\ retry_view \in [Schedulers -> SUBSET Executions]
  BY DEF TypeInv, TypeOK, DatabaseTypeOK
<1>2. \A s \in Schedulers : lease_view'[s] \subseteq lease_past'
  BY <1>1 DEF LeaseDueMoves, leaseClock, LeaseExpiryWritten, ViewsBehind
<1>3. \A s \in Schedulers : retry_view'[s] \subseteq retry_past'
  BY <1>1 DEF RetryDueMoves, retryClock, NextRetryWritten, ViewsBehind
<1> QED
  BY <1>2, <1>3 DEF ViewsBehind

(* Every step of a worker is of one of those kinds.                        *)
LEMMA WorkerDueMoves ==
    ASSUME TypeInv, NEW w \in Workers, WorkerStep(w)
    PROVE  LeaseDueMoves /\ RetryDueMoves
<1>1. CASE \/ Dequeue(w) \/ ClaimMiss(w) \/ Load(w) \/ RenewMiss(w)
           \/ BeginStepConflict(w) \/ RunStep(w)
  BY <1>1 DEF Dequeue, ClaimMiss, Load, RenewMiss, BeginStepConflict, RunStep,
              dbVars, LeaseDueMoves, RetryDueMoves
<1>2. CASE BeginStep(w) \/ CommitStep(w)
  BY <1>2 DEF BeginStep, CommitStep, LeaseDueMoves, RetryDueMoves
<1>3. CASE Claim(w)
  <2>1. worker[w].execution \in Executions
    BY <1>3, WorkerFacts DEF Claim
  <2> QED
    BY <1>3, <2>1 DEF Claim, LeaseDueMoves, RetryDueMoves
<1>4. CASE RenewBefore(w) \/ RenewAfter(w) \/ RenewFinal(w)
  <2>1. worker[w].execution \in Executions
    BY <1>4, WorkerFacts DEF RenewBefore, RenewAfter, RenewFinal, Renewed
  <2> QED
    BY <1>4, <2>1 DEF RenewBefore, RenewAfter, RenewFinal, Renewed,
                      LeaseDueMoves, RetryDueMoves
<1>5. CASE RenewBeforeInvalid(w)
  <2>1. worker[w].execution \in Executions
    BY <1>5, WorkerFacts DEF RenewBeforeInvalid
  <2> QED
    BY <1>5, <2>1 DEF RenewBeforeInvalid, LeaseDueMoves, RetryDueMoves
<1>6. CASE CommitSuccess(w)
  <2>1. worker[w].execution \in Executions
    BY <1>6, WorkerFacts DEF CommitSuccess
  <2> QED
    BY <1>6, <2>1 DEF CommitSuccess, LeaseDueMoves, RetryDueMoves
<1>7. CASE FailExecution(w)
  <2>1. worker[w].execution \in Executions
    BY <1>7, WorkerFacts DEF FailExecution
  <2> QED
    BY <1>7, <2>1 DEF FailExecution, LeaseDueMoves, RetryDueMoves
<1> QED
  BY <1>1, <1>2, <1>3, <1>4, <1>5, <1>6, <1>7 DEF WorkerStep

(* So is every step of a scheduler.                                        *)
LEMMA SchedulerDueMoves ==
    ASSUME TypeInv, NEW s \in Schedulers, SchedulerStep(s)
    PROVE  LeaseDueMoves /\ RetryDueMoves
<1>1. CASE \/ ReapMiss(s) \/ ReapReload(s) \/ PrepareRetryMiss(s)
           \/ PublishSelect(s) \/ Publish(s)
  BY <1>1 DEF ReapMiss, ReapReload, PrepareRetryMiss, PublishSelect, Publish,
              dbVars, LeaseDueMoves, RetryDueMoves
<1>2. CASE MarkPublished(s)
  BY <1>2 DEF MarkPublished, LeaseDueMoves, RetryDueMoves
<1>3. CASE ReapSelect(s)
  BY <1>3 DEF ReapSelect, LeaseDueMoves, RetryDueMoves
<1>4. CASE RetrySelect(s)
  BY <1>4 DEF RetrySelect, LeaseDueMoves, RetryDueMoves
<1>5. /\ \A entry \in scheduler[s].reaping : entry.execution \in Executions
      /\ scheduler[s].retrying \subseteq Executions
  BY DEF TypeInv, TypeOK, SchedulerTypeOK, SchedulerState, ReapEntry
<1>6. CASE ReapRequeue(s)
  BY <1>5, <1>6 DEF ReapRequeue, LeaseDueMoves, RetryDueMoves
<1>7. CASE ReapDeadLetter(s)
  BY <1>5, <1>7 DEF ReapDeadLetter, LeaseDueMoves, RetryDueMoves
<1>8. CASE PrepareRetry(s)
  BY <1>5, <1>8 DEF PrepareRetry, LeaseDueMoves, RetryDueMoves
<1> QED
  BY <1>1, <1>2, <1>3, <1>4, <1>6, <1>7, <1>8 DEF SchedulerStep

(* So is every commit of the API.                                          *)
LEMMA ApiDueMoves ==
    ASSUME TypeInv, NEW o \in Operators, Commit(o)
    PROVE  LeaseDueMoves /\ RetryDueMoves
<1>1. request[o].execution \subseteq Executions
  BY DEF TypeInv, TypeOK, ApiTypeOK, Requests
<1>2. CASE RetryCommit(o)
  BY <1>1, <1>2 DEF RetryCommit, NextRetryCleared, LeaseDueMoves, RetryDueMoves
<1>3. CASE CancelCommit(o)
  BY <1>1, <1>3 DEF CancelCommit, NextRetryCleared, LeaseDueMoves, RetryDueMoves
<1> QED
  BY <1>2, <1>3 DEF Commit

(* TimingInv is inductive.                                                 *)
LEMMA NextTimingInv == TimingInv /\ [Next]_vars => TimingInv'
<1> SUFFICES ASSUME TimingInv, [Next]_vars PROVE TimingInv'
  OBVIOUS
<1>1. TypeInv'
  BY NextTypeInv DEF TimingInv
<1>2. LeaseDueMoves /\ RetryDueMoves
  <2>1. ASSUME NEW w \in Workers, WorkerRuns(w) \/ WorkerFault(w)
        PROVE  LeaseDueMoves /\ RetryDueMoves
    BY <2>1, WorkerDueMoves DEF TimingInv, WorkerRuns, WorkerFault, WorkerCrash,
                                dbVars, LeaseDueMoves, RetryDueMoves
  <2>2. ASSUME NEW s \in Schedulers, SchedulerRuns(s) \/ SchedulerFault(s)
        PROVE  LeaseDueMoves /\ RetryDueMoves
    BY <2>2, SchedulerDueMoves
    DEF TimingInv, SchedulerRuns, SchedulerFault, SchedulerCrash, PublishFails,
        dbVars, LeaseDueMoves, RetryDueMoves
  <2>3. ASSUME NEW e \in Executions,
               ExecutionRequested(e) \/ LeaseExpires(e) \/ RetryBecomesDue(e)
        PROVE  LeaseDueMoves /\ RetryDueMoves
    BY <2>3 DEF ExecutionRequested, RequestExecution, LeaseExpires,
                RetryBecomesDue, LeaseDueMoves, RetryDueMoves
  <2>4. ASSUME NEW o \in Operators, OperatorCommits(o)
        PROVE  LeaseDueMoves /\ RetryDueMoves
    BY <2>4, ApiDueMoves DEF TimingInv, OperatorCommits
  <2>5. ASSUME NEW o \in Operators, NEW e \in Executions, OperatorReads(o, e)
        PROVE  LeaseDueMoves /\ RetryDueMoves
    BY <2>5 DEF OperatorReads, RetryRead, CancelRead, CallRead, dbVars,
                LeaseDueMoves, RetryDueMoves
  <2>6. CASE UNCHANGED vars
    BY <2>6 DEF vars, dbVars, LeaseDueMoves, RetryDueMoves
  <2> QED
    BY <2>1, <2>2, <2>3, <2>4, <2>5, <2>6 DEF Next
<1> QED
  BY <1>1, <1>2, DueMovesKeepViews DEF TimingInv

(* TimingInv always holds.                                                 *)
LEMMA SpecTimingInv == Spec => []TimingInv
<1>1. Init => TimingInv
  BY InitTypeInv DEF TimingInv, ViewsBehind, Init, DatabaseInit
<1> QED
  BY <1>1, NextTimingInv, PTL DEF Spec

-----------------------------------------------------------------------------
(* What a scheduler does to a row of executions.                           *)
LEMMA SchedulerWrites ==
    ASSUME TypeInv, NEW s \in Schedulers, NEW e \in Executions, SchedulerStep(s),
           executions'[e].status # executions[e].status
    PROVE  \/ executions[e].status = "running" /\ e \in lease_view[s]
           \/ executions[e].status = "retry_scheduled" /\ e \in retry_view[s]
<1>1. CASE \/ ReapMiss(s) \/ ReapReload(s) \/ PrepareRetryMiss(s)
           \/ PublishSelect(s) \/ Publish(s) \/ MarkPublished(s)
           \/ ReapSelect(s) \/ RetrySelect(s)
  BY <1>1 DEF ReapMiss, ReapReload, PrepareRetryMiss, PublishSelect, Publish,
              dbVars, MarkPublished, ReapSelect, RetrySelect
<1>2. CASE ReapRequeue(s) \/ ReapDeadLetter(s)
  <2>1. PICK entry, retryable :
           /\ ReapWhere(s, entry)
           /\ executions' = [executions EXCEPT
                 ![entry.execution] = ReapValues(@, retryable)]
    BY <1>2, Zenon DEF ReapRequeue, ReapDeadLetter
  <2>2. entry.execution = e
    BY <2>1 DEF TypeInv, TypeOK, DatabaseTypeOK
  <2> QED
    BY <2>1, <2>2 DEF ReapWhere
<1>3. CASE PrepareRetry(s)
  <2>1. PICK f \in scheduler[s].retrying :
           /\ RetryWhere(s, f)
           /\ executions' = [executions EXCEPT ![f].status = "queued",
                                               ![f].next_retry_at = FALSE]
    BY <1>3 DEF PrepareRetry
  <2>2. f = e
    BY <2>1 DEF TypeInv, TypeOK, DatabaseTypeOK
  <2> QED
    BY <2>1, <2>2 DEF RetryWhere
<1> QED
  BY <1>1, <1>2, <1>3 DEF SchedulerStep

(* The reaper ends no run whose lease has not run out by the time it does, *)
(* whatever renewals came between its SELECT and its UPDATE.               *)
THEOREM NoEarlyReap == Spec => ReapsOnlyExpired
<1>1. ASSUME TimingInv, NEW s \in Schedulers, NEW e \in Executions,
             SchedulerRuns(s), executions[e].status = "running",
             executions'[e].status # "running"
      PROVE  e \in lease_past
  BY <1>1, SchedulerWrites DEF TimingInv, ViewsBehind, SchedulerRuns
<1>2. TimingInv /\ [Next]_vars =>
         [\A s \in Schedulers, e \in Executions :
            (/\ SchedulerRuns(s)
             /\ executions[e].status = "running"
             /\ executions'[e].status # "running") => e \in lease_past]_vars
  BY <1>1
<1> QED
  BY <1>2, SpecTimingInv, PTL DEF Spec, ReapsOnlyExpired

(* No retry starts before its backoff has passed, even when another        *)
(* scheduler has requeued the execution and a worker failed it again.      *)
THEOREM NoEarlyRetry == Spec => RetriesOnlyDue
<1>1. ASSUME TimingInv, NEW s \in Schedulers, NEW e \in Executions,
             SchedulerRuns(s), executions[e].status = "retry_scheduled",
             executions'[e].status # "retry_scheduled"
      PROVE  e \in retry_past
  BY <1>1, SchedulerWrites DEF TimingInv, ViewsBehind, SchedulerRuns
<1>2. TimingInv /\ [Next]_vars =>
         [\A s \in Schedulers, e \in Executions :
            (/\ SchedulerRuns(s)
             /\ executions[e].status = "retry_scheduled"
             /\ executions'[e].status # "retry_scheduled")
                => e \in retry_past]_vars
  BY <1>1
<1> QED
  BY <1>2, SpecTimingInv, PTL DEF Spec, RetriesOnlyDue
=============================================================================
