--------------------------- MODULE FencingProofs ----------------------------
(***************************************************************************)
(* The lease fences the workers: as long as no lease runs out between a    *)
(* renewal and the commit it guards, and manual retries do not overlap,    *)
(* what a worker commits it commits as the only holder of the lease, with  *)
(* a session that agrees with the row.  Cancellations may race.            *)
(*                                                                         *)
(* Two things need no fence: the lease has one owner at a time, and where  *)
(* nobody retries by hand, nothing is dead-lettered too early.             *)
(***************************************************************************)
EXTENDS TimingProofs

(* Several operators may work at a time, unless they retry executions.     *)
RetriesApart ==
    "retry" \in OperatorCalls => \A o, p \in Operators : o = p

(* Past the claim.                                                         *)
Claimed(w) == worker[w].pc \notin {"idle", "claim"}

(* What w has loaded is what the tables hold.                              *)
SessionAgrees(w) ==
    /\ worker[w].index = RowOf(w).current_step
    /\ worker[w].accumulated_output = RowOf(w).output_payload
    /\ worker[w].attempt_count = RowOf(w).attempt_count
    /\ worker[w].step_rows = step_executions[worker[w].execution]

(* A worker has a token that was drawn for its execution; while the row    *)
(* has it too, nobody else has written the row since it was loaded; and    *)
(* between a renewal and its commit the row has it, unexpired.             *)
WorkerFits(w) ==
    /\ Claimed(w) =>
          /\ worker[w].lease_token # 0
          /\ worker[w].lease_token <= tokens[worker[w].execution]
    /\ worker[w].pc \in CommitPoints =>
          /\ RowOf(w).lease_token = worker[w].lease_token
          /\ worker[w].execution \notin lease_past
    /\ worker[w].pc \in {"renew_final", "commit_success"} =>
          worker[w].index = NumSteps
    /\ (/\ Claimed(w)
        /\ worker[w].pc # "load"
        /\ RowOf(w).lease_token = worker[w].lease_token) => SessionAgrees(w)

(* No two workers have one token.                                          *)
TokensDiffer ==
    \A v, w \in Workers :
        (/\ Claimed(v) /\ Claimed(w)
         /\ worker[v].execution = worker[w].execution
         /\ worker[v].lease_token = worker[w].lease_token) => v = w

(* A row has a lease when it is running; a cancellation leaves it behind.  *)
RowFits(e) ==
    /\ executions[e].lease_token <= tokens[e]
    /\ executions[e].status = "running" => executions[e].lease_token # 0
    /\ executions[e].status \notin {"running", "cancelled"} =>
          executions[e].lease_token = 0

(* What a reaper has read of a lease that is still there is up to date.    *)
EntryFits(entry) ==
    /\ entry.lease_token <= tokens[entry.execution]
    /\ (/\ entry.lease_token # 0
        /\ executions[entry.execution].lease_token = entry.lease_token) =>
          executions[entry.execution].attempt_count = entry.attempt_count

(* A manual retry in flight has read the row as it is.                     *)
RequestFits(o) ==
    request[o].call = "retry" =>
        /\ "retry" \in OperatorCalls
        /\ \A e \in request[o].execution :
              /\ executions[e].status = "dead_letter"
              /\ request[o].row = LoadRow(executions[e])

(* StepsInOrder and DeadLetterJustified for one execution.                 *)
Order(e) ==
    LET done == executions[e].current_step
    IN  /\ \A i \in StepIndex :
              /\ i < done <=> step_executions[e][i] = "succeeded"
              /\ i > done => step_executions[e][i] = "absent"
        /\ executions[e].output_payload = {i \in StepIndex : i < done}
        /\ executions[e].status = "succeeded" => done = NumSteps

Justified(e) ==
    executions[e].status = "dead_letter" =>
        \/ failure_records[e] = "permanent"
        \/ executions[e].attempt_count >= MaxAttempts

Fenced ==
    /\ \A w \in Workers : WorkerFits(w)
    /\ TokensDiffer
    /\ \A e \in Executions : RowFits(e) /\ Order(e) /\ Justified(e)
    /\ \A s \in Schedulers : \A entry \in scheduler[s].reaping : EntryFits(entry)
    /\ \A o \in Operators : RequestFits(o)

FenceInv == TimingInv /\ Fenced

(* The rows of f are left alone.                                           *)
Kept(f) ==
    /\ executions'[f] = executions[f]
    /\ step_executions'[f] = step_executions[f]
    /\ failure_records'[f] = failure_records[f]
    /\ tokens'[f] = tokens[f]

-----------------------------------------------------------------------------
(* How a step keeps the invariant                                          *)

(* A worker that does not move, and whose row is left alone.               *)
LEMMA Untouched ==
    ASSUME NEW w \in Workers, WorkerFits(w), worker'[w] = worker[w],
           lease_past' \subseteq lease_past,
           Claimed(w) => Kept(worker[w].execution)
    PROVE  WorkerFits(w)'
<1>1. CASE ~Claimed(w)
  BY <1>1 DEF WorkerFits, Claimed, CommitPoints
<1>2. CASE Claimed(w)
  <2>1. RowOf(w)' = RowOf(w)
    BY <1>2 DEF RowOf, Kept
  <2>2. SessionAgrees(w) => SessionAgrees(w)'
    BY <1>2, <2>1 DEF SessionAgrees, Kept
  <2> QED
    BY <1>2, <2>1, <2>2 DEF WorkerFits, Claimed, Kept
<1> QED
  BY <1>1, <1>2

(* A worker that does not move, when the row of e is written: if e is its  *)
(* own, the row has another token now and the worker was not committing.   *)
LEMMA Bystander ==
    ASSUME TypeInv, TypeInv', NEW w \in Workers, WorkerFits(w),
           worker'[w] = worker[w], lease_past' \subseteq lease_past,
           NEW e \in Executions, \A f \in Executions \ {e} : Kept(f),
           tokens[e] <= tokens'[e],
           Claimed(w) /\ worker[w].execution = e =>
              /\ executions'[e].lease_token # worker[w].lease_token
              /\ worker[w].pc \notin CommitPoints
    PROVE  WorkerFits(w)'
<1>1. CASE Claimed(w) => worker[w].execution # e
  <2>1. Claimed(w) => Kept(worker[w].execution)
    BY <1>1, WorkerFacts DEF Claimed
  <2> QED
    BY <2>1, Untouched
<1>2. CASE Claimed(w) /\ worker[w].execution = e
  <2>1. /\ worker[w].lease_token \in Nat
        /\ tokens[e] \in Nat /\ tokens'[e] \in Nat
    BY WorkerFacts DEF WorkerState, TypeInv, TypeOK, DatabaseTypeOK
  <2>2. worker[w].lease_token <= tokens'[e]
    BY <1>2, <2>1 DEF WorkerFits
  <2> QED
    BY <1>2, <2>2 DEF WorkerFits, Claimed, RowOf
<1> QED
  BY <1>1, <1>2

(* The row of e is written by somebody who is not a worker, when no worker *)
(* can be committing under its lease.                                      *)
LEMMA WorkersStandBy ==
    ASSUME TypeInv, TypeInv', Fenced, UNCHANGED <<worker, tokens>>,
           lease_past' \subseteq lease_past,
           NEW e \in Executions, \A f \in Executions \ {e} : Kept(f),
           executions[e].lease_token = 0 \/ e \in lease_past,
           executions'[e].lease_token = 0
    PROVE  TokensDiffer' /\ \A w \in Workers : WorkerFits(w)'
<1>1. TokensDiffer'
  BY DEF Fenced, TokensDiffer, Claimed
<1>2. ASSUME NEW w \in Workers PROVE WorkerFits(w)'
  <2>1. WorkerFits(w)
    BY DEF Fenced
  <2>2. tokens[e] <= tokens'[e]
    BY DEF TypeInv, TypeOK, DatabaseTypeOK
  <2>3. Claimed(w) /\ worker[w].execution = e =>
           /\ executions'[e].lease_token # worker[w].lease_token
           /\ worker[w].pc \notin CommitPoints
    BY <2>1 DEF WorkerFits, RowOf
  <2> QED
    BY <2>1, <2>2, <2>3, Bystander
<1> QED
  BY <1>1, <1>2

(* Nobody but w is committing to the execution whose lease w has.          *)
LEMMA OthersStandBy ==
    ASSUME TypeInv, TypeInv', Fenced, NEW w \in Workers, Claimed(w),
           \A v \in Workers \ {w} : worker'[v] = worker[v],
           lease_past' \subseteq lease_past, UNCHANGED tokens,
           \A f \in Executions \ {worker[w].execution} : Kept(f),
           RowOf(w).lease_token = worker[w].lease_token,
           executions'[worker[w].execution].lease_token \in {0, worker[w].lease_token}
    PROVE  \A v \in Workers \ {w} : WorkerFits(v)'
<1> SUFFICES ASSUME NEW v \in Workers \ {w} PROVE WorkerFits(v)'
  OBVIOUS
<1> DEFINE e == worker[w].execution
<1>1. e \in Executions
  BY WorkerFacts DEF Claimed
<1>2. WorkerFits(v)
  BY DEF Fenced
<1>3. tokens[e] <= tokens'[e]
  BY <1>1 DEF TypeInv, TypeOK, DatabaseTypeOK
<1>4. Claimed(v) /\ worker[v].execution = e =>
         worker[v].lease_token # worker[w].lease_token
  BY DEF Fenced, TokensDiffer
<1>5. Claimed(v) /\ worker[v].execution = e =>
         /\ executions'[e].lease_token # worker[v].lease_token
         /\ worker[v].pc \notin CommitPoints
  BY <1>2, <1>4 DEF WorkerFits, RowOf
<1> QED
  BY <1>1, <1>2, <1>3, <1>5, Bystander

(* A worker that keeps its token, or gives its execution up.               *)
LEMMA TokensStayDifferent ==
    ASSUME TokensDiffer, NEW w \in Workers,
           \A v \in Workers \ {w} : worker'[v] = worker[v],
           Claimed(w)' => /\ Claimed(w)
                          /\ worker'[w].execution = worker[w].execution
                          /\ worker'[w].lease_token = worker[w].lease_token
    PROVE  TokensDiffer'
BY DEF TokensDiffer, Claimed

(* What a reaper has read, when the row of e is written: its token is      *)
(* gone, or the attempts are what they were.                               *)
LEMMA EntriesKept ==
    ASSUME TypeInv, TypeInv', Fenced,
           NEW e \in Executions, \A f \in Executions \ {e} : Kept(f),
           tokens[e] <= tokens'[e],
           \/ executions'[e].lease_token \notin 1 .. tokens[e]
           \/ /\ executions'[e].lease_token = executions[e].lease_token
              /\ executions'[e].attempt_count = executions[e].attempt_count,
           \A s \in Schedulers : scheduler'[s].reaping \subseteq scheduler[s].reaping
    PROVE  \A s \in Schedulers :
              \A entry \in scheduler'[s].reaping : EntryFits(entry)'
<1> SUFFICES ASSUME NEW s \in Schedulers, NEW entry \in scheduler[s].reaping
             PROVE  EntryFits(entry)'
  OBVIOUS
<1> DEFINE f == entry.execution
<1>1. EntryFits(entry)
  BY DEF Fenced
<1>2. f \in Executions /\ entry.lease_token \in Nat
  BY DEF TypeInv, TypeOK, SchedulerTypeOK, SchedulerState, ReapEntry
<1>3. tokens[e] \in Nat /\ tokens'[e] \in Nat
  BY DEF TypeInv, TypeOK, DatabaseTypeOK
<1>4. CASE f = e
  BY <1>1, <1>2, <1>3, <1>4 DEF EntryFits
<1>5. CASE f # e
  BY <1>1, <1>2, <1>5 DEF EntryFits, Kept
<1> QED
  BY <1>4, <1>5

(* The manual retry in flight is for another execution than e.             *)
LEMMA RequestsKept ==
    ASSUME TypeInv, Fenced, UNCHANGED request,
           NEW e \in Executions, \A f \in Executions \ {e} : Kept(f),
           executions[e].status # "dead_letter"
    PROVE  \A o \in Operators : RequestFits(o)'
<1> SUFFICES ASSUME NEW o \in Operators, request[o].call = "retry"
             PROVE  /\ "retry" \in OperatorCalls
                    /\ \A f \in request[o].execution :
                          /\ executions'[f].status = "dead_letter"
                          /\ request[o].row = LoadRow(executions'[f])
  BY DEF RequestFits
<1>1. /\ "retry" \in OperatorCalls
      /\ \A f \in request[o].execution :
            /\ executions[f].status = "dead_letter"
            /\ request[o].row = LoadRow(executions[f])
  BY DEF Fenced, RequestFits
<1>2. request[o].execution \subseteq Executions
  BY DEF TypeInv, TypeOK, ApiTypeOK, Requests
<1> QED
  BY <1>1, <1>2 DEF Kept

(* The row of e is written and fits; the others are as they were.          *)
LEMMA RowsKept ==
    ASSUME Fenced, NEW e \in Executions, \A f \in Executions \ {e} : Kept(f),
           RowFits(e)', Order(e)', Justified(e)'
    PROVE  \A f \in Executions : RowFits(f)' /\ Order(f)' /\ Justified(f)'
<1> SUFFICES ASSUME NEW f \in Executions \ {e}
             PROVE  RowFits(f)' /\ Order(f)' /\ Justified(f)'
  OBVIOUS
<1>1. RowFits(f) /\ Order(f) /\ Justified(f) /\ Kept(f)
  BY DEF Fenced
<1>2. RowFits(f)'
  BY <1>1 DEF RowFits, Kept
<1>3. Order(f)'
  BY <1>1 DEF Order, Kept
<1>4. Justified(f)'
  BY <1>1 DEF Justified, Kept
<1> QED
  BY <1>2, <1>3, <1>4

(* The tables are left alone.                                              *)
LEMMA TablesKept ==
    ASSUME Fenced, UNCHANGED <<executions, step_executions, failure_records,
                               tokens>>
    PROVE  /\ \A f \in Executions : RowFits(f)' /\ Order(f)' /\ Justified(f)'
           /\ \A entry : EntryFits(entry) => EntryFits(entry)'
<1>1. ASSUME NEW f \in Executions
      PROVE  RowFits(f)' /\ Order(f)' /\ Justified(f)'
  BY DEF Fenced, RowFits, Order, Justified
<1>2. ASSUME NEW entry, EntryFits(entry) PROVE EntryFits(entry)'
  BY <1>2 DEF EntryFits
<1> QED
  BY <1>1, <1>2

-----------------------------------------------------------------------------
(* Workers                                                                 *)

(* A worker moves without writing a table.                                 *)
LEMMA OnlyWorkerMoves ==
    ASSUME TypeInv, Fenced, NEW w \in Workers,
           \A v \in Workers \ {w} : worker'[v] = worker[v],
           UNCHANGED <<executions, step_executions, failure_records, tokens,
                       scheduler, request>>,
           lease_past' \subseteq lease_past,
           Claimed(w)' => /\ Claimed(w)
                          /\ worker'[w].execution = worker[w].execution
                          /\ worker'[w].lease_token = worker[w].lease_token,
           WorkerFits(w)'
    PROVE  Fenced'
<1>1. ASSUME NEW v \in Workers \ {w} PROVE WorkerFits(v)'
  BY Untouched DEF Fenced, Kept
<1>2. TokensDiffer'
  BY TokensStayDifferent DEF Fenced
<1>3. \A o \in Operators : RequestFits(o)'
  BY DEF Fenced, RequestFits
<1>4. \A s \in Schedulers : \A entry \in scheduler[s].reaping : EntryFits(entry)'
  BY TablesKept DEF Fenced
<1> QED
  BY <1>1, <1>2, <1>3, <1>4, TablesKept DEF Fenced

(* A worker gives its execution up, or crashes.                            *)
LEMMA GivingUpFences ==
    ASSUME TypeInv, Fenced, NEW w \in Workers,
           worker' = [worker EXCEPT ![w] = Idle],
           UNCHANGED <<dbVars, scheduler, request>>
    PROVE  Fenced'
<1>1. /\ worker'[w].pc = "idle"
      /\ \A v \in Workers \ {w} : worker'[v] = worker[v]
  BY IdleType DEF TypeInv, WorkerInv, WorkerTypeOK
<1>2. WorkerFits(w)' /\ ~Claimed(w)'
  BY <1>1 DEF WorkerFits, Claimed, CommitPoints
<1> QED
  BY <1>1, <1>2, OnlyWorkerMoves DEF dbVars, leaseClock

(* A popped identifier gives no right to anything yet.                     *)
LEMMA DequeueFences ==
    ASSUME TypeInv, Fenced, NEW w \in Workers, Dequeue(w),
           UNCHANGED <<scheduler, request>>
    PROVE  Fenced'
<1>1. PICK e : worker' = [worker EXCEPT ![w].pc = "claim", ![w].execution = e]
  BY DEF Dequeue
<1>2. /\ worker'[w].pc = "claim"
      /\ \A v \in Workers \ {w} : worker'[v] = worker[v]
  BY <1>1 DEF TypeInv, WorkerInv, WorkerTypeOK, WorkerState
<1>3. WorkerFits(w)' /\ ~Claimed(w)'
  BY <1>2 DEF WorkerFits, Claimed, CommitPoints
<1> QED
  BY <1>2, <1>3, OnlyWorkerMoves DEF Dequeue, dbVars, leaseClock

(* What is loaded agrees with what it is loaded from.                      *)
LEMMA LoadFences ==
    ASSUME TypeInv, Fenced, NEW w \in Workers, Load(w),
           UNCHANGED <<scheduler, request>>
    PROVE  Fenced'
<1> DEFINE e == worker[w].execution
           row == RowOf(w)
<1>1. worker[w] \in WorkerState /\ e \in Executions /\ row \in Execution
  BY WorkerFacts DEF Load
<1>2. /\ worker'[w].pc = LoopPoint(row.current_step)
      /\ worker'[w].index = row.current_step
      /\ worker'[w].attempt_count = row.attempt_count
      /\ worker'[w].accumulated_output = row.output_payload
      /\ worker'[w].step_rows = step_executions[e]
      /\ worker'[w].execution = e
      /\ worker'[w].lease_token = worker[w].lease_token
      /\ \A v \in Workers \ {w} : worker'[v] = worker[v]
  BY <1>1 DEF Load, TypeInv, WorkerInv, WorkerTypeOK, WorkerState
<1>3. UNCHANGED <<executions, step_executions, failure_records, tokens, lease_past>>
  BY DEF Load, dbVars, leaseClock
<1>4. WorkerFits(w) /\ Claimed(w) /\ Claimed(w)'
  <2>1. WorkerFits(w)
    BY DEF Fenced
  <2>2. Claimed(w)
    BY DEF Load, Claimed
  <2>3. Claimed(w)'
    BY <1>2 DEF Claimed, LoopPoint
  <2> QED
    BY <2>1, <2>2, <2>3
<1>5. SessionAgrees(w)'
  BY <1>2, <1>3 DEF SessionAgrees, RowOf
<1>6. worker'[w].pc = "renew_final" => worker'[w].index = NumSteps
  BY <1>1, <1>2, StepsAssumption DEF LoopPoint, Execution
<1>7. worker'[w].pc \in {"renew_before", "renew_final"}
  BY <1>2 DEF LoopPoint
<1>8. WorkerFits(w)'
  BY <1>2, <1>3, <1>4, <1>5, <1>6, <1>7 DEF WorkerFits, CommitPoints
<1> QED
  BY <1>2, <1>3, <1>4, <1>8, OnlyWorkerMoves

(* The renewal that matches: from here to the commit the lease is held.    *)
LEMMA RenewalFences ==
    ASSUME TypeInv, Fenced, NEW w \in Workers, worker[w].pc \in RenewPoints,
           RenewWhere(w), LeaseExpiryWritten(worker[w].execution),
           NEW to, NEW outcome, to \in CommitPoints,
           to = "commit_success" => worker[w].pc = "renew_final",
           worker' = [worker EXCEPT ![w] =
                         [@ EXCEPT !.pc = to, !.outcome = outcome]],
           UNCHANGED <<executions, step_executions, failure_records, tokens,
                       scheduler, request>>
    PROVE  Fenced'
<1>1. /\ worker'[w].pc = to
      /\ worker'[w].index = worker[w].index
      /\ worker'[w].attempt_count = worker[w].attempt_count
      /\ worker'[w].accumulated_output = worker[w].accumulated_output
      /\ worker'[w].step_rows = worker[w].step_rows
      /\ worker'[w].execution = worker[w].execution
      /\ worker'[w].lease_token = worker[w].lease_token
      /\ \A v \in Workers \ {w} : worker'[v] = worker[v]
  BY WorkerFacts DEF TypeInv, WorkerInv, WorkerTypeOK, WorkerState
<1>2. WorkerFits(w) /\ Claimed(w) /\ Claimed(w)' /\ worker[w].pc # "load"
  BY <1>1 DEF Fenced, Claimed, RenewPoints, CommitPoints
<1>3. RowOf(w)' = RowOf(w) /\ RowOf(w).lease_token = worker[w].lease_token
  BY <1>1 DEF RowOf, RenewWhere
<1>4. SessionAgrees(w)
  BY <1>2, <1>3 DEF WorkerFits
<1>5. SessionAgrees(w)'
  BY <1>1, <1>3, <1>4 DEF SessionAgrees
<1>6. lease_past' \subseteq lease_past /\ worker[w].execution \notin lease_past'
  BY DEF LeaseExpiryWritten
<1>7. WorkerFits(w)'
  BY <1>1, <1>2, <1>3, <1>5, <1>6 DEF WorkerFits, CommitPoints
<1> QED
  BY <1>1, <1>2, <1>6, <1>7, OnlyWorkerMoves

(* The four renewals of the code are of that kind.                         *)
LEMMA RenewFences ==
    ASSUME TypeInv, Fenced, NEW w \in Workers,
           \/ RenewBefore(w) \/ RenewBeforeInvalid(w)
           \/ RenewAfter(w) \/ RenewFinal(w),
           UNCHANGED <<scheduler, request>>
    PROVE  Fenced'
<1>1. worker \in [Workers -> WorkerState]
  BY DEF TypeInv, WorkerInv, WorkerTypeOK
<1>2. CASE RenewBeforeInvalid(w)
  <2>1. worker' = [worker EXCEPT ![w] =
                      [@ EXCEPT !.pc = "commit_failure", !.outcome = "invalid"]]
    BY <1>1, <1>2 DEF RenewBeforeInvalid, WorkerState
  <2>2. /\ worker[w].pc \in RenewPoints
        /\ RenewWhere(w) /\ LeaseExpiryWritten(worker[w].execution)
        /\ UNCHANGED <<executions, step_executions, failure_records, tokens>>
    BY <1>2 DEF RenewBeforeInvalid, RenewPoints
  <2> DEFINE to == "commit_failure"
             outcome == "invalid"
  <2>3. to \in CommitPoints /\ to # "commit_success"
    BY DEF CommitPoints
  <2>4. worker' = [worker EXCEPT ![w] =
                      [@ EXCEPT !.pc = to, !.outcome = outcome]]
    BY <2>1
  <2> HIDE DEF to, outcome
  <2> QED
    BY <2>2, <2>3, <2>4, RenewalFences
<1>3. ASSUME NEW from \in RenewPoints, NEW to \in CommitPoints,
             to = "commit_success" => from = "renew_final", Renewed(w, from, to)
      PROVE  Fenced'
  <2>1. worker' = [worker EXCEPT ![w] =
                      [@ EXCEPT !.pc = to, !.outcome = worker[w].outcome]]
    BY <1>1, <1>3 DEF Renewed, WorkerState
  <2> QED
    BY <1>3, <2>1, RenewalFences DEF Renewed
<1>4. CASE RenewBefore(w)
  BY <1>3, <1>4 DEF RenewBefore, RenewPoints, CommitPoints
<1>5. CASE RenewAfter(w)
  BY <1>3, <1>5 DEF RenewAfter, RenewPoints, CommitPoints
<1>6. CASE RenewFinal(w)
  BY <1>3, <1>6 DEF RenewFinal, RenewPoints, CommitPoints
<1> QED
  BY <1>2, <1>4, <1>5, <1>6

(* The runner touches nothing.                                             *)
LEMMA RunStepFences ==
    ASSUME TypeInv, Fenced, NEW w \in Workers, RunStep(w),
           UNCHANGED <<scheduler, request>>
    PROVE  Fenced'
<1>1. PICK outcome : worker' = [worker EXCEPT ![w].pc = "renew_after",
                                              ![w].outcome = outcome]
  BY DEF RunStep
<1>2. /\ worker'[w].pc = "renew_after"
      /\ worker'[w].index = worker[w].index
      /\ worker'[w].attempt_count = worker[w].attempt_count
      /\ worker'[w].accumulated_output = worker[w].accumulated_output
      /\ worker'[w].step_rows = worker[w].step_rows
      /\ worker'[w].execution = worker[w].execution
      /\ worker'[w].lease_token = worker[w].lease_token
      /\ \A v \in Workers \ {w} : worker'[v] = worker[v]
  BY <1>1, WorkerFacts DEF TypeInv, WorkerInv, WorkerTypeOK, WorkerState
<1>3. UNCHANGED <<executions, step_executions, failure_records, tokens, lease_past>>
  BY DEF RunStep, dbVars, leaseClock
<1>4. WorkerFits(w) /\ worker[w].pc = "run" /\ Claimed(w) /\ Claimed(w)'
  BY <1>2 DEF Fenced, Claimed, RunStep
<1>5. RowOf(w)' = RowOf(w) /\ (SessionAgrees(w) => SessionAgrees(w)')
  BY <1>2, <1>3 DEF SessionAgrees, RowOf
<1>6. WorkerFits(w)'
  BY <1>2, <1>3, <1>4, <1>5 DEF WorkerFits, CommitPoints
<1> QED
  BY <1>2, <1>3, <1>4, <1>6, OnlyWorkerMoves

(* What a worker between a renewal and its commit may rely on.             *)
LEMMA CommittingFacts ==
    ASSUME TypeInv, Fenced, NEW w \in Workers, worker[w].pc \in CommitPoints
    PROVE  /\ Claimed(w)
           /\ worker[w] \in WorkerState
           /\ worker[w].execution \in Executions
           /\ RowOf(w) \in Execution
           /\ step_executions[worker[w].execution] \in [StepIndex -> StepStatus]
           /\ RowOf(w).status \in {"running", "cancelled"}
           /\ RowOf(w).lease_token = worker[w].lease_token
           /\ worker[w].lease_token # 0
           /\ worker[w].lease_token <= tokens[worker[w].execution]
           /\ SessionAgrees(w)
<1>1. Claimed(w) /\ worker[w].pc # "load" /\ worker[w].pc # "idle"
  BY DEF CommitPoints, Claimed
<1>2. WorkerFits(w)
  BY DEF Fenced
<1>3. /\ RowOf(w).lease_token = worker[w].lease_token
      /\ worker[w].lease_token # 0
      /\ worker[w].lease_token <= tokens[worker[w].execution]
      /\ SessionAgrees(w)
  BY <1>1, <1>2 DEF WorkerFits
<1>4. worker[w].execution \in Executions
  BY <1>1, WorkerFacts
<1>5. RowOf(w).status \in {"running", "cancelled"}
  BY <1>3, <1>4 DEF Fenced, RowFits, RowOf
<1> QED
  BY <1>1, <1>3, <1>4, <1>5, WorkerFacts

(* A commit under a lease writes the row of its execution and no other.    *)
LEMMA LeasedWriteFences ==
    ASSUME TypeInv, TypeInv', Fenced, NEW w \in Workers,
           worker[w].pc \in CommitPoints,
           \A v \in Workers \ {w} : worker'[v] = worker[v],
           Claimed(w)' => /\ worker'[w].execution = worker[w].execution
                          /\ worker'[w].lease_token = worker[w].lease_token,
           WorkerFits(w)',
           lease_past' \subseteq lease_past,
           UNCHANGED <<tokens, scheduler, request>>,
           NEW e, e = worker[w].execution,
           \A f \in Executions \ {e} : Kept(f),
           executions'[e].lease_token \in {0, executions[e].lease_token},
           executions'[e].attempt_count = executions[e].attempt_count,
           RowFits(e)', Order(e)', Justified(e)'
    PROVE  Fenced'
<1>1. /\ Claimed(w) /\ e \in Executions
      /\ executions[e].status # "dead_letter"
      /\ executions[e].lease_token = worker[w].lease_token
  BY CommittingFacts DEF RowOf
<1>2. tokens[e] <= tokens'[e]
  BY <1>1 DEF TypeInv, TypeOK, DatabaseTypeOK
<1>3. \A v \in Workers \ {w} : WorkerFits(v)'
  BY <1>1, OthersStandBy DEF RowOf
<1>4. TokensDiffer'
  BY <1>1, TokensStayDifferent DEF Fenced
<1>5. \A f \in Executions : RowFits(f)' /\ Order(f)' /\ Justified(f)'
  BY <1>1, RowsKept
<1>6. \/ executions'[e].lease_token \notin 1 .. tokens[e]
      \/ /\ executions'[e].lease_token = executions[e].lease_token
         /\ executions'[e].attempt_count = executions[e].attempt_count
  OBVIOUS
<1>7. \A s \in Schedulers :
         \A entry \in scheduler'[s].reaping : EntryFits(entry)'
  BY <1>1, <1>2, <1>6, EntriesKept
<1>8. \A o \in Operators : RequestFits(o)'
  BY <1>1, RequestsKept
<1> QED
  BY <1>3, <1>4, <1>5, <1>7, <1>8 DEF Fenced

(* The row of the current step is set to running.                          *)
LEMMA BeginStepFences ==
    ASSUME TypeInv, TypeInv', Fenced, NEW w \in Workers, BeginStep(w),
           UNCHANGED <<scheduler, request>>
    PROVE  Fenced'
<1>0. PICK e : e = worker[w].execution
  OBVIOUS
<1> DEFINE i == worker[w].index
           stored == step_executions[e]
           running == [stored EXCEPT ![i] = "running"]
<1>1. worker[w].pc \in CommitPoints /\ i \in StepIndex
  BY WorkerFacts DEF BeginStep, CommitPoints, StepPoints
<1>2. /\ Claimed(w) /\ e \in Executions /\ SessionAgrees(w)
      /\ stored \in [StepIndex -> StepStatus] /\ worker[w] \in WorkerState
      /\ WorkerFits(w)
      /\ RowOf(w) \in Execution /\ RowOf(w).status \in {"running", "cancelled"}
  BY <1>0, <1>1, CommittingFacts DEF Fenced
<1>3. worker[w].step_rows = stored /\ i = executions[e].current_step
  BY <1>0, <1>2 DEF SessionAgrees, RowOf
<1>4. step_executions' = [step_executions EXCEPT ![e] = running]
  BY <1>0, <1>3 DEF BeginStep, Assign
<1>5. /\ step_executions'[e] = running
      /\ \A f \in Executions \ {e} : step_executions'[f] = step_executions[f]
  BY <1>0, <1>2, <1>4 DEF TypeInv, TypeOK, DatabaseTypeOK
<1>6. /\ worker'[w].pc = "run"
      /\ worker'[w].step_rows = running
      /\ worker'[w].index = i
      /\ worker'[w].attempt_count = worker[w].attempt_count
      /\ worker'[w].accumulated_output = worker[w].accumulated_output
      /\ worker'[w].execution = e
      /\ worker'[w].lease_token = worker[w].lease_token
      /\ \A v \in Workers \ {w} : worker'[v] = worker[v]
  BY <1>0, <1>2, <1>3 DEF BeginStep, TypeInv, WorkerInv, WorkerTypeOK, WorkerState
<1>7. UNCHANGED <<executions, failure_records, tokens, lease_past>>
  BY DEF BeginStep, leaseClock
<1>8. \A f \in Executions \ {e} : Kept(f)
  BY <1>0, <1>5, <1>7 DEF Kept
<1>9. RowFits(e)' /\ Justified(e)'
  BY <1>0, <1>2, <1>7 DEF Fenced, RowFits, Justified
<1>10. Order(e)'
  <2>1. \A j \in StepIndex : running[j] = IF j = i THEN "running" ELSE stored[j]
    BY <1>0, <1>2
  <2>2. Order(e)
    BY <1>0, <1>2 DEF Fenced
  <2> QED
    BY <1>1, <1>3, <1>5, <1>7, <2>1, <2>2, StepsAssumption DEF Order, StepIndex
<1>11. SessionAgrees(w)'
  BY <1>0, <1>2, <1>5, <1>6, <1>7 DEF SessionAgrees, RowOf
<1>12. WorkerFits(w)'
  BY <1>0, <1>2, <1>6, <1>7, <1>11 DEF WorkerFits, Claimed, CommitPoints
<1> QED
  BY <1>0, <1>1, <1>6, <1>7, <1>8, <1>9, <1>10, <1>12, LeasedWriteFences

(* A completed step moves current_step, the step row and the output on     *)
(* together.                                                               *)
LEMMA CommitStepFences ==
    ASSUME TypeInv, TypeInv', Fenced, NEW w \in Workers, CommitStep(w),
           UNCHANGED <<scheduler, request>>
    PROVE  Fenced'
<1>0. PICK e : e = worker[w].execution
  OBVIOUS
<1> DEFINE i == worker[w].index
           stored == step_executions[e]
           rows == [stored EXCEPT ![i] = "succeeded"]
           merged == worker[w].accumulated_output \cup {i}
           row == executions[e]
<1>1. worker[w].pc \in CommitPoints /\ i \in StepIndex
  BY WorkerFacts DEF CommitStep, CommitPoints, StepPoints
<1>2. /\ Claimed(w) /\ e \in Executions /\ SessionAgrees(w)
      /\ stored \in [StepIndex -> StepStatus] /\ worker[w] \in WorkerState
      /\ row \in Execution /\ row.status \in {"running", "cancelled"}
  BY <1>0, <1>1, CommittingFacts DEF RowOf
<1>3. /\ worker[w].step_rows = stored /\ i = row.current_step
      /\ worker[w].accumulated_output = row.output_payload
      /\ worker[w].attempt_count = row.attempt_count
  BY <1>0, <1>2 DEF SessionAgrees, RowOf
<1>4. /\ executions'[e].current_step = i + 1
      /\ executions'[e].output_payload = merged
      /\ executions'[e].status = row.status
      /\ executions'[e].attempt_count = row.attempt_count
      /\ executions'[e].lease_token = row.lease_token
      /\ \A f \in Executions \ {e} : executions'[f] = executions[f]
  <2>1. executions \in [Executions -> Execution]
    BY DEF TypeInv, TypeOK, DatabaseTypeOK
  <2>2. Assign(row.output_payload, worker[w].accumulated_output, merged) = merged
    BY <1>3 DEF Assign
  <2> HIDE DEF merged
  <2>3. executions' = [executions EXCEPT
           ![e].current_step = i + 1,
           ![e].output_payload = Assign(@, worker[w].accumulated_output, merged)]
    BY <1>0 DEF CommitStep, merged
  <2>4. /\ executions'[e] = [row EXCEPT !.current_step = i + 1,
                                       !.output_payload = merged]
        /\ \A f \in Executions \ {e} : executions'[f] = executions[f]
    BY <1>2, <2>1, <2>2, <2>3
  <2> QED
    BY <1>2, <2>4 DEF Execution
<1>5. /\ step_executions'[e] = rows
      /\ \A f \in Executions \ {e} : step_executions'[f] = step_executions[f]
  BY <1>0, <1>2 DEF CommitStep, TypeInv, TypeOK, DatabaseTypeOK
<1>6. /\ worker'[w].pc = LoopPoint(i + 1)
      /\ worker'[w].step_rows = rows
      /\ worker'[w].index = i + 1
      /\ worker'[w].attempt_count = worker[w].attempt_count
      /\ worker'[w].accumulated_output = merged
      /\ worker'[w].execution = e
      /\ worker'[w].lease_token = worker[w].lease_token
      /\ \A v \in Workers \ {w} : worker'[v] = worker[v]
  <2>1. worker \in [Workers -> WorkerState]
    BY DEF TypeInv, WorkerInv, WorkerTypeOK
  <2>2. PICK point, next, output :
           /\ point = LoopPoint(i + 1) /\ next = i + 1 /\ output = merged
           /\ worker' = [worker EXCEPT ![w].pc = point, ![w].index = next,
                                       ![w].accumulated_output = output,
                                       ![w].step_rows[i] = "succeeded",
                                       ![w].outcome = "none"]
    BY DEF CommitStep
  <2> HIDE DEF merged
  <2>3. /\ worker'[w].pc = point
        /\ worker'[w].index = next
        /\ worker'[w].accumulated_output = output
        /\ worker'[w].step_rows = [worker[w].step_rows EXCEPT ![i] = "succeeded"]
    BY <1>2, <2>1, <2>2 DEF WorkerState
  <2>4. /\ worker'[w].attempt_count = worker[w].attempt_count
        /\ worker'[w].execution = worker[w].execution
        /\ worker'[w].lease_token = worker[w].lease_token
        /\ \A v \in Workers \ {w} : worker'[v] = worker[v]
    BY <1>2, <2>1, <2>2 DEF WorkerState
  <2> QED
    BY <1>0, <1>3, <2>2, <2>3, <2>4
<1>7. UNCHANGED <<failure_records, tokens, lease_past>>
  BY DEF CommitStep, leaseClock
<1>8. \A f \in Executions \ {e} : Kept(f)
  BY <1>4, <1>5, <1>7 DEF Kept
<1>9. RowFits(e)' /\ Justified(e)'
  BY <1>2, <1>4, <1>7 DEF Fenced, RowFits, Justified
<1>10. Order(e)'
  <2>1. \A j \in StepIndex : rows[j] = IF j = i THEN "succeeded" ELSE stored[j]
    BY <1>2
  <2>2. Order(e)
    BY <1>2 DEF Fenced
  <2>3. \A j \in StepIndex : /\ j < i + 1 <=> rows[j] = "succeeded"
                             /\ j > i + 1 => rows[j] = "absent"
    BY <1>1, <1>3, <2>1, <2>2, StepsAssumption DEF Order, StepIndex
  <2>4. merged = {j \in StepIndex : j < i + 1}
    BY <1>1, <1>3, <2>2, StepsAssumption DEF Order, StepIndex
  <2> QED
    BY <1>2, <1>4, <1>5, <2>3, <2>4 DEF Order
<1>11. SessionAgrees(w)'
  BY <1>3, <1>4, <1>5, <1>6 DEF SessionAgrees, RowOf
<1>12. worker'[w].pc = "renew_final" => worker'[w].index = NumSteps
  BY <1>1, <1>6, StepsAssumption DEF LoopPoint, StepIndex
<1>13. worker'[w].pc \in {"renew_before", "renew_final"}
  BY <1>6 DEF LoopPoint
<1>14. WorkerFits(w)
  BY DEF Fenced
<1>15. WorkerFits(w)'
  BY <1>0, <1>2, <1>6, <1>7, <1>11, <1>12, <1>13, <1>14
  DEF WorkerFits, Claimed, CommitPoints
<1> QED
  BY <1>0, <1>1, <1>4, <1>6, <1>7, <1>8, <1>9, <1>10, <1>15, LeasedWriteFences

(* A worker that ends its run goes idle; its token leaves the row.         *)
LEMMA EndingFences ==
    ASSUME TypeInv, TypeInv', Fenced, NEW w \in Workers,
           worker[w].pc \in CommitPoints,
           worker' = [worker EXCEPT ![w] = Idle],
           UNCHANGED <<tokens, scheduler, request>>,
           NEW e, e = worker[w].execution, LeaseExpiryWritten(e),
           \A f \in Executions \ {e} : Kept(f),
           executions'[e].status # "running",
           executions'[e].lease_token = 0,
           executions'[e].attempt_count = executions[e].attempt_count,
           Order(e)', Justified(e)'
    PROVE  Fenced'
<1>1. /\ worker'[w].pc = "idle"
      /\ \A v \in Workers \ {w} : worker'[v] = worker[v]
  BY IdleType DEF TypeInv, WorkerInv, WorkerTypeOK
<1>2. WorkerFits(w)' /\ ~Claimed(w)'
  BY <1>1 DEF WorkerFits, Claimed, CommitPoints
<1>3. e \in Executions
  BY CommittingFacts
<1>4. RowFits(e)'
  BY <1>3 DEF RowFits, TypeInv, TypeOK, DatabaseTypeOK
<1> QED
  BY <1>1, <1>2, <1>4, LeasedWriteFences DEF LeaseExpiryWritten

(* A success is committed with every step completed.                       *)
LEMMA CommitSuccessFences ==
    ASSUME TypeInv, TypeInv', Fenced, NEW w \in Workers, CommitSuccess(w),
           UNCHANGED <<scheduler, request>>
    PROVE  Fenced'
<1>0. PICK e : e = worker[w].execution
  OBVIOUS
<1> DEFINE row == executions[e]
<1>1. worker[w].pc \in CommitPoints
  BY DEF CommitSuccess, CommitPoints
<1>2. /\ e \in Executions /\ SessionAgrees(w) /\ row \in Execution
  BY <1>0, <1>1, CommittingFacts DEF RowOf
<1>3. row.current_step = NumSteps
  BY <1>0, <1>2 DEF Fenced, WorkerFits, SessionAgrees, RowOf, CommitSuccess
<1>4. /\ executions'[e].current_step = row.current_step
      /\ executions'[e].output_payload = row.output_payload
      /\ executions'[e].status = "succeeded"
      /\ executions'[e].attempt_count = row.attempt_count
      /\ executions'[e].lease_token = 0
      /\ \A f \in Executions \ {e} : executions'[f] = executions[f]
  BY <1>0, <1>2
  DEF CommitSuccess, SuccessValues, TypeInv, TypeOK, DatabaseTypeOK, Execution
<1>5. UNCHANGED <<step_executions, failure_records, tokens>>
  BY DEF CommitSuccess
<1>6. \A f \in Executions \ {e} : Kept(f)
  BY <1>4, <1>5 DEF Kept
<1>7. Order(e)'
  BY <1>2, <1>3, <1>4, <1>5 DEF Fenced, Order
<1>8. Justified(e)'
  BY <1>4 DEF Justified
<1>9. worker' = [worker EXCEPT ![w] = Idle] /\ LeaseExpiryWritten(e)
  BY <1>0 DEF CommitSuccess
<1> QED
  BY <1>0, <1>1, <1>4, <1>5, <1>6, <1>7, <1>8, <1>9, EndingFences

(* The row a failure leaves behind, whatever the row has become since it   *)
(* was loaded.                                                             *)
LEMMA FailedRow ==
    ASSUME TypeInv, NEW w \in Workers, FailExecution(w),
           NEW e, e = worker[w].execution
    PROVE  /\ e \in Executions /\ executions[e] \in Execution
           /\ executions'[e].current_step = executions[e].current_step
           /\ executions'[e].output_payload = executions[e].output_payload
           /\ executions'[e].attempt_count = executions[e].attempt_count
           /\ executions'[e].lease_token = 0
           /\ \/ executions'[e].status = "retry_scheduled"
              \/ executions'[e].status = "dead_letter" /\ ~Retryable(w)
           /\ failure_records'[e] = IF TransientOutcome(worker[w].outcome)
                                    THEN "transient" ELSE "permanent"
           /\ \A f \in Executions \ {e} :
                 /\ executions'[f] = executions[f]
                 /\ failure_records'[f] = failure_records[f]
<1> DEFINE row == executions[e]
           failed == FailureValues(row, worker[w].last_error_code,
                                   ErrorCodeOf(worker[w].outcome))
<1>1. e \in Executions /\ row \in Execution
  BY WorkerFacts DEF FailExecution, RowOf
<1>2. /\ failed.current_step = row.current_step
      /\ failed.output_payload = row.output_payload
      /\ failed.attempt_count = row.attempt_count
      /\ failed.lease_token = 0
      /\ failed \in Execution
  <2>1. ErrorCodeOf(worker[w].outcome) \in ErrorCode
    BY DEF ErrorCodeOf, ErrorCode
  <2>2. worker[w].last_error_code \in ErrorCode
    BY WorkerFacts DEF WorkerState
  <2>3. failed \in Execution
    BY <1>1, <2>1, <2>2, FailureValuesType
  <2> QED
    BY <1>1, <2>3 DEF FailureValues, Execution
<1>3. \/ /\ executions' = [executions EXCEPT
               ![e] = [failed EXCEPT !.status = "retry_scheduled",
                                     !.next_retry_at = TRUE]]
      \/ /\ executions' = [executions EXCEPT
               ![e] = [failed EXCEPT !.status = "dead_letter",
                                     !.finished_at = TRUE]]
         /\ ~Retryable(w)
  BY DEF FailExecution
<1> HIDE DEF failed
<1>4. executions \in [Executions -> Execution]
  BY DEF TypeInv, TypeOK, DatabaseTypeOK
<1>5. \A new : executions' = [executions EXCEPT ![e] = new] =>
         /\ executions'[e] = new
         /\ \A f \in Executions \ {e} : executions'[f] = executions[f]
  BY <1>1, <1>4
<1>6. /\ failure_records'[e] = IF TransientOutcome(worker[w].outcome)
                               THEN "transient" ELSE "permanent"
      /\ \A f \in Executions \ {e} : failure_records'[f] = failure_records[f]
  BY <1>1 DEF FailExecution, AddFailure, TypeInv, TypeOK, DatabaseTypeOK
<1>7. CASE executions' = [executions EXCEPT
              ![e] = [failed EXCEPT !.status = "retry_scheduled",
                                    !.next_retry_at = TRUE]]
  <2>1. executions'[e] = [failed EXCEPT !.status = "retry_scheduled",
                                        !.next_retry_at = TRUE]
    BY <1>5, <1>7
  <2>2. executions'[e].status = "retry_scheduled"
    BY <1>2, <2>1 DEF Execution
  <2>3. /\ executions'[e].current_step = failed.current_step
        /\ executions'[e].output_payload = failed.output_payload
        /\ executions'[e].attempt_count = failed.attempt_count
        /\ executions'[e].lease_token = failed.lease_token
    BY <1>2, <2>1 DEF Execution
  <2> QED
    BY <1>1, <1>2, <1>5, <1>6, <1>7, <2>2, <2>3
<1>8. CASE /\ executions' = [executions EXCEPT
                 ![e] = [failed EXCEPT !.status = "dead_letter",
                                       !.finished_at = TRUE]]
           /\ ~Retryable(w)
  <2>1. executions'[e] = [failed EXCEPT !.status = "dead_letter",
                                        !.finished_at = TRUE]
    BY <1>5, <1>8
  <2>2. executions'[e].status = "dead_letter"
    BY <1>2, <2>1 DEF Execution
  <2>3. /\ executions'[e].current_step = failed.current_step
        /\ executions'[e].output_payload = failed.output_payload
        /\ executions'[e].attempt_count = failed.attempt_count
        /\ executions'[e].lease_token = failed.lease_token
    BY <1>2, <2>1 DEF Execution
  <2> QED
    BY <1>1, <1>2, <1>5, <1>6, <1>8, <2>2, <2>3
<1> QED
  BY <1>3, <1>7, <1>8

(* A failure: the attempts it is judged by are those of the row.           *)
LEMMA FailExecutionFences ==
    ASSUME TypeInv, TypeInv', Fenced, NEW w \in Workers, FailExecution(w),
           UNCHANGED <<scheduler, request>>
    PROVE  Fenced'
<1>0. PICK e : e = worker[w].execution
  OBVIOUS
<1> DEFINE i == worker[w].index
           row == executions[e]
           stored == step_executions[e]
           transient == TransientOutcome(worker[w].outcome)
<1>1. worker[w].pc \in CommitPoints /\ i \in StepIndex
  BY WorkerFacts DEF FailExecution, CommitPoints, StepPoints
<1>2. /\ e \in Executions /\ SessionAgrees(w) /\ row \in Execution
      /\ stored \in [StepIndex -> StepStatus]
  BY <1>0, <1>1, CommittingFacts DEF RowOf
<1>3. i = row.current_step /\ worker[w].attempt_count = row.attempt_count
  BY <1>0, <1>2 DEF SessionAgrees, RowOf
<1>4. /\ executions'[e].current_step = row.current_step
      /\ executions'[e].output_payload = row.output_payload
      /\ executions'[e].attempt_count = row.attempt_count
      /\ executions'[e].lease_token = 0
      /\ \/ executions'[e].status = "retry_scheduled"
         \/ executions'[e].status = "dead_letter" /\ ~Retryable(w)
      /\ \A f \in Executions \ {e} : executions'[f] = executions[f]
  BY <1>0, FailedRow
<1>5. /\ failure_records'[e] = IF transient THEN "transient" ELSE "permanent"
      /\ \A f \in Executions \ {e} : failure_records'[f] = failure_records[f]
  BY <1>0, FailedRow
<1>6. /\ \A j \in StepIndex \ {i} : step_executions'[e][j] = stored[j]
      /\ step_executions'[e][i] \in {"failed", stored[i]}
      /\ \A f \in Executions \ {e} : step_executions'[f] = step_executions[f]
  <2>1. step_executions \in [Executions -> [StepIndex -> StepStatus]]
    BY DEF TypeInv, TypeOK, DatabaseTypeOK
  <2>2. \/ step_executions' = step_executions
        \/ step_executions' = [step_executions EXCEPT ![e][i] = "failed"]
    BY <1>0 DEF FailExecution, FailedStep
  <2> QED
    BY <1>1, <1>2, <2>1, <2>2
<1>7. \A f \in Executions \ {e} : Kept(f)
  BY <1>4, <1>5, <1>6 DEF Kept, FailExecution
<1>8. Order(e)'
  <2>1. Order(e)
    BY <1>2 DEF Fenced
  <2>2. i \in Nat
    BY <1>1, StepsAssumption DEF StepIndex
  <2> QED
    BY <1>1, <1>3, <1>4, <1>6, <2>1, <2>2 DEF Order
<1>9. Justified(e)'
  BY <1>2, <1>3, <1>4, <1>5, AttemptsAssumption DEF Justified, Retryable, Execution
<1>10. /\ worker' = [worker EXCEPT ![w] = Idle] /\ LeaseExpiryWritten(e)
       /\ UNCHANGED tokens
  BY <1>0 DEF FailExecution
<1> QED
  BY <1>0, <1>1, <1>4, <1>7, <1>8, <1>9, <1>10, EndingFences

(* A claim draws a token nobody has seen.                                  *)
LEMMA ClaimFences ==
    ASSUME TypeInv, TypeInv', Fenced, NEW w \in Workers, Claim(w),
           UNCHANGED <<scheduler, request>>
    PROVE  Fenced'
<1>0. PICK e : e = worker[w].execution
  OBVIOUS
<1> DEFINE row == executions[e]
           token == tokens[e] + 1
<1>1. /\ e \in Executions /\ row \in Execution /\ tokens[e] \in Nat
      /\ worker[w] \in WorkerState /\ worker[w].pc = "claim"
  BY <1>0, WorkerFacts DEF Claim, RowOf, TypeInv, TypeOK, DatabaseTypeOK
<1>2. row.status = "queued" /\ row.lease_token = 0
  BY <1>0, <1>1 DEF Claim, ClaimWhere, Fenced, RowFits
<1>3. /\ executions'[e].current_step = row.current_step
      /\ executions'[e].output_payload = row.output_payload
      /\ executions'[e].status = "running"
      /\ executions'[e].lease_token = token
      /\ \A f \in Executions \ {e} : executions'[f] = executions[f]
  BY <1>0, <1>1
  DEF Claim, ClaimValues, TypeInv, TypeOK, DatabaseTypeOK, Execution
<1>4. /\ tokens'[e] = token
      /\ \A f \in Executions \ {e} : tokens'[f] = tokens[f]
      /\ UNCHANGED <<step_executions, failure_records>>
      /\ lease_past' \subseteq lease_past
  BY <1>0, <1>1
  DEF Claim, LeaseExpiryWritten, TypeInv, TypeOK, DatabaseTypeOK
<1>5. /\ worker'[w].pc = "load"
      /\ worker'[w].execution = e
      /\ worker'[w].lease_token = token
      /\ \A v \in Workers \ {w} : worker'[v] = worker[v]
  BY <1>0, <1>1 DEF Claim, TypeInv, WorkerInv, WorkerTypeOK, WorkerState
<1>6. \A f \in Executions \ {e} : Kept(f)
  BY <1>3, <1>4 DEF Kept
<1>7. tokens[e] <= tokens'[e] /\ token # 0 /\ token \notin 1 .. tokens[e]
  BY <1>1, <1>4
<1>8. ASSUME NEW v \in Workers \ {w}, Claimed(v), worker[v].execution = e
      PROVE  worker[v].lease_token \in 1 .. tokens[e]
  BY <1>1, <1>8, WorkerFacts DEF Fenced, WorkerFits, WorkerState
<1>9. ASSUME NEW v \in Workers \ {w} PROVE WorkerFits(v)'
  <2>1. WorkerFits(v)
    BY DEF Fenced
  <2>2. Claimed(v) /\ worker[v].execution = e =>
           /\ executions'[e].lease_token # worker[v].lease_token
           /\ worker[v].pc \notin CommitPoints
    BY <1>2, <1>3, <1>7, <1>8, <2>1 DEF WorkerFits, RowOf
  <2> QED
    BY <1>1, <1>4, <1>5, <1>6, <1>7, <2>1, <2>2, Bystander
<1>10. WorkerFits(w)'
  BY <1>1, <1>4, <1>5, <1>7 DEF WorkerFits, CommitPoints
<1>11. TokensDiffer'
  BY <1>5, <1>7, <1>8 DEF Fenced, TokensDiffer, Claimed
<1>12. RowFits(e)' /\ Order(e)' /\ Justified(e)'
  <2>1. RowFits(e)'
    BY <1>1, <1>3, <1>4, <1>7 DEF RowFits
  <2>2. Order(e)'
    BY <1>1, <1>3, <1>4 DEF Fenced, Order
  <2> QED
    BY <1>3, <2>1, <2>2 DEF Justified
<1>13. \A f \in Executions : RowFits(f)' /\ Order(f)' /\ Justified(f)'
  BY <1>1, <1>6, <1>12, RowsKept
<1>14. \A s \in Schedulers :
          \A entry \in scheduler'[s].reaping : EntryFits(entry)'
  BY <1>1, <1>3, <1>6, <1>7, EntriesKept
<1>15. \A o \in Operators : RequestFits(o)'
  BY <1>1, <1>2, <1>6, RequestsKept
<1> QED
  BY <1>9, <1>10, <1>11, <1>13, <1>14, <1>15 DEF Fenced

(* Every step of a worker keeps the fence.                                 *)
LEMMA WorkerFences ==
    ASSUME TypeInv, TypeInv', Fenced, NEW w \in Workers,
           WorkerRuns(w) \/ WorkerFault(w)
    PROVE  Fenced'
<1>1. UNCHANGED <<scheduler, request>>
  BY DEF WorkerRuns, WorkerFault, Fault
<1>2. CASE \/ ClaimMiss(w) \/ RenewMiss(w) \/ BeginStepConflict(w)
           \/ WorkerCrash(w)
  BY <1>1, <1>2, GivingUpFences
  DEF ClaimMiss, RenewMiss, BeginStepConflict, WorkerCrash
<1>3. CASE WorkerStep(w) /\ ~\/ ClaimMiss(w) \/ RenewMiss(w)
                             \/ BeginStepConflict(w)
  BY <1>1, <1>3, DequeueFences, ClaimFences, LoadFences, RenewFences,
     BeginStepFences, RunStepFences, CommitStepFences, CommitSuccessFences,
     FailExecutionFences
  DEF WorkerStep
<1> QED
  BY <1>2, <1>3 DEF WorkerRuns, WorkerFault

-----------------------------------------------------------------------------
(* Schedulers                                                              *)

(* A scheduler moves without writing a row; what it has read fits.         *)
LEMMA OnlySchedulerMoves ==
    ASSUME TypeInv, Fenced, NEW s \in Schedulers,
           \A r \in Schedulers \ {s} : scheduler'[r] = scheduler[r],
           UNCHANGED <<executions, step_executions, failure_records, tokens,
                       lease_past, worker, request>>,
           \A entry \in scheduler'[s].reaping : EntryFits(entry)
    PROVE  Fenced'
<1>1. \A w \in Workers : WorkerFits(w)'
  BY Untouched DEF Fenced, Kept
<1>2. TokensDiffer'
  BY DEF Fenced, TokensDiffer, Claimed
<1>3. \A o \in Operators : RequestFits(o)'
  BY DEF Fenced, RequestFits
<1>4. \A r \in Schedulers : \A entry \in scheduler'[r].reaping : EntryFits(entry)
  BY DEF Fenced
<1>5. \A r \in Schedulers : \A entry \in scheduler'[r].reaping : EntryFits(entry)'
  BY <1>4, TablesKept
<1> QED
  BY <1>1, <1>2, <1>3, <1>5, TablesKept DEF Fenced

(* A row that has just been loaded is up to date.                          *)
LEMMA LoadedFits ==
    ASSUME TypeInv, Fenced, NEW e \in Executions
    PROVE  EntryFits(Loaded(e))
BY DEF Fenced, RowFits, EntryFits, Loaded

(* What a reaper has read: the entries it had, or rows as they are now.    *)
LEMMA BatchReads ==
    ASSUME TypeInv, NEW s \in Schedulers,
           \/ ReapSelect(s) \/ ReapMiss(s) \/ ReapReload(s)
           \/ RetrySelect(s) \/ PrepareRetryMiss(s)
           \/ PublishSelect(s) \/ Publish(s) \/ PublishFails(s)
           \/ MarkPublished(s) \/ SchedulerCrash(s)
    PROVE  \A entry \in scheduler'[s].reaping :
              \/ \E x \in scheduler[s].reaping :
                    /\ entry.execution = x.execution
                    /\ entry.lease_token = x.lease_token
                    /\ entry.attempt_count = x.attempt_count
              \/ \E e \in Executions : entry = Loaded(e)
<1>1. scheduler \in [Schedulers -> SchedulerState]
  BY DEF TypeInv, TypeOK, SchedulerTypeOK
<1>2. scheduler[s].reaping \subseteq ReapEntry
  BY <1>1 DEF SchedulerState
<1>3. CASE ReapSelect(s)
  <2> DEFINE expired == {e \in lease_past : /\ executions[e].status = "running"
                                            /\ executions[e].lease_token # 0}
  <2>1. PICK B \in Batches(expired) :
           scheduler' = [scheduler EXCEPT
               ![s].pc = After(B, "reap", "retry_select"),
               ![s].reaping = {Loaded(e) : e \in B}]
    BY <1>3 DEF ReapSelect
  <2>2. B \subseteq Executions
    BY BatchSubset DEF TypeInv, TypeOK, DatabaseTypeOK
  <2>3. scheduler'[s].reaping = {Loaded(e) : e \in B}
    BY <1>1, <2>1 DEF SchedulerState
  <2> QED
    BY <2>2, <2>3
<1>4. CASE ReapMiss(s)
  <2>1. PICK missed \in scheduler[s].reaping :
           LET rest == {[x EXCEPT !.loaded = FALSE] :
                           x \in scheduler[s].reaping \ {missed}}
           IN  scheduler' = [scheduler EXCEPT
                   ![s].pc = After(rest, "reap", "retry_select"),
                   ![s].reaping = rest]
    BY <1>4 DEF ReapMiss
  <2>2. scheduler'[s].reaping =
           {[x EXCEPT !.loaded = FALSE] : x \in scheduler[s].reaping \ {missed}}
    BY <1>1, <2>1 DEF SchedulerState
  <2>3. \A x \in ReapEntry :
           LET old == [x EXCEPT !.loaded = FALSE]
           IN  /\ old.execution = x.execution
               /\ old.lease_token = x.lease_token
               /\ old.attempt_count = x.attempt_count
    BY DEF ReapEntry
  <2> SUFFICES ASSUME NEW entry \in scheduler'[s].reaping
               PROVE  \E x \in scheduler[s].reaping :
                         /\ entry.execution = x.execution
                         /\ entry.lease_token = x.lease_token
                         /\ entry.attempt_count = x.attempt_count
    OBVIOUS
  <2>4. PICK x \in scheduler[s].reaping : entry = [x EXCEPT !.loaded = FALSE]
    BY <2>2
  <2> QED
    BY <1>2, <2>3, <2>4
<1>5. CASE ReapReload(s)
  <2>1. PICK entry \in scheduler[s].reaping :
           LET fresh == Loaded(entry.execution)
               rest == (scheduler[s].reaping \ {entry})
                           \cup {x \in {fresh} : x.lease_token # 0}
           IN  scheduler' = [scheduler EXCEPT
                   ![s].pc = After(rest, "reap", "retry_select"),
                   ![s].reaping = rest]
    BY <1>5 DEF ReapReload
  <2>2. scheduler'[s].reaping \subseteq
           scheduler[s].reaping \cup {Loaded(entry.execution)}
    BY <1>1, <2>1 DEF SchedulerState
  <2>3. entry.execution \in Executions
    BY <1>2 DEF ReapEntry
  <2> QED
    BY <2>2, <2>3
<1>6. CASE \/ RetrySelect(s) \/ PrepareRetryMiss(s) \/ PublishSelect(s)
           \/ Publish(s) \/ PublishFails(s) \/ MarkPublished(s)
           \/ SchedulerCrash(s)
  <2>1. scheduler'[s].reaping \subseteq scheduler[s].reaping
    <3>1. CASE RetrySelect(s) \/ PublishSelect(s)
      <4>1. PICK point, B :
               \/ scheduler' = [scheduler EXCEPT ![s].pc = point,
                                                 ![s].retrying = B]
               \/ scheduler' = [scheduler EXCEPT ![s].pc = point,
                                                 ![s].publishing = B]
        BY <3>1 DEF RetrySelect, PublishSelect
      <4> QED
        BY <1>1, <4>1 DEF SchedulerState
    <3>2. CASE PrepareRetryMiss(s)
      BY <1>1, <3>2 DEF PrepareRetryMiss, PreparedRetry, SchedulerState
    <3>3. CASE Publish(s) \/ PublishFails(s)
      <4>1. CASE Publish(s)
        <5>1. PICK record \in scheduler[s].publishing :
                 scheduler' = [scheduler EXCEPT
                     ![s].pc = "mark_published",
                     ![s].publishing = @ \ {record},
                     ![s].marking = {record}]
          BY <4>1 DEF Publish
        <5> QED
          BY <1>1, <5>1 DEF SchedulerState
      <4>2. CASE PublishFails(s)
        <5>1. PICK rest : scheduler' = [scheduler EXCEPT
                             ![s].pc = After(rest, "publish", "reap_select"),
                             ![s].publishing = rest]
          BY <4>2 DEF PublishFails
        <5> QED
          BY <1>1, <5>1 DEF SchedulerState
      <4> QED
        BY <3>3, <4>1, <4>2
    <3>4. CASE MarkPublished(s) \/ SchedulerCrash(s)
      BY <1>1, <3>4 DEF MarkPublished, SchedulerCrash, CycleStart, SchedulerState
    <3> QED
      BY <1>6, <3>1, <3>2, <3>3, <3>4
  <2> QED
    BY <2>1
<1> QED
  BY <1>3, <1>4, <1>5, <1>6

(* The scheduler's steps that write no row.                                *)
LEMMA ReadingFences ==
    ASSUME TypeInv, Fenced, NEW s \in Schedulers,
           \/ ReapSelect(s) \/ ReapMiss(s) \/ ReapReload(s)
           \/ RetrySelect(s) \/ PrepareRetryMiss(s)
           \/ PublishSelect(s) \/ Publish(s) \/ PublishFails(s)
           \/ MarkPublished(s) \/ SchedulerCrash(s),
           UNCHANGED <<worker, request>>
    PROVE  Fenced'
<1>1. scheduler \in [Schedulers -> SchedulerState]
  BY DEF TypeInv, TypeOK, SchedulerTypeOK
<1>2. \A entry \in scheduler[s].reaping :
         EntryFits(entry) /\ entry \in ReapEntry
  BY <1>1 DEF Fenced, SchedulerState
<1>3. UNCHANGED <<executions, step_executions, failure_records, tokens,
                  lease_past>>
  BY DEF ReapSelect, ReapMiss, ReapReload, RetrySelect, PrepareRetryMiss,
         PublishSelect, Publish, PublishFails, MarkPublished, SchedulerCrash,
         dbVars, leaseClock
<1>4. \A r \in Schedulers \ {s} : scheduler'[r] = scheduler[r]
  BY <1>1 DEF ReapSelect, ReapMiss, ReapReload, RetrySelect, PrepareRetryMiss,
              PreparedRetry, PublishSelect, Publish, PublishFails,
              MarkPublished, SchedulerCrash
<1>5. \A entry \in scheduler'[s].reaping : EntryFits(entry)
  <2>1. \A entry, x : (/\ EntryFits(x)
                       /\ entry.execution = x.execution
                       /\ entry.lease_token = x.lease_token
                       /\ entry.attempt_count = x.attempt_count)
                          => EntryFits(entry)
    BY DEF EntryFits
  <2> QED
    BY <1>2, <2>1, BatchReads, LoadedFits
<1> QED
  BY <1>3, <1>4, <1>5, OnlySchedulerMoves

(* Somebody who is not a worker gives the row of e another status, when    *)
(* its lease is not there or has run out.                                  *)
LEMMA OutsiderFences ==
    ASSUME TypeInv, TypeInv', Fenced, NEW e \in Executions,
           UNCHANGED <<worker, tokens, step_executions>>,
           lease_past' \subseteq lease_past,
           \A f \in Executions \ {e} : Kept(f),
           executions[e].lease_token = 0 \/ e \in lease_past,
           executions'[e].lease_token = 0,
           executions'[e].status \notin {"running", "succeeded"},
           executions'[e].current_step = executions[e].current_step,
           executions'[e].output_payload = executions[e].output_payload,
           Justified(e)',
           \A s \in Schedulers : scheduler'[s].reaping \subseteq scheduler[s].reaping,
           \A o \in Operators : RequestFits(o)'
    PROVE  Fenced'
<1>1. tokens[e] \in Nat /\ tokens'[e] = tokens[e]
  BY DEF TypeInv, TypeOK, DatabaseTypeOK
<1>2. TokensDiffer' /\ \A w \in Workers : WorkerFits(w)'
  BY WorkersStandBy
<1>3. RowFits(e)'
  BY <1>1 DEF RowFits
<1>4. Order(e)'
  BY DEF Fenced, Order
<1>5. \A f \in Executions : RowFits(f)' /\ Order(f)' /\ Justified(f)'
  BY <1>3, <1>4, RowsKept
<1>6. \A s \in Schedulers :
         \A entry \in scheduler'[s].reaping : EntryFits(entry)'
  BY <1>1, EntriesKept
<1> QED
  BY <1>2, <1>5, <1>6 DEF Fenced

(* A reap: the lease it takes has run out, so nobody is committing under   *)
(* it, and the attempts it judges by are those of the row.                 *)
LEMMA ReapFences ==
    ASSUME TimingInv, TypeInv', Fenced, NEW s \in Schedulers,
           ReapRequeue(s) \/ ReapDeadLetter(s),
           UNCHANGED <<worker, request>>
    PROVE  Fenced'
<1>1. TypeInv
  BY DEF TimingInv
<1>2. scheduler \in [Schedulers -> SchedulerState]
  BY <1>1 DEF TypeInv, TypeOK, SchedulerTypeOK
<1>3. PICK entry \in scheduler[s].reaping :
         /\ ReapWhere(s, entry)
         /\ LeaseExpiryWritten(entry.execution)
         /\ ReapedEntry(s, entry)
         /\ \/ /\ executions' = [executions EXCEPT
                     ![entry.execution] = ReapValues(@, TRUE)]
               /\ UNCHANGED failure_records
            \/ /\ ~ReapRetryable(entry)
               /\ executions' = [executions EXCEPT
                     ![entry.execution] = ReapValues(@, FALSE)]
               /\ AddFailure(entry.execution, "transient")
         /\ UNCHANGED <<step_executions, tokens>>
  BY Zenon DEF ReapRequeue, ReapDeadLetter
<1> DEFINE e == entry.execution
           row == executions[e]
<1>4. /\ entry \in ReapEntry /\ EntryFits(entry)
  BY <1>2 DEF Fenced, SchedulerState
<1>5. e \in Executions /\ row \in Execution
  BY <1>1, <1>4 DEF ReapEntry, TypeInv, TypeOK, DatabaseTypeOK
<1>6. e \in lease_past /\ row.status = "running" /\ row.lease_token # 0
  BY <1>3, <1>5 DEF ReapWhere, TimingInv, ViewsBehind, Fenced, RowFits
<1>7. row.attempt_count = entry.attempt_count
  BY <1>3, <1>4, <1>6 DEF ReapWhere, EntryFits
<1>8. /\ executions'[e].current_step = row.current_step
      /\ executions'[e].output_payload = row.output_payload
      /\ executions'[e].attempt_count = row.attempt_count
      /\ executions'[e].lease_token = 0
      /\ \/ executions'[e].status = "queued"
         \/ executions'[e].status = "dead_letter" /\ ~ReapRetryable(entry)
      /\ \A f \in Executions \ {e} : executions'[f] = executions[f]
  <2>1. \A new : executions' = [executions EXCEPT ![e] = new] =>
           /\ executions'[e] = new
           /\ \A f \in Executions \ {e} : executions'[f] = executions[f]
    BY <1>1, <1>5 DEF TypeInv, TypeOK, DatabaseTypeOK
  <2>2. \A retryable \in BOOLEAN :
           /\ ReapValues(row, retryable).current_step = row.current_step
           /\ ReapValues(row, retryable).output_payload = row.output_payload
           /\ ReapValues(row, retryable).attempt_count = row.attempt_count
           /\ ReapValues(row, retryable).lease_token = 0
           /\ ReapValues(row, retryable).status =
                 IF retryable THEN "queued" ELSE "dead_letter"
    BY <1>5 DEF ReapValues, Execution
  <2>3. \/ executions' = [executions EXCEPT ![e] = ReapValues(row, TRUE)]
        \/ /\ executions' = [executions EXCEPT ![e] = ReapValues(row, FALSE)]
           /\ ~ReapRetryable(entry)
    BY <1>3
  <2> QED
    BY <2>1, <2>2, <2>3
<1>9. \A f \in Executions \ {e} : Kept(f)
  <2>1. \A f \in Executions \ {e} : failure_records'[f] = failure_records[f]
    BY <1>1, <1>3, <1>5 DEF AddFailure, TypeInv, TypeOK, DatabaseTypeOK
  <2> QED
    BY <1>3, <1>8, <2>1 DEF Kept
<1>10. Justified(e)'
  BY <1>4, <1>7, <1>8, AttemptsAssumption DEF Justified, ReapRetryable, ReapEntry
<1>11. \A r \in Schedulers : scheduler'[r].reaping \subseteq scheduler[r].reaping
  BY <1>2, <1>3 DEF ReapedEntry, SchedulerState
<1>12. \A o \in Operators : RequestFits(o)'
  BY <1>1, <1>5, <1>6, <1>9, RequestsKept
<1>13. lease_past' \subseteq lease_past
  BY <1>3 DEF LeaseExpiryWritten
<1> HIDE DEF e
<1> QED
  BY <1>1, <1>3, <1>5, <1>6, <1>8, <1>9, <1>10, <1>11, <1>12, <1>13,
     OutsiderFences

(* A due retry has no lease.                                               *)
LEMMA PrepareRetryFences ==
    ASSUME TypeInv, TypeInv', Fenced, NEW s \in Schedulers, PrepareRetry(s),
           UNCHANGED <<worker, request>>
    PROVE  Fenced'
<1>1. scheduler \in [Schedulers -> SchedulerState]
  BY DEF TypeInv, TypeOK, SchedulerTypeOK
<1>2. PICK e \in scheduler[s].retrying :
         /\ PreparedRetry(s, e)
         /\ RetryWhere(s, e)
         /\ executions' = [executions EXCEPT ![e].status = "queued",
                                             ![e].next_retry_at = FALSE]
         /\ UNCHANGED <<step_executions, failure_records, tokens, leaseClock>>
  BY DEF PrepareRetry
<1>3. e \in Executions /\ executions[e] \in Execution
  BY <1>1 DEF SchedulerState, TypeInv, TypeOK, DatabaseTypeOK
<1>4. executions[e].status = "retry_scheduled" /\ executions[e].lease_token = 0
  BY <1>2, <1>3 DEF RetryWhere, Fenced, RowFits
<1>5. /\ executions'[e].current_step = executions[e].current_step
      /\ executions'[e].output_payload = executions[e].output_payload
      /\ executions'[e].lease_token = executions[e].lease_token
      /\ executions'[e].status = "queued"
      /\ \A f \in Executions \ {e} : executions'[f] = executions[f]
  BY <1>2, <1>3 DEF TypeInv, TypeOK, DatabaseTypeOK, Execution
<1>6. \A f \in Executions \ {e} : Kept(f)
  BY <1>2, <1>5 DEF Kept
<1>7. \A r \in Schedulers : scheduler'[r].reaping \subseteq scheduler[r].reaping
  BY <1>1, <1>2 DEF PreparedRetry, SchedulerState
<1>8. \A o \in Operators : RequestFits(o)'
  BY <1>3, <1>4, <1>6, RequestsKept
<1>9. Justified(e)'
  BY <1>5 DEF Justified
<1> QED
  BY <1>2, <1>3, <1>4, <1>5, <1>6, <1>7, <1>8, <1>9, OutsiderFences
  DEF leaseClock

(* Every step of a scheduler keeps the fence.                              *)
LEMMA SchedulerFences ==
    ASSUME TimingInv, TypeInv', Fenced, NEW s \in Schedulers,
           SchedulerRuns(s) \/ SchedulerFault(s)
    PROVE  Fenced'
<1>1. UNCHANGED <<worker, request>>
  BY DEF SchedulerRuns, SchedulerFault, Fault
<1>2. TypeInv
  BY DEF TimingInv
<1>3. CASE ReapRequeue(s) \/ ReapDeadLetter(s)
  BY <1>1, <1>3, ReapFences
<1>4. CASE PrepareRetry(s)
  BY <1>1, <1>2, <1>4, PrepareRetryFences
<1>5. CASE \/ ReapSelect(s) \/ ReapMiss(s) \/ ReapReload(s)
           \/ RetrySelect(s) \/ PrepareRetryMiss(s)
           \/ PublishSelect(s) \/ Publish(s) \/ PublishFails(s)
           \/ MarkPublished(s) \/ SchedulerCrash(s)
  BY <1>1, <1>2, <1>5, ReadingFences
<1> QED
  BY <1>3, <1>4, <1>5 DEF SchedulerRuns, SchedulerFault, SchedulerStep

-----------------------------------------------------------------------------
(* The API and the clock                                                   *)

(* A new execution has neither a lease nor an operator.                    *)
LEMMA RequestFences ==
    ASSUME TypeInv, TypeInv', Fenced, NEW e \in Executions,
           ExecutionRequested(e)
    PROVE  Fenced'
<1>1. /\ executions[e].status = "absent"
      /\ executions' = [executions EXCEPT ![e].status = "queued"]
      /\ UNCHANGED <<step_executions, failure_records, tokens, leaseClock,
                     request, worker, scheduler>>
  BY DEF ExecutionRequested, RequestExecution
<1>2. executions[e] \in Execution /\ executions[e].lease_token = 0
  BY <1>1 DEF TypeInv, TypeOK, DatabaseTypeOK, Fenced, RowFits
<1>3. /\ executions'[e].current_step = executions[e].current_step
      /\ executions'[e].output_payload = executions[e].output_payload
      /\ executions'[e].lease_token = executions[e].lease_token
      /\ executions'[e].status = "queued"
      /\ \A f \in Executions \ {e} : executions'[f] = executions[f]
  BY <1>1, <1>2 DEF TypeInv, TypeOK, DatabaseTypeOK, Execution
<1>4. \A f \in Executions \ {e} : Kept(f)
  BY <1>1, <1>3 DEF Kept
<1>5. \A o \in Operators : RequestFits(o)'
  BY <1>1, <1>4, RequestsKept
<1>6. Justified(e)'
  BY <1>3 DEF Justified
<1> QED
  BY <1>1, <1>2, <1>3, <1>4, <1>5, <1>6, OutsiderFences DEF leaseClock

(* A manual retry that has just read its row.                              *)
LEMMA OperatorReadsFences ==
    ASSUME TypeInv, Fenced, NEW o \in Operators, NEW e \in Executions,
           OperatorReads(o, e)
    PROVE  Fenced'
<1>1. UNCHANGED <<executions, step_executions, failure_records, tokens,
                  lease_past, worker, scheduler>>
  BY DEF OperatorReads, RetryRead, CancelRead, CallRead, dbVars, leaseClock
<1>2. request \in [Operators -> Requests]
  BY DEF TypeInv, TypeOK, ApiTypeOK
<1>3. \A p \in Operators : RequestFits(p)'
  <2>1. CASE RetryRead(o, e)
    <3>1. /\ "retry" \in OperatorCalls
          /\ executions[e].status = "dead_letter"
          /\ \A p \in Operators : request'[p] =
                IF p = o THEN [call |-> "retry", execution |-> {e},
                               row |-> LoadRow(executions[e])]
                         ELSE request[p]
      BY <1>2, <2>1 DEF RetryRead, CallRead
    <3> QED
      BY <1>1, <3>1 DEF Fenced, RequestFits
  <2>2. CASE CancelRead(o, e)
    <3>1. \A p \in Operators : request'[p] =
             IF p = o THEN [call |-> "cancel", execution |-> {e},
                            row |-> LoadRow(executions[e])]
                      ELSE request[p]
      BY <1>2, <2>2 DEF CancelRead, CallRead
    <3> QED
      BY <1>1, <3>1 DEF Fenced, RequestFits
  <2> QED
    BY <2>1, <2>2 DEF OperatorReads
<1>4. \A w \in Workers : WorkerFits(w)'
  BY <1>1, Untouched DEF Fenced, Kept
<1>5. TokensDiffer'
  BY <1>1 DEF Fenced, TokensDiffer, Claimed
<1>6. \A s \in Schedulers : \A entry \in scheduler'[s].reaping : EntryFits(entry)'
  BY <1>1, TablesKept DEF Fenced
<1> QED
  BY <1>1, <1>3, <1>4, <1>5, <1>6, TablesKept DEF Fenced

(* The one manual retry in flight finds the row as it has read it.         *)
LEMMA RetryCommitFences ==
    ASSUME TypeInv, TypeInv', Fenced, RetriesApart, NEW o \in Operators,
           RetryCommit(o), UNCHANGED <<worker, scheduler>>
    PROVE  Fenced'
<1>1. PICK e \in request[o].execution :
         /\ request[o].call = "retry"
         /\ executions' = [executions EXCEPT
               ![e] = RetryValues(@, request[o].row)]
         /\ request' = [request EXCEPT ![o] = NoRequest]
         /\ UNCHANGED <<step_executions, failure_records, tokens, leaseClock>>
  BY DEF RetryCommit
<1>2. request \in [Operators -> Requests]
  BY DEF TypeInv, TypeOK, ApiTypeOK
<1>3. e \in Executions /\ executions[e] \in Execution
  BY <1>2 DEF Requests, TypeInv, TypeOK, DatabaseTypeOK
<1>4. "retry" \in OperatorCalls /\ executions[e].status = "dead_letter"
  BY <1>1 DEF Fenced, RequestFits
<1>5. executions[e].lease_token = 0
  BY <1>3, <1>4 DEF Fenced, RowFits
<1>6. /\ executions'[e].current_step = executions[e].current_step
      /\ executions'[e].output_payload = executions[e].output_payload
      /\ executions'[e].lease_token = executions[e].lease_token
      /\ executions'[e].status = "queued"
      /\ \A f \in Executions \ {e} : executions'[f] = executions[f]
  BY <1>1, <1>3 DEF RetryValues, TypeInv, TypeOK, DatabaseTypeOK, Execution
<1>7. \A f \in Executions \ {e} : Kept(f)
  BY <1>1, <1>6 DEF Kept
<1>8. \A p \in Operators : request'[p] = NoRequest
  BY <1>1, <1>2, <1>4 DEF RetriesApart
<1>9. \A p \in Operators : RequestFits(p)'
  BY <1>8 DEF RequestFits, NoRequest
<1>10. Justified(e)'
  BY <1>6 DEF Justified
<1> QED
  BY <1>1, <1>3, <1>5, <1>6, <1>7, <1>9, <1>10, OutsiderFences DEF leaseClock

(* A late cancellation leaves the lease, the attempts and the progress of  *)
(* the row alone: whoever holds the lease goes on undisturbed.             *)
LEMMA CancelCommitFences ==
    ASSUME TypeInv, TypeInv', Fenced, RetriesApart, NEW o \in Operators,
           CancelCommit(o), UNCHANGED <<worker, scheduler>>
    PROVE  Fenced'
<1>1. PICK e \in request[o].execution :
         /\ request[o].call = "cancel"
         /\ executions' = [executions EXCEPT
               ![e] = CancelValues(@, request[o].row)]
         /\ request' = [request EXCEPT ![o] = NoRequest]
         /\ UNCHANGED <<step_executions, failure_records, tokens, leaseClock>>
  BY DEF CancelCommit
<1>2. request \in [Operators -> Requests]
  BY DEF TypeInv, TypeOK, ApiTypeOK
<1>3. e \in Executions /\ executions[e] \in Execution
  BY <1>2 DEF Requests, TypeInv, TypeOK, DatabaseTypeOK
<1>4. \A f \in Executions :
         /\ executions'[f].current_step = executions[f].current_step
         /\ executions'[f].output_payload = executions[f].output_payload
         /\ executions'[f].lease_token = executions[f].lease_token
         /\ executions'[f].attempt_count = executions[f].attempt_count
         /\ f = e => executions'[f].status = "cancelled"
         /\ f # e => executions'[f] = executions[f]
  BY <1>1, <1>3 DEF CancelValues, TypeInv, TypeOK, DatabaseTypeOK, Execution
<1>5. ASSUME NEW w \in Workers PROVE WorkerFits(w)'
  <2>1. CASE ~Claimed(w)
    BY <2>1 DEF WorkerFits, Claimed, CommitPoints
  <2>2. CASE Claimed(w)
    <3>1. worker[w].execution \in Executions
      BY <2>2, WorkerFacts DEF Claimed
    <3>2. RowOf(w)'.lease_token = RowOf(w).lease_token
      BY <1>4, <3>1 DEF RowOf
    <3>3. SessionAgrees(w) => SessionAgrees(w)'
      BY <1>1, <1>4, <3>1 DEF SessionAgrees, RowOf
    <3>4. WorkerFits(w)
      BY DEF Fenced
    <3> QED
      BY <1>1, <3>2, <3>3, <3>4 DEF WorkerFits, Claimed, leaseClock
  <2> QED
    BY <2>1, <2>2
<1>6. TokensDiffer'
  BY DEF Fenced, TokensDiffer, Claimed
<1>7. \A f \in Executions \ {e} : Kept(f)
  BY <1>1, <1>4 DEF Kept
<1>8. RowFits(e)'
  BY <1>1, <1>3, <1>4 DEF Fenced, RowFits
<1>9. Order(e)'
  BY <1>1, <1>3, <1>4 DEF Fenced, Order
<1>10. Justified(e)'
  BY <1>3, <1>4 DEF Justified
<1>11. tokens[e] <= tokens'[e]
  BY <1>1, <1>3 DEF TypeInv, TypeOK, DatabaseTypeOK
<1>12. \A s \in Schedulers : \A entry \in scheduler'[s].reaping : EntryFits(entry)'
  BY <1>3, <1>4, <1>7, <1>11, EntriesKept
<1>13. ASSUME NEW p \in Operators PROVE RequestFits(p)'
  <2>1. request'[p].call # "retry"
    <3>1. CASE p = o
      BY <1>1, <1>2, <3>1 DEF NoRequest
    <3>2. CASE p # o
      BY <1>1, <1>2, <3>2 DEF Fenced, RequestFits, RetriesApart
    <3> QED
      BY <3>1, <3>2
  <2> QED
    BY <2>1 DEF RequestFits
<1>14. \A f \in Executions : RowFits(f)' /\ Order(f)' /\ Justified(f)'
  BY <1>3, <1>7, <1>8, <1>9, <1>10, RowsKept
<1> QED
  BY <1>5, <1>6, <1>12, <1>13, <1>14 DEF Fenced

(* A lease that nobody is committing under runs out.                       *)
LEMMA LeaseExpiresFences ==
    ASSUME TypeInv, Fenced, ~Stalls, NEW e \in Executions, LeaseExpires(e)
    PROVE  Fenced'
<1>1. UNCHANGED <<executions, step_executions, failure_records, tokens,
                  worker, scheduler, request>>
  BY DEF LeaseExpires
<1>2. ASSUME NEW w \in Workers PROVE WorkerFits(w)'
  <2>1. WorkerFits(w) /\ ~Committing(w, e)
    BY DEF Fenced, LeaseExpires
  <2>2. worker[w].pc \in CommitPoints => worker[w].execution \notin lease_past'
    BY <2>1 DEF WorkerFits, Committing, RowOf, LeaseExpires
  <2>3. SessionAgrees(w) => SessionAgrees(w)'
    BY <1>1 DEF SessionAgrees, RowOf
  <2> QED
    BY <1>1, <2>1, <2>2, <2>3 DEF WorkerFits, Claimed, RowOf
<1>3. TokensDiffer'
  BY <1>1 DEF Fenced, TokensDiffer, Claimed
<1>4. \A o \in Operators : RequestFits(o)'
  BY <1>1 DEF Fenced, RequestFits
<1>5. \A s \in Schedulers : \A entry \in scheduler'[s].reaping : EntryFits(entry)'
  BY <1>1, TablesKept DEF Fenced
<1> QED
  BY <1>1, <1>2, <1>3, <1>4, <1>5, TablesKept DEF Fenced

(* A step that changes nothing the fence is about.                         *)
LEMMA NothingMoves ==
    ASSUME TypeInv, Fenced,
           UNCHANGED <<executions, step_executions, failure_records, tokens,
                       lease_past, worker, scheduler, request>>
    PROVE  Fenced'
<1>1. \A w \in Workers : WorkerFits(w)'
  BY Untouched DEF Fenced, Kept
<1>2. TokensDiffer'
  BY DEF Fenced, TokensDiffer, Claimed
<1>3. \A o \in Operators : RequestFits(o)'
  BY DEF Fenced, RequestFits
<1>4. \A s \in Schedulers : \A entry \in scheduler'[s].reaping : EntryFits(entry)'
  BY TablesKept DEF Fenced
<1> QED
  BY <1>1, <1>2, <1>3, <1>4, TablesKept DEF Fenced

-----------------------------------------------------------------------------
(* FenceInv is inductive.                                                  *)
LEMMA NextFenceInv ==
    ASSUME ~Stalls, RetriesApart
    PROVE  FenceInv /\ [Next]_vars => FenceInv'
<1> SUFFICES ASSUME FenceInv, [Next]_vars PROVE FenceInv'
  OBVIOUS
<1>1. TimingInv'
  BY NextTimingInv DEF FenceInv
<1>2. TimingInv /\ TypeInv /\ TypeInv' /\ Fenced
  BY <1>1 DEF FenceInv, TimingInv
<1>3. Fenced'
  <2>1. ASSUME NEW w \in Workers, WorkerRuns(w) \/ WorkerFault(w)
        PROVE  Fenced'
    BY <1>2, <2>1, WorkerFences
  <2>2. ASSUME NEW s \in Schedulers, SchedulerRuns(s) \/ SchedulerFault(s)
        PROVE  Fenced'
    BY <1>2, <2>2, SchedulerFences
  <2>3. ASSUME NEW e \in Executions, ExecutionRequested(e) PROVE Fenced'
    BY <1>2, <2>3, RequestFences
  <2>4. ASSUME NEW e \in Executions, LeaseExpires(e) PROVE Fenced'
    BY <1>2, <2>4, LeaseExpiresFences
  <2>5. ASSUME NEW e \in Executions, RetryBecomesDue(e) PROVE Fenced'
    BY <1>2, <2>5, NothingMoves DEF RetryBecomesDue, leaseClock
  <2>6. ASSUME NEW o \in Operators, OperatorCommits(o) PROVE Fenced'
    BY <1>2, <2>6, RetryCommitFences, CancelCommitFences
    DEF OperatorCommits, Commit
  <2>7. ASSUME NEW o \in Operators, NEW e \in Executions, OperatorReads(o, e)
        PROVE  Fenced'
    BY <1>2, <2>7, OperatorReadsFences
  <2>8. CASE UNCHANGED vars
    BY <1>2, <2>8, NothingMoves DEF vars, dbVars, leaseClock
  <2> QED
    BY <2>1, <2>2, <2>3, <2>4, <2>5, <2>6, <2>7, <2>8 DEF Next
<1> QED
  BY <1>1, <1>3 DEF FenceInv

(* FenceInv always holds.                                                  *)
LEMMA SpecFenceInv ==
    ASSUME ~Stalls, RetriesApart
    PROVE  Spec => []FenceInv
<1>1. ASSUME Init PROVE FenceInv
  <2> USE <1>1 DEF Init, DatabaseInit, WorkerInit, SchedulerInit, ApiInit
  <2>1. TimingInv
    BY InitTypeInv DEF TimingInv, ViewsBehind
  <2>2. \A w \in Workers : ~Claimed(w) /\ WorkerFits(w)
    BY IdleType DEF WorkerFits, Claimed, CommitPoints
  <2>3. TokensDiffer
    BY <2>2 DEF TokensDiffer
  <2>4. \A e \in Executions : RowFits(e) /\ Order(e) /\ Justified(e)
    BY StepsAssumption
    DEF RowFits, Order, Justified, NewExecution, NewSteps, StepIndex
  <2>5. \A s \in Schedulers : \A entry \in scheduler[s].reaping : EntryFits(entry)
    BY DEF CycleStart
  <2>6. \A o \in Operators : RequestFits(o)
    BY DEF RequestFits, NoRequest
  <2> QED
    BY <2>1, <2>2, <2>3, <2>4, <2>5, <2>6 DEF FenceInv, Fenced
<1> QED
  BY <1>1, NextFenceInv, PTL DEF Spec

(* The progress of an execution stays consistent through crashes, reaps,   *)
(* reclaims, retries and late cancellations: no step is run twice to       *)
(* success, skipped, or committed over a newer run's progress.             *)
THEOREM ProgressConsistent ==
    ASSUME ~Stalls, RetriesApart
    PROVE  Spec => []StepsInOrder
<1>1. FenceInv => StepsInOrder
  BY DEF FenceInv, Fenced, Order, StepsInOrder
<1> QED
  BY <1>1, SpecFenceInv, PTL

(* No execution is given up while it has attempts left, unless its failure *)
(* is permanent, whoever gives it up and on whichever reading of the row.  *)
THEOREM GivenUpWithReason ==
    ASSUME ~Stalls, RetriesApart
    PROVE  Spec => []DeadLetterJustified
<1>1. FenceInv => DeadLetterJustified
  BY DEF FenceInv, Fenced, Justified, DeadLetterJustified
<1> QED
  BY <1>1, SpecFenceInv, PTL

-----------------------------------------------------------------------------
(* Whatever stalls                                                         *)

TokenDrawn(w) ==
    Claimed(w) => worker[w].lease_token <= tokens[worker[w].execution]

TokenInv ==
    /\ TypeInv
    /\ \A w \in Workers : TokenDrawn(w)
    /\ TokensDiffer

(* A claim draws a token that no worker has.                               *)
LEMMA ClaimDraws ==
    ASSUME TokenInv, NEW w \in Workers, Claim(w)
    PROVE  TokensDiffer' /\ \A v \in Workers : TokenDrawn(v)'
<1>0. PICK e : e = worker[w].execution
  OBVIOUS
<1>1. TypeInv /\ worker \in [Workers -> WorkerState]
  BY DEF TokenInv, TypeInv, WorkerInv, WorkerTypeOK
<1>2. e \in Executions /\ tokens \in [Executions -> Nat]
  BY <1>0, <1>1, WorkerFacts DEF Claim, TypeInv, TypeOK, DatabaseTypeOK
<1>3. /\ worker'[w].pc = "load"
      /\ worker'[w].execution = e
      /\ worker'[w].lease_token = tokens[e] + 1
      /\ \A v \in Workers \ {w} : worker'[v] = worker[v]
  BY <1>0, <1>1 DEF Claim, WorkerState
<1>4. tokens' = [tokens EXCEPT ![e] = tokens[e] + 1]
  BY <1>0 DEF Claim
<1>5. ASSUME NEW v \in Workers \ {w}, Claimed(v)'
      PROVE  /\ Claimed(v)
             /\ worker[v].execution \in Executions
             /\ worker[v].lease_token \in Nat
             /\ worker[v].lease_token <= tokens[worker[v].execution]
  <2>1. Claimed(v)
    BY <1>3, <1>5 DEF Claimed
  <2> QED
    BY <1>1, <2>1, WorkerFacts DEF Claimed, WorkerState, TokenInv, TokenDrawn
<1>6. \A v \in Workers : TokenDrawn(v)'
  BY <1>2, <1>3, <1>4, <1>5 DEF TokenDrawn
<1>7. ASSUME NEW v \in Workers \ {w}, Claimed(v)', worker'[v].execution = e
      PROVE  worker'[v].lease_token # worker'[w].lease_token
  BY <1>2, <1>3, <1>5, <1>7
<1>8. TokensDiffer'
  <2> SUFFICES ASSUME NEW u \in Workers, NEW v \in Workers, u # v,
                      Claimed(u)', Claimed(v)',
                      worker'[u].execution = worker'[v].execution
               PROVE  worker'[u].lease_token # worker'[v].lease_token
    BY DEF TokensDiffer
  <2>1. CASE u # w /\ v # w
    BY <1>3, <1>5, <2>1 DEF TokenInv, TokensDiffer
  <2>2. CASE u = w \/ v = w
    BY <1>3, <1>7, <2>2
  <2> QED
    BY <2>1, <2>2
<1> QED
  BY <1>6, <1>8

(* Every other step of a worker keeps its token or gives it up.            *)
LEMMA TokenKept ==
    ASSUME TokenInv, NEW w \in Workers,
           WorkerStep(w) \/ WorkerCrash(w), ~Claim(w)
    PROVE  TokensDiffer' /\ \A v \in Workers : TokenDrawn(v)'
<1>1. worker \in [Workers -> WorkerState]
  BY DEF TokenInv, TypeInv, WorkerInv, WorkerTypeOK
<1>2. CASE \/ ClaimMiss(w) \/ RenewMiss(w) \/ BeginStepConflict(w)
           \/ CommitSuccess(w) \/ FailExecution(w) \/ WorkerCrash(w)
  <2>1. worker' = [worker EXCEPT ![w] = Idle] /\ UNCHANGED tokens
    BY <1>2 DEF ClaimMiss, RenewMiss, BeginStepConflict, CommitSuccess,
                FailExecution, WorkerCrash, dbVars
  <2>2. ~Claimed(w)' /\ \A v \in Workers \ {w} : worker'[v] = worker[v]
    BY <1>1, <2>1, IdleType DEF Claimed
  <2> QED
    BY <2>1, <2>2, TokensStayDifferent DEF TokenInv, TokenDrawn, Claimed
<1>3. CASE \/ Dequeue(w) \/ Load(w) \/ RenewBefore(w) \/ RenewBeforeInvalid(w)
           \/ RenewAfter(w) \/ RenewFinal(w) \/ BeginStep(w) \/ RunStep(w)
           \/ CommitStep(w)
  <2>1. /\ UNCHANGED tokens
        /\ \A v \in Workers \ {w} : worker'[v] = worker[v]
    BY <1>1, <1>3
    DEF Dequeue, Load, RenewBefore, Renewed, RenewBeforeInvalid, RenewAfter,
        RenewFinal, BeginStep, RunStep, CommitStep, dbVars
  <2>2. CASE Dequeue(w)
    <3>1. ~Claimed(w)'
      BY <1>1, <2>2 DEF Dequeue, WorkerState, Claimed
    <3> QED
      BY <2>1, <3>1, TokensStayDifferent DEF TokenInv, TokenDrawn, Claimed
  <2>3. CASE ~Dequeue(w)
    <3>1. /\ Claimed(w)
          /\ worker'[w].execution = worker[w].execution
          /\ worker'[w].lease_token = worker[w].lease_token
      <4>1. Claimed(w)
        BY <1>3, <2>3
        DEF Load, RenewBefore, Renewed, RenewBeforeInvalid, RenewAfter,
            RenewFinal, BeginStep, RunStep, CommitStep, Claimed
      <4>2. CASE Load(w)
        BY <1>1, <4>1, <4>2 DEF Load, WorkerState
      <4>3. CASE \/ RenewBefore(w) \/ RenewAfter(w) \/ RenewFinal(w)
                 \/ RenewBeforeInvalid(w) \/ RunStep(w)
        <5>1. PICK point, outcome :
                 \/ worker' = [worker EXCEPT ![w].pc = point]
                 \/ worker' = [worker EXCEPT ![w].pc = point,
                                             ![w].outcome = outcome]
          BY <4>3 DEF RenewBefore, Renewed, RenewAfter, RenewFinal,
                      RenewBeforeInvalid, RunStep
        <5> QED
          BY <1>1, <4>1, <5>1 DEF WorkerState
      <4>4. CASE BeginStep(w)
        BY <1>1, <4>1, <4>4 DEF BeginStep, WorkerState
      <4>5. CASE CommitStep(w)
        BY <1>1, <4>1, <4>5 DEF CommitStep, WorkerState
      <4> QED
        BY <1>3, <2>3, <4>2, <4>3, <4>4, <4>5
    <3> QED
      BY <2>1, <3>1, TokensStayDifferent DEF TokenInv, TokenDrawn, Claimed
  <2> QED
    BY <2>2, <2>3
<1> QED
  BY <1>2, <1>3 DEF WorkerStep

(* TokenInv is inductive.                                                  *)
LEMMA NextTokenInv == TokenInv /\ [Next]_vars => TokenInv'
<1> SUFFICES ASSUME TokenInv, [Next]_vars PROVE TokenInv'
  OBVIOUS
<1>1. TypeInv'
  BY NextTypeInv DEF TokenInv
<1>2. CASE UNCHANGED <<worker, tokens>>
  BY <1>1, <1>2 DEF TokenInv, TokenDrawn, TokensDiffer, Claimed
<1>3. ASSUME NEW w \in Workers, WorkerRuns(w) \/ WorkerFault(w)
      PROVE  TokenInv'
  BY <1>1, <1>3, ClaimDraws, TokenKept DEF WorkerRuns, WorkerFault, TokenInv
<1>4. ASSUME NEW s \in Schedulers, SchedulerRuns(s) \/ SchedulerFault(s)
      PROVE  UNCHANGED <<worker, tokens>>
  <2>1. UNCHANGED tokens
    BY <1>4, Zenon
    DEF SchedulerRuns, SchedulerFault, SchedulerStep, ReapSelect, ReapRequeue,
        ReapDeadLetter, ReapMiss, ReapReload, RetrySelect, PrepareRetry,
        PrepareRetryMiss, PublishSelect, Publish, PublishFails, MarkPublished,
        SchedulerCrash, dbVars
  <2> QED
    BY <1>4, <2>1 DEF SchedulerRuns, SchedulerFault
<1>5. ASSUME NEW e \in Executions,
             ExecutionRequested(e) \/ LeaseExpires(e) \/ RetryBecomesDue(e)
      PROVE  UNCHANGED <<worker, tokens>>
  BY <1>5 DEF ExecutionRequested, RequestExecution, LeaseExpires, RetryBecomesDue
<1>6. ASSUME NEW o \in Operators, OperatorCommits(o)
      PROVE  UNCHANGED <<worker, tokens>>
  BY <1>6 DEF OperatorCommits, Commit, RetryCommit, CancelCommit
<1>7. ASSUME NEW o \in Operators, NEW e \in Executions, OperatorReads(o, e)
      PROVE  UNCHANGED <<worker, tokens>>
  BY <1>7 DEF OperatorReads, RetryRead, CancelRead, CallRead, dbVars
<1> QED
  BY <1>2, <1>3, <1>4, <1>5, <1>6, <1>7 DEF Next, vars, dbVars

(* Of the workers that have claimed an execution at most one gets past the *)
(* check of the lease, with no assumption on stalls or operators.          *)
THEOREM LeaseHasOneOwner == Spec => []OneOwner
<1>1. Init => TokenInv
  BY InitTypeInv DEF Init, WorkerInit, Idle, TokenInv, TokenDrawn, TokensDiffer,
                     Claimed
<1>2. TokenInv => OneOwner
  BY DEF TokenInv, TokensDiffer, OneOwner, RenewWhere, RowOf, Claimed
<1> QED
  BY <1>1, <1>2, NextTokenInv, PTL DEF Spec

-----------------------------------------------------------------------------
(* Without manual retries                                                  *)
(*                                                                         *)
(* What a worker or a reaper has read of attempt_count may be out of date, *)
(* for no lease need fence it; but only a manual retry takes attempts      *)
(* back, and without one a decision on old attempts errs on the safe side. *)

NoManualRetry ==
    /\ "retry" \notin OperatorCalls
    /\ \A o \in Operators : request[o].call # "retry"

WorkerCounts(w) ==
    Claimed(w) /\ worker[w].pc # "load" =>
        worker[w].attempt_count <= RowOf(w).attempt_count

EntryCounts(entry) ==
    entry.attempt_count <= executions[entry.execution].attempt_count

CountInv ==
    /\ TypeInv
    /\ NoManualRetry
    /\ \A w \in Workers : WorkerCounts(w)
    /\ \A s \in Schedulers : \A entry \in scheduler[s].reaping : EntryCounts(entry)
    /\ \A e \in Executions : Justified(e)

(* What a step has to do to the row of e.                                  *)
RowCounts(e) ==
    /\ executions[e].attempt_count <= executions'[e].attempt_count
    /\ Justified(e)'

(* The rows are left alone.                                                *)
LEMMA RowsCountOn ==
    ASSUME CountInv, UNCHANGED <<executions, failure_records>>
    PROVE  \A e \in Executions : RowCounts(e)
BY DEF CountInv, TypeInv, TypeOK, DatabaseTypeOK, Execution, RowCounts, Justified

(* One row is written.                                                     *)
LEMMA OneRowCounts ==
    ASSUME CountInv, NEW e \in Executions, RowCounts(e),
           \A f \in Executions \ {e} : /\ executions'[f] = executions[f]
                                       /\ failure_records'[f] = failure_records[f]
    PROVE  \A f \in Executions : RowCounts(f)
<1> SUFFICES ASSUME NEW f \in Executions \ {e} PROVE RowCounts(f)
  OBVIOUS
<1>1. Justified(f) /\ executions[f].attempt_count \in Nat
  BY DEF CountInv, TypeInv, TypeOK, DatabaseTypeOK, Execution
<1> QED
  BY <1>1 DEF RowCounts, Justified

(* No row is dead-lettered, and the attempts of one row may grow.          *)
LEMMA LiveRowCounts ==
    ASSUME CountInv, TypeInv', NEW e \in Executions,
           \A f \in Executions \ {e} : executions'[f] = executions[f],
           executions'[e].status = "dead_letter" =>
               executions[e].status = "dead_letter",
           executions[e].attempt_count <= executions'[e].attempt_count,
           UNCHANGED failure_records
    PROVE  \A f \in Executions : RowCounts(f)
<1>1. /\ executions[e].attempt_count \in Nat
      /\ executions'[e].attempt_count \in Nat
  BY DEF CountInv, TypeInv, TypeOK, DatabaseTypeOK, Execution
<1>2. Justified(e)
  BY DEF CountInv
<1>3. RowCounts(e)
  BY <1>1, <1>2, AttemptsAssumption DEF RowCounts, Justified
<1> QED
  BY <1>3, OneRowCounts

(* A worker dead-letters an execution whose attempts it has seen used up,  *)
(* or for a failure that is permanent.                                     *)
LEMMA FailExecutionCounts ==
    ASSUME CountInv, NEW w \in Workers, FailExecution(w)
    PROVE  \A e \in Executions : RowCounts(e)
<1>0. PICK e : e = worker[w].execution
  OBVIOUS
<1>1. TypeInv /\ worker[w].attempt_count \in Nat
  BY WorkerFacts DEF CountInv, WorkerState
<1>2. /\ e \in Executions /\ executions[e].attempt_count \in Nat
      /\ executions'[e].attempt_count = executions[e].attempt_count
      /\ \/ executions'[e].status = "retry_scheduled"
         \/ executions'[e].status = "dead_letter" /\ ~Retryable(w)
      /\ failure_records'[e] = IF TransientOutcome(worker[w].outcome)
                               THEN "transient" ELSE "permanent"
      /\ \A f \in Executions \ {e} :
            /\ executions'[f] = executions[f]
            /\ failure_records'[f] = failure_records[f]
  BY <1>0, <1>1, FailedRow DEF Execution
<1>3. worker[w].attempt_count <= executions[e].attempt_count
  BY <1>0 DEF CountInv, WorkerCounts, Claimed, RowOf, FailExecution
<1>4. RowCounts(e)
  BY <1>1, <1>2, <1>3, AttemptsAssumption DEF RowCounts, Justified, Retryable
<1> QED
  BY <1>2, <1>4, OneRowCounts

(* A step of a worker.                                                     *)
LEMMA WorkerRowsCount ==
    ASSUME CountInv, TypeInv', NEW w \in Workers, WorkerStep(w)
    PROVE  \A e \in Executions : RowCounts(e)
<1> DEFINE e == worker[w].execution
<1>1. CASE Claim(w) \/ CommitStep(w) \/ CommitSuccess(w)
  <2>0. /\ executions \in [Executions -> Execution]
        /\ UNCHANGED failure_records
    BY <1>1 DEF Claim, CommitStep, CommitSuccess, CountInv, TypeInv, TypeOK,
                DatabaseTypeOK
  <2>1. e \in Executions /\ executions[e] \in Execution
    BY <1>1, <2>0, WorkerFacts DEF CountInv, Claim, CommitStep, CommitSuccess,
                                   RowOf
  <2>2. /\ \A f \in Executions \ {e} : executions'[f] = executions[f]
        /\ executions'[e].status = "dead_letter" =>
               executions[e].status = "dead_letter"
        /\ executions[e].attempt_count <= executions'[e].attempt_count
    <3>1. CASE Claim(w)
      <4>1. PICK token :
               executions' = [executions EXCEPT ![e] = ClaimValues(@, token)]
        BY <3>1 DEF Claim
      <4>2. /\ executions'[e] = ClaimValues(executions[e], token)
            /\ \A f \in Executions \ {e} : executions'[f] = executions[f]
        BY <2>0, <2>1, <4>1
      <4>3. /\ executions'[e].status = "running"
            /\ executions'[e].attempt_count = executions[e].attempt_count + 1
            /\ executions[e].attempt_count \in Nat
        BY <2>1, <4>2 DEF ClaimValues, Execution
      <4> QED
        BY <4>2, <4>3
    <3>2. CASE CommitStep(w)
      <4>1. PICK index, output :
               executions' = [executions EXCEPT ![e].current_step = index,
                                                ![e].output_payload = output]
        BY <3>2 DEF CommitStep
      <4>2. /\ executions'[e].status = executions[e].status
            /\ executions'[e].attempt_count = executions[e].attempt_count
            /\ executions[e].attempt_count \in Nat
            /\ \A f \in Executions \ {e} : executions'[f] = executions[f]
        BY <2>0, <2>1, <4>1 DEF Execution
      <4> QED
        BY <4>2
    <3>3. CASE CommitSuccess(w)
      <4>1. PICK loaded :
               executions' = [executions EXCEPT ![e] = SuccessValues(@, loaded)]
        BY <3>3 DEF CommitSuccess
      <4>2. /\ executions'[e] = SuccessValues(executions[e], loaded)
            /\ \A f \in Executions \ {e} : executions'[f] = executions[f]
        BY <2>0, <2>1, <4>1
      <4>3. /\ executions'[e].status = "succeeded"
            /\ executions'[e].attempt_count = executions[e].attempt_count
            /\ executions[e].attempt_count \in Nat
        BY <2>1, <4>2 DEF SuccessValues, Execution
      <4> QED
        BY <4>2, <4>3
    <3> QED
      BY <1>1, <3>1, <3>2, <3>3
  <2> QED
    BY <2>0, <2>1, <2>2, LiveRowCounts
<1>2. CASE FailExecution(w)
  BY <1>2, FailExecutionCounts
<1>3. CASE ~(Claim(w) \/ CommitStep(w) \/ CommitSuccess(w) \/ FailExecution(w))
  <2>1. UNCHANGED <<executions, failure_records>>
    BY <1>3 DEF WorkerStep, Dequeue, ClaimMiss, Load, RenewBefore, Renewed,
                RenewBeforeInvalid, RenewAfter, RenewFinal, RenewMiss, BeginStep,
                BeginStepConflict, RunStep, dbVars
  <2> QED
    BY <2>1, RowsCountOn
<1> QED
  BY <1>1, <1>2, <1>3

(* A step of a scheduler: the reaper dead-letters an execution whose       *)
(* attempts it has seen used up.                                           *)
LEMMA SchedulerRowsCount ==
    ASSUME CountInv, TypeInv', NEW s \in Schedulers, SchedulerStep(s)
    PROVE  \A e \in Executions : RowCounts(e)
<1>1. CASE ReapDeadLetter(s)
  <2>1. PICK entry \in scheduler[s].reaping :
           /\ ~ReapRetryable(entry)
           /\ executions' = [executions EXCEPT
                 ![entry.execution] = ReapValues(@, FALSE)]
           /\ AddFailure(entry.execution, "transient")
    BY <1>1 DEF ReapDeadLetter
  <2> DEFINE e == entry.execution
  <2>2. e \in Executions /\ entry.attempt_count \in Nat
    BY DEF CountInv, TypeInv, TypeOK, SchedulerTypeOK, SchedulerState, ReapEntry
  <2>3. executions[e] \in Execution /\ executions[e].attempt_count \in Nat
    BY <2>2 DEF CountInv, TypeInv, TypeOK, DatabaseTypeOK, Execution
  <2>4. /\ executions'[e].attempt_count = executions[e].attempt_count
        /\ \A f \in Executions \ {e} :
              /\ executions'[f] = executions[f]
              /\ failure_records'[f] = failure_records[f]
    BY <2>1, <2>2, <2>3 DEF AddFailure, ReapValues, CountInv, TypeInv, TypeOK,
                            DatabaseTypeOK, Execution
  <2>5. entry.attempt_count <= executions[e].attempt_count
    BY DEF CountInv, EntryCounts
  <2>6. executions[e].attempt_count >= MaxAttempts
    BY <2>1, <2>2, <2>3, <2>5, AttemptsAssumption DEF ReapRetryable
  <2>7. RowCounts(e)
    BY <2>3, <2>4, <2>6 DEF RowCounts, Justified
  <2> QED
    BY <2>2, <2>4, <2>7, OneRowCounts
<1>2. CASE ReapRequeue(s)
  <2>1. PICK entry \in scheduler[s].reaping :
           /\ executions' = [executions EXCEPT
                 ![entry.execution] = ReapValues(@, TRUE)]
           /\ UNCHANGED failure_records
    BY <1>2 DEF ReapRequeue
  <2> DEFINE e == entry.execution
  <2>2. e \in Executions
    BY DEF CountInv, TypeInv, TypeOK, SchedulerTypeOK, SchedulerState, ReapEntry
  <2>3. executions[e] \in Execution /\ executions[e].attempt_count \in Nat
    BY <2>2 DEF CountInv, TypeInv, TypeOK, DatabaseTypeOK, Execution
  <2>4. /\ executions'[e].status = "queued"
        /\ executions'[e].attempt_count = executions[e].attempt_count
        /\ \A f \in Executions \ {e} : executions'[f] = executions[f]
    BY <2>1, <2>2, <2>3 DEF ReapValues, CountInv, TypeInv, TypeOK,
                            DatabaseTypeOK, Execution
  <2>5. executions[e].attempt_count <= executions'[e].attempt_count
    BY <2>3, <2>4
  <2> QED
    BY <2>1, <2>2, <2>4, <2>5, LiveRowCounts
<1>3. CASE PrepareRetry(s)
  <2>1. PICK e \in scheduler[s].retrying :
           /\ executions' = [executions EXCEPT ![e].status = "queued",
                                               ![e].next_retry_at = FALSE]
           /\ UNCHANGED failure_records
    BY <1>3 DEF PrepareRetry
  <2>2. e \in Executions
    BY DEF CountInv, TypeInv, TypeOK, SchedulerTypeOK, SchedulerState
  <2>3. executions[e] \in Execution /\ executions[e].attempt_count \in Nat
    BY <2>2 DEF CountInv, TypeInv, TypeOK, DatabaseTypeOK, Execution
  <2>4. /\ executions'[e].status = "queued"
        /\ executions'[e].attempt_count = executions[e].attempt_count
        /\ \A f \in Executions \ {e} : executions'[f] = executions[f]
    BY <2>1, <2>2, <2>3 DEF CountInv, TypeInv, TypeOK, DatabaseTypeOK, Execution
  <2>5. executions[e].attempt_count <= executions'[e].attempt_count
    BY <2>3, <2>4
  <2> QED
    BY <2>1, <2>2, <2>4, <2>5, LiveRowCounts
<1>4. CASE \/ ReapMiss(s) \/ ReapReload(s) \/ PrepareRetryMiss(s)
           \/ PublishSelect(s) \/ Publish(s) \/ MarkPublished(s)
           \/ ReapSelect(s) \/ RetrySelect(s)
  <2>1. UNCHANGED <<executions, failure_records>>
    BY <1>4 DEF ReapMiss, ReapReload, PrepareRetryMiss, PublishSelect, Publish,
                dbVars, MarkPublished, ReapSelect, RetrySelect
  <2> QED
    BY <2>1, RowsCountOn
<1> QED
  BY <1>1, <1>2, <1>3, <1>4 DEF SchedulerStep

(* A request, or a cancellation.                                           *)
LEMMA ApiRowsCount ==
    ASSUME CountInv, TypeInv', NEW e \in Executions, UNCHANGED failure_records,
           \/ executions' = [executions EXCEPT ![e].status = "queued"]
           \/ \E loaded : executions' = [executions EXCEPT
                                          ![e] = CancelValues(@, loaded)]
    PROVE  \A f \in Executions : RowCounts(f)
<1>1. executions[e] \in Execution /\ executions[e].attempt_count \in Nat
  BY DEF CountInv, TypeInv, TypeOK, DatabaseTypeOK, Execution
<1>2. /\ executions'[e].status # "dead_letter"
      /\ executions'[e].attempt_count = executions[e].attempt_count
      /\ \A f \in Executions \ {e} : executions'[f] = executions[f]
  <2>1. executions \in [Executions -> Execution]
    BY DEF CountInv, TypeInv, TypeOK, DatabaseTypeOK
  <2>2. CASE executions' = [executions EXCEPT ![e].status = "queued"]
    BY <1>1, <2>1, <2>2 DEF Execution
  <2>3. ASSUME NEW loaded,
               executions' = [executions EXCEPT ![e] = CancelValues(@, loaded)]
        PROVE  /\ executions'[e] = CancelValues(executions[e], loaded)
               /\ \A f \in Executions \ {e} : executions'[f] = executions[f]
    BY <2>1, <2>3
  <2>4. \A loaded :
           /\ CancelValues(executions[e], loaded).status = "cancelled"
           /\ CancelValues(executions[e], loaded).attempt_count =
                 executions[e].attempt_count
    BY <1>1 DEF CancelValues, Execution
  <2> QED
    BY <2>2, <2>3, <2>4
<1>3. executions[e].attempt_count <= executions'[e].attempt_count
  BY <1>1, <1>2
<1> QED
  BY <1>2, <1>3, LiveRowCounts

(* No step takes attempts back or dead-letters without a reason.           *)
LEMMA NextRowsCount ==
    ASSUME CountInv, TypeInv', [Next]_vars
    PROVE  \A e \in Executions : RowCounts(e)
<1>1. ASSUME NEW w \in Workers, WorkerRuns(w) \/ WorkerFault(w)
      PROVE  \A e \in Executions : RowCounts(e)
  BY <1>1, WorkerRowsCount, RowsCountOn
  DEF WorkerRuns, WorkerFault, WorkerCrash, dbVars
<1>2. ASSUME NEW s \in Schedulers, SchedulerRuns(s) \/ SchedulerFault(s)
      PROVE  \A e \in Executions : RowCounts(e)
  BY <1>2, SchedulerRowsCount, RowsCountOn
  DEF SchedulerRuns, SchedulerFault, SchedulerCrash, PublishFails, dbVars
<1>3. ASSUME NEW e \in Executions, ExecutionRequested(e)
      PROVE  \A f \in Executions : RowCounts(f)
  BY <1>3, ApiRowsCount DEF ExecutionRequested, RequestExecution
<1>4. ASSUME NEW e \in Executions, LeaseExpires(e) \/ RetryBecomesDue(e)
      PROVE  \A f \in Executions : RowCounts(f)
  BY <1>4, RowsCountOn DEF LeaseExpires, RetryBecomesDue
<1>5. ASSUME NEW o \in Operators, OperatorCommits(o)
      PROVE  \A e \in Executions : RowCounts(e)
  <2>1. CancelCommit(o)
    BY <1>5 DEF OperatorCommits, Commit, RetryCommit, CountInv, NoManualRetry
  <2>2. PICK e \in request[o].execution :
           /\ executions' = [executions EXCEPT
                 ![e] = CancelValues(@, request[o].row)]
           /\ UNCHANGED failure_records
    BY <2>1 DEF CancelCommit
  <2>3. e \in Executions
    BY DEF CountInv, TypeInv, TypeOK, ApiTypeOK, Requests
  <2> QED
    BY <2>2, <2>3, ApiRowsCount
<1>6. ASSUME NEW o \in Operators, NEW e \in Executions, OperatorReads(o, e)
      PROVE  \A f \in Executions : RowCounts(f)
  BY <1>6, RowsCountOn DEF OperatorReads, RetryRead, CancelRead, CallRead, dbVars
<1>7. CASE UNCHANGED vars
  BY <1>7, RowsCountOn DEF vars, dbVars
<1> QED
  BY <1>1, <1>2, <1>3, <1>4, <1>5, <1>6, <1>7 DEF Next

(* A worker that stays inside its execution knows no more attempts than    *)
(* the row, which only gets more.                                          *)
LEMMA WorkerCountsOn ==
    ASSUME CountInv, TypeInv', \A e \in Executions : RowCounts(e),
           NEW w \in Workers,
           Claimed(w)' /\ worker'[w].pc # "load" =>
              /\ Claimed(w) /\ worker[w].pc # "load"
              /\ worker'[w].execution = worker[w].execution
              /\ worker'[w].attempt_count = worker[w].attempt_count
    PROVE  WorkerCounts(w)'
<1> SUFFICES ASSUME Claimed(w)', worker'[w].pc # "load"
             PROVE  worker'[w].attempt_count <= RowOf(w)'.attempt_count
  BY DEF WorkerCounts
<1> DEFINE e == worker[w].execution
<1>1. Claimed(w) /\ worker[w].pc # "load"
  OBVIOUS
<1>2. TypeInv
  BY DEF CountInv
<1>3. /\ e \in Executions /\ worker[w].attempt_count \in Nat
  BY <1>1, <1>2, WorkerFacts DEF Claimed, WorkerState
<1>4. /\ executions[e].attempt_count \in Nat
      /\ executions'[e].attempt_count \in Nat
  BY <1>2, <1>3 DEF TypeInv, TypeOK, DatabaseTypeOK, Execution
<1>5. worker[w].attempt_count <= executions[e].attempt_count
  BY <1>1 DEF CountInv, WorkerCounts, RowOf
<1>6. executions[e].attempt_count <= executions'[e].attempt_count
  BY <1>3 DEF RowCounts
<1> QED
  BY <1>1, <1>3, <1>4, <1>5, <1>6 DEF RowOf

(* ... and one that loads its execution knows exactly the row's.           *)
LEMMA StepCountsOn ==
    ASSUME CountInv, TypeInv', \A e \in Executions : RowCounts(e),
           NEW w \in Workers, WorkerStep(w)
    PROVE  \A v \in Workers : WorkerCounts(v)'
<1>1. TypeInv /\ worker \in [Workers -> WorkerState]
  BY DEF CountInv, TypeInv, WorkerInv, WorkerTypeOK
<1>2. ASSUME NEW v \in Workers \ {w} PROVE WorkerCounts(v)'
  <2>1. worker'[v] = worker[v]
    BY <1>1 DEF WorkerStep, Dequeue, Claim, ClaimMiss, Load, RenewBefore, Renewed,
                RenewBeforeInvalid, RenewAfter, RenewFinal, RenewMiss, BeginStep,
                BeginStepConflict, RunStep, CommitStep, CommitSuccess,
                FailExecution
  <2> QED
    BY <2>1, WorkerCountsOn DEF Claimed
<1>3. WorkerCounts(w)'
  <2>1. CASE Load(w)
    <3>1. worker[w].execution \in Executions /\ RowOf(w) \in Execution
      BY <1>1, <2>1, WorkerFacts DEF Load
    <3>2. RowOf(w).attempt_count <= RowOf(w).attempt_count
      BY <3>1 DEF Execution
    <3>3. /\ worker'[w].attempt_count = RowOf(w).attempt_count
          /\ worker'[w].execution = worker[w].execution
          /\ UNCHANGED executions
      BY <1>1, <2>1 DEF Load, WorkerState, dbVars
    <3> QED
      BY <3>2, <3>3 DEF WorkerCounts, RowOf
  <2>2. CASE \/ Dequeue(w) \/ Claim(w) \/ ClaimMiss(w) \/ RenewMiss(w)
             \/ BeginStepConflict(w) \/ CommitSuccess(w) \/ FailExecution(w)
    <3>1. worker'[w].pc \in {"idle", "claim", "load"}
      BY <1>1, <2>2, IdleType
      DEF Dequeue, Claim, ClaimMiss, RenewMiss, BeginStepConflict,
          CommitSuccess, FailExecution, WorkerState
    <3> QED
      BY <3>1 DEF WorkerCounts, Claimed
  <2>3. CASE \/ RenewBefore(w) \/ RenewBeforeInvalid(w) \/ RenewAfter(w)
             \/ RenewFinal(w) \/ BeginStep(w) \/ RunStep(w) \/ CommitStep(w)
    <3>1. /\ worker[w].pc \notin {"idle", "claim", "load"}
          /\ worker'[w].execution = worker[w].execution
          /\ worker'[w].attempt_count = worker[w].attempt_count
      <4>1. worker[w].pc \notin {"idle", "claim", "load"}
        BY <2>3 DEF RenewBefore, Renewed, RenewBeforeInvalid, RenewAfter,
                    RenewFinal, BeginStep, RunStep, CommitStep
      <4>2. CASE \/ RenewBefore(w) \/ RenewAfter(w) \/ RenewFinal(w)
                 \/ RenewBeforeInvalid(w) \/ RunStep(w)
        <5>1. PICK point, outcome :
                 \/ worker' = [worker EXCEPT ![w].pc = point]
                 \/ worker' = [worker EXCEPT ![w].pc = point,
                                             ![w].outcome = outcome]
          BY <4>2 DEF RenewBefore, Renewed, RenewAfter, RenewFinal,
                      RenewBeforeInvalid, RunStep
        <5> QED
          BY <1>1, <4>1, <5>1 DEF WorkerState
      <4>3. CASE BeginStep(w)
        BY <1>1, <4>1, <4>3 DEF BeginStep, WorkerState
      <4>4. CASE CommitStep(w)
        BY <1>1, <4>1, <4>4 DEF CommitStep, WorkerState
      <4> QED
        BY <2>3, <4>2, <4>3, <4>4
    <3> QED
      BY <3>1, WorkerCountsOn DEF Claimed
  <2> QED
    BY <2>1, <2>2, <2>3 DEF WorkerStep
<1> QED
  BY <1>2, <1>3

(* What a reaper has read is no more than the row has.                     *)
LEMMA EntryCountsOn ==
    ASSUME CountInv, TypeInv', \A e \in Executions : RowCounts(e),
           NEW s \in Schedulers, NEW entry \in scheduler[s].reaping,
           NEW copy, copy.execution = entry.execution,
           copy.attempt_count = entry.attempt_count
    PROVE  EntryCounts(copy)'
<1> DEFINE e == entry.execution
<1>1. e \in Executions /\ entry.attempt_count \in Nat
  BY DEF CountInv, TypeInv, TypeOK, SchedulerTypeOK, SchedulerState, ReapEntry
<1>2. /\ executions[e].attempt_count \in Nat
      /\ executions'[e].attempt_count \in Nat
  BY <1>1 DEF CountInv, TypeInv, TypeOK, DatabaseTypeOK, Execution
<1>3. entry.attempt_count <= executions[e].attempt_count
  BY DEF CountInv, EntryCounts
<1>4. executions[e].attempt_count <= executions'[e].attempt_count
  BY <1>1 DEF RowCounts
<1> QED
  BY <1>1, <1>2, <1>3, <1>4 DEF EntryCounts

LEMMA BatchCountsOn ==
    ASSUME CountInv, TypeInv', \A e \in Executions : RowCounts(e),
           NEW s \in Schedulers,
           SchedulerStep(s) \/ PublishFails(s) \/ SchedulerCrash(s)
    PROVE  \A r \in Schedulers :
              \A entry \in scheduler'[r].reaping : EntryCounts(entry)'
<1>1. TypeInv /\ scheduler \in [Schedulers -> SchedulerState]
  BY DEF CountInv, TypeInv, TypeOK, SchedulerTypeOK
<1>2. ASSUME NEW r \in Schedulers \ {s}
      PROVE  \A entry \in scheduler'[r].reaping : EntryCounts(entry)'
  <2>1. scheduler'[r] = scheduler[r]
    BY <1>1 DEF SchedulerStep, ReapSelect, ReapRequeue, ReapDeadLetter,
                ReapedEntry, ReapMiss, ReapReload, RetrySelect, PrepareRetry,
                PrepareRetryMiss, PreparedRetry, PublishSelect, Publish,
                PublishFails, MarkPublished, SchedulerCrash
  <2> QED
    BY <2>1, EntryCountsOn
<1>3. ASSUME NEW entry \in scheduler'[s].reaping PROVE EntryCounts(entry)'
  <2>1. CASE ReapRequeue(s) \/ ReapDeadLetter(s) \/ PrepareRetry(s)
    <3>1. scheduler'[s].reaping \subseteq scheduler[s].reaping
      <4>1. ASSUME NEW reaped, ReapedEntry(s, reaped)
            PROVE  scheduler'[s].reaping \subseteq scheduler[s].reaping
        BY <1>1, <4>1 DEF ReapedEntry, SchedulerState
      <4>2. ASSUME NEW e, PreparedRetry(s, e)
            PROVE  scheduler'[s].reaping \subseteq scheduler[s].reaping
        BY <1>1, <4>2 DEF PreparedRetry, SchedulerState
      <4> QED
        BY <2>1, <4>1, <4>2, Zenon DEF ReapRequeue, ReapDeadLetter, PrepareRetry
    <3> QED
      BY <3>1, EntryCountsOn
  <2>2. CASE \/ ReapSelect(s) \/ ReapMiss(s) \/ ReapReload(s)
             \/ RetrySelect(s) \/ PrepareRetryMiss(s)
             \/ PublishSelect(s) \/ Publish(s) \/ PublishFails(s)
             \/ MarkPublished(s) \/ SchedulerCrash(s)
    <3>1. CASE \E x \in scheduler[s].reaping :
                  /\ entry.execution = x.execution
                  /\ entry.attempt_count = x.attempt_count
      BY <3>1, EntryCountsOn
    <3>2. CASE \E e \in Executions : entry = Loaded(e)
      <4>1. PICK e \in Executions : entry = Loaded(e)
        BY <3>2
      <4>2. entry.execution = e /\ entry.attempt_count = executions[e].attempt_count
        BY <4>1 DEF Loaded
      <4>3. /\ executions[e].attempt_count \in Nat
            /\ executions[e].attempt_count <= executions'[e].attempt_count
        BY <1>1 DEF TypeInv, TypeOK, DatabaseTypeOK, Execution, RowCounts
      <4> QED
        BY <4>2, <4>3 DEF EntryCounts
    <3> QED
      BY <1>1, <2>2, <3>1, <3>2, BatchReads
  <2> QED
    BY <2>1, <2>2 DEF SchedulerStep
<1> QED
  BY <1>2, <1>3

(* Nobody asks for a manual retry.                                         *)
LEMMA NobodyRetries ==
    ASSUME TypeInv, NoManualRetry, [Next]_vars
    PROVE  NoManualRetry'
<1>1. request \in [Operators -> Requests]
  BY DEF TypeInv, TypeOK, ApiTypeOK
<1>2. CASE UNCHANGED request
  BY <1>2 DEF NoManualRetry
<1>3. ASSUME NEW o \in Operators, OperatorCommits(o) PROVE NoManualRetry'
  <2>1. request' = [request EXCEPT ![o] = NoRequest]
    BY <1>3 DEF OperatorCommits, Commit, RetryCommit, CancelCommit
  <2> QED
    BY <1>1, <2>1 DEF NoManualRetry, NoRequest
<1>4. ASSUME NEW o \in Operators, NEW e \in Executions, OperatorReads(o, e)
      PROVE  NoManualRetry'
  <2>1. CancelRead(o, e)
    BY <1>4 DEF OperatorReads, RetryRead, CallRead, NoManualRetry
  <2>2. request' = [request EXCEPT
           ![o] = [call |-> "cancel", execution |-> {e},
                   row |-> LoadRow(executions[e])]]
    BY <2>1 DEF CancelRead, CallRead
  <2> QED
    BY <1>1, <2>2 DEF NoManualRetry
<1>5. ASSUME NEW e \in Executions,
             ExecutionRequested(e) \/ LeaseExpires(e) \/ RetryBecomesDue(e)
      PROVE  UNCHANGED request
  BY <1>5 DEF ExecutionRequested, RequestExecution, LeaseExpires, RetryBecomesDue
<1>6. ASSUME NEW w \in Workers, WorkerRuns(w) \/ WorkerFault(w)
      PROVE  UNCHANGED request
  BY <1>6 DEF WorkerRuns, WorkerFault, Fault
<1>7. ASSUME NEW s \in Schedulers, SchedulerRuns(s) \/ SchedulerFault(s)
      PROVE  UNCHANGED request
  BY <1>7 DEF SchedulerRuns, SchedulerFault, Fault
<1> QED
  BY <1>2, <1>3, <1>4, <1>5, <1>6, <1>7 DEF Next, vars

(* CountInv is inductive.                                                  *)
LEMMA NextCountInv == CountInv /\ [Next]_vars => CountInv'
<1> SUFFICES ASSUME CountInv, [Next]_vars PROVE CountInv'
  OBVIOUS
<1>1. TypeInv' /\ NoManualRetry'
  BY NextTypeInv, NobodyRetries DEF CountInv
<1>2. \A e \in Executions : RowCounts(e)
  BY <1>1, NextRowsCount
<1>3. UNCHANGED worker => \A w \in Workers : WorkerCounts(w)'
  BY <1>1, <1>2, WorkerCountsOn DEF Claimed
<1>4. UNCHANGED scheduler =>
         \A s \in Schedulers : \A entry \in scheduler'[s].reaping :
            EntryCounts(entry)'
  BY <1>1, <1>2, EntryCountsOn
<1>5. /\ \A w \in Workers : WorkerCounts(w)'
      /\ \A s \in Schedulers : \A entry \in scheduler'[s].reaping :
            EntryCounts(entry)'
  <2>1. ASSUME NEW w \in Workers, WorkerRuns(w) PROVE <1>5!:
    BY <1>1, <1>2, <1>4, <2>1, StepCountsOn DEF WorkerRuns
  <2>2. ASSUME NEW w \in Workers, WorkerFault(w) PROVE <1>5!:
    <3>1. worker' = [worker EXCEPT ![w] = Idle] /\ UNCHANGED scheduler
      BY <2>2 DEF WorkerFault, WorkerCrash
    <3>2. ASSUME NEW v \in Workers PROVE WorkerCounts(v)'
      <4>1. \/ worker'[v] = worker[v]
            \/ worker'[v].pc = "idle"
        BY <3>1, IdleType DEF CountInv, TypeInv, WorkerInv, WorkerTypeOK
      <4> QED
        BY <1>1, <1>2, <4>1, WorkerCountsOn DEF Claimed
    <3> QED
      BY <1>4, <3>1, <3>2
  <2>3. ASSUME NEW s \in Schedulers, SchedulerRuns(s) \/ SchedulerFault(s)
        PROVE  <1>5!:
    BY <1>1, <1>2, <1>3, <2>3, BatchCountsOn DEF SchedulerRuns, SchedulerFault
  <2>4. ASSUME NEW e \in Executions,
               ExecutionRequested(e) \/ LeaseExpires(e) \/ RetryBecomesDue(e)
        PROVE  UNCHANGED <<worker, scheduler>>
    BY <2>4 DEF ExecutionRequested, LeaseExpires, RetryBecomesDue
  <2>5. ASSUME NEW o \in Operators,
               OperatorCommits(o) \/ \E e \in Executions : OperatorReads(o, e)
        PROVE  UNCHANGED <<worker, scheduler>>
    BY <2>5 DEF OperatorCommits, OperatorReads
  <2>6. CASE UNCHANGED vars
    BY <1>3, <1>4, <2>6 DEF vars
  <2> QED
    BY <1>3, <1>4, <2>1, <2>2, <2>3, <2>4, <2>5, <2>6 DEF Next
<1> QED
  BY <1>1, <1>2, <1>5 DEF CountInv, RowCounts

(* Unless an operator retries one, no execution is dead-lettered with      *)
(* attempts left and without a permanent failure: not by a worker that     *)
(* stalls past its lease, nor by a reaper with an old batch, although both *)
(* decide on an attempt_count they read before.                            *)
THEOREM StaleCountsAreSafe ==
    ASSUME "retry" \notin OperatorCalls
    PROVE  Spec => []DeadLetterJustified
<1>1. Init => CountInv
  <2>1. ASSUME Init
        PROVE  NoManualRetry /\ \A e \in Executions : Justified(e)
    BY <2>1 DEF Init, DatabaseInit, ApiInit, NoRequest, NewExecution,
                NoManualRetry, Justified
  <2>2. ASSUME Init
        PROVE  /\ \A w \in Workers : WorkerCounts(w)
               /\ \A s \in Schedulers : scheduler[s].reaping = {}
    BY <2>2 DEF Init, WorkerInit, SchedulerInit, Idle, CycleStart, WorkerCounts,
                Claimed
  <2> QED
    BY <2>1, <2>2, InitTypeInv DEF CountInv
<1>2. CountInv => DeadLetterJustified
  BY DEF CountInv, Justified, DeadLetterJustified
<1> QED
  BY <1>1, <1>2, NextCountInv, PTL DEF Spec
=============================================================================
