# Verification of the enterprise automation platform

TLA+ models of the platform's execution core, of the triggers in front of it and of
what its steps compute, TLC runs over small instances of
them, and theorems checked by TLAPS. Source paths are relative to the repository.

## 1. The system

| Component | Source | State it keeps | Operations |
|---|---|---|---|
| Execution tables | `app/domain/models.py`, `enums.py`, `infrastructure/database.py`, `services/audit.py` | rows of `executions`, `step_executions`, `failure_records`, `audit_events`, `dispatch_outbox` | written by the three processes below |
| Redis queue | `app/infrastructure/queue.py` | a list of execution ids | `enqueue` (RPUSH), `dequeue` (BLPOP) |
| Worker | `app/worker.py`, `app/services/executions.py` | one delivery, a lease token, a session | claim, load, renew lease, begin step, run step, commit step, succeed, fail |
| Scheduler | `app/scheduler.py`, `app/services/scheduling.py` | a batch per function of the cycle | reap expired leases, create due scheduled executions, requeue due retries, publish the outbox |
| API | `app/api/routes/*.py`, `services/execution_requests.py` | nothing between requests | request, retry, cancel an execution; create workflows, schedules; webhook |
| Catalogue | `Workflow`, `WorkflowSchedule` | workflows (never updated), schedules | create, list |
| Step runner | `app/services/steps.py` | none | `assign`, `condition`, `emit_event` |
| Roles | `app/infrastructure/auth.py` | none | `require_roles` |
| Around it | health, metrics, logging, config, migrations | none that decides anything | |

How they interact. The API inserts an execution, an outbox row and an audit event
in one transaction. A scheduler pushes the identifiers of unpublished outbox rows
to Redis and then marks the rows. A worker pops an identifier, claims the
execution with a conditional `UPDATE` that draws a lease token, and runs the steps,
renewing the lease in front of every transaction. A failed step schedules a retry,
which a scheduler requeues when it is due (with a new outbox row), or
dead-letters the execution, which an operator may requeue. A scheduler requeues or
dead-letters a running execution whose lease has run out. The database is the only
shared state besides the Redis list.

What is hard about it: every decision is taken on rows read in an earlier
transaction (the reaper's and the retry preparer's batches, the worker's session,
the operator's status test); the lease is checked in one transaction and the work
committed in the next; a delivery crosses two systems; every process may die
between any two transactions; and leases and retries expire while somebody is
acting on them. `PROJECT.json` lists these hazards at their lines.

What makes each part correct:

* tables and publisher: an unfinished execution is never without a delivery, a
  lease or a due time (`NeverStranded`);
* worker: the lease has one owner (`OneOwner`), only its holder writes
  (`WriterHoldsLease`), steps complete once and in order, with their output
  (`StepsInOrder`);
* reaper and retry preparer: no run is ended, and no retry started, before its time
  (`ReapsOnlyExpired`, `RetriesOnlyDue`), however old the batch;
* attempts: `DeadLetterJustified`, and the bound in `ExecutionLifecycle`;
* audit and row: `RowAgrees`;
* all together: the life cycle of the docs (`ImplementsLifecycle`), and every
  queued execution ends (`Settles`);
* requests: one execution per workflow and key, whoever asks, however often and
  however concurrently (`AnswersAgree`, `ImplementsIdempotency`), without a 500
  (`NoServerError`, which `long_event` violates);
* schedules: one execution per interval, none skipped (`EveryIntervalOnce`), late
  ones caught up (`SchedulesCatchUp`), and everything accepted handed on
  (`AcceptedIsPublished`, which `poisoned_key` violates);
* step runner: the output of an interrupted execution is that of a straight run
  (`OutputIsStraightRun`), and what a workflow may contain the runner implements
  (`OnlyConfigFails`);
* backoff: retries wait longer and longer (`DelaysGrow`);
* checks of the API: `RolesFromToken`, `SignatureFirst`.

## 2. The modules

```
Database ──┬── Worker ─────┐
RedisQueue ┼── Scheduler ──┼── Platform ──┬── MCPlatform (TLC)
           └── Api ────────┘      │       └── PlatformProofs ─┬─ RecoveryProofs
     ExecutionLifecycle ──────────┘ (refinement)              └─ TimingProofs
                                                                 └─ FencingProofs
                                                                    └─ LifecycleProofs

Gateway ── Catalogue ─┬─ Admission ─┬── Triggers ──── MCTriggers (TLC)
                      └─ Schedules ─┘      │   └── TriggerProofs ── AdmissionProofs
              IdempotentAdmission ─────────┘ (refinement)

Backoff ── StepRunner ─┬─ MCStepRunner (TLC)
                       └─ StepRunnerProofs
```

The first group is what happens to an execution once it is inserted, the second how
it comes to be inserted. They meet in the outbox: an execution that `Triggers`
publishes is one that `Platform` finds in its outbox after `ExecutionRequested`.

**Database** holds the tables as functions of the execution. One action of the
project is one statement or transaction: PostgreSQL runs at READ COMMITTED, and
each transaction writes the row of one execution, so nothing can be observed in
its middle; a `SELECT` whose result a later transaction uses is an action of its
own. Abstractions:

* `lease_token` is a number drawn per claim (the code draws a UUID), 0 is NULL.
  It stands also for `lease_owner`, `heartbeat_at` and `lease_expires_at`, which
  are set and cleared with it.
* Timestamps matter only in the comparisons with `now`. `lease_past` and
  `retry_past` are the executions whose expiry or due time the clock has passed;
  `lease_view[s]` and `retry_view[s]` are those for the `now` that scheduler `s`
  took when it read its batch and compares with again in its `UPDATE`. Writing a
  new timestamp removes the execution from all of them. This assumes that the
  processes' clocks agree.
* `output_payload` is the set of steps merged into it; `failure_records` and
  `audit_events` keep the newest entry; an outbox row is `<<execution, number>>`.
* `Assign` is what SQLAlchemy does with an attribute assignment: the column is
  written only when the value differs from the one the session loaded. Sessions
  are created with `autoflush=False, expire_on_commit=False`
  (`infrastructure/database.py:14`), so a session goes on with what it loaded.

**RedisQueue** is the list. **Worker** has one action per transaction of
`ExecutionService.run`, `_run_steps`, `_fail_execution` and `_renew_lease`, with
the program point in `worker[w].pc`; the `CommitPoints` are the points between a
renewal and the transaction it guards. The three `SELECT`s of `_load` are one action:
the row comes from the first, the steps and their attempts from the others, so they
could differ only for a worker that stalls inside `_load` past its lease, where
another one has claimed the execution. The runner returns, raises a transient or
permanent `StepFailure`, or raises something else. `BeginStepConflict` is the
uncaught `IntegrityError` of two workers inserting one step row.

**Scheduler** has one action per transaction of `reap_expired_executions`,
`prepare_due_retries` and `publish_dispatch_outbox`, in the order of the cycle.
The rollback in the reaper expires the objects of the batch, so the following
entries are read again (`ReapReload`), with the old `now`. `PublishFails` leaves
open whether Redis had applied the push. Batches are ordered in the code by
timestamps the model does not keep; here any order may happen.

**Api** has the insertion of an execution, and the manual retry and the
cancellation as a read with its status test and a commit by primary key.

**Platform** composes them and adds time (`LeaseExpires`, `RetryBecomesDue`),
crashes and Redis errors, and states the properties. Two constants select the
environment: `Stalls` (may a lease run out between a renewal and the commit it
guards, at least ten seconds by `core/config.py:24`?) and `CrashAfterPop` (may a
worker die between BLPOP and the claim?). Both happen in production; a property
that needs one of them FALSE says where the code relies on luck, and the findings
show what happens otherwise.

**ExecutionLifecycle** is the abstract specification: the status machine of the
README's diagram with a bound on attempts and steps completed one by one. It has
two transitions the diagram omits and `docs/failure-model.md` and the cancel
handler have: running to queued (a lease reaped) and retry_scheduled to cancelled.
The refinement mapping takes `status`, `attempt_count` and `current_step` from the
row.

**Gateway** is what the handlers check before they write. `get_auth_context` and
`require_roles`: a token verifies or does not (PyJWT), a claim of roles is missing
(or no list), or a list in any spelling, and the development headers may say
anything. Then the handler's own checks, in their order: a call has a set of flaws,
the workflow it names adds "missing" or "inactive", and the answer is the code of
the first check that fails. The module has no state; **Admission** applies it to
every call that arrives. A signature that is not ASCII is a flaw of its own, because
`hmac.compare_digest` raises a `TypeError` for it (a 500).

**Catalogue** holds the tables that triggers write. An execution is its workflow,
key and trigger; its identifier is its number in the order of insertion. A key is the
sequence of the prefixes it begins with and the rest, because the code builds keys by
prefixing (`webhook:`, `schedule:`), because a client may send a key or an event
identifier that begins with them already, and because lengths matter: headers have
8 to 160 characters, the column 160. **Admission** has `create_execution` and `trigger_webhook` up to the
call of `request_execution`, and this as its transactions: lookup, insert, lookup
after an `IntegrityError`, answer. PostgreSQL (READ COMMITTED) makes a second insert
of a key wait for the first, so the insert is one step that commits or conflicts. A
request may vanish at any point, after its commit too, and be sent again.
**Schedules** has `create_schedule`, and `prepare_due_schedules` as a query for a
batch ordered by `next_run_at` and one transaction per entry, that advances the
schedule and inserts the execution, or misses, or ends the process with an
unhandled `IntegrityError`. Time is a number here, since intervals are added to it.
The publisher follows as a query for a batch of rows and one transaction per row,
that marks it or, when Redis raises, leaves it. Redis itself, and the crash between a
push and its mark, are in **Scheduler**: for the tables, such a crash is one in front of
both. The reaper and the retry preparer touch none of these tables but the outbox. **Triggers** composes the three and states their properties.

**IdempotentAdmission** is the abstract specification: keys are accepted once,
every answer refuses its request or names the execution of its key, one answer at
most calls it new, and only accepted executions are published. The mapping takes the
accepted keys from the executions, the replies from the answers (execution 0 is a
refusal), and the published ones from what is no longer in the outbox.

**StepRunner** has the validation of definitions, the three kinds of step over
tagged JSON values (compared as Python compares them: `True == 1` and `1 == 1.0`),
the merge of outputs, and what interrupts an execution: a runner
that raises (`RunStepRaises`), a crash followed by a reap (`Reaped`) and a manual
retry. All leave `current_step` and `output_payload` and lose the worker's
variables, which `Resume` loads again. A step's computation and its commit are one
action, since a crash between them leaves what a crash before them leaves. The
claim of a due retry stands for `prepare_due_retries`, the delivery and the claim,
which **Scheduler** and **Worker** have in detail. Keys of a config are taken as
lower-case already. `DefaultStepRunner` raises nothing transient itself;
`app/services/steps.py:7` and the worker's handler provide for runners that do.
**Backoff** is `retry_delay_seconds` in milliseconds, with the jitter rounded down
to thousandths and any digest.

## 3. The runs

| Run | Instance | Environment | Shows |
|---|---|---|---|
| `fencing` | 1 execution, 2 steps, 2 attempts, 2 workers, 1 scheduler, 1 manual retry, 1 fault | no stalls | `WriterHoldsLease`, `StepsInOrder`, `RowAgrees`, `ImplementsLifecycle` |
| `recovery` | 1 execution, 3 attempts, 1 worker, 2 schedulers, 1 cancellation, 1 fault | no stalls | `NeverStranded`, `ReapsOnlyExpired`, `RetriesOnlyDue` |
| `two_executions` | 2 executions, one with a broken definition, 2 workers, batches of 2, 1 retry or cancellation | no stalls | `TypeOK`, `DeadLetterJustified`, `NeverStranded` |
| `settles` | 1 execution, 2 attempts, 2 workers, 1 fault | stalls, fairness | `OneOwner`, `Settles` |
| `lost_delivery` | 1 execution, 1 worker, 1 fault | crash after pop, fairness | `Settles` is violated |
| `stale_worker` | 2 workers, 2 attempts | stalls | `FencedWrites` is violated |
| `late_call` | 1 worker, 2 operators who retry or cancel | | `SuccessIsFinal` is violated |
| `admission` | 2 workflows, 2 concurrent requests, 6 calls (the longest event that fits its column, the same key by hand for another workflow, a key that a schedule derives, events with a wrong signature, with one that is not ASCII, and with a wrong one and no JSON), up to 2 answers, 1 schedule with 1 interval | requests lost | `AnswersAgree`, `SignatureFirst`, `NoServerError`, `ImplementsIdempotency` |
| `schedules` | 2 schedules (intervals 1 and 2), 2 schedulers, batches of 1, time 2, 1 fault, 1 request (an event that is too short or too long, a manual call with an invalid token, a viewer's or an operator's, all with a development header that says admin) | fairness | `TypeOK`, `EveryIntervalOnce`, `RolesFromToken`, `SchedulesCatchUp`, `AcceptedIsPublished` |
| `steps` | 13 definitions, 1 to 3 steps, 3 attempts, 1 manual retry, digests at both ends | | `OutputIsStraightRun`, `OnlyConfigFails`, `DelaysGrow` |
| `long_event` | 1 event of 160 characters | | `NoServerError` is violated |
| `poisoned_key` | 1 schedule, 1 scheduler, 1 manual call with the schedule's key, no faults | fairness | `AcceptedIsPublished` is violated |

Bounds. The races here are between two actors on one execution, so one execution
and two of the actors at stake show them; a second execution matters for the
batches (`two_executions`). Two steps are needed for an order of steps and for a
resumption at a later one. Two attempts separate "attempts left" from "used up";
three let an execution be scheduled for retry twice, which a stale batch needs
(`recovery`). `recovery` has batches of 1; the entries read again in the middle of
a batch are in `two_executions`, and in the theorem `NoEarlyReap` for any batch.
No execution of `fencing` is cancelled; `recovery` and `two_executions` have
cancellations. `MaxFaults` bounds crashes and Redis errors, `MaxCalls` operator
requests: one fault and one call let each happen at every point; two calls let them
race. In `Platform` nothing else is capped: attempts bound the tokens, the outbox rows
and the queue, except under repeated duplicates, which need faults. Deadlock checking is
on: an idle platform still runs scheduler cycles. Workers, schedulers and operators
are interchangeable, which the symmetry of the safety runs uses; the runs with
fairness use none.

In `Triggers`, two concurrent requests race for a key, and a request that is lost
after its commit leaves an execution for two more answers; `MaxAnswers` stops arrivals
and `MaxTime` the clock. Time 2 lets a schedule that starts at 1 be behind by two
intervals while another becomes due, with batches too small for both. Since the clock
stops, what `SchedulesCatchUp` says is that a finite backlog is drained: the
scheduler works off one interval of a schedule per cycle, and that it does so faster
than intervals elapse is a matter of real time, which is not modelled.

In `StepRunner`, three steps let a value be written, overwritten and read, and three
attempts give two delays to compare, with the base of one second where the floor holds. `steps` may stop: an execution ends.

Fairness. In `Triggers`, schedulers and, up to `MaxTime`, the clock are weakly
fair, for the reasons below; clients are not. In `Platform`, `FairSpec` has weak fairness of every
worker, every scheduler and of the clock. `docker-compose.yml:66-82` restarts a process that ends
(`restart: unless-stopped`); a worker loops over BLPOP and the runner's three kinds
of step are finite computations; the scheduler polls. Only an idle worker can
be disabled by another process, which has then taken the delivery itself; so weak
fairness is all that is needed. Requests, operators and faults have none.

What the violations say (quotations are in `PROJECT.json`):

1. `lost_delivery`: delivery is at least once up to Redis and at most once from
   there. A worker that dies between BLPOP and the claim leaves a queued execution
   without a delivery, and nothing ever looks for it.
2. `stale_worker`: fencing is check-then-act. A worker that stalls between the
   renewal and the commit for longer than the lease overwrites the new owner's state.
3. `late_call`: the operator's handlers test a status and then commit by primary key.
   A cancellation that was allowed when it was tested cancels an execution that has been
   claimed, or has succeeded, since. With `OperatorCalls = {"retry"}` the same run shows
   that of two concurrent manual retries the later one can requeue an execution that the
   first one ran to success.
4. `long_event`: an event identifier of 153 to 160 characters passes the header's
   check and does not fit its column behind `webhook:`; every delivery of the
   event ends in a 500.
5. `poisoned_key`: a client's key may be one that `prepare_due_schedules` derives. It
   does not handle the `IntegrityError` of a key that exists
   (`services/scheduling.py:148`): the scheduler ends in front of
   `publish_dispatch_outbox`, and does so again in every cycle after its restart.
   Nothing that is accepted is published any more.

Keys share one space: manual keys, `webhook:` keys and `schedule:` keys are kept apart
by prefixes that a client may send in its own key as well
(`api/routes/workflows.py:92-95`). The properties do not hide this. `AnswersAgree` says
one execution per key, whoever sends it, so after a manual call with the key
`webhook:x` the event `x` is answered with the client's execution, and its own payload
never runs; no property says that webhooks get executions of their own, because they do
not. `schedules` sends no key that a schedule derives, since 5 would stop its
schedulers, and its liveness properties are stated without exception; `admission` sends one
(for the unhandled conflict and for a request answered with a schedule's execution),
and the theorem `IntervalsRunOnce` holds with any keys. `admission` sends only events that
fit their column, because of 4.

The `fencing` run is, because of 1 to 3, restricted to no stalls and a single manual retry
without cancellations: under stalls or two racing operator calls its properties
fail in the ways just described. The theorems of the next section name these
restrictions as hypotheses. `NeverStranded`, `ReapsOnlyExpired` and
`RetriesOnlyDue` need no such restriction (the first needs that no worker dies
right after the pop); their instances have no stalls for size, and the theorems of
the next section cover stalls and any number of calls.

Each property of a passing run has a mutant, an operator with a plausible bug
defined in front of the one it replaces, under which the property fails.

## 4. The proofs

The theorems hold for any sets of executions, workers, schedulers, operators,
clients and calls, finite or not, and for any `NumSteps`, `MaxAttempts`,
`BatchSize`, intervals and start times within the assumptions of the modules
(positive numbers, which `WorkflowCreate` and `ScheduleCreate` enforce), with any
bound on faults, calls, answers and time. Schedules are finitely many, because a
batch lists them. `StepRunner` has the limits of the settings and schemas: up to
50 steps and 10 attempts, a base delay of 1 to 3600 seconds, two bytes of digest.
`NoExecution` is assumed not to be an execution.

### The platform

* `PlatformProofs`: `TypeCorrect`, `Spec => []TypeOK`. `TypeOK` is not inductive:
  a worker past BLPOP must have an execution (`HasExecution`), or its writes would
  be outside the tables, and its step index must be inside the workflow at the
  points that use it (`IndexInside`), or the last commit would leave
  `current_step`'s range. `TypeInv` is the conjunction. One lemma per action.
* `RecoveryProofs`: `NoExecutionStranded`, under `~CrashAfterPop`. The induction
  adds `RowNumbers`: an outbox row's number is at most the count of rows the
  execution has been given, so a row added is never one that a publisher is about
  to mark; without it a requeue could be undone by an older publication. The
  delivery then moves from the outbox to the queue to a claiming worker without a
  gap: `Publish` pushes before `MarkPublished` removes, a crash in between leaves
  the row, and a claim that misses finds the execution no longer queued.
* `TimingProofs`: `NoEarlyReap` and `NoEarlyRetry`. The induction needs
  `ViewsBehind`: what a scheduler's `now` has passed, the clock has passed. Any
  write of a timestamp clears both, so a conditional `UPDATE` that compares with an
  old `now` can only match an execution that is past its time now.
* `FencingProofs`: `ProgressConsistent` (`StepsInOrder`) and `GivenUpWithReason`
  (`DeadLetterJustified`), under `~Stalls` and `RetriesApart` (a single operator, if
  operators retry; any number of operators may cancel, at any time). The inductive
  invariant `FenceInv` is the argument for check-then-act fencing. Tokens are drawn
  once, so no two workers have the same one (`TokensDiffer`); a worker between a
  renewal and its commit has the row's token, and the lease is not past, so by
  `ViewsBehind` no scheduler's `now` has passed it and no reap can match
  (`WorkerFits`); as long as a worker's token is the row's, nobody else has written
  the row since it was loaded, so the session that is never refreshed agrees with
  the tables (`SessionAgrees`). A late cancellation leaves the token behind
  (`RowFits`), which is why it does no harm to the order of the steps. A reaper's
  entry whose lease is still there has the current count of attempts (`EntryFits`),
  and a manual retry has read the row as it is (`RequestFits`).
  Two theorems of the module hold without that fence. `LeaseHasOneOwner` (`OneOwner`)
  has no hypothesis at all: every claim draws a new token (`TokenInv`), so however
  long workers stall, at most one of those that have claimed an execution gets past
  `_renew_lease`. `StaleCountsAreSafe` is `DeadLetterJustified` for platforms where
  nobody retries by hand, under stalls and racing cancellations: only a manual retry
  takes attempts back, so the count a session or a batch remembers is at most the
  row's (`CountInv`), and a decision on it errs towards another attempt.
* `LifecycleProofs`: `LeaseGuardsCommit` (`WriterHoldsLease`), `RowTellsOneStory`
  (`RowAgrees`) and `PlatformImplementsLifecycle`, with `OnlyRetries` (nobody
  cancels) in addition. `StoryInv` adds to `FenceInv` that the columns of a row agree
  (`RowStory`) and that whoever waits for a worker has an attempt left
  (`AttemptsLeft`), which the abstract bound on attempts needs. Every action is shown
  to be one step of the abstract specification or a stutter (`StoryGoal`).
  `FencedWithoutStalls` (`FencedWrites`) and `SuccessStays` (`SuccessIsFinal`) are the
  other side of two findings: under the same hypotheses the two action properties that
  `stale_worker` and `late_call` violate hold, so a stall, two overlapping manual
  retries or a late cancellation is what it takes. `SuccessStays` follows from
  the refinement: no transition of `ExecutionLifecycle` leaves "succeeded".

The hypotheses are those of the runs that check these properties, and none of them
can be left out, but for what `StaleCountsAreSafe` says. With `Stalls`, with a second
operator that retries or, for the theorems of `LifecycleProofs`, with a
cancellation, TLC refutes each of the properties on
instances of one execution, one step, one or two attempts and at most two calls. The
runs `stale_worker`, `late_call` and `lost_delivery` show
what these counterexamples (and `CrashAfterPop`) have in common with what the
documentation says.

### The triggers

* `TriggerProofs`: `TriggersTyped` and `IntervalsRunOnce` (`EveryIntervalOnce`),
  without hypotheses. `TypeOK` includes that a scheduler prepares
  exactly while its batch is not empty and publishes exactly while it has rows of
  executions in hand; `TypeInv` states the same table by table. `IntervalInv` adds that executions have distinct
  workflow and key (`Distinct`, the unique constraint), that an execution of the
  schedule trigger has a schedule's key and target (`ScheduleRows`), that behind an
  interval that has run comes one that has run or `next_run_at` (`Consecutive`), and
  what `last_run_at` tells (`LastRun`). Batches need nothing: the conditional
  update of `next_run_at` compares again, so a stale entry misses.
* `AdmissionProofs`: `OneAnswerPerKey` (`AnswersAgree`), `NothingBeforeSignature`
  (`SignatureFirst`), `TokenDecides` (`RolesFromToken`), `NoRequestFails`
  (`NoServerError`: only a signature that is not ASCII gets a 500, for keys that fit
  their column with the prefix, `KeysFit`; `long_event` shows the violation without it)
  and `TriggersImplementAdmission`. `AnswerInv` adds to
  `IntervalInv` what an open request knows (`RequestSound`): it has passed its checks,
  behind a conflict there is an execution to find, and behind its own insert no
  answer has called that execution new; no two requests are about to call the same
  execution new (`RepliesApart`); and what every answer given says (`AnswerSound`,
  `OneNew`). For the refinement every action accepts one key, gives one reply,
  publishes, or stutters; its type lemmas (`AcceptedType`, `RepliesType`) say that
  the mapped sequences are sequences.

### The step runner

* `StepRunnerProofs`: `OnlyConfigsFail` (`OnlyConfigFails`) from `FailsAtConfig`:
  definitions stay accepted, and an execution dead-lettered for a config stands at
  that step, through crashes and manual retries. `RetriesWaitLonger` (`DelaysGrow`)
  from `DelaysKnown`: the delays in the state are those of earlier attempts, the
  newer of a later one; `LaterWaitsLonger` bounds the jitter by a fifth of the delay
  and compares with the doubling. The powers of two are enumerated, since
  `max_attempts` is at most 10. `InterruptionsDoNotShow` (`OutputIsStraightRun`):
  the committed output is what its steps give when they are run straight through, for
  every list of accepted definitions and every input. The straight run is defined
  independently of the runner's merging, key by key from the last step that writes it
  (`LastWriter`), as a recursive function over the number of steps; the proof shows
  that this function exists (`RunExists`), that one more step merges that step's
  object (`StraightRunGrows`), and that a resumption goes on with exactly this output
  (`RunsStraight`). The inductions over steps are arguments by a least
  counterexample (`LeastNumber`, from the well-foundedness of the order of the naturals),
  which need no theorem with an operator as parameter.

Each property named in a theorem is one that a run checks.

### Model-checked only

`Settles`, `SchedulesCatchUp` and `AcceptedIsPublished`: liveness under fairness is out
of the prover's reach. Every other property of a passing run is stated by a theorem.

## 5. Not modelled

* Handlers that only read (`list_*`, `get_*`, the audit trail).
* Token verification and the HMAC: library calls, which succeed or not.
* How fast time passes: whether a cycle is shorter than the interval of a schedule.
* Single-field validation other than what `Gateway`, `Admission` and `StepRunner`
  name; malformed JSON, which FastAPI refuses before it looks at the roles.
* A graceful shutdown: a worker that leaves its loop is a worker that stays idle,
  which the safety runs include.
* Clock skew between processes, and failures of PostgreSQL or loss of Redis data.
* Migrations (run once, before the processes start), health, metrics, logging,
  settings: no state that others read.

## 6. Plan

1. (done) Database, RedisQueue, Worker, Scheduler, Api, Platform and
   ExecutionLifecycle; type correctness, no stranded execution, no early reap or
   retry proved.
2. (done) The triggers: Gateway, Catalogue, Admission, Schedules,
   Triggers and IdempotentAdmission; StepRunner and Backoff.
3. (done) Proofs of the triggers and of the step runner: `EveryIntervalOnce`, the
   answers, the refinement of IdempotentAdmission, `OnlyConfigFails`, `DelaysGrow`.
4. (done) Proofs of the core: the fencing argument, `StepsInOrder`, `RowAgrees`,
   `DeadLetterJustified` and the refinement of ExecutionLifecycle.
5. (done) What holds when the hypotheses of 4 fail: one owner of the lease, and
   `DeadLetterJustified` without manual retries; the straight run of the steps.
6. (done) The publisher row by row behind the schedules, with Redis errors; what a key
   that another trigger would derive does to webhooks and schedules.
7. Open: which parts of `RowAgrees` and of the life cycle survive cancellations that
   race, and, with crashes after the pop, that such a crash is the only way in which a
   queued execution loses its delivery.

## 7. Running

```
tlc -workers 2 -config fencing.cfg MCPlatform
tlc -workers 2 -config admission.cfg MCTriggers
tlc -workers 2 -config poisoned_key.cfg MCTriggers
tlapm LifecycleProofs.tla
```
