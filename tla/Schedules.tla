----------------------------- MODULE Schedules ------------------------------
(***************************************************************************)
(* create_schedule, and the functions of the cycle of app/scheduler.py     *)
(* that touch these tables: prepare_due_schedules, then                    *)
(* publish_dispatch_outbox.  Scheduler has the other two.                  *)
(*                                                                         *)
(* Times are positive numbers, 0 is NULL.  A schedule whose next_run_at is *)
(* 0 has not been created; enabled is TRUE from then on, nothing clears it.*)
(***************************************************************************)
EXTENDS Catalogue, FiniteSets

CONSTANTS
    Schedules,   \* identifiers of schedules
    Target,      \* the workflow of each
    Interval,    \* interval_seconds of each
    StartTimes,  \* what a client may send as starts_at, 0 for nothing
    Schedulers,  \* scheduler processes
    BatchSize,   \* the limit of the queries for due schedules and for
                 \* unpublished rows
    MaxTime,     \* the clock stops here
    MaxFaults    \* crashes of schedulers and Redis errors

ASSUME ScheduleAssumption ==
    /\ Target \in [Schedules -> Workflows]
    /\ Interval \in [Schedules -> Nat \ {0}]
    /\ StartTimes \subseteq Nat
    /\ IsFiniteSet(Schedules)
    /\ BatchSize \in Nat \ {0}
    /\ MaxTime \in Nat \ {0}
    /\ MaxFaults \in Nat

VARIABLES
    schedules,  \* next_run_at and last_run_at of every schedule
    now,        \* the clock
    cycles,     \* where every scheduler is in its cycle, and its batches
    faults      \* crashes and Redis errors so far

scheduleVars == <<schedules, now, cycles, faults>>

CyclePoints == {"due_select", "prepare", "publish_select", "publish"}

CycleStart == [pc |-> "due_select", batch |-> <<>>, publishing |-> {}]

SchedulesInit ==
    /\ schedules = [d \in Schedules |-> [next_run_at |-> 0, last_run_at |-> 0]]
    /\ now = 1
    /\ cycles = [s \in Schedulers |-> CycleStart]
    /\ faults = 0

(* The key of the execution of a schedule that was due at a time.          *)
ScheduleKey(d, due_at) == << <<"schedule:">>, <<d, due_at>> >>

-----------------------------------------------------------------------------
(* create_schedule by an admin: starts_at may be any time, past ones too.  *)
CreateSchedule(d, starts_at) ==
    /\ schedules[d].next_run_at = 0
    /\ FirstFailure("create_schedule", {}, workflows[Target[d]]) = 0
    /\ schedules' = [schedules EXCEPT ![d].next_run_at =
                        IF starts_at = 0 THEN now + Interval[d] ELSE starts_at]
    /\ UNCHANGED <<now, cycles, faults, catalogueVars>>

(* The conditions of the query.                                            *)
IsDue(d) ==
    /\ schedules[d].next_run_at # 0
    /\ schedules[d].next_run_at <= now
    /\ workflows[Target[d]] = "active"

Entry(d) == [id |-> d, due_at |-> schedules[d].next_run_at]

(* Mutant: the query has no limit.                                         *)
BatchLengthUnlimited(due) == Cardinality(due)

(* The number of rows that a query with a limit returns.                   *)
BatchLength(due) == IF Cardinality(due) < BatchSize
                    THEN Cardinality(due) ELSE BatchSize

(* The query: the schedules that have been due for longest, by next_run_at.*)
DueBatches ==
    LET due == {d \in Schedules : IsDue(d)}
        chosen == [1..BatchLength(due) -> {Entry(d) : d \in due}]
    IN  {q \in chosen :
            /\ \A i, j \in DOMAIN q :
                  i < j => q[i].due_at <= q[j].due_at /\ q[i] # q[j]
            /\ \A d \in due, i \in DOMAIN q :
                  \/ \E j \in DOMAIN q : q[j].id = d
                  \/ q[i].due_at <= schedules[d].next_run_at}

(* Mutant: the outbox is published only in cycles with due schedules.      *)
ContinueIfDue(s, batch) ==
    cycles' = [cycles EXCEPT
        ![s].pc = IF batch # <<>> THEN "prepare"
                  ELSE IF cycles[s].pc = "prepare" THEN "publish_select"
                  ELSE "due_select",
        ![s].batch = batch]

(* To the next entry of the batch, or out of the loop.                     *)
Continue(s, batch) ==
    cycles' = [cycles EXCEPT
        ![s].pc = IF batch = <<>> THEN "publish_select" ELSE "prepare",
        ![s].batch = batch]

DueSelect(s) ==
    /\ cycles[s].pc = "due_select"
    /\ \E batch \in DueBatches : Continue(s, batch)
    /\ UNCHANGED <<schedules, now, faults, catalogueVars>>

(* Mutant: next_run_at counts from the time of the cycle.                  *)
AdvancedFromNow(d, due_at) ==
    [last_run_at |-> due_at, next_run_at |-> now + Interval[d]]

(* The values of the conditional update.                                   *)
Advanced(d, due_at) ==
    [last_run_at |-> due_at, next_run_at |-> due_at + Interval[d]]

(* Mutant: an interval that was missed is not made up for.                 *)
StillDueRecent(entry) ==
    /\ schedules[entry.id].next_run_at = entry.due_at
    /\ now < entry.due_at + Interval[entry.id]

(* Its condition: nobody has advanced the schedule since the query.        *)
StillDue(entry) == schedules[entry.id].next_run_at = entry.due_at

(* The update, the execution and its outbox row, in one transaction.       *)
Prepare(s) ==
    LET entry == Head(cycles[s].batch)
        key == ScheduleKey(entry.id, entry.due_at)
    IN  /\ cycles[s].pc = "prepare"
        /\ StillDue(entry)
        /\ ~Duplicate(Target[entry.id], key)
        /\ schedules' = [schedules EXCEPT
                            ![entry.id] = Advanced(entry.id, entry.due_at)]
        /\ AddExecution(Target[entry.id], key, "schedule")
        /\ Continue(s, Tail(cycles[s].batch))
        /\ UNCHANGED <<now, faults>>

(* rowcount is 0: another scheduler was first.                             *)
PrepareMiss(s) ==
    /\ cycles[s].pc = "prepare"
    /\ ~StillDue(Head(cycles[s].batch))
    /\ Continue(s, Tail(cycles[s].batch))
    /\ UNCHANGED <<schedules, now, faults, catalogueVars>>

(* IntegrityError, which nobody handles: the transaction is rolled back,   *)
(* the process ends and is restarted.                                      *)
PrepareConflict(s) ==
    LET entry == Head(cycles[s].batch)
    IN  /\ cycles[s].pc = "prepare"
        /\ StillDue(entry)
        /\ Duplicate(Target[entry.id], ScheduleKey(entry.id, entry.due_at))
        /\ cycles' = [cycles EXCEPT ![s] = CycleStart]
        /\ UNCHANGED <<schedules, now, faults, catalogueVars>>

-----------------------------------------------------------------------------
(* publish_dispatch_outbox                                                 *)

(* The rows that the query may return.  They are ordered by created_at,    *)
(* which is not the order of the commits: any order may happen.            *)
OutboxBatches ==
    {rows \in SUBSET outbox :
        \/ rows = outbox /\ Cardinality(rows) <= BatchSize
        \/ Cardinality(rows) = BatchSize}

(* To the next row of the batch, or to the end of the cycle.               *)
PublishRest(s, rows) ==
    cycles' = [cycles EXCEPT
        ![s].pc = IF rows = {} THEN "due_select" ELSE "publish",
        ![s].publishing = rows]

PublishSelect(s) ==
    /\ cycles[s].pc = "publish_select"
    /\ \E rows \in OutboxBatches : PublishRest(s, rows)
    /\ UNCHANGED <<schedules, now, faults, catalogueVars>>

(* The push, and the commit of published_at.  Redis is not part of this    *)
(* module: for its tables a crash between the two is one in front of both. *)
Publish(s) ==
    \E row \in cycles[s].publishing :
        /\ cycles[s].pc = "publish"
        /\ outbox' = outbox \ {row}
        /\ PublishRest(s, cycles[s].publishing \ {row})
        /\ UNCHANGED <<schedules, now, faults, workflows, admitted>>

(* The push raises: the row stays unpublished, the loop goes on.           *)
PublishFails(s) ==
    \E row \in cycles[s].publishing :
        /\ cycles[s].pc = "publish"
        /\ faults < MaxFaults
        /\ faults' = faults + 1
        /\ PublishRest(s, cycles[s].publishing \ {row})
        /\ UNCHANGED <<schedules, now, catalogueVars>>

SchedulerCrash(s) ==
    /\ faults < MaxFaults
    /\ faults' = faults + 1
    /\ cycles' = [cycles EXCEPT ![s] = CycleStart]
    /\ UNCHANGED <<schedules, now, catalogueVars>>

Tick ==
    /\ now < MaxTime
    /\ now' = now + 1
    /\ UNCHANGED <<schedules, cycles, faults, catalogueVars>>

CycleStep(s) ==
    \/ DueSelect(s)
    \/ Prepare(s)
    \/ PrepareMiss(s)
    \/ PrepareConflict(s)
    \/ PublishSelect(s)
    \/ Publish(s)
=============================================================================
