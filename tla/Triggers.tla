------------------------------ MODULE Triggers ------------------------------
(***************************************************************************)
(* The three ways an execution comes into being, over the same tables:     *)
(* clients and webhooks (Admission), schedules (Schedules), with the       *)
(* workflows created meanwhile (Catalogue).                                *)
(***************************************************************************)
EXTENDS Admission, Schedules

vars == <<catalogueVars, admissionVars, scheduleVars>>

Init == CatalogueInit /\ AdmissionInit /\ SchedulesInit

WorkflowCreated ==
    /\ \E w \in Workflows, status \in WorkflowStatus \ {"absent"} :
          CreateWorkflow(w, status)
    /\ UNCHANGED <<admissionVars, scheduleVars>>

RequestArrives ==
    /\ \E c \in Clients, call \in Calls : Arrive(c, call)
    /\ UNCHANGED scheduleVars

RequestServed(c) == ServeStep(c) /\ UNCHANGED scheduleVars

RequestLost(c) == Vanish(c) /\ UNCHANGED scheduleVars

ScheduleCreated ==
    /\ \E d \in Schedules, starts_at \in StartTimes :
          CreateSchedule(d, starts_at)
    /\ UNCHANGED admissionVars

SchedulerRuns(s) == CycleStep(s) /\ UNCHANGED admissionVars

SchedulerFault(s) ==
    /\ SchedulerCrash(s) \/ PublishFails(s)
    /\ UNCHANGED admissionVars

TimePasses == Tick /\ UNCHANGED admissionVars

Next ==
    \/ WorkflowCreated
    \/ RequestArrives
    \/ \E c \in Clients : RequestServed(c) \/ RequestLost(c)
    \/ ScheduleCreated
    \/ \E s \in Schedulers : SchedulerRuns(s) \/ SchedulerFault(s)
    \/ TimePasses

Spec == Init /\ [][Next]_vars

(* Schedulers are restarted when they end, and the clock goes on to        *)
(* MaxTime.                                                                *)
FairSpec == Spec /\ \A s \in Schedulers : WF_vars(SchedulerRuns(s))
                 /\ WF_vars(TimePasses)

-----------------------------------------------------------------------------
ScheduleKeys == {<<"schedule:">>} \X (Schedules \X Nat)

IdempotencyKeys == {KeyOf(call) : call \in Calls} \cup ScheduleKeys

Codes == {202, 401, 403, 404, 409, 413, 422, 500, 503}

(* The variables have their types, and an outbox row its execution.        *)
TypeOK ==
    /\ workflows \in [Workflows -> WorkflowStatus]
    /\ admitted \in Seq([workflow: Workflows, key: IdempotencyKeys,
                         trigger: TriggerType])
    /\ outbox \subseteq DOMAIN admitted
    /\ clients \in [Clients -> {Idle} \cup
           [pc: ClientPoints, call: Calls, execution: Nat]]
    /\ answers \in Seq([call: Calls, code: Codes, execution: Nat,
                        replayed: BOOLEAN])
    /\ schedules \in [Schedules -> [next_run_at: Nat, last_run_at: Nat]]
    /\ now \in 1..MaxTime
    /\ faults \in 0..MaxFaults
    /\ \A s \in Schedulers :
          /\ cycles[s].pc \in CyclePoints
          /\ cycles[s].batch \in Seq([id: Schedules, due_at: Nat])
          /\ Len(cycles[s].batch) <= BatchSize
          /\ cycles[s].pc = "prepare" <=> cycles[s].batch # <<>>
          /\ cycles[s].publishing \subseteq DOMAIN admitted
          /\ cycles[s].pc = "publish" <=> cycles[s].publishing # {}

(* Requests that carry one idempotency key for one workflow are answered   *)
(* with one execution, however they raced, and only one of the answers     *)
(* says that it is new; other requests get other executions.               *)
AnswersAgree ==
    \A i, j \in DOMAIN answers :
        LET a == answers[i]
            b == answers[j]
            same == a.call.workflow = b.call.workflow
                        /\ KeyOf(a.call) = KeyOf(b.call)
        IN  a.execution # 0 /\ b.execution # 0 =>
                /\ same <=> a.execution = b.execution
                /\ same /\ i # j => a.replayed \/ b.replayed

(* A request that passes the checks of its handler is not answered 500:    *)
(* only a signature that compare_digest refuses to compare is.             *)
NoServerError ==
    \A i \in DOMAIN answers :
        answers[i].code = 500 => "non_ascii" \in answers[i].call.flaws

(* Whatever a webhook without the right signature is told, it is told      *)
(* again later: the answer does not depend on the workflow, which may have *)
(* been created in between, nor on the body being JSON.                    *)
SignatureFirst ==
    \A i, j \in DOMAIN answers :
        LET a == answers[i]
            b == answers[j]
        IN  (/\ a.call.endpoint = "webhook" /\ b.call.endpoint = "webhook"
             /\ "signature" \in a.call.flaws \cap b.call.flaws
             /\ a.call.flaws \ {"json"} = b.call.flaws \ {"json"}
             /\ a.call.id = b.call.id) => a.code = b.code

(* With authentication on, a request by hand is served for a role in its   *)
(* token alone: what it says of itself in headers changes nothing.         *)
RolesFromToken ==
    \A i \in DOMAIN answers :
        LET caller == answers[i].call.caller
            claimed == caller.realm_roles \cup caller.direct_roles
        IN  (/\ AuthEnabled
             /\ answers[i].call.endpoint = "create_execution"
             /\ answers[i].code \notin {401, 403}) =>
                /\ caller.token = "valid"
                /\ \E s \in UNION claimed : s.role \in {"admin", "operator"}

(* The executions of a schedule that was due at a time.                    *)
RunsOf(d, t) ==
    {i \in DOMAIN admitted : /\ admitted[i].trigger = "schedule"
                             /\ admitted[i].key = ScheduleKey(d, t)}

(* The executions of a schedule are those of consecutive intervals up to   *)
(* next_run_at, one for each: no interval is skipped or run twice, though  *)
(* schedulers race for it, crash, or are behind by many intervals; and     *)
(* last_run_at is the interval before next_run_at, or NULL.                *)
EveryIntervalOnce ==
    \A d \in Schedules :
        LET next == schedules[d].next_run_at
            last == schedules[d].last_run_at
            runs == {admitted[i].key[2][2] : i \in
                        {j \in DOMAIN admitted :
                            /\ admitted[j].trigger = "schedule"
                            /\ admitted[j].key[2][1] = d}}
        IN  /\ \A t \in runs : /\ t < next
                               /\ t + Interval[d] \in runs \cup {next}
                               /\ \A i, j \in RunsOf(d, t) : i = j
            /\ last = IF runs = {} THEN 0 ELSE next - Interval[d]

(* The triggers implement idempotent admission.                            *)
Idempotency == INSTANCE IdempotentAdmission WITH
    accepted  <- [i \in DOMAIN admitted |->
                     <<admitted[i].workflow, admitted[i].key>>],
    replies   <- [i \in DOMAIN answers |->
                     [key |-> <<answers[i].call.workflow,
                                KeyOf(answers[i].call)>>,
                      execution |-> answers[i].execution,
                      replayed |-> answers[i].replayed]],
    published <- DOMAIN admitted \ outbox

ImplementsIdempotency == Idempotency!Spec

(* A schedule that is behind catches up: prepare_due_schedules, one        *)
(* interval per cycle, brings next_run_at past the clock, again and again. *)
(* The clock stops at MaxTime, so this says that a backlog of any number   *)
(* of intervals is worked off, up to the one that is due exactly now.      *)
SchedulesCatchUp ==
    \A d \in Schedules :
        []<>(schedules[d].next_run_at = 0 \/ schedules[d].next_run_at > now)

(* The outbox is drained again and again: whatever has been accepted, by   *)
(* request_execution or by prepare_due_schedules, publish_dispatch_outbox  *)
(* publishes.                                                              *)
AcceptedIsPublished == []<>(outbox = {})
=============================================================================
