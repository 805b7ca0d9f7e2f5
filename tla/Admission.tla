----------------------------- MODULE Admission ------------------------------
(***************************************************************************)
(* create_execution, trigger_webhook and request_execution: the lookup,    *)
(* the insert and the lookup after a conflict are transactions of their    *)
(* own.                                                                    *)
(***************************************************************************)
EXTENDS Catalogue

CONSTANTS
    Clients,    \* concurrent requests the API serves
    Calls,      \* [endpoint, workflow, id, caller, flaws]: id is the
                \* X-Idempotency-Key or the X-Webhook-Event-ID, flaws what
                \* else is wrong with the call
    MaxAnswers  \* no request arrives after so many answers

ASSUME RoutesAssumption ==
    \A call \in Calls : /\ call.endpoint \in {"create_execution", "webhook"}
                        /\ call.workflow \in Workflows

VARIABLES
    clients,  \* the request each client has open, and how far it is
    answers   \* what has been answered, in order

admissionVars == <<clients, answers>>

ClientPoints == {"lookup", "insert", "replay", "reply"}

Idle == [pc |-> "idle"]

(* The idempotency key of a call.                                          *)
KeyOf(call) == IF call.endpoint = "webhook"
               THEN << <<"webhook:">> \o call.id[1], call.id[2] >>
               ELSE call.id

TriggerOf(call) == IF call.endpoint = "webhook" THEN "webhook" ELSE "manual"

(* min_length and max_length of the header.                                *)
HeaderFlaws(call) == {f \in {"header"} : Length(call.id) \notin 8..160}

AdmissionInit ==
    /\ clients = [c \in Clients |-> Idle]
    /\ answers = <<>>

(* An answer: its call, the HTTP code, the execution in it (0 if none) and *)
(* the header Idempotent-Replay.  The client is served.                    *)
Answer(c, call, code, execution, replayed) ==
    /\ answers' = Append(answers, [call |-> call, code |-> code,
                                   execution |-> execution,
                                   replayed |-> replayed])
    /\ clients' = [clients EXCEPT ![c] = Idle]

GoTo(c, pc, call, execution) ==
    clients' = [clients EXCEPT ![c] = [pc |-> pc, call |-> call,
                                       execution |-> execution]]

At(c, pc) == clients[c].pc = pc

CallOf(c) == clients[c].call

-----------------------------------------------------------------------------
(* The code that a call is refused with, or 0.                             *)
Refusal(call) ==
    LET unauthorized == Authorize(call.caller, call.endpoint)
    IN  IF unauthorized # 0 THEN unauthorized
        ELSE FirstFailure(call.endpoint, call.flaws \cup HeaderFlaws(call),
                          workflows[call.workflow])

(* The checks in front of request_execution, up to the status of the       *)
(* workflow, which never changes again.                                    *)
Arrive(c, call) ==
    LET code == Refusal(call)
    IN  /\ At(c, "idle")
        /\ Len(answers) < MaxAnswers
        /\ IF code = 0
           THEN GoTo(c, "lookup", call, 0) /\ UNCHANGED answers
           ELSE Answer(c, call, code, 0, FALSE)
        /\ UNCHANGED catalogueVars

(* The executions that the lookups of request_execution return.            *)
Found(c) == Matching(CallOf(c).workflow, KeyOf(CallOf(c)))

(* Mutant: a replay is answered like a new execution.                      *)
ReturnFoundAsNew(c) == \E i \in Found(c) : Answer(c, CallOf(c), 202, i, FALSE)

(* return existing, True                                                   *)
ReturnFound(c) == \E i \in Found(c) : Answer(c, CallOf(c), 202, i, TRUE)

(* The first lookup: an execution that exists is returned.                 *)
Lookup(c) ==
    /\ At(c, "lookup")
    /\ IF Found(c) = {}
       THEN GoTo(c, "insert", CallOf(c), 0) /\ UNCHANGED answers
       ELSE ReturnFound(c)
    /\ UNCHANGED catalogueVars

TooLong(c) == Length(KeyOf(CallOf(c))) > KeyWidth

(* The insert commits.                                                     *)
Insert(c) ==
    /\ At(c, "insert")
    /\ ~TooLong(c)
    /\ ~Duplicate(CallOf(c).workflow, KeyOf(CallOf(c)))
    /\ AddExecution(CallOf(c).workflow, KeyOf(CallOf(c)), TriggerOf(CallOf(c)))
    /\ GoTo(c, "reply", CallOf(c), Len(admitted) + 1)
    /\ UNCHANGED answers

(* IntegrityError: another request has inserted the key since the lookup.  *)
InsertConflict(c) ==
    /\ At(c, "insert")
    /\ ~TooLong(c)
    /\ Duplicate(CallOf(c).workflow, KeyOf(CallOf(c)))
    /\ GoTo(c, "replay", CallOf(c), 0)
    /\ UNCHANGED <<answers, catalogueVars>>

(* DataError, which nobody handles: the key does not fit its column.       *)
InsertTooLong(c) ==
    /\ At(c, "insert")
    /\ TooLong(c)
    /\ Answer(c, CallOf(c), 500, 0, FALSE)
    /\ UNCHANGED catalogueVars

(* The lookup after the rollback; without a row the error is raised again. *)
Replay(c) ==
    /\ At(c, "replay")
    /\ IF Found(c) = {}
       THEN Answer(c, CallOf(c), 500, 0, FALSE)
       ELSE ReturnFound(c)
    /\ UNCHANGED catalogueVars

Reply(c) ==
    /\ At(c, "reply")
    /\ Answer(c, CallOf(c), 202, clients[c].execution, FALSE)
    /\ UNCHANGED catalogueVars

(* The request ends without an answer: the process or the connection is    *)
(* gone, and the transaction rolled back.                                  *)
Vanish(c) ==
    /\ clients[c] # Idle
    /\ clients' = [clients EXCEPT ![c] = Idle]
    /\ UNCHANGED <<answers, catalogueVars>>

ServeStep(c) ==
    \/ Lookup(c)
    \/ Insert(c)
    \/ InsertConflict(c)
    \/ InsertTooLong(c)
    \/ Replay(c)
    \/ Reply(c)
=============================================================================
