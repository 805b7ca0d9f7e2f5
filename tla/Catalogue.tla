----------------------------- MODULE Catalogue ------------------------------
(***************************************************************************)
(* The tables that the triggers of an execution write: workflows,          *)
(* executions with their unique constraint on workflow and idempotency     *)
(* key, and the unpublished rows of dispatch_outbox.  What happens to an   *)
(* execution behind the outbox is the subject of Platform.                 *)
(*                                                                         *)
(* An idempotency key is a string; here it is a pair of the prefixes that  *)
(* it begins with, of those the code puts in front of the keys it derives, *)
(* and the rest, which begins with none of them.                           *)
(***************************************************************************)
EXTENDS Gateway

LOCAL INSTANCE FiniteSetsExt

CONSTANTS
    Workflows,    \* identifiers of workflows
    NameVersion,  \* the name and version each is created with
    NameLength    \* the length of every name behind the prefixes

VARIABLES
    workflows,  \* the status of every workflow, or absent
    admitted,   \* the executions, in the order of their insertion
    outbox      \* the executions with an unpublished outbox row

catalogueVars == <<workflows, admitted, outbox>>

TriggerType == {"manual", "webhook", "schedule"}

PrefixLength == [prefix \in {"webhook:", "schedule:"} |->
                    IF prefix = "webhook:" THEN 8 ELSE 9]

(* The length of a header or of an idempotency key.                        *)
Length(key) ==
    NameLength[key[2]]
        + MapThenSumSet(LAMBDA i : PrefixLength[key[1][i]], DOMAIN key[1])

KeyWidth == 160  \* String(160)

CatalogueInit ==
    /\ workflows = [w \in Workflows |-> "absent"]
    /\ admitted = <<>>
    /\ outbox = {}

(* create_workflow by an admin: an insert under uq_workflow_name_version,  *)
(* answered 201 or, when the name and version exist, 409.                  *)
CreateWorkflow(w, status) ==
    /\ workflows[w] = "absent"
    /\ \A v \in Workflows :
          NameVersion[v] = NameVersion[w] => workflows[v] = "absent"
    /\ workflows' = [workflows EXCEPT ![w] = status]
    /\ UNCHANGED <<admitted, outbox>>

(* The executions with a workflow and an idempotency key.                  *)
Matching(w, key) ==
    {i \in DOMAIN admitted : admitted[i].workflow = w /\ admitted[i].key = key}

(* Mutant: the constraint is on idempotency_key alone.                     *)
DuplicateAnyWorkflow(w, key) ==
    \E i \in DOMAIN admitted : admitted[i].key = key

(* uq_execution_idempotency refuses the row.                               *)
Duplicate(w, key) == Matching(w, key) # {}

(* Mutant: no outbox row.                                                  *)
AddExecutionOnly(w, key, trigger) ==
    /\ admitted' = Append(admitted,
                          [workflow |-> w, key |-> key, trigger |-> trigger])
    /\ UNCHANGED <<workflows, outbox>>

(* An execution and its outbox row, in one transaction.                    *)
AddExecution(w, key, trigger) ==
    /\ admitted' = Append(admitted,
                          [workflow |-> w, key |-> key, trigger |-> trigger])
    /\ outbox' = outbox \cup {Len(admitted) + 1}
    /\ UNCHANGED workflows
=============================================================================
