----------------------------- MODULE StepRunner -----------------------------
(***************************************************************************)
(* What an execution computes and when: the definitions that               *)
(* WorkflowCreate lets in, the three kinds of step of DefaultStepRunner,   *)
(* the output that the worker merges and commits step by step, resuming at *)
(* current_step with the output committed so far, and the delays of its    *)
(* retries.  Leases, the queue and racing processes are in Worker.         *)
(*                                                                         *)
(* A JSON value is a record of its type and its text, an object a function *)
(* from keys to values.  Numbers that are equal have one text.             *)
(***************************************************************************)
EXTENDS Backoff, Sequences

CONSTANTS
    Definitions,  \* step definitions that clients send: [named, kind, object,
                  \* config], named when name is a string of 1 to 120
                  \* characters, object when config is an object
    Inputs,       \* input payloads
    MaxSteps,     \* steps of a workflow
    MaxAttempts,  \* max_attempts
    BaseSeconds,  \* retry_base_seconds
    Digests,      \* first two bytes of digests
    MaxRetries    \* manual retries

ASSUME StepAssumption ==
    /\ MaxSteps \in 1..50
    /\ MaxAttempts \in 1..10
    /\ BaseSeconds \in Nat \ {0} /\ BaseSeconds <= 3600
    /\ \A digest \in Digests : digest \in Nat /\ digest <= 65535

VARIABLES
    steps,          \* the persisted definitions
    input,          \* input_payload
    current_step,   \* the number of committed steps
    output,         \* output_payload
    status,         \* the status of the execution
    error,          \* why it was dead-lettered
    attempt_count,
    accumulated,    \* accumulated_output of the worker
    delay,          \* of the retry that is scheduled, 0 when none is
    latest,         \* the delay scheduled before it in this series, or 0
    retries         \* manual retries so far

vars == <<steps, input, current_step, output, status, error, attempt_count,
          accumulated, delay, latest, retries>>

Null == [type |-> "null", text |-> ""]
Text(text) == [type |-> "string", text |-> text]
Number(text) == [type |-> "number", text |-> text]
Bool(b) == [type |-> "boolean", text |-> IF b THEN "true" ELSE "false"]
Object(text) == [type |-> "object", text |-> text]

EmptyObject == [key \in {} |-> Null]

(* object.get(key, default)                                                *)
Get(object, key, default) ==
    IF key \in DOMAIN object THEN object[key] ELSE default

-----------------------------------------------------------------------------
(* StepDefinition and WorkflowCreate                                       *)

Forbidden == {"password", "secret", "token", "api_key", "private_key"}

(* Mutant: kind is any string.                                             *)
AcceptsAnyKind(definition) ==
    /\ definition.named
    /\ definition.object
    /\ DOMAIN definition.config \cap Forbidden = {}

Accepts(definition) ==
    /\ definition.named
    /\ definition.kind \in {"assign", "condition", "emit_event"}
    /\ definition.object
    /\ DOMAIN definition.config \cap Forbidden = {}

(* The isinstance tests of _run_steps on a persisted definition.           *)
IsValid(definition) == definition.named /\ definition.object

-----------------------------------------------------------------------------
(* DefaultStepRunner.  A step returns an object, or fails for a reason.    *)

Returns(object) == [error |-> "none", object |-> object]
Fails(reason) == [error |-> reason, object |-> EmptyObject]

IsName(value) == value.type = "string" /\ value.text # ""

Assign(config) ==
    LET target == Get(config, "target", Null)
    IN  IF IsName(target)
        THEN Returns([key \in {target.text} |-> Get(config, "value", Null)])
        ELSE Fails("config")

(* What == compares: Python's True and False are the numbers 1 and 0.      *)
Compared(value) ==
    CASE value = Bool(TRUE)  -> Number("1")
      [] value = Bool(FALSE) -> Number("0")
      [] OTHER               -> value

Condition(config, seen) ==
    LET field == Get(config, "field", Null)
        actual == Get(seen, field.text, Get(input, field.text, Null))
        matched == Compared(actual) = Compared(Get(config, "equals", Null))
    IN  IF IsName(field)
        THEN Returns([field |-> field, matched |-> Bool(matched)])
        ELSE Fails("config")

EmitEvent(config) ==
    LET event_name == Get(config, "event_name", Null)
        payload == Get(config, "payload", Object("{}"))
    IN  IF IsName(event_name) /\ payload.type = "object"
        THEN Returns([event_name |-> event_name, payload |-> payload])
        ELSE Fails("config")

Run(kind, config, seen) ==
    CASE kind = "assign"     -> Assign(config)
      [] kind = "condition"  -> Condition(config, seen)
      [] kind = "emit_event" -> EmitEvent(config)
      [] OTHER               -> Fails("unsupported_kind")

(* {**accumulated_output, **output}                                        *)
Merged(old, object) ==
    [key \in DOMAIN old \cup DOMAIN object |->
        IF key \in DOMAIN object THEN object[key] ELSE old[key]]

-----------------------------------------------------------------------------
Init ==
    /\ steps = <<>>
    /\ input \in Inputs
    /\ current_step = 0
    /\ output = EmptyObject
    /\ status = "none"
    /\ error = "none"
    /\ attempt_count = 0
    /\ accumulated = EmptyObject
    /\ delay = 0
    /\ latest = 0
    /\ retries = 0

(* create_workflow and an execution of it: definitions that are accepted.  *)
Create(definitions) ==
    /\ status = "none"
    /\ \A i \in DOMAIN definitions : Accepts(definitions[i])
    /\ steps' = definitions
    /\ status' = "queued"
    /\ UNCHANGED <<input, current_step, output, error, attempt_count,
                   accumulated, delay, latest, retries>>

(* Mutant: the output committed so far is not loaded.                      *)
ResumeEmpty ==
    /\ status \in {"queued", "retry_scheduled"}
    /\ status' = "running"
    /\ attempt_count' = attempt_count + 1
    /\ accumulated' = EmptyObject
    /\ delay' = 0
    /\ latest' = IF delay > 0 THEN delay ELSE latest
    /\ UNCHANGED <<steps, input, current_step, output, error, retries>>

(* The claim, when a retry is due, and _load: the loop begins with the     *)
(* output committed so far.                                                *)
Resume ==
    /\ status \in {"queued", "retry_scheduled"}
    /\ status' = "running"
    /\ attempt_count' = attempt_count + 1
    /\ accumulated' = output
    /\ delay' = 0
    /\ latest' = IF delay > 0 THEN delay ELSE latest
    /\ UNCHANGED <<steps, input, current_step, output, error, retries>>

DeadLetter(reason) ==
    /\ status' = "dead_letter"
    /\ error' = reason
    /\ UNCHANGED <<steps, input, current_step, output, attempt_count,
                   accumulated, delay, latest, retries>>

(* The next step and the transaction with its result.                      *)
RunStep ==
    LET definition == steps[current_step + 1]
        result == Run(definition.kind, definition.config, accumulated)
        merged == Merged(accumulated, result.object)
    IN  /\ status = "running"
        /\ current_step < Len(steps)
        /\ IF ~IsValid(definition) THEN DeadLetter("invalid_definition")
           ELSE IF result.error # "none" THEN DeadLetter(result.error)
           ELSE /\ current_step' = current_step + 1
                /\ output' = merged
                /\ accumulated' = merged
                /\ UNCHANGED <<steps, input, status, error, attempt_count,
                               delay, latest, retries>>

(* A runner raises a transient failure or anything unexpected.             *)
RunStepRaises(digest) ==
    /\ status = "running"
    /\ current_step < Len(steps)
    /\ IF attempt_count < MaxAttempts
       THEN /\ status' = "retry_scheduled"
            /\ delay' = RetryDelay(attempt_count, BaseSeconds, digest)
            /\ UNCHANGED <<steps, input, current_step, output, error,
                           attempt_count, accumulated, latest, retries>>
       ELSE DeadLetter("transient")

Succeed ==
    /\ status = "running"
    /\ current_step = Len(steps)
    /\ status' = "succeeded"
    /\ UNCHANGED <<steps, input, current_step, output, error, attempt_count,
                   accumulated, delay, latest, retries>>

(* The worker dies and its lease is reaped: the execution is requeued      *)
(* without a delay, or dead-lettered.                                      *)
Reaped ==
    /\ status = "running"
    /\ IF attempt_count < MaxAttempts
       THEN /\ status' = "queued"
            /\ UNCHANGED <<steps, input, current_step, output, error,
                           attempt_count, accumulated, delay, latest, retries>>
       ELSE DeadLetter("lease")

(* retry_dead_letter_execution, which begins a new series of attempts.     *)
ManualRetry ==
    /\ status = "dead_letter"
    /\ retries < MaxRetries
    /\ retries' = retries + 1
    /\ status' = "queued"
    /\ error' = "none"
    /\ attempt_count' = 0
    /\ latest' = 0
    /\ UNCHANGED <<steps, input, current_step, output, accumulated, delay>>

Next ==
    \/ \E n \in 1..MaxSteps : \E definitions \in [1..n -> Definitions] :
          Create(definitions)
    \/ Resume
    \/ RunStep
    \/ \E digest \in Digests : RunStepRaises(digest)
    \/ Succeed
    \/ Reaped
    \/ ManualRetry

Spec == Init /\ [][Next]_vars

-----------------------------------------------------------------------------
(* What a step writes, from its definition alone.                          *)
Writes(definition) ==
    LET config == definition.config
    IN  CASE definition.kind = "assign"     -> {config["target"].text}
          [] definition.kind = "condition"  -> {"field", "matched"}
          [] definition.kind = "emit_event" -> {"event_name", "payload"}

Written(definitions, n) == UNION {Writes(definitions[i]) : i \in 1..n}

LastWriter(definitions, n, key) ==
    CHOOSE i \in 1..n :
        /\ key \in Writes(definitions[i])
        /\ \A j \in 1..n : key \in Writes(definitions[j]) => j <= i

(* The value that a step gives to a key, behind an output.                 *)
ValueBy(definition, key, before, payload) ==
    LET config == definition.config
        field == config["field"].text
        actual == Get(before, field, Get(payload, field, Null))
        equals == Get(config, "equals", Null)
    IN  IF definition.kind = "assign" THEN Get(config, "value", Null)
        ELSE IF key = "matched" THEN Bool(Compared(actual) = Compared(equals))
        ELSE Get(config, key, Object("{}"))

(* The outputs after 0, 1, ... steps, without state: every key has the     *)
(* value that its last writer gave it.                                     *)
StraightRun(definitions, payload) ==
    LET run[n \in 0..Len(definitions)] ==
            [key \in Written(definitions, n) |->
                LET i == LastWriter(definitions, n, key)
                IN  ValueBy(definitions[i], key, run[i - 1], payload)]
    IN  run

(* The output of an execution is that of its committed steps run straight  *)
(* through, however often the execution was interrupted: every key has the *)
(* value of the last step that writes it, and a condition has seen what    *)
(* the steps before it, or else the input, left in its field.              *)
OutputIsStraightRun ==
    /\ output = StraightRun(steps, input)[current_step]
    /\ status = "succeeded" => current_step = Len(steps)

(* A workflow that was accepted never fails for a kind nobody implements   *)
(* or a malformed definition; when the config of a step is wrong it fails  *)
(* at that step for good, whatever was committed: no retry gets past it.   *)
OnlyConfigFails ==
    /\ error \notin {"invalid_definition", "unsupported_kind"}
    /\ error = "config" =>
          LET definition == steps[current_step + 1]
          IN  \A seen \in {EmptyObject, output} :
                 Run(definition.kind, definition.config, seen).error = "config"

(* The jitter never undoes the doubling: every retry of a series waits     *)
(* longer than all before it, also where the floor of a second holds and   *)
(* where attempts in between were reaped.                                  *)
DelaysGrow == delay > 0 => latest < delay
=============================================================================
