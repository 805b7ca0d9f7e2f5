-------------------------- MODULE StepRunnerProofs --------------------------
(***************************************************************************)
(* What an accepted workflow may fail for, that the delays of retries grow *)
(* and that no interruption shows in the output, for every workflow, every *)
(* max_attempts and retry_base_seconds that the settings allow, and every  *)
(* digest.                                                                 *)
(***************************************************************************)
EXTENDS StepRunner, SequenceTheorems, WellFoundedInduction, TLAPS

-----------------------------------------------------------------------------
(* Backoff                                                                 *)

(* The jitter is a fifth of the delay at most.                             *)
LEMMA JitterBound ==
    ASSUME NEW digest \in Nat, digest <= 65535
    PROVE  /\ Jitter(digest) \in Int
           /\ -200 <= Jitter(digest) /\ Jitter(digest) <= 200
<1>1. PICK q : q = (400 * digest) \div 65535
  OBVIOUS
<1>2. q \in Int /\ 0 <= q /\ q <= 400
  BY <1>1
<1> QED
  BY <1>1, <1>2 DEF Jitter

(* The powers of two up to the tenth attempt.                              *)
LEMMA Powers ==
    /\ 2 ^ 0 = 1 /\ 2 ^ 1 = 2 /\ 2 ^ 2 = 4 /\ 2 ^ 3 = 8 /\ 2 ^ 4 = 16
    /\ 2 ^ 5 = 32 /\ 2 ^ 6 = 64 /\ 2 ^ 7 = 128 /\ 2 ^ 8 = 256 /\ 2 ^ 9 = 512
  OBVIOUS

(* The delay before jitter at least doubles from attempt to attempt.       *)
LEMMA Doubling ==
    ASSUME NEW base \in Nat \ {0}, NEW a \in 1 .. 10, NEW b \in 1 .. 10, a < b
    PROVE  /\ Exponential(a, base) \in Nat \ {0}
           /\ Exponential(b, base) \in Nat
           /\ Exponential(b, base) >= 2 * Exponential(a, base)
<1> DEFINE Power(n) == 2 ^ (n - 1)
<1>1. ASSUME NEW n \in 1 .. 10
      PROVE  /\ Exponential(n, base) = base * Power(n)
  <2>1. CASE n = 1
    BY <2>1 DEF Exponential
  <2>2. CASE n > 1
    BY <2>2 DEF Exponential
  <2> QED
    BY <2>1, <2>2
<1>2. /\ Power(1) = 1 /\ Power(2) = 2 /\ Power(3) = 4 /\ Power(4) = 8
      /\ Power(5) = 16 /\ Power(6) = 32 /\ Power(7) = 64 /\ Power(8) = 128
      /\ Power(9) = 256 /\ Power(10) = 512
  <2>1. /\ 1 - 1 = 0 /\ 2 - 1 = 1 /\ 3 - 1 = 2 /\ 4 - 1 = 3 /\ 5 - 1 = 4
        /\ 6 - 1 = 5 /\ 7 - 1 = 6 /\ 8 - 1 = 7 /\ 9 - 1 = 8 /\ 10 - 1 = 9
    OBVIOUS
  <2> QED
    BY <2>1, Powers
<1> HIDE DEF Power
<1>3. /\ Power(a) \in Nat \ {0} /\ Power(b) \in Nat
      /\ Power(b) >= 2 * Power(a)
  BY <1>2
<1>4. PICK x \in Nat \ {0} : x = Power(a)
  BY <1>3
<1>5. PICK y \in Nat : y = Power(b)
  BY <1>3
<1>6. y >= 2 * x
  BY <1>3, <1>4, <1>5
<1>7. base * y >= base * (2 * x) /\ base * (2 * x) = 2 * (base * x)
  BY <1>6
<1>8. base * x \in Nat \ {0} /\ base * y \in Nat
  OBVIOUS
<1> QED
  BY <1>1, <1>4, <1>5, <1>7, <1>8

(* The settings, one by one.                                               *)
LEMMA Settings ==
    /\ MaxSteps \in Nat
    /\ MaxAttempts \in 1 .. 10
    /\ BaseSeconds \in Nat \ {0}
    /\ \A digest \in Digests : digest \in Nat /\ digest <= 65535
  BY StepAssumption

(* retry_delay_seconds of a later attempt is longer, whatever the digests. *)
LEMMA LaterWaitsLonger ==
    ASSUME NEW base \in Nat \ {0}, NEW a \in 1 .. 10, NEW b \in 1 .. 10, a < b,
           NEW d \in Digests, NEW e \in Digests
    PROVE  RetryDelay(a, base, d) < RetryDelay(b, base, e)
<1>1. PICK j \in Int : j = Jitter(d) /\ -200 <= j /\ j <= 200
  BY Settings, JitterBound
<1>2. PICK k \in Int : k = Jitter(e) /\ -200 <= k /\ k <= 200
  BY Settings, JitterBound
<1>3. /\ Exponential(a, base) \in Nat \ {0} /\ Exponential(b, base) \in Nat
      /\ Exponential(b, base) >= 2 * Exponential(a, base)
  BY Doubling
<1>4. PICK p \in Nat \ {0}, q \in Nat :
         p = Exponential(a, base) /\ q = Exponential(b, base)
  BY <1>3
<1>5. q >= 2 * p
  BY <1>3, <1>4
<1>6. p * (1000 + j) <= p * 1200
  BY <1>1
<1>7. q * 800 <= q * (1000 + k)
  BY <1>2
<1>8. p * (1000 + j) \in Int /\ q * (1000 + k) \in Int
  OBVIOUS
<1>9. p * (1000 + j) < q * (1000 + k) /\ 1000 < q * (1000 + k)
  <2>1. p >= 1 /\ q * 800 >= p * 1600
    BY <1>5
  <2> QED
    BY <1>6, <1>7, <1>8, <2>1
<1>10. /\ RetryDelay(a, base, d) =
             IF p * (1000 + j) < 1000 THEN 1000 ELSE p * (1000 + j)
       /\ RetryDelay(b, base, e) =
             IF q * (1000 + k) < 1000 THEN 1000 ELSE q * (1000 + k)
  BY <1>1, <1>2, <1>4 DEF RetryDelay
<1> QED
  BY <1>8, <1>9, <1>10

-----------------------------------------------------------------------------
(* Delays                                                                  *)

(* A delay that the worker has computed for an attempt.                    *)
DelayOf(n, seconds) ==
    \E digest \in Digests : seconds = RetryDelay(n, BaseSeconds, digest)

(* The delay that is scheduled is that of the attempt that has failed, the *)
(* one before it that of an earlier attempt of the series.                 *)
DelaysKnown ==
    /\ attempt_count \in 0 .. MaxAttempts
    /\ status = "running" => attempt_count # 0
    /\ status \in {"none", "queued", "retry_scheduled"} =>
           attempt_count < MaxAttempts
    /\ delay # 0 => /\ status = "retry_scheduled"
                    /\ attempt_count # 0
                    /\ DelayOf(attempt_count, delay)
    /\ latest # 0 => \E n \in 1 .. 10 : n < attempt_count /\ DelayOf(n, latest)

(* Every step keeps that.                                                  *)
LEMMA NextDelaysKnown ==
    ASSUME DelaysKnown, [Next]_vars
    PROVE  DelaysKnown'
<1>1. ASSUME NEW definitions, Create(definitions)
      PROVE  DelaysKnown'
  BY <1>1, Settings DEF Create, DelaysKnown
<1>2. CASE Resume
  <2>1. /\ attempt_count' = attempt_count + 1 /\ status' = "running"
        /\ delay' = 0 /\ latest' = IF delay > 0 THEN delay ELSE latest
        /\ attempt_count < MaxAttempts
    BY <1>2 DEF Resume, DelaysKnown
  <2>2. /\ attempt_count \in 0 .. MaxAttempts
        /\ attempt_count' \in 0 .. MaxAttempts /\ attempt_count' # 0
    BY <2>1, Settings DEF DelaysKnown
  <2>3. ASSUME latest' # 0
        PROVE  \E n \in 1 .. 10 : n < attempt_count' /\ DelayOf(n, latest')
    <3>1. CASE latest' = delay
      BY <2>1, <2>2, <2>3, <3>1, Settings DEF DelaysKnown
    <3>2. CASE latest' = latest
      BY <2>1, <2>2, <2>3, <3>2, Settings DEF DelaysKnown
    <3> QED
      BY <2>1, <3>1, <3>2
  <2> QED
    BY <2>1, <2>2, <2>3 DEF DelaysKnown, DelayOf
<1>3. ASSUME NEW reason, status = "running", DeadLetter(reason)
      PROVE  DelaysKnown'
  BY <1>3 DEF DeadLetter, DelaysKnown
<1>4. CASE RunStep
  <2>1. CASE \E reason : DeadLetter(reason)
    BY <1>3, <1>4, <2>1 DEF RunStep
  <2>2. CASE UNCHANGED <<status, attempt_count, delay, latest>>
    BY <2>2 DEF DelaysKnown, DelayOf
  <2> QED
    BY <1>4, <2>1, <2>2 DEF RunStep
<1>5. ASSUME NEW digest \in Digests, RunStepRaises(digest)
      PROVE  DelaysKnown'
  <2>1. CASE attempt_count < MaxAttempts
    <3>1. /\ status' = "retry_scheduled" /\ UNCHANGED <<attempt_count, latest>>
          /\ DelayOf(attempt_count, delay') /\ attempt_count # 0
      BY <1>5, <2>1 DEF RunStepRaises, DelaysKnown, DelayOf
    <3> QED
      BY <2>1, <3>1 DEF DelaysKnown, DelayOf
  <2>2. CASE ~(attempt_count < MaxAttempts)
    BY <1>3, <1>5, <2>2 DEF RunStepRaises
  <2> QED
    BY <2>1, <2>2
<1>6. CASE Succeed
  BY <1>6 DEF Succeed, DelaysKnown
<1>7. CASE Reaped
  <2>1. CASE attempt_count < MaxAttempts
    BY <1>7, <2>1 DEF Reaped, DelaysKnown, DelayOf
  <2>2. CASE ~(attempt_count < MaxAttempts)
    BY <1>3, <1>7, <2>2 DEF Reaped
  <2> QED
    BY <2>1, <2>2
<1>8. CASE ManualRetry
  BY <1>8, Settings DEF ManualRetry, DelaysKnown
<1>9. CASE UNCHANGED vars
  BY <1>9 DEF vars, DelaysKnown, DelayOf
<1> QED
  BY <1>1, <1>2, <1>4, <1>5, <1>6, <1>7, <1>8, <1>9 DEF Next

(* In a series of attempts every retry waits longer than all before it:    *)
(* neither the jitter nor the floor of a second undoes the doubling, for   *)
(* every base, every digest and every max_attempts of the settings.        *)
THEOREM RetriesWaitLonger == Spec => []DelaysGrow
<1>1. Init => DelaysKnown
  BY Settings DEF Init, DelaysKnown
<1>2. DelaysKnown /\ [Next]_vars => DelaysKnown'
  BY NextDelaysKnown
<1>3. DelaysKnown => DelaysGrow
  <2> SUFFICES ASSUME DelaysKnown, delay > 0 PROVE latest < delay
    BY DEF DelaysGrow
  <2>1. attempt_count \in 1 .. 10 /\ DelayOf(attempt_count, delay)
    BY Settings DEF DelaysKnown
  <2>2. PICK d \in Digests :
           delay = RetryDelay(attempt_count, BaseSeconds, d)
    BY <2>1 DEF DelayOf
  <2>3. CASE latest = 0
    BY <2>3
  <2>4. CASE latest # 0
    <3>1. PICK n \in 1 .. 10 : n < attempt_count /\ DelayOf(n, latest)
      BY <2>4 DEF DelaysKnown
    <3>2. PICK e \in Digests : latest = RetryDelay(n, BaseSeconds, e)
      BY <3>1 DEF DelayOf
    <3>3. BaseSeconds \in Nat \ {0}
      BY Settings
    <3>4. RetryDelay(n, BaseSeconds, e) < RetryDelay(attempt_count, BaseSeconds, d)
      BY <2>1, <3>1, <3>3, LaterWaitsLonger
    <3> QED
      BY <2>2, <3>2, <3>4
  <2> QED
    BY <2>3, <2>4
<1> QED
  BY <1>1, <1>2, <1>3, PTL DEF Spec

-----------------------------------------------------------------------------
(* Failures                                                                *)

(* What a runner refuses, whatever the output and the input are.           *)
ConfigWrong(definition) ==
    LET config == definition.config
        payload == Get(config, "payload", Object("{}"))
    IN  CASE definition.kind = "assign" ->
                 ~IsName(Get(config, "target", Null))
          [] definition.kind = "condition" ->
                 ~IsName(Get(config, "field", Null))
          [] definition.kind = "emit_event" ->
                 ~(/\ IsName(Get(config, "event_name", Null))
                   /\ payload.type = "object")

(* A step of one of the three kinds fails for its config or not at all.    *)
LEMMA RunError ==
    ASSUME NEW definition, Accepts(definition), NEW seen
    PROVE  Run(definition.kind, definition.config, seen).error =
              IF ConfigWrong(definition) THEN "config" ELSE "none"
<1> DEFINE kind == definition.kind
           config == definition.config
<1>1. kind \in {"assign", "condition", "emit_event"}
  BY DEF Accepts
<1>2. \A object : Returns(object).error = "none"
  BY DEF Returns
<1>3. \A reason : Fails(reason).error = reason
  BY DEF Fails
<1>4. CASE kind = "assign"
  <2>1. Run(kind, config, seen) = Assign(config)
    BY <1>4 DEF Run
  <2>2. ConfigWrong(definition) <=> ~IsName(Get(config, "target", Null))
    BY <1>4 DEF ConfigWrong
  <2> QED
    BY <1>2, <1>3, <2>1, <2>2 DEF Assign
<1>5. CASE kind = "condition"
  <2>1. Run(kind, config, seen) = Condition(config, seen)
    BY <1>5 DEF Run
  <2>2. ConfigWrong(definition) <=> ~IsName(Get(config, "field", Null))
    BY <1>5 DEF ConfigWrong
  <2> QED
    BY <1>2, <1>3, <2>1, <2>2 DEF Condition
<1>6. CASE kind = "emit_event"
  <2>1. Run(kind, config, seen) = EmitEvent(config)
    BY <1>6 DEF Run
  <2>2. ConfigWrong(definition) <=>
           ~(/\ IsName(Get(config, "event_name", Null))
             /\ Get(config, "payload", Object("{}")).type = "object")
    BY <1>6 DEF ConfigWrong
  <2> QED
    BY <1>2, <1>3, <2>1, <2>2 DEF EmitEvent
<1> QED
  BY <1>1, <1>4, <1>5, <1>6

(* The definitions have been accepted; an execution that has failed for    *)
(* the config of a step stands at that step.                               *)
FailsAtConfig ==
    /\ Len(steps) \in Nat /\ current_step \in 0 .. Len(steps)
    /\ \A i \in 1 .. Len(steps) : Accepts(steps[i])
    /\ error \in {"none", "config", "transient", "lease"}
    /\ error = "config" => /\ status = "dead_letter"
                           /\ current_step < Len(steps)
                           /\ ConfigWrong(steps[current_step + 1])
    /\ status = "none" => current_step = 0

(* Every step keeps that.                                                  *)
LEMMA NextFailsAtConfig ==
    ASSUME FailsAtConfig, [Next]_vars
    PROVE  FailsAtConfig'
<1>1. ASSUME NEW n \in 1 .. MaxSteps, NEW definitions \in [1 .. n -> Definitions],
             Create(definitions)
      PROVE  FailsAtConfig'
  <2>1. n \in Nat /\ definitions \in Seq(Definitions)
    BY Settings, SeqDef
  <2>2. Len(definitions) = n /\ DOMAIN definitions = 1 .. n
    BY <2>1, LenProperties
  <2>3. /\ steps' = definitions /\ current_step' = 0
        /\ \A i \in 1 .. n : Accepts(definitions[i])
        /\ error' = error /\ error # "config"
    BY <1>1, <2>2 DEF Create, FailsAtConfig
  <2> QED
    BY <2>1, <2>2, <2>3 DEF FailsAtConfig
<1>2. CASE RunStep
  <2> DEFINE definition == steps[current_step + 1]
             result == Run(definition.kind, definition.config, accumulated)
  <2>1. /\ status = "running" /\ current_step < Len(steps)
        /\ Accepts(definition)
    BY <1>2 DEF RunStep, FailsAtConfig
  <2>2. IsValid(definition)
    BY <2>1 DEF Accepts, IsValid
  <2>3. result.error = IF ConfigWrong(definition) THEN "config" ELSE "none"
    BY <2>1, RunError
  <2>4. IF result.error # "none" THEN DeadLetter(result.error)
        ELSE /\ current_step' = current_step + 1
             /\ UNCHANGED <<steps, status, error>>
    BY <1>2, <2>2 DEF RunStep
  <2> HIDE DEF definition, result
  <2>5. CASE ConfigWrong(definition)
    BY <2>1, <2>3, <2>4, <2>5 DEF DeadLetter, FailsAtConfig, definition
  <2>6. CASE ~ConfigWrong(definition)
    BY <2>1, <2>3, <2>4, <2>6 DEF FailsAtConfig
  <2> QED
    BY <2>5, <2>6
<1>3. CASE Resume \/ Succeed \/ ManualRetry
  BY <1>3 DEF Resume, Succeed, ManualRetry, FailsAtConfig
<1>4. ASSUME NEW digest \in Digests, RunStepRaises(digest)
      PROVE  FailsAtConfig'
  BY <1>4 DEF RunStepRaises, DeadLetter, FailsAtConfig
<1>5. CASE Reaped
  BY <1>5 DEF Reaped, DeadLetter, FailsAtConfig
<1>6. CASE UNCHANGED vars
  BY <1>6 DEF vars, FailsAtConfig
<1> QED
  BY <1>1, <1>2, <1>3, <1>4, <1>5, <1>6 DEF Next

(* What WorkflowCreate lets in never fails for its kind or as malformed; a *)
(* config that is wrong is wrong for every output, so a manual retry ends  *)
(* at the same step again.                                                 *)
THEOREM OnlyConfigsFail == Spec => []OnlyConfigFails
<1>1. Init => FailsAtConfig
  BY DEF Init, FailsAtConfig
<1>2. FailsAtConfig /\ [Next]_vars => FailsAtConfig'
  BY NextFailsAtConfig
<1>3. FailsAtConfig => OnlyConfigFails
  <2> SUFFICES ASSUME FailsAtConfig PROVE OnlyConfigFails
    OBVIOUS
  <2> DEFINE definition == steps[current_step + 1]
  <2>1. ASSUME error = "config", NEW seen
        PROVE  Run(definition.kind, definition.config, seen).error = "config"
    <3>1. Accepts(definition) /\ ConfigWrong(definition)
      BY <2>1 DEF FailsAtConfig
    <3> QED
      BY <3>1, RunError
  <2>2. error \notin {"invalid_definition", "unsupported_kind"}
    BY DEF FailsAtConfig
  <2> QED
    BY <2>1, <2>2 DEF OnlyConfigFails
<1> QED
  BY <1>1, <1>2, <1>3, PTL DEF Spec
-----------------------------------------------------------------------------
(* The straight run is well defined                                        *)

Below == {pair \in Nat \X Nat : pair[1] < pair[2]}

(* A set of numbers has a least element: what stands for induction here.   *)
LEMMA LeastNumber ==
    ASSUME NEW S, S \subseteq Nat, S # {}
    PROVE  \E i \in S : \A j \in S : i <= j
<1>1. OpToRel(<, Nat) = Below
  BY Zenon DEF OpToRel, Below
<1>2. IsWellFoundedOn(Below, Nat)
  BY <1>1, NatLessThanWellFounded, Zenon
<1>3. PICK i \in S : \A j \in S : <<j, i>> \notin Below
  BY <1>2, WFMin
<1>4. ASSUME NEW j \in S PROVE i <= j
  <2>1. i \in Nat /\ j \in Nat
    OBVIOUS
  <2>2. <<j, i>> \in Below <=> j < i
    BY <2>1 DEF Below
  <2> QED
    BY <1>3, <2>1, <2>2
<1> QED
  BY <1>4

(* A key that has been written has a last writer.                          *)
LEMMA LastWriterIs ==
    ASSUME NEW definitions, NEW n \in Nat, NEW key \in Written(definitions, n)
    PROVE  LET i == LastWriter(definitions, n, key)
           IN  /\ i \in 1 .. n
               /\ key \in Writes(definitions[i])
               /\ \A j \in 1 .. n : key \in Writes(definitions[j]) => j <= i
<1> DEFINE Writer(i) == i \in 1 .. n /\ key \in Writes(definitions[i])
           S == {m \in 0 .. n : Writer(n - m)}
<1>1. PICK i : Writer(i)
  BY DEF Written
<1>2. n - i \in S
  <2>1. n - (n - i) = i /\ n - i \in 0 .. n
    BY <1>1
  <2> QED
    BY <1>1, <2>1
<1>3. PICK m \in S : \A k \in S : m <= k
  <2>1. S \subseteq Nat /\ S # {}
    BY <1>2
  <2> HIDE DEF S
  <2> QED
    BY <2>1, LeastNumber
<1>4. m \in 0 .. n /\ Writer(n - m)
  <2> HIDE DEF Writer
  <2> QED
    BY <1>3
<1>5. ASSUME NEW j, Writer(j) PROVE j <= n - m
  <2>1. n - (n - j) = j /\ n - j \in 0 .. n
    BY <1>5
  <2>2. n - j \in S
    BY <1>5, <2>1
  <2>3. j \in Nat
    BY <1>5
  <2> HIDE DEF S, Writer
  <2>4. m <= n - j
    BY <1>3, <2>2
  <2> QED
    BY <1>4, <2>3, <2>4
<1>6. \E l \in 1 .. n :
         /\ key \in Writes(definitions[l])
         /\ \A j \in 1 .. n : key \in Writes(definitions[j]) => j <= l
  BY <1>4, <1>5
<1> QED
  BY <1>6 DEF LastWriter

(* The keys written by n steps, when the outputs before them are in run.   *)
RunStepBy(definitions, payload, run, n) ==
    [key \in Written(definitions, n) |->
        ValueBy(definitions[LastWriter(definitions, n, key)], key,
                run[LastWriter(definitions, n, key) - 1], payload)]

(* It depends on the outputs before them only.                             *)
LEMMA RunStepByEarlier ==
    ASSUME NEW definitions, NEW payload, NEW n \in Nat, NEW r, NEW s,
           \A i \in 0 .. n - 1 : r[i] = s[i]
    PROVE  RunStepBy(definitions, payload, r, n)
              = RunStepBy(definitions, payload, s, n)
<1>1. ASSUME NEW key \in Written(definitions, n)
      PROVE  r[LastWriter(definitions, n, key) - 1]
                = s[LastWriter(definitions, n, key) - 1]
  <2>1. PICK i : i = LastWriter(definitions, n, key)
    OBVIOUS
  <2>2. i \in 1 .. n
    BY <2>1, LastWriterIs
  <2>3. i - 1 \in 0 .. n - 1
    BY <2>2
  <2> QED
    BY <2>1, <2>3
<1> QED
  BY <1>1 DEF RunStepBy

(* So there is a function that fits up to any number of steps.             *)
LEMMA RunExists ==
    ASSUME NEW definitions, NEW payload, NEW n \in Nat
    PROVE  \E run : run = [i \in 0 .. n |->
                              RunStepBy(definitions, payload, run, i)]
<1> DEFINE By(run, i) == RunStepBy(definitions, payload, run, i)
           Fits(run, m) == run = [i \in 0 .. m |-> By(run, i)]
           S == {m \in Nat : ~ \E run : Fits(run, m)}
<1>1. ASSUME NEW m \in Nat, NEW r, \A i \in 0 .. m - 1 : r[i] = By(r, i)
      PROVE  \E run : Fits(run, m)
  <2> DEFINE run == [i \in 0 .. m |-> IF i < m THEN r[i] ELSE By(r, m)]
  <2>1. \A i \in 0 .. m - 1 : run[i] = r[i]
    OBVIOUS
  <2>2. run[m] = By(r, m)
    OBVIOUS
  <2> HIDE DEF By
  <2>3. ASSUME NEW i \in 0 .. m PROVE run[i] = By(r, i)
    BY <1>1, <2>1, <2>2
  <2>4. ASSUME NEW i \in 0 .. m PROVE By(run, i) = By(r, i)
    <3>1. i \in Nat /\ \A j \in 0 .. i - 1 : j \in 0 .. m - 1
      OBVIOUS
    <3>2. \A j \in 0 .. i - 1 : run[j] = r[j]
      BY <2>1, <3>1
    <3> HIDE DEF run
    <3> QED
      BY <3>1, <3>2, RunStepByEarlier DEF By
  <2>5. run = [i \in 0 .. m |-> run[i]]
    OBVIOUS
  <2> HIDE DEF run
  <2>6. run = [i \in 0 .. m |-> By(run, i)]
    BY <2>3, <2>4, <2>5
  <2> QED
    BY <2>6
<1> HIDE DEF By
<1>2. CASE S = {}
  BY <1>2 DEF By
<1>3. CASE S # {}
  <2>1. PICK m \in S : \A k \in S : m <= k
    BY <1>3, LeastNumber
  <2>2. m \in Nat /\ ~ \E run : Fits(run, m)
    OBVIOUS
  <2>3. CASE m = 0
    <3>1. \A i \in 0 .. m - 1 : <<>>[i] = By(<<>>, i)
      BY <2>3
    <3> QED
      BY <2>2, <3>1, <1>1
  <2>4. CASE m # 0
    <3>1. m - 1 \in Nat /\ ~(m <= m - 1)
      BY <2>2, <2>4
    <3>2. m - 1 \notin S
      BY <2>1, <3>1
    <3>3. PICK r : Fits(r, m - 1)
      BY <3>1, <3>2
    <3>4. \A i \in 0 .. m - 1 : r[i] = By(r, i)
      BY <3>3
    <3> QED
      BY <2>2, <3>4, <1>1
  <2> QED
    BY <2>3, <2>4
<1> QED
  BY <1>2, <1>3

(* The outputs of a straight run are what its definition says.             *)
LEMMA StraightRunIs ==
    ASSUME NEW definitions, NEW payload, Len(definitions) \in Nat,
           NEW n \in 0 .. Len(definitions)
    PROVE  StraightRun(definitions, payload)[n] =
              RunStepBy(definitions, payload,
                        StraightRun(definitions, payload), n)
<1>1. \E run : run = [i \in 0 .. Len(definitions) |->
                         RunStepBy(definitions, payload, run, i)]
  BY RunExists
<1>2. StraightRun(definitions, payload) =
         CHOOSE run : run = [i \in 0 .. Len(definitions) |->
                                RunStepBy(definitions, payload, run, i)]
  BY DEF StraightRun, RunStepBy
<1>3. StraightRun(definitions, payload) =
         [i \in 0 .. Len(definitions) |->
             RunStepBy(definitions, payload,
                       StraightRun(definitions, payload), i)]
  BY <1>1, <1>2
<1> QED
  BY <1>3
-----------------------------------------------------------------------------
(* Interruptions                                                           *)

(* A step that returns gives its keys their values, and writes no others.  *)
LEMMA RunWrites ==
    ASSUME NEW definition, Accepts(definition), ~ConfigWrong(definition),
           NEW seen
    PROVE  Run(definition.kind, definition.config, seen).object =
              [key \in Writes(definition) |->
                  ValueBy(definition, key, seen, input)]
<1> DEFINE kind == definition.kind
           config == definition.config
           values == [key \in Writes(definition) |->
                         ValueBy(definition, key, seen, input)]
<1>1. kind \in {"assign", "condition", "emit_event"}
  BY DEF Accepts
<1>2. \A object : Returns(object).object = object
  BY DEF Returns
<1>3. CASE kind = "assign"
  <2> DEFINE target == Get(config, "target", Null)
  <2>1. IsName(target)
    BY <1>3 DEF ConfigWrong
  <2>2. target = config["target"]
    BY <2>1 DEF Get, IsName, Null
  <2>3. Run(kind, config, seen).object
           = [key \in {target.text} |-> Get(config, "value", Null)]
    BY <1>2, <1>3, <2>1 DEF Run, Assign
  <2>4. Writes(definition) = {target.text}
    BY <1>3, <2>2 DEF Writes
  <2>5. \A key : ValueBy(definition, key, seen, input)
                    = Get(config, "value", Null)
    BY <1>3 DEF ValueBy
  <2>6. values = [key \in {target.text} |-> Get(config, "value", Null)]
    BY <2>4, <2>5
  <2> QED
    BY <2>3, <2>6
<1>4. CASE kind = "condition"
  <2> DEFINE field == Get(config, "field", Null)
             actual == Get(seen, field.text, Get(input, field.text, Null))
             matched == Compared(actual)
                           = Compared(Get(config, "equals", Null))
  <2>1. IsName(field)
    BY <1>4 DEF ConfigWrong
  <2>2. field = config["field"] /\ "field" \in DOMAIN config
    BY <2>1 DEF Get, IsName, Null
  <2>3. Run(kind, config, seen) = Condition(config, seen)
    BY <1>4 DEF Run
  <2>4. Run(kind, config, seen).object
           = [field |-> field, matched |-> Bool(matched)]
    BY <1>2, <2>1, <2>3 DEF Condition
  <2>5. Writes(definition) = {"field", "matched"}
    BY <1>4 DEF Writes
  <2>6. ValueBy(definition, "field", seen, input) = field
    BY <1>4, <2>2 DEF ValueBy, Get
  <2>7. ValueBy(definition, "matched", seen, input) = Bool(matched)
    BY <1>4, <2>2 DEF ValueBy
  <2> HIDE DEF field, matched
  <2>8. [field |-> field, matched |-> Bool(matched)]
           = [key \in {"field", "matched"} |->
                 IF key = "field" THEN field ELSE Bool(matched)]
    OBVIOUS
  <2>9. values = [key \in {"field", "matched"} |->
                     IF key = "field" THEN field ELSE Bool(matched)]
    BY <2>5, <2>6, <2>7
  <2> QED
    BY <2>4, <2>8, <2>9
<1>5. CASE kind = "emit_event"
  <2> DEFINE event_name == Get(config, "event_name", Null)
             payload == Get(config, "payload", Object("{}"))
  <2>1. IsName(event_name) /\ payload.type = "object"
    BY <1>5 DEF ConfigWrong
  <2>2. event_name = Get(config, "event_name", Object("{}"))
    BY <2>1 DEF Get, IsName, Null
  <2>3. Run(kind, config, seen) = EmitEvent(config)
    BY <1>5 DEF Run
  <2>4. Run(kind, config, seen).object
           = [event_name |-> event_name, payload |-> payload]
    BY <1>2, <2>1, <2>3 DEF EmitEvent
  <2>5. Writes(definition) = {"event_name", "payload"}
    BY <1>5 DEF Writes
  <2>6. /\ ValueBy(definition, "event_name", seen, input) = event_name
        /\ ValueBy(definition, "payload", seen, input) = payload
    BY <1>5, <2>2 DEF ValueBy
  <2> HIDE DEF event_name, payload
  <2>7. [event_name |-> event_name, payload |-> payload]
           = [key \in {"event_name", "payload"} |->
                 IF key = "event_name" THEN event_name ELSE payload]
    OBVIOUS
  <2>8. values = [key \in {"event_name", "payload"} |->
                     IF key = "event_name" THEN event_name ELSE payload]
    BY <2>5, <2>6
  <2> QED
    BY <2>4, <2>7, <2>8
<1> QED
  BY <1>1, <1>3, <1>4, <1>5

(* One more step merges what it writes into the straight run so far.       *)
LEMMA StraightRunGrows ==
    ASSUME NEW definitions, NEW payload, Len(definitions) \in Nat,
           NEW n \in Nat, n < Len(definitions)
    PROVE  LET run == StraightRun(definitions, payload)
               definition == definitions[n + 1]
           IN  run[n + 1] = Merged(run[n],
                                   [key \in Writes(definition) |->
                                       ValueBy(definition, key, run[n], payload)])
<1> DEFINE run == StraightRun(definitions, payload)
           definition == definitions[n + 1]
           written == Written(definitions, n)
           last(m, key) == LastWriter(definitions, m, key)
           object == [key \in Writes(definition) |->
                         ValueBy(definition, key, run[n], payload)]
           value(key) == IF key \in Writes(definition) THEN object[key]
                         ELSE run[n][key]
<1>1. /\ run[n] = RunStepBy(definitions, payload, run, n)
      /\ run[n + 1] = RunStepBy(definitions, payload, run, n + 1)
  <2>1. n \in 0 .. Len(definitions) /\ n + 1 \in 0 .. Len(definitions)
    OBVIOUS
  <2> QED
    BY <2>1, StraightRunIs
<1>2. DOMAIN run[n] = written
  BY <1>1 DEF RunStepBy
<1>3. DOMAIN run[n + 1] = Writes(definition) \cup written
  <2>1. 1 .. n + 1 = 1 .. n \cup {n + 1}
    OBVIOUS
  <2>2. Written(definitions, n + 1) = Writes(definition) \cup written
    BY <2>1 DEF Written
  <2> QED
    BY <1>1, <2>2 DEF RunStepBy
<1>4. ASSUME NEW key \in Writes(definition) \cup written
      PROVE  run[n + 1][key] = value(key)
  <2>1. key \in Written(definitions, n + 1)
    BY <1>1, <1>3 DEF RunStepBy
  <2>2. PICK i : i = last(n + 1, key)
    OBVIOUS
  <2>3. /\ i \in 1 .. n + 1 /\ key \in Writes(definitions[i])
        /\ \A j \in 1 .. n + 1 : key \in Writes(definitions[j]) => j <= i
    BY <2>1, <2>2, LastWriterIs
  <2>4. run[n + 1][key] = ValueBy(definitions[i], key, run[i - 1], payload)
    BY <1>1, <2>1, <2>2 DEF RunStepBy
  <2>5. CASE key \in Writes(definition)
    <3>1. i = n + 1 /\ i - 1 = n
      BY <2>3, <2>5
    <3> QED
      BY <2>4, <2>5, <3>1
  <2>6. CASE key \notin Writes(definition)
    <3>1. key \in written
      BY <2>6
    <3>2. PICK k : k = last(n, key)
      OBVIOUS
    <3>3. /\ k \in 1 .. n /\ key \in Writes(definitions[k])
          /\ \A j \in 1 .. n : key \in Writes(definitions[j]) => j <= k
      BY <3>1, <3>2, LastWriterIs
    <3>4. i # n + 1
      BY <2>3, <2>6
    <3>5. i \in 1 .. n /\ k \in 1 .. n + 1
      BY <2>3, <3>3, <3>4
    <3>6. i <= k /\ k <= i
      BY <2>3, <3>3, <3>5
    <3>7. i = k
      BY <3>5, <3>6
    <3>8. run[n][key] = ValueBy(definitions[k], key, run[k - 1], payload)
      BY <1>1, <3>1, <3>2 DEF RunStepBy
    <3> QED
      BY <2>4, <2>6, <3>7, <3>8
  <2> QED
    BY <2>5, <2>6
<1>5. Merged(run[n], object) = [key \in Writes(definition) \cup written |->
                                   value(key)]
  <2>1. DOMAIN object = Writes(definition)
    OBVIOUS
  <2> HIDE DEF object, run
  <2> QED
    BY <1>2, <2>1 DEF Merged
<1>6. run[n + 1] = [key \in Writes(definition) \cup written |-> value(key)]
  <2>1. run[n + 1] = [key \in DOMAIN run[n + 1] |-> run[n + 1][key]]
    BY <1>1 DEF RunStepBy
  <2> HIDE DEF run, value
  <2> QED
    BY <1>3, <1>4, <2>1
<1> QED
  BY <1>5, <1>6

(* The output committed so far is that of a straight run, and so is what a *)
(* worker goes on with.                                                    *)
RunsStraight ==
    /\ FailsAtConfig
    /\ output = StraightRun(steps, input)[current_step]
    /\ status = "running" => accumulated = output
    /\ status = "succeeded" => current_step = Len(steps)

(* Before the first step there is no output.                               *)
LEMMA StraightRunBegins ==
    ASSUME NEW definitions, NEW payload, Len(definitions) \in Nat
    PROVE  StraightRun(definitions, payload)[0] = EmptyObject
<1>1. Written(definitions, 0) = {}
  BY DEF Written
<1>2. 0 \in 0 .. Len(definitions)
  OBVIOUS
<1>3. StraightRun(definitions, payload)[0] =
         RunStepBy(definitions, payload, StraightRun(definitions, payload), 0)
  BY <1>2, StraightRunIs
<1>4. \A run : RunStepBy(definitions, payload, run, 0) = EmptyObject
  BY <1>1 DEF RunStepBy, EmptyObject
<1> QED
  BY <1>3, <1>4

(* Every step keeps it straight.                                           *)
LEMMA NextRunsStraight ==
    ASSUME RunsStraight, [Next]_vars
    PROVE  RunsStraight'
<1>1. FailsAtConfig'
  BY NextFailsAtConfig DEF RunsStraight
<1>2. ASSUME NEW n \in 1 .. MaxSteps, NEW definitions \in [1 .. n -> Definitions],
             Create(definitions)
      PROVE  RunsStraight'
  <2>1. Len(steps) \in Nat /\ current_step = 0
    BY <1>2 DEF Create, RunsStraight, FailsAtConfig
  <2>2. output = EmptyObject
    BY <2>1, StraightRunBegins DEF RunsStraight
  <2>3. /\ output' = EmptyObject /\ current_step' = 0 /\ status' = "queued"
    BY <1>2, <2>1, <2>2 DEF Create
  <2>4. Len(steps)' \in Nat
    BY <1>1 DEF FailsAtConfig
  <2>5. StraightRun(steps, input)'[0] = EmptyObject
    BY <2>4, StraightRunBegins
  <2> QED
    BY <1>1, <2>3, <2>5 DEF RunsStraight
<1>3. CASE RunStep
  <2> DEFINE definition == steps[current_step + 1]
             result == Run(definition.kind, definition.config, accumulated)
             run == StraightRun(steps, input)
  <2>1. /\ status = "running" /\ current_step < Len(steps)
        /\ current_step \in Nat /\ Len(steps) \in Nat
        /\ Accepts(definition)
    BY <1>3 DEF RunStep, RunsStraight, FailsAtConfig
  <2>2. IsValid(definition)
    BY <2>1 DEF Accepts, IsValid
  <2>3. result.error = IF ConfigWrong(definition) THEN "config" ELSE "none"
    BY <2>1, RunError
  <2>4. IF result.error # "none" THEN DeadLetter(result.error)
        ELSE /\ current_step' = current_step + 1
             /\ output' = Merged(accumulated, result.object)
             /\ accumulated' = output'
             /\ UNCHANGED <<steps, input, status>>
    BY <1>3, <2>2 DEF RunStep
  <2>5. CASE ConfigWrong(definition)
    <3>1. DeadLetter(result.error)
      BY <2>3, <2>4, <2>5
    <3> QED
      BY <1>1, <3>1 DEF DeadLetter, RunsStraight
  <2>6. CASE ~ConfigWrong(definition)
    <3>1. /\ current_step' = current_step + 1
          /\ output' = Merged(accumulated, result.object)
          /\ accumulated' = output'
          /\ UNCHANGED <<steps, input, status>>
      BY <2>3, <2>4, <2>6
    <3>2. accumulated = run[current_step]
      BY <2>1 DEF RunsStraight
    <3>3. result.object = [key \in Writes(definition) |->
                              ValueBy(definition, key, accumulated, input)]
      BY <2>1, <2>6, RunWrites
    <3>4. run[current_step + 1] = Merged(accumulated, result.object)
      BY <2>1, <3>2, <3>3, StraightRunGrows
    <3>5. output' = StraightRun(steps, input)'[current_step']
      BY <3>1, <3>4
    <3> QED
      BY <1>1, <2>1, <3>1, <3>5 DEF RunsStraight
  <2> QED
    BY <2>5, <2>6
<1>4. CASE Resume \/ Succeed \/ ManualRetry
  BY <1>1, <1>4 DEF Resume, Succeed, ManualRetry, RunsStraight
<1>5. ASSUME NEW digest \in Digests, RunStepRaises(digest)
      PROVE  RunsStraight'
  BY <1>1, <1>5 DEF RunStepRaises, DeadLetter, RunsStraight
<1>6. CASE Reaped
  BY <1>1, <1>6 DEF Reaped, DeadLetter, RunsStraight
<1>7. CASE UNCHANGED vars
  BY <1>1, <1>7 DEF vars, RunsStraight
<1> QED
  BY <1>2, <1>3, <1>4, <1>5, <1>6, <1>7 DEF Next

(* However often an execution is interrupted by failures, crashes, reaps   *)
(* and manual retries, its output is that of its committed steps run       *)
(* straight through.                                                       *)
THEOREM InterruptionsDoNotShow == Spec => []OutputIsStraightRun
<1>1. Init => RunsStraight
  <2> SUFFICES ASSUME Init PROVE RunsStraight
    OBVIOUS
  <2>1. FailsAtConfig
    BY DEF Init, FailsAtConfig
  <2>2. Len(steps) = 0 /\ current_step = 0 /\ output = EmptyObject
    BY DEF Init
  <2>3. StraightRun(steps, input)[0] = EmptyObject
    BY <2>2, StraightRunBegins
  <2> QED
    BY <2>1, <2>2, <2>3 DEF Init, RunsStraight
<1>2. RunsStraight /\ [Next]_vars => RunsStraight'
  BY NextRunsStraight
<1>3. RunsStraight => OutputIsStraightRun
  BY DEF RunsStraight, OutputIsStraightRun
<1> QED
  BY <1>1, <1>2, <1>3, PTL DEF Spec
=============================================================================
