--------------------------- MODULE TriggerProofs ----------------------------
(***************************************************************************)
(* Types of the triggers, and the schedules: every interval has its        *)
(* execution once, for every number of schedulers and schedules, whatever  *)
(* requests, crashes and batches do meanwhile.                             *)
(***************************************************************************)
EXTENDS Triggers, FiniteSetTheorems, SequenceTheorems, TLAPS

Admitted == [workflow: Workflows, key: IdempotencyKeys, trigger: TriggerType]

OpenRequest == [pc: ClientPoints, call: Calls, execution: Nat]

GivenAnswer == [call: Calls, code: Codes, execution: Nat, replayed: BOOLEAN]

Batch == Seq([id: Schedules, due_at: Nat])

Cycle == [pc: CyclePoints, batch: Batch, publishing: SUBSET Nat]

CatalogueOK ==
    /\ workflows \in [Workflows -> WorkflowStatus]
    /\ admitted \in Seq(Admitted)
    /\ outbox \subseteq DOMAIN admitted

AdmissionOK ==
    /\ clients \in [Clients -> {Idle} \cup OpenRequest]
    /\ answers \in Seq(GivenAnswer)

SchedulesOK ==
    /\ schedules \in [Schedules -> [next_run_at: Nat, last_run_at: Nat]]
    /\ now \in 1 .. MaxTime
    /\ faults \in 0 .. MaxFaults

CyclesOK ==
    /\ cycles \in [Schedulers -> Cycle]
    /\ \A s \in Schedulers :
          /\ Len(cycles[s].batch) <= BatchSize
          /\ cycles[s].pc = "prepare" <=> cycles[s].batch # <<>>
          /\ cycles[s].pc = "publish" <=> cycles[s].publishing # {}

(* A scheduler has rows of executions in hand.                             *)
PublishingOK ==
    \A s \in Schedulers : cycles[s].publishing \subseteq DOMAIN admitted

TypeInv ==
    CatalogueOK /\ AdmissionOK /\ SchedulesOK /\ CyclesOK /\ PublishingOK

-----------------------------------------------------------------------------
(* Requests                                                                *)

(* A client that is not idle has a call open.                              *)
LEMMA ClientFacts ==
    ASSUME AdmissionOK, NEW c \in Clients, clients[c].pc # "idle"
    PROVE  /\ clients[c] \in OpenRequest
           /\ CallOf(c) \in Calls
           /\ CallOf(c).workflow \in Workflows
           /\ CallOf(c).endpoint \in {"create_execution", "webhook"}
           /\ KeyOf(CallOf(c)) \in IdempotencyKeys
<1>1. clients[c] \in OpenRequest
  BY DEF AdmissionOK, Idle
<1>2. CallOf(c) \in Calls
  BY <1>1 DEF CallOf, OpenRequest
<1>3. KeyOf(CallOf(c)) \in IdempotencyKeys
  BY <1>2 DEF IdempotencyKeys
<1> QED
  BY <1>1, <1>2, <1>3, RoutesAssumption

(* An answer is added, and the client is free again.                       *)
LEMMA AnswerType ==
    ASSUME AdmissionOK, NEW c \in Clients, NEW call \in Calls,
           NEW code \in Codes, NEW execution \in Nat, NEW replayed \in BOOLEAN,
           Answer(c, call, code, execution, replayed)
    PROVE  AdmissionOK'
<1>1. [call |-> call, code |-> code, execution |-> execution,
       replayed |-> replayed] \in GivenAnswer
  BY Zenon DEF GivenAnswer
<1>2. answers' \in Seq(GivenAnswer)
  BY <1>1 DEF Answer, AdmissionOK
<1>3. clients' \in [Clients -> {Idle} \cup OpenRequest]
  BY DEF Answer, AdmissionOK
<1> QED
  BY <1>2, <1>3 DEF AdmissionOK

(* A client goes on to its next transaction.                               *)
LEMMA GoToType ==
    ASSUME AdmissionOK, NEW c \in Clients, NEW pc \in ClientPoints,
           NEW call \in Calls, NEW execution \in Nat,
           GoTo(c, pc, call, execution), UNCHANGED answers
    PROVE  AdmissionOK'
<1>1. [pc |-> pc, call |-> call, execution |-> execution] \in OpenRequest
  BY Zenon DEF OpenRequest
<1> QED
  BY <1>1 DEF GoTo, AdmissionOK

(* The least of up to eight places.                                        *)
LEMMA LeastPlace ==
    ASSUME NEW n \in 0 .. 8, NEW S, S \subseteq 1 .. n, S # {}
    PROVE  \E i \in S : \A j \in S : i <= j
<1>1. CASE 1 \in S
  BY <1>1
<1>2. CASE 1 \notin S /\ 2 \in S
  BY <1>2
<1>3. CASE 1 \notin S /\ 2 \notin S /\ 3 \in S
  BY <1>3
<1>4. CASE 1 \notin S /\ 2 \notin S /\ 3 \notin S /\ 4 \in S
  BY <1>4
<1>5. CASE S \subseteq 5 .. 8 /\ 5 \in S
  BY <1>5
<1>6. CASE S \subseteq 6 .. 8 /\ 6 \in S
  BY <1>6
<1>7. CASE S \subseteq 7 .. 8 /\ 7 \in S
  BY <1>7
<1>8. CASE S \subseteq 8 .. 8
  <2>1. PICK i : i \in S
    OBVIOUS
  <2>2. \A j \in S : j = 8
    BY <1>8
  <2>3. i <= i /\ i = 8
    BY <2>1, <2>2
  <2> QED
    BY <2>1, <2>2, <2>3
<1> QED
  BY <1>1, <1>2, <1>3, <1>4, <1>5, <1>6, <1>7, <1>8

(* A call gets past its checks or is refused by the first that fails.      *)
LEMMA FirstFailureIs ==
    ASSUME NEW endpoint \in {"create_schedule", "create_execution", "webhook"},
           NEW flaws, NEW status
    PROVE  LET checks == Checks[endpoint]
               fails(i) == checks[i][1] \in flaws \cup StatusFlaws(status)
               code == FirstFailure(endpoint, flaws, status)
           IN  \/ code = 0 /\ \A i \in DOMAIN checks : ~fails(i)
               \/ \E i \in DOMAIN checks :
                     /\ fails(i) /\ code = checks[i][2]
                     /\ \A j \in DOMAIN checks : fails(j) => i <= j
<1> DEFINE checks == Checks[endpoint]
           failing == {i \in DOMAIN checks :
                          checks[i][1] \in flaws \cup StatusFlaws(status)}
           first == CHOOSE i \in failing : \A j \in failing : i <= j
<1>1. PICK n \in 0 .. 8 : DOMAIN checks = 1 .. n
  BY DEF Checks, WebhookChecks
<1>2. FirstFailure(endpoint, flaws, status) =
         IF failing = {} THEN 0 ELSE checks[first][2]
  BY DEF FirstFailure
<1>3. failing # {} => first \in failing /\ \A j \in failing : first <= j
  <2>1. failing \subseteq 1 .. n
    BY <1>1
  <2> HIDE DEF failing
  <2> QED
    BY <2>1, LeastPlace
<1> HIDE DEF first
<1> QED
  BY <1>2, <1>3

(* The codes a call may be refused with; 500 only for its signature.       *)
LEMMA RefusalType ==
    ASSUME NEW call \in Calls, Refusal(call) # 0
    PROVE  /\ Refusal(call) \in Codes \ {202}
           /\ Refusal(call) = 500 => "non_ascii" \in call.flaws
<1> DEFINE flaws == call.flaws \cup HeaderFlaws(call)
           status == workflows[call.workflow]
           unauthorized == Authorize(call.caller, call.endpoint)
           failure == FirstFailure(call.endpoint, flaws, status)
<1>1. call.endpoint \in {"create_execution", "webhook"}
  BY RoutesAssumption
<1>2. failure = 0 \/ \E i \in DOMAIN Checks[call.endpoint] :
                        /\ failure = Checks[call.endpoint][i][2]
                        /\ Checks[call.endpoint][i][1]
                              \in flaws \cup StatusFlaws(status)
  <2> HIDE DEF flaws, status
  <2> QED
    BY <1>1, FirstFailureIs
<1>3. \A i \in DOMAIN Checks[call.endpoint] :
         LET check == Checks[call.endpoint][i]
         IN  /\ check[2] \in {401, 404, 409, 413, 422, 500, 503}
             /\ check[2] = 500 => check[1] = "non_ascii"
  BY <1>1 DEF Checks, WebhookChecks
<1>4. "non_ascii" \in flaws \cup StatusFlaws(status)
         => "non_ascii" \in call.flaws
  BY DEF HeaderFlaws, StatusFlaws
<1>5. unauthorized \in {0, 401, 403}
  BY DEF Authorize
<1>6. Refusal(call) = IF unauthorized # 0 THEN unauthorized ELSE failure
  BY DEF Refusal
<1>7. failure = 0 \/ (/\ failure \in {401, 404, 409, 413, 422, 500, 503}
                      /\ failure = 500 => "non_ascii" \in call.flaws)
  <2> HIDE DEF failure, flaws, status
  <2> QED
    BY <1>2, <1>3, <1>4
<1> HIDE DEF unauthorized, failure
<1> QED
  BY <1>5, <1>6, <1>7 DEF Codes

(* A request is refused, or goes to the first lookup.                      *)
LEMMA ArriveType ==
    ASSUME AdmissionOK, NEW c \in Clients, NEW call \in Calls, Arrive(c, call)
    PROVE  AdmissionOK' /\ UNCHANGED catalogueVars
<1> DEFINE code == Refusal(call)
<1>1. /\ IF code = 0 THEN GoTo(c, "lookup", call, 0) /\ UNCHANGED answers
                     ELSE Answer(c, call, code, 0, FALSE)
      /\ UNCHANGED catalogueVars
  BY DEF Arrive
<1>2. code = 0 \/ code \in Codes
  BY RefusalType
<1> HIDE DEF code
<1>3. CASE code = 0
  BY <1>1, <1>3, GoToType DEF ClientPoints
<1>4. CASE code # 0
  BY <1>1, <1>2, <1>4, AnswerType
<1> QED
  BY <1>1, <1>3, <1>4

(* A lookup that finds an execution answers with it.                       *)
LEMMA ReturnFoundType ==
    ASSUME CatalogueOK, AdmissionOK, NEW c \in Clients,
           clients[c].pc # "idle", ReturnFound(c)
    PROVE  AdmissionOK'
<1>1. PICK i \in Found(c) : Answer(c, CallOf(c), 202, i, TRUE)
  BY DEF ReturnFound
<1>2. i \in Nat
  BY DEF Found, Matching, CatalogueOK
<1>3. 202 \in Codes
  BY DEF Codes
<1> QED
  BY <1>1, <1>2, <1>3, ClientFacts, AnswerType

(* An execution is added, with its outbox row.                             *)
LEMMA AddExecutionType ==
    ASSUME CatalogueOK, NEW w \in Workflows, NEW key \in IdempotencyKeys,
           NEW trigger \in TriggerType, AddExecution(w, key, trigger)
    PROVE  /\ CatalogueOK'
           /\ Len(admitted') = Len(admitted) + 1
           /\ admitted'[Len(admitted) + 1] =
                 [workflow |-> w, key |-> key, trigger |-> trigger]
           /\ \A i \in DOMAIN admitted : admitted'[i] = admitted[i]
           /\ DOMAIN admitted' = DOMAIN admitted \cup {Len(admitted) + 1}
           /\ Len(admitted) + 1 \notin DOMAIN admitted
<1> DEFINE new == [workflow |-> w, key |-> key, trigger |-> trigger]
<1>1. new \in Admitted
  BY Zenon DEF Admitted
<1>2. admitted \in Seq(Admitted) /\ admitted' = Append(admitted, new)
  BY DEF CatalogueOK, AddExecution
<1> HIDE DEF new
<1>3. /\ admitted' \in Seq(Admitted)
      /\ Len(admitted') = Len(admitted) + 1
      /\ admitted'[Len(admitted) + 1] = new
      /\ \A i \in DOMAIN admitted : admitted'[i] = admitted[i]
      /\ DOMAIN admitted' = DOMAIN admitted \cup {Len(admitted) + 1}
      /\ Len(admitted) + 1 \notin DOMAIN admitted
  BY <1>1, <1>2
<1>4. outbox' \subseteq DOMAIN admitted' /\ UNCHANGED workflows
  BY <1>3 DEF AddExecution, CatalogueOK
<1> QED
  BY <1>3, <1>4 DEF CatalogueOK, new

(* Every step of a request keeps the types.                                *)
LEMMA ServeType ==
    ASSUME CatalogueOK, AdmissionOK, NEW c \in Clients,
           ServeStep(c) \/ Vanish(c)
    PROVE  /\ CatalogueOK' /\ AdmissionOK'
           /\ DOMAIN admitted \subseteq DOMAIN admitted'
<1>1. ASSUME UNCHANGED catalogueVars
      PROVE  CatalogueOK' /\ DOMAIN admitted \subseteq DOMAIN admitted'
  BY <1>1 DEF catalogueVars, CatalogueOK
<1>2. 202 \in Codes /\ 500 \in Codes /\ 0 \in Nat
  BY DEF Codes
<1>3. CASE Lookup(c)
  <2>1. CASE Found(c) = {}
    BY <1>1, <1>2, <1>3, <2>1, ClientFacts, GoToType
    DEF Lookup, At, ClientPoints
  <2>2. CASE Found(c) # {}
    BY <1>1, <1>3, <2>2, ReturnFoundType DEF Lookup, At
  <2> QED
    BY <2>1, <2>2
<1>4. CASE Insert(c)
  <2>1. clients[c].pc # "idle"
    BY <1>4 DEF Insert, At
  <2>2. TriggerOf(CallOf(c)) \in TriggerType
    BY DEF TriggerOf, TriggerType
  <2>3. CatalogueOK' /\ DOMAIN admitted \subseteq DOMAIN admitted'
    BY <1>4, <2>1, <2>2, ClientFacts, AddExecutionType DEF Insert
  <2>4. Len(admitted) + 1 \in Nat /\ "reply" \in ClientPoints
    BY DEF CatalogueOK, ClientPoints
  <2>5. AdmissionOK'
    BY <1>4, <2>1, <2>4, ClientFacts, GoToType DEF Insert
  <2> QED
    BY <2>3, <2>5
<1>5. CASE InsertConflict(c)
  BY <1>1, <1>2, <1>5, ClientFacts, GoToType
  DEF InsertConflict, At, ClientPoints
<1>6. CASE InsertTooLong(c)
  BY <1>1, <1>2, <1>6, ClientFacts, AnswerType DEF InsertTooLong, At
<1>7. CASE Replay(c)
  <2>1. CASE Found(c) = {}
    BY <1>1, <1>2, <1>7, <2>1, ClientFacts, AnswerType DEF Replay, At
  <2>2. CASE Found(c) # {}
    BY <1>1, <1>7, <2>2, ReturnFoundType DEF Replay, At
  <2> QED
    BY <2>1, <2>2
<1>8. CASE Reply(c)
  <2>1. clients[c].pc # "idle"
    BY <1>8 DEF Reply, At
  <2>2. clients[c].execution \in Nat /\ CallOf(c) \in Calls
    BY <2>1, ClientFacts DEF OpenRequest
  <2> QED
    BY <1>1, <1>2, <1>8, <2>2, AnswerType DEF Reply
<1>9. CASE Vanish(c)
  BY <1>1, <1>9 DEF Vanish, AdmissionOK
<1> QED
  BY <1>3, <1>4, <1>5, <1>6, <1>7, <1>8, <1>9 DEF ServeStep

-----------------------------------------------------------------------------
(* Schedules                                                               *)

(* A batch that the query for due schedules returns.                       *)
LEMMA DueBatchType ==
    ASSUME SchedulesOK, NEW batch \in DueBatches
    PROVE  batch \in Batch /\ Len(batch) <= BatchSize
<1> DEFINE due == {d \in Schedules : IsDue(d)}
           n == BatchLength(due)
<1>1. IsFiniteSet(due)
  BY ScheduleAssumption, FS_Subset
<1>2. Cardinality(due) \in Nat
  BY <1>1, FS_CardinalityType
<1>3. n \in Nat /\ n <= BatchSize
  BY <1>2, ScheduleAssumption DEF BatchLength
<1>4. batch \in [1 .. n -> {Entry(d) : d \in due}]
  BY DEF DueBatches
<1>5. \A d \in Schedules : Entry(d) \in [id: Schedules, due_at: Nat]
  BY DEF Entry, SchedulesOK
<1>6. batch \in [1 .. n -> [id: Schedules, due_at: Nat]]
  BY <1>4, <1>5
<1> DEFINE Entries == [id: Schedules, due_at: Nat]
<1> HIDE DEF n, Entries
<1>7. batch \in Seq(Entries)
  BY <1>3, <1>6, SeqDef DEF Entries
<1>8. Len(batch) = n
  BY <1>3, <1>6, <1>7, LenProperties
<1> QED
  BY <1>3, <1>7, <1>8 DEF Batch, Entries

(* The entry that a scheduler is about to handle.                          *)
LEMMA EntryFacts ==
    ASSUME CyclesOK, NEW s \in Schedulers, cycles[s].pc = "prepare"
    PROVE  LET entry == Head(cycles[s].batch)
           IN  /\ entry.id \in Schedules
               /\ entry.due_at \in Nat
               /\ Target[entry.id] \in Workflows
               /\ ScheduleKey(entry.id, entry.due_at) \in IdempotencyKeys
               /\ Tail(cycles[s].batch) \in Batch
               /\ Len(Tail(cycles[s].batch)) <= BatchSize
<1> DEFINE entry == Head(cycles[s].batch)
<1>1. /\ cycles[s].batch \in Batch /\ cycles[s].batch # <<>>
      /\ Len(cycles[s].batch) <= BatchSize
  BY DEF CyclesOK, Cycle
<1>2. entry \in [id: Schedules, due_at: Nat]
  <2> DEFINE Entries == [id: Schedules, due_at: Nat]
  <2>1. cycles[s].batch \in Seq(Entries)
    BY <1>1 DEF Batch
  <2> HIDE DEF Entries
  <2>2. entry \in Entries
    BY <1>1, <2>1, HeadTailProperties
  <2> QED
    BY <2>2 DEF Entries
<1>3. /\ Tail(cycles[s].batch) \in Batch
      /\ Len(Tail(cycles[s].batch)) <= BatchSize
  BY <1>1, ScheduleAssumption DEF Batch
<1> HIDE DEF entry
<1>4. ScheduleKey(entry.id, entry.due_at) \in IdempotencyKeys
  BY <1>2 DEF ScheduleKey, IdempotencyKeys, ScheduleKeys
<1> QED
  BY <1>2, <1>3, <1>4, ScheduleAssumption DEF entry

(* A scheduler goes on with a batch.                                       *)
LEMMA ContinueType ==
    ASSUME CyclesOK, NEW s \in Schedulers, cycles[s].pc # "publish",
           NEW batch \in Batch, Len(batch) <= BatchSize, Continue(s, batch)
    PROVE  /\ CyclesOK'
           /\ \A r \in Schedulers :
                 cycles'[r].publishing = cycles[r].publishing
<1> DEFINE pc == IF batch = <<>> THEN "publish_select" ELSE "prepare"
<1>1. /\ cycles' = [cycles EXCEPT ![s].pc = pc, ![s].batch = batch]
      /\ pc \in CyclePoints /\ pc # "publish"
      /\ pc = "prepare" <=> batch # <<>>
  BY DEF Continue, CyclePoints
<1>2. cycles[s] \in Cycle /\ cycles[s].publishing = {}
  BY DEF CyclesOK
<1> HIDE DEF pc
<1>3. /\ cycles'[s].pc = pc /\ cycles'[s].batch = batch
      /\ cycles'[s].publishing = {} /\ cycles'[s] \in Cycle
  <2>1. cycles'[s] = [cycles[s] EXCEPT !.pc = pc, !.batch = batch]
    BY <1>1 DEF CyclesOK
  <2> DEFINE new == [pc |-> pc, batch |-> batch,
                     publishing |-> cycles[s].publishing]
  <2>2. new \in Cycle
    <3>1. cycles[s].batch \in Batch /\ cycles[s].publishing \in SUBSET Nat
      BY <1>2 DEF Cycle
    <3> QED
      BY <1>1, <3>1, Zenon DEF Cycle
  <2>3. cycles'[s] = new
    BY <1>2, <2>1 DEF Cycle
  <2>4. /\ new.pc = pc /\ new.batch = batch
        /\ new.publishing = cycles[s].publishing
    OBVIOUS
  <2> HIDE DEF new
  <2> QED
    BY <1>2, <2>2, <2>3, <2>4
<1>4. \A r \in Schedulers \ {s} : cycles'[r] = cycles[r]
  BY <1>1 DEF CyclesOK
<1>5. cycles' \in [Schedulers -> Cycle]
  BY <1>1, <1>3, <1>4 DEF CyclesOK
<1> QED
  BY <1>1, <1>2, <1>3, <1>4, <1>5 DEF CyclesOK

(* A scheduler goes on with rows of the outbox.                            *)
LEMMA PublishRestType ==
    ASSUME CyclesOK, NEW s \in Schedulers, cycles[s].pc # "prepare",
           NEW rows \in SUBSET Nat, PublishRest(s, rows)
    PROVE  /\ CyclesOK'
           /\ cycles'[s].publishing = rows
           /\ \A r \in Schedulers \ {s} :
                 cycles'[r].publishing = cycles[r].publishing
<1> DEFINE pc == IF rows = {} THEN "due_select" ELSE "publish"
<1>1. /\ cycles' = [cycles EXCEPT ![s].pc = pc, ![s].publishing = rows]
      /\ pc \in CyclePoints /\ pc # "prepare"
      /\ pc = "publish" <=> rows # {}
  BY DEF PublishRest, CyclePoints
<1>2. cycles[s] \in Cycle /\ cycles[s].batch = <<>>
  BY DEF CyclesOK
<1> HIDE DEF pc
<1>3. /\ cycles'[s].pc = pc /\ cycles'[s].batch = cycles[s].batch
      /\ cycles'[s].publishing = rows /\ cycles'[s] \in Cycle
  <2>1. cycles'[s] = [cycles[s] EXCEPT !.pc = pc, !.publishing = rows]
    BY <1>1 DEF CyclesOK
  <2> DEFINE new == [pc |-> pc, batch |-> cycles[s].batch, publishing |-> rows]
  <2>2. new \in Cycle
    <3>1. cycles[s].batch \in Batch /\ cycles[s].publishing \in SUBSET Nat
      BY <1>2 DEF Cycle
    <3> QED
      BY <1>1, <3>1, Zenon DEF Cycle
  <2>3. cycles'[s] = new
    BY <1>2, <2>1 DEF Cycle
  <2>4. /\ new.pc = pc /\ new.batch = cycles[s].batch
        /\ new.publishing = rows
    OBVIOUS
  <2> HIDE DEF new
  <2> QED
    BY <2>2, <2>3, <2>4
<1>4. \A r \in Schedulers \ {s} : cycles'[r] = cycles[r]
  BY <1>1 DEF CyclesOK
<1>5. cycles' \in [Schedulers -> Cycle]
  BY <1>1, <1>3, <1>4 DEF CyclesOK
<1> QED
  BY <1>1, <1>2, <1>3, <1>4, <1>5 DEF CyclesOK

(* The state at the start of a cycle.                                      *)
LEMMA CycleStartType ==
    /\ CycleStart \in Cycle /\ Len(CycleStart.batch) <= BatchSize
    /\ CycleStart.pc = "prepare" <=> CycleStart.batch # <<>>
    /\ CycleStart.pc = "publish" <=> CycleStart.publishing # {}
<1>1. /\ CycleStart.batch = <<>> /\ CycleStart.publishing = {}
      /\ CycleStart.pc = "due_select"
  BY DEF CycleStart
<1>2. CycleStart \in Cycle
  BY DEF CycleStart, Cycle, Batch, CyclePoints
<1>3. Len(<<>>) <= BatchSize
  BY ScheduleAssumption
<1> QED
  BY <1>1, <1>2, <1>3

(* A scheduler begins a new cycle.                                         *)
LEMMA RestartType ==
    ASSUME CyclesOK, NEW s \in Schedulers,
           cycles' = [cycles EXCEPT ![s] = CycleStart]
    PROVE  /\ CyclesOK'
           /\ \A r \in Schedulers :
                 cycles'[r].publishing \subseteq cycles[r].publishing
<1>1. cycles'[s] = CycleStart /\ CycleStart.publishing = {}
  BY DEF CyclesOK, CycleStart
<1>2. \A r \in Schedulers \ {s} : cycles'[r] = cycles[r]
  BY DEF CyclesOK
<1> QED
  BY <1>1, <1>2, CycleStartType DEF CyclesOK

(* Rows in hand keep their executions.                                     *)
LEMMA PublishingKept ==
    ASSUME PublishingOK, DOMAIN admitted \subseteq DOMAIN admitted',
           \A s \in Schedulers :
              cycles'[s].publishing \subseteq cycles[s].publishing
    PROVE  PublishingOK'
<1> SUFFICES ASSUME NEW s \in Schedulers
             PROVE  cycles'[s].publishing \subseteq DOMAIN admitted'
  BY DEF PublishingOK
<1> QED
  BY DEF PublishingOK

(* What Prepare does, in full.                                             *)
LEMMA PrepareFacts ==
    ASSUME TypeInv, NEW s \in Schedulers, Prepare(s)
    PROVE  \E d \in Schedules :
              LET due == schedules[d].next_run_at
              IN  /\ schedules' = [schedules EXCEPT
                        ![d] = [last_run_at |-> due,
                                next_run_at |-> due + Interval[d]]]
                  /\ ~Duplicate(Target[d], ScheduleKey(d, due))
                  /\ AddExecution(Target[d], ScheduleKey(d, due), "schedule")
                  /\ ScheduleKey(d, due) \in IdempotencyKeys
                  /\ Target[d] \in Workflows
                  /\ CyclesOK'
                  /\ \A r \in Schedulers :
                        cycles'[r].publishing = cycles[r].publishing
                  /\ UNCHANGED <<now, faults>>
<1> DEFINE entry == Head(cycles[s].batch)
<1>1. cycles[s].pc = "prepare"
  BY DEF Prepare
<1>2. /\ entry.id \in Schedules /\ entry.due_at \in Nat
      /\ Target[entry.id] \in Workflows
      /\ ScheduleKey(entry.id, entry.due_at) \in IdempotencyKeys
      /\ Tail(cycles[s].batch) \in Batch
      /\ Len(Tail(cycles[s].batch)) <= BatchSize
  BY <1>1, EntryFacts DEF TypeInv
<1>3. /\ entry.due_at = schedules[entry.id].next_run_at
      /\ ~Duplicate(Target[entry.id], ScheduleKey(entry.id, entry.due_at))
      /\ schedules' = [schedules EXCEPT
            ![entry.id] = Advanced(entry.id, entry.due_at)]
      /\ AddExecution(Target[entry.id], ScheduleKey(entry.id, entry.due_at),
                      "schedule")
      /\ Continue(s, Tail(cycles[s].batch))
      /\ UNCHANGED <<now, faults>>
  BY DEF Prepare, StillDue
<1>4. /\ CyclesOK'
      /\ \A r \in Schedulers : cycles'[r].publishing = cycles[r].publishing
  BY <1>1, <1>2, <1>3, ContinueType DEF TypeInv
<1> HIDE DEF entry
<1> QED
  BY <1>2, <1>3, <1>4 DEF Advanced

(* Every step of a scheduler keeps the types.                              *)
LEMMA CycleType ==
    ASSUME TypeInv, NEW s \in Schedulers,
           CycleStep(s) \/ SchedulerCrash(s) \/ PublishFails(s)
    PROVE  CatalogueOK' /\ SchedulesOK' /\ CyclesOK' /\ PublishingOK'
<1>1. ASSUME UNCHANGED <<schedules, now, faults, catalogueVars>>
      PROVE  CatalogueOK' /\ SchedulesOK'
  BY <1>1 DEF TypeInv, catalogueVars, CatalogueOK, SchedulesOK
<1>2. ASSUME UNCHANGED admitted,
             \A r \in Schedulers :
                cycles'[r].publishing \subseteq cycles[r].publishing
      PROVE  PublishingOK'
  BY <1>2, PublishingKept DEF TypeInv
<1>3. ASSUME NEW rows \in SUBSET DOMAIN admitted, UNCHANGED admitted,
             cycles[s].pc # "prepare", PublishRest(s, rows)
      PROVE  CyclesOK' /\ PublishingOK'
  <2>1. rows \in SUBSET Nat
    BY DEF TypeInv, CatalogueOK
  <2>2. /\ CyclesOK'
        /\ cycles'[s].publishing = rows
        /\ \A r \in Schedulers \ {s} :
              cycles'[r].publishing = cycles[r].publishing
    BY <1>3, <2>1, PublishRestType DEF TypeInv
  <2>3. PublishingOK'
    <3> SUFFICES ASSUME NEW r \in Schedulers
                 PROVE  cycles'[r].publishing \subseteq DOMAIN admitted
      BY <1>3 DEF PublishingOK
    <3> QED
      BY <2>2 DEF TypeInv, PublishingOK
  <2> QED
    BY <2>2, <2>3
<1>4. ASSUME UNCHANGED faults \/ (faults < MaxFaults /\ faults' = faults + 1),
              UNCHANGED <<schedules, now>>
       PROVE  SchedulesOK'
  BY <1>4, ScheduleAssumption DEF TypeInv, SchedulesOK
<1>5. CASE DueSelect(s)
  <2>1. PICK batch \in DueBatches : Continue(s, batch)
    BY <1>5 DEF DueSelect
  <2>2. batch \in Batch /\ Len(batch) <= BatchSize
    BY DueBatchType DEF TypeInv
  <2>3. /\ CyclesOK'
        /\ \A r \in Schedulers : cycles'[r].publishing = cycles[r].publishing
    BY <1>5, <2>1, <2>2, ContinueType DEF DueSelect, TypeInv
  <2>4. PublishingOK'
    BY <1>5, <1>2, <2>3 DEF DueSelect, catalogueVars
  <2> QED
    BY <1>1, <1>5, <2>3, <2>4 DEF DueSelect
<1>6. CASE Prepare(s)
  <2>1. PICK d \in Schedules :
           LET due == schedules[d].next_run_at
           IN  /\ schedules' = [schedules EXCEPT
                     ![d] = [last_run_at |-> due,
                             next_run_at |-> due + Interval[d]]]
               /\ AddExecution(Target[d], ScheduleKey(d, due), "schedule")
               /\ ScheduleKey(d, due) \in IdempotencyKeys
               /\ Target[d] \in Workflows
               /\ CyclesOK'
               /\ \A r \in Schedulers :
                     cycles'[r].publishing = cycles[r].publishing
               /\ UNCHANGED <<now, faults>>
    BY <1>6, PrepareFacts
  <2>2. CatalogueOK' /\ DOMAIN admitted \subseteq DOMAIN admitted'
    BY <2>1, AddExecutionType DEF TypeInv, TriggerType
  <2>3. SchedulesOK'
    <3> DEFINE due == schedules[d].next_run_at
               new == [last_run_at |-> due, next_run_at |-> due + Interval[d]]
    <3>1. due \in Nat /\ due + Interval[d] \in Nat
      BY ScheduleAssumption DEF TypeInv, SchedulesOK
    <3>2. new \in [next_run_at: Nat, last_run_at: Nat]
      BY <3>1
    <3>3. schedules' = [schedules EXCEPT ![d] = new]
      BY <2>1
    <3> HIDE DEF new
    <3> QED
      BY <2>1, <3>2, <3>3 DEF TypeInv, SchedulesOK
  <2>4. PublishingOK'
    BY <2>1, <2>2, PublishingKept DEF TypeInv
  <2> QED
    BY <2>1, <2>2, <2>3, <2>4
<1>7. CASE PrepareMiss(s)
  <2>1. /\ CyclesOK'
        /\ \A r \in Schedulers : cycles'[r].publishing = cycles[r].publishing
    BY <1>7, EntryFacts, ContinueType DEF TypeInv, PrepareMiss
  <2>2. PublishingOK'
    BY <1>7, <1>2, <2>1 DEF PrepareMiss, catalogueVars
  <2> QED
    BY <1>1, <1>7, <2>1, <2>2 DEF PrepareMiss
<1>8. CASE PrepareConflict(s)
  <2>1. /\ cycles' = [cycles EXCEPT ![s] = CycleStart]
        /\ UNCHANGED <<schedules, now, faults, catalogueVars>>
    BY <1>8 DEF PrepareConflict
  <2> QED
    BY <1>1, <1>2, <2>1, RestartType DEF TypeInv, catalogueVars
<1>9. CASE PublishSelect(s)
  <2>1. PICK rows \in OutboxBatches : PublishRest(s, rows)
    BY <1>9 DEF PublishSelect
  <2>2. rows \subseteq DOMAIN admitted
    BY DEF OutboxBatches, TypeInv, CatalogueOK
  <2>3. CyclesOK' /\ PublishingOK'
    BY <1>9, <1>3, <2>1, <2>2 DEF PublishSelect, catalogueVars
  <2> QED
    BY <1>1, <1>9, <2>3 DEF PublishSelect
<1>10. CASE Publish(s)
  <2>1. PICK row \in cycles[s].publishing :
           /\ outbox' = outbox \ {row}
           /\ PublishRest(s, cycles[s].publishing \ {row})
           /\ cycles[s].pc = "publish"
           /\ UNCHANGED <<schedules, now, faults, workflows, admitted>>
    BY <1>10 DEF Publish
  <2>2. cycles[s].publishing \ {row} \subseteq DOMAIN admitted
    BY DEF TypeInv, PublishingOK
  <2>3. CyclesOK' /\ PublishingOK'
    BY <1>3, <2>1, <2>2
  <2>4. CatalogueOK'
    BY <2>1 DEF TypeInv, CatalogueOK
  <2> QED
    BY <1>4, <2>1, <2>3, <2>4
<1>11. CASE PublishFails(s)
  <2>1. PICK row \in cycles[s].publishing :
           /\ faults < MaxFaults /\ faults' = faults + 1
           /\ PublishRest(s, cycles[s].publishing \ {row})
           /\ cycles[s].pc = "publish"
           /\ UNCHANGED <<schedules, now, catalogueVars>>
    BY <1>11 DEF PublishFails
  <2>2. cycles[s].publishing \ {row} \subseteq DOMAIN admitted
    BY DEF TypeInv, PublishingOK
  <2>3. CyclesOK' /\ PublishingOK'
    BY <1>3, <2>1, <2>2 DEF catalogueVars
  <2>4. CatalogueOK'
    BY <2>1 DEF TypeInv, CatalogueOK, catalogueVars
  <2> QED
    BY <1>4, <2>1, <2>3, <2>4
<1>12. CASE SchedulerCrash(s)
  <2>1. /\ faults < MaxFaults /\ faults' = faults + 1
        /\ cycles' = [cycles EXCEPT ![s] = CycleStart]
        /\ UNCHANGED <<schedules, now, catalogueVars>>
    BY <1>12 DEF SchedulerCrash
  <2>2. CyclesOK' /\ PublishingOK'
    BY <1>2, <2>1, RestartType DEF TypeInv, catalogueVars
  <2>3. CatalogueOK'
    BY <2>1 DEF TypeInv, CatalogueOK, catalogueVars
  <2> QED
    BY <1>4, <2>1, <2>2, <2>3
<1> QED
  BY <1>5, <1>6, <1>7, <1>8, <1>9, <1>10, <1>11, <1>12 DEF CycleStep

-----------------------------------------------------------------------------
(* Types                                                                   *)

(* The types hold at the start.                                            *)
LEMMA InitTypeInv == Init => TypeInv
<1> SUFFICES ASSUME Init PROVE TypeInv
  OBVIOUS
<1>1. CatalogueOK
  BY DEF Init, CatalogueInit, CatalogueOK, WorkflowStatus
<1>2. AdmissionOK
  BY DEF Init, AdmissionInit, AdmissionOK
<1>3. SchedulesOK
  BY ScheduleAssumption DEF Init, SchedulesInit, SchedulesOK
<1>4. CyclesOK
  BY CycleStartType DEF Init, SchedulesInit, CyclesOK
<1>5. PublishingOK
  BY DEF Init, SchedulesInit, CycleStart, PublishingOK
<1> QED
  BY <1>1, <1>2, <1>3, <1>4, <1>5 DEF TypeInv

(* Every step keeps them.                                                  *)
LEMMA NextTypeInv == TypeInv /\ [Next]_vars => TypeInv'
<1> SUFFICES ASSUME TypeInv, [Next]_vars PROVE TypeInv'
  OBVIOUS
<1>0. CatalogueOK /\ AdmissionOK /\ SchedulesOK /\ CyclesOK /\ PublishingOK
  BY DEF TypeInv
<1>1. ASSUME UNCHANGED catalogueVars
      PROVE  CatalogueOK' /\ UNCHANGED admitted
  BY <1>0, <1>1 DEF CatalogueOK, catalogueVars
<1>2. ASSUME UNCHANGED admissionVars PROVE AdmissionOK'
  BY <1>0, <1>2 DEF AdmissionOK, admissionVars
<1>3. ASSUME UNCHANGED scheduleVars PROVE SchedulesOK' /\ CyclesOK'
  BY <1>0, <1>3 DEF SchedulesOK, CyclesOK, scheduleVars
<1>4. ASSUME UNCHANGED cycles, DOMAIN admitted \subseteq DOMAIN admitted'
       PROVE  PublishingOK'
  BY <1>0, <1>4, PublishingKept
<1>5. CASE WorkflowCreated
  <2>1. CatalogueOK' /\ UNCHANGED admitted
    BY <1>0, <1>5 DEF WorkflowCreated, CreateWorkflow, CatalogueOK
  <2> QED
    BY <1>2, <1>3, <1>5, <1>4, <2>1 DEF WorkflowCreated, TypeInv, scheduleVars
<1>6. CASE RequestArrives
  BY <1>0, <1>1, <1>3, <1>6, <1>4, ArriveType
  DEF RequestArrives, TypeInv, scheduleVars
<1>7. CASE \E c \in Clients : RequestServed(c) \/ RequestLost(c)
  <2>1. /\ CatalogueOK' /\ AdmissionOK'
        /\ DOMAIN admitted \subseteq DOMAIN admitted'
    BY <1>0, <1>7, ServeType DEF RequestServed, RequestLost
  <2>2. UNCHANGED scheduleVars
    BY <1>7 DEF RequestServed, RequestLost
  <2> QED
    BY <1>3, <1>4, <2>1, <2>2 DEF TypeInv, scheduleVars
<1>8. CASE ScheduleCreated
  <2>1. PICK d \in Schedules, starts_at \in StartTimes :
           CreateSchedule(d, starts_at)
    BY <1>8 DEF ScheduleCreated
  <2>2. PICK t \in Nat :
           schedules' = [schedules EXCEPT ![d].next_run_at = t]
    <3>1. starts_at \in Nat /\ now + Interval[d] \in Nat
      BY <1>0, ScheduleAssumption DEF SchedulesOK
    <3> QED
      BY <2>1, <3>1 DEF CreateSchedule
  <2>3. SchedulesOK'
    BY <1>0, <2>1, <2>2 DEF CreateSchedule, SchedulesOK
  <2>4. CyclesOK' /\ PublishingOK'
    BY <1>0, <1>4, <2>1 DEF CreateSchedule, CyclesOK, catalogueVars
  <2> QED
    BY <1>1, <1>2, <1>8, <2>1, <2>3, <2>4
    DEF CreateSchedule, ScheduleCreated, TypeInv, catalogueVars
<1>9. CASE \E s \in Schedulers : SchedulerRuns(s) \/ SchedulerFault(s)
  BY <1>2, <1>9, CycleType DEF SchedulerRuns, SchedulerFault, TypeInv
<1>10. CASE TimePasses
  <2>1. SchedulesOK' /\ CyclesOK'
    BY <1>0, <1>10, ScheduleAssumption
    DEF TimePasses, Tick, SchedulesOK, CyclesOK
  <2>2. PublishingOK'
    BY <1>10, <1>4 DEF TimePasses, Tick, catalogueVars
  <2> QED
    BY <1>1, <1>2, <1>10, <2>1, <2>2
    DEF TimePasses, Tick, TypeInv, catalogueVars
<1>11. CASE UNCHANGED vars
  BY <1>1, <1>2, <1>3, <1>11, <1>4 DEF vars, TypeInv, scheduleVars
<1> QED
  BY <1>5, <1>6, <1>7, <1>8, <1>9, <1>10, <1>11 DEF Next

(* So they hold always.                                                    *)
LEMMA SpecTypeInv == Spec => []TypeInv
  BY InitTypeInv, NextTypeInv, PTL DEF Spec

(* The variables of the triggers have their types, whoever calls, with     *)
(* whatever is wrong with the calls, and whatever the schedulers do.       *)
THEOREM TriggersTyped == Spec => []TypeOK
<1>1. TypeInv => TypeOK
  BY DEF TypeInv, TypeOK, CatalogueOK, AdmissionOK, SchedulesOK, CyclesOK,
         PublishingOK, Admitted, OpenRequest, GivenAnswer, Batch, Cycle
<1> QED
  BY <1>1, SpecTypeInv, PTL

-----------------------------------------------------------------------------
(* Every interval once                                                     *)

(* No two executions have the same workflow and key.                       *)
Distinct ==
    \A i, j \in DOMAIN admitted :
        (/\ admitted[i].workflow = admitted[j].workflow
         /\ admitted[i].key = admitted[j].key) => i = j

(* An execution of a schedule has the key and the workflow of the schedule.*)
ScheduleRows ==
    \A i \in DOMAIN admitted :
        admitted[i].trigger = "schedule" =>
            \E d \in Schedules, t \in Nat :
                /\ admitted[i].key = ScheduleKey(d, t)
                /\ admitted[i].workflow = Target[d]

(* Behind an interval that has run comes one that has run, or the next.    *)
Consecutive(d) ==
    \A t \in Nat : RunsOf(d, t) # {} =>
        /\ t < schedules[d].next_run_at
        /\ \/ t + Interval[d] = schedules[d].next_run_at
           \/ RunsOf(d, t + Interval[d]) # {}

(* last_run_at tells whether there was a run, and which was the last.      *)
LastRun(d) ==
    /\ (\A t \in Nat : RunsOf(d, t) = {}) => schedules[d].last_run_at = 0
    /\ (\E t \in Nat : RunsOf(d, t) # {}) =>
           schedules[d].last_run_at = schedules[d].next_run_at - Interval[d]

IntervalInv ==
    /\ TypeInv
    /\ Distinct
    /\ ScheduleRows
    /\ \A d \in Schedules : Consecutive(d) /\ LastRun(d)

(* A step adds no execution and moves no schedule, or is an insert for a   *)
(* client, or creates a schedule, or runs one.                             *)
LEMMA StepKinds ==
    ASSUME TypeInv, [Next]_vars
    PROVE  \/ UNCHANGED <<admitted, schedules>>
           \/ (\E c \in Clients : Insert(c)) /\ UNCHANGED schedules
           \/ /\ \E d \in Schedules, t \in Nat :
                    /\ schedules[d].next_run_at = 0
                    /\ schedules' = [schedules EXCEPT ![d].next_run_at = t]
              /\ UNCHANGED admitted
           \/ \E d \in Schedules :
                 LET due == schedules[d].next_run_at
                 IN  /\ schedules' = [schedules EXCEPT
                           ![d] = [last_run_at |-> due,
                                   next_run_at |-> due + Interval[d]]]
                     /\ ~Duplicate(Target[d], ScheduleKey(d, due))
                     /\ AddExecution(Target[d], ScheduleKey(d, due),
                                     "schedule")
                     /\ ScheduleKey(d, due) \in IdempotencyKeys
                     /\ Target[d] \in Workflows
<1>1. CASE WorkflowCreated
  BY <1>1 DEF WorkflowCreated, CreateWorkflow, scheduleVars
<1>2. CASE RequestArrives
  BY <1>2 DEF RequestArrives, Arrive, scheduleVars, catalogueVars
<1>3. ASSUME NEW c \in Clients, RequestServed(c) \/ RequestLost(c)
      PROVE  UNCHANGED schedules /\ (Insert(c) \/ UNCHANGED admitted)
  <2>1. UNCHANGED schedules
    BY <1>3 DEF RequestServed, RequestLost, scheduleVars
  <2>2. Insert(c) \/ UNCHANGED admitted
    BY <1>3 DEF RequestServed, RequestLost, ServeStep, Lookup, InsertConflict,
                InsertTooLong, Replay, Reply, Vanish, catalogueVars
  <2> QED
    BY <2>1, <2>2
<1>4. CASE ScheduleCreated
  <2>1. PICK d \in Schedules, starts_at \in StartTimes :
           CreateSchedule(d, starts_at)
    BY <1>4 DEF ScheduleCreated
  <2>2. starts_at \in Nat /\ now + Interval[d] \in Nat
    BY ScheduleAssumption DEF TypeInv, SchedulesOK
  <2> QED
    BY <2>1, <2>2 DEF CreateSchedule, catalogueVars
<1>5. ASSUME NEW s \in Schedulers, SchedulerRuns(s) \/ SchedulerFault(s)
      PROVE  UNCHANGED <<admitted, schedules>> \/ Prepare(s)
  BY <1>5 DEF SchedulerRuns, SchedulerFault, SchedulerCrash, CycleStep,
              DueSelect, PrepareMiss, PrepareConflict, PublishSelect, Publish,
              PublishFails, catalogueVars
<1>6. CASE TimePasses
  BY <1>6 DEF TimePasses, Tick, catalogueVars
<1>7. CASE UNCHANGED vars
  BY <1>7 DEF vars, catalogueVars, scheduleVars
<1>8. CASE \E c \in Clients : RequestServed(c) \/ RequestLost(c)
  BY <1>3, <1>8
<1>9. CASE \E s \in Schedulers : SchedulerRuns(s) \/ SchedulerFault(s)
  <2>1. PICK s \in Schedulers : UNCHANGED <<admitted, schedules>> \/ Prepare(s)
    BY <1>5, <1>9
  <2> QED
    BY <2>1, PrepareFacts
<1> QED
  BY <1>1, <1>2, <1>4, <1>6, <1>7, <1>8, <1>9 DEF Next

(* A row that the unique constraint lets in is like no other.              *)
LEMMA AddDistinct ==
    ASSUME CatalogueOK, Distinct, NEW w \in Workflows,
           NEW key \in IdempotencyKeys, NEW trigger \in TriggerType,
           ~Duplicate(w, key), AddExecution(w, key, trigger)
    PROVE  Distinct'
<1>1. /\ admitted'[Len(admitted) + 1] =
            [workflow |-> w, key |-> key, trigger |-> trigger]
      /\ \A i \in DOMAIN admitted : admitted'[i] = admitted[i]
      /\ DOMAIN admitted' = DOMAIN admitted \cup {Len(admitted) + 1}
  BY AddExecutionType
<1>2. \A i \in DOMAIN admitted :
         ~(admitted[i].workflow = w /\ admitted[i].key = key)
  BY DEF Duplicate, Matching
<1> QED
  BY <1>1, <1>2 DEF Distinct

(* The executions of a schedule at a time, once a row has been added.      *)
LEMMA AddRuns ==
    ASSUME CatalogueOK, NEW w \in Workflows,
           NEW key \in IdempotencyKeys, NEW trigger \in TriggerType,
           AddExecution(w, key, trigger), NEW d, NEW t
    PROVE  RunsOf(d, t)' =
              IF trigger = "schedule" /\ key = ScheduleKey(d, t)
              THEN RunsOf(d, t) \cup {Len(admitted) + 1} ELSE RunsOf(d, t)
<1>1. /\ admitted'[Len(admitted) + 1] =
            [workflow |-> w, key |-> key, trigger |-> trigger]
      /\ \A i \in DOMAIN admitted : admitted'[i] = admitted[i]
      /\ DOMAIN admitted' = DOMAIN admitted \cup {Len(admitted) + 1}
  BY AddExecutionType
<1>2. RunsOf(d, t)' =
         {i \in DOMAIN admitted' : /\ admitted'[i].trigger = "schedule"
                                   /\ admitted'[i].key = ScheduleKey(d, t)}
  BY DEF RunsOf
<1> QED
  BY <1>1, <1>2 DEF RunsOf

(* A client's row keeps the executions of the schedules what they are.     *)
LEMMA InsertIntervals ==
    ASSUME IntervalInv, NEW c \in Clients, Insert(c), UNCHANGED schedules
    PROVE  /\ Distinct' /\ ScheduleRows'
           /\ \A d \in Schedules : Consecutive(d)' /\ LastRun(d)'
<1> DEFINE w == CallOf(c).workflow
           key == KeyOf(CallOf(c))
           trigger == TriggerOf(CallOf(c))
<1>1. /\ CatalogueOK /\ Distinct /\ ScheduleRows
      /\ w \in Workflows /\ key \in IdempotencyKeys
      /\ trigger \in TriggerType /\ trigger # "schedule"
      /\ ~Duplicate(w, key) /\ AddExecution(w, key, trigger)
  <2>1. clients[c].pc # "idle"
    BY DEF Insert, At
  <2>2. trigger \in TriggerType /\ trigger # "schedule"
    BY DEF TriggerOf, TriggerType
  <2> QED
    BY <2>1, <2>2, ClientFacts DEF IntervalInv, TypeInv, Insert
<1> HIDE DEF w, key, trigger
<1>2. Distinct'
  BY <1>1, AddDistinct
<1>3. ScheduleRows'
  <2>1. /\ admitted'[Len(admitted) + 1] =
              [workflow |-> w, key |-> key, trigger |-> trigger]
        /\ \A i \in DOMAIN admitted : admitted'[i] = admitted[i]
        /\ DOMAIN admitted' = DOMAIN admitted \cup {Len(admitted) + 1}
    BY <1>1, AddExecutionType
  <2> QED
    BY <1>1, <2>1 DEF ScheduleRows
<1>4. \A d, t : RunsOf(d, t)' = RunsOf(d, t)
  BY <1>1, AddRuns
<1>5. ASSUME NEW d \in Schedules PROVE Consecutive(d)' /\ LastRun(d)'
  <2>1. Consecutive(d) /\ LastRun(d)
    BY DEF IntervalInv
  <2> QED
    BY <1>4, <2>1 DEF Consecutive, LastRun
<1> QED
  BY <1>2, <1>3, <1>5

(* A schedule that did not exist has no executions.                        *)
LEMMA CreateIntervals ==
    ASSUME IntervalInv, UNCHANGED admitted, NEW d \in Schedules, NEW t \in Nat,
           schedules[d].next_run_at = 0,
           schedules' = [schedules EXCEPT ![d].next_run_at = t]
    PROVE  \A e \in Schedules : Consecutive(e)' /\ LastRun(e)'
<1>1. \A e, u : RunsOf(e, u)' = RunsOf(e, u)
  BY DEF RunsOf
<1>2. \A e \in Schedules : Consecutive(e) /\ LastRun(e)
  BY DEF IntervalInv
<1>3. \A u \in Nat : RunsOf(d, u) = {}
  BY <1>2 DEF Consecutive
<1>4. /\ schedules'[d].last_run_at = schedules[d].last_run_at
      /\ \A e \in Schedules \ {d} : schedules'[e] = schedules[e]
  BY DEF IntervalInv, TypeInv, SchedulesOK
<1>5. Consecutive(d)' /\ LastRun(d)'
  BY <1>1, <1>2, <1>3, <1>4 DEF Consecutive, LastRun
<1>6. ASSUME NEW e \in Schedules \ {d} PROVE Consecutive(e)' /\ LastRun(e)'
  BY <1>1, <1>2, <1>4, <1>6 DEF Consecutive, LastRun
<1> QED
  BY <1>5, <1>6

(* A run of a schedule: the interval at next_run_at is the one that runs,  *)
(* and the one behind it is next.                                          *)
LEMMA RunIntervals ==
    ASSUME IntervalInv, NEW d \in Schedules, NEW due,
           due = schedules[d].next_run_at,
           schedules' = [schedules EXCEPT
               ![d] = [last_run_at |-> due, next_run_at |-> due + Interval[d]]],
           ~Duplicate(Target[d], ScheduleKey(d, due)),
           AddExecution(Target[d], ScheduleKey(d, due), "schedule"),
           ScheduleKey(d, due) \in IdempotencyKeys, Target[d] \in Workflows
    PROVE  /\ Distinct' /\ ScheduleRows'
           /\ \A e \in Schedules : Consecutive(e)' /\ LastRun(e)'
<1>1. /\ CatalogueOK /\ Distinct /\ ScheduleRows
      /\ \A e \in Schedules : Consecutive(e) /\ LastRun(e)
      /\ due \in Nat /\ Interval[d] \in Nat \ {0}
      /\ "schedule" \in TriggerType
  BY ScheduleAssumption DEF IntervalInv, TypeInv, SchedulesOK, TriggerType
<1>2. Distinct'
  BY <1>1, AddDistinct
<1>3. ScheduleRows'
  <2>1. /\ admitted'[Len(admitted) + 1] =
              [workflow |-> Target[d], key |-> ScheduleKey(d, due),
               trigger |-> "schedule"]
        /\ \A i \in DOMAIN admitted : admitted'[i] = admitted[i]
        /\ DOMAIN admitted' = DOMAIN admitted \cup {Len(admitted) + 1}
    BY <1>1, AddExecutionType
  <2> QED
    BY <1>1, <2>1 DEF ScheduleRows
<1>4. ASSUME NEW e, NEW t
      PROVE  RunsOf(e, t)' = IF e = d /\ t = due
                             THEN RunsOf(e, t) \cup {Len(admitted) + 1}
                             ELSE RunsOf(e, t)
  <2>1. ScheduleKey(d, due) = ScheduleKey(e, t) <=> e = d /\ t = due
    BY DEF ScheduleKey
  <2> QED
    BY <1>1, <2>1, AddRuns
<1>5. /\ schedules'[d].last_run_at = due
      /\ schedules'[d].next_run_at = due + Interval[d]
      /\ \A e \in Schedules \ {d} : schedules'[e] = schedules[e]
  BY DEF IntervalInv, TypeInv, SchedulesOK
<1>6. ASSUME NEW e \in Schedules \ {d} PROVE Consecutive(e)' /\ LastRun(e)'
  <2>1. \A t : RunsOf(e, t)' = RunsOf(e, t)
    BY <1>4, <1>6
  <2> QED
    BY <1>1, <1>5, <1>6, <2>1 DEF Consecutive, LastRun
<1>7. RunsOf(d, due)' # {}
  BY <1>4
<1>8. Consecutive(d)'
  <2> SUFFICES ASSUME NEW t \in Nat, RunsOf(d, t)' # {}
               PROVE  /\ t < due + Interval[d]
                      /\ \/ t + Interval[d] = due + Interval[d]
                         \/ RunsOf(d, t + Interval[d])' # {}
    BY <1>5 DEF Consecutive
  <2>1. CASE t = due
    BY <1>1, <2>1
  <2>2. CASE t # due
    <3>1. RunsOf(d, t) # {}
      BY <1>4, <2>2
    <3>2. /\ t < due
          /\ t + Interval[d] = due \/ RunsOf(d, t + Interval[d]) # {}
      BY <1>1, <3>1 DEF Consecutive
    <3>3. RunsOf(d, t + Interval[d]) # {} => RunsOf(d, t + Interval[d])' # {}
      BY <1>4
    <3> QED
      BY <1>1, <1>7, <3>2, <3>3
  <2> QED
    BY <2>1, <2>2
<1>9. LastRun(d)'
  BY <1>1, <1>5, <1>7 DEF LastRun
<1> QED
  BY <1>2, <1>3, <1>6, <1>8, <1>9

(* The invariant of the schedules is inductive.                            *)
LEMMA NextIntervalInv == IntervalInv /\ [Next]_vars => IntervalInv'
<1> SUFFICES ASSUME IntervalInv, [Next]_vars PROVE IntervalInv'
  OBVIOUS
<1>1. TypeInv /\ TypeInv'
  BY NextTypeInv DEF IntervalInv
<1>2. ASSUME UNCHANGED admitted PROVE Distinct' /\ ScheduleRows'
  BY <1>2 DEF IntervalInv, Distinct, ScheduleRows
<1>3. CASE UNCHANGED <<admitted, schedules>>
  <2>1. \A d, t : RunsOf(d, t)' = RunsOf(d, t)
    BY <1>3 DEF RunsOf
  <2>2. \A d \in Schedules : Consecutive(d)' /\ LastRun(d)'
    BY <1>3, <2>1 DEF IntervalInv, Consecutive, LastRun
  <2> QED
    BY <1>1, <1>2, <1>3, <2>2 DEF IntervalInv
<1>4. CASE (\E c \in Clients : Insert(c)) /\ UNCHANGED schedules
  BY <1>1, <1>4, InsertIntervals DEF IntervalInv
<1>5. CASE /\ \E d \in Schedules, t \in Nat :
                 /\ schedules[d].next_run_at = 0
                 /\ schedules' = [schedules EXCEPT ![d].next_run_at = t]
           /\ UNCHANGED admitted
  BY <1>1, <1>2, <1>5, CreateIntervals DEF IntervalInv
<1>6. CASE \E d \in Schedules :
              LET due == schedules[d].next_run_at
              IN  /\ schedules' = [schedules EXCEPT
                        ![d] = [last_run_at |-> due,
                                next_run_at |-> due + Interval[d]]]
                  /\ ~Duplicate(Target[d], ScheduleKey(d, due))
                  /\ AddExecution(Target[d], ScheduleKey(d, due), "schedule")
                  /\ ScheduleKey(d, due) \in IdempotencyKeys
                  /\ Target[d] \in Workflows
  BY <1>1, <1>6, RunIntervals DEF IntervalInv
<1> QED
  BY <1>1, <1>3, <1>4, <1>5, <1>6, StepKinds

(* It holds at the start.                                                  *)
LEMMA InitIntervalInv == Init => IntervalInv
<1> SUFFICES ASSUME Init PROVE IntervalInv
  OBVIOUS
<1>1. DOMAIN admitted = {}
  BY DEF Init, CatalogueInit
<1>2. \A d, t : RunsOf(d, t) = {}
  BY <1>1 DEF RunsOf
<1>3. \A d \in Schedules : schedules[d].last_run_at = 0
  BY DEF Init, SchedulesInit
<1> QED
  BY <1>1, <1>2, <1>3, InitTypeInv
  DEF IntervalInv, Distinct, ScheduleRows, Consecutive, LastRun

(* So it holds always.                                                     *)
LEMMA SpecIntervalInv == Spec => []IntervalInv
  BY InitIntervalInv, NextIntervalInv, PTL DEF Spec

(* Every interval of a schedule from its first to next_run_at has exactly  *)
(* one execution and last_run_at is the last of them, for every number of  *)
(* schedulers that race for it in prepare_due_schedules, crash, or are     *)
(* behind, and whatever keys the clients send.                             *)
THEOREM IntervalsRunOnce == Spec => []EveryIntervalOnce
<1>1. IntervalInv => EveryIntervalOnce
  <2> SUFFICES ASSUME IntervalInv, NEW d \in Schedules
               PROVE  LET next == schedules[d].next_run_at
                          last == schedules[d].last_run_at
                          runs == {admitted[i].key[2][2] : i \in
                                      {j \in DOMAIN admitted :
                                          /\ admitted[j].trigger = "schedule"
                                          /\ admitted[j].key[2][1] = d}}
                      IN  /\ \A t \in runs :
                                /\ t < next
                                /\ t + Interval[d] \in runs \cup {next}
                                /\ \A i, j \in RunsOf(d, t) : i = j
                          /\ last = IF runs = {} THEN 0
                                    ELSE next - Interval[d]
    BY DEF EveryIntervalOnce
  <2> DEFINE runs == {admitted[i].key[2][2] : i \in
                         {j \in DOMAIN admitted :
                             /\ admitted[j].trigger = "schedule"
                             /\ admitted[j].key[2][1] = d}}
  <2>1. ASSUME NEW t \in runs PROVE t \in Nat /\ RunsOf(d, t) # {}
    <3>1. PICK i \in DOMAIN admitted : /\ admitted[i].trigger = "schedule"
                                       /\ admitted[i].key[2][1] = d
                                       /\ admitted[i].key[2][2] = t
      BY <2>1
    <3>2. PICK e \in Schedules, u \in Nat :
             admitted[i].key = ScheduleKey(e, u)
      BY <3>1 DEF IntervalInv, ScheduleRows
    <3>3. e = d /\ u = t
      BY <3>1, <3>2 DEF ScheduleKey
    <3> QED
      BY <3>1, <3>2, <3>3 DEF RunsOf
  <2>2. ASSUME NEW t \in Nat, RunsOf(d, t) # {} PROVE t \in runs
    BY <2>2 DEF RunsOf, ScheduleKey
  <2>3. ASSUME NEW t \in Nat, NEW i \in RunsOf(d, t), NEW j \in RunsOf(d, t)
        PROVE  i = j
    <3>1. /\ i \in DOMAIN admitted /\ admitted[i].trigger = "schedule"
          /\ admitted[i].key = ScheduleKey(d, t)
          /\ j \in DOMAIN admitted /\ admitted[j].trigger = "schedule"
          /\ admitted[j].key = ScheduleKey(d, t)
      BY DEF RunsOf
    <3>2. /\ admitted[i].workflow = Target[d]
          /\ admitted[j].workflow = Target[d]
      BY <3>1 DEF IntervalInv, ScheduleRows, ScheduleKey
    <3> QED
      BY <3>1, <3>2 DEF IntervalInv, Distinct
  <2> HIDE DEF runs
  <2>4. Consecutive(d) /\ LastRun(d) /\ Interval[d] \in Nat
    BY ScheduleAssumption DEF IntervalInv
  <2>5. ASSUME NEW t \in runs
        PROVE  /\ t < schedules[d].next_run_at
               /\ t + Interval[d] \in runs \cup {schedules[d].next_run_at}
    BY <2>1, <2>2, <2>4, <2>5 DEF Consecutive
  <2>6. schedules[d].last_run_at =
           IF runs = {} THEN 0 ELSE schedules[d].next_run_at - Interval[d]
    BY <2>1, <2>2, <2>4 DEF LastRun
  <2> QED
    BY <2>1, <2>3, <2>5, <2>6 DEF runs
<1> QED
  BY <1>1, SpecIntervalInv, PTL
=============================================================================
