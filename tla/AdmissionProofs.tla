-------------------------- MODULE AdmissionProofs ---------------------------
(***************************************************************************)
(* Requests: one execution for each idempotency key however its requests   *)
(* race, answered once as new; nothing in front of the signature or the    *)
(* role; and that the triggers implement IdempotentAdmission.              *)
(***************************************************************************)
EXTENDS TriggerProofs

(* What the checks in front of request_execution let through.              *)
Passed(call) ==
    /\ Authorize(call.caller, call.endpoint) = 0
    /\ \A i \in DOMAIN Checks[call.endpoint] :
          Checks[call.endpoint][i][1] \notin call.flaws \cup HeaderFlaws(call)

(* The answer to a webhook without the right signature.                    *)
UnsignedCode(call) ==
    LET flaws == call.flaws \cup HeaderFlaws(call)
    IN  IF "header" \in flaws THEN 422
        ELSE IF "unconfigured" \in flaws THEN 503
        ELSE IF "oversized" \in flaws THEN 413
        ELSE IF "non_ascii" \in flaws THEN 500
        ELSE 401

Unsigned(call) == call.endpoint = "webhook" /\ "signature" \in call.flaws

(* An event identifier that the header check lets through leaves room for  *)
(* the prefix in the column.                                               *)
KeysFit ==
    \A call \in Calls : Length(call.id) \in 8 .. 160 =>
        ~(Length(KeyOf(call)) > KeyWidth)

(* An open request has passed its checks; behind a conflict there is an    *)
(* execution to find; behind the insert the execution is the request's and *)
(* no answer has said yet that it is new.                                  *)
RequestSound(c) ==
    clients[c].pc # "idle" =>
        /\ Passed(CallOf(c))
        /\ clients[c].pc = "replay" => Found(c) # {}
        /\ clients[c].pc = "reply" =>
              /\ clients[c].execution \in Found(c)
              /\ \A r \in DOMAIN answers :
                    answers[r].execution = clients[c].execution =>
                        answers[r].replayed

(* Two requests never reply with one execution as new.                     *)
RepliesApart ==
    \A b, c \in Clients :
        (/\ b # c /\ clients[b].pc = "reply" /\ clients[c].pc = "reply")
            => clients[b].execution # clients[c].execution

(* What can be said of one answer.                                         *)
AnswerSound(a) ==
    /\ a.execution # 0 => a.execution \in Matching(a.call.workflow,
                                                   KeyOf(a.call))
    /\ Authorize(a.call.caller, a.call.endpoint) # 0 => a.code \in {401, 403}
    /\ Unsigned(a.call) => a.code = UnsignedCode(a.call)
    /\ KeysFit /\ a.code = 500 => "non_ascii" \in a.call.flaws

OneNew ==
    \A i, j \in DOMAIN answers :
        (/\ i # j /\ answers[i].execution # 0
         /\ answers[i].execution = answers[j].execution)
            => answers[i].replayed \/ answers[j].replayed

AnswerInv ==
    /\ IntervalInv
    /\ \A c \in Clients : RequestSound(c)
    /\ RepliesApart
    /\ \A r \in DOMAIN answers : AnswerSound(answers[r])
    /\ OneNew

-----------------------------------------------------------------------------
(* The checks                                                              *)

(* A call that is not refused has passed.                                  *)
LEMMA NotRefusedPassed ==
    ASSUME NEW call \in Calls, Refusal(call) = 0
    PROVE  Passed(call)
<1> DEFINE flaws == call.flaws \cup HeaderFlaws(call)
           status == workflows[call.workflow]
           unauthorized == Authorize(call.caller, call.endpoint)
           failure == FirstFailure(call.endpoint, flaws, status)
<1>1. call.endpoint \in {"create_execution", "webhook"}
  BY RoutesAssumption
<1>2. \/ failure = 0 /\ \A i \in DOMAIN Checks[call.endpoint] :
            Checks[call.endpoint][i][1] \notin flaws \cup StatusFlaws(status)
      \/ \E i \in DOMAIN Checks[call.endpoint] :
            failure = Checks[call.endpoint][i][2]
  <2> HIDE DEF flaws, status
  <2> QED
    BY <1>1, FirstFailureIs
<1>3. \A i \in DOMAIN Checks[call.endpoint] :
         Checks[call.endpoint][i][2] # 0
  BY <1>1 DEF Checks, WebhookChecks
<1>4. Refusal(call) = IF unauthorized # 0 THEN unauthorized ELSE failure
  BY DEF Refusal
<1> HIDE DEF failure, unauthorized
<1>5. unauthorized = 0 /\ failure = 0
  BY <1>4
<1> QED
  BY <1>2, <1>3, <1>5 DEF Passed, unauthorized

(* A call that has passed is signed, and its identifier has its length.    *)
LEMMA PassedFacts ==
    ASSUME NEW call \in Calls, Passed(call)
    PROVE  /\ Authorize(call.caller, call.endpoint) = 0
           /\ ~Unsigned(call)
           /\ Length(call.id) \in 8 .. 160
<1>1. call.endpoint \in {"create_execution", "webhook"}
  BY RoutesAssumption
<1>2. "header" \notin call.flaws \cup HeaderFlaws(call)
  BY <1>1 DEF Passed, Checks, WebhookChecks
<1>3. ~Unsigned(call)
  <2> SUFFICES ASSUME call.endpoint = "webhook"
               PROVE  "signature" \notin call.flaws
    BY DEF Unsigned
  <2>1. Checks[call.endpoint] = WebhookChecks
    BY DEF Checks
  <2>2. 5 \in DOMAIN WebhookChecks /\ WebhookChecks[5][1] = "signature"
    BY DEF WebhookChecks
  <2> QED
    BY <2>1, <2>2 DEF Passed
<1>4. Length(call.id) \in 8 .. 160
  BY <1>2 DEF HeaderFlaws
<1> QED
  BY <1>3, <1>4 DEF Passed

(* What a call is refused with.                                            *)
LEMMA RefusedSound ==
    ASSUME NEW call \in Calls, Refusal(call) # 0
    PROVE  /\ Authorize(call.caller, call.endpoint) # 0 =>
                 Refusal(call) \in {401, 403}
           /\ Unsigned(call) => Refusal(call) = UnsignedCode(call)
           /\ Refusal(call) = 500 => "non_ascii" \in call.flaws
<1> DEFINE flaws == call.flaws \cup HeaderFlaws(call)
           status == workflows[call.workflow]
           failure == FirstFailure("webhook", flaws, status)
<1>1. Authorize(call.caller, call.endpoint) \in {0, 401, 403}
  BY DEF Authorize
<1>2. Authorize(call.caller, call.endpoint) # 0 =>
         Refusal(call) \in {401, 403}
  BY <1>1 DEF Refusal
<1>3. Refusal(call) = 500 => "non_ascii" \in call.flaws
  BY RefusalType
<1>4. ASSUME Unsigned(call) PROVE Refusal(call) = UnsignedCode(call)
  <2>1. call.endpoint = "webhook" /\ "signature" \in flaws
    BY <1>4 DEF Unsigned
  <2>2. Authorize(call.caller, call.endpoint) = 0
    BY <2>1 DEF Authorize, AllowedRoles
  <2>3. Refusal(call) = failure
    BY <2>1, <2>2 DEF Refusal
  <2>4. UnsignedCode(call) = IF "header" \in flaws THEN 422
                             ELSE IF "unconfigured" \in flaws THEN 503
                             ELSE IF "oversized" \in flaws THEN 413
                             ELSE IF "non_ascii" \in flaws THEN 500
                             ELSE 401
    BY DEF UnsignedCode
  <2>5. Checks["webhook"] = WebhookChecks
    BY DEF Checks
  <2> HIDE DEF flaws, status
  <2>6. \/ failure = 0 /\ \A i \in DOMAIN WebhookChecks :
              WebhookChecks[i][1] \notin flaws \cup StatusFlaws(status)
        \/ \E i \in DOMAIN WebhookChecks :
              /\ WebhookChecks[i][1] \in flaws \cup StatusFlaws(status)
              /\ failure = WebhookChecks[i][2]
              /\ \A j \in DOMAIN WebhookChecks :
                    WebhookChecks[j][1] \in flaws \cup StatusFlaws(status)
                        => i <= j
    BY <2>5, FirstFailureIs
  <2>7. /\ DOMAIN WebhookChecks = 1 .. 8
        /\ WebhookChecks[1] = <<"header", 422>>
        /\ WebhookChecks[2] = <<"unconfigured", 503>>
        /\ WebhookChecks[3] = <<"oversized", 413>>
        /\ WebhookChecks[4] = <<"non_ascii", 500>>
        /\ WebhookChecks[5] = <<"signature", 401>>
    BY DEF WebhookChecks
  <2>8. StatusFlaws(status) \subseteq {"missing", "inactive"}
    BY DEF StatusFlaws
  <2> HIDE DEF failure
  <2>9. PICK i \in 1 .. 5 :
           /\ WebhookChecks[i][1] \in flaws \cup StatusFlaws(status)
           /\ failure = WebhookChecks[i][2]
           /\ \A j \in 1 .. 5 :
                 WebhookChecks[j][1] \in flaws \cup StatusFlaws(status)
                     => i <= j
    BY <2>1, <2>6, <2>7
  <2>10. CASE i = 1
    BY <2>4, <2>7, <2>8, <2>9, <2>10, <2>3
  <2>11. CASE i = 2
    BY <2>4, <2>7, <2>8, <2>9, <2>11, <2>3
  <2>12. CASE i = 3
    BY <2>4, <2>7, <2>8, <2>9, <2>12, <2>3
  <2>13. CASE i = 4
    BY <2>4, <2>7, <2>8, <2>9, <2>13, <2>3
  <2>14. CASE i = 5
    BY <2>4, <2>7, <2>8, <2>9, <2>14, <2>3
  <2> QED
    BY <2>9, <2>10, <2>11, <2>12, <2>13, <2>14
<1> QED
  BY <1>2, <1>3, <1>4

-----------------------------------------------------------------------------
(* The tables grow                                                         *)

(* Executions are added at the end and stay what they are.                 *)
Grows ==
    /\ DOMAIN admitted \subseteq DOMAIN admitted'
    /\ \A i \in DOMAIN admitted : admitted'[i] = admitted[i]

(* An execution that a lookup finds is found from then on.                 *)
LEMMA GrowsMatching ==
    ASSUME Grows, NEW w, NEW key
    PROVE  Matching(w, key) \subseteq Matching(w, key)'
  BY DEF Grows, Matching

(* Executions are numbered from 1, and those found are there.              *)
LEMMA MatchingFacts ==
    ASSUME CatalogueOK, NEW w, NEW key, NEW i \in Matching(w, key)
    PROVE  i \in Nat \ {0} /\ i \in DOMAIN admitted
  BY DEF CatalogueOK, Matching

(* Nothing is said of an answer that later steps could take back.          *)
LEMMA GrowsAnswers ==
    ASSUME Grows, NEW a, AnswerSound(a)
    PROVE  /\ a.execution # 0 =>
                 a.execution \in Matching(a.call.workflow, KeyOf(a.call))'
           /\ Authorize(a.call.caller, a.call.endpoint) # 0 =>
                 a.code \in {401, 403}
           /\ Unsigned(a.call) => a.code = UnsignedCode(a.call)
           /\ KeysFit /\ a.code = 500 => "non_ascii" \in a.call.flaws
<1>1. Matching(a.call.workflow, KeyOf(a.call)) \subseteq
         Matching(a.call.workflow, KeyOf(a.call))'
  BY GrowsMatching
<1> QED
  BY <1>1 DEF AnswerSound

(* The invariant survives a step that only adds executions.                *)
LEMMA KeepsAnswers ==
    ASSUME AnswerInv, IntervalInv', Grows, UNCHANGED admissionVars
    PROVE  AnswerInv'
<1>1. clients' = clients /\ answers' = answers
  BY DEF admissionVars
<1>2. ASSUME NEW c \in Clients PROVE RequestSound(c)'
  <2>1. RequestSound(c)
    BY DEF AnswerInv
  <2>2. CallOf(c)' = CallOf(c)
    BY <1>1 DEF CallOf
  <2>3. Found(c) \subseteq Found(c)'
    BY <2>2, GrowsMatching DEF Found
  <2> QED
    BY <1>1, <2>1, <2>2, <2>3 DEF RequestSound
<1>3. RepliesApart' /\ OneNew'
  BY <1>1 DEF AnswerInv, RepliesApart, OneNew
<1>4. ASSUME NEW r \in DOMAIN answers' PROVE AnswerSound(answers[r])'
  <2>1. AnswerSound(answers[r])
    BY <1>1 DEF AnswerInv
  <2> QED
    BY <1>1, <2>1, GrowsAnswers DEF AnswerSound
<1> QED
  BY <1>2, <1>3, <1>4 DEF AnswerInv

-----------------------------------------------------------------------------
(* The steps of a request                                                  *)

(* An answer at the end of the answers.                                    *)
LEMMA AnswerAppends ==
    ASSUME AdmissionOK, NEW c \in Clients, NEW new \in GivenAnswer,
           answers' = Append(answers, new), clients' = [clients EXCEPT ![c] = Idle]
    PROVE  /\ DOMAIN answers' = DOMAIN answers \cup {Len(answers) + 1}
           /\ Len(answers) + 1 \notin DOMAIN answers
           /\ \A r \in DOMAIN answers : answers'[r] = answers[r]
           /\ answers'[Len(answers) + 1] = new
           /\ clients'[c].pc = "idle"
           /\ \A b \in Clients \ {c} : clients'[b] = clients[b]
<1>1. answers \in Seq(GivenAnswer)
  BY DEF AdmissionOK
<1>2. /\ clients'[c].pc = "idle"
      /\ \A b \in Clients \ {c} : clients'[b] = clients[b]
  BY DEF AdmissionOK, Idle
<1>3. /\ DOMAIN answers' = DOMAIN answers \cup {Len(answers) + 1}
      /\ Len(answers) + 1 \notin DOMAIN answers
      /\ \A r \in DOMAIN answers : answers'[r] = answers[r]
      /\ answers'[Len(answers) + 1] = new
  BY <1>1
<1> QED
  BY <1>2, <1>3

(* Another client's request, behind an answer that says an execution is    *)
(* new only when that client does not hold it.                             *)
LEMMA OtherRequest ==
    ASSUME NEW b \in Clients, RequestSound(b), Grows,
           clients'[b] = clients[b],
           \A r \in DOMAIN answers' :
              (/\ clients[b].pc = "reply"
               /\ answers'[r].execution = clients[b].execution) =>
                  \/ r \in DOMAIN answers /\ answers'[r] = answers[r]
                  \/ answers'[r].replayed
    PROVE  RequestSound(b)'
<1>1. CallOf(b)' = CallOf(b)
  BY DEF CallOf
<1>2. Found(b) \subseteq Found(b)'
  BY <1>1, GrowsMatching DEF Found
<1> QED
  BY <1>1, <1>2 DEF RequestSound

(* A sound answer keeps the invariant, if it is the first to say that its  *)
(* execution is new, or does not say so.                                   *)
LEMMA AnswerKeeps ==
    ASSUME AnswerInv, IntervalInv', UNCHANGED catalogueVars,
           NEW c \in Clients, NEW call \in Calls, NEW code \in Codes,
           NEW execution \in Nat, NEW replayed \in BOOLEAN,
           Answer(c, call, code, execution, replayed),
           AnswerSound([call |-> call, code |-> code, execution |-> execution,
                        replayed |-> replayed]),
           \/ execution = 0
           \/ replayed
           \/ clients[c].pc = "reply" /\ clients[c].execution = execution
    PROVE  AnswerInv'
<1> DEFINE new == [call |-> call, code |-> code, execution |-> execution,
                   replayed |-> replayed]
           n == Len(answers) + 1
<1>1. /\ DOMAIN answers' = DOMAIN answers \cup {n}
      /\ n \notin DOMAIN answers
      /\ \A r \in DOMAIN answers : answers'[r] = answers[r]
      /\ answers'[n] = new
      /\ clients'[c].pc = "idle"
      /\ \A b \in Clients \ {c} : clients'[b] = clients[b]
  <2>1. AdmissionOK
    BY DEF AnswerInv, IntervalInv, TypeInv
  <2>2. new \in GivenAnswer
    BY Zenon DEF GivenAnswer
  <2>3. /\ answers' = Append(answers, new)
        /\ clients' = [clients EXCEPT ![c] = Idle]
    BY DEF Answer
  <2> HIDE DEF new
  <2> QED
    BY <2>1, <2>2, <2>3, AnswerAppends
<1>2. Grows
  BY DEF Grows, catalogueVars
<1>3. CatalogueOK
  BY DEF AnswerInv, IntervalInv, TypeInv
<1>4. new.execution = execution /\ new.replayed = replayed
  OBVIOUS
<1>5. AnswerSound(new)
  OBVIOUS
<1> HIDE DEF new, n
<1>6. ASSUME NEW b \in Clients PROVE RequestSound(b)'
  <2>1. CASE b = c
    BY <1>1, <2>1 DEF RequestSound
  <2>2. CASE b # c
    <3>1. RequestSound(b) /\ clients'[b] = clients[b]
      BY <1>1, <2>2 DEF AnswerInv
    <3>2. ASSUME clients[b].pc = "reply", execution = clients[b].execution
          PROVE  replayed
      <4>1. execution # 0
        BY <1>3, <3>1, <3>2, MatchingFacts DEF RequestSound, Found
      <4>2. ~(clients[c].pc = "reply" /\ clients[c].execution = execution)
        BY <2>2, <3>2 DEF AnswerInv, RepliesApart
      <4> QED
        BY <4>1, <4>2
    <3>3. \A r \in DOMAIN answers' :
             (/\ clients[b].pc = "reply"
              /\ answers'[r].execution = clients[b].execution) =>
                 \/ r \in DOMAIN answers /\ answers'[r] = answers[r]
                 \/ answers'[r].replayed
      BY <1>1, <1>4, <3>2
    <3> QED
      BY <1>2, <3>1, <3>3, OtherRequest
  <2> QED
    BY <2>1, <2>2
<1>7. RepliesApart'
  BY <1>1 DEF AnswerInv, RepliesApart
<1>8. ASSUME NEW r \in DOMAIN answers' PROVE AnswerSound(answers[r])'
  <2>1. AnswerSound(answers'[r])
    BY <1>1, <1>5 DEF AnswerInv
  <2> QED
    BY <1>2, <2>1, GrowsAnswers DEF AnswerSound
<1>9. ASSUME execution # 0, ~replayed, NEW r \in DOMAIN answers,
             answers[r].execution = execution
      PROVE  answers[r].replayed
  BY <1>9 DEF AnswerInv, RequestSound
<1>10. OneNew'
  <2> SUFFICES ASSUME NEW i \in DOMAIN answers', NEW j \in DOMAIN answers',
                      i # j, answers'[i].execution # 0,
                      answers'[i].execution = answers'[j].execution
               PROVE  answers'[i].replayed \/ answers'[j].replayed
    BY DEF OneNew
  <2>1. CASE i # n /\ j # n
    BY <1>1, <2>1 DEF AnswerInv, OneNew
  <2>2. CASE i = n
    BY <1>1, <1>4, <1>9, <2>2
  <2>3. CASE j = n
    BY <1>1, <1>4, <1>9, <2>3
  <2> QED
    BY <2>1, <2>2, <2>3
<1> QED
  BY <1>6, <1>7, <1>8, <1>10 DEF AnswerInv

(* A request that goes on without holding an execution keeps it too.       *)
LEMMA GoToKeeps ==
    ASSUME AnswerInv, IntervalInv', UNCHANGED <<catalogueVars, answers>>,
           NEW c \in Clients, NEW call \in Calls,
           NEW pc \in {"lookup", "insert", "replay"}, GoTo(c, pc, call, 0),
           Passed(call),
           pc = "replay" => Matching(call.workflow, KeyOf(call)) # {}
    PROVE  AnswerInv'
<1>1. /\ clients'[c] = [pc |-> pc, call |-> call, execution |-> 0]
      /\ \A b \in Clients \ {c} : clients'[b] = clients[b]
  BY DEF GoTo, AnswerInv, IntervalInv, TypeInv, AdmissionOK
<1>2. Grows /\ answers' = answers
  BY DEF Grows, catalogueVars
<1>3. ASSUME NEW b \in Clients PROVE RequestSound(b)'
  <2>1. CASE b = c
    <3>1. CallOf(c)' = call /\ clients'[c].pc = pc
      BY <1>1 DEF CallOf
    <3>2. Found(c)' = Matching(call.workflow, KeyOf(call))'
      BY <3>1 DEF Found
    <3>3. Matching(call.workflow, KeyOf(call)) \subseteq Found(c)'
      BY <1>2, <3>2, GrowsMatching
    <3> QED
      BY <2>1, <3>1, <3>3 DEF RequestSound
  <2>2. CASE b # c
    BY <1>1, <1>2, <2>2, OtherRequest DEF AnswerInv
  <2> QED
    BY <2>1, <2>2
<1>4. RepliesApart'
  BY <1>1 DEF AnswerInv, RepliesApart
<1>5. ASSUME NEW r \in DOMAIN answers' PROVE AnswerSound(answers[r])'
  <2>1. AnswerSound(answers'[r])
    BY <1>2 DEF AnswerInv
  <2> QED
    BY <1>2, <2>1, GrowsAnswers DEF AnswerSound
<1>6. OneNew'
  BY <1>2 DEF AnswerInv, OneNew
<1> QED
  BY <1>3, <1>4, <1>5, <1>6 DEF AnswerInv

(* The insert gives the request an execution that nobody has heard of.     *)
LEMMA InsertKeeps ==
    ASSUME AnswerInv, IntervalInv', NEW c \in Clients, Insert(c)
    PROVE  AnswerInv'
<1> DEFINE w == CallOf(c).workflow
           key == KeyOf(CallOf(c))
           trigger == TriggerOf(CallOf(c))
           n == Len(admitted) + 1
<1>1. CatalogueOK /\ AdmissionOK /\ clients[c].pc = "insert"
  BY DEF AnswerInv, IntervalInv, TypeInv, Insert, At
<1>2. /\ w \in Workflows /\ key \in IdempotencyKeys
      /\ trigger \in TriggerType /\ AddExecution(w, key, trigger)
  <2>1. trigger \in TriggerType
    BY DEF TriggerOf, TriggerType
  <2> QED
    BY <1>1, <2>1, ClientFacts DEF Insert
<1>3. /\ DOMAIN admitted' = DOMAIN admitted \cup {n}
      /\ n \notin DOMAIN admitted
      /\ \A i \in DOMAIN admitted : admitted'[i] = admitted[i]
      /\ admitted'[n] = [workflow |-> w, key |-> key, trigger |-> trigger]
  <2> HIDE DEF w, key, trigger
  <2> QED
    BY <1>1, <1>2, AddExecutionType
<1>4. Grows /\ answers' = answers
  BY <1>3 DEF Grows, Insert
<1>5. n # 0
  BY <1>1 DEF CatalogueOK
<1>6. /\ clients'[c].pc = "reply" /\ clients'[c].execution = n
      /\ clients'[c].call = CallOf(c)
      /\ \A b \in Clients \ {c} : clients'[b] = clients[b]
  BY <1>1 DEF Insert, GoTo, AdmissionOK
<1>7. CallOf(c)' = CallOf(c)
  BY <1>6 DEF CallOf
<1>8. n \in Found(c)'
  <2>1. Found(c)' = Matching(w, key)'
    BY <1>7 DEF Found
  <2>2. n \in Matching(w, key)'
    BY <1>3, <1>7 DEF Matching
  <2> QED
    BY <2>1, <2>2
<1> HIDE DEF n, w, key, trigger
<1>9. \A r \in DOMAIN answers : answers[r].execution # n
  <2> SUFFICES ASSUME NEW r \in DOMAIN answers, answers[r].execution = n
               PROVE  FALSE
    OBVIOUS
  <2>1. n \in Matching(answers[r].call.workflow, KeyOf(answers[r].call))
    BY <1>5 DEF AnswerInv, AnswerSound
  <2> QED
    BY <1>1, <1>3, <2>1, MatchingFacts
<1>10. ASSUME NEW b \in Clients, clients[b].pc = "reply"
       PROVE  clients[b].execution # n
  <2>1. clients[b].execution \in Found(b)
    BY <1>10 DEF AnswerInv, RequestSound
  <2> QED
    BY <1>1, <1>3, <2>1, MatchingFacts DEF Found
<1>11. ASSUME NEW b \in Clients PROVE RequestSound(b)'
  <2>1. CASE b = c
    <3>1. Passed(CallOf(c))
      BY <1>1 DEF AnswerInv, RequestSound
    <3> QED
      BY <1>4, <1>6, <1>7, <1>8, <1>9, <2>1, <3>1 DEF RequestSound
  <2>2. CASE b # c
    BY <1>4, <1>6, <2>2, OtherRequest DEF AnswerInv
  <2> QED
    BY <2>1, <2>2
<1>12. RepliesApart'
  BY <1>6, <1>10 DEF AnswerInv, RepliesApart
<1>13. ASSUME NEW r \in DOMAIN answers' PROVE AnswerSound(answers[r])'
  <2>1. AnswerSound(answers'[r])
    BY <1>4 DEF AnswerInv
  <2> QED
    BY <1>4, <2>1, GrowsAnswers DEF AnswerSound
<1>14. OneNew'
  BY <1>4 DEF AnswerInv, OneNew
<1> QED
  BY <1>11, <1>12, <1>13, <1>14 DEF AnswerInv

(* What a served request is answered is sound.                             *)
LEMMA ServedSound ==
    ASSUME AnswerInv, NEW c \in Clients, clients[c].pc # "idle",
           NEW execution, NEW replayed,
           execution = 0 \/ execution \in Found(c),
           NEW code, code = 500 => ~KeysFit
    PROVE  AnswerSound([call |-> CallOf(c), code |-> code,
                        execution |-> execution, replayed |-> replayed])
<1> DEFINE new == [call |-> CallOf(c), code |-> code,
                   execution |-> execution, replayed |-> replayed]
<1>1. Passed(CallOf(c)) /\ CallOf(c) \in Calls
  BY ClientFacts DEF AnswerInv, IntervalInv, TypeInv, RequestSound
<1>2. /\ Authorize(CallOf(c).caller, CallOf(c).endpoint) = 0
      /\ ~Unsigned(CallOf(c))
  BY <1>1, PassedFacts
<1>3. /\ new.call = CallOf(c) /\ new.code = code
      /\ new.execution = execution
  OBVIOUS
<1> HIDE DEF new
<1>4. AnswerSound(new)
  BY <1>2, <1>3 DEF AnswerSound, Found
<1> QED
  BY <1>4 DEF new

(* An execution that a lookup has found is answered as a replay.           *)
LEMMA FoundKeeps ==
    ASSUME AnswerInv, IntervalInv', UNCHANGED catalogueVars,
           NEW c \in Clients, clients[c].pc # "idle", ReturnFound(c)
    PROVE  AnswerInv'
<1>1. PICK i \in Found(c) : Answer(c, CallOf(c), 202, i, TRUE)
  BY DEF ReturnFound
<1>2. i \in Nat /\ CallOf(c) \in Calls /\ 202 \in Codes
  BY ClientFacts, MatchingFacts
  DEF AnswerInv, IntervalInv, TypeInv, Found, Codes
<1>3. \A code : code = 202 =>
         AnswerSound([call |-> CallOf(c), code |-> code, execution |-> i,
                      replayed |-> TRUE])
  BY ServedSound
<1>4. AnswerSound([call |-> CallOf(c), code |-> 202, execution |-> i,
                   replayed |-> TRUE])
  BY <1>3
<1> QED
  BY <1>1, <1>2, <1>4, AnswerKeeps

(* A request that arrives is refused, or has passed.                       *)
LEMMA ArriveKeeps ==
    ASSUME AnswerInv, IntervalInv', NEW c \in Clients, NEW call \in Calls,
           Arrive(c, call)
    PROVE  AnswerInv'
<1>1. UNCHANGED catalogueVars
  BY DEF Arrive
<1>2. CASE Refusal(call) = 0
  BY <1>1, <1>2, NotRefusedPassed, GoToKeeps DEF Arrive
<1>3. CASE Refusal(call) # 0
  <2>1. PICK code : code = Refusal(call)
    OBVIOUS
  <2>2. Answer(c, call, code, 0, FALSE) /\ code \in Codes
    BY <1>3, <2>1, RefusalType DEF Arrive
  <2>3. /\ Authorize(call.caller, call.endpoint) # 0 => code \in {401, 403}
        /\ Unsigned(call) => code = UnsignedCode(call)
        /\ code = 500 => "non_ascii" \in call.flaws
    BY <1>3, <2>1, RefusedSound
  <2>4. AnswerSound([call |-> call, code |-> code, execution |-> 0,
                     replayed |-> FALSE])
    BY <2>3 DEF AnswerSound
  <2> QED
    BY <1>1, <2>2, <2>4, AnswerKeeps
<1> QED
  BY <1>2, <1>3

(* Every step of a request keeps the invariant.                            *)
LEMMA ServeKeeps ==
    ASSUME AnswerInv, IntervalInv', NEW c \in Clients,
           ServeStep(c) \/ Vanish(c)
    PROVE  AnswerInv'
<1>1. /\ 202 \in Codes /\ 500 \in Codes
      /\ CatalogueOK /\ AdmissionOK /\ RequestSound(c)
  BY DEF Codes, AnswerInv, IntervalInv, TypeInv
<1>2. CASE Lookup(c)
  <2>1. clients[c].pc # "idle" /\ UNCHANGED catalogueVars
    BY <1>2 DEF Lookup, At
  <2>2. CASE Found(c) = {}
    <3>1. GoTo(c, "insert", CallOf(c), 0) /\ UNCHANGED answers
      BY <1>2, <2>2 DEF Lookup
    <3>2. Passed(CallOf(c)) /\ CallOf(c) \in Calls
      BY <1>1, <2>1, ClientFacts DEF RequestSound
    <3> QED
      BY <2>1, <3>1, <3>2, GoToKeeps
  <2>3. CASE Found(c) # {}
    BY <1>2, <2>1, <2>3, FoundKeeps DEF Lookup
  <2> QED
    BY <2>2, <2>3
<1>3. CASE Insert(c)
  BY <1>3, InsertKeeps
<1>4. CASE InsertConflict(c)
  <2>1. /\ clients[c].pc # "idle" /\ UNCHANGED <<catalogueVars, answers>>
        /\ GoTo(c, "replay", CallOf(c), 0)
        /\ Matching(CallOf(c).workflow, KeyOf(CallOf(c))) # {}
    BY <1>4 DEF InsertConflict, At, Duplicate
  <2>2. Passed(CallOf(c)) /\ CallOf(c) \in Calls
    BY <1>1, <2>1, ClientFacts DEF RequestSound
  <2> QED
    BY <2>1, <2>2, GoToKeeps
<1>5. CASE InsertTooLong(c)
  <2>1. /\ clients[c].pc # "idle" /\ UNCHANGED catalogueVars
        /\ Answer(c, CallOf(c), 500, 0, FALSE)
    BY <1>5 DEF InsertTooLong, At
  <2>2. Passed(CallOf(c)) /\ CallOf(c) \in Calls
    BY <1>1, <2>1, ClientFacts DEF RequestSound
  <2>3. ~KeysFit
    BY <1>5, <2>2, PassedFacts DEF KeysFit, InsertTooLong, TooLong
  <2>4. AnswerSound([call |-> CallOf(c), code |-> 500, execution |-> 0,
                     replayed |-> FALSE])
    BY <2>1, <2>3, ServedSound
  <2> QED
    BY <1>1, <2>1, <2>2, <2>4, AnswerKeeps
<1>6. CASE Replay(c)
  BY <1>1, <1>6, FoundKeeps DEF Replay, At, RequestSound
<1>7. CASE Reply(c)
  <2>1. /\ clients[c].pc = "reply" /\ UNCHANGED catalogueVars
        /\ Answer(c, CallOf(c), 202, clients[c].execution, FALSE)
    BY <1>7 DEF Reply, At
  <2>2. clients[c].execution \in Found(c) /\ CallOf(c) \in Calls
    BY <1>1, <2>1, ClientFacts DEF RequestSound
  <2>3. PICK i : i = clients[c].execution
    OBVIOUS
  <2>4. i \in Found(c) /\ i \in Nat
    BY <1>1, <2>2, <2>3, MatchingFacts DEF Found
  <2>5. \A code : code = 202 =>
           AnswerSound([call |-> CallOf(c), code |-> code, execution |-> i,
                        replayed |-> FALSE])
    BY <2>1, <2>4, ServedSound
  <2>6. AnswerSound([call |-> CallOf(c), code |-> 202, execution |-> i,
                     replayed |-> FALSE])
    BY <2>5
  <2> QED
    BY <1>1, <2>1, <2>2, <2>3, <2>4, <2>6, AnswerKeeps
<1>8. CASE Vanish(c)
  <2>1. /\ clients'[c].pc = "idle" /\ UNCHANGED <<answers, catalogueVars>>
        /\ \A b \in Clients \ {c} : clients'[b] = clients[b]
    BY <1>1, <1>8 DEF Vanish, AdmissionOK, Idle
  <2>2. Grows
    BY <2>1 DEF Grows, catalogueVars
  <2>3. ASSUME NEW b \in Clients PROVE RequestSound(b)'
    <3>1. CASE b = c
      BY <2>1, <3>1 DEF RequestSound
    <3>2. CASE b # c
      BY <2>1, <2>2, <3>2, OtherRequest DEF AnswerInv
    <3> QED
      BY <3>1, <3>2
  <2>4. RepliesApart' /\ OneNew'
    BY <2>1 DEF AnswerInv, RepliesApart, OneNew
  <2>5. ASSUME NEW r \in DOMAIN answers' PROVE AnswerSound(answers[r])'
    <3>1. AnswerSound(answers'[r])
      BY <2>1 DEF AnswerInv
    <3> QED
      BY <2>2, <3>1, GrowsAnswers DEF AnswerSound
  <2> QED
    BY <2>3, <2>4, <2>5 DEF AnswerInv
<1> QED
  BY <1>2, <1>3, <1>4, <1>5, <1>6, <1>7, <1>8 DEF ServeStep

(* The invariant of the requests is inductive.                             *)
LEMMA NextAnswerInv == AnswerInv /\ [Next]_vars => AnswerInv'
<1> SUFFICES ASSUME AnswerInv, [Next]_vars PROVE AnswerInv'
  OBVIOUS
<1>1. TypeInv /\ IntervalInv'
  BY NextIntervalInv DEF AnswerInv, IntervalInv
<1>2. CASE RequestArrives
  BY <1>1, <1>2, ArriveKeeps DEF RequestArrives
<1>3. CASE \E c \in Clients : RequestServed(c) \/ RequestLost(c)
  BY <1>1, <1>3, ServeKeeps DEF RequestServed, RequestLost
<1>4. ASSUME UNCHANGED admitted PROVE Grows
  BY <1>4 DEF Grows
<1>5. CASE WorkflowCreated
  BY <1>1, <1>4, <1>5, KeepsAnswers DEF WorkflowCreated, CreateWorkflow
<1>6. CASE ScheduleCreated
  BY <1>1, <1>4, <1>6, KeepsAnswers
  DEF ScheduleCreated, CreateSchedule, catalogueVars
<1>7. CASE \E s \in Schedulers : SchedulerRuns(s) \/ SchedulerFault(s)
  <2>1. PICK s \in Schedulers : SchedulerRuns(s) \/ SchedulerFault(s)
    BY <1>7
  <2>2. UNCHANGED admissionVars
    BY <2>1 DEF SchedulerRuns, SchedulerFault
  <2>3. UNCHANGED admitted \/ Prepare(s)
    BY <2>1 DEF SchedulerRuns, SchedulerFault, SchedulerCrash, CycleStep,
                DueSelect, PrepareMiss, PrepareConflict, PublishSelect,
                Publish, PublishFails, catalogueVars
  <2>4. Prepare(s) => Grows
    <3> SUFFICES ASSUME Prepare(s) PROVE Grows
      OBVIOUS
    <3>1. PICK w \in Workflows, key \in IdempotencyKeys :
             AddExecution(w, key, "schedule")
      BY <1>1, PrepareFacts
    <3>2. "schedule" \in TriggerType /\ CatalogueOK
      BY <1>1 DEF TriggerType, TypeInv
    <3> QED
      BY <3>1, <3>2, AddExecutionType DEF Grows
  <2> QED
    BY <1>1, <1>4, <2>2, <2>3, <2>4, KeepsAnswers
<1>8. CASE TimePasses
  BY <1>1, <1>4, <1>8, KeepsAnswers DEF TimePasses, Tick, catalogueVars
<1>9. CASE UNCHANGED vars
  BY <1>1, <1>4, <1>9, KeepsAnswers DEF vars, catalogueVars
<1> QED
  BY <1>2, <1>3, <1>5, <1>6, <1>7, <1>8, <1>9 DEF Next

(* It holds always.                                                        *)
LEMMA SpecAnswerInv == Spec => []AnswerInv
<1>1. Init => AnswerInv
  <2> SUFFICES ASSUME Init PROVE AnswerInv
    OBVIOUS
  <2>1. IntervalInv
    BY InitIntervalInv
  <2>2. DOMAIN answers = {} /\ \A c \in Clients : clients[c].pc = "idle"
    BY DEF Init, AdmissionInit, Idle
  <2> QED
    BY <2>1, <2>2 DEF AnswerInv, RequestSound, RepliesApart, OneNew
<1> QED
  BY <1>1, NextAnswerInv, PTL DEF Spec

-----------------------------------------------------------------------------
(* What the invariant says                                                 *)

(* request_execution gives one execution for each workflow and key, for    *)
(* any number of requests that race between its lookup, its insert and the *)
(* lookup behind a conflict, or are lost in between; one answer at most    *)
(* calls it new.                                                           *)
THEOREM OneAnswerPerKey == Spec => []AnswersAgree
<1>1. AnswerInv => AnswersAgree
  <2> SUFFICES ASSUME AnswerInv, NEW i \in DOMAIN answers,
                      NEW j \in DOMAIN answers, answers[i].execution # 0,
                      answers[j].execution # 0
               PROVE  LET a == answers[i]
                          b == answers[j]
                          same == a.call.workflow = b.call.workflow
                                      /\ KeyOf(a.call) = KeyOf(b.call)
                      IN  /\ same <=> a.execution = b.execution
                          /\ same /\ i # j => a.replayed \/ b.replayed
    BY DEF AnswersAgree
  <2>1. PICK x \in DOMAIN admitted :
           /\ x = answers[i].execution
           /\ admitted[x].workflow = answers[i].call.workflow
           /\ admitted[x].key = KeyOf(answers[i].call)
    BY DEF AnswerInv, AnswerSound, Matching
  <2>2. PICK y \in DOMAIN admitted :
           /\ y = answers[j].execution
           /\ admitted[y].workflow = answers[j].call.workflow
           /\ admitted[y].key = KeyOf(answers[j].call)
    BY DEF AnswerInv, AnswerSound, Matching
  <2>3. /\ admitted[x].workflow = admitted[y].workflow
        /\ admitted[x].key = admitted[y].key
        => x = y
    BY DEF AnswerInv, IntervalInv, Distinct
  <2>4. i # j /\ x = y => answers[i].replayed \/ answers[j].replayed
    BY <2>1, <2>2 DEF AnswerInv, OneNew
  <2> QED
    BY <2>1, <2>2, <2>3, <2>4
<1> QED
  BY <1>1, SpecAnswerInv, PTL

(* trigger_webhook tells a caller without the right signature nothing that *)
(* depends on the workflow or on the body.                                 *)
THEOREM NothingBeforeSignature == Spec => []SignatureFirst
<1>1. AnswerInv => SignatureFirst
  <2> SUFFICES ASSUME AnswerInv, NEW i \in DOMAIN answers,
                      NEW j \in DOMAIN answers,
                      answers[i].call.endpoint = "webhook",
                      answers[j].call.endpoint = "webhook",
                      "signature" \in answers[i].call.flaws
                                          \cap answers[j].call.flaws,
                      answers[i].call.flaws \ {"json"} =
                          answers[j].call.flaws \ {"json"},
                      answers[i].call.id = answers[j].call.id
               PROVE  answers[i].code = answers[j].code
    BY DEF SignatureFirst
  <2> DEFINE a == answers[i].call
             b == answers[j].call
  <2>1. /\ answers[i].code = UnsignedCode(a)
        /\ answers[j].code = UnsignedCode(b)
    BY DEF AnswerInv, AnswerSound, Unsigned
  <2>2. HeaderFlaws(a) = HeaderFlaws(b)
    BY DEF HeaderFlaws
  <2>3. \A f \in {"header", "unconfigured", "oversized", "non_ascii"} :
           f \in a.flaws <=> f \in b.flaws
    OBVIOUS
  <2> HIDE DEF a, b
  <2>4. UnsignedCode(a) = UnsignedCode(b)
    BY <2>2, <2>3 DEF UnsignedCode
  <2> QED
    BY <2>1, <2>4
<1> QED
  BY <1>1, SpecAnswerInv, PTL

(* With authentication on, create_execution serves nobody without a valid  *)
(* token that carries the role, whatever the headers claim.                *)
THEOREM TokenDecides == Spec => []RolesFromToken
<1>1. AnswerInv => RolesFromToken
  <2> SUFFICES ASSUME AnswerInv, NEW i \in DOMAIN answers, AuthEnabled,
                      answers[i].call.endpoint = "create_execution",
                      answers[i].code \notin {401, 403}
               PROVE  LET caller == answers[i].call.caller
                          claimed == caller.realm_roles \cup
                                         caller.direct_roles
                      IN  /\ caller.token = "valid"
                          /\ \E s \in UNION claimed :
                                s.role \in {"admin", "operator"}
    BY DEF RolesFromToken
  <2> DEFINE caller == answers[i].call.caller
  <2>1. Authorize(caller, "create_execution") = 0
    BY DEF AnswerInv, AnswerSound
  <2> HIDE DEF caller
  <2>2. /\ Authenticated(caller)
        /\ RolesOf(caller) \cap {"admin", "operator"} # {}
    BY <2>1 DEF Authorize, AllowedRoles
  <2>3. caller.token = "valid"
    BY <2>2 DEF Authenticated
  <2>4. \E s \in UNION (caller.realm_roles \cup caller.direct_roles) :
           s.role \in {"admin", "operator"}
    BY <2>2 DEF RolesOf, ExtractRoles, Lower
  <2> QED
    BY <2>3, <2>4 DEF caller
<1> QED
  BY <1>1, SpecAnswerInv, PTL

(* No request is answered 500 but for a signature that is not ASCII, if    *)
(* keys fit their column: request_execution, behind a conflict on insert,  *)
(* always finds the execution it lost to.                                  *)
THEOREM NoRequestFails ==
    ASSUME KeysFit
    PROVE  Spec => []NoServerError
<1>1. AnswerInv => NoServerError
  BY DEF AnswerInv, AnswerSound, NoServerError
<1> QED
  BY <1>1, SpecAnswerInv, PTL

-----------------------------------------------------------------------------
(* Idempotent admission                                                    *)

(* The mapped variables of IdempotentAdmission.                            *)
Accepted == [i \in DOMAIN admitted |->
                <<admitted[i].workflow, admitted[i].key>>]

Replies == [i \in DOMAIN answers |->
               [key |-> <<answers[i].call.workflow, KeyOf(answers[i].call)>>,
                execution |-> answers[i].execution,
                replayed |-> answers[i].replayed]]

Published == DOMAIN admitted \ outbox

Keys == Workflows \X IdempotencyKeys

GivenReply == [key: Keys, execution: Nat, replayed: BOOLEAN]

(* A sequence that is another with one element more.                       *)
LEMMA LongerByOne ==
    ASSUME NEW S, NEW old \in Seq(S), NEW new \in Seq(S),
           Len(new) = Len(old) + 1,
           \A i \in 1 .. Len(old) : new[i] = old[i]
    PROVE  new = Append(old, new[Len(old) + 1])
<1>1. Len(old) \in Nat
  BY LenProperties
<1>2. new[Len(old) + 1] \in S
  BY <1>1, ElementOfSeq
<1>3. PICK last \in S : last = new[Len(old) + 1]
  BY <1>2
<1>4. /\ Append(old, last) \in Seq(S)
      /\ Len(Append(old, last)) = Len(old) + 1
      /\ \A i \in 1 .. Len(old) : Append(old, last)[i] = old[i]
      /\ Append(old, last)[Len(old) + 1] = last
  BY AppendProperties
<1>5. \A i \in 1 .. Len(new) : new[i] = Append(old, last)[i]
  BY <1>1, <1>3, <1>4
<1>6. new = Append(old, last)
  BY <1>4, <1>5, SeqEqual
<1> QED
  BY <1>3, <1>6

(* Intervals from 1 that are equal end at the same number.                 *)
LEMMA SameEnd ==
    ASSUME NEW m \in Nat, NEW n \in Nat, 1 .. m = 1 .. n
    PROVE  m = n
<1>1. m <= n
  <2>1. CASE m = 0
    BY <2>1
  <2>2. CASE m # 0
    <3>1. m \in 1 .. m
      BY <2>2
    <3> QED
      BY <3>1
  <2> QED
    BY <2>1, <2>2
<1>2. n <= m
  <2>1. CASE n = 0
    BY <2>1
  <2>2. CASE n # 0
    <3>1. n \in 1 .. n
      BY <2>2
    <3> QED
      BY <3>1
  <2> QED
    BY <2>1, <2>2
<1> QED
  BY <1>1, <1>2

(* The keys of the executions are a sequence.                              *)
LEMMA AcceptedType ==
    CatalogueOK => /\ Accepted \in Seq(Keys)
                   /\ Len(Accepted) = Len(admitted)
                   /\ DOMAIN Accepted = DOMAIN admitted
<1> SUFFICES ASSUME CatalogueOK
             PROVE  /\ Accepted \in Seq(Keys)
                    /\ Len(Accepted) = Len(admitted)
                    /\ DOMAIN Accepted = DOMAIN admitted
  OBVIOUS
<1>1. DOMAIN admitted = 1 .. Len(admitted) /\ Len(admitted) \in Nat
  BY DEF CatalogueOK
<1>2. ASSUME NEW i \in DOMAIN admitted
      PROVE  <<admitted[i].workflow, admitted[i].key>> \in Keys
  <2>1. admitted[i] \in Admitted
    BY <1>1, ElementOfSeq DEF CatalogueOK
  <2> QED
    BY <2>1 DEF Admitted, Keys
<1>3. Accepted \in [1 .. Len(admitted) -> Keys]
  BY <1>1, <1>2 DEF Accepted
<1>4. Accepted \in Seq(Keys)
  BY <1>1, <1>3, SeqDef
<1>5. DOMAIN Accepted = 1 .. Len(Accepted) /\ Len(Accepted) \in Nat
  BY <1>4, LenProperties
<1>6. DOMAIN Accepted = 1 .. Len(admitted)
  BY <1>3
<1> QED
  BY <1>1, <1>4, <1>5, <1>6, SameEnd

(* So are the answers.                                                     *)
LEMMA RepliesType ==
    AdmissionOK => /\ Replies \in Seq(GivenReply)
                   /\ Len(Replies) = Len(answers)
                   /\ DOMAIN Replies = DOMAIN answers
<1> SUFFICES ASSUME AdmissionOK
             PROVE  /\ Replies \in Seq(GivenReply)
                    /\ Len(Replies) = Len(answers)
                    /\ DOMAIN Replies = DOMAIN answers
  OBVIOUS
<1>1. DOMAIN answers = 1 .. Len(answers) /\ Len(answers) \in Nat
  BY DEF AdmissionOK
<1>2. ASSUME NEW i \in DOMAIN answers PROVE Replies[i] \in GivenReply
  <2>1. answers[i] \in GivenAnswer
    BY <1>1, ElementOfSeq DEF AdmissionOK
  <2>2. /\ answers[i].call \in Calls /\ answers[i].execution \in Nat
        /\ answers[i].replayed \in BOOLEAN
    BY <2>1 DEF GivenAnswer
  <2>3. /\ answers[i].call.workflow \in Workflows
        /\ KeyOf(answers[i].call) \in IdempotencyKeys
    BY <2>2, RoutesAssumption DEF IdempotencyKeys
  <2>4. <<answers[i].call.workflow, KeyOf(answers[i].call)>> \in Keys
    BY <2>3 DEF Keys
  <2>5. Replies[i] =
           [key |-> <<answers[i].call.workflow, KeyOf(answers[i].call)>>,
            execution |-> answers[i].execution,
            replayed |-> answers[i].replayed]
    BY DEF Replies
  <2>6. \A key \in Keys, execution \in Nat, replayed \in BOOLEAN :
           [key |-> key, execution |-> execution, replayed |-> replayed]
               \in GivenReply
    BY Zenon DEF GivenReply
  <2> QED
    BY <2>2, <2>4, <2>5, <2>6, Zenon
<1>3. DOMAIN Replies = DOMAIN answers
  BY DEF Replies
<1>4. Replies = [i \in 1 .. Len(answers) |-> Replies[i]]
  BY <1>1 DEF Replies
<1>5. Replies \in [1 .. Len(answers) -> GivenReply]
  BY <1>1, <1>2, <1>4
<1>6. Replies \in Seq(GivenReply)
  BY <1>1, <1>5, SeqDef
<1>7. DOMAIN Replies = 1 .. Len(Replies) /\ Len(Replies) \in Nat
  BY <1>6, LenProperties
<1> QED
  BY <1>1, <1>3, <1>6, <1>7, SameEnd

(* What every step of the triggers is, for IdempotentAdmission.            *)
Admits == \/ Idempotency!Next
          \/ UNCHANGED <<Accepted, Replies, Published>>

(* A row that the constraint lets in accepts its key.                      *)
LEMMA AddAccepts ==
    ASSUME CatalogueOK, CatalogueOK', UNCHANGED answers,
           NEW w \in Workflows, NEW key \in IdempotencyKeys,
           NEW trigger \in TriggerType,
           ~Duplicate(w, key), AddExecution(w, key, trigger)
    PROVE  Admits
<1> DEFINE n == Len(admitted) + 1
<1>1. /\ Len(admitted') = n
      /\ admitted'[n] = [workflow |-> w, key |-> key, trigger |-> trigger]
      /\ \A i \in DOMAIN admitted : admitted'[i] = admitted[i]
      /\ DOMAIN admitted' = DOMAIN admitted \cup {n}
      /\ n \notin DOMAIN admitted
  BY AddExecutionType
<1>2. DOMAIN admitted = 1 .. Len(admitted)
  BY DEF CatalogueOK
<1>3. /\ Accepted \in Seq(Keys) /\ Len(Accepted) = Len(admitted)
      /\ DOMAIN Accepted = DOMAIN admitted
  BY AcceptedType
<1>4. Accepted' \in Seq(Keys) /\ Len(Accepted') = Len(admitted')
  <2>1. (CatalogueOK => /\ Accepted \in Seq(Keys)
                        /\ Len(Accepted) = Len(admitted)
                        /\ DOMAIN Accepted = DOMAIN admitted)'
    BY AcceptedType, PTL
  <2> QED
    BY <2>1
<1>5. /\ \A i \in DOMAIN admitted :
            Accepted[i] = <<admitted[i].workflow, admitted[i].key>>
      /\ \A i \in DOMAIN admitted' :
            Accepted'[i] = <<admitted'[i].workflow, admitted'[i].key>>
  BY DEF Accepted
<1>6. \A i \in 1 .. Len(Accepted) : Accepted'[i] = Accepted[i]
  BY <1>2, <1>1, <1>3, <1>5
<1>7. Accepted'[n] = <<w, key>>
  BY <1>1, <1>5
<1>8. /\ Len(Accepted') = Len(Accepted) + 1
      /\ Accepted' = Append(Accepted, Accepted'[Len(Accepted) + 1])
  BY <1>1, <1>3, <1>4, <1>6, LongerByOne
<1>9. \A i \in DOMAIN Accepted : Accepted[i] # <<w, key>>
  BY <1>3, <1>5 DEF Duplicate, Matching
<1>10. \A i \in DOMAIN Accepted : Accepted[i] # Accepted'[Len(Accepted) + 1]
  BY <1>3, <1>7, <1>9
<1>11. Replies' = Replies
  BY DEF Replies
<1>12. Published' = Published
  BY <1>1 DEF Published, AddExecution
<1>13. Idempotency!Accept
  BY <1>8, <1>10, <1>11, <1>12
  DEF Idempotency!Accept, Accepted, Replies, Published
<1> QED
  BY <1>13 DEF Admits, Idempotency!Next

(* An answer, as a reply.                                                  *)
LEMMA AnswerReplies ==
    ASSUME AnswerInv, AdmissionOK', UNCHANGED catalogueVars,
           NEW c \in Clients, NEW call \in Calls, NEW code \in Codes,
           NEW execution \in Nat, NEW replayed \in BOOLEAN,
           Answer(c, call, code, execution, replayed),
           \/ execution = 0 /\ ~replayed
           \/ /\ execution \in Matching(call.workflow, KeyOf(call))
              /\ \/ replayed
                 \/ clients[c].pc = "reply" /\ clients[c].execution = execution
    PROVE  Admits
<1> DEFINE n == Len(answers) + 1
           reply == [key |-> <<call.workflow, KeyOf(call)>>,
                     execution |-> execution, replayed |-> replayed]
<1>1. CatalogueOK /\ AdmissionOK
  BY DEF AnswerInv, IntervalInv, TypeInv
<1>2. /\ DOMAIN answers' = DOMAIN answers \cup {n}
      /\ \A r \in DOMAIN answers : answers'[r] = answers[r]
      /\ answers'[n] = [call |-> call, code |-> code, execution |-> execution,
                        replayed |-> replayed]
  <2> DEFINE new == [call |-> call, code |-> code, execution |-> execution,
                     replayed |-> replayed]
  <2>1. new \in GivenAnswer
    BY Zenon DEF GivenAnswer
  <2>2. /\ answers' = Append(answers, new)
        /\ clients' = [clients EXCEPT ![c] = Idle]
    BY DEF Answer
  <2> HIDE DEF new
  <2>3. /\ DOMAIN answers' = DOMAIN answers \cup {n}
        /\ \A r \in DOMAIN answers : answers'[r] = answers[r]
        /\ answers'[n] = new
    BY <1>1, <2>1, <2>2, AnswerAppends
  <2> QED
    BY <2>3 DEF new
<1>3. DOMAIN answers = 1 .. Len(answers)
  BY <1>1 DEF AdmissionOK
<1>4. Len(answers') = n
  BY <1>1 DEF Answer, AdmissionOK
<1>5. /\ Replies \in Seq(GivenReply) /\ Len(Replies) = Len(answers)
      /\ DOMAIN Replies = DOMAIN answers
  BY <1>1, RepliesType
<1>6. Replies' \in Seq(GivenReply) /\ Len(Replies') = Len(answers')
  <2>1. (AdmissionOK => /\ Replies \in Seq(GivenReply)
                        /\ Len(Replies) = Len(answers)
                        /\ DOMAIN Replies = DOMAIN answers)'
    BY RepliesType, PTL
  <2> QED
    BY <2>1
<1>7. /\ \A r \in DOMAIN answers : Replies'[r] = Replies[r]
      /\ Replies'[n] = reply
      /\ \A r \in DOMAIN answers :
            /\ Replies[r].execution = answers[r].execution
            /\ Replies[r].replayed = answers[r].replayed
  BY <1>2 DEF Replies
<1>8. /\ Len(Replies') = Len(Replies) + 1
      /\ Replies' = Append(Replies, Replies'[Len(Replies) + 1])
  BY <1>3, <1>4, <1>5, <1>7, <1>6, LongerByOne
<1>9. Replies' = Append(Replies, reply) /\ Replies'[Len(Replies) + 1] = reply
  BY <1>5, <1>7, <1>8
<1>10. Accepted' = Accepted /\ Published' = Published
  BY DEF Accepted, Published, catalogueVars
<1>11. CASE execution = 0 /\ ~replayed
  <2>1. reply.execution = 0 /\ ~reply.replayed
    BY <1>11
  <2> HIDE DEF reply
  <2>2. /\ Replies'[Len(Replies) + 1].execution = 0
        /\ ~Replies'[Len(Replies) + 1].replayed
    BY <1>9, <2>1
  <2>3. Idempotency!Refuse
    BY <1>8, <1>10, <2>2
    DEF Idempotency!Refuse, Accepted, Replies, Published
  <2> QED
    BY <2>3 DEF Admits, Idempotency!Next
<1>12. CASE /\ execution \in Matching(call.workflow, KeyOf(call))
            /\ \/ replayed
               \/ clients[c].pc = "reply" /\ clients[c].execution = execution
  <2>1. /\ execution \in DOMAIN admitted
        /\ Accepted[execution] = <<call.workflow, KeyOf(call)>>
    BY <1>12 DEF Matching, Accepted
  <2>2. execution \in DOMAIN Accepted
    BY <1>1, <2>1, AcceptedType
  <2>3. ASSUME ~replayed, NEW r \in DOMAIN Replies,
               Replies[r].execution = execution
        PROVE  Replies[r].replayed
    BY <1>5, <1>7, <1>12, <2>3 DEF AnswerInv, RequestSound
  <2>4. replayed \/ \A r \in DOMAIN Replies :
                       Replies[r].execution = execution => Replies[r].replayed
    BY <2>3
  <2>5. Replies' = Append(Replies, [key |-> Accepted[execution],
                                    execution |-> execution,
                                    replayed |-> replayed])
    BY <1>9, <2>1
  <2>6. \E i \in DOMAIN Accepted, again \in BOOLEAN :
           /\ again \/ \A r \in DOMAIN Replies :
                         Replies[r].execution = i => Replies[r].replayed
           /\ Replies' = Append(Replies, [key |-> Accepted[i],
                                          execution |-> i,
                                          replayed |-> again])
           /\ UNCHANGED <<Accepted, Published>>
    BY <1>10, <2>2, <2>4, <2>5, Zenon
  <2>7. Idempotency!Reply
    BY <2>6, Zenon DEF Idempotency!Reply, Accepted, Replies, Published
  <2> QED
    BY <2>7 DEF Admits, Idempotency!Next
<1> QED
  BY <1>11, <1>12

(* A lookup that finds an execution replies with it, again.                *)
LEMMA FoundReplies ==
    ASSUME AnswerInv, AdmissionOK', UNCHANGED catalogueVars,
           NEW c \in Clients, clients[c].pc # "idle", ReturnFound(c)
    PROVE  Admits
<1>1. PICK i \in Found(c) : Answer(c, CallOf(c), 202, i, TRUE)
  BY DEF ReturnFound
<1>2. i \in Nat /\ CallOf(c) \in Calls /\ 202 \in Codes
  BY ClientFacts, MatchingFacts
  DEF AnswerInv, IntervalInv, TypeInv, Found, Codes
<1> QED
  BY <1>1, <1>2, AnswerReplies DEF Found

(* Every step of the triggers is one of IdempotentAdmission, or none.      *)
LEMMA NextAdmits ==
    ASSUME AnswerInv, [Next]_vars
    PROVE  Admits
<1>1. /\ TypeInv /\ CatalogueOK /\ AdmissionOK
      /\ CatalogueOK' /\ AdmissionOK'
  BY NextTypeInv DEF AnswerInv, IntervalInv, TypeInv
<1>2. ASSUME UNCHANGED <<admitted, outbox, answers>> PROVE Admits
  BY <1>2 DEF Admits, Accepted, Replies, Published
<1>3. CASE WorkflowCreated
  BY <1>2, <1>3 DEF WorkflowCreated, CreateWorkflow, admissionVars
<1>4. ASSUME NEW c \in Clients, NEW call \in Calls, Arrive(c, call)
      PROVE  Admits
  <2>1. UNCHANGED catalogueVars
    BY <1>4 DEF Arrive
  <2>2. CASE Refusal(call) = 0
    BY <1>2, <1>4, <2>2 DEF Arrive, catalogueVars
  <2>3. CASE Refusal(call) # 0
    <3>1. PICK code \in Codes : Answer(c, call, code, 0, FALSE)
      BY <1>4, <2>3, RefusalType DEF Arrive
    <3> QED
      BY <1>1, <2>1, <3>1, AnswerReplies
  <2> QED
    BY <2>2, <2>3
<1>5. ASSUME NEW c \in Clients, ServeStep(c) \/ Vanish(c)
      PROVE  Admits
  <2>1. RequestSound(c) /\ 202 \in Codes /\ 500 \in Codes
    BY DEF AnswerInv, Codes
  <2>2. CASE Lookup(c)
    <3>1. CASE Found(c) = {}
      BY <1>2, <2>2, <3>1 DEF Lookup, catalogueVars
    <3>2. CASE Found(c) # {}
      BY <1>1, <2>2, <3>2, FoundReplies DEF Lookup, At
    <3> QED
      BY <3>1, <3>2
  <2>3. CASE Insert(c)
    <3>1. /\ CallOf(c).workflow \in Workflows
          /\ KeyOf(CallOf(c)) \in IdempotencyKeys
      BY <1>1, <2>3, ClientFacts DEF Insert, At
    <3>2. TriggerOf(CallOf(c)) \in TriggerType
      BY DEF TriggerOf, TriggerType
    <3> QED
      BY <1>1, <2>3, <3>1, <3>2, AddAccepts DEF Insert
  <2>4. CASE InsertConflict(c) \/ Vanish(c)
    BY <1>2, <2>4 DEF InsertConflict, Vanish, catalogueVars
  <2>5. CASE InsertTooLong(c)
    <3>1. clients[c].pc # "idle" /\ UNCHANGED catalogueVars
      BY <2>5 DEF InsertTooLong, At
    <3>2. Answer(c, CallOf(c), 500, 0, FALSE) /\ CallOf(c) \in Calls
      BY <1>1, <2>5, <3>1, ClientFacts DEF InsertTooLong
    <3> QED
      BY <1>1, <2>1, <3>1, <3>2, AnswerReplies
  <2>6. CASE Replay(c)
    BY <1>1, <2>1, <2>6, FoundReplies DEF Replay, At, RequestSound
  <2>7. CASE Reply(c)
    <3>1. /\ clients[c].pc = "reply" /\ UNCHANGED catalogueVars
          /\ Answer(c, CallOf(c), 202, clients[c].execution, FALSE)
      BY <2>7 DEF Reply, At
    <3>2. PICK i : i = clients[c].execution
      OBVIOUS
    <3>3. i \in Found(c) /\ CallOf(c) \in Calls
      BY <1>1, <2>1, <3>1, <3>2, ClientFacts DEF RequestSound
    <3>4. i \in Nat
      BY <1>1, <3>3, MatchingFacts DEF Found
    <3> QED
      BY <1>1, <2>1, <3>1, <3>2, <3>3, <3>4, AnswerReplies DEF Found
  <2> QED
    BY <1>5, <2>2, <2>3, <2>4, <2>5, <2>6, <2>7 DEF ServeStep
<1>6. CASE ScheduleCreated
  BY <1>2, <1>6
  DEF ScheduleCreated, CreateSchedule, catalogueVars, admissionVars
<1>7. ASSUME NEW s \in Schedulers, SchedulerRuns(s) \/ SchedulerFault(s)
      PROVE  Admits
  <2>1. UNCHANGED answers
    BY <1>7 DEF SchedulerRuns, SchedulerFault, admissionVars
  <2>2. CASE UNCHANGED catalogueVars
    BY <1>2, <2>1, <2>2 DEF catalogueVars
  <2>3. CASE Prepare(s)
    <3>1. PICK w \in Workflows, key \in IdempotencyKeys :
             ~Duplicate(w, key) /\ AddExecution(w, key, "schedule")
      BY <1>1, <2>3, PrepareFacts
    <3>2. "schedule" \in TriggerType
      BY DEF TriggerType
    <3> QED
      BY <1>1, <2>1, <3>1, <3>2, AddAccepts
  <2>4. CASE Publish(s)
    <3>1. /\ UNCHANGED <<Accepted, Replies>>
          /\ Published \subseteq Published'
          /\ Published' \subseteq DOMAIN Accepted
      BY <2>1, <2>4 DEF Publish, Accepted, Replies, Published
    <3>2. Idempotency!Publish
      BY <3>1 DEF Idempotency!Publish, Accepted, Replies, Published
    <3> QED
      BY <3>2 DEF Admits, Idempotency!Next
  <2> QED
    BY <1>7, <2>2, <2>3, <2>4
    DEF SchedulerRuns, SchedulerFault, SchedulerCrash, CycleStep, DueSelect,
        PrepareMiss, PrepareConflict, PublishSelect, PublishFails
<1>8. CASE TimePasses
  BY <1>2, <1>8 DEF TimePasses, Tick, catalogueVars, admissionVars
<1>9. CASE UNCHANGED vars
  BY <1>2, <1>9 DEF vars, catalogueVars, admissionVars
<1> QED
  BY <1>3, <1>4, <1>5, <1>6, <1>7, <1>8, <1>9
  DEF Next, RequestArrives, RequestServed, RequestLost

(* Clients, webhooks and schedules together implement idempotent           *)
(* admission: a key is accepted once, every answer refuses its request or  *)
(* names the execution of its key, one answer at most calls it new, and    *)
(* only what has been accepted is published.                               *)
THEOREM TriggersImplementAdmission == Spec => ImplementsIdempotency
<1>1. Init => Idempotency!Init
  <2> SUFFICES ASSUME Init PROVE Idempotency!Init
    OBVIOUS
  <2>1. admitted = <<>> /\ answers = <<>>
    BY DEF Init, CatalogueInit, AdmissionInit
  <2>2. Accepted = <<>> /\ Replies = <<>> /\ Published = {}
    BY <2>1 DEF Accepted, Replies, Published
  <2> QED
    BY <2>2 DEF Idempotency!Init, Accepted, Replies, Published
<1>2. AnswerInv /\ [Next]_vars =>
         Idempotency!Next \/ UNCHANGED <<Accepted, Replies, Published>>
  BY NextAdmits DEF Admits
<1> QED
  BY <1>1, <1>2, SpecAnswerInv, PTL
  DEF Spec, ImplementsIdempotency, Idempotency!Spec, Accepted, Replies,
      Published
=============================================================================
