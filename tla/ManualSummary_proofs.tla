------------------------ MODULE ManualSummary_proofs ------------------------
(***************************************************************************)
(* A manual summary, for every list of models and definitions and every    *)
(* timeout: the proofs that the deadline leaves every attempt its whole    *)
(* timeout, that the dashboard result is made of its own run's artifacts,  *)
(* that a run fails because of a model or of too long a text only, and     *)
(* that its error code tells what the last attempt met.                    *)
(***************************************************************************)
EXTENDS ManualSummary, TLAPS

\* The time that the attempts and backoffs of the steps before a step may have taken.
Before(i) == IF i = 1 THEN 0
             ELSE IF i = 2 THEN 2 * ModelTimeout + Backoff
             ELSE 4 * ModelTimeout + 2 * Backoff

\* The time that those of the current step may have taken.
Within == IF index \notin {1, 2} \/ pc \in {"idle", "step"} THEN 0
          ELSE IF pc \in {"attempt", "call"} THEN
              IF try = 1 THEN 0 ELSE ModelTimeout + Backoff
          ELSE IF pc = "backoff" \/ (pc \in {"complete", "record"} /\ try = 1) THEN ModelTimeout
          ELSE 2 * ModelTimeout + Backoff

\* Where the worker is, and the time it has used.
TimeInv ==
    /\ pc \in {"idle", "step", "attempt", "call", "complete", "record", "backoff", "fail"}
    /\ index \in 1..4
    /\ pc \notin {"idle", "step"} => index \in 1..3 /\ try \in {1, 2}
    /\ pc = "backoff" => index \in {1, 2} /\ try = 1
    /\ elapsed \in Int /\ inStore \in Nat
    /\ elapsed <= inStore + Before(index) + Within

\* The definition has three steps, of two, two and one attempts.
LEMMA Attempts ==
    /\ Steps = 1..3
    /\ Definition[1].attempts = 2 /\ Definition[2].attempts = 2 /\ Definition[3].attempts = 1
<1>1. Steps = 1..3
  BY DEF Steps, Definition
<1>2. Definition[1].attempts = 2
  BY DEF Definition
<1>3. Definition[2].attempts = 2
  BY DEF Definition
<1>4. Definition[3].attempts = 1
  BY DEF Definition
<1> QED
  BY <1>1, <1>2, <1>3, <1>4

\* The third step calls no model.
LEMMA NoModel == ~CallsModel(3)
<1>1. Definition[3].capability = "compose_dashboard_result"
  BY DEF Definition
<1>2. "compose_dashboard_result" \notin DOMAIN Mapping
  BY DEF Mapping
<1> QED
  BY <1>1, <1>2 DEF CallsModel

\* A step ends within the time that the one after it starts with.
LEMMA Later ==
    ASSUME index \in 1..3
    PROVE  Before(index) + Within <= Before(index + 1)
  BY TimeAssumption DEF Before, Within, Backoff

\* No time has passed before the first run.
LEMMA InitTime == Init => TimeInv
<1>1. Init => pc = "idle" /\ index = 1 /\ elapsed = 0 /\ inStore = 0
  BY DEF Init
<1> QED
  BY <1>1 DEF TimeInv, Before, Within

\* Between execute calls the clock stands at zero.
LEMMA IdleTime == Idle => TimeInv'
  BY DEF Idle, TimeInv, Before, Within

\* Every step of the model keeps TimeInv.
LEMMA TimeStep == TimeInv /\ [Next]_vars => TimeInv'
<1> SUFFICES ASSUME TimeInv, [Next]_vars PROVE TimeInv'
  OBVIOUS
<1> USE TimeAssumption, Attempts
<1>1. ASSUME NEW req \in Requests, Start(req) PROVE TimeInv'
  BY <1>1 DEF Start, TimeInv, localVars, Before, Within
<1>2. CASE Claim
  BY <1>2 DEF Claim, TimeInv, Before, Within
<1>3. CASE SkipCompleted
  BY <1>3, Later DEF SkipCompleted, TimeInv, Before, Within, Backoff
<1>4. CASE BeginStep
  BY <1>4 DEF BeginStep, StoreCall, AtWork, TimeInv, Before, Within, Backoff
<1>5. CASE BeginAttempt
  <2>1. /\ pc = "attempt" /\ pc' = "call" /\ UNCHANGED <<index, try>>
        /\ \E delay \in Nat : elapsed' = elapsed + delay /\ inStore' = inStore + delay
    BY <1>5 DEF BeginAttempt, StoreCall, AtWork
  <2> QED
    BY <2>1 DEF TimeInv, Before, Within, Backoff
<1>6. ASSUME NEW a \in Answers, NEW d \in CallTimes \union {ModelTimeout}, CallModel(a, d)
      PROVE  TimeInv'
  <2>1. pc = "call" /\ pc' \in {"complete", "record"} /\ UNCHANGED <<index, try, inStore>>
    BY <1>6 DEF CallModel, Returned, AtWork
  <2>0. index \in {1, 2}
    BY <1>6, <2>1, NoModel DEF CallModel, TimeInv
  <2>2. elapsed' \in Int /\ elapsed' <= elapsed + ModelTimeout
    <3>1. d \in 0..ModelTimeout
      <4>1. CASE d \in CallTimes
        BY <4>1, TimeAssumption, Zenon
      <4>2. CASE d = ModelTimeout
        BY <4>2
      <4> QED
        BY <1>6, <4>1, <4>2, Zenon
    <3>2. Deadline \in Int /\ elapsed \in Int
      BY DEF TimeInv, Deadline, Margin
    <3>3. \/ elapsed' = elapsed + d
          \/ ~(elapsed + d < Deadline) /\ elapsed' = Deadline
      BY <1>6 DEF CallModel
    <3> QED
      BY <3>1, <3>2, <3>3
  <2>3. CASE try = 1
    BY <2>0, <2>1, <2>2, <2>3 DEF TimeInv, Before, Within, Backoff
  <2>4. CASE try = 2
    BY <2>0, <2>1, <2>2, <2>4 DEF TimeInv, Before, Within, Backoff
  <2> QED
    BY <2>1, <2>3, <2>4 DEF TimeInv
<1>7. CASE RefuseContent
  BY <1>7 DEF RefuseContent, Returned, AtWork, TimeInv, Before, Within, Backoff
<1>8. CASE Compose
  BY <1>8 DEF Compose, Returned, AtWork, TimeInv, Before, Within, Backoff
<1>9. CASE CompleteStep
  <2>1. /\ pc' = "step" /\ index \in 1..3 /\ index' = index + 1
        /\ UNCHANGED try
        /\ \E delay \in Nat : elapsed' = elapsed + delay /\ inStore' = inStore + delay
    BY <1>9 DEF CompleteStep, StoreCall, TimeInv
  <2>2. Before(index) + Within <= Before(index')
    BY <2>1, Later
  <2> QED
    BY <2>1, <2>2 DEF TimeInv, Before, Within, Backoff
<1>10. CASE RecordFailure
  BY <1>10 DEF RecordFailure, StoreCall, AtWork, AttemptsLeft, TimeInv, Before, Within, Backoff
<1>11. CASE WaitBackoff
  BY <1>11 DEF WaitBackoff, AtWork, Min2, TimeInv, Before, Within, Backoff, Deadline, Margin
<1>12. CASE FailRun \/ CompleteRun \/ Overdue \/ Restart
  BY <1>12, IdleTime DEF FailRun, CompleteRun, Overdue, Restart
<1>13. CASE Retry
  BY <1>13 DEF Retry, TimeInv, localVars, Before, Within
<1>14. CASE UNCHANGED vars
  BY <1>14 DEF vars, TimeInv, localVars, Before, Within
<1> QED
  BY <1>1, <1>2, <1>3, <1>4, <1>5, <1>6, <1>7, <1>8, <1>9, <1>10, <1>11, <1>12, <1>13, <1>14
     DEF Next, Execution, CallsModelServer

\* For every timeout of the models, the deadline of a run passes only if store calls took up
\* the margin: the comment in manual.go, that each step may consume both attempts.
THEOREM DeadlineTheorem == Spec => []DeadlineCoversAttempts
<1>1. TimeInv => DeadlineCoversAttempts
  BY TimeAssumption
     DEF TimeInv, DeadlineCoversAttempts, Deadline, Before, Within, Margin, Backoff
<1> QED
  BY <1>1, InitTime, TimeStep, PTL DEF Spec

-----------------------------------------------------------------------------
(***************************************************************************)
(* The invariant of the rows by themselves.                                *)
(***************************************************************************)

Done(i) == steps[i].status = "completed"

\* A part that the composition of the dashboard accepts.
PartOf(i, value) == value \in Parts /\ value.of = i /\ ~value.blank

\* The two parts and their models.
MadeOf(dashboard, summary, actions) ==
    /\ dashboard \in Dashboards
    /\ dashboard.summary = summary /\ dashboard.actions = actions
    /\ {dashboard.models[k] : k \in DOMAIN dashboard.models} = {summary.by, actions.by}

\* Steps are completed in order; what a completed one has put out is a part of its own, or
\* the dashboard of the two; and only a failed one shows an error.
RowsInv ==
    /\ \A i, j \in Steps : j < i /\ Done(i) => Done(j)
    /\ \A i \in Steps : ~Done(i) => steps[i].output = NoResult
    /\ \A i \in {1, 2} : Done(i) => PartOf(i, steps[i].output)
    /\ Done(3) => MadeOf(steps[3].output, steps[1].output, steps[2].output)
    /\ \A i \in Steps : steps[i].status # "failed" => steps[i].code = ""

(***************************************************************************)
(* The invariant of the run: what its status, and the worker's position,   *)
(* say of the rows.                                                        *)
(***************************************************************************)

\* The error of an attempt at a model that answered a.
Cause(a) == LET generation == Generate(a)
            IN IF generation.error # "none" THEN generation.error
               ELSE IF WellFormed(generation.value) THEN "none" ELSE "invalid_response"

\* The error that an attempt which may still be recorded ended with.
ErrorOfAttempt == IF request.content = "long" THEN "content_too_long" ELSE Cause(met)

\* The status of the worker's step.
StatusAt(p) ==
    CASE p = "step"                             -> {"pending", "completed"}
      [] p = "attempt"                          -> {"pending", "failed"}
      [] p \in {"call", "complete", "record"}   -> {"running"}
      [] OTHER                                  -> {"failed"}

Waiting(i) == steps[i].status \in {"pending", "completed"}

WorkInv ==
    IF pc = "idle" THEN index = 1
    ELSE /\ status = "running"
         /\ \A i \in Steps : i < index => Done(i)
         /\ \A i \in Steps : i > index => Waiting(i)
         /\ index \in Steps => steps[index].status \in StatusAt(pc)
         /\ pc # "step" => index \in Steps

ResultInv ==
    /\ pc = "complete" => IF index = 3
                          THEN MadeOf(result.value, steps[1].output, steps[2].output)
                          ELSE PartOf(index, result.value)
    /\ (pc = "record" /\ elapsed < Deadline) \/ pc = "fail" =>
          result.error = ErrorOfAttempt /\ result.error # "none"
    /\ pc = "fail" => steps[index].code = Category(result.error)

FailureInv ==
    /\ status # "failed" => code = ""
    /\ status = "failed" =>
          /\ ErrorOfAttempt # "none"
          /\ code = Category(ErrorOfAttempt)
          /\ \E k \in Steps : /\ steps[k].status = "failed" /\ steps[k].code = code
                              /\ \A i \in Steps \ {k} : steps[i].status # "failed"

RequestInv ==
    /\ status # "none" => request.content \in {"text", "long"}
    /\ met \in Answers

RunInv ==
    /\ status \in {"none", "pending"} => \A i \in Steps : Waiting(i)
    /\ WorkInv /\ ResultInv /\ FailureInv /\ RequestInv

DataInv == TypeOK /\ RowsInv /\ RunInv

-----------------------------------------------------------------------------
(* The definition.                                                         *)

\* The first two steps call a model, with the content of the request; the third composes
\* what they put out.
LEMMA TheSteps ==
    /\ Steps = {1, 2, 3}
    /\ CallsModel(1) /\ CallsModel(2) /\ ~CallsModel(3)
    /\ \A i \in {1, 2} : Definition[i].attempts = 2
    /\ Definition[3].attempts = 1
<1>1. Steps = {1, 2, 3}
  BY Attempts
<1>2. CallsModel(1) /\ CallsModel(2)
  <2>1. /\ Definition[1].capability = "summarize_text"
        /\ Definition[2].capability = "extract_action_items"
    BY DEF Definition
  <2>2. "summarize_text" \in DOMAIN Mapping /\ "extract_action_items" \in DOMAIN Mapping
    BY DEF Mapping
  <2> QED
    BY <2>1, <2>2 DEF CallsModel
<1> QED
  BY <1>1, <1>2, Attempts, NoModel

\* Where a step takes its input from.
LEMMA TheInputs ==
    /\ Mappable(1) /\ Mappable(2)
    /\ outputs[1] # NoResult /\ outputs[2] # NoResult => Mappable(3)
    /\ Input(3, "summary") = outputs[1] /\ Input(3, "actions") = outputs[2]
<1>1. Definition[1].inputs = [content |-> 0] /\ Definition[2].inputs = [content |-> 0]
  BY DEF Definition
<1>2. Definition[3].inputs = [summary |-> 1, actions |-> 2]
  BY DEF Definition
<1>3. Mappable(1) /\ Mappable(2)
  BY <1>1 DEF Mappable
<1>4. outputs[1] # NoResult /\ outputs[2] # NoResult => Mappable(3)
  BY <1>2 DEF Mappable
<1> QED
  BY <1>2, <1>3, <1>4 DEF Input

\* What an answer becomes: a part of the step, or the error that is its cause.
LEMMA Answered ==
    ASSUME NEW a \in Answers, NEW i, NEW m
    PROVE  /\ Cause(a) = "none" => Summarized("text", i, m, a)
                                     = Success([of |-> i, by |-> m, blank |-> FALSE])
           /\ Cause(a) # "none" => Summarized("text", i, m, a) = Failure(Cause(a))
<1> DEFINE g == Generate(a)
<1>1. CASE g.error # "none"
  <2>1. PICK e \in {"deadline", "unavailable", "model_not_found", "invalid_response"} :
            g = Failure(e)
    BY <1>1 DEF Generate, Success
  <2>2. Cause(a) = e
    BY <1>1, <2>1 DEF Cause, Failure
  <2>3. Summarized("text", i, m, a) = g
    BY <1>1 DEF Summarized
  <2> QED
    BY <2>1, <2>2, <2>3
<1>2. CASE g.error = "none" /\ WellFormed(g.value)
  BY <1>2 DEF Cause, Summarized, WellFormed
<1>3. CASE g.error = "none" /\ ~WellFormed(g.value)
  BY <1>3 DEF Cause, Summarized, Failure
<1> QED
  BY <1>1, <1>2, <1>3

\* The causes, and the codes they are stored as.
LEMMA Causes ==
    ASSUME NEW a \in Answers
    PROVE  Cause(a) \in {"none", "deadline", "unavailable", "model_not_found", "invalid_response"}
  BY DEF Cause, Generate, Failure, Success

\* An error is stored as one of five codes.
LEMMA Categories ==
    \A error : Category(error) \in {"timeout", "model_unavailable", "provider_unavailable",
                                    "invalid_model_response", "capability_failed"}
  BY DEF Category

-----------------------------------------------------------------------------
(* Selection.                                                              *)

\* What is started was chosen for the request, and is enabled.
LEMMA Selected ==
    ASSUME NEW req, Serves(Select(req))
    PROVE  /\ Select(req) = Served
           /\ Select(req) = IF req.explicit # "" THEN req.explicit ELSE Rules[req.type]
           /\ Resolvable(Select(req))
<1>1. Select(req) = Served /\ Served # ""
  BY DEF Serves, Served
<1>2. CASE req.explicit # ""
  BY <1>1, <1>2 DEF Select
<1>3. CASE req.explicit = "" /\ req.type \in DOMAIN Rules
  BY <1>1, <1>3 DEF Select
<1>4. CASE req.explicit = "" /\ req.type \notin DOMAIN Rules
  BY <1>1, <1>4 DEF Select
<1> QED
  BY <1>2, <1>3, <1>4

\* A run is only ever executed as the workflow that was selected for its request, whatever
\* is registered, and through restarts and retries.
THEOREM SelectedTheorem == Spec => []SelectedWorkflowRuns
<1> DEFINE SelectInv == SelectedWorkflowRuns /\ (pc # "idle" => status # "none")
<1>1. Init => SelectInv
  BY DEF Init, SelectedWorkflowRuns
<1>2. SelectInv /\ [Next]_vars => SelectInv'
  <2> SUFFICES ASSUME SelectInv, [Next]_vars PROVE SelectInv'
    OBVIOUS
  <2>1. ASSUME NEW req \in Requests, Start(req) PROVE SelectInv'
    <3>1. request' = [type |-> req.type, explicit |-> req.explicit, content |-> req.content,
                      workflow |-> Select(req)] /\ status' = "pending" /\ pc' = pc
      BY <2>1 DEF Start, localVars
    <3>2. Serves(Select(req))
      BY <2>1 DEF Start
    <3> QED
      BY <3>1, <3>2, Selected DEF SelectedWorkflowRuns, Resolvable
  <2>2. CASE \/ Execution \/ Retry \/ Restart \/ UNCHANGED vars
    <3>1. request' = request /\ (status = "none" => status' = "none")
      BY <2>2 DEF Execution, CallsModelServer, Claim, SkipCompleted, BeginStep, BeginAttempt,
         CallModel, RefuseContent, Compose, CompleteStep, RecordFailure, WaitBackoff, FailRun,
         CompleteRun, Overdue, Retry, Restart, Requeue, vars, rowVars
    <3>2. pc' # "idle" => status' # "none"
      BY <2>2 DEF Execution, CallsModelServer, Claim, SkipCompleted, BeginStep, BeginAttempt,
         CallModel, RefuseContent, Compose, CompleteStep, RecordFailure, WaitBackoff, FailRun,
         CompleteRun, Overdue, Retry, Restart, Requeue, Idle, vars, rowVars, localVars
    <3> QED
      BY <3>1, <3>2 DEF SelectedWorkflowRuns
  <2> QED
    BY <2>1, <2>2 DEF Next
<1> QED
  BY <1>1, <1>2, PTL DEF Spec

-----------------------------------------------------------------------------
(* Types, and what the worker carries.                                     *)

StepRow == [status : {"pending", "running", "completed", "failed", "skipped"},
            code : Codes, output : Outputs]

\* An attempt begins: a fresh code in the row of the worker's step.
LEMMA AttemptRow ==
    ASSUME TypeOK, TimeInv, BeginAttempt
    PROVE  /\ steps' \in [Steps -> StepRow]
           /\ steps'[index].status = "running" /\ steps'[index].code = ""
           /\ steps'[index].output = steps[index].output
           /\ \A i \in Steps \ {index} : steps'[i] = steps[i]
<1>1. steps \in [Steps -> StepRow] /\ index \in Steps
  <2>1. pc = "attempt"
    BY DEF BeginAttempt
  <2> QED
    BY <2>1, TheSteps DEF TypeOK, StepRow, TimeInv
<1>2. steps' = [steps EXCEPT ![index].status = "running", ![index].code = ""]
  BY DEF BeginAttempt
<1>3. "" \in Codes
  BY DEF Codes
<1> QED
  BY <1>1, <1>2, <1>3 DEF StepRow

\* An attempt has succeeded: its row holds the result.
LEMMA CompletedRow ==
    ASSUME TypeOK, TimeInv, CompleteStep
    PROVE  /\ steps' \in [Steps -> StepRow]
           /\ steps'[index].status = "completed" /\ steps'[index].code = steps[index].code
           /\ steps'[index].output = result.value
           /\ \A i \in Steps \ {index} : steps'[i] = steps[i]
<1>1. steps \in [Steps -> StepRow] /\ index \in Steps /\ result.value \in Outputs
  BY TheSteps DEF TypeOK, StepRow, TimeInv, CompleteStep
<1>2. steps' = [steps EXCEPT ![index].status = "completed", ![index].output = result.value]
  BY DEF CompleteStep
<1> QED
  BY <1>1, <1>2 DEF StepRow

\* An attempt has failed: its row holds the code.
LEMMA FailedRow ==
    ASSUME TypeOK, TimeInv, RecordFailure
    PROVE  /\ steps' \in [Steps -> StepRow]
           /\ steps'[index].status = "failed" /\ steps'[index].code = Category(result.error)
           /\ steps'[index].output = steps[index].output
           /\ \A i \in Steps \ {index} : steps'[i] = steps[i]
<1>1. steps \in [Steps -> StepRow] /\ index \in Steps
  BY TheSteps DEF TypeOK, StepRow, TimeInv, RecordFailure
<1>2. steps' = [steps EXCEPT ![index].status = "failed",
                             ![index].code = Category(result.error)]
  BY DEF RecordFailure
<1>3. Category(result.error) \in Codes
  BY Categories DEF Codes
<1> QED
  BY <1>1, <1>2, <1>3 DEF StepRow

\* failRun changes the statuses behind the failed step only.
LEMMA SkippedRows ==
    ASSUME TypeOK, TimeInv, FailRun
    PROVE  /\ steps' \in [Steps -> StepRow]
           /\ \A i \in Steps : IF i > index
                               THEN /\ steps'[i].status = "skipped"
                                    /\ steps'[i].code = steps[i].code
                                    /\ steps'[i].output = steps[i].output
                               ELSE steps'[i] = steps[i]
<1>1. steps \in [Steps -> StepRow]
  BY DEF TypeOK, StepRow
<1>2. steps' = [i \in Steps |-> IF i > index THEN [steps[i] EXCEPT !.status = "skipped"]
                                ELSE steps[i]]
  BY DEF FailRun
<1> QED
  BY <1>1, <1>2 DEF StepRow

\* A queued run keeps its completed steps, and no output of another is lost.
LEMMA QueuedRows ==
    ASSUME TypeOK, RowsInv, Requeue
    PROVE  /\ steps' \in [Steps -> StepRow]
           /\ \A i \in Steps : IF Done(i) THEN steps'[i] = steps[i]
                               ELSE steps'[i].status = "pending" /\ steps'[i].code = ""
           /\ \A i \in Steps : steps'[i].output = steps[i].output
<1>1. steps \in [Steps -> StepRow]
  BY DEF TypeOK, StepRow
<1>2. steps' = [i \in Steps |-> IF steps[i].status = "completed" THEN steps[i] ELSE FreshStep]
  BY DEF Requeue
<1>3. [status |-> "pending", code |-> "", output |-> NoResult] \in StepRow
  BY DEF StepRow, Codes, Outputs
<1>4. \A i \in Steps : IF Done(i) THEN steps'[i] = steps[i]
                       ELSE steps'[i].status = "pending" /\ steps'[i].code = ""
  BY <1>2 DEF Done, FreshStep
<1>5. \A i \in Steps : steps'[i].output = steps[i].output
  BY <1>2 DEF RowsInv, Done, FreshStep
<1> QED
  BY <1>1, <1>2, <1>3, <1>4, <1>5 DEF FreshStep

\* What the next steps find of the worker's outputs is what the rows hold.
CarriedOK == outputs = [i \in Steps |-> IF i < index THEN steps[i].output ELSE NoResult]

\* Every step keeps the worker's outputs those of the rows before its own.
LEMMA CarriedStep ==
    ASSUME TypeOK, TimeInv, RowsInv, WorkInv, [Next]_vars
    PROVE  CarriedOK'
<1>1. CarriedOK /\ index \in 1..4 /\ Steps \subseteq Int
  BY TheSteps DEF TypeOK, CarriedOK, TimeInv
<1>2. CASE UNCHANGED <<outputs, index, steps>>
  BY <1>1, <1>2 DEF CarriedOK
<1>3. CASE SkipCompleted
  <2>1. /\ index \in Steps /\ index' = index + 1 /\ steps' = steps
        /\ outputs' = [outputs EXCEPT ![index] = steps[index].output]
    BY <1>3 DEF SkipCompleted, rowVars
  <2>2. outputs' = [i \in Steps |-> outputs'[i]]
    BY <1>1, <2>1 DEF CarriedOK
  <2>3. ASSUME NEW i \in Steps
        PROVE  outputs'[i] = IF i < index' THEN steps'[i].output ELSE NoResult
    BY <1>1, <2>1 DEF CarriedOK
  <2> QED
    BY <2>2, <2>3 DEF CarriedOK
<1>4. CASE BeginAttempt
  <2>1. \A i \in Steps : steps'[i].output = steps[i].output
    <3>1. /\ steps'[index].output = steps[index].output
          /\ \A i \in Steps \ {index} : steps'[i] = steps[i]
      BY <1>4, AttemptRow
    <3> QED
      BY <3>1
  <2>2. outputs' = outputs /\ index' = index
    BY <1>4 DEF BeginAttempt, AtWork
  <2> QED
    BY <1>1, <2>1, <2>2 DEF CarriedOK
<1>5. CASE CompleteStep
  <2>1. /\ index \in Steps /\ index' = index + 1
        /\ outputs' = [outputs EXCEPT ![index] = result.value]
    BY <1>5, TheSteps DEF CompleteStep, TimeInv
  <2>2. steps'[index].output = result.value /\ \A i \in Steps \ {index} : steps'[i] = steps[i]
    BY <1>5, CompletedRow
  <2>3. outputs' = [i \in Steps |-> outputs'[i]]
    BY <1>1, <2>1 DEF CarriedOK
  <2>4. ASSUME NEW i \in Steps
        PROVE  outputs'[i] = IF i < index' THEN steps'[i].output ELSE NoResult
    BY <1>1, <2>1, <2>2 DEF CarriedOK
  <2> QED
    BY <2>3, <2>4 DEF CarriedOK
<1>6. CASE RecordFailure
  <2>1. \A i \in Steps : steps'[i].output = steps[i].output
    BY <1>6, FailedRow
  <2>2. outputs' = outputs /\ index' = index
    BY <1>6 DEF RecordFailure, AtWork
  <2> QED
    BY <1>1, <2>1, <2>2 DEF CarriedOK
<1>7. CASE Idle
  <2>1. index' = 1 /\ outputs' = [i \in Steps |-> NoResult]
    BY <1>7 DEF Idle
  <2> QED
    BY <1>1, <2>1, TheSteps DEF CarriedOK
<1>8. CASE Retry
  <2>1. Requeue /\ outputs' = outputs /\ index' = index
    BY <1>8 DEF Retry, localVars
  <2>2. \A i \in Steps : steps'[i].output = steps[i].output
    BY <2>1, QueuedRows
  <2> QED
    BY <1>1, <2>1, <2>2 DEF CarriedOK
<1> QED
  BY <1>2, <1>3, <1>4, <1>5, <1>6, <1>7, <1>8 DEF Next, Execution, CallsModelServer, Start, Claim,
     BeginStep, CallModel, RefuseContent, Compose, Returned, AtWork, WaitBackoff, FailRun,
     CompleteRun, Overdue, Restart, vars, rowVars, localVars

\* The model of a step is that of its profile.
LEMMA BoundTyped == ASSUME TypeOK, NEW i \in {1, 2} PROVE Bound(i) \in Models
<1>1. Definition[1].profile = "general" /\ Definition[2].profile = "reasoning"
  BY DEF Definition
<1>2. Resolve(Definition[i].capability, Definition[i].profile) \in Profiles
  BY <1>1 DEF Resolve, Profiles
<1> QED
  BY <1>2 DEF Bound, TypeOK

\* A call to a model ends with a part of its step, or with the cause of the failure.
LEMMA CallResult ==
    ASSUME TypeOK, TimeInv, NEW a \in Answers, NEW d \in CallTimes \union {ModelTimeout},
           CallModel(a, d)
    PROVE  /\ pc = "call" /\ index \in {1, 2} /\ request.content = "text" /\ met' = a
           /\ \/ /\ pc' = "complete"
                 /\ result'.error = "none" /\ PartOf(index, result'.value)
              \/ /\ pc' = "record" /\ result'.value = NoResult
                 /\ elapsed' < Deadline => Cause(a) # "none" /\ result'.error = Cause(a)
<1>1. pc = "call" /\ request.content = "text" /\ met' = a /\ index \in {1, 2}
  <2>1. pc = "call" /\ request.content = "text" /\ met' = a /\ CallsModel(index)
    BY DEF CallModel
  <2> QED
    BY <2>1, TheSteps DEF TimeInv
<1>2. Bound(index) \in Models
  BY <1>1, BoundTyped
<1>3. CASE elapsed + d < Deadline
  <2>1. Returned(Summarized("text", index, Bound(index), a))
    BY <1>1, <1>3 DEF CallModel
  <2>2. CASE Cause(a) = "none"
    <3>1. result' = Success([of |-> index, by |-> Bound(index), blank |-> FALSE])
      BY <2>1, <2>2, Answered DEF Returned
    <3>2. pc' = "complete"
      BY <2>1, <2>2, Answered DEF Returned, AtWork, Success
    <3>3. [of |-> index, by |-> Bound(index), blank |-> FALSE] \in Parts
      BY <1>1, <1>2, TheSteps DEF Parts
    <3> QED
      BY <1>1, <3>1, <3>2, <3>3 DEF PartOf, Success
  <2>3. CASE Cause(a) # "none"
    <3>1. result' = Failure(Cause(a))
      BY <2>1, <2>3, Answered DEF Returned
    <3>2. pc' = "record"
      <4>1. Summarized("text", index, Bound(index), a) = Failure(Cause(a))
        BY <2>3, Answered
      <4>2. Failure(Cause(a)).error # "none"
        BY <2>3 DEF Failure
      <4> QED
        BY <2>1, <4>1, <4>2 DEF Returned, AtWork
    <3> QED
      BY <1>1, <2>3, <3>1, <3>2 DEF Failure
  <2> QED
    BY <2>2, <2>3
<1>4. CASE ~(elapsed + d < Deadline)
  <2>1. result' = Failure("deadline") /\ pc' = "record" /\ elapsed' = Deadline
    BY <1>4 DEF CallModel, Returned, AtWork, Failure
  <2>2. ~(elapsed' < Deadline)
    BY <2>1, TimeAssumption DEF Deadline, Margin
  <2> QED
    BY <1>1, <2>1, <2>2 DEF Failure
<1> QED
  BY <1>3, <1>4

\* The composition ends with the dashboard of the two parts.
LEMMA ComposeResult ==
    ASSUME TypeOK, TimeInv, RowsInv, WorkInv, Compose
    PROVE  /\ pc = "call" /\ index = 3 /\ pc' = "complete" /\ result'.error = "none"
           /\ MadeOf(result'.value, steps[1].output, steps[2].output)
<1>1. pc = "call" /\ ~CallsModel(index)
  BY DEF Compose
<1>2. index = 3
  BY <1>1, TheSteps DEF TimeInv
<1>3. outputs[1] = steps[1].output /\ outputs[2] = steps[2].output
  BY <1>2, TheSteps DEF TypeOK
<1>4. PartOf(1, outputs[1]) /\ PartOf(2, outputs[2])
  <2>1. Done(1) /\ Done(2)
    BY <1>1, <1>2, TheSteps DEF WorkInv
  <2> QED
    BY <1>3, <2>1 DEF RowsInv
<1> DEFINE summary == outputs[1]
           actions == outputs[2]
           models == IF actions.by = summary.by THEN <<summary.by>>
                     ELSE <<summary.by, actions.by>>
           dashboard == [summary |-> summary, actions |-> actions, models |-> models]
<1>5. Returned(Success(dashboard))
  BY <1>2, TheInputs DEF Compose
<1>6. result' = Success(dashboard) /\ pc' = "complete"
  BY <1>5 DEF Returned, AtWork, Success
<1>7. summary.by \in Models /\ actions.by \in Models /\ summary \in Parts /\ actions \in Parts
  BY <1>4 DEF PartOf, Parts
<1>8. dashboard \in Dashboards
  BY <1>7 DEF Dashboards
<1>9. {models[k] : k \in DOMAIN models} = {summary.by, actions.by}
  <2>1. CASE actions.by = summary.by
    BY <2>1
  <2>2. CASE actions.by # summary.by
    <3>1. models = <<summary.by, actions.by>> /\ DOMAIN models = {1, 2}
      BY <2>2
    <3> QED
      BY <3>1
  <2> QED
    BY <2>1, <2>2
<1>10. MadeOf(dashboard, summary, actions)
  BY <1>8, <1>9 DEF MadeOf
<1> HIDE DEF dashboard
<1> QED
  BY <1>1, <1>2, <1>3, <1>6, <1>10 DEF Success

\* The clock of execute never passes the deadline, and store calls are part of its time.
LEMMA ClockStep ==
    ASSUME TypeOK, TimeInv, [Next]_vars
    PROVE  elapsed' \in 0..Deadline /\ inStore' \in 0..elapsed'
<1>1. /\ Deadline \in Nat /\ elapsed \in 0..Deadline /\ inStore \in 0..elapsed
      /\ ModelTimeout \in Nat /\ StoreDelays \subseteq Nat
  BY TimeAssumption DEF TypeOK, Deadline, Margin
<1>2. CASE StoreCall
  BY <1>1, <1>2 DEF StoreCall
<1>3. CASE Idle
  BY <1>1, <1>3 DEF Idle
<1>4. CASE UNCHANGED <<elapsed, inStore>>
  BY <1>1, <1>4
<1>5. CASE WaitBackoff
  BY <1>1, <1>5 DEF WaitBackoff, Min2, Backoff
<1>6. ASSUME NEW a \in Answers, NEW d \in CallTimes \union {ModelTimeout}, CallModel(a, d)
      PROVE  elapsed' \in 0..Deadline /\ inStore' \in 0..elapsed'
  <2>1. d \in Nat
    BY <1>1, <1>6, TimeAssumption
  <2>2. UNCHANGED inStore /\ IF elapsed + d < Deadline THEN elapsed' = elapsed + d
                             ELSE elapsed' = Deadline
    BY <1>6 DEF CallModel
  <2> QED
    BY <1>1, <2>1, <2>2
<1> QED
  BY <1>2, <1>3, <1>4, <1>5, <1>6 DEF Next, Execution, CallsModelServer, Start, Claim,
     SkipCompleted, BeginStep, BeginAttempt, RefuseContent, Compose, CompleteStep, RecordFailure,
     FailRun, CompleteRun, Overdue, Retry, Restart, vars, localVars

\* Every step keeps the rows, and what the attempt has returned, typed.
LEMMA RowsTyped ==
    ASSUME TypeOK, TimeInv, RowsInv, WorkInv, [Next]_vars
    PROVE  steps' \in [Steps -> StepRow] /\ result'.value \in Outputs
<1>1. steps \in [Steps -> StepRow] /\ result.value \in Outputs /\ NoResult \in Outputs
  BY DEF TypeOK, StepRow, Outputs
<1>2. \A e : Failure(e).value = NoResult
  BY DEF Failure
<1>3. CASE BeginAttempt
  BY <1>1, <1>3, AttemptRow DEF BeginAttempt
<1>4. CASE CompleteStep
  BY <1>1, <1>4, CompletedRow DEF CompleteStep
<1>5. CASE RecordFailure
  BY <1>1, <1>5, FailedRow DEF RecordFailure
<1>6. CASE FailRun
  BY <1>1, <1>2, <1>6, SkippedRows DEF FailRun, Idle
<1>7. CASE Retry
  BY <1>1, <1>7, QueuedRows DEF Retry, localVars
<1>8. CASE Restart
  BY <1>1, <1>2, <1>8, QueuedRows DEF Restart, Idle
<1>9. ASSUME NEW a \in Answers, NEW d \in CallTimes \union {ModelTimeout}, CallModel(a, d)
      PROVE  steps' \in [Steps -> StepRow] /\ result'.value \in Outputs
  BY <1>1, <1>9, CallResult DEF CallModel, rowVars, PartOf, Outputs
<1>10. CASE Compose
  BY <1>1, <1>10, ComposeResult DEF Compose, rowVars, MadeOf, Outputs
<1>11. CASE RefuseContent
  BY <1>1, <1>2, <1>11 DEF RefuseContent, Returned, rowVars
<1>12. CASE BeginStep
  BY <1>1, <1>2, <1>12 DEF BeginStep, rowVars
<1>13. CASE \/ (\E req \in Requests : Start(req)) \/ Claim \/ SkipCompleted \/ WaitBackoff
            \/ UNCHANGED vars
  BY <1>1, <1>13 DEF Start, Claim, SkipCompleted, WaitBackoff, vars, rowVars, localVars
<1>14. CASE CompleteRun \/ Overdue
  BY <1>1, <1>2, <1>14 DEF CompleteRun, Overdue, Idle, rowVars
<1> QED
  BY <1>3, <1>4, <1>5, <1>6, <1>7, <1>8, <1>9, <1>10, <1>11, <1>12, <1>13, <1>14
     DEF Next, Execution, CallsModelServer

\* The run's columns stay typed.
LEMMA RunTyped ==
    ASSUME TypeOK, [Next]_vars
    PROVE  /\ model' \in [Profiles -> Models]
           /\ status' \in {"none", "pending", "running", "completed", "failed"}
           /\ code' \in Codes
<1>1. model \in [Profiles -> Models] /\ code \in Codes /\ "" \in Codes
      /\ status \in {"none", "pending", "running", "completed", "failed"}
  BY DEF TypeOK, Codes
<1>2. CASE FailRun
  <2>1. (IF result.error \in InputErrors THEN result.error ELSE Category(result.error)) \in Codes
    BY Categories DEF Codes
  <2> QED
    BY <1>1, <1>2, <2>1 DEF FailRun
<1>3. CASE Retry \/ Restart
  BY <1>1, <1>3 DEF Retry, Restart, Requeue
<1>4. CASE \/ \E req \in Requests : Start(req)
           \/ Claim \/ SkipCompleted \/ BeginStep \/ BeginAttempt \/ CallsModelServer
           \/ RefuseContent \/ Compose \/ CompleteStep \/ RecordFailure \/ WaitBackoff
           \/ CompleteRun \/ Overdue \/ UNCHANGED vars
  BY <1>1, <1>4 DEF Start, Claim, SkipCompleted, BeginStep, BeginAttempt, CallsModelServer,
     CallModel, RefuseContent, Compose, CompleteStep, RecordFailure, WaitBackoff, CompleteRun,
     Overdue, vars, rowVars
<1> QED
  BY <1>2, <1>3, <1>4 DEF Next, Execution

\* The worker never makes more attempts than a step has.
LEMMA TriesStep ==
    ASSUME TypeOK, TimeInv, TimeInv', [Next]_vars
    PROVE  /\ try' \in 0..2
           /\ pc' # "idle" /\ index' \in Steps
                => try' <= Definition[index'].attempts \/ pc' = "step"
<1>1. /\ try \in 0..2
      /\ pc # "idle" /\ index \in Steps => try <= Definition[index].attempts \/ pc = "step"
      /\ \A i \in Steps : Definition[i].attempts \in {1, 2}
  BY TheSteps DEF TypeOK
<1>2. CASE UNCHANGED <<try, index, pc>>
  BY <1>1, <1>2
<1>3. CASE Idle
  BY <1>3 DEF Idle
<1>4. CASE SkipCompleted \/ Claim \/ CompleteStep
  BY <1>1, <1>4 DEF SkipCompleted, Claim, CompleteStep
<1>5. CASE BeginStep
  BY <1>1, <1>5 DEF BeginStep
<1>6. CASE WaitBackoff
  BY <1>6, TheSteps DEF WaitBackoff, TimeInv
<1>7. CASE \/ BeginAttempt \/ CallsModelServer \/ RefuseContent \/ Compose \/ RecordFailure
  <2>1. UNCHANGED <<try, index>> /\ pc \notin {"idle", "step"}
    BY <1>7 DEF BeginAttempt, CallsModelServer, CallModel, RefuseContent, Compose, RecordFailure
  <2> QED
    BY <1>1, <2>1
<1> QED
  BY <1>2, <1>3, <1>4, <1>5, <1>6, <1>7 DEF Next, Execution, Start, FailRun, CompleteRun, Overdue,
     Retry, Restart, vars, localVars

\* Every step keeps TypeOK.
LEMMA TypeStep ==
    ASSUME TypeOK, TimeInv, TimeInv', RowsInv, WorkInv, [Next]_vars
    PROVE  TypeOK'
<1>1. pc' \in {"idle", "step", "attempt", "call", "complete", "record", "backoff", "fail"}
      /\ index' \in 1..4
  BY DEF TimeInv
<1> QED
  BY <1>1, RunTyped, RowsTyped, TriesStep, ClockStep, CarriedStep DEF TypeOK, StepRow, CarriedOK

-----------------------------------------------------------------------------
(* The rows.                                                               *)

\* A step that completes no step, and changes no output, leaves the rows consistent.
LEMMA RowsKept ==
    ASSUME RowsInv,
           \A i \in Steps : steps'[i].status = "completed" <=> steps[i].status = "completed",
           \A i \in Steps : steps'[i].output = steps[i].output,
           \A i \in Steps : steps'[i].status # "failed" => steps'[i].code = ""
    PROVE  RowsInv'
<1>1. 1 \in Steps /\ 2 \in Steps /\ 3 \in Steps
  BY TheSteps
<1>2. \A i, j \in Steps : j < i /\ Done(i)' => Done(j)'
  BY DEF RowsInv, Done
<1>3. \A i \in Steps : ~Done(i)' => steps'[i].output = NoResult
  BY DEF RowsInv, Done
<1>4. \A i \in {1, 2} : Done(i)' => PartOf(i, steps'[i].output)
  BY <1>1 DEF RowsInv, Done
<1>5. Done(3)' => MadeOf(steps'[3].output, steps'[1].output, steps'[2].output)
  BY <1>1 DEF RowsInv, Done
<1> QED
  BY <1>2, <1>3, <1>4, <1>5 DEF RowsInv

\* Every step keeps the rows consistent with each other.
LEMMA RowsStep ==
    ASSUME TypeOK, TimeInv, RowsInv, RunInv, [Next]_vars
    PROVE  RowsInv'
<1> USE TheSteps DEF Done
<1>0. \A i \in Steps : steps[i].status # "failed" => steps[i].code = ""
  BY DEF RowsInv
<1>1. CASE UNCHANGED steps
  BY <1>0, <1>1, RowsKept
<1>2. CASE BeginAttempt
  <2>1. index \in Steps /\ ~Done(index)
    <3>1. pc = "attempt"
      BY <1>2 DEF BeginAttempt
    <3> QED
      BY <3>1 DEF RunInv, WorkInv, StatusAt
  <2>2. /\ steps'[index].status = "running" /\ steps'[index].code = ""
        /\ steps'[index].output = steps[index].output
        /\ \A i \in Steps \ {index} : steps'[i] = steps[i]
    BY <1>2, AttemptRow
  <2>3. \A i \in Steps : /\ Done(i)' <=> Done(i)
                         /\ steps'[i].output = steps[i].output
                         /\ steps'[i].status # "failed" => steps'[i].code = ""
    BY <1>0, <2>1, <2>2
  <2> QED
    BY <2>3, RowsKept
<1>3. CASE CompleteStep
  <2>1. pc = "complete"
    BY <1>3 DEF CompleteStep
  <2>2. index \in Steps /\ steps[index].status = "running"
        /\ \A i \in Steps : i < index => Done(i)
    BY <2>1 DEF RunInv, WorkInv, StatusAt
  <2>3. IF index = 3 THEN MadeOf(result.value, steps[1].output, steps[2].output)
        ELSE PartOf(index, result.value)
    BY <2>1 DEF RunInv, ResultInv
  <2>4. /\ steps'[index].status = "completed" /\ steps'[index].code = ""
        /\ steps'[index].output = result.value
        /\ \A i \in Steps \ {index} : steps'[i] = steps[i]
    BY <1>3, <2>2, CompletedRow DEF RowsInv
  <2>5. ~Done(index) /\ (\A i \in Steps : i > index => ~Done(i))
    BY <2>2 DEF RowsInv
  <2>6. \A i \in Steps : IF i \in 1..index THEN steps'[i].status = "completed"
                         ELSE steps'[i].status # "completed"
    <3>1. \A i \in Steps : \/ i = index
                           \/ i < index /\ i # index
                           \/ i > index /\ i # index
      BY <2>2
    <3>2. \A i \in Steps : i < index /\ i # index => steps'[i].status = "completed"
      BY <2>2, <2>4
    <3>3. \A i \in Steps : i > index /\ i # index => steps'[i].status # "completed"
      BY <2>4, <2>5
    <3>4. \A i \in Steps : i \in 1..index <=> i = index \/ i < index
      BY <2>2
    <3> QED
      BY <2>2, <2>4, <3>1, <3>2, <3>3, <3>4
  <2>7. ASSUME NEW i \in Steps, NEW j \in Steps, j < i, Done(i)' PROVE Done(j)'
    <3>1. i \in 1..index
      BY <2>6, <2>7
    <3>2. j \in 1..index
      BY <2>2, <2>7, <3>1
    <3> QED
      BY <2>6, <3>2
  <2>8. \A i \in Steps : /\ ~Done(i)' => steps'[i].output = NoResult
                         /\ steps'[i].status # "failed" => steps'[i].code = ""
    <3>1. \A i \in Steps : ~Done(i) => steps[i].output = NoResult
      BY DEF RowsInv
    <3>2. \A i \in Steps : ~Done(i)' => i # index
      BY <2>4
    <3> QED
      BY <1>0, <2>4, <3>1, <3>2
  <2>9. \A i \in {1, 2} : Done(i)' => PartOf(i, steps'[i].output)
    <3>1. ASSUME NEW i \in {1, 2}, i # index, Done(i)' PROVE PartOf(i, steps'[i].output)
      BY <2>4, <3>1 DEF RowsInv
    <3>2. index \in {1, 2} => PartOf(index, steps'[index].output)
      BY <2>3, <2>4
    <3> QED
      BY <3>1, <3>2
  <2>10. Done(3)' => MadeOf(steps'[3].output, steps'[1].output, steps'[2].output)
    <3>1. Done(3)' => index = 3
      BY <2>2, <2>6 DEF Done
    <3> QED
      BY <2>3, <2>4, <3>1
  <2> QED
    BY <2>7, <2>8, <2>9, <2>10 DEF RowsInv, PartOf, MadeOf
<1>4. CASE RecordFailure
  <2>1. index \in Steps /\ ~Done(index)
    <3>1. pc = "record"
      BY <1>4 DEF RecordFailure
    <3> QED
      BY <3>1 DEF RunInv, WorkInv, StatusAt
  <2>2. /\ steps'[index].status = "failed" /\ steps'[index].output = steps[index].output
        /\ \A i \in Steps \ {index} : steps'[i] = steps[i]
    BY <1>4, FailedRow
  <2>3. \A i \in Steps : /\ Done(i)' <=> Done(i)
                         /\ steps'[i].output = steps[i].output
                         /\ steps'[i].status # "failed" => steps'[i].code = ""
    BY <1>0, <2>1, <2>2
  <2> QED
    BY <2>3, RowsKept
<1>5. CASE FailRun
  <2>1. index \in Steps /\ ~Done(index) /\ \A i \in Steps : i > index => Waiting(i)
    <3>1. pc = "fail"
      BY <1>5 DEF FailRun
    <3> QED
      BY <3>1 DEF RunInv, WorkInv, StatusAt
  <2>2. \A i \in Steps : i > index => ~Done(i) /\ steps[i].status # "failed"
    BY <2>1 DEF RowsInv, Waiting
  <2>3. \A i \in Steps : /\ Done(i)' <=> Done(i)
                         /\ steps'[i].output = steps[i].output
                         /\ steps'[i].code = steps[i].code
                         /\ steps'[i].status = "failed" <=> steps[i].status = "failed"
    BY <1>5, <2>2, SkippedRows
  <2> QED
    BY <1>0, <2>3, RowsKept
<1>6. CASE Requeue
  <2>1. \A i \in Steps : /\ Done(i)' <=> Done(i)
                         /\ steps'[i].output = steps[i].output
                         /\ steps'[i].code = ""
    BY <1>0, <1>6, QueuedRows
  <2> QED
    BY <2>1, RowsKept
<1> QED
  BY <1>1, <1>2, <1>3, <1>4, <1>5, <1>6 DEF Next, Execution, CallsModelServer, Start, Claim,
     SkipCompleted, BeginStep, CallModel, RefuseContent, Compose, WaitBackoff, CompleteRun,
     Overdue, Retry, Restart, vars, rowVars

-----------------------------------------------------------------------------
(* The run.                                                                *)

\* A step accepts what the ones before it have put out.
LEMMA InputsFit ==
    ASSUME TypeOK, TimeInv, RowsInv, RunInv, pc = "step", index \in Steps
    PROVE  Mappable(index) /\ ValidInput(index)
<1>1. request.content # "blank"
  BY DEF RunInv, RequestInv, WorkInv
<1>2. CASE index \in {1, 2}
  BY <1>1, <1>2, TheSteps, TheInputs DEF ValidInput
<1>3. CASE index = 3
  <2>1. outputs[1] = steps[1].output /\ outputs[2] = steps[2].output
    BY <1>3, TheSteps DEF TypeOK
  <2>2. Done(1) /\ Done(2)
    BY <1>3, TheSteps DEF RunInv, WorkInv
  <2>3. PartOf(1, outputs[1]) /\ PartOf(2, outputs[2])
    BY <2>1, <2>2 DEF RowsInv
  <2>4. outputs[1] # NoResult /\ outputs[2] # NoResult
    BY <2>3, ResultAssumption DEF PartOf
  <2> QED
    BY <1>3, <2>3, <2>4, TheSteps, TheInputs DEF ValidInput, ValidParts, PartOf
<1> QED
  BY <1>2, <1>3, TheSteps

\* While the worker is at work, only its position and its result matter.
LEMMA StillAtWork ==
    ASSUME RunInv, pc # "idle", pc' # "idle", UNCHANGED <<status, code, request>>,
           met' \in Answers, WorkInv', ResultInv'
    PROVE  RunInv'
  BY DEF RunInv, WorkInv, FailureInv, RequestInv

\* When it is not, only the run's columns do.
LEMMA NotAtWork ==
    ASSUME RunInv, pc' = "idle", index' = 1, UNCHANGED <<request, met>>, code' = "",
           status' \in {"pending", "running", "completed"}, status # "none",
           status' = "pending" => \A i \in Steps : Waiting(i)'
    PROVE  RunInv'
  BY DEF RunInv, WorkInv, ResultInv, FailureInv, RequestInv

\* The worker moves from step to step in the order of the definition.
LEMMA PositionStep ==
    ASSUME TypeOK, TimeInv, RowsInv, RunInv, SkipCompleted \/ BeginStep \/ WaitBackoff
    PROVE  RunInv'
<1> USE TheSteps
<1>1. pc # "idle" /\ UNCHANGED <<rowVars, met>>
  BY DEF SkipCompleted, BeginStep, WaitBackoff
<1>2. UNCHANGED <<status, code, request, steps>> /\ met' \in Answers
  BY <1>1 DEF rowVars, RunInv, RequestInv
<1>3. CASE SkipCompleted
  <2>1. pc = "step" /\ pc' = "step" /\ index' = index + 1 /\ index \in Steps /\ Done(index)
    BY <1>3 DEF SkipCompleted, Done
  <2>2. WorkInv'
    BY <1>2, <2>1 DEF RunInv, WorkInv, Done, Waiting, StatusAt
  <2>3. ResultInv'
    BY <2>1 DEF ResultInv
  <2> QED
    BY <1>1, <1>2, <2>1, <2>2, <2>3, StillAtWork
<1>4. CASE BeginStep
  <2>1. pc = "step" /\ index' = index /\ index \in Steps /\ ~Done(index)
    BY <1>4 DEF BeginStep, Done
  <2>2. pc' = "attempt"
    BY <1>4, <2>1, InputsFit DEF BeginStep, AtWork
  <2>3. WorkInv'
    BY <1>2, <2>1, <2>2 DEF RunInv, WorkInv, Done, Waiting, StatusAt
  <2>4. ResultInv'
    BY <2>2 DEF ResultInv
  <2> QED
    BY <1>1, <1>2, <2>2, <2>3, <2>4, StillAtWork
<1>5. CASE WaitBackoff
  <2>1. pc = "backoff" /\ pc' = "attempt" /\ index' = index
    BY <1>5 DEF WaitBackoff, AtWork
  <2>2. WorkInv'
    BY <1>2, <2>1 DEF RunInv, WorkInv, Done, Waiting, StatusAt
  <2>3. ResultInv'
    BY <2>1 DEF ResultInv
  <2> QED
    BY <1>1, <1>2, <2>1, <2>2, <2>3, StillAtWork
<1> QED
  BY <1>3, <1>4, <1>5

\* An attempt begins with its row running, and ends with a result for it or with its cause.
LEMMA CallStep ==
    ASSUME TypeOK, TimeInv, RowsInv, RunInv, CallsModelServer \/ RefuseContent \/ Compose
    PROVE  RunInv'
<1> USE TheSteps
<1>1. /\ pc = "call" /\ pc' \in {"complete", "record"}
      /\ UNCHANGED <<status, code, request, steps, index>>
  BY DEF CallsModelServer, CallModel, RefuseContent, Compose, Returned, AtWork, rowVars
<1>2. WorkInv'
  BY <1>1 DEF RunInv, WorkInv, Done, Waiting, StatusAt
<1>3. ASSUME NEW a \in Answers, NEW d \in CallTimes \union {ModelTimeout}, CallModel(a, d)
      PROVE  ResultInv' /\ met' \in Answers
  <2>1. /\ index \in {1, 2} /\ request.content = "text" /\ met' = a
        /\ \/ pc' = "complete" /\ PartOf(index, result'.value)
           \/ /\ pc' = "record"
              /\ elapsed' < Deadline => Cause(a) # "none" /\ result'.error = Cause(a)
    BY <1>3, CallResult
  <2>2. CASE pc' = "complete" /\ PartOf(index, result'.value)
    BY <1>1, <2>1, <2>2 DEF ResultInv, PartOf
  <2>3. CASE /\ pc' = "record"
             /\ elapsed' < Deadline => Cause(a) # "none" /\ result'.error = Cause(a)
    <3>1. ErrorOfAttempt' = Cause(a)
      BY <1>1, <2>1 DEF ErrorOfAttempt
    <3>2. elapsed' < Deadline' <=> elapsed' < Deadline
      BY DEF Deadline, Margin
    <3> QED
      BY <2>1, <2>3, <3>1, <3>2 DEF ResultInv
  <2> QED
    BY <2>1, <2>2, <2>3
<1>4. CASE RefuseContent
  <2>1. /\ pc' = "record" /\ result' = Failure("content_too_long") /\ met' = met
        /\ request.content = "long"
    BY <1>4 DEF RefuseContent, Returned, AtWork, Failure
  <2>2. ErrorOfAttempt' = "content_too_long"
    BY <1>1, <2>1 DEF ErrorOfAttempt
  <2>3. ResultInv' /\ met' \in Answers
    BY <2>1, <2>2 DEF ResultInv, Failure, RunInv, RequestInv
  <2> QED
    BY <1>1, <1>2, <2>3, StillAtWork
<1>5. CASE Compose
  <2>1. /\ index = 3 /\ pc' = "complete" /\ met' = met
        /\ MadeOf(result'.value, steps[1].output, steps[2].output)
    BY <1>5, ComposeResult DEF RunInv, Compose
  <2>2. ResultInv' /\ met' \in Answers
    BY <1>1, <2>1 DEF ResultInv, MadeOf, RunInv, RequestInv
  <2> QED
    BY <1>1, <1>2, <2>2, StillAtWork
<1> QED
  BY <1>1, <1>2, <1>3, <1>4, <1>5, StillAtWork DEF CallsModelServer

\* The row of the worker's step follows its attempts.
LEMMA RowStep ==
    ASSUME TypeOK, TimeInv, RowsInv, RunInv, BeginAttempt \/ CompleteStep \/ RecordFailure
    PROVE  RunInv'
<1> USE TheSteps
<1>1. pc \in {"attempt", "complete", "record"} /\ UNCHANGED <<status, code, request, met>>
  BY DEF BeginAttempt, CompleteStep, RecordFailure
<1>2. /\ status = "running" /\ index \in Steps /\ met' \in Answers
      /\ \A i \in Steps : i < index => Done(i)
      /\ \A i \in Steps : i > index => Waiting(i)
  BY <1>1 DEF RunInv, WorkInv, RequestInv
<1>3. CASE BeginAttempt
  <2>1. pc' = "call" /\ index' = index
    BY <1>3 DEF BeginAttempt, AtWork
  <2>2. steps'[index].status = "running" /\ \A i \in Steps \ {index} : steps'[i] = steps[i]
    BY <1>3, AttemptRow
  <2>3. WorkInv'
    BY <1>1, <1>2, <2>1, <2>2 DEF WorkInv, Done, Waiting, StatusAt
  <2>4. ResultInv'
    BY <2>1 DEF ResultInv
  <2> QED
    BY <1>1, <1>2, <2>1, <2>3, <2>4, StillAtWork
<1>4. CASE CompleteStep
  <2>1. pc' = "step" /\ index' = index + 1
    BY <1>4 DEF CompleteStep
  <2>2. steps'[index].status = "completed" /\ \A i \in Steps \ {index} : steps'[i] = steps[i]
    BY <1>4, CompletedRow
  <2>3. \A i \in Steps : i < index' => Done(i)'
    <3>1. \A i \in Steps : i < index' => i = index \/ (i < index /\ i # index)
      BY <1>2, <2>1
    <3> QED
      BY <1>2, <2>2, <3>1 DEF Done
  <2>4. \A i \in Steps : i >= index' => Waiting(i)'
    <3>1. \A i \in Steps : i >= index' => i > index /\ i # index
      BY <1>2, <2>1
    <3> QED
      BY <1>2, <2>2, <3>1 DEF Waiting
  <2>5. \A i \in Steps : i > index' \/ i = index' => i >= index'
    BY <1>2, <2>1
  <2>6. WorkInv'
    BY <1>1, <1>2, <2>1, <2>3, <2>4, <2>5 DEF WorkInv, Waiting, StatusAt
  <2>7. ResultInv'
    BY <2>1 DEF ResultInv
  <2> QED
    BY <1>1, <1>2, <2>1, <2>6, <2>7, StillAtWork
<1>5. CASE RecordFailure
  <2>1. pc' \in {"backoff", "fail"} /\ UNCHANGED <<index, result>> /\ pc = "record"
    BY <1>5 DEF RecordFailure, AtWork
  <2>2. /\ steps'[index].status = "failed" /\ steps'[index].code = Category(result.error)
        /\ \A i \in Steps \ {index} : steps'[i] = steps[i]
    BY <1>5, FailedRow
  <2>3. WorkInv'
    BY <1>1, <1>2, <2>1, <2>2 DEF WorkInv, Done, Waiting, StatusAt
  <2>4. elapsed < Deadline
    <3>1. PICK delay \in StoreDelays : elapsed + delay < Deadline
      BY <1>5 DEF RecordFailure, StoreCall
    <3>2. delay \in Nat /\ elapsed \in Nat /\ Deadline \in Int
      BY TimeAssumption DEF TypeOK, Deadline, Margin
    <3> QED
      BY <3>1, <3>2
  <2>5. result.error = ErrorOfAttempt /\ result.error # "none"
    BY <2>1, <2>4 DEF RunInv, ResultInv
  <2>6. ErrorOfAttempt' = ErrorOfAttempt
    BY <1>1 DEF ErrorOfAttempt
  <2>7. ResultInv'
    BY <2>1, <2>2, <2>5, <2>6 DEF ResultInv
  <2> QED
    BY <1>1, <1>2, <2>1, <2>3, <2>7, StillAtWork
<1> QED
  BY <1>3, <1>4, <1>5

\* A run fails with the error of the one step that failed.
LEMMA FailStep ==
    ASSUME TypeOK, TimeInv, RowsInv, RunInv, FailRun
    PROVE  RunInv'
<1> USE TheSteps
<1>1. /\ pc = "fail" /\ pc' = "idle" /\ index' = 1 /\ status' = "failed"
      /\ code' = IF result.error \in InputErrors THEN result.error ELSE Category(result.error)
      /\ UNCHANGED <<request, met>>
  BY DEF FailRun, Idle
<1>2. /\ status = "running" /\ index \in Steps /\ steps[index].status = "failed"
      /\ \A i \in Steps : i < index => Done(i)
  BY <1>1 DEF RunInv, WorkInv, StatusAt
<1>3. /\ result.error = ErrorOfAttempt /\ result.error # "none"
      /\ steps[index].code = Category(result.error)
  BY <1>1 DEF RunInv, ResultInv
<1>4. ErrorOfAttempt' = ErrorOfAttempt
  BY <1>1 DEF ErrorOfAttempt
<1>5. code' = Category(ErrorOfAttempt)
  <2>1. ErrorOfAttempt \notin InputErrors
    BY Causes DEF ErrorOfAttempt, InputErrors, RunInv, RequestInv
  <2> QED
    BY <1>1, <1>3, <2>1
<1>6. steps'[index].status = "failed" /\ steps'[index].code = code'
  BY <1>2, <1>3, <1>5, SkippedRows
<1>7. \A i \in Steps \ {index} : steps'[i].status # "failed"
  <2>1. \A i \in Steps : i > index => steps'[i].status = "skipped"
    BY SkippedRows
  <2>2. \A i \in Steps : i < index => steps'[i].status = "completed"
    <3>1. \A i \in Steps : i < index => ~(i > index)
      BY <1>2
    <3> QED
      BY <1>2, <3>1, SkippedRows DEF Done
  <2>3. \A i \in Steps \ {index} : i > index \/ i < index
    BY <1>2
  <2> QED
    BY <2>1, <2>2, <2>3
<1>8. FailureInv'
  BY <1>1, <1>2, <1>3, <1>4, <1>5, <1>6, <1>7 DEF FailureInv
<1>9. WorkInv' /\ ResultInv' /\ RequestInv'
  BY <1>1, <1>2 DEF WorkInv, ResultInv, RequestInv, RunInv
<1> QED
  BY <1>1, <1>8, <1>9 DEF RunInv

\* Every step keeps what the run's status and the worker's position say of the rows.
LEMMA RunStep ==
    ASSUME TypeOK, TimeInv, RowsInv, RunInv, [Next]_vars
    PROVE  RunInv'
<1>1. ASSUME NEW req \in Requests, Start(req) PROVE RunInv'
  <2>1. /\ status = "none" /\ status' = "pending" /\ UNCHANGED <<code, steps, pc, index, met>>
        /\ req.content # "blank" /\ request'.content = req.content
    BY <1>1 DEF Start, localVars
  <2>2. pc = "idle" /\ code = "" /\ \A i \in Steps : Waiting(i)
    BY <2>1 DEF RunInv, WorkInv, FailureInv
  <2>3. request'.content \in {"text", "long"}
    BY <2>1 DEF Requests, Contents
  <2> QED
    BY <2>1, <2>2, <2>3
       DEF RunInv, WorkInv, ResultInv, FailureInv, RequestInv, Waiting
<1>2. CASE Claim
  <2>1. /\ pc = "idle" /\ pc' = "step" /\ status = "pending" /\ status' = "running"
        /\ UNCHANGED <<request, code, steps, index, met>>
    BY <1>2 DEF Claim
  <2>2. index = 1 /\ code = "" /\ \A i \in Steps : Waiting(i)
    BY <2>1 DEF RunInv, WorkInv, FailureInv
  <2>3. WorkInv'
    <3>0. 1 \in Steps /\ \A i \in Steps : ~(i < 1)
      BY TheSteps
    <3>1. index' = 1 /\ index' \in Steps /\ \A i \in Steps : ~(i < index')
      <4>1. index' = 1
        BY <2>1, <2>2
      <4> QED
        BY <3>0, <4>1
    <3>2. \A i \in Steps : Waiting(i)'
      BY <2>1, <2>2 DEF Waiting
    <3>3. steps'[index'].status \in StatusAt(pc')
      BY <2>1, <3>1, <3>2 DEF Waiting, StatusAt
    <3> QED
      BY <2>1, <3>1, <3>2, <3>3 DEF WorkInv, StatusAt
  <2> QED
    BY <2>1, <2>2, <2>3 DEF RunInv, ResultInv, FailureInv, RequestInv
<1>3. CASE CompleteRun \/ Overdue
  <2>1. pc # "idle"
    BY <1>3 DEF CompleteRun, Overdue, CallsStore
  <2>2. status = "running" /\ code = ""
    BY <2>1 DEF RunInv, WorkInv, FailureInv
  <2>3. /\ pc' = "idle" /\ index' = 1 /\ UNCHANGED <<request, met, code>>
        /\ status' \in {"running", "completed"}
    BY <1>3, <2>2 DEF CompleteRun, Overdue, Idle, rowVars
  <2> QED
    BY <2>2, <2>3, NotAtWork
<1>4. CASE Requeue /\ pc' = "idle" /\ index' = 1 /\ UNCHANGED <<request, met>> /\ status # "none"
  <2>1. \A i \in Steps : Waiting(i)'
    BY <1>4, QueuedRows DEF Waiting, Done
  <2> QED
    BY <1>4, <2>1, NotAtWork DEF Requeue
<1>5. CASE Retry
  <2>1. status = "failed" /\ Requeue /\ UNCHANGED <<request, pc, index, met>>
    BY <1>5 DEF Retry, localVars
  <2>2. pc = "idle" /\ index = 1
    BY <2>1 DEF RunInv, WorkInv
  <2> QED
    BY <1>4, <2>1, <2>2
<1>6. CASE Restart
  <2>1. pc' = "idle" /\ index' = 1 /\ UNCHANGED <<request, met>>
    BY <1>6 DEF Restart, Idle
  <2>2. CASE status \in {"pending", "running"}
    BY <1>4, <1>6, <2>1, <2>2 DEF Restart
  <2>3. CASE status \notin {"pending", "running"}
    <3>1. UNCHANGED <<status, code, steps>>
      BY <1>6, <2>3 DEF Restart
    <3>2. FailureInv' /\ RequestInv'
      BY <2>1, <3>1 DEF FailureInv, RequestInv, RunInv, ErrorOfAttempt
    <3>3. WorkInv' /\ ResultInv'
      BY <2>1 DEF WorkInv, ResultInv
    <3> QED
      BY <3>1, <3>2, <3>3 DEF RunInv, Waiting
  <2> QED
    BY <2>2, <2>3
<1>7. CASE UNCHANGED vars
  BY <1>7 DEF vars, rowVars, localVars, RunInv, WorkInv, ResultInv, FailureInv, RequestInv,
     Waiting, Done, ErrorOfAttempt, Deadline, Margin, MadeOf, PartOf
<1> QED
  BY <1>1, <1>2, <1>3, <1>5, <1>6, <1>7, PositionStep, CallStep, RowStep, FailStep
     DEF Next, Execution

\* The initial state.
LEMMA InitData == Init => DataInv
<1> SUFFICES ASSUME Init PROVE DataInv
  OBVIOUS
<1> USE TheSteps
<1>1. /\ model \in [Profiles -> Models] /\ status = "none" /\ code = "" /\ pc = "idle"
      /\ index = 1 /\ try = 0 /\ result = Failure("none") /\ outputs = [i \in Steps |-> NoResult]
      /\ elapsed = 0 /\ inStore = 0 /\ met = Silence
      /\ steps = [i \in Steps |-> FreshStep]
  BY DEF Init
<1>2. [status |-> "pending", code |-> "", output |-> NoResult] \in StepRow
  BY DEF StepRow, Codes, Outputs
<1>3. steps \in [Steps -> StepRow]
  BY <1>1, <1>2 DEF FreshStep
<1>4. \A i \in Steps : /\ steps[i].status = "pending" /\ steps[i].code = ""
                       /\ steps[i].output = NoResult
  BY <1>1 DEF FreshStep
<1>5. TypeOK
  <2>1. result.value \in Outputs /\ "" \in Codes
    BY <1>1 DEF Failure, Outputs, Codes
  <2>2. Deadline \in Nat
    BY TimeAssumption DEF Deadline, Margin
  <2>3. outputs = [i \in Steps |-> IF i < index THEN steps[i].output ELSE NoResult]
    <3>1. index = 1
      BY <1>1
    <3>2. \A i \in Steps : ~(i < 1)
      OBVIOUS
    <3> QED
      BY <1>1, <3>1, <3>2
  <2>4. index \in 1..4 /\ try \in 0..2 /\ elapsed \in 0..Deadline /\ inStore \in 0..elapsed
    <3>1. index = 1 /\ try = 0 /\ elapsed = 0 /\ inStore = 0
      BY <1>1
    <3> QED
      BY <2>2, <3>1
  <2> QED
    BY <1>1, <1>3, <2>1, <2>3, <2>4 DEF TypeOK, StepRow
<1>6. RowsInv
  BY <1>4 DEF RowsInv, Done
<1>7. RunInv
  <2>1. met \in Answers
    BY <1>1 DEF Silence, Answers
  <2> QED
    BY <1>1, <1>4, <2>1 DEF RunInv, WorkInv, ResultInv, FailureInv, RequestInv, Waiting
<1> QED
  BY <1>5, <1>6, <1>7 DEF DataInv

\* TimeInv and DataInv are inductive together.
LEMMA DataStep == TimeInv /\ DataInv /\ [Next]_vars => TimeInv' /\ DataInv'
<1> SUFFICES ASSUME TimeInv, DataInv, [Next]_vars PROVE TimeInv' /\ DataInv'
  OBVIOUS
<1>1. TypeOK /\ RowsInv /\ RunInv /\ WorkInv
  BY DEF DataInv, RunInv
<1>2. TimeInv'
  BY TimeStep
<1>3. TypeOK'
  BY <1>1, <1>2, TypeStep
<1>4. RowsInv' /\ RunInv'
  BY <1>1, RowsStep, RunStep
<1> QED
  BY <1>2, <1>3, <1>4 DEF DataInv

\* The invariant that the properties below follow from.
THEOREM DataTheorem == Spec => []DataInv
  BY InitTime, InitData, DataStep, PTL DEF Spec

-----------------------------------------------------------------------------
(* What follows.                                                           *)

\* Types, and that the outputs the worker carries are those of the rows before its step.
THEOREM TypeTheorem == Spec => []TypeOK
<1>1. DataInv => TypeOK
  BY DEF DataInv
<1> QED
  BY <1>1, DataTheorem, PTL

\* The dashboard is made of the artifacts of its own run, each in its place, and names the
\* models they come from, whatever models the configurations of several processes name.
THEOREM DashboardTheorem == Spec => []DashboardIsOfItsRun
<1>1. DataInv => DashboardIsOfItsRun
  <2> SUFFICES ASSUME DataInv, steps[3].output # NoResult PROVE DashboardIsOfItsRun
    BY DEF DashboardIsOfItsRun
  <2>1. Done(3) /\ Done(1) /\ Done(2)
    <3>1. Done(3)
      BY TheSteps DEF DataInv, RowsInv
    <3>2. \A j \in Steps : j < 3 => Done(j)
      BY <3>1, TheSteps DEF DataInv, RowsInv
    <3> QED
      BY <3>1, <3>2, TheSteps
  <2>2. /\ MadeOf(steps[3].output, steps[1].output, steps[2].output)
        /\ PartOf(1, steps[1].output) /\ PartOf(2, steps[2].output)
    BY <2>1 DEF DataInv, RowsInv
  <2> QED
    BY <2>2 DEF MadeOf, PartOf, DashboardIsOfItsRun
<1> QED
  BY <1>1, DataTheorem, PTL

\* An error is shown until the next attempt and no longer, and a failed run shows that of
\* its only failed step.
THEOREM ErrorsTheorem == Spec => []ErrorsAreCurrent
<1>1. DataInv => ErrorsAreCurrent
  <2> SUFFICES ASSUME DataInv PROVE ErrorsAreCurrent
    OBVIOUS
  <2>1. \A i \in Steps : steps[i].status \in {"pending", "completed", "skipped"}
                           => steps[i].code = ""
    BY DEF DataInv, RowsInv
  <2>2. status # "failed" => code = ""
    BY DEF DataInv, RunInv, FailureInv
  <2>3. ASSUME status = "failed"
        PROVE  {steps[i].code : i \in {j \in Steps : steps[j].status = "failed"}} = {code}
    <3>1. PICK k \in Steps : /\ steps[k].status = "failed" /\ steps[k].code = code
                             /\ \A i \in Steps \ {k} : steps[i].status # "failed"
      BY <2>3 DEF DataInv, RunInv, FailureInv
    <3>2. {j \in Steps : steps[j].status = "failed"} = {k}
      BY <3>1
    <3> QED
      BY <3>1, <3>2
  <2> QED
    BY <2>1, <2>2, <2>3 DEF ErrorsAreCurrent
<1> QED
  BY <1>1, DataTheorem, PTL

\* A run fails because of a model or of content that is too long: what one step puts out the
\* next ones accept, through restarts and retries.
THEOREM ModelsTheorem == Spec => []OnlyModelsFail
<1>1. DataInv => OnlyModelsFail
  <2> SUFFICES ASSUME DataInv, status = "failed" PROVE OnlyModelsFail
    BY DEF OnlyModelsFail
  <2>1. /\ ErrorOfAttempt # "none" /\ code = Category(ErrorOfAttempt)
        /\ request.content \in {"text", "long"} /\ met \in Answers
    BY DEF DataInv, RunInv, FailureInv, RequestInv
  <2>2. CASE request.content = "long"
    BY <2>1, <2>2 DEF ErrorOfAttempt, Category, OnlyModelsFail
  <2>3. CASE request.content = "text"
    <3>1. Cause(met) \in {"deadline", "unavailable", "model_not_found", "invalid_response"}
          /\ code = Category(Cause(met))
      BY <2>1, <2>3, Causes DEF ErrorOfAttempt
    <3> QED
      BY <2>3, <3>1 DEF Category, OnlyModelsFail
  <2> QED
    BY <2>1, <2>2, <2>3
<1> QED
  BY <1>1, DataTheorem, PTL

\* The cause of a failure, by what was met.
LEMMA CauseOf ==
    ASSUME NEW a \in Answers, Cause(a) # "none"
    PROVE  CASE Silent(a)                                -> Cause(a) = "deadline"
             [] ~Silent(a) /\ a.status = "ok"            -> Cause(a) = "invalid_response"
             [] ~Silent(a) /\ a.status \in {"not_found", "failed"} ->
                    Cause(a) \in {"model_not_found", "unavailable"}
             [] OTHER                                    -> Cause(a) = "unavailable"
<1>1. a.status \in {"none", "ok", "not_found", "failed"} /\ a.late \in BOOLEAN
  BY DEF Answers
<1>2. CASE a.status = "none"
  BY <1>1, <1>2 DEF Cause, Generate, Silent, Failure, Success
<1>3. CASE a.status = "ok"
  BY <1>1, <1>3 DEF Cause, Generate, Silent, Failure, Success
<1>4. CASE a.status \in {"not_found", "failed"}
  BY <1>1, <1>4 DEF Cause, Generate, Silent, Failure, Success
<1> QED
  BY <1>1, <1>2, <1>3, <1>4

\* The code of a failed run tells apart what its last attempt met, and says the same as the
\* summary endpoint does of the same answer.
THEOREM CauseTheorem == Spec => []CauseIsTold
<1>1. DataInv => CauseIsTold
  <2> SUFFICES ASSUME DataInv, status = "failed", request.content = "text" PROVE CauseIsTold
    BY DEF CauseIsTold
  <2> DEFINE e == Cause(met)
  <2>1. met \in Answers /\ e # "none" /\ code = Category(e)
    BY DEF DataInv, RunInv, FailureInv, RequestInv, ErrorOfAttempt
  <2>2. e \in {"deadline", "unavailable", "model_not_found", "invalid_response"}
    BY <2>1, Causes
  <2>3. Summarize("text", TRUE, met) = EndpointCode(e)
    <3> DEFINE m == model[Resolve("summarize_text", "")]
    <3>1. Summarized("text", 1, m, met) = Failure(e)
      BY <2>1, Answered
    <3>2. Summarized("text", 1, m, met).error = e
      <4>1. Failure(e).error = e
        BY DEF Failure
      <4> QED
        BY <3>1, <4>1, Zenon
    <3>3. Summarize("text", TRUE, met) = EndpointCode(Summarized("text", 1, m, met).error)
      BY DEF Summarize
    <3> QED
      BY <3>2, <3>3
  <2>4. EndpointCode(e) = Synonym[Category(e)]
    BY <2>2 DEF EndpointCode, Synonym, Category
  <2>5. met.status \in {"none", "ok", "not_found", "failed"}
    BY <2>1 DEF Answers
  <2>6. /\ e = "deadline" <=> Silent(met)
        /\ e = "invalid_response" <=> met.status = "ok"
        /\ e = "model_not_found" => met.status \in {"not_found", "failed"}
    BY <2>1, <2>5, CauseOf DEF Silent
  <2>7. /\ code = "timeout" <=> e = "deadline"
        /\ code = "invalid_model_response" <=> e = "invalid_response"
        /\ code = "model_unavailable" <=> e = "model_not_found"
    BY <2>1, <2>2 DEF Category
  <2> HIDE DEF e
  <2> QED
    BY <2>1, <2>3, <2>4, <2>6, <2>7 DEF CauseIsTold
<1> QED
  BY <1>1, DataTheorem, PTL

=============================================================================
