---------------------------- MODULE ManualSummary ----------------------------
(***************************************************************************)
(* A run of the manual summary as data and time: which request is started  *)
(* as which workflow (internal/orchestration), what the executor hands     *)
(* from step to step (internal/workflow/manual.go and the data side of     *)
(* execute), what the model server may answer and what becomes of it       *)
(* (internal/llm, internal/summary, internal/capability,                   *)
(* internal/modelrouter), and how long all this takes.                     *)
(*                                                                         *)
(* WorkflowEngine has the interleavings of the worker with handlers,       *)
(* cancellation and crashes between single store calls.  Here one run is   *)
(* executed, restarted with other models, and retried.                     *)
(***************************************************************************)
EXTENDS Integers, Sequences, FiniteSets

CONSTANTS Models,        \* names of models
          NoResult,      \* no output
          Registered,    \* the registered definitions: id, version, enabled
          ModelTimeout,  \* OLLAMA_GENERATE_TIMEOUT, in units of the backoff
          CallTimes,     \* how long a model may take to answer
          StoreDelays,   \* how long a store call may take
          MaxRestarts, MaxRetries  \* bounds

\* Durations are in units of 250 ms.
Backoff == 1
Margin == 60

\* Mutation: the workflow has time for one attempt of each model-backed step.
Deadline_Once == 2 * ModelTimeout + Margin

\* The timeout of the workflow.
Deadline == 4 * ModelTimeout + Margin

ASSUME TimeAssumption ==
    /\ ModelTimeout \in Nat \ {0}
    /\ CallTimes \subseteq 0..ModelTimeout
    /\ StoreDelays \subseteq Nat
    /\ MaxRestarts \in Nat /\ MaxRetries \in Nat

-----------------------------------------------------------------------------
(* What main wires together.                                               *)

\* (The third, "coding", is used by no capability.)
Profiles == {"general", "reasoning"}

\* The profile of each capability that calls a model.
Mapping == [summarize_text |-> "general", classify_text |-> "general",
            extract_action_items |-> "reasoning"]

Capabilities == DOMAIN Mapping \union {"compose_dashboard_result"}

Served == "manual-summary"

Rules == [manual_text |-> Served, slack_thread |-> Served]

\* The steps of the manual summary.  An input is the content of the request, 0, or the
\* output of an earlier step.
Definition ==
    << [capability |-> "summarize_text", profile |-> "general", attempts |-> 2,
        inputs |-> [content |-> 0], after |-> {}],
       [capability |-> "extract_action_items", profile |-> "reasoning", attempts |-> 2,
        inputs |-> [content |-> 0], after |-> {}],
       [capability |-> "compose_dashboard_result", profile |-> "", attempts |-> 1,
        inputs |-> [summary |-> 1, actions |-> 2], after |-> {1, 2}] >>

Steps == DOMAIN Definition

CallsModel(i) == Definition[i].capability \in DOMAIN Mapping

\* Validate: a step depends on earlier ones.
Valid == \A i \in Steps : /\ Definition[i].after \subseteq 1..i-1
                         /\ Definition[i].attempts >= 1

\* What NewExecutor and the router's New ask for.
Supported == \A i \in Steps : Definition[i].capability \in Capabilities

Routed == \A c \in DOMAIN Mapping : Mapping[c] \in Profiles

\* main exits without it.
Wired == Valid /\ Supported /\ Routed

VARIABLES
    model,      \* the model of each profile
    request,    \* the run's request: type, explicit choice, content, selected workflow
    status,     \* the run's status, "none" before there is one
    code,       \* the run's error_code, "" for none
    steps,      \* rows of step_runs: status, error_code, output
    pc,         \* where the worker is in execute
    index, try, \* its step, and its attempt at it
    outputs,    \* its map of outputs
    result,     \* the result or error of the last Execute
    elapsed,    \* time since execute began
    inStore,    \* history: the part of it that store calls took
    met,        \* history: what the last attempt met
    restarts, retries  \* bounds

rowVars   == <<request, status, code, steps>>
localVars == <<pc, index, try, outputs, result, elapsed, inStore, met>>

vars == <<model, rowVars, localVars, restarts, retries>>

Contents == {"text", "blank", "long"}   \* long: over 50 000 characters

Requests == [type : {"manual_text", "slack_thread", "other"},
             explicit : {""} \union {d.id : d \in Registered}, content : Contents]

NoRequest == [type |-> "", explicit |-> "", content |-> "", workflow |-> ""]

Success(value) == [error |-> "none", value |-> value]

Failure(error) == [error |-> error, value |-> NoResult]

FreshStep == [status |-> "pending", code |-> "", output |-> NoResult]

\* The model server: a status, a body, and whether the deadline of the call passed before
\* the headers, or before the end of the body.
Answers ==
    {a \in [status : {"none", "ok", "not_found", "failed"}, late : BOOLEAN,
            body : {"undecodable", "error", "model_error", "empty",
                    "malformed", "blank", "oversized", "good"}] :
        a.status = "none" \/ a.late => a.body = "undecodable"}

Silence == [status |-> "none", late |-> TRUE, body |-> "undecodable"]

AtWork(p) == /\ pc' = p
             /\ UNCHANGED outputs

Idle == /\ pc' = "idle" /\ index' = 1 /\ try' = 0 /\ result' = Failure("none")
        /\ outputs' = [i \in Steps |-> NoResult]
        /\ elapsed' = 0 /\ inStore' = 0

Init ==
    /\ Wired
    /\ model \in [Profiles -> Models]
    /\ request = NoRequest /\ status = "none" /\ code = ""
    /\ steps = [i \in Steps |-> FreshStep]
    /\ pc = "idle" /\ index = 1 /\ try = 0 /\ result = Failure("none")
    /\ outputs = [i \in Steps |-> NoResult]
    /\ elapsed = 0 /\ inStore = 0
    /\ met = Silence
    /\ restarts = 0 /\ retries = 0

-----------------------------------------------------------------------------
(* Selecting a workflow and starting the run.                              *)

Resolvable(id) == \E d \in Registered : d.id = id /\ d.enabled

\* The caller's choice, else the rule for the request's type; "" if there is neither, or if
\* what was chosen has no enabled version.
Select(req) ==
    LET choice == CASE req.explicit # ""                              -> req.explicit
                    [] req.explicit = "" /\ req.type \in DOMAIN Rules -> Rules[req.type]
                    [] OTHER                                          -> ""
    IN IF Resolvable(choice) THEN choice ELSE ""

\* Mutation: whatever is registered is handed to the executor.
Serves_Any(workflow) == workflow # ""

\* The executor behind the service runs one workflow.
Serves(workflow) == workflow = Served

Start(req) ==
    /\ status = "none"
    /\ Serves(Select(req))
    /\ req.content # "blank"
    /\ request' = [type |-> req.type, explicit |-> req.explicit, content |-> req.content,
                   workflow |-> Select(req)]
    /\ status' = "pending"
    /\ UNCHANGED <<model, code, steps, localVars, restarts, retries>>

-----------------------------------------------------------------------------
(* A call to a model.                                                      *)

\* The override is the profile of the step.
Resolve(capability, override) == IF override # "" THEN override ELSE Mapping[capability]

\* The model that answers for a step.
Bound(i) == model[Resolve(Definition[i].capability, Definition[i].profile)]

\* OllamaClient.Generate: an error, or the body's text.
Generate(a) ==
    CASE a.status = "none" /\ a.late                          -> Failure("deadline")
      [] a.status = "none" /\ ~a.late                         -> Failure("unavailable")
      [] a.status = "not_found"                               -> Failure("model_not_found")
      [] a.status = "failed" /\ a.body = "model_error"        -> Failure("model_not_found")
      [] a.status = "failed" /\ a.body # "model_error"        -> Failure("unavailable")
      [] a.status = "ok" /\ a.body \in {"undecodable", "error", "model_error", "empty"} ->
             Failure("invalid_response")
      [] OTHER                                                -> Success(a.body)

\* Mutation: a blank summary is as good as any.
WellFormed_Blank(text) == text \in {"good", "blank"}

\* One JSON object with a summary that is not blank, and nothing after it.
WellFormed(text) == text = "good"

\* summary.Service.Generate: the summary, as the step and the model it comes from.
Summarized(content, i, m, a) ==
    CASE content = "blank" -> Failure("content_required")
      [] content = "long"  -> Failure("content_too_long")
      [] OTHER -> LET generation == Generate(a)
                      failed == generation.error # "none"
                  IN CASE failed                                    -> generation
                       [] ~failed /\ ~WellFormed(generation.value) ->
                              Failure("invalid_response")
                       [] OTHER -> Success([of |-> i, by |-> m,
                                            blank |-> generation.value = "blank"])

\* Mutation: a deadline that has passed is a provider that is not there.
Category_NoTimeout(error) ==
    CASE error \in {"deadline", "unavailable"} -> "provider_unavailable"
      [] error = "model_not_found"  -> "model_unavailable"
      [] error = "invalid_response" -> "invalid_model_response"
      [] OTHER                      -> "capability_failed"

\* errorCategory.
Category(error) ==
    CASE error = "deadline"         -> "timeout"
      [] error = "model_not_found"  -> "model_unavailable"
      [] error = "unavailable"      -> "provider_unavailable"
      [] error = "invalid_response" -> "invalid_model_response"
      [] OTHER                      -> "capability_failed"

\* The codes with which the summary endpoint answers.
EndpointCode(error) ==
    CASE error = "none"             -> "ok"
      [] error = "content_required" -> "content_required"
      [] error = "invalid_type"     -> "invalid_summary_type"
      [] error = "content_too_long" -> "content_too_long"
      [] error = "model_not_found"  -> "model_unavailable"
      [] error = "unavailable"      -> "ollama_unavailable"
      [] error = "deadline"         -> "generation_timeout"
      [] error = "invalid_response" -> "invalid_model_response"

\* POST /summaries/generate: the code it answers a request with that meets this answer.
Summarize(content, known, a) ==
    EndpointCode(IF content = "text" /\ ~known THEN "invalid_type"
                 ELSE Summarized(content, 1, model[Resolve("summarize_text", "")], a).error)

-----------------------------------------------------------------------------
(* execute.                                                                *)

Min2(a, b) == IF a < b THEN a ELSE b

\* A store call that is over before the deadline of the run.
StoreCall ==
    \E delay \in StoreDelays :
        /\ elapsed + delay < Deadline
        /\ elapsed' = elapsed + delay
        /\ inStore' = inStore + delay

Claim ==
    /\ pc = "idle" /\ status = "pending"
    /\ status' = "running"
    /\ pc' = "step"
    /\ UNCHANGED <<model, request, code, steps, index, try, outputs, result, elapsed, inStore,
                   met, restarts, retries>>

SkipCompleted ==
    /\ pc = "step" /\ index \in Steps /\ steps[index].status = "completed"
    /\ outputs' = [outputs EXCEPT ![index] = steps[index].output]
    /\ index' = index + 1
    /\ UNCHANGED <<model, rowVars, pc, try, result, elapsed, inStore, met,
                   restarts, retries>>

\* mapInput.
Mappable(i) == \A t \in DOMAIN Definition[i].inputs :
    LET source == Definition[i].inputs[t] IN source # 0 => outputs[source] # NoResult

\* Mutation: the dashboard's two parts are taken from each other's step.
Input_Swapped(i, t) == outputs[3 - Definition[i].inputs[t]]

Input(i, t) == outputs[Definition[i].inputs[t]]

ValidParts(i) == ~Input(i, "summary").blank /\ ~Input(i, "actions").blank

\* ValidateInput of the step's capability, of an input that could be mapped.
ValidInput(i) ==
    Mappable(i) => IF CallsModel(i) THEN request.content # "blank" ELSE ValidParts(i)

BeginStep ==
    /\ pc = "step" /\ index \in Steps /\ steps[index].status # "completed"
    /\ StoreCall
    /\ CASE ~Mappable(index)   -> AtWork("fail") /\ result' = Failure("input_mapping_failed")
         [] ~ValidInput(index) -> AtWork("fail") /\ result' = Failure("invalid_capability_input")
         [] OTHER              -> AtWork("attempt") /\ UNCHANGED result
    /\ try' = 1
    /\ UNCHANGED <<model, rowVars, index, met, restarts, retries>>

\* Mutation: the error of the attempt before stays in the row.
BeginAttempt_KeepsError ==
    /\ pc = "attempt"
    /\ StoreCall
    /\ steps' = [steps EXCEPT ![index].status = "running"]
    /\ AtWork("call")
    /\ UNCHANGED <<model, request, status, code, index, try, result, met,
                   restarts, retries>>

BeginAttempt ==
    /\ pc = "attempt"
    /\ StoreCall
    /\ steps' = [steps EXCEPT ![index].status = "running", ![index].code = ""]
    /\ AtWork("call")
    /\ UNCHANGED <<model, request, status, code, index, try, result, met,
                   restarts, retries>>

Returned(outcome) == /\ result' = outcome
                     /\ AtWork(IF outcome.error = "none" THEN "complete" ELSE "record")

\* The service refuses the content before it calls a model.
RefuseContent ==
    /\ pc = "call" /\ CallsModel(index) /\ request.content = "long"
    /\ Returned(Failure("content_too_long"))
    /\ UNCHANGED <<model, rowVars, index, try, elapsed, inStore, met, restarts, retries>>

\* Execute of a capability that calls a model: an answer within the step's timeout, the end
\* of it, or the deadline of the run if that is earlier.
CallModel(a, d) ==
    /\ pc = "call" /\ CallsModel(index) /\ request.content = "text"
    /\ d = ModelTimeout <=> a.late
    /\ IF elapsed + d < Deadline
       THEN /\ Returned(Summarized(request.content, index, Bound(index), a))
            /\ elapsed' = elapsed + d
       ELSE /\ Returned(Failure("deadline"))
            /\ elapsed' = Deadline
    /\ met' = a
    /\ UNCHANGED <<model, rowVars, index, try, inStore, restarts, retries>>

\* Execute of compose_dashboard_result: the two texts, and their models without repetition.
Compose ==
    /\ pc = "call" /\ ~CallsModel(index)
    /\ LET summary == Input(index, "summary")
           actions == Input(index, "actions")
       IN Returned(Success([summary |-> summary, actions |-> actions,
                            models |-> IF actions.by = summary.by THEN <<summary.by>>
                                       ELSE <<summary.by, actions.by>>]))
    /\ UNCHANGED <<model, rowVars, index, try, elapsed, inStore, met, restarts, retries>>

CompleteStep ==
    /\ pc = "complete"
    /\ StoreCall
    /\ steps' = [steps EXCEPT ![index].status = "completed", ![index].output = result.value]
    /\ outputs' = [outputs EXCEPT ![index] = result.value]
    /\ index' = index + 1
    /\ pc' = "step"
    /\ UNCHANGED <<model, request, status, code, try, result, met, restarts, retries>>

\* Mutation: one attempt more.
AttemptsLeft_OneMore == try <= Definition[index].attempts

AttemptsLeft == try < Definition[index].attempts

RecordFailure ==
    /\ pc = "record"
    /\ StoreCall
    /\ steps' = [steps EXCEPT ![index].status = "failed", ![index].code = Category(result.error)]
    /\ AtWork(IF AttemptsLeft THEN "backoff" ELSE "fail")
    /\ UNCHANGED <<model, request, status, code, index, try, result, met, restarts, retries>>

WaitBackoff ==
    /\ pc = "backoff"
    /\ elapsed' = Min2(elapsed + Backoff, Deadline)
    /\ try' = try + 1
    /\ AtWork("attempt")
    /\ UNCHANGED <<model, rowVars, index, result, inStore, met, restarts, retries>>

InputErrors == {"input_mapping_failed", "invalid_capability_input"}

\* failRun, whose store calls the deadline does not end.
FailRun ==
    /\ pc = "fail"
    /\ status' = "failed"
    /\ code' = IF result.error \in InputErrors THEN result.error ELSE Category(result.error)
    /\ steps' = [i \in Steps |-> IF i > index THEN [steps[i] EXCEPT !.status = "skipped"]
                                 ELSE steps[i]]
    /\ Idle
    /\ UNCHANGED <<model, request, met, restarts, retries>>

CompleteRun ==
    /\ pc = "step" /\ index \notin Steps
    /\ \E delay \in StoreDelays : elapsed + delay < Deadline
    /\ status' = "completed"
    /\ Idle
    /\ UNCHANGED <<model, request, code, steps, met, restarts, retries>>

CallsStore == \/ pc \in {"attempt", "complete", "record"}
              \/ pc = "step" /\ ~(index \in Steps /\ steps[index].status = "completed")

\* A store call ends with the deadline of the run: execute returns its error and the run is
\* left running.
Overdue ==
    /\ CallsStore
    /\ \E delay \in StoreDelays : elapsed + delay >= Deadline
    /\ Idle
    /\ UNCHANGED <<model, rowVars, met, restarts, retries>>

-----------------------------------------------------------------------------
(* Retry, and a restart with other settings.                               *)

Requeue == /\ status' = "pending"
           /\ code' = ""
           /\ steps' = [i \in Steps |-> IF steps[i].status = "completed" THEN steps[i]
                                        ELSE FreshStep]

Retry ==
    /\ status = "failed" /\ retries < MaxRetries
    /\ retries' = retries + 1
    /\ Requeue
    /\ UNCHANGED <<model, request, localVars, restarts>>

\* The process ends, anywhere, and comes back with the models of another configuration.
Restart ==
    /\ restarts < MaxRestarts
    /\ restarts' = restarts + 1
    /\ model' \in [Profiles -> Models]
    /\ IF status \in {"pending", "running"} THEN Requeue ELSE UNCHANGED <<status, code, steps>>
    /\ Idle
    /\ UNCHANGED <<request, met, retries>>

CallsModelServer == \E a \in Answers, d \in CallTimes \union {ModelTimeout} : CallModel(a, d)

Execution == \/ Claim \/ SkipCompleted \/ BeginStep \/ BeginAttempt
             \/ CallsModelServer
             \/ RefuseContent \/ Compose \/ CompleteStep \/ RecordFailure \/ WaitBackoff
             \/ FailRun \/ CompleteRun \/ Overdue

Next == \/ \E req \in Requests : Start(req)
        \/ Execution \/ Retry \/ Restart

Spec == Init /\ [][Next]_vars

-----------------------------------------------------------------------------
(* Properties.                                                             *)

Parts == [of : Steps, by : Models, blank : BOOLEAN]

Dashboards == [summary : Parts, actions : Parts, models : {<<m>> : m \in Models}
                                                          \union (Models \X Models)]

Outputs == Parts \union Dashboards \union {NoResult}

\* "No output" is neither a part nor a dashboard.
ASSUME ResultAssumption == NoResult \notin Parts \union Dashboards

Codes == {"", "timeout", "model_unavailable", "provider_unavailable", "invalid_model_response",
          "capability_failed"} \union InputErrors

\* The type invariant, and that what the worker carries is what the rows hold.
TypeOK ==
    /\ model \in [Profiles -> Models]
    /\ status \in {"none", "pending", "running", "completed", "failed"}
    /\ code \in Codes
    /\ steps \in [Steps -> [status : {"pending", "running", "completed", "failed", "skipped"},
                           code : Codes, output : Outputs]]
    /\ pc \in {"idle", "step", "attempt", "call", "complete", "record", "backoff", "fail"}
    /\ index \in 1..4 /\ try \in 0..2
    /\ pc # "idle" /\ index \in Steps => try <= Definition[index].attempts \/ pc = "step"
    /\ outputs = [i \in Steps |-> IF i < index THEN steps[i].output ELSE NoResult]
    /\ result.value \in Outputs
    /\ elapsed \in 0..Deadline /\ inStore \in 0..elapsed

\* A run is only ever executed as the workflow that was selected for its request, which has
\* an enabled version.
SelectedWorkflowRuns ==
    status # "none" =>
        /\ request.workflow = Served
        /\ request.workflow = IF request.explicit # "" THEN request.explicit
                              ELSE Rules[request.type]
        /\ \E d \in Registered : d.id = request.workflow /\ d.enabled

\* What one step puts out, the next ones accept, also after restarts and retries: a run fails
\* because of a model, or of content that is too long, and never because an input is missing
\* or refused.
OnlyModelsFail ==
    status = "failed" =>
        code \in IF request.content = "long" THEN {"capability_failed"}
                 ELSE {"timeout", "model_unavailable", "provider_unavailable",
                       "invalid_model_response"}

\* The dashboard result consists of the artifacts of its own run, each in its place, and
\* names the models they come from, also if the configuration changed between the two.
DashboardIsOfItsRun ==
    steps[3].output # NoResult =>
        LET dashboard == steps[3].output
        IN /\ dashboard.summary = steps[1].output /\ dashboard.summary.of = 1
           /\ dashboard.actions = steps[2].output /\ dashboard.actions.of = 2
           /\ {dashboard.models[k] : k \in DOMAIN dashboard.models}
                 = {dashboard.summary.by, dashboard.actions.by}

\* The error of an attempt is shown until the next attempt and no longer: a step that is
\* completed, and every step of a run that is queued, shows none, and a failed run shows
\* that of its only failed step.
ErrorsAreCurrent ==
    /\ \A i \in Steps : steps[i].status \in {"pending", "completed", "skipped"}
                          => steps[i].code = ""
    /\ status # "failed" => code = ""
    /\ status = "failed" => {steps[i].code : i \in {j \in Steps : steps[j].status = "failed"}}
                              = {code}

Silent(a) == a.status = "none" /\ a.late

\* What the summary endpoint calls the codes of a run.
Synonym == [timeout                |-> "generation_timeout",
            provider_unavailable   |-> "ollama_unavailable",
            model_unavailable      |-> "model_unavailable",
            invalid_model_response |-> "invalid_model_response"]

\* The run and the summary endpoint tell apart a model that is too slow, one that is missing
\* or cannot be reached and one that answers badly, by what the last attempt met.  One case
\* is not told: a deadline that passes while the answer is read is a bad answer.
CauseIsTold ==
    /\ status = "failed" /\ request.content = "text" =>
          /\ code = "timeout" <=> Silent(met)
          /\ code = "invalid_model_response" <=> met.status = "ok"
          /\ code = "model_unavailable" => met.status \in {"not_found", "failed"}
          /\ Summarize("text", TRUE, met) = Synonym[code]

\* The deadline of the run leaves every attempt its whole timeout: it passes only if store
\* calls took up the margin that the attempts and the backoffs leave.
DeadlineCoversAttempts == elapsed >= Deadline => inStore >= Margin - 2 * Backoff
=============================================================================
