---------------------------- MODULE AuthzDecision ----------------------------
(***************************************************************************)
(* One request at a front end: ServeHTTP of pkg/authz/http/authorizer.go   *)
(* or Check of pkg/authz/envoy/service.go, with the engine both server.go  *)
(* files build: policies are evaluated one after the other until one       *)
(* responds, and the first response or error is the answer.                *)
(*                                                                         *)
(* The engine loads its policies once per request, so a request works on   *)
(* one list.  A policy that does not compile is not on it: the source      *)
(* drops it (comment in compiler.go, line 45).                             *)
(***************************************************************************)
EXTENDS PolicyEvaluation

CONSTANTS
    PolicyLists,      \* the lists of policies a source may hold
    OutputPrograms    \* the configured output expressions (HTTP)

\* A response is a message with an ok part and a denied part: it says one of
\* them, neither, or both.
ASSUME ResponsesAssumption == Answers = {"ok", "denied", "both", "empty"}

SaysOk(value) == value \in {"ok", "both"}
SaysDenied(value) == value \in {"denied", "both"}

\* A policy in the source: whether it compiles, and what it is compiled to.
StoredPolicy == [compiles : BOOLEAN, program : Compiled]

ASSUME PolicyListsAssumption ==
    \A list \in PolicyLists : list \in Seq(StoredPolicy)

\* An output expression maps a response to an HTTP status, or fails.
Statuses == {"200", "403"}
ASSUME OutputAssumption ==
    /\ OutputPrograms \subseteq [Answers -> Statuses \cup {Error}]
    /\ Nil \notin Statuses \cup {"500", "code"}

\* The default output expression (server.go): 200 if the response says ok.
DefaultOutput == [answer \in Answers |-> IF SaysOk(answer) THEN "200" ELSE "403"]

\* What RecordAuthzDecision counts, and the kinds of events.
Decisions == {"allow", "deny", "error"}
Sources == {"policy", "engine", "default", "server"}
EventKinds == {"Allowed", "Denied", "Errored"}

VARIABLES
    front,          \* the front end the request came to
    output,         \* the output program of the HTTP front end
    stored,         \* the policies in the source
    pc,             \* "receive", "dispatch", "conclude", "output", "done"
    outs,           \* what the policies evaluated so far gave
    response,       \* what the engine returned
    decision,       \* local of both handlers: the decision to record
    source,         \* local of both handlers: who took it
    events,         \* events pushed to the subscribers
    requestStatus,  \* label counted by RecordHTTPRequest / RecordEnvoyRequest
    recorded,       \* <<decision, source>> pairs counted
    reply           \* what the caller got

vars == <<front, output, stored, pc, outs, response, evaluation, decision, source,
          events, requestStatus, recorded, reply>>

inputs == <<front, output, stored>>
dispatch == <<outs, response, evaluation>>
locals == <<decision, source>>

TypeOK ==
    /\ front \in {"http", "envoy"}
    /\ output \in OutputPrograms
    /\ stored \in PolicyLists
    /\ pc \in {"receive", "dispatch", "conclude", "output", "done"}
    /\ outs \in Seq(RuleResults)
    /\ response \in RuleResults
    /\ EvaluationTypeOK
    /\ decision \in Decisions /\ source \in Sources
    /\ events \in Seq(EventKinds)
    /\ requestStatus \in {Nil, "ok", "denied", "code", Error}
    /\ recorded \in Seq(Decisions \X Sources)
    /\ reply \in Answers \cup Statuses \cup {Nil, "500", Error}

\* Both parts at once are a matter of the HTTP message: the parts of Envoy's are
\* alternatives.
OneOf(list) == \A k \in DOMAIN list : ~ Occurs("both", list[k].program.rules)

Init ==
    /\ front \in {"http", "envoy"}
    /\ output \in OutputPrograms
    /\ stored \in PolicyLists
    /\ front = "envoy" => OneOf(stored)
    /\ pc = "receive"
    /\ outs = <<>>
    /\ response = Nil
    /\ Idle
    /\ decision = "error" /\ source = "server"
    /\ events = <<>>
    /\ requestStatus = Nil
    /\ recorded = <<>>
    /\ reply = Nil

\* The handler returns and its deferred RecordAuthzDecision counts the locals.
Return(value) ==
    /\ pc' = "done"
    /\ reply' = value
    /\ recorded' = Append(recorded, <<decision', source'>>)

-----------------------------------------------------------------------------
(* Before the engine.  The HTTP front end parses the nested request, reads   *)
(* its body and evaluates the input expression, and each may fail.           *)

RejectRequest ==
    /\ front = "http" /\ pc = "receive"
    /\ UNCHANGED <<inputs, dispatch, locals, events, requestStatus>>
    /\ Return("500")

AcceptRequest ==
    /\ pc = "receive"
    /\ pc' = "dispatch"
    /\ UNCHANGED <<inputs, dispatch, locals, events, requestStatus, recorded, reply>>

-----------------------------------------------------------------------------
(* The engine. *)

\* What a policy of the source contributes.  One that does not compile is not
\* among the policies the engine loads, as if it had nothing to say.
Given(held) == IF held.compiles THEN Outcome(held.program) ELSE Nil

\* The breaker stops the dispatcher at a response, not at an error.
Broken == outs # <<>> /\ outs[Len(outs)] \in Answers

Undecided ==
    /\ pc = "dispatch" /\ loop = "none"
    /\ Len(outs) < Len(stored) /\ ~ Broken

Current == stored[Len(outs) + 1]

SkipPolicy ==
    /\ Undecided /\ ~ Current.compiles
    /\ outs' = Append(outs, Nil)
    /\ UNCHANGED <<inputs, pc, response, evaluation, locals, events, requestStatus, recorded, reply>>

CallPolicy ==
    /\ Undecided /\ Current.compiles
    /\ Call(Current.program)
    /\ UNCHANGED <<inputs, pc, outs, response, locals, events, requestStatus, recorded, reply>>

EvaluatePolicy ==
    /\ pc = "dispatch" /\ Evaluation
    /\ UNCHANGED <<inputs, pc, outs, response, locals, events, requestStatus, recorded, reply>>

TakeOutcome ==
    /\ pc = "dispatch" /\ Leave
    /\ outs' = Append(outs, result)
    /\ UNCHANGED <<inputs, pc, response, locals, events, requestStatus, recorded, reply>>

\* The positions of a list of outcomes that hold a response or an error.
Decided(outcomes) == {k \in DOMAIN outcomes : outcomes[k] # Nil}

\* resulters.NewFirst: the first response or error.
FirstResult(outcomes) ==
    IF Decided(outcomes) = {} THEN Nil ELSE outcomes[First(Decided(outcomes))]

DispatchOver == pc = "dispatch" /\ loop = "none" /\ (Len(outs) = Len(stored) \/ Broken)

\* Faults: the last of the responses and errors, or the first response only.
DispatchEndLast ==
    /\ DispatchOver
    /\ response' = IF Decided(outs) = {} THEN Nil
                   ELSE outs[CHOOSE k \in Decided(outs) : \A l \in Decided(outs) : l <= k]
    /\ pc' = "conclude"
    /\ UNCHANGED <<inputs, outs, evaluation, locals, events, requestStatus, recorded, reply>>

DispatchEndNoErrors ==
    /\ DispatchOver
    /\ response' = FirstResult([k \in DOMAIN outs |-> IF outs[k] = Error THEN Nil ELSE outs[k]])
    /\ pc' = "conclude"
    /\ UNCHANGED <<inputs, outs, evaluation, locals, events, requestStatus, recorded, reply>>

DispatchEnd ==
    /\ DispatchOver
    /\ response' = FirstResult(outs)
    /\ pc' = "conclude"
    /\ UNCHANGED <<inputs, outs, evaluation, locals, events, requestStatus, recorded, reply>>

-----------------------------------------------------------------------------
(* After the engine. *)

\* Fault: an empty response has no kind.
EventKindOrNone(value) ==
    IF value = Error THEN "Errored"
    ELSE IF SaysDenied(value) THEN "Denied" ELSE IF SaysOk(value) THEN "Allowed" ELSE Nil

\* ResultAccessor.MustGet
EventKind(value) ==
    IF value = Error THEN "Errored" ELSE IF SaysDenied(value) THEN "Denied" ELSE "Allowed"

Push(value) == events' = Append(events, EventKind(value))

\* Fault: no event for an error of the engine.
HttpErrorNoEvent ==
    /\ front = "http" /\ pc = "conclude" /\ response = Error
    /\ source' = "engine" /\ UNCHANGED decision
    /\ requestStatus' = Error
    /\ Return("500")
    /\ UNCHANGED <<inputs, dispatch, events>>

\* ServeHTTP: the engine failed.
HttpError ==
    /\ front = "http" /\ pc = "conclude" /\ response = Error
    /\ source' = "engine" /\ UNCHANGED decision
    /\ requestStatus' = Error
    /\ Push(Error)
    /\ Return("500")
    /\ UNCHANGED <<inputs, dispatch>>

\* The result the HTTP front end goes on with: no response means ok.
HttpResult == IF response = Nil THEN "ok" ELSE response

\* ServeHTTP: a decision is taken and its event pushed before it is answered.
HttpDecide ==
    /\ front = "http" /\ pc = "conclude" /\ response # Error
    /\ decision' = IF SaysDenied(response) THEN "deny" ELSE "allow"
    /\ source' = IF response = Nil THEN "default" ELSE "policy"
    /\ Push(HttpResult)
    /\ pc' = "output"
    /\ UNCHANGED <<inputs, dispatch, requestStatus, recorded, reply>>

\* Fault: the decision stands although the output program fails.
HttpOutputKeepsDecision ==
    /\ pc = "output"
    /\ requestStatus' = IF SaysDenied(HttpResult) THEN "denied" ELSE "ok"
    /\ UNCHANGED locals
    /\ Return(IF output[HttpResult] = Error THEN "500" ELSE output[HttpResult])
    /\ UNCHANGED <<inputs, dispatch, events>>

\* ServeHTTP: the deferred RecordHTTPRequest counts the result whatever becomes
\* of the output program.
HttpOutput ==
    /\ pc = "output"
    /\ requestStatus' = IF SaysDenied(HttpResult) THEN "denied" ELSE "ok"
    /\ IF output[HttpResult] = Error
       THEN decision' = "error" /\ source' = "server" /\ Return("500")
       ELSE UNCHANGED locals /\ Return(output[HttpResult])
    /\ UNCHANGED <<inputs, dispatch, events>>

\* Check: the engine failed.
EnvoyError ==
    /\ front = "envoy" /\ pc = "conclude" /\ response = Error
    /\ source' = "engine" /\ UNCHANGED decision
    /\ requestStatus' = Error
    /\ Push(Error)
    /\ Return(Error)
    /\ UNCHANGED <<inputs, dispatch>>

\* check: no response is an empty CheckResponse.
EnvoyResult == IF response = Nil THEN "empty" ELSE response

\* Check: the deferred RecordEnvoyRequest labels the count with the response's
\* status code, which is not modelled.
EnvoyDecide ==
    /\ front = "envoy" /\ pc = "conclude" /\ response # Error
    /\ decision' = IF SaysDenied(EnvoyResult) THEN "deny" ELSE "allow"
    /\ source' = IF EnvoyResult = "empty" THEN "default" ELSE "policy"
    /\ Push(EnvoyResult)
    /\ requestStatus' = "code"
    /\ Return(EnvoyResult)
    /\ UNCHANGED <<inputs, dispatch>>

Http == RejectRequest \/ HttpError \/ HttpDecide \/ HttpOutput
Envoy == EnvoyError \/ EnvoyDecide
Dispatch == SkipPolicy \/ CallPolicy \/ EvaluatePolicy \/ TakeOutcome \/ DispatchEnd
Engine == AcceptRequest \/ Dispatch
Next == Http \/ Envoy \/ Engine

\* A handler runs to its end.
Spec == Init /\ [][Next]_vars /\ WF_vars(Next)

-----------------------------------------------------------------------------
\* What the policies of the source say together: the first that responds or
\* fails, of those that compile.
Verdict == FirstResult([k \in DOMAIN stored |-> Given(stored[k])])

\* The engine answers with the verdict although the dispatcher goes on after an
\* error (the breaker tests for a response only) and the resulter counts errors:
\* a response behind an error never replaces it.
EngineAnswersVerdict == pc \in {"conclude", "output"} => response = Verdict

LetThrough == reply \in {"200", "ok", "empty"}

\* With the default output expression a request passes only if the policy that
\* decided says ok, if Envoy gets its empty response, or if no policy says
\* anything: an error of the engine, of the request or of the output, or a refusal
\* in front of an ok, never becomes a 200 or an ok.  A response that says ok and
\* denied does pass (DeniedIsNotLetThrough).
AllowedByVerdict ==
    LetThrough /\ output = DefaultOutput =>
        \/ Verdict = Nil
        \/ SaysOk(Verdict)
        \/ front = "envoy" /\ Verdict = "empty"

\* Every early return of the handlers records one decision, and it is an error
\* exactly when the caller gets one (the HTTP handler takes its decision back
\* when the output program fails).
RecordedAsReplied ==
    pc = "done" =>
        /\ Len(recorded) = 1
        /\ recorded[1][1] = "error" <=> reply \in {"500", Error}

\* Events and request metrics tell the same story: a request that was counted
\* has one event, of the kind that was counted (Envoy counts a status code, so
\* there only errors compare), and one that was not has none.
ObserversAgree ==
    pc = "done" =>
        IF requestStatus = Nil THEN events = <<>>
        ELSE /\ Len(events) = 1
             /\ events[1] = "Errored" <=> requestStatus = Error
             /\ requestStatus \in {"ok", "denied"} =>
                    (events[1] = "Denied" <=> requestStatus = "denied")

-----------------------------------------------------------------------------
(* What the documentation says and the code does not do. *)

RulesAllNull(program) ==
    /\ ~ Skipped(program) /\ ~ Occurs(Error, program.matchConditions)
    /\ Settling(program) = {}
    /\ Speaking(program) = {}

\* http.md, line 52: denied is "Set if request is denied".  The handler records
\* the denial of a response that says both, and the default output expression,
\* which asks only for the ok, answers 200.
DeniedIsNotLetThrough ==
    output = DefaultOutput /\ SaysDenied(Verdict) => ~ LetThrough

\* http-policy-breakdown.md, line 182: "If all rules return `null`, the request is
\* denied by default".  ServeHTTP answers ok when the engine has no response.
DeniedByDefault ==
    /\ front = "http" /\ output = DefaultOutput /\ stored # <<>>
    /\ \A k \in DOMAIN stored : stored[k].compiles /\ RulesAllNull(stored[k].program)
    => ~ LetThrough

\* http-policy-breakdown.md, lines 37 to 41: a parse error or a type check error
\* of a policy that is to fail denies the request.  Such a policy is not loaded.
BrokenPolicyFails ==
    /\ front = "http" /\ output = DefaultOutput /\ stored # <<>>
    /\ \A k \in DOMAIN stored :
          ~ stored[k].compiles /\ stored[k].program.failurePolicy = "Fail"
    => ~ LetThrough

\* http-metrics.md, line 21: the status label is the "Authorization status of the
\* response (ok or denied)".  The handler derives it from the result, the reply
\* from the output expression: a response that says nothing is counted as ok.
StatusOfTheResponse ==
    output = DefaultOutput /\ requestStatus = "ok" => reply = "200"
===============================================================================
