----------------------------- MODULE ToolCalls -----------------------------
(***************************************************************************)
(* One MCP call from dispatch to answer: the tool filter and the tool level *)
(* confirmation (pkg/mcp, pkg/confirmation), then the handler's requests,   *)
(* each through the access control round tripper (pkg/kubernetes), against  *)
(* an API server that may refuse any of them, a network that may lose the   *)
(* answer to one that was carried out, and a client that may cancel the     *)
(* call at any moment.  Handlers are code of module HandlerCode.            *)
(*                                                                         *)
(* A setting s is a record: the fields IsToolApplicable reads; Rules, the   *)
(* confirmation_rules, and Fallback, allow or deny; Denied, the kinds that  *)
(* denied_resources names; Validation.  `config' is the configuration the   *)
(* server works with now, `client' the one its Kubernetes clients were      *)
(* built from: a SIGHUP changes the first only.                             *)
(***************************************************************************)
EXTENDS HandlerCode, Confirmation, Naturals

CONSTANTS Tools, Prompts,     \* the tables of the toolsets
          Settings,           \* the configurations considered
          Services,           \* kinds that are not of the API server
          NoList, None

VARIABLES config, client,
          elicitation,        \* the client supports elicitation
          call                \* the call being served

vars == <<config, client, elicitation, call>>

Surface == INSTANCE ToolSurface WITH Toolset <- [t \in {} |-> {}]

AnyProvider == [capabilities |-> {}]

\* No request of this call has been sent yet.
Nothing == [op |-> "none", verb |-> "none", kind |-> "none", cleared |-> FALSE,
            lost |-> FALSE]

\* cleared: the request at the head of todo was confirmed; asked: the code at
\* which that was (history, for ConfirmedBeforeSent); last: the last request
\* sent, lost when it was carried out and its answer did not arrive.
Idle == [name |-> None, status |-> "idle", todo |-> <<>>, cancelled |-> FALSE,
         cleared |-> FALSE, asked |-> <<>>, owed |-> {}, changed |-> {},
         last |-> Nothing]

-----------------------------------------------------------------------------
(* Plausible mistakes, used to show that the properties notice them.        *)

\* An error is never passed on to a rescue: a deferred cleanup is skipped.
SkipsRescue(c) == {[c EXCEPT !.todo = <<>>, !.status = "failed"]}

\* The confirmation is asked for after the validators, and not again when a
\* request is repeated: the answer outlives its request.
KeepsClearance(c) == [c EXCEPT !.todo = Tail(@)]

-----------------------------------------------------------------------------
(* Confirmation of tools and of requests.                                   *)

\* The verb the round tripper computes from the HTTP method and the path.
httpMethodToVerb(verb) ==
    CASE verb = "apply" -> "patch"
      [] verb = "exec" -> "get"
      [] verb = "execPost" -> "create"
      [] OTHER -> verb

\* The rules see a tool by its name and hint, a request by its URL; the kind
\* stands for group and version too, and names are not told apart.
ToolSubject(tool) ==
    [tool |-> tool.name,
     destructive |-> IF tool.destructive THEN "true" ELSE "false"]
RequestSubject(request) ==
    [verb |-> httpMethodToVerb(request.verb), kind |-> request.kind,
     group |-> "any", version |-> "any", name |-> "any", namespace |-> "any"]

-----------------------------------------------------------------------------
(* Running the code of a handler.                                          *)

\* The code to go on with after an error: the rescue of the innermost body.
Rescues(todo) == {i \in DOMAIN todo : todo[i].op = "catch"}
Innermost(todo) ==
    CHOOSE i \in Rescues(todo) : \A j \in Rescues(todo) : i <= j
Rest(todo, i) == SubSeq(todo, i + 1, Len(todo))

Caught(todo) ==
    IF Rescues(todo) = {} THEN {}
    ELSE {rescue \o Rest(todo, Innermost(todo)) :
             rescue \in todo[Innermost(todo)].rescue}

\* The call as it goes on after an error: rescued, or failed.
AfterError(c) ==
    IF Rescues(c.todo) = {} THEN {[c EXCEPT !.todo = <<>>, !.status = "failed"]}
    ELSE {[c EXCEPT !.todo = todo] : todo \in Caught(c.todo)}

Unclear(c) == [c EXCEPT !.cleared = FALSE, !.asked = <<>>]
Advance(c) == [Unclear(c) EXCEPT !.todo = Tail(@)]

Running == call.status = "running" /\ call.todo # <<>>
Head1 == call.todo[1]

Requests == {"do", "try", "detached", "apart", "temporary", "cleanup"}
IsDetached(request) == request.op \in {"detached", "apart", "cleanup"}
IsBestEffort(request) == request.op \in {"try", "detached", "cleanup"}

\* Plausible mistake: no error is dropped, every one is returned.
ReturnsEveryError(c) == AfterError(Unclear(c))

\* A request came back with an error, or was not sent at all.
RequestFails(c) ==
    IF IsBestEffort(c.todo[1]) THEN {Advance(c)}
    ELSE AfterError(Unclear(c))

\* What an accepted request leaves behind.
IsTemporary(request) == request.op = "temporary"
Persists(request) ==
    /\ request.verb \in Writes
    /\ request.op \notin {"temporary", "cleanup"}
    /\ request.kind # "SelfSubjectAccessReview"

Change(c) ==
    IF Persists(c.todo[1])
    THEN c.changed \cup {<<c.todo[1].verb, c.todo[1].kind>>} ELSE c.changed

Effect(c) ==
    [Advance(c) EXCEPT
        !.owed = IF IsTemporary(c.todo[1]) THEN @ \cup {c.todo[1].kind} ELSE @,
        !.changed = Change(c)]

\* The handler has done what it can for an object of its own once the delete
\* gets as far as the cluster's own rules.
Settle(c) ==
    [c EXCEPT !.owed = IF c.todo[1].op = "cleanup" THEN @ \ {c.todo[1].kind}
                       ELSE @]

\* The request goes out.
Sent(c, lost) ==
    [Settle(c) EXCEPT
        !.last = [op |-> c.todo[1].op, verb |-> c.todo[1].verb,
                  kind |-> c.todo[1].kind,
                  cleared |-> c.cleared /\ c.asked = c.todo,
                  lost |-> lost]]

\* It is carried out, and the handler does not learn of it: the connection or
\* the call's context ends before the answer is there, or it cannot be decoded.
\* A temporary object is then nobody's to remove.
AnswerLost(c) == [Sent(c, TRUE) EXCEPT !.changed = Change(c)]

-----------------------------------------------------------------------------
(* Access control, for the request at the head of the code.                 *)

isAllowed(s, request) == request.kind \notin s.Denied

Needs(request) ==
    /\ request.kind \notin Services \cup {"SelfSubjectAccessReview"}
    /\ MatchKubeLevelRules(client.Rules, RequestSubject(request)) # {}

\* client-go does not send a request whose context is over.
Blocked(request) ==
    \/ call.cancelled /\ ~ IsDetached(request)
    \/ request.kind \notin Services /\ ~ isAllowed(client, request)

CanRequest == Running /\ Head1.op \in Requests

\* Cancelled, or a denied kind.
RequestBlocked ==
    /\ CanRequest
    /\ Blocked(Head1)
    /\ call' \in RequestFails(call)
    /\ UNCHANGED <<config, client, elicitation>>

\* The schema and access validators run before the user is asked; they refuse
\* what the API server would refuse.
ValidatorRefuses ==
    /\ CanRequest
    /\ client.Validation
    /\ Head1.kind \notin Services \cup {"SelfSubjectAccessReview"}
    /\ ~ Blocked(Head1) /\ ~ call.cleared
    /\ call' \in RequestFails(Settle(call))
    /\ UNCHANGED <<config, client, elicitation>>

\* Plausible mistake: the licence is asked for after the request was sent.
ValidatesAfterSending ==
    /\ CanRequest
    /\ Head1.kind = "PipelineRun"
    /\ httpMethodToVerb(Head1.verb) \in {"create", "update", "patch"}
    /\ ~ Blocked(Head1)
    /\ Needs(Head1) => call.cleared
    /\ call' \in RequestFails(
          [call EXCEPT !.changed = @ \cup {<<Head1.verb, Head1.kind>>}])
    /\ UNCHANGED <<config, client, elicitation>>

\* The last validator, always there: a Windows golden image is made only with
\* the licence accepted, which the user or the client may refuse.
WindowsEULAValidator ==
    /\ CanRequest
    /\ Head1.kind = "PipelineRun"
    /\ httpMethodToVerb(Head1.verb) \in {"create", "update", "patch"}
    /\ ~ Blocked(Head1)
    /\ Needs(Head1) => call.cleared
    /\ call' \in RequestFails(call)
    /\ UNCHANGED <<config, client, elicitation>>

\* A rule matches: the user answers, or the code decides for him.
Confirm ==
    /\ CanRequest
    /\ ~ Blocked(Head1)
    /\ Needs(Head1) /\ ~ call.cleared
    /\ LET how == CheckConfirmation(client.Fallback, ~ IsDetached(Head1),
                                  elicitation)
       IN  \/ /\ how \in {"ask", "accept"}
              /\ call' = [call EXCEPT !.cleared = TRUE, !.asked = call.todo]
           \/ /\ how \in {"ask", "refuse"}
              /\ call' \in RequestFails(call)
    /\ UNCHANGED <<config, client, elicitation>>

Send ==
    /\ CanRequest
    /\ ~ Blocked(Head1)
    /\ Needs(Head1) => call.cleared
    /\ \/ call' = Effect(Sent(call, FALSE))
       \/ call' \in RequestFails(Sent(call, FALSE))
       \/ /\ Persists(Head1) \/ IsTemporary(Head1)
          /\ call' \in RequestFails(AnswerLost(call))
    /\ UNCHANGED <<config, client, elicitation>>

-----------------------------------------------------------------------------
(* The other instructions.                                                 *)

Choose ==
    /\ Running /\ Head1.op = "either"
    /\ \E code \in Head1.body :
          call' = [call EXCEPT !.todo = code \o Tail(@)]
    /\ UNCHANGED <<config, client, elicitation>>

Enter ==
    /\ Running /\ Head1.op = "attempt"
    /\ \E code \in Head1.body :
          call' = [call EXCEPT
                      !.todo = code \o Instr("catch", "", "", {}, Head1.rescue)
                               \o Tail(@)]
    /\ UNCHANGED <<config, client, elicitation>>

\* The end of a body: its rescue is not needed.
Leave ==
    /\ Running /\ Head1.op = "catch"
    /\ call' = [call EXCEPT !.todo = Tail(@)]
    /\ UNCHANGED <<config, client, elicitation>>

ReturnError ==
    /\ Running /\ Head1.op = "fail"
    /\ call' \in AfterError(call)
    /\ UNCHANGED <<config, client, elicitation>>

ReturnEarly ==
    /\ Running /\ Head1.op = "return"
    /\ call' = [call EXCEPT
                   !.todo = IF Rescues(@) = {} THEN <<>>
                            ELSE Rest(@, Innermost(@))]
    /\ UNCHANGED <<config, client, elicitation>>

-----------------------------------------------------------------------------
(* The call.                                                               *)

Init ==
    /\ config \in Settings
    /\ client = config
    /\ elicitation \in BOOLEAN
    /\ call = Idle

\* A SIGHUP: the clients keep the configuration they were built from.  A call
\* works on the configuration it was dispatched with, so a reload in its
\* course is the same as one after it.
Reload ==
    /\ call = Idle
    /\ config' \in Settings
    /\ UNCHANGED <<client, elicitation, call>>

\* The handler of ServerToolToGoSdkTool: arguments and the target's client
\* may fail before the tool's own code runs.
CallTool(tool) ==
    /\ call = Idle
    /\ Surface!IsToolApplicable(config, AnyProvider, tool)
    /\ call' = [Idle EXCEPT
                   !.name = tool.name, !.todo = Check \o tool.code,
                   !.status = IF MatchToolLevelRules(config.Rules,
                                                     ToolSubject(tool)) = {}
                              THEN "running" ELSE "confirming"]
    /\ UNCHANGED <<config, client, elicitation>>

\* The tool level confirmation, before any request.
ConfirmTool ==
    /\ call.status = "confirming"
    /\ LET how == CheckConfirmation(config.Fallback, TRUE, elicitation)
       IN  \/ /\ how \in {"ask", "accept"}
              /\ call' = [call EXCEPT !.status = "running"]
           \/ /\ how \in {"ask", "refuse"}
              /\ call' = [call EXCEPT !.status = "failed", !.todo = <<>>]
    /\ UNCHANGED <<config, client, elicitation>>

\* ServerPromptToGoSdkPrompt: prompts are not filtered and not confirmed.
GetPrompt(prompt) ==
    /\ call = Idle
    /\ call' = [Idle EXCEPT !.name = prompt.name, !.status = "running",
                            !.todo = Check \o prompt.code]
    /\ UNCHANGED <<config, client, elicitation>>

\* The client cancels, or goes away.
Cancel ==
    /\ call.status \in {"confirming", "running"}
    /\ ~ call.cancelled
    /\ call' = [call EXCEPT !.cancelled = TRUE]
    /\ UNCHANGED <<config, client, elicitation>>

Finish ==
    /\ call.status = "running" /\ call.todo = <<>>
    /\ call' = [call EXCEPT !.status = "done"]
    /\ UNCHANGED <<config, client, elicitation>>

Answer ==
    /\ call.status \in {"done", "failed"}
    /\ call' = Idle
    /\ UNCHANGED <<config, client, elicitation>>

Step ==
    \/ RequestBlocked \/ ValidatorRefuses \/ Confirm \/ WindowsEULAValidator \/ Send
    \/ Choose \/ Enter \/ Leave \/ ReturnError \/ ReturnEarly
    \/ ConfirmTool \/ Finish \/ Answer

Next ==
    \/ Reload \/ Cancel \/ Step
    \/ \E tool \in Tools : CallTool(tool)
    \/ \E prompt \in Prompts : GetPrompt(prompt)

Spec == Init /\ [][Next]_vars

-----------------------------------------------------------------------------
(* Properties.                                                             *)

Over == call.status \in {"done", "failed"}
Offered == Tools \cup Prompts

TypeOK ==
    /\ config \in Settings /\ client \in Settings
    /\ elicitation \in BOOLEAN
    /\ call.name \in {t.name : t \in Offered} \cup {None}
    /\ call.status \in {"idle", "confirming", "running", "done", "failed"}
    /\ \A i \in DOMAIN call.todo :
          call.todo[i].op \in Requests \cup
             {"either", "attempt", "catch", "fail", "return"}
    /\ call.cancelled \in BOOLEAN /\ call.cleared \in BOOLEAN
    /\ \A request \in call.changed : request[1] \in Writes

\* A request a confirmation rule matches is sent only after the user accepted
\* it, or when the client cannot ask him and the fallback is not deny; every
\* request needs an answer of its own.
ConfirmedBeforeSent ==
    (call.last.op # "none" /\ Needs(call.last)) =>
        /\ call.last.cleared
        /\ elicitation \/ client.Fallback # "deny"

\* Temporary objects (debug pods) the handler knows of are deleted, or their
\* deletion attempted, on every path: an error, a refusal, a cancelled call.
TemporaryObjectsRemoved == Over => call.owed = {}

\* Changes outside the cluster: probe_http may send any method anywhere.
Outside == {"HTTP"}

\* read_only: a call leaves nothing behind in the cluster or in a service of
\* it, whatever tool the server exposes in this mode and whichever of its
\* requests fail.  (Objects that a tool creates and removes again itself are
\* the subject of ReadOnlySendsNoWrites.)
ReadOnlyLeavesNothing ==
    config.ReadOnly =>
        \A request \in call.changed : request[2] \in Outside

\* What a request may do to an object that is there: only a create cannot.
Replaces(verb, kind) == verb # "create" /\ kind \notin Outside

\* pods_run is annotated as not destructive and forces its apply under a name
\* the caller may choose: a pod, service or route of that name is taken over.
TakesOver == {"pods_run"}

\* disable_destructive: a tool exposed then deletes or changes no object but
\* those of a kind it has just created itself (a Helm release's record), and
\* pods_run, which overwrites what it applies over but deletes nothing.
DestructiveDisabledDeletesNothing ==
    config.DisableDestructive =>
        \A request \in call.changed :
            Replaces(request[1], request[2]) =>
                \/ <<"create", request[2]>> \in call.changed
                \/ request[1] = "apply" /\ call.name \in TakesOver

\* The tools whose handlers make more than one change, or do something after
\* their change that can fail (printing the object they got back, a read).
SeveralChanges ==
    {"pods_delete", "pods_run", "resources_create_or_update", "resources_scale",
     "vm_create", "vm_clone", "vm_create_from_template", "vm_lifecycle",
     "helm_install", "helm_uninstall", "manage_istio_config", "probe_http"}

\* A call of any other tool that answers an error has changed nothing: what
\* the model is told to try again was not half done.  The exception no handler
\* can avoid is the one change it was making when the answer got lost.
FailedCallsChangedNothing ==
    (call.status = "failed" /\ call.name \notin SeveralChanges) =>
        \/ call.changed = {}
        \/ /\ call.last.lost
           /\ call.changed = {<<call.last.verb, call.last.kind>>}

\* The kinds some prompt is about, and cannot do without.
PromptSubjects ==
    {"HyperConverged", "Kiali", "ClusterOperator", "ClusterServiceVersion"}

\* A diagnostics prompt reports what it could read: errors of the API server
\* fail it only for the object it is about, whatever else fails or is denied.
PromptsAreBestEffort ==
    (call.status = "failed" /\ call.name \in {p.name : p \in Prompts}) =>
        \/ call.last = Nothing
        \/ call.last.kind \in PromptSubjects

\* docs/configuration.md on read_only: "Prevents any write operations on the
\* cluster."
ReadOnlySendsNoWrites ==
    (config.ReadOnly /\ call.last.kind # "SelfSubjectAccessReview") =>
        (call.last.verb \in Writes => call.last.kind \in Services)

\* What does not hold: a pod whose creation was carried out while its answer
\* got lost is not deleted (NodesDebugExec returns before its defer).
NoPodIsOrphaned == Over => ~ (IsTemporary(call.last) /\ call.last.lost)
=============================================================================
