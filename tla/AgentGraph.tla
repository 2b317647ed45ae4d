----------------------------- MODULE AgentGraph -----------------------------
(***************************************************************************)
(* The LangGraph agent graph of packages/core (graph/create-graph.ts), with *)
(* the CloudControl API behind it.  One thread of the graph: `st` holds the *)
(* channels of AgentState that steer it, `at` the node to run next.  Every  *)
(* node is an action that does all of the node's state change and then      *)
(* follows the node's edge or routing function (graph/graph-routing.ts).    *)
(* The nodes that only add data to a plan, option_elicitor,                 *)
(* advice_generator, bp_evaluator and fix_applicator, are passed through:   *)
(* what they find is decided where it matters, at preflight_guard.          *)
(*                                                                          *)
(* The resources of a pattern are its slots 0..N-1, the indices of          *)
(* resourceQueue; a single-resource intent is about slot 0.                 *)
(*                                                                          *)
(* The modules that extend this one are the drivers that invoke the graph.  *)
(***************************************************************************)
EXTENDS Integers, Sequences

CONSTANTS
  N,           \* length of the pattern's resource queue
  Companion,   \* slots that are display-only (provisionable: false)
  Retryable,   \* slots of type CloudFront::Distribution
  MaxThrottle, \* MAX_THROTTLE_RETRIES of the status poller
  MaxRetries,  \* MAX_CLOUDFRONT_RETRIES
  None         \* an undefined channel

Slots == 0..(N - 1)

ASSUME QueueAssumption ==
  /\ N \in Nat \ {0}
  /\ Companion \subseteq Slots \ {0}
  /\ Retryable \subseteq Slots \ Companion
ASSUME BudgetAssumption == MaxThrottle \in Nat /\ MaxRetries \in Nat
ASSUME NoneAssumption == None \notin Int

VARIABLES
  st,        \* the channels of the thread
  at,        \* the node to run next; "interrupt" and "END" are where invoke returns
  requests,  \* CloudControl: the create requests it has accepted, in order
  consent,   \* the operator said Yes to this plan, or passed --yes or confirmed
  tty        \* stdin is a terminal

graphVars == <<st, at, requests, consent, tty>>

Status == {"PENDING", "IN_PROGRESS", "SUCCESS", "FAILED", "CANCELLED",
           "UNSUPPORTED_RESOURCE", "QUERY_INTENT", "undefined"}

\* executionStatus values that no routing function lets near an approval.
\* (POLICY_BLOCKED is listed there too, but nothing ever sets it.)
Terminal == {"FAILED", "CANCELLED", "UNSUPPORTED_RESOURCE"}

Node == {"intent_parser", "query_handler", "schema_fetcher",
         "compound_dispatcher", "plan_generator", "validate_desired_state",
         "preflight_guard", "human_approval", "resource_provisioner",
         "status_poller", "result_formatter"}

\* pending - CloudControl is working on it; ok - the resource exists;
\* failed  - it does not; dns - it does not, because the S3 origin of a
\* CloudFront distribution could not be resolved yet
Outcome == {"pending", "ok", "failed", "dns"}

Channels ==
  [ status    : Status,            \* executionStatus
    mode      : {"PLAN", "APPLY"}, \* executionMode
    pattern   : BOOLEAN,           \* resourcePattern is set
    queue     : BOOLEAN,           \* resourceQueue is set
    index     : 0..N \cup {None},  \* currentResourceIndex
    completed : Seq(Slots),        \* completedResources
    type      : Slots \cup {None}, \* the slot whose resourceType is current
    desired   : Slots \cup {None}, \* the slot desiredState was planned for
    preflight : BOOLEAN,           \* preflightPassed
    fixed     : BOOLEAN,           \* fixes were applied and no finding blocks
    resumed   : BOOLEAN,           \* checkpointResumed
    auto      : BOOLEAN,           \* autoApprove
    token     : Nat,               \* requestToken: a position in requests, or 0
    throttle  : Nat,               \* throttleRetryCount
    retries   : Nat ]              \* retryCount

Request == [slot : Slots, type : Slots \cup {None}, outcome : Outcome]

ThreadTypeOK ==
  /\ st \in Channels
  /\ at \in Node \cup {"interrupt", "END"}
  /\ requests \in Seq(Request)
  /\ consent \in BOOLEAN
  /\ tty \in BOOLEAN

\* The status poller never asks for a request that was not accepted.
TokenIsReal == st.token \in 0..Len(requests)

GraphTypeOK == ThreadTypeOK /\ TokenIsReal

\* The defaults of the channels (graph-state.ts).
NewThread ==
  [ status |-> "PENDING", mode |-> "PLAN", pattern |-> FALSE, queue |-> FALSE,
    index |-> None, completed |-> <<>>, type |-> None, desired |-> None,
    preflight |-> FALSE, fixed |-> FALSE, resumed |-> FALSE, auto |-> FALSE,
    token |-> 0, throttle |-> 0, retries |-> 0 ]

\* currentResourceIndex ?? 0
Cursor(s) == IF s.index = None THEN 0 ELSE s.index

CompoundShape(s) == s.pattern /\ s.queue /\ s.index # None

\* resourceQueue?.[currentResourceIndex ?? 0]?.provisionable === false
AtCompanion(s) == s.queue /\ Cursor(s) \in Companion

With(s, status) == [s EXCEPT !.status = status]

-----------------------------------------------------------------------------
(* Edges. *)

\* Every edge into resource_provisioner stops at interruptBefore.
Goto(n) == at' = IF n = "resource_provisioner" THEN "interrupt" ELSE n

RouteCheckpointEntry(s) ==
  IF s.status \notin Terminal /\ s.resumed /\ s.desired # None
    THEN "human_approval" ELSE "intent_parser"

RouteIntentParser(s) ==
  CASE s.status = "QUERY_INTENT" -> "query_handler"
    [] s.status \in {"FAILED", "UNSUPPORTED_RESOURCE"} -> "result_formatter"
    [] OTHER -> "schema_fetcher"

RouteValidateDesiredState(s) ==
  IF s.status \in Terminal THEN "result_formatter" ELSE "preflight_guard"

\* A later slot of a pattern: approved with the first one.
ContinuesPattern(s) == s.pattern /\ s.queue /\ Cursor(s) \in 1..(N - 1)

\* Mutant: blocking findings do not stop an apply.
RoutePreflightGuard_NoGate(s) ==
  IF s.status \in Terminal \/ s.mode = "PLAN"
    THEN "result_formatter"
    ELSE IF ContinuesPattern(s) THEN "resource_provisioner" ELSE "human_approval"

RoutePreflightGuard(s) ==
  IF s.status \in Terminal \/ s.mode = "PLAN" \/ ~s.preflight
    THEN "result_formatter"
    ELSE IF ContinuesPattern(s) THEN "resource_provisioner" ELSE "human_approval"

RouteResourceProvisioner(s) ==
  IF s.status = "IN_PROGRESS" THEN "status_poller" ELSE "result_formatter"

RouteStatusPoller(s) ==
  CASE s.status = "IN_PROGRESS" /\ s.token = 0 -> "resource_provisioner"
    [] s.status = "IN_PROGRESS" /\ s.token # 0 -> "status_poller"
    [] OTHER -> "result_formatter"

\* Mutant: the loop does not look at preflightPassed (the bug its comment tells of).
RouteResultFormatter_NoPreflight(s) ==
  IF CompoundShape(s) /\ s.status = "PENDING" /\ s.index < N
    THEN "plan_generator" ELSE "END"

RouteResultFormatter(s) ==
  IF CompoundShape(s) /\ s.status = "PENDING" /\ s.index < N /\ s.preflight
    THEN "plan_generator" ELSE "END"

-----------------------------------------------------------------------------
(* The nodes of the planning half. *)

KeepOutside == UNCHANGED <<requests, consent, tty>>

\* The node returns one of several partial states.
Return(node, results) ==
  /\ at = node
  /\ st' \in results
  /\ KeepOutside

\* The intent names one resource or a pattern.  executionStatus is not set.
Understood(s) == {[s EXCEPT !.type = 0], [s EXCEPT !.pattern = TRUE]}

IntentUnderstood ==
  /\ Return("intent_parser", Understood(st))
  /\ Goto(RouteIntentParser(st'))

\* The LLM call fails, the type is not supported, or it is a question.
IntentRejected ==
  /\ Return("intent_parser",
            {With(st, "FAILED"), With(st, "UNSUPPORTED_RESOURCE"),
             With(st, "QUERY_INTENT"), [With(st, "QUERY_INTENT") EXCEPT !.type = 0]})
  /\ Goto(RouteIntentParser(st'))

QueryHandler ==
  /\ Return("query_handler", {With(st, "QUERY_INTENT"), With(st, "FAILED")})
  /\ Goto("result_formatter")

SchemaFetcher ==
  /\ Return("schema_fetcher",
            IF st.pattern \/ st.status # "PENDING" THEN {st}
            ELSE {st, With(st, "FAILED")})
  /\ Goto("compound_dispatcher")

CompoundDispatcher ==
  /\ Return("compound_dispatcher",
            IF ~st.pattern THEN {st}
            ELSE {[st EXCEPT !.queue = TRUE, !.index = 0, !.completed = <<>>,
                             !.type = 0, !.desired = None]})
  /\ Goto("plan_generator")

\* Mutant: every slot is planned from the first entry of the queue.
CompoundPlans_FirstEntry(s) ==
  {[s EXCEPT !.desired = 0, !.type = s.index]}

\* runCompoundPlan, then validatePlanShape.
CompoundPlans(s) ==
  IF s.index = N
    THEN {With(s, "FAILED")}
    ELSE LET plan == [s EXCEPT !.desired = s.index, !.type = s.index]
         IN {plan, [With(s, "FAILED") EXCEPT !.desired = s.index, !.type = s.index]}
              \cup (IF s.mode = "APPLY" /\ s.index \notin Companion
                      THEN {With(s, "FAILED")} ELSE {})

\* runLlmPlan, then validatePlanShape.
SinglePlans(s) ==
  IF s.status # "PENDING" THEN {s}
  ELSE {[s EXCEPT !.desired = 0], With(s, "FAILED"),
        [With(s, "FAILED") EXCEPT !.desired = 0]}

PlanGenerator ==
  /\ Return("plan_generator",
            IF CompoundShape(st) THEN CompoundPlans(st) ELSE SinglePlans(st))
  /\ Goto("validate_desired_state")

ValidateDesiredState ==
  /\ Return("validate_desired_state",
            IF st.status = "PENDING" THEN {st, With(st, "FAILED")} ELSE {st})
  /\ Goto(RouteValidateDesiredState(st'))

\* A failed guard or a missing IAM permission; else preflightPassed says
\* whether the findings of bp_evaluator, after fix_applicator, block.
PreflightGuard ==
  /\ Return("preflight_guard",
            IF st.status # "PENDING" THEN {st}
            ELSE {With(st, "FAILED")} \cup
                 {[st EXCEPT !.preflight = ok, !.fixed = FALSE] : ok \in BOOLEAN})
  /\ Goto(RoutePreflightGuard(st'))

-----------------------------------------------------------------------------
(* Approval and provisioning. *)

\* Mutant: a session without a terminal is approved as if --yes were given.
HumanApproval_NoTtyCheck ==
  /\ at = "human_approval"
  /\ Goto("resource_provisioner")
  /\ \/ st.auto /\ UNCHANGED st /\ consent' = TRUE
     \/ ~st.auto /\ ~tty /\ UNCHANGED <<st, consent>>
     \/ ~st.auto /\ tty /\ st.resumed /\ UNCHANGED <<st, consent>>
     \/ /\ ~st.auto /\ tty /\ ~st.resumed
        /\ \/ st' = With(st, "CANCELLED") /\ UNCHANGED consent
           \/ UNCHANGED st /\ consent' = TRUE
  /\ UNCHANGED <<requests, tty>>

HumanApproval ==
  /\ at = "human_approval"
  /\ Goto("resource_provisioner")
  /\ \/ st.auto /\ UNCHANGED st /\ consent' = TRUE
     \/ ~st.auto /\ ~tty /\ st' = With(st, "FAILED") /\ UNCHANGED consent
     \/ ~st.auto /\ tty /\ st.resumed /\ UNCHANGED <<st, consent>>
     \/ /\ ~st.auto /\ tty /\ ~st.resumed
        /\ \/ st' = With(st, "CANCELLED") /\ UNCHANGED consent
           \/ UNCHANGED st /\ consent' = TRUE
  /\ UNCHANGED <<requests, tty>>

\* CreateResource (or the SDK call of the partition fallback) is accepted.
Submit(outcome) ==
  requests' = Append(requests, [slot |-> st.desired, type |-> st.type,
                                outcome |-> outcome])

\* The node goes on to its checks and the create call.
Provisions(s) == s.status # "CANCELLED" /\ ~AtCompanion(s) /\ s.desired # None

\* The provisioner returns without a call: the run was cancelled, the slot is
\* a companion, or there is nothing to create.
SkipProvision ==
  /\ at = "resource_provisioner"
  /\ ~Provisions(st)
  /\ st' = CASE st.status = "CANCELLED" -> st
             [] st.status # "CANCELLED" /\ AtCompanion(st) -> With(st, "SUCCESS")
             [] OTHER -> With(st, "FAILED")
  /\ Goto(RouteResourceProvisioner(st'))
  /\ KeepOutside

\* A check, a pre-create hook or the create call itself fails.
RefuseProvision ==
  /\ at = "resource_provisioner"
  /\ Provisions(st)
  /\ st' = With(st, "FAILED")
  /\ Goto(RouteResourceProvisioner(st'))
  /\ KeepOutside

\* The create call went through, but its answer never came back.
LoseAnswer ==
  /\ at = "resource_provisioner"
  /\ Provisions(st)
  /\ Submit("pending")
  /\ st' = With(st, "FAILED")
  /\ Goto(RouteResourceProvisioner(st'))
  /\ UNCHANGED <<consent, tty>>

\* SDK-direct fallback in a partition without CloudControl: synchronous.
CreateDirect ==
  /\ at = "resource_provisioner"
  /\ Provisions(st)
  /\ Submit("ok")
  /\ st' = With(st, "SUCCESS")
  /\ Goto(RouteResourceProvisioner(st'))
  /\ UNCHANGED <<consent, tty>>

CreateAsync ==
  /\ at = "resource_provisioner"
  /\ Provisions(st)
  /\ Submit("pending")
  /\ st' = [With(st, "IN_PROGRESS") EXCEPT !.token = Len(requests) + 1]
  /\ Goto(RouteResourceProvisioner(st'))
  /\ UNCHANGED <<consent, tty>>

ResourceProvisioner ==
  SkipProvision \/ RefuseProvision \/ LoseAnswer \/ CreateDirect \/ CreateAsync

\* The wall clock has passed the type's poll timeout, or polling failed with
\* an error that is not a throttling error, or there is no token to poll.
PollFails ==
  /\ Return("status_poller", {With(st, "FAILED")})
  /\ Goto(RouteStatusPoller(st'))

\* A throttling error: back off within the budget.
PollThrottled ==
  /\ st.token # 0
  /\ Return("status_poller",
            IF st.throttle < MaxThrottle
              THEN {[With(st, "IN_PROGRESS") EXCEPT !.throttle = @ + 1]}
              ELSE {With(st, "FAILED")})
  /\ Goto(RouteStatusPoller(st'))

\* Mutant: a create that is still in progress is given up and sent again.
AfterVerdict_Impatient(s, outcome) ==
  CASE outcome = "ok"      -> With(s, "SUCCESS")
    [] outcome = "failed"  -> With(s, "FAILED")
    [] OTHER -> IF s.retries < MaxRetries
                  THEN [With(s, "IN_PROGRESS") EXCEPT !.retries = @ + 1, !.token = 0]
                  ELSE With(s, "FAILED")

AfterVerdict(s, outcome) ==
  CASE outcome = "ok"      -> With(s, "SUCCESS")
    [] outcome = "failed"  -> With(s, "FAILED")
    [] outcome = "dns"     -> IF s.retries < MaxRetries
                                THEN [With(s, "IN_PROGRESS") EXCEPT
                                        !.retries = @ + 1, !.token = 0]
                                ELSE With(s, "FAILED")
    [] outcome = "pending" -> With(s, "IN_PROGRESS")

\* GetResourceRequestStatus answers.
PollAnswered ==
  /\ st.token # 0
  /\ Return("status_poller", {AfterVerdict(st, requests[st.token].outcome)})
  /\ Goto(RouteStatusPoller(st'))

StatusPoller == PollFails \/ PollThrottled \/ PollAnswered

-----------------------------------------------------------------------------
(* result_formatter, by status and shape (result-formatter/registry.ts). *)

Finish(s) == st' = s /\ Goto(RouteResultFormatter(s))

\* Mutant: the throttle budget of a slot is inherited by the next.
NextSlot_KeepsThrottle(s) ==
  [s EXCEPT !.status = "PENDING", !.completed = Append(@, s.index),
            !.index = @ + 1, !.type = s.index + 1, !.desired = None, !.token = 0]

\* The slot is done; the next one starts from a clean slate.
NextSlot(s) ==
  [s EXCEPT !.status = "PENDING", !.completed = Append(@, s.index),
            !.index = @ + 1, !.type = s.index + 1, !.desired = None, !.token = 0,
            !.throttle = 0]

\* Mutant: the next slot is planned although this one has failed.
FormatCompoundAdvance_EvenFailed ==
  /\ at = "result_formatter"
  /\ st.status \in {"SUCCESS", "FAILED"} /\ CompoundShape(st) /\ st.index + 1 < N
  /\ Finish(NextSlot(st))
  /\ KeepOutside

\* Mutant: the end of the queue is overrun by one.
FormatCompoundAdvance_PastEnd ==
  /\ at = "result_formatter"
  /\ st.status = "SUCCESS" /\ CompoundShape(st) /\ st.index < N
  /\ Finish(NextSlot(st))
  /\ KeepOutside

FormatCompoundAdvance ==
  /\ at = "result_formatter"
  /\ st.status = "SUCCESS" /\ CompoundShape(st) /\ st.index + 1 < N
  /\ Finish(NextSlot(st))
  /\ KeepOutside

\* The last slot: the index stays, and executionStatus stays SUCCESS.
FormatCompoundSuccess ==
  /\ at = "result_formatter"
  /\ st.status = "SUCCESS" /\ CompoundShape(st) /\ st.index + 1 = N
  /\ Finish([st EXCEPT !.completed = Append(@, st.index)])
  /\ KeepOutside

FormatOutOfBounds ==
  /\ at = "result_formatter"
  /\ st.status = "SUCCESS" /\ CompoundShape(st) /\ st.index = N
  /\ Finish(With(st, "FAILED"))
  /\ KeepOutside

\* Success of a single resource, an error or an answer: printed and recorded,
\* with no change to the channels.
FormatEnd ==
  /\ at = "result_formatter"
  /\ \/ st.status = "SUCCESS" /\ ~CompoundShape(st)
     \/ st.status \in Terminal \cup {"QUERY_INTENT"}
  /\ Finish(st)
  /\ KeepOutside

\* The plan is shown, and the operator may choose fixes for its findings.
Fixable(s) == tty /\ ~s.auto /\ (s.mode = "PLAN" \/ ~s.preflight)

\* Mutant: the plan of a slot does not move the cursor.
PlanAdvanced_Stays(s) == s

\* In PLAN mode the formatter moves to the next slot of a pattern.
PlanAdvanced(s) ==
  IF s.mode = "PLAN" /\ CompoundShape(s)
    THEN IF s.index + 1 < N
           THEN [s EXCEPT !.index = @ + 1, !.type = s.index + 1,
                          !.desired = None, !.status = "PENDING"]
           ELSE [s EXCEPT !.index = N]
    ELSE s

\* The fixed desiredState of the slot overrides what the advance has reset.
PlanFixed(s) ==
  [PlanAdvanced(s) EXCEPT !.desired = IF s.desired = None THEN @ ELSE s.desired,
                          !.fixed = TRUE]

FormatPlan ==
  /\ at = "result_formatter"
  /\ st.status \in {"PENDING", "IN_PROGRESS", "undefined"}
  /\ \/ Finish(PlanAdvanced(st))
     \/ Fixable(st) /\ Finish(PlanFixed(st))
  /\ KeepOutside

ResultFormatter ==
  \/ FormatCompoundAdvance \/ FormatCompoundSuccess \/ FormatOutOfBounds
  \/ FormatEnd \/ FormatPlan

-----------------------------------------------------------------------------

GraphStep ==
  \/ IntentUnderstood \/ IntentRejected \/ QueryHandler \/ SchemaFetcher
  \/ CompoundDispatcher \/ PlanGenerator \/ ValidateDesiredState
  \/ PreflightGuard \/ HumanApproval
  \/ ResourceProvisioner \/ StatusPoller \/ ResultFormatter

\* CloudControl settles a create request.
Settle(i, outcome) ==
  /\ requests[i].outcome = "pending"
  /\ outcome = "dns" => requests[i].type \in Retryable
  /\ requests' = [requests EXCEPT ![i].outcome = outcome]
  /\ UNCHANGED <<st, at, consent, tty>>

CloudControl ==
  \E i \in DOMAIN requests, outcome \in {"ok", "failed", "dns"} :
    Settle(i, outcome)

\* graph.invoke has returned: nothing runs on the thread.
Returned == at \in {"interrupt", "END"}

\* graph.invoke(input, config): the input is merged into the channels and the
\* thread starts over at START.
Invoke(s) == st' = s /\ at' = RouteCheckpointEntry(s)

\* graph.invoke(null, config): an interrupted thread goes on, an ended one
\* has nothing to do.
InvokeNull ==
  /\ at' = IF at = "interrupt" THEN "resource_provisioner" ELSE at
  /\ UNCHANGED <<st, requests, consent, tty>>

-----------------------------------------------------------------------------
(* Properties of what any driver makes the graph create. *)

Provisionable == Slots \ Companion

Exists(slot) ==
  \E i \in DOMAIN requests : requests[i].slot = slot /\ requests[i].outcome = "ok"

\* A resource is created only when everything it depends on exists: all the
\* provisionable slots before it in the queue.
DependencyOrder ==
  \A i \in DOMAIN requests : \A t \in Provisionable :
    t < requests[i].slot => \E j \in 1..(i - 1) :
                              requests[j].slot = t /\ requests[j].outcome = "ok"

\* A slot is sent to CloudControl a second time only after AWS has said that
\* the first time came to nothing: there are never two resources for a slot.
NoDuplicateResource ==
  \A i, j \in DOMAIN requests :
    i < j /\ requests[i].slot = requests[j].slot => requests[i].outcome = "dns"

\* A resource is created from the desired state that was planned for its type.
PlannedForItsType ==
  \A i \in DOMAIN requests : requests[i].type = requests[i].slot

\* What is created comes from a plan that neither failed nor was cancelled nor
\* is blocked by a finding.  (resource_provisioner itself checks only CANCELLED.)
OnlySoundPlans ==
  [][Len(requests') > Len(requests) =>
       st.status \in {"PENDING", "IN_PROGRESS"} /\ st.preflight]_graphVars

\* The throttling budget belongs to one slot: whatever the slots before have
\* used up, a slot that has not been tried yet starts with all of it.
ThrottleBudgetIsFresh ==
  [][ \/ Len(requests') <= Len(requests)
      \/ \E i \in DOMAIN requests : requests[i].slot = st.desired
      \/ st.throttle = 0 ]_graphVars
=============================================================================
