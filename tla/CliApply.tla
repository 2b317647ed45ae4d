------------------------------ MODULE CliApply ------------------------------
(***************************************************************************)
(* `assignee infra apply` (apps/cli/src/commands/apply): phase 1 plans and  *)
(* asks for approval up to the interrupt, the gate decides what becomes of  *)
(* it, and the provisioning loop runs phase 2.  The run starts from an      *)
(* intent, or from the checkpoint of an earlier plan.                       *)
(***************************************************************************)
EXTENDS ProvisionLoop

\* intent       - a fresh plan
\* plan         - the checkpoint of a single resource's plan
\* pattern_plan - the checkpoint of a pattern's plan
CONSTANT Origins

ASSUME OriginAssumption == Origins \subseteq {"intent", "plan", "pattern_plan"}

vars == <<graphVars, loopVars>>

\* phase1, clarified, continued - the graph runs from the first invocation,
\* from the clarifier's, from the one after interactive fixes
Phase1 == {"phase1", "clarified", "continued"}

TypeOK ==
  /\ GraphTypeOK
  /\ phase \in {"start"} \cup Phase1 \cup LoopPhase
  /\ pauses \in Nat
  /\ verdict \in {"none", "ok", "failed"}

Init ==
  /\ st = NewThread
  /\ at = "END"
  /\ requests = <<>>
  /\ consent = FALSE
  /\ tty \in BOOLEAN
  /\ phase = "start"
  /\ pauses = 0
  /\ verdict = "none"

\* graph.invoke with an input, on the way to phase p.
Begin(s, p) ==
  /\ Invoke(s)
  /\ phase' = p
  /\ UNCHANGED <<requests, consent, tty, pauses, verdict>>

\* buildFreshPlanState sets neither executionStatus nor resourcePattern.
FreshInput(s, yes) == [s EXCEPT !.mode = "APPLY", !.auto = yes]

\* What reEvaluateBP makes of a checkpoint: preflightPassed as it was saved,
\* or FALSE because a finding now blocks; when the evaluation itself fails the
\* run is FAILED under the enforce level, undefined under warn.
Revaluation ==
  {[preflight |-> TRUE, status |-> "PENDING"],
   [preflight |-> FALSE, status |-> "PENDING"],
   [preflight |-> FALSE, status |-> "FAILED"],
   [preflight |-> TRUE, status |-> "undefined"]}

\* buildCheckpointState: the resource that was planned last, and for a pattern
\* its queue, but no resourcePattern and (after a plan) no currentResourceIndex.
CheckpointInput(yes, pattern, r) ==
  LET planned == IF pattern THEN N - 1 ELSE 0
  IN [NewThread EXCEPT !.mode = "APPLY", !.resumed = TRUE, !.auto = yes,
        !.type = planned, !.desired = planned, !.queue = pattern,
        !.preflight = r.preflight, !.status = r.status]

StartFresh ==
  /\ phase = "start"
  /\ "intent" \in Origins
  /\ \E yes \in BOOLEAN : Begin(FreshInput(NewThread, yes), "phase1")

StartCheckpoint ==
  /\ phase = "start"
  /\ \E origin \in Origins \ {"intent"}, yes \in BOOLEAN, r \in Revaluation :
       Begin(CheckpointInput(yes, origin = "pattern_plan", r), "phase1")

-----------------------------------------------------------------------------
(* The gate after phase 1 (phase1-gate.ts). *)

Failure(s) == s.status \in {"FAILED", "UNSUPPORTED_RESOURCE"}

Blocked(s) == s.status = "PENDING" /\ ~s.preflight

\* The intent itself could not be mapped to a type.
Clarifiable(s) ==
  \/ s.status = "UNSUPPORTED_RESOURCE"
  \/ s.status = "FAILED" /\ s.type = None

\* A rephrased intent is planned on the same thread, once.
Clarify ==
  /\ phase = "phase1" /\ Returned
  /\ Clarifiable(st) /\ tty /\ ~st.auto
  /\ Begin(FreshInput(st, st.auto), "clarified")

\* The operator has fixed every blocking finding: invoke again, past planning.
FixAndContinue ==
  /\ phase \in {"phase1", "clarified"} /\ Returned
  /\ Blocked(st) /\ st.fixed
  /\ Begin([st EXCEPT !.resumed = TRUE, !.preflight = TRUE], "continued")

\* A cancelled run and an answered question are reported as success.
GateSettled ==
  /\ Returned
  /\ \/ phase = "phase1" /\ st.status \in {"CANCELLED", "QUERY_INTENT"}
     \/ phase = "continued" /\ st.status = "CANCELLED"
  /\ Report("ok")
  /\ UNCHANGED graphVars

GateFailed ==
  /\ phase \in {"phase1", "clarified"} /\ Returned
  /\ Failure(st) \/ (Blocked(st) /\ ~st.fixed)
  /\ Report("failed")
  /\ UNCHANGED graphVars

\* The run has come through the gate's special cases.
Cleared ==
  /\ Returned
  /\ \/ phase = "phase1" /\ st.status \notin {"CANCELLED", "QUERY_INTENT"}
     \/ phase = "clarified"
     \/ phase = "continued" /\ st.status # "CANCELLED"
  /\ phase # "continued" => ~Failure(st) /\ ~Blocked(st)

\* To phase 2, when the status is one the loop knows.
Proceed ==
  /\ Cleared
  /\ st.status \in {"IN_PROGRESS", "PENDING"}
  /\ EnterLoop
  /\ UNCHANGED graphVars

\* An unexpected status, or the monthly budget would be exceeded.
GateRefuses ==
  /\ Cleared
  /\ Report("failed")
  /\ UNCHANGED graphVars

-----------------------------------------------------------------------------

Gate == Clarify \/ FixAndContinue \/ GateSettled \/ GateFailed \/ Proceed \/ GateRefuses

Command == StartFresh \/ StartCheckpoint \/ Gate \/ Loop

Graph == GraphStep /\ UNCHANGED loopVars

World == CloudControl /\ UNCHANGED loopVars

Next == Command \/ Graph \/ World

Spec == Init /\ [][Next]_vars

\* A node that runs comes back, the poll timeout passes, and the command goes on.
Fairness ==
  /\ WF_vars(Graph)
  /\ WF_vars(PollFails /\ UNCHANGED loopVars)
  /\ WF_vars(Command)

FairSpec == Spec /\ Fairness

-----------------------------------------------------------------------------
(* Properties. *)

\* The operator stands behind what the run creates: said Yes or passed --yes,
\* or, at a terminal, started from an approved checkpoint or went on after
\* choosing the fixes of a blocked plan.
Sanctioned == consent \/ (tty /\ st.resumed)

\* Nothing is created that the operator does not stand behind; without a
\* terminal, only --yes will do.
NothingUnattended == requests # <<>> => Sanctioned

\* Success is reported only when every resource of the plan exists; a run that
\* was declined, or only asked a question, has created nothing.
HonestVerdict ==
  verdict = "ok" =>
    IF st.status \in {"CANCELLED", "QUERY_INTENT"}
      THEN requests = <<>>
      ELSE \A slot \in (IF st.queue THEN Provisionable ELSE {0}) : Exists(slot)

\* The loop counts the pauses before a create and takes each for a resource
\* done, so a retry uses up a turn of the resources still to come.  Only then do
\* the loop's limits ("queue index out of bounds") end an apply, and
\* MAX_PROVISION_LOOPS never does.
LimitsNeedARetry ==
  phase = "loop" /\ OutOfTurns => st.retries > 0 /\ pauses < MaxLoops

\* However the phases, the pauses and the retries interleave, a run asks for no
\* more than one create for each resource and one for each retry.
BoundedCreates == Len(requests) <= N + MaxRetries

\* Every apply comes to a report, however often AWS throttles or stalls.
EveryApplyIsReported == phase # "start" ~> phase = "reported"

\* What an apply promises: the parts of a plan are created one after the other
\* in dependency order, and only with the operator's sanction.
Ordered == INSTANCE OrderedApply WITH
  Parts      <- Provisionable,
  sanctioned <- Sanctioned,
  attempted  <- {requests[i].slot : i \in DOMAIN requests},
  existing   <- {slot \in Slots : Exists(slot)}

ImplementsOrderedApply == Ordered!Spec

-----------------------------------------------------------------------------
(***************************************************************************)
(* The inductive invariant behind the safety properties: what each node of  *)
(* the graph may rely on when it runs, in either phase of the command.      *)
(***************************************************************************)

\* No origin leaves out a part of its plan.
WholePlans == "pattern_plan" \notin Origins

\* Phase 2 is going on.
Running == phase \in {"loop", "provisioning"}

\* The requests that were made for a slot.
Requested(slot) == {i \in DOMAIN requests : requests[i].slot = slot}

\* No plan has been begun.
Unplanned(s) == ~s.queue /\ s.index = None /\ s.desired = None

\* The desired state in the channels is that of the slot under the cursor.
Ready(s) ==
  /\ s.desired # None /\ s.type = s.desired
  /\ CompoundShape(s) => s.desired = s.index
  /\ WholePlans /\ ~CompoundShape(s) => s.desired = 0

\* What tells a pattern's run from a single resource's, and how many of the
\* pattern's resources the run has counted as created: those before the cursor.
ShapeInv ==
  /\ CompoundShape(st) => st.index # N /\ st.desired \in {None, st.index}
  /\ WholePlans /\ st.queue => CompoundShape(st)
  /\ ~CompoundShape(st) => st.completed = <<>>
  /\ CompoundShape(st) =>
       \/ Len(st.completed) = st.index
       \/ Len(st.completed) = N /\ at = "END" /\ st.status = "SUCCESS"

\* The nodes that find a desired state, or a verdict.
PastPlanning == {"validate_desired_state", "preflight_guard", "human_approval",
                 "interrupt", "resource_provisioner", "status_poller",
                 "result_formatter"}

\* What each node finds in the channels.
StageInv ==
  /\ at = "intent_parser" => st.index = None
  /\ at = "intent_parser" =>
       \/ st.status \in {"FAILED", "UNSUPPORTED_RESOURCE"}
       \/ st.status = "PENDING" /\ Unplanned(st) /\ ~st.pattern
  /\ at \in {"schema_fetcher", "compound_dispatcher"} =>
       /\ Unplanned(st)
       /\ IF st.pattern THEN st.status = "PENDING"
                        ELSE st.status \in {"PENDING", "FAILED"} /\ st.type = 0
  /\ at = "plan_generator" =>
       /\ st.desired = None
       /\ \/ CompoundShape(st) /\ st.status = "PENDING"
          \/ /\ Unplanned(st) /\ ~st.pattern /\ st.type = 0
             /\ st.status \in {"PENDING", "FAILED"}
  /\ at \in {"validate_desired_state", "preflight_guard"} =>
       st.status \in {"PENDING", "FAILED"}
  /\ at \in PastPlanning /\ st.status \notin Terminal \cup {"QUERY_INTENT"} => Ready(st)
  /\ at = "result_formatter" =>
       \/ st.status \in Terminal \cup {"QUERY_INTENT"}
       \/ st.status = "PENDING" /\ ~st.preflight
       \/ /\ st.status = "SUCCESS" /\ st.preflight
          /\ AtCompanion(st) \/ Exists(st.desired)

\* Before phase 2: nothing is created, and the interrupt means approval.
PlanningInv ==
  /\ phase = "start" => st = NewThread /\ at = "END" /\ requests = <<>>
  /\ phase \in Phase1 =>
       /\ requests = <<>> /\ st.mode = "APPLY" /\ st.index \in {None, 0}
       /\ st.status = "UNSUPPORTED_RESOURCE" \/ st.type = None => st.index = None
       /\ st.status \notin {"IN_PROGRESS", "SUCCESS"}
       /\ at \notin {"resource_provisioner", "status_poller"}
       /\ at = "END" /\ st.status = "PENDING" => ~st.preflight /\ Ready(st)
       /\ at = "interrupt" /\ st.status \notin Terminal => Sanctioned
  /\ phase = "continued" => at \in {"human_approval", "interrupt"} /\ st.preflight

\* Phase 2: only the slots of a sanctioned plan that nothing blocks come to
\* the provisioner, each with no request that could still bring it about.
RunningInv ==
  /\ Running =>
       /\ Sanctioned /\ st.mode = "APPLY"
       /\ st.status \in {"PENDING", "IN_PROGRESS", "SUCCESS", "FAILED"}
       /\ at \notin {"intent_parser", "query_handler", "schema_fetcher",
                    "compound_dispatcher", "human_approval"}
       /\ at \in {"plan_generator", "validate_desired_state", "preflight_guard"} =>
            ContinuesPattern(st)
       /\ at \in {"interrupt", "resource_provisioner"} =>
            /\ st.preflight
            /\ \/ st.status = "PENDING"
               \/ /\ st.status = "IN_PROGRESS"
                  /\ \A i \in Requested(st.desired) : requests[i].outcome = "dns"
       /\ at = "status_poller" =>
            /\ st.status = "IN_PROGRESS" /\ st.preflight
            /\ st.token = Len(requests) /\ st.token \in Requested(st.desired)
            /\ \A i \in Requested(st.desired) :
                 i # st.token => requests[i].outcome = "dns"
  /\ phase = "loop" => at = "interrupt"
  /\ phase = "reported" => Returned

\* What has been requested belongs to the slots up to the cursor, and the
\* cursor has passed only what exists.
RequestInv ==
  /\ requests # <<>> => Sanctioned
  /\ st.status = "PENDING" =>
       IF CompoundShape(st)
         THEN \A i \in DOMAIN requests : requests[i].slot < st.index
         ELSE requests = <<>>
  /\ CompoundShape(st) =>
       /\ \A i \in DOMAIN requests : requests[i].slot <= st.index
       /\ \A t \in Provisionable : t < st.index => Exists(t)
  /\ NoDuplicateResource
  /\ PlannedForItsType
  /\ WholePlans => DependencyOrder /\ \A i \in DOMAIN requests :
                                      requests[i].slot \in Provisionable

\* The graph ends in SUCCESS, and the command reports it, only when the plan's
\* resources exist.
VerdictInv ==
  /\ phase # "reported" => verdict = "none"
  /\ WholePlans =>
       /\ at = "END" /\ st.status = "SUCCESS" =>
            \A slot \in (IF st.queue THEN Provisionable ELSE {0}) : Exists(slot)
       /\ HonestVerdict

\* At every moment of an apply, node by node: the cursor stands on the resource
\* whose state is in the channels, everything before it exists and nothing
\* behind it was requested, the provisioner is reached only under the operator's
\* sanction and past a preflight, with no live request for its resource, and
\* success means that all of it exists (aws-compound.ts, graph-routing.ts,
\* resource-provisioner.ts, phase1-gate.ts, provisioning-loop.ts together).
ApplyInv ==
  /\ TypeOK
  /\ ShapeInv
  /\ StageInv
  /\ PlanningInv
  /\ RunningInv
  /\ RequestInv
  /\ VerdictInv

\* The pauses at the interrupt that the run has come to, or is on its way to.
Due == Cursor(st) + st.retries

\* The graph is between two creates.
BetweenCreates == at \in {"plan_generator", "validate_desired_state",
                          "preflight_guard", "interrupt"}

\* The count of the loop is the cursor and the retries taken together, one
\* behind while the graph goes from a create to the next pause; no create is
\* without a pause before it.
PacedInv ==
  /\ st.index # None => st.pattern /\ st.queue
  /\ st.retries <= MaxRetries
  /\ phase \in {"start"} \cup Phase1 => st.retries = 0
  /\ phase = "loop" => pauses = Due /\ Len(requests) <= pauses
  /\ phase = "provisioning" =>
       /\ BetweenCreates => pauses + 1 = Due
       /\ at \in {"resource_provisioner", "status_poller"} => pauses = Due
       /\ at = "result_formatter" => /\ Due \in {pauses, pauses + 1}
                                     /\ st.status = "SUCCESS" => pauses = Due
       /\ at = "resource_provisioner" => Len(requests) <= pauses
  /\ pauses < N + MaxRetries
  /\ Len(requests) <= pauses + 1

-----------------------------------------------------------------------------
(* What the documentation says and the command does not do. *)

\* docs/commands.md: phase 1 "prompts for human confirmation unless --yes is
\* set".  It does not after interactive fixes, nor from a checkpoint.
ConfirmedUnlessYes == requests # <<>> => consent

\* graph-routing.ts: a retry "sends the flow back to resource_provisioner,
\* which waits 30s then re-creates".  No run is reported before its retry ran.
RetryIsRun == phase = "reported" => st.status # "IN_PROGRESS"

\* It does hold of a single resource, and of a pattern that has turns left.
RetryIsRunInTurn ==
  phase = "reported" /\ st.status = "IN_PROGRESS" => CompoundShape(st) /\ Due >= N

\* graph-routing.ts: after intent_parser, anything that is not a query and not
\* FAILED or UNSUPPORTED goes to schema_fetcher; so does a rephrased intent
\* that the parser has understood.
RephrasedIntentIsPlanned == [][IntentUnderstood => at' = "schema_fetcher"]_vars
=============================================================================
