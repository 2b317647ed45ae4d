----------------------------- MODULE PlanApply -----------------------------
(***************************************************************************)
(* `assignee infra plan` (apps/cli/src/commands/plan): plan in PLAN mode,   *)
(* show the plan, ask "Apply now?", and on Yes go on to provision it on a   *)
(* second thread of the graph, without planning again.                      *)
(***************************************************************************)
EXTENDS ProvisionLoop

vars == <<graphVars, loopVars>>

\* planning, clarified - the graph plans; applying - the graph runs the
\* second thread up to its interrupt
TypeOK ==
  /\ GraphTypeOK
  /\ phase \in {"start", "planning", "clarified", "applying"} \cup LoopPhase
  /\ pauses \in Nat
  /\ verdict \in {"none", "ok", "failed"}

Init ==
  /\ st = NewThread
  /\ at = "END"
  /\ requests = <<>>
  /\ consent = FALSE
  /\ tty \in BOOLEAN
  /\ phase = "start"
  /\ pauses = 0
  /\ verdict = "none"

\* graph.invoke with an input, on the way to phase p.
Begin(s, p) ==
  /\ Invoke(s)
  /\ phase' = p
  /\ UNCHANGED <<requests, tty, pauses, verdict>>

PlanInput(s) == [s EXCEPT !.mode = "PLAN"]

StartPlan ==
  /\ phase = "start"
  /\ Begin(PlanInput(NewThread), "planning")
  /\ UNCHANGED consent

Failure(s) == s.status \in {"FAILED", "UNSUPPORTED_RESOURCE"}

Clarifiable(s) ==
  \/ s.status = "UNSUPPORTED_RESOURCE"
  \/ s.status = "FAILED" /\ s.type = None

Clarify ==
  /\ phase = "planning" /\ Returned
  /\ Clarifiable(st) /\ tty
  /\ Begin(PlanInput(st), "clarified")
  /\ UNCHANGED consent

Planned == phase \in {"planning", "clarified"} /\ Returned

\* An answered question, a plan without an apply (--no-apply, no terminal),
\* or a No to "Apply now?".
LeaveItAtThePlan ==
  /\ Planned
  /\ ~Failure(st)
  /\ Report("ok")
  /\ UNCHANGED graphVars

\* Planning failed, blocking findings remain, or the budget is exceeded.
RefuseToApply ==
  /\ Planned
  /\ st.status # "QUERY_INTENT"
  /\ Report("failed")
  /\ UNCHANGED graphVars

\* The state of the plan's thread, handed to the apply's as it is.
ApplyInput(s) ==
  [NewThread EXCEPT !.mode = "APPLY", !.resumed = TRUE, !.type = s.type,
     !.desired = s.desired, !.preflight = s.preflight, !.pattern = s.pattern,
     !.queue = s.queue, !.index = s.index, !.completed = s.completed]

\* Mutant: "Apply now?" is offered although blocking findings remain.
ApplyNow_AnyPlan ==
  /\ Planned
  /\ ~Failure(st) /\ st.status # "QUERY_INTENT"
  /\ tty
  /\ consent' = TRUE
  /\ Begin(ApplyInput(st), "applying")

\* Mutant: --no-apply and a missing terminal are not looked at, nobody is asked.
ApplyNow_Unasked ==
  /\ Planned
  /\ ~Failure(st) /\ st.status # "QUERY_INTENT"
  /\ st.preflight \/ st.fixed
  /\ Begin(ApplyInput(st), "applying")
  /\ UNCHANGED consent

\* Yes to "Apply now?", which is offered when nothing blocks (any more).
ApplyNow ==
  /\ Planned
  /\ ~Failure(st) /\ st.status # "QUERY_INTENT"
  /\ tty
  /\ st.preflight \/ st.fixed
  /\ consent' = TRUE
  /\ Begin(ApplyInput(st), "applying")

\* The second thread has come to its interrupt, or could not start.
ApplyStarts ==
  /\ phase = "applying" /\ Returned
  /\ CASE st.status = "CANCELLED" -> Report("ok")
       [] Failure(st) -> Report("failed")
       [] OTHER -> EnterLoop
  /\ UNCHANGED graphVars

-----------------------------------------------------------------------------

Command ==
  \/ StartPlan \/ Clarify \/ LeaveItAtThePlan \/ RefuseToApply \/ ApplyNow
  \/ ApplyStarts \/ Loop

Graph == GraphStep /\ UNCHANGED loopVars

World == CloudControl /\ UNCHANGED loopVars

Next == Command \/ Graph \/ World

Spec == Init /\ [][Next]_vars

\* A node that runs comes back, the poll timeout passes, and the command goes on.
Fairness ==
  /\ WF_vars(Graph)
  /\ WF_vars(PollFails /\ UNCHANGED loopVars)
  /\ WF_vars(Command)

FairSpec == Spec /\ Fairness

-----------------------------------------------------------------------------
(* Properties. *)

\* Planning has no effect outside: everything that is created is created on
\* the apply thread, after the operator's Yes.
CreatesOnlyAfterYes ==
  [][Len(requests') > Len(requests) => consent /\ st.mode = "APPLY"]_vars

\* A finding that blocks keeps its plan from being applied.
BlockedPlanIsNotApplied ==
  [][consent' # consent => st.preflight \/ st.fixed]_vars

\* Success is reported for an apply only when the resource that was applied
\* last exists, or is display-only: a lost, refused or abandoned create never
\* counts as one.
LastCreateExists ==
  verdict = "ok" /\ st.mode = "APPLY" => Exists(st.desired) \/ AtCompanion(st)

\* formatters/plan.ts: a chosen fix must not be overwritten, so that it can be
\* applied.  An apply that reports success has created something; companions
\* come last in every pattern that has them, and are passed over on the way.
SuccessCreates ==
  verdict = "ok" /\ st.mode = "APPLY" => \E slot \in Slots : Exists(slot)

\* Every plan comes to a report, applied or not.
EveryPlanIsReported == phase # "start" ~> phase = "reported"

-----------------------------------------------------------------------------
(* The inductive invariant behind them. *)

\* Of all requests only the last can still come to something,
OnlyRetries ==
  \A i, j \in 1..Len(requests) : i < j => requests[i].outcome = "dns"

\* and before a retry not even that.
AllDns == \A i \in 1..Len(requests) : requests[i].outcome = "dns"

Created == Exists(st.desired) \/ AtCompanion(st)

\* Nothing is left in the queue of a plan that passed its last preflight.
PlannedToTheEnd == st.preflight => ~(CompoundShape(st) /\ st.index < N)

\* Planning requests nothing, and when it ends with a plan that may be
\* applied, there is a desired state to apply.
PlanningInv ==
  /\ st.mode = "PLAN" /\ ~st.resumed /\ st.completed = <<>> /\ requests = <<>>
  /\ at \in {"intent_parser", "query_handler", "schema_fetcher",
             "compound_dispatcher", "plan_generator", "validate_desired_state",
             "preflight_guard", "result_formatter", "END"}
  /\ st.status \in {"PENDING", "FAILED", "UNSUPPORTED_RESOURCE", "QUERY_INTENT"}
  /\ st.status = "PENDING" =>
       /\ at \in {"validate_desired_state", "preflight_guard", "result_formatter"} =>
            st.desired # None
       /\ at = "result_formatter" => ~st.fixed
       /\ at = "END" =>
            /\ st.preflight \/ st.fixed => st.desired # None
            /\ PlannedToTheEnd

\* The second thread goes straight to its interrupt.
ApplyingInv ==
  /\ st.mode = "APPLY" /\ st.resumed /\ ~st.auto /\ tty /\ consent
  /\ st.status = "PENDING" /\ st.desired # None /\ PlannedToTheEnd
  /\ st.completed = <<>> /\ requests = <<>>
  /\ at \in {"human_approval", "interrupt"}

\* It attempts one slot, and ends.
RunningInv ==
  /\ st.mode = "APPLY" /\ consent /\ OnlyRetries
  /\ phase = "loop" => at = "interrupt"
  /\ at \in {"resource_provisioner", "status_poller", "result_formatter",
             "interrupt", "END"}
  /\ at # "END" =>
       st.desired # None /\ PlannedToTheEnd /\ st.completed = <<>>
  /\ at \in {"interrupt", "resource_provisioner"} =>
       AllDns /\ st.status \in {"PENDING", "IN_PROGRESS"}
  /\ at = "status_poller" =>
       /\ st.token = Len(requests) /\ st.token > 0
       /\ requests[st.token].slot = st.desired
       /\ st.status = "IN_PROGRESS"
  /\ at = "result_formatter" => st.status \in {"SUCCESS", "FAILED"}
  /\ at \in {"result_formatter", "END"} => (st.status = "SUCCESS" => Created)
  /\ at = "END" => (Len(st.completed) = N => st.status = "SUCCESS")

PlanInv ==
  /\ TypeOK
  /\ phase # "reported" => verdict = "none"
  /\ phase = "start" => st = NewThread /\ at = "END" /\ requests = <<>>
  /\ phase \in {"planning", "clarified"} => PlanningInv
  /\ phase = "applying" => ApplyingInv
  /\ phase \in {"loop", "provisioning"} => RunningInv
  /\ phase = "reported" => Returned /\ OnlyRetries
  /\ LastCreateExists
=============================================================================
