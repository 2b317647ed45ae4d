-------------------------- MODULE PlanApply_proofs --------------------------
(***************************************************************************)
(* The safety of `infra plan` and of the apply it offers, for every length *)
(* of the queue, every choice of companions and retryable slots and every  *)
(* budget.                                                                  *)
(***************************************************************************)
EXTENDS PlanApply, AgentGraph_proofs

\* What the types say of the thread.
LEMMA ThreadFacts ==
  ASSUME TypeOK
  PROVE  /\ st \in Channels
         /\ st.status \in Status /\ st.mode \in {"PLAN", "APPLY"}
         /\ st.queue \in BOOLEAN /\ st.pattern \in BOOLEAN /\ st.auto \in BOOLEAN
         /\ st.preflight \in BOOLEAN /\ st.fixed \in BOOLEAN
         /\ st.index \in 0..N \cup {None}
         /\ st.desired \in Slots \cup {None} /\ st.type \in Slots \cup {None}
         /\ st.completed \in Seq(Slots)
         /\ st.token \in 0..Len(requests)
         /\ requests \in Seq(Request) /\ Len(requests) \in Nat
         /\ DOMAIN requests = 1..Len(requests)
BY DEF TypeOK, GraphTypeOK, ThreadTypeOK, TokenIsReal, Channels

-----------------------------------------------------------------------------
(* Types.                                                                   *)

\* The inputs of the two threads are well typed.
LEMMA InputTypes ==
  ASSUME NEW s \in Channels
  PROVE  PlanInput(s) \in Channels /\ ApplyInput(s) \in Channels
<1>1. PlanInput(s) \in Channels
  BY DEF PlanInput, Channels
<1>2. ApplyInput(s) \in Channels
  BY NewThreadType DEF ApplyInput, Channels
<1>3. QED
  BY <1>1, <1>2

\* The steps of the command keep the types.
LEMMA CommandTypes ==
  ASSUME TypeOK, Command
  PROVE  TypeOK'
<1> USE DEF TypeOK, GraphTypeOK, ThreadTypeOK, TokenIsReal, Node, Begin, Invoke,
            RouteCheckpointEntry, LoopPhase, Report, EnterLoop, graphVars
<1>0. st.token \in Nat
  BY ThreadFacts
<1>1. CASE StartPlan
  <2>1. st'.token = 0
    BY <1>1 DEF StartPlan, PlanInput, NewThread
  <2>2. QED
    BY <1>1, <2>1, NewThreadType, InputTypes DEF StartPlan
<1>2. CASE Clarify
  <2>1. st'.token = st.token
    BY <1>2 DEF Clarify, PlanInput, Channels
  <2>2. QED
    BY <1>2, <2>1, InputTypes DEF Clarify
<1>3. CASE ApplyNow
  <2>1. st'.token = 0
    BY <1>3 DEF ApplyNow, ApplyInput, NewThread
  <2>2. QED
    BY <1>3, <2>1, InputTypes DEF ApplyNow
<1>4. CASE LeaveItAtThePlan \/ RefuseToApply \/ ApplyStarts
  BY <1>4 DEF LeaveItAtThePlan, RefuseToApply, ApplyStarts
<1>5. CASE Loop
  BY <1>5 DEF Loop, LoopTurn, LoopBreak, LoopReturn, InvokeNull, LoopVerdict
<1>6. QED
  BY <1>1, <1>2, <1>3, <1>4, <1>5 DEF Command

\* Every step keeps the types.
LEMMA TypeStep == TypeOK /\ [Next]_vars => TypeOK'
<1> SUFFICES ASSUME TypeOK, [Next]_vars
             PROVE  TypeOK'
  OBVIOUS
<1>1. CASE Command
  BY <1>1, CommandTypes
<1>2. CASE Graph
  BY <1>2, GraphTypes DEF Graph, TypeOK, loopVars
<1>3. CASE World
  BY <1>3, CloudTypes DEF World, TypeOK, loopVars
<1>4. CASE UNCHANGED vars
  BY <1>4 DEF vars, graphVars, loopVars, TypeOK, GraphTypeOK, ThreadTypeOK, TokenIsReal
<1>5. QED
  BY <1>1, <1>2, <1>3, <1>4 DEF Next

\* The initial state is well typed, and the invariant holds of it.
LEMMA InitInv == Init => PlanInv
<1> SUFFICES ASSUME Init
             PROVE  PlanInv
  OBVIOUS
<1>1. requests \in Seq(Request) /\ st.token = 0 /\ Len(requests) = 0
  BY DEF Init, NewThread
<1>2. ThreadTypeOK
  BY <1>1, NewThreadType DEF Init, ThreadTypeOK
<1>3. TypeOK
  BY <1>1, <1>2 DEF Init, TypeOK, GraphTypeOK, TokenIsReal
<1>4. QED
  BY <1>3 DEF Init, PlanInv, LastCreateExists

-----------------------------------------------------------------------------
(* Planning: steps of the graph.                                            *)

\* What intent_parser to compound_dispatcher leave alone.
LEMMA BeforePlanning ==
  ASSUME TypeOK, PlanningInv,
         \/ IntentUnderstood \/ IntentRejected \/ QueryHandler \/ SchemaFetcher
         \/ CompoundDispatcher
  PROVE  PlanningInv'
<1>1. st \in Channels
  BY ThreadFacts
<1> USE DEF PlanningInv, Return, Goto, KeepOutside, With
<1>2. CASE IntentUnderstood
  <2>1. /\ st'.mode = st.mode /\ st'.resumed = st.resumed /\ st'.status = st.status
        /\ st'.completed = st.completed
    BY <1>1, <1>2 DEF IntentUnderstood, Understood, Channels
  <2>2. requests' = requests /\ at' = RouteIntentParser(st')
    BY <1>2 DEF IntentUnderstood, RouteIntentParser
  <2>3. /\ at' \in {"query_handler", "result_formatter", "schema_fetcher"}
        /\ at' = "result_formatter" => st'.status # "PENDING"
    BY <2>2 DEF RouteIntentParser
  <2>4. QED
    BY <2>1, <2>2, <2>3
<1>3. CASE IntentRejected
  <2>1. /\ st'.mode = st.mode /\ st'.resumed = st.resumed
        /\ st'.completed = st.completed
        /\ st'.status \in {"FAILED", "UNSUPPORTED_RESOURCE", "QUERY_INTENT"}
    BY <1>1, <1>3 DEF IntentRejected, Channels
  <2>2. requests' = requests /\ at' \in {"query_handler", "result_formatter"}
    BY <1>3, <2>1 DEF IntentRejected, RouteIntentParser
  <2>3. QED
    BY <2>1, <2>2
<1>4. CASE QueryHandler
  BY <1>1, <1>4 DEF QueryHandler, Channels
<1>5. CASE SchemaFetcher
  <2>1. /\ st' = st \/ st' = [st EXCEPT !.status = "FAILED"]
        /\ requests' = requests /\ at' = "compound_dispatcher"
    BY <1>5 DEF SchemaFetcher
  <2>2. /\ st'.mode = st.mode /\ st'.resumed = st.resumed
        /\ st'.completed = st.completed /\ st'.status \in {st.status, "FAILED"}
    BY <1>1, <2>1 DEF Channels
  <2>3. QED
    BY <2>1, <2>2
<1>6. CASE CompoundDispatcher
  <2>1. /\ st'.mode = st.mode /\ st'.resumed = st.resumed
        /\ st'.completed = st.completed /\ st'.status \in {st.status, "FAILED"}
    BY <1>1, <1>6 DEF CompoundDispatcher, Channels
  <2>2. requests' = requests /\ at' = "plan_generator"
    BY <1>6 DEF CompoundDispatcher
  <2>3. QED
    BY <2>1, <2>2
<1>7. QED
  BY <1>2, <1>3, <1>4, <1>5, <1>6

\* A plan that did not fail has a desired state,
LEMMA PlanGenerated ==
  ASSUME TypeOK, PlanningInv, PlanGenerator
  PROVE  PlanningInv'
<1>1. st \in Channels /\ N \in Nat /\ 0 # None
  BY ThreadFacts, QueueAssumption, NoneAssumption
<1>2. at' = "validate_desired_state" /\ requests' = requests
  BY DEF PlanGenerator, Return, Goto, KeepOutside
<1>3. /\ st'.mode = st.mode /\ st'.resumed = st.resumed /\ st'.completed = st.completed
      /\ st'.status \in {st.status, "FAILED"}
      /\ st'.status = "PENDING" => st'.desired # None
  <2>1. CASE CompoundShape(st)
    <3>1. st' \in CompoundPlans(st) /\ st.index # None
      BY <2>1 DEF PlanGenerator, Return, CompoundShape
    <3>2. QED
      BY <1>1, <3>1 DEF CompoundPlans, With, Channels
  <2>2. CASE ~CompoundShape(st)
    <3>1. st' \in SinglePlans(st)
      BY <2>2 DEF PlanGenerator, Return
    <3>2. QED
      BY <1>1, <3>1 DEF SinglePlans, With, Channels
  <2>3. QED
    BY <2>1, <2>2
<1>4. QED
  BY <1>2, <1>3 DEF PlanningInv

\* and keeps it up to the formatter, which finds no fixes chosen before.
LEMMA PlanChecked ==
  ASSUME TypeOK, PlanningInv, ValidateDesiredState \/ PreflightGuard
  PROVE  PlanningInv'
<1>1. st \in Channels
  BY ThreadFacts
<1> USE DEF PlanningInv, Return, Goto, KeepOutside, With
<1>2. CASE ValidateDesiredState
  <2>1. st' \in {st, With(st, "FAILED")} /\ at = "validate_desired_state"
    BY <1>2 DEF ValidateDesiredState
  <2>2. /\ st'.mode = st.mode /\ st'.resumed = st.resumed /\ st'.completed = st.completed
        /\ st'.status \in {st.status, "FAILED"} /\ st'.desired = st.desired
    BY <1>1, <2>1 DEF Channels
  <2>3. at' \in {"preflight_guard", "result_formatter"} /\ requests' = requests
    BY <1>2 DEF ValidateDesiredState, RouteValidateDesiredState
  <2>4. at' = "result_formatter" => st'.status # "PENDING"
    BY <1>2, <2>2 DEF ValidateDesiredState, RouteValidateDesiredState, Terminal
  <2>5. QED
    BY <2>1, <2>2, <2>3, <2>4
<1>3. CASE PreflightGuard
  <2>1. \/ st' = st /\ st.status # "PENDING"
        \/ st' = With(st, "FAILED")
        \/ \E ok \in BOOLEAN : st' = [st EXCEPT !.preflight = ok, !.fixed = FALSE]
    BY <1>3 DEF PreflightGuard
  <2>2. /\ st'.mode = st.mode /\ st'.resumed = st.resumed /\ st'.completed = st.completed
        /\ st'.status \in {st.status, "FAILED"} /\ st'.desired = st.desired
        /\ st'.status = "PENDING" => ~st'.fixed
    BY <1>1, <2>1 DEF Channels
  <2>3. /\ at = "preflight_guard" /\ at' = "result_formatter" /\ requests' = requests
    BY <1>3, <2>2 DEF PreflightGuard, RoutePreflightGuard
  <2>4. QED
    BY <2>2, <2>3
<1>4. QED
  BY <1>2, <1>3

\* The formatter plans the next slot, or ends with a plan that is whole,
\* blocked, or fixed.
LEMMA PlanFormatted ==
  ASSUME TypeOK, PlanningInv, ResultFormatter
  PROVE  PlanningInv'
<1>1. /\ st \in Channels /\ N \in Nat /\ st.index \in 0..N \cup {None}
      /\ at = "result_formatter"
  BY ThreadFacts, QueueAssumption DEF ResultFormatter, FormatCompoundAdvance,
     FormatCompoundSuccess, FormatOutOfBounds, FormatEnd, FormatPlan
<1>2. requests' = requests
  BY DEF ResultFormatter, FormatCompoundAdvance, FormatCompoundSuccess,
     FormatOutOfBounds, FormatEnd, FormatPlan, KeepOutside
<1>3. CASE FormatPlan
  <2>1. /\ st.status = "PENDING" /\ st.desired # None /\ ~st.fixed
        /\ st.mode = "PLAN" /\ ~st.resumed /\ st.completed = <<>>
    BY <1>1, <1>3 DEF FormatPlan, PlanningInv
  <2>2. PICK s \in {PlanAdvanced(st), PlanFixed(st)} : Finish(s)
    BY <1>3 DEF FormatPlan
  <2> DEFINE more == CompoundShape(st) /\ st.index + 1 < N
  <2>3. /\ s.mode = "PLAN" /\ ~s.resumed /\ s.completed = <<>> /\ s.status = "PENDING"
        /\ s.preflight = st.preflight
        /\ s.pattern = st.pattern /\ s.queue = st.queue
    <3>1. CASE s = PlanAdvanced(st)
      BY <1>1, <2>1, <3>1 DEF PlanAdvanced, Channels
    <3>2. CASE s = PlanFixed(st)
      <4>1. /\ PlanAdvanced(st) \in {[st EXCEPT !.index = @ + 1, !.type = st.index + 1,
                                                !.desired = None, !.status = "PENDING"],
                                    [st EXCEPT !.index = N], st}
        BY DEF PlanAdvanced
      <4>2. QED
        BY <1>1, <2>1, <3>2, <4>1 DEF PlanFixed, Channels
    <3>3. QED
      BY <2>2, <3>1, <3>2
  <2>4. s.desired # None \/ (more /\ ~s.fixed)
    BY <1>1, <2>1 DEF PlanAdvanced, PlanFixed, Channels
  <2>5. /\ more => s.index = st.index + 1
        /\ ~more /\ CompoundShape(st) => s.index = N
        /\ ~CompoundShape(st) => s.index = st.index
    BY <1>1, <2>1 DEF PlanAdvanced, PlanFixed, Channels
  <2>6. CompoundShape(s) <=> CompoundShape(st)
    BY <1>1, <2>3, <2>5, NoneAssumption DEF CompoundShape
  <2>7. st' = s /\ at' = IF CompoundShape(s) /\ s.index < N /\ s.preflight
                           THEN "plan_generator" ELSE "END"
    BY <2>2, <2>3 DEF Finish, Goto, RouteResultFormatter
  <2>8. more => CompoundShape(s) /\ s.index < N
    BY <1>1, <2>5, <2>6
  <2> HIDE DEF more
  <2>9. QED
    BY <1>2, <2>3, <2>4, <2>7, <2>8 DEF PlanningInv, PlannedToTheEnd
<1>4. CASE FormatEnd
  <2>1. st' = st /\ at' = "END" /\ st.status # "PENDING"
    BY <1>4 DEF FormatEnd, Finish, Goto, RouteResultFormatter, Terminal, PlanningInv
  <2>2. QED
    BY <1>2, <2>1 DEF PlanningInv
<1>5. CASE FormatCompoundAdvance \/ FormatCompoundSuccess \/ FormatOutOfBounds
  BY <1>5 DEF FormatCompoundAdvance, FormatCompoundSuccess, FormatOutOfBounds, PlanningInv
<1>6. QED
  BY <1>3, <1>4, <1>5 DEF ResultFormatter

\* Planning goes on and requests nothing.
LEMMA PlanningSafe ==
  ASSUME PlanInv, phase \in {"planning", "clarified"}, Graph
  PROVE  PlanningInv' /\ consent' = consent
<1>1. TypeOK /\ PlanningInv /\ GraphStep
  BY DEF PlanInv, Graph
<1>2. \/ IntentUnderstood \/ IntentRejected \/ QueryHandler \/ SchemaFetcher
      \/ CompoundDispatcher \/ PlanGenerator \/ ValidateDesiredState \/ PreflightGuard
      \/ ResultFormatter
  BY <1>1 DEF PlanningInv, GraphStep, HumanApproval, ResourceProvisioner, SkipProvision,
     RefuseProvision, LoseAnswer, CreateDirect, CreateAsync, StatusPoller, PollFails,
     PollThrottled, PollAnswered, Return
<1>3. consent' = consent
  BY <1>2 DEF IntentUnderstood, IntentRejected, QueryHandler, SchemaFetcher,
     CompoundDispatcher, PlanGenerator, ValidateDesiredState, PreflightGuard,
     ResultFormatter, FormatCompoundAdvance, FormatCompoundSuccess, FormatOutOfBounds,
     FormatEnd, FormatPlan, Return, KeepOutside
<1>4. QED
  BY <1>1, <1>2, <1>3, BeforePlanning, PlanGenerated, PlanChecked, PlanFormatted

-----------------------------------------------------------------------------
(* Applying: steps of the graph.                                            *)

\* human_approval takes the Yes to "Apply now?" for its own.
LEMMA ApprovalSafe ==
  ASSUME PlanInv, phase = "applying", Graph
  PROVE  ApplyingInv' /\ consent' = consent
<1>1. ApplyingInv /\ GraphStep
  BY DEF PlanInv, Graph
<1>2. HumanApproval
  BY <1>1 DEF ApplyingInv, GraphStep, IntentUnderstood, IntentRejected, QueryHandler,
     SchemaFetcher, CompoundDispatcher, PlanGenerator, ValidateDesiredState,
     PreflightGuard, ResourceProvisioner, SkipProvision, RefuseProvision, LoseAnswer,
     CreateDirect, CreateAsync, StatusPoller, PollFails, PollThrottled, PollAnswered,
     ResultFormatter, FormatCompoundAdvance, FormatCompoundSuccess, FormatOutOfBounds,
     FormatEnd, FormatPlan, Return
<1>3. st' = st /\ at' = "interrupt" /\ UNCHANGED <<requests, consent, tty>>
  BY <1>1, <1>2 DEF ApplyingInv, HumanApproval, Goto
<1>4. QED
  BY <1>1, <1>3 DEF ApplyingInv, PlannedToTheEnd

\* resource_provisioner: what was requested before has come to nothing.
LEMMA ProvisionSafe ==
  ASSUME TypeOK, RunningInv, phase = "provisioning", phase' = phase, ResourceProvisioner
  PROVE  RunningInv' /\ consent' = consent
<1>0. /\ st \in Channels /\ requests \in Seq(Request) /\ Len(requests) \in Nat
  BY ThreadFacts
<1>1. /\ at = "resource_provisioner" /\ AllDns /\ st.desired # None
      /\ st.status \in {"PENDING", "IN_PROGRESS"}
  BY DEF RunningInv, ResourceProvisioner, SkipProvision, RefuseProvision, LoseAnswer,
     CreateDirect, CreateAsync
<1>2. /\ consent' = consent
      /\ at' = IF st'.status = "IN_PROGRESS" THEN "status_poller" ELSE "result_formatter"
      /\ st'.status \in {"SUCCESS", "FAILED", "IN_PROGRESS"}
  BY <1>0, <1>1 DEF ResourceProvisioner, SkipProvision, RefuseProvision, LoseAnswer,
     CreateDirect, CreateAsync, Goto, RouteResourceProvisioner, KeepOutside, With, Channels
<1>3. /\ st'.desired = st.desired /\ st'.completed = st.completed /\ st'.mode = st.mode
      /\ st'.preflight = st.preflight /\ st'.pattern = st.pattern
      /\ st'.queue = st.queue /\ st'.index = st.index
  BY <1>0, <1>1 DEF ResourceProvisioner, SkipProvision, RefuseProvision, LoseAnswer,
     CreateDirect, CreateAsync, With, Channels
<1>4. PlannedToTheEnd' <=> PlannedToTheEnd
  BY <1>3 DEF PlannedToTheEnd, CompoundShape
<1>5. CASE SkipProvision \/ RefuseProvision
  <2>1. requests' = requests /\ st'.status # "IN_PROGRESS"
    BY <1>0, <1>1, <1>5 DEF SkipProvision, RefuseProvision, KeepOutside, With, Channels
  <2>2. st'.status = "SUCCESS" => AtCompanion(st')
    BY <1>0, <1>1, <1>3, <1>5 DEF SkipProvision, RefuseProvision, With, Channels,
       Provisions, AtCompanion, Cursor
  <2>3. QED
    BY <1>1, <1>2, <1>3, <1>4, <2>1, <2>2 DEF RunningInv, OnlyRetries, Created
<1>6. CASE LoseAnswer \/ CreateDirect \/ CreateAsync
  <2>1. PICK outcome \in Outcome : Submit(outcome) /\ (st'.status = "SUCCESS" => outcome = "ok")
    BY <1>0, <1>6 DEF LoseAnswer, CreateDirect, CreateAsync, Outcome, With, Channels
  <2>2. /\ Len(requests') = Len(requests) + 1
        /\ DOMAIN requests' = 1..(Len(requests) + 1)
        /\ \A i \in 1..Len(requests) : requests'[i] = requests[i]
        /\ requests'[Len(requests) + 1].slot = st.desired
        /\ requests'[Len(requests) + 1].outcome = outcome
    BY <1>0, <2>1 DEF Submit
  <2>3. OnlyRetries'
    BY <1>0, <1>1, <2>2 DEF AllDns, OnlyRetries
  <2>4. st'.status = "SUCCESS" => Exists(st.desired)'
    <3>1. Len(requests) + 1 \in DOMAIN requests'
      BY <1>0, <2>2
    <3>2. QED
      BY <1>3, <2>1, <2>2, <3>1 DEF Exists
  <2>5. st'.status = "IN_PROGRESS" => st'.token = Len(requests) + 1
    BY <1>0, <1>6 DEF LoseAnswer, CreateDirect, CreateAsync, With, Channels
  <2>6. QED
    BY <1>0, <1>1, <1>2, <1>3, <1>4, <2>2, <2>3, <2>4, <2>5 DEF RunningInv, Created
<1>7. QED
  BY <1>5, <1>6 DEF ResourceProvisioner

\* status_poller: a verdict is about the last request, and only one that came
\* to nothing sends the thread back.
LEMMA PollSafe ==
  ASSUME TypeOK, RunningInv, phase = "provisioning", phase' = phase, StatusPoller
  PROVE  RunningInv' /\ consent' = consent
<1>0. /\ st \in Channels /\ requests \in Seq(Request) /\ Len(requests) \in Nat
      /\ DOMAIN requests = 1..Len(requests)
  BY ThreadFacts
<1>1. /\ at = "status_poller" /\ st.token = Len(requests) /\ st.token > 0
      /\ requests[st.token].slot = st.desired /\ st.desired # None
  BY DEF RunningInv, StatusPoller, PollFails, PollThrottled, PollAnswered, Return
<1>2. /\ requests' = requests /\ consent' = consent
      /\ requests[st.token].outcome \in Outcome
  <2>1. requests[st.token] \in Request
    BY <1>0, <1>1
  <2>2. QED
    BY <2>1 DEF Request, StatusPoller, PollFails, PollThrottled, PollAnswered, Return,
       KeepOutside
<1>3. /\ st'.desired = st.desired /\ st'.completed = st.completed /\ st'.mode = st.mode
      /\ st'.preflight = st.preflight /\ st'.pattern = st.pattern
      /\ st'.queue = st.queue /\ st'.index = st.index
      /\ st'.status \in {"FAILED", "SUCCESS", "IN_PROGRESS"}
      /\ st'.status = "SUCCESS" => requests[st.token].outcome = "ok"
      /\ st'.status = "IN_PROGRESS" =>
           \/ st'.token = st.token
           \/ st'.token = 0 /\ requests[st.token].outcome = "dns"
  <2>1. CASE PollFails \/ PollThrottled
    BY <1>0, <1>1, <2>1 DEF PollFails, PollThrottled, Return, With, Channels
  <2>2. CASE PollAnswered
    <3>1. st' = AfterVerdict(st, requests[st.token].outcome)
      BY <2>2 DEF PollAnswered, Return
    <3>2. QED
      BY <1>0, <1>1, <1>2, <3>1 DEF AfterVerdict, With, Channels, Outcome
  <2>3. QED
    BY <2>1, <2>2 DEF StatusPoller
<1>4. at' = CASE st'.status = "IN_PROGRESS" /\ st'.token = 0 -> "interrupt"
              [] st'.status = "IN_PROGRESS" /\ st'.token # 0 -> "status_poller"
              [] OTHER -> "result_formatter"
  BY DEF StatusPoller, PollFails, PollThrottled, PollAnswered, Goto, RouteStatusPoller
<1>5. OnlyRetries' /\ (PlannedToTheEnd' <=> PlannedToTheEnd)
  BY <1>2, <1>3 DEF RunningInv, OnlyRetries, PlannedToTheEnd, CompoundShape
<1>6. st'.status = "SUCCESS" => Created'
  <2>1. st.token \in DOMAIN requests
    BY <1>0, <1>1
  <2>2. QED
    BY <1>1, <1>2, <1>3, <2>1 DEF Created, Exists
<1>7. at' = "interrupt" => AllDns'
  <2>1. at' = "interrupt" => requests[Len(requests)].outcome = "dns"
    BY <1>0, <1>1, <1>3, <1>4
  <2>2. QED
    BY <1>0, <1>2, <2>1 DEF RunningInv, OnlyRetries, AllDns
<1>8. QED
  BY <1>0, <1>1, <1>2, <1>3, <1>4, <1>5, <1>6, <1>7 DEF RunningInv

\* result_formatter: the thread ends, in a pattern too.
LEMMA FormatSafe ==
  ASSUME TypeOK, RunningInv, phase = "provisioning", phase' = phase, ResultFormatter
  PROVE  RunningInv' /\ consent' = consent
<1>0. /\ st \in Channels /\ N \in Nat /\ Len(<<>>) = 0 /\ N # 0
      /\ st.index \in 0..N \cup {None}
  BY ThreadFacts, QueueAssumption
<1>1. /\ at = "result_formatter" /\ st.status \in {"SUCCESS", "FAILED"}
      /\ st.completed = <<>> /\ PlannedToTheEnd
      /\ st.status = "SUCCESS" => Created
  BY DEF RunningInv, ResultFormatter, FormatCompoundAdvance, FormatCompoundSuccess,
     FormatOutOfBounds, FormatEnd, FormatPlan
<1>2. requests' = requests /\ consent' = consent
  BY DEF ResultFormatter, FormatCompoundAdvance, FormatCompoundSuccess,
     FormatOutOfBounds, FormatEnd, FormatPlan, KeepOutside
<1>3. OnlyRetries'
  BY <1>2 DEF RunningInv, OnlyRetries
<1>4. CASE FormatCompoundAdvance
  <2>1. CompoundShape(st) /\ st.index + 1 < N /\ st' = NextSlot(st) /\ st.index \in 0..N
    BY <1>0, <1>4 DEF FormatCompoundAdvance, Finish, CompoundShape
  <2>2. ~st.preflight
    BY <1>0, <1>1, <2>1 DEF PlannedToTheEnd
  <2>3. ~st'.preflight /\ st'.status = "PENDING" /\ st'.mode = st.mode
    BY <1>0, <2>1, <2>2 DEF NextSlot, Channels
  <2>4. at' = "END"
    BY <1>4, <2>3 DEF FormatCompoundAdvance, Finish, Goto, RouteResultFormatter
  <2>5. Len(st'.completed) = 1
    <3>1. st'.completed = Append(st.completed, st.index)
      BY <1>0, <2>1 DEF NextSlot, Channels
    <3>2. QED
      BY <1>1, <3>1
  <2>6. N # 1
    BY <1>0, <2>1
  <2>7. QED
    BY <1>2, <1>3, <2>3, <2>4, <2>5, <2>6 DEF RunningInv
<1>5. CASE FormatCompoundSuccess
  <2>1. /\ st'.desired = st.desired /\ st'.mode = st.mode /\ st'.queue = st.queue
        /\ st'.index = st.index /\ st'.status = "SUCCESS" /\ st.status = "SUCCESS"
    BY <1>0, <1>5 DEF FormatCompoundSuccess, Finish, Channels
  <2>2. at' = "END"
    BY <1>5, <2>1 DEF FormatCompoundSuccess, Finish, Goto, RouteResultFormatter
  <2>3. Created'
    BY <1>1, <1>2, <2>1 DEF Created, Exists, AtCompanion, Cursor
  <2>4. QED
    BY <1>2, <1>3, <2>1, <2>2, <2>3 DEF RunningInv
<1>6. CASE FormatOutOfBounds
  <2>1. st'.status = "FAILED" /\ st'.completed = <<>> /\ st'.mode = st.mode
    BY <1>0, <1>1, <1>6 DEF FormatOutOfBounds, Finish, With, Channels
  <2>2. at' = "END"
    BY <1>6, <2>1 DEF FormatOutOfBounds, Finish, Goto, RouteResultFormatter
  <2>3. QED
    BY <1>0, <1>2, <1>3, <2>1, <2>2 DEF RunningInv
<1>7. CASE FormatEnd
  <2>1. st' = st /\ at' = "END"
    BY <1>1, <1>7 DEF FormatEnd, Finish, Goto, RouteResultFormatter
  <2>2. Created' <=> Created
    BY <1>2, <2>1 DEF Created, Exists, AtCompanion, Cursor
  <2>3. QED
    BY <1>0, <1>1, <1>2, <1>3, <2>1, <2>2 DEF RunningInv
<1>8. CASE FormatPlan
  BY <1>1, <1>8 DEF FormatPlan
<1>9. QED
  BY <1>4, <1>5, <1>6, <1>7, <1>8 DEF ResultFormatter

\* The second thread provisions; the operator's consent stays what it was.
LEMMA RunningSafe ==
  ASSUME PlanInv, phase \in {"loop", "provisioning"}, Graph
  PROVE  RunningInv' /\ consent' = consent
<1>1. TypeOK /\ RunningInv /\ GraphStep /\ phase' = phase
  BY DEF PlanInv, Graph, loopVars
<1>2. \/ ResourceProvisioner \/ StatusPoller \/ ResultFormatter
  BY <1>1 DEF RunningInv, GraphStep, IntentUnderstood, IntentRejected, QueryHandler,
     SchemaFetcher, CompoundDispatcher, PlanGenerator, ValidateDesiredState,
     PreflightGuard, HumanApproval, Return
<1>3. phase = "provisioning"
  BY <1>1, <1>2 DEF RunningInv, ResourceProvisioner, SkipProvision, RefuseProvision,
     LoseAnswer, CreateDirect, CreateAsync, StatusPoller, PollFails, PollThrottled,
     PollAnswered, ResultFormatter, FormatCompoundAdvance, FormatCompoundSuccess,
     FormatOutOfBounds, FormatEnd, FormatPlan, Return
<1>4. QED
  BY <1>1, <1>2, <1>3, ProvisionSafe, PollSafe, FormatSafe

\* The graph keeps the invariant.
LEMMA GraphSafe ==
  ASSUME PlanInv, Graph, TypeOK'
  PROVE  PlanInv' /\ consent' = consent
<1>1. phase' = phase /\ verdict' = verdict /\ GraphStep
  BY DEF Graph, loopVars
<1>2. at \notin {"interrupt", "END"}
  BY <1>1 DEF GraphStep, IntentUnderstood, IntentRejected, QueryHandler,
     SchemaFetcher, CompoundDispatcher, PlanGenerator, ValidateDesiredState,
     PreflightGuard, HumanApproval, ResourceProvisioner, SkipProvision,
     RefuseProvision, LoseAnswer, CreateDirect, CreateAsync, StatusPoller, PollFails,
     PollThrottled, PollAnswered, ResultFormatter, FormatCompoundAdvance,
     FormatCompoundSuccess, FormatOutOfBounds, FormatEnd, FormatPlan, Return
<1>3. phase \in {"planning", "clarified", "applying", "loop", "provisioning"}
  BY <1>2 DEF PlanInv, TypeOK, LoopPhase, Returned
<1>4. verdict = "none"
  BY <1>3 DEF PlanInv
<1>5. QED
  BY <1>1, <1>3, <1>4, PlanningSafe, ApprovalSafe, RunningSafe DEF PlanInv, LastCreateExists

-----------------------------------------------------------------------------
(* CloudControl and the command.                                            *)

\* What is pending settles: what exists, and what came to nothing, stay so.
LEMMA WorldSafe ==
  ASSUME PlanInv, World, TypeOK'
  PROVE  PlanInv' /\ UNCHANGED <<consent, phase>> /\ Len(requests') = Len(requests)
<1>0. requests \in Seq(Request) /\ Len(requests) \in Nat
      /\ DOMAIN requests = 1..Len(requests)
  BY ThreadFacts DEF PlanInv
<1>1. PICK k \in DOMAIN requests, outcome \in {"ok", "failed", "dns"} : Settle(k, outcome)
  BY DEF World, CloudControl
<1>2. UNCHANGED <<st, at, consent, tty, phase, pauses, verdict>>
  BY <1>1 DEF Settle, World, loopVars
<1>3. /\ Len(requests') = Len(requests) /\ DOMAIN requests' = DOMAIN requests
      /\ \A i \in 1..Len(requests) :
           /\ requests'[i].slot = requests[i].slot
           /\ requests[i].outcome \in {"ok", "dns"} =>
                requests'[i].outcome = requests[i].outcome
  <2>1. \A i \in 1..Len(requests) : requests[i] \in Request
    BY <1>0
  <2>2. QED
    BY <1>0, <1>1, <2>1 DEF Settle, Request
<1>4. requests # <<>>
  BY <1>0, <1>1
<1>5. phase \notin {"start", "planning", "clarified", "applying"}
  BY <1>4 DEF PlanInv, PlanningInv, ApplyingInv
<1>6. /\ AllDns => AllDns'
      /\ OnlyRetries => OnlyRetries'
      /\ Created => Created'
  BY <1>0, <1>2, <1>3 DEF AllDns, OnlyRetries, Created, Exists, AtCompanion, Cursor
<1>7. st.token > 0 /\ st.token = Len(requests) => requests'[st.token].slot = requests[st.token].slot
  BY <1>0, <1>3
<1>8. phase \in {"loop", "provisioning"} => RunningInv'
  BY <1>2, <1>3, <1>6, <1>7
     DEF PlanInv, RunningInv, PlannedToTheEnd, CompoundShape
<1>9. LastCreateExists'
  BY <1>2, <1>6 DEF PlanInv, LastCreateExists, Created
<1>10. QED
  BY <1>2, <1>3, <1>5, <1>6, <1>8, <1>9 DEF PlanInv, Returned

\* Every step of the command keeps the invariant.
LEMMA CommandSafe ==
  ASSUME PlanInv, Command, TypeOK'
  PROVE  PlanInv' /\ Len(requests') = Len(requests)
                  /\ (consent' # consent => st.preflight \/ st.fixed)
<1>0. /\ st \in Channels /\ Len(<<>>) = 0 /\ N \in Nat \ {0}
      /\ requests \in Seq(Request) /\ Len(requests) \in Nat
  BY ThreadFacts, QueueAssumption DEF PlanInv
<1>1. CASE StartPlan
  <2>1. /\ st' = PlanInput(NewThread) /\ requests' = requests /\ requests = <<>>
        /\ phase' = "planning" /\ verdict' = "none" /\ consent' = consent
    BY <1>1 DEF StartPlan, Begin, Invoke, PlanInv
  <2>2. /\ st'.mode = "PLAN" /\ st'.resumed = FALSE /\ st'.completed = <<>>
        /\ st'.status = "PENDING"
    BY <2>1 DEF PlanInput, NewThread
  <2>3. at' = "intent_parser"
    BY <1>1, <2>1, <2>2 DEF StartPlan, Begin, Invoke, RouteCheckpointEntry
  <2>4. QED
    BY <2>1, <2>2, <2>3 DEF PlanInv, PlanningInv, LastCreateExists
<1>2. CASE Clarify
  <2>1. /\ PlanningInv /\ st' = PlanInput(st) /\ requests' = requests
        /\ phase' = "clarified" /\ verdict' = "none" /\ consent' = consent
        /\ st.status \in {"FAILED", "UNSUPPORTED_RESOURCE"}
    BY <1>2 DEF Clarify, Begin, Invoke, PlanInv, Clarifiable
  <2>2. /\ st'.mode = "PLAN" /\ st'.resumed = st.resumed /\ st'.completed = st.completed
        /\ st'.status = st.status
    BY <1>0, <2>1 DEF PlanInput, Channels
  <2>3. at' = "intent_parser"
    BY <1>2, <2>1, <2>2 DEF Clarify, Begin, Invoke, RouteCheckpointEntry, PlanningInv
  <2>4. QED
    BY <2>1, <2>2, <2>3 DEF PlanInv, PlanningInv, LastCreateExists
<1>3. CASE LeaveItAtThePlan \/ RefuseToApply
  <2>1. /\ PlanningInv /\ UNCHANGED graphVars /\ phase' = "reported" /\ Returned
    BY <1>3 DEF LeaveItAtThePlan, RefuseToApply, Report, Planned, PlanInv
  <2>2. QED
    BY <1>0, <2>1 DEF PlanInv, PlanningInv, LastCreateExists, OnlyRetries, Returned,
       graphVars
<1>4. CASE ApplyNow
  <2>1. /\ PlanningInv /\ st' = ApplyInput(st) /\ requests' = requests
        /\ phase' = "applying" /\ verdict' = "none" /\ consent' /\ tty' = tty /\ tty
        /\ st.preflight \/ st.fixed
        /\ at \in {"interrupt", "END"} /\ ~Failure(st) /\ st.status # "QUERY_INTENT"
    BY <1>4 DEF ApplyNow, Begin, Invoke, PlanInv, Planned, Returned
  <2>2. at = "END" /\ st.status = "PENDING" /\ st.desired # None /\ PlannedToTheEnd
    BY <2>1 DEF PlanningInv, Failure
  <2>3. /\ st'.mode = "APPLY" /\ st'.resumed /\ ~st'.auto /\ st'.status = "PENDING"
        /\ st'.desired = st.desired /\ st'.preflight = st.preflight
        /\ st'.pattern = st.pattern /\ st'.queue = st.queue /\ st'.index = st.index
        /\ st'.completed = st.completed
    BY <2>1 DEF ApplyInput, NewThread
  <2>4. at' = "human_approval"
    BY <1>4, <2>1, <2>2, <2>3 DEF ApplyNow, Begin, Invoke, RouteCheckpointEntry, Terminal
  <2>5. PlannedToTheEnd'
    BY <2>2, <2>3 DEF PlannedToTheEnd, CompoundShape
  <2>6. ApplyingInv'
    BY <2>1, <2>2, <2>3, <2>4, <2>5 DEF ApplyingInv, PlanningInv
  <2>7. QED
    BY <2>1, <2>6 DEF PlanInv, LastCreateExists
<1>5. CASE ApplyStarts
  <2>1. ApplyingInv /\ UNCHANGED graphVars /\ at = "interrupt"
    BY <1>5 DEF ApplyStarts, Returned, PlanInv, ApplyingInv
  <2>2. phase' = "loop" /\ verdict' = "none"
    BY <1>5, <2>1 DEF ApplyStarts, EnterLoop, ApplyingInv, Failure, PlanInv
  <2>3. RunningInv'
    BY <1>0, <2>1, <2>2 DEF ApplyingInv, RunningInv, OnlyRetries, AllDns, PlannedToTheEnd,
       graphVars, CompoundShape
  <2>4. QED
    BY <2>1, <2>2, <2>3 DEF PlanInv, LastCreateExists, graphVars
<1>6. CASE LoopTurn
  <2>1. /\ RunningInv /\ UNCHANGED <<st, requests, consent, tty>> /\ at = "interrupt"
        /\ at' = "resource_provisioner" /\ phase' = "provisioning" /\ verdict' = "none"
    BY <1>6 DEF LoopTurn, InvokeNull, PlanInv, RunningInv
  <2>2. RunningInv'
    BY <2>1 DEF RunningInv, OnlyRetries, AllDns, PlannedToTheEnd, CompoundShape
  <2>3. QED
    BY <2>1, <2>2 DEF PlanInv, LastCreateExists
<1>7. CASE LoopBreak
  <2>1. /\ RunningInv /\ UNCHANGED graphVars /\ at = "interrupt" /\ phase' = "reported"
        /\ verdict' = LoopVerdict(st)
    BY <1>7 DEF LoopBreak, Report, PlanInv, RunningInv
  <2>2. verdict' = "failed"
    BY <1>0, <2>1 DEF LoopVerdict, LoopSuccess, RunningInv
  <2>3. QED
    BY <2>1, <2>2 DEF PlanInv, LastCreateExists, RunningInv, OnlyRetries, Returned, graphVars
<1>8. CASE LoopReturn
  <2>1. RunningInv /\ UNCHANGED graphVars /\ at \in {"interrupt", "END"}
    BY <1>8 DEF LoopReturn, PlanInv, Returned
  <2>2. CASE at = "END"
    <3>1. phase' = "reported" /\ verdict' = LoopVerdict(st)
      BY <1>8, <2>2 DEF LoopReturn, Report
    <3>2. verdict' = "ok" => Created'
      BY <2>1, <2>2, <3>1 DEF LoopVerdict, LoopSuccess, RunningInv, Created, graphVars,
         Exists, AtCompanion, Cursor
    <3>3. QED
      BY <2>1, <3>1, <3>2 DEF PlanInv, LastCreateExists, RunningInv, OnlyRetries, Returned,
         Created, graphVars
  <2>3. CASE at = "interrupt"
    <3>1. phase' = "loop" /\ verdict' = "none"
      BY <1>8, <2>3 DEF LoopReturn, PlanInv
    <3>2. RunningInv'
      BY <2>1, <2>3, <3>1 DEF RunningInv, OnlyRetries, AllDns, PlannedToTheEnd,
         CompoundShape, graphVars
    <3>3. QED
      BY <2>1, <3>1, <3>2 DEF PlanInv, LastCreateExists, graphVars
  <2>4. QED
    BY <2>1, <2>2, <2>3
<1>9. QED
  BY <1>1, <1>2, <1>3, <1>4, <1>5, <1>6, <1>7, <1>8 DEF Command, Loop

-----------------------------------------------------------------------------
(* Theorems.                                                                *)

\* Every step keeps the invariant, requests only what was consented to, and
\* lets only a plan pass that nothing blocks.
LEMMA InvStep ==
  ASSUME PlanInv, [Next]_vars
  PROVE  /\ PlanInv'
         /\ Len(requests') > Len(requests) => consent /\ st.mode = "APPLY"
         /\ consent' # consent => st.preflight \/ st.fixed
<1>0. TypeOK' /\ Len(requests) \in Nat
  BY TypeStep, ThreadFacts DEF PlanInv
<1>1. CASE Command
  BY <1>0, <1>1, CommandSafe
<1>2. CASE World
  BY <1>0, <1>2, WorldSafe
<1>3. CASE Graph
  <2>1. PlanInv' /\ consent' = consent
    BY <1>0, <1>3, GraphSafe
  <2>2. requests' = requests \/ ResourceProvisioner
    <3>1. ASSUME \/ IntentUnderstood \/ IntentRejected \/ QueryHandler \/ SchemaFetcher
                 \/ CompoundDispatcher \/ PlanGenerator \/ ValidateDesiredState
                 \/ PreflightGuard \/ HumanApproval
          PROVE  requests' = requests
      BY <3>1 DEF IntentUnderstood, IntentRejected, QueryHandler, SchemaFetcher,
         CompoundDispatcher, PlanGenerator, ValidateDesiredState, PreflightGuard,
         HumanApproval, Return, KeepOutside
    <3>2. ASSUME StatusPoller \/ ResultFormatter
          PROVE  requests' = requests
      BY <3>2 DEF StatusPoller, PollFails, PollThrottled, PollAnswered, ResultFormatter,
         FormatCompoundAdvance, FormatCompoundSuccess, FormatOutOfBounds, FormatEnd,
         FormatPlan, Return, KeepOutside
    <3>3. QED
      BY <1>3, <3>1, <3>2 DEF Graph, GraphStep
  <2>3. ResourceProvisioner => at = "resource_provisioner"
    BY DEF ResourceProvisioner, SkipProvision, RefuseProvision, LoseAnswer, CreateDirect,
       CreateAsync
  <2>4. at = "resource_provisioner" => consent /\ st.mode = "APPLY"
    BY DEF PlanInv, PlanningInv, ApplyingInv, RunningInv, Returned, TypeOK, LoopPhase
  <2>5. QED
    BY <1>0, <2>1, <2>2, <2>3, <2>4
<1>4. CASE UNCHANGED vars
  <2>1. UNCHANGED <<st, at, requests, consent, tty, phase, pauses, verdict>>
    BY <1>4 DEF vars, graphVars, loopVars
  <2>2. PlanInv'
    BY <1>0, <2>1 DEF PlanInv, PlanningInv, ApplyingInv, RunningInv, LastCreateExists,
       PlannedToTheEnd, OnlyRetries, AllDns, Created, Exists, AtCompanion, Cursor,
       CompoundShape, Returned
  <2>3. QED
    BY <1>0, <2>1, <2>2
<1>5. QED
  BY <1>1, <1>2, <1>3, <1>4 DEF Next

\* The inductive invariant of a plan and its apply, phase by phase.
THEOREM PlanInvariant == Spec => []PlanInv
<1>1. PlanInv /\ [Next]_vars => PlanInv'
  BY InvStep
<1>2. QED
  BY <1>1, InitInv, PTL DEF Spec

\* Success is reported for an apply only when the resource that was applied
\* last exists, or is display-only.
THEOREM PlanReportsHonestly == Spec => []LastCreateExists
<1>1. PlanInv => LastCreateExists
  BY DEF PlanInv
<1>2. QED
  BY <1>1, PlanInvariant, PTL

\* An apply that reports success has created something, unless the pattern has
\* display-only companions: then the chosen fix that overwrites the cursor may
\* leave it on one of them.
THEOREM SuccessCreatesWithoutCompanions ==
  ASSUME Companion = {}
  PROVE  Spec => []SuccessCreates
<1>1. ASSUME PlanInv, verdict = "ok", st.mode = "APPLY"
      PROVE  \E slot \in Slots : Exists(slot)
  <2>1. Exists(st.desired)
    BY <1>1 DEF PlanInv, LastCreateExists, AtCompanion
  <2>2. PICK i \in DOMAIN requests :
          requests[i].slot = st.desired /\ requests[i].outcome = "ok"
    BY <2>1 DEF Exists
  <2>3. requests[i] \in Request
    BY <1>1, <2>2, ThreadFacts DEF PlanInv
  <2>4. requests[i].slot \in Slots
    BY <2>3 DEF Request
  <2>5. QED
    BY <2>1, <2>2, <2>4
<1>2. PlanInv => SuccessCreates
  BY <1>1 DEF SuccessCreates
<1>3. QED
  BY <1>2, PlanInvariant, PTL

\* Retries, throttling and the poll timeout never make the apply thread
\* request a resource that an earlier request may still bring about.
THEOREM PlanNeverDuplicates == Spec => []NoDuplicateResource
<1>1. ASSUME PlanInv
      PROVE  NoDuplicateResource
  <2>1. OnlyRetries \/ requests = <<>>
    BY <1>1 DEF PlanInv, PlanningInv, ApplyingInv, RunningInv, TypeOK, LoopPhase
  <2>2. DOMAIN requests = 1..Len(requests)
    BY <1>1, ThreadFacts DEF PlanInv
  <2>3. QED
    BY <2>1, <2>2 DEF OnlyRetries, NoDuplicateResource
<1>2. QED
  BY <1>1, PlanInvariant, PTL

\* Planning creates nothing; all that is created is created on the apply
\* thread, after the operator's Yes.
THEOREM PlanningCreatesNothing == Spec => CreatesOnlyAfterYes
<1>1. PlanInv /\ [Next]_vars =>
        [Len(requests') > Len(requests) => consent /\ st.mode = "APPLY"]_vars
  BY InvStep
<1>2. QED
  BY <1>1, PlanInvariant, PTL DEF Spec, CreatesOnlyAfterYes

\* A Yes is only ever taken for a plan that passed its preflight, or whose
\* blocking findings were fixed.
THEOREM BlockedPlansStay == Spec => BlockedPlanIsNotApplied
<1>1. PlanInv /\ [Next]_vars => [consent' # consent => st.preflight \/ st.fixed]_vars
  BY InvStep
<1>2. QED
  BY <1>1, PlanInvariant, PTL DEF Spec, BlockedPlanIsNotApplied
=============================================================================
