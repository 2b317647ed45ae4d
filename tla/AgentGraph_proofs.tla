-------------------------- MODULE AgentGraph_proofs --------------------------
(***************************************************************************)
(* What the steps of the graph do to the types of its channels, for every  *)
(* length of the queue, every choice of companions and retryable slots and *)
(* every budget: what the proofs about each of its drivers start from.     *)
(***************************************************************************)
EXTENDS AgentGraph, TLAPS

-----------------------------------------------------------------------------
(* What the nodes make of the channels.                                     *)

\* The slots are integers, and None is not one of them.
LEMMA SlotFacts ==
  /\ N \in Nat \ {0}
  /\ 0 \in Slots /\ N - 1 \in Slots
  /\ 0 \in 0..N /\ N \in 0..N /\ <<>> \in Seq(Slots)
  /\ \A i \in 0..N \cup {None} : i # None /\ i # N => i \in Slots
  /\ \A i \in Slots : i \in 0..N /\ i + 1 \in 0..N /\ (i + 1 < N => i + 1 \in Slots)
BY QueueAssumption DEF Slots

\* A new status leaves the channels well typed.
LEMMA WithType ==
  ASSUME NEW s \in Channels, NEW status \in Status
  PROVE  With(s, status) \in Channels
BY DEF Channels, With

\* So does an understood intent,
LEMMA UnderstoodType ==
  ASSUME NEW s \in Channels
  PROVE  Understood(s) \subseteq Channels
<1>1. [s EXCEPT !.type = 0] \in Channels
  BY SlotFacts DEF Channels
<1>2. [s EXCEPT !.pattern = TRUE] \in Channels
  BY DEF Channels
<1>3. QED
  BY <1>1, <1>2 DEF Understood

\* a plan for a slot of a pattern,
LEMMA CompoundPlansType ==
  ASSUME NEW s \in Channels, CompoundShape(s)
  PROVE  CompoundPlans(s) \subseteq Channels
<1>1. With(s, "FAILED") \in Channels
  BY WithType DEF Status
<1>2. s.index # N => s.index \in Slots
  BY SlotFacts DEF Channels, CompoundShape
<1>3. s.index # N => [s EXCEPT !.desired = s.index, !.type = s.index] \in Channels
  BY <1>2 DEF Channels
<1>4. s.index # N =>
        [With(s, "FAILED") EXCEPT !.desired = s.index, !.type = s.index] \in Channels
  BY <1>1, <1>2 DEF Channels
<1>5. QED
  BY <1>1, <1>3, <1>4 DEF CompoundPlans

\* a plan for a single resource,
LEMMA SinglePlansType ==
  ASSUME NEW s \in Channels
  PROVE  SinglePlans(s) \subseteq Channels
<1>1. With(s, "FAILED") \in Channels
  BY WithType DEF Status
<1>2. [s EXCEPT !.desired = 0] \in Channels
  BY SlotFacts DEF Channels
<1>3. [With(s, "FAILED") EXCEPT !.desired = 0] \in Channels
  BY <1>1, SlotFacts DEF Channels
<1>4. QED
  BY <1>1, <1>2, <1>3 DEF SinglePlans

\* the advance to the next slot,
LEMMA NextSlotType ==
  ASSUME NEW s \in Channels, CompoundShape(s), s.index + 1 < N
  PROVE  NextSlot(s) \in Channels
<1>1. s.index \in Slots /\ s.index + 1 \in Slots /\ s.index + 1 \in 0..N
  BY SlotFacts, NoneAssumption DEF Channels, CompoundShape
<1>2. Append(s.completed, s.index) \in Seq(Slots)
  BY <1>1 DEF Channels
<1>3. QED
  BY <1>1, <1>2 DEF Channels, NextSlot, Status

\* the advance in PLAN mode,
LEMMA PlanAdvancedType ==
  ASSUME NEW s \in Channels
  PROVE  PlanAdvanced(s) \in Channels
<1>1. CASE s.mode = "PLAN" /\ CompoundShape(s) /\ s.index + 1 < N
  <2>1. s.index + 1 \in Slots /\ s.index + 1 \in 0..N
    BY <1>1, SlotFacts, NoneAssumption DEF Channels, CompoundShape
  <2>2. QED
    BY <1>1, <2>1 DEF Channels, PlanAdvanced, Status
<1>2. CASE ~(s.mode = "PLAN" /\ CompoundShape(s) /\ s.index + 1 < N)
  BY <1>2, SlotFacts DEF Channels, PlanAdvanced
<1>3. QED
  BY <1>1, <1>2

\* the choice of fixes,
LEMMA PlanFixedType ==
  ASSUME NEW s \in Channels
  PROVE  PlanFixed(s) \in Channels
<1>1. s.desired \in Slots \cup {None}
  BY DEF Channels
<1>2. QED
  BY <1>1, PlanAdvancedType DEF Channels, PlanFixed

\* and the poller's reading of an answer.
LEMMA AfterVerdictType ==
  ASSUME NEW s \in Channels, NEW outcome \in Outcome
  PROVE  AfterVerdict(s, outcome) \in Channels
<1>1. \A status \in Status : With(s, status) \in Channels
  BY WithType
<1>2. [With(s, "IN_PROGRESS") EXCEPT !.retries = @ + 1, !.token = 0] \in Channels
  <2> DEFINE w == With(s, "IN_PROGRESS")
  <2>1. w \in Channels
    BY <1>1 DEF Status
  <2> HIDE DEF w
  <2>2. w.retries + 1 \in Nat
    BY <2>1 DEF Channels
  <2>3. [w EXCEPT !.retries = @ + 1, !.token = 0] \in Channels
    BY <2>1, <2>2 DEF Channels
  <2>4. QED
    BY <2>3 DEF w
<1>3. QED
  BY <1>1, <1>2 DEF AfterVerdict, Outcome, Status

-----------------------------------------------------------------------------
(* Types.                                                                   *)

\* The nodes of the planning half keep the types.
LEMMA PlanningTypes ==
  ASSUME ThreadTypeOK,
         \/ IntentUnderstood \/ IntentRejected \/ QueryHandler \/ SchemaFetcher
         \/ CompoundDispatcher \/ PlanGenerator \/ ValidateDesiredState
         \/ PreflightGuard \/ HumanApproval
  PROVE  ThreadTypeOK'
<1>0. \A status \in Status : With(st, status) \in Channels
  BY WithType DEF ThreadTypeOK
<1> USE DEF ThreadTypeOK, Node, Return, Goto, KeepOutside
<1>1. CASE IntentUnderstood
  BY <1>1, UnderstoodType DEF IntentUnderstood, RouteIntentParser
<1>2. CASE IntentRejected
  <2>1. [With(st, "QUERY_INTENT") EXCEPT !.type = 0] \in Channels
    <3> DEFINE w == With(st, "QUERY_INTENT")
    <3>1. w \in Channels
      BY <1>0 DEF Status
    <3> HIDE DEF w
    <3>2. [w EXCEPT !.type = 0] \in Channels
      BY <3>1, SlotFacts DEF Channels
    <3>3. QED
      BY <3>2 DEF w
  <2>2. QED
    BY <1>0, <1>2, <2>1 DEF IntentRejected, RouteIntentParser, Status
<1>3. CASE QueryHandler
  BY <1>0, <1>3 DEF QueryHandler, Status
<1>4. CASE SchemaFetcher
  BY <1>0, <1>4 DEF SchemaFetcher, Status
<1>5. CASE CompoundDispatcher
  <2>1. [st EXCEPT !.queue = TRUE, !.index = 0, !.completed = <<>>,
                   !.type = 0, !.desired = None] \in Channels
    BY SlotFacts DEF Channels
  <2>2. QED
    BY <1>5, <2>1 DEF CompoundDispatcher
<1>6. CASE PlanGenerator
  BY <1>6, CompoundPlansType, SinglePlansType DEF PlanGenerator
<1>7. CASE ValidateDesiredState
  BY <1>0, <1>7 DEF ValidateDesiredState, RouteValidateDesiredState, Status
<1>8. CASE PreflightGuard
  <2>1. \A ok \in BOOLEAN : [st EXCEPT !.preflight = ok, !.fixed = FALSE] \in Channels
    BY DEF Channels
  <2>2. QED
    BY <1>0, <1>8, <2>1 DEF PreflightGuard, RoutePreflightGuard, Status
<1>9. CASE HumanApproval
  BY <1>0, <1>9 DEF HumanApproval, Status
<1>10. QED
  BY <1>1, <1>2, <1>3, <1>4, <1>5, <1>6, <1>7, <1>8, <1>9

\* An accepted request is one more well-typed request.
LEMMA SubmitType ==
  ASSUME ThreadTypeOK, Provisions(st), NEW outcome \in Outcome, Submit(outcome)
  PROVE  requests' \in Seq(Request)
<1>1. [slot |-> st.desired, type |-> st.type, outcome |-> outcome] \in Request
  BY DEF ThreadTypeOK, Channels, Provisions, Request
<1>2. QED
  BY <1>1 DEF ThreadTypeOK, Submit

\* Approval, provisioning and polling keep the types.
LEMMA ProvisioningTypes ==
  ASSUME GraphTypeOK, ResourceProvisioner \/ StatusPoller
  PROVE  ThreadTypeOK'
<1>0. \A status \in Status : With(st, status) \in Channels
  BY WithType DEF GraphTypeOK, ThreadTypeOK
<1> USE DEF GraphTypeOK, ThreadTypeOK, Node, Return, Goto, KeepOutside,
            RouteResourceProvisioner, RouteStatusPoller, Status, Outcome
<1>1. CASE SkipProvision
  BY <1>0, <1>1 DEF SkipProvision
<1>2. CASE RefuseProvision
  BY <1>0, <1>2 DEF RefuseProvision
<1>3. CASE LoseAnswer
  BY <1>0, <1>3, SubmitType DEF LoseAnswer
<1>4. CASE CreateDirect
  BY <1>0, <1>4, SubmitType DEF CreateDirect
<1>5. CASE CreateAsync
  <2>1. [With(st, "IN_PROGRESS") EXCEPT !.token = Len(requests) + 1] \in Channels
    <3>1. Len(requests) + 1 \in Nat
      OBVIOUS
    <3>2. With(st, "IN_PROGRESS") \in Channels
      BY <1>0
    <3>3. QED
      BY <3>1, <3>2 DEF Channels
  <2>2. QED
    BY <1>5, <2>1, SubmitType DEF CreateAsync
<1>6. CASE PollFails
  BY <1>0, <1>6 DEF PollFails
<1>7. CASE PollThrottled
  <2>1. [With(st, "IN_PROGRESS") EXCEPT !.throttle = @ + 1] \in Channels
    <3>1. With(st, "IN_PROGRESS") \in Channels
      BY <1>0
    <3>2. With(st, "IN_PROGRESS").throttle + 1 \in Nat
      BY <3>1 DEF Channels
    <3>3. QED
      BY <3>1, <3>2 DEF Channels
  <2>2. QED
    BY <1>0, <1>7, <2>1 DEF PollThrottled
<1>8. CASE PollAnswered
  <2>1. requests[st.token].outcome \in Outcome => st' \in Channels
    BY <1>8, AfterVerdictType DEF PollAnswered
  <2>2. requests[st.token] \in Request
    BY <1>8 DEF PollAnswered, TokenIsReal, Channels
  <2>3. QED
    BY <1>8, <2>1, <2>2 DEF PollAnswered, Request
<1>9. QED
  BY <1>1, <1>2, <1>3, <1>4, <1>5, <1>6, <1>7, <1>8
     DEF ResourceProvisioner, StatusPoller

\* result_formatter keeps the types.
LEMMA FormattingTypes ==
  ASSUME ThreadTypeOK, ResultFormatter
  PROVE  ThreadTypeOK'
<1> USE DEF ThreadTypeOK, Node, Goto, KeepOutside, Finish, RouteResultFormatter
<1>1. CASE FormatCompoundAdvance
  BY <1>1, NextSlotType DEF FormatCompoundAdvance
<1>2. CASE FormatCompoundSuccess
  <2>1. st.index \in Slots
    BY <1>2, SlotFacts, NoneAssumption
       DEF FormatCompoundSuccess, CompoundShape, Channels
  <2>2. Append(st.completed, st.index) \in Seq(Slots)
    BY <2>1 DEF Channels
  <2>3. [st EXCEPT !.completed = Append(@, st.index)] \in Channels
    BY <2>2 DEF Channels
  <2>4. QED
    BY <1>2, <2>3 DEF FormatCompoundSuccess
<1>3. CASE FormatOutOfBounds
  BY <1>3, WithType DEF FormatOutOfBounds, Status
<1>4. CASE FormatEnd
  BY <1>4 DEF FormatEnd
<1>5. CASE FormatPlan
  BY <1>5, PlanAdvancedType, PlanFixedType DEF FormatPlan
<1>6. QED
  BY <1>1, <1>2, <1>3, <1>4, <1>5 DEF ResultFormatter

\* The defaults of the channels are well typed.
LEMMA NewThreadType == NewThread \in Channels
BY SlotFacts DEF NewThread, Channels, Status

\* CloudControl keeps the types.
LEMMA WorldTypes ==
  ASSUME ThreadTypeOK, CloudControl
  PROVE  ThreadTypeOK'
<1>1. PICK i \in DOMAIN requests, outcome \in {"ok", "failed", "dns"} :
        Settle(i, outcome)
  BY DEF CloudControl
<1>2. [requests[i] EXCEPT !.outcome = outcome] \in Request
  <2>1. requests[i] \in Request
    BY DEF ThreadTypeOK
  <2>2. QED
    BY <2>1 DEF Request, Outcome
<1>3. requests' \in Seq(Request)
  BY <1>1, <1>2 DEF ThreadTypeOK, Settle
<1>4. QED
  BY <1>1, <1>3 DEF ThreadTypeOK, Settle

\* No step leaves the token of the poller without its request.
LEMMA GraphTokens ==
  ASSUME GraphTypeOK, ThreadTypeOK', GraphStep
  PROVE  TokenIsReal'
<1>0. st.token \in 0..Len(requests) /\ Len(requests) \in Nat
  BY DEF GraphTypeOK, ThreadTypeOK, TokenIsReal
<1>1. st \in Channels
  BY DEF GraphTypeOK, ThreadTypeOK
<1>2. CASE \/ IntentUnderstood \/ IntentRejected \/ QueryHandler \/ SchemaFetcher
           \/ CompoundDispatcher \/ PlanGenerator \/ ValidateDesiredState
           \/ PreflightGuard \/ HumanApproval
  <2>1. requests' = requests
    BY <1>2 DEF IntentUnderstood, IntentRejected, QueryHandler, SchemaFetcher,
         CompoundDispatcher, PlanGenerator, ValidateDesiredState, PreflightGuard,
         HumanApproval, Return, KeepOutside
  <2>2. st'.token = st.token
    BY <1>1, <1>2 DEF IntentUnderstood, IntentRejected, QueryHandler, SchemaFetcher,
         CompoundDispatcher, PlanGenerator, ValidateDesiredState, PreflightGuard,
         HumanApproval, Return, With, Understood, CompoundPlans, SinglePlans, Channels
  <2>3. QED
    BY <1>0, <2>1, <2>2 DEF TokenIsReal
<1>3. CASE SkipProvision \/ RefuseProvision \/ StatusPoller
  <2>1. requests' = requests
    BY <1>3 DEF SkipProvision, RefuseProvision, StatusPoller, PollFails,
         PollThrottled, PollAnswered, Return, KeepOutside
  <2>2. st'.token \in {st.token, 0}
    <3>1. CASE SkipProvision \/ RefuseProvision \/ PollFails \/ PollThrottled
      BY <1>1, <3>1 DEF SkipProvision, RefuseProvision, PollFails, PollThrottled,
           Return, With, Channels
    <3>2. CASE PollAnswered
      <4>1. requests[st.token] \in Request
        BY <1>0, <3>2 DEF PollAnswered, GraphTypeOK, ThreadTypeOK
      <4>2. st' = AfterVerdict(st, requests[st.token].outcome)
        BY <3>2 DEF PollAnswered, Return
      <4>3. QED
        BY <1>1, <4>1, <4>2 DEF With, AfterVerdict, Channels, Request, Outcome
    <3>3. QED
      BY <1>3, <3>1, <3>2 DEF StatusPoller
  <2>3. QED
    BY <1>0, <2>1, <2>2 DEF TokenIsReal
<1>4. CASE LoseAnswer \/ CreateDirect \/ CreateAsync
  <2>1. Len(requests') = Len(requests) + 1
    BY <1>4 DEF LoseAnswer, CreateDirect, CreateAsync, Submit, GraphTypeOK,
         ThreadTypeOK
  <2>2. st'.token \in {st.token, Len(requests) + 1}
    BY <1>1, <1>4 DEF LoseAnswer, CreateDirect, CreateAsync, With, Channels
  <2>3. QED
    BY <1>0, <2>1, <2>2 DEF TokenIsReal
<1>5. CASE ResultFormatter
  <2>1. requests' = requests
    BY <1>5 DEF ResultFormatter, FormatCompoundAdvance, FormatCompoundSuccess,
         FormatOutOfBounds, FormatEnd, FormatPlan, KeepOutside
  <2>2. st'.token \in {st.token, 0}
    BY <1>1, <1>5 DEF ResultFormatter, FormatCompoundAdvance, FormatCompoundSuccess,
         FormatOutOfBounds, FormatEnd, FormatPlan, Finish, NextSlot, PlanAdvanced,
         PlanFixed, With, Channels
  <2>3. QED
    BY <1>0, <2>1, <2>2 DEF TokenIsReal
<1>6. QED
  BY <1>2, <1>3, <1>4, <1>5 DEF GraphStep, ResourceProvisioner

\* A step of the graph keeps the types, and the token of the poller its request,
LEMMA GraphTypes ==
  ASSUME GraphTypeOK, GraphStep
  PROVE  GraphTypeOK'
<1>1. ThreadTypeOK'
  BY PlanningTypes, ProvisioningTypes, FormattingTypes DEF GraphStep, GraphTypeOK
<1>2. QED
  BY <1>1, GraphTokens DEF GraphTypeOK

\* and so does a step of CloudControl.
LEMMA CloudTypes ==
  ASSUME GraphTypeOK, CloudControl
  PROVE  GraphTypeOK'
<1>1. ThreadTypeOK'
  BY WorldTypes DEF GraphTypeOK
<1>2. UNCHANGED st /\ Len(requests') = Len(requests)
  BY DEF GraphTypeOK, ThreadTypeOK, CloudControl, Settle
<1>3. QED
  BY <1>1, <1>2 DEF GraphTypeOK, TokenIsReal
=============================================================================
