-------------------------- MODULE CliApply_proofs --------------------------
(***************************************************************************)
(* The types of CliApply, its safety and its refinement of OrderedApply,   *)
(* for every length of the queue, every choice of companions and retryable *)
(* slots, every budget and, where a theorem does not say otherwise, every  *)
(* origin.                                                                 *)
(*                                                                         *)
(* ApplyInv is shown inductive node by node.  Most nodes leave the plan in *)
(* the channels as it is (SamePlan), and then only what their successor    *)
(* finds (StageInv, PlanningInv, RunningInv) is left to show.              *)
(***************************************************************************)
EXTENDS CliApply, AgentGraph_proofs

\* The input of a fresh plan is well typed,
LEMMA FreshInputType ==
  ASSUME NEW s \in Channels, NEW yes \in BOOLEAN
  PROVE  FreshInput(s, yes) \in Channels
BY DEF FreshInput, Channels

\* and the input made from a checkpoint.
LEMMA CheckpointInputType ==
  ASSUME NEW yes \in BOOLEAN, NEW pattern \in BOOLEAN, NEW r \in Revaluation
  PROVE  CheckpointInput(yes, pattern, r) \in Channels
<1>1. r.preflight \in BOOLEAN /\ r.status \in Status
  <2>1. CASE r = [preflight |-> TRUE, status |-> "PENDING"]
    BY <2>1 DEF Status
  <2>2. CASE r = [preflight |-> FALSE, status |-> "PENDING"]
    BY <2>2 DEF Status
  <2>3. CASE r = [preflight |-> FALSE, status |-> "FAILED"]
    BY <2>3 DEF Status
  <2>4. CASE r = [preflight |-> TRUE, status |-> "undefined"]
    BY <2>4 DEF Status
  <2>5. QED
    BY <2>1, <2>2, <2>3, <2>4 DEF Revaluation
<1>2. (IF pattern THEN N - 1 ELSE 0) \in Slots
  BY SlotFacts
<1>3. QED
  BY <1>1, <1>2, NewThreadType DEF CheckpointInput, Channels

\* The steps of the command keep the types.
LEMMA CommandTypes ==
  ASSUME TypeOK, Command
  PROVE  ThreadTypeOK' /\ phase' \in {"start"} \cup Phase1 \cup LoopPhase
         /\ pauses' \in Nat /\ verdict' \in {"none", "ok", "failed"}
<1> USE DEF TypeOK, GraphTypeOK, ThreadTypeOK, Node, Begin, Invoke, RouteCheckpointEntry,
            Phase1, LoopPhase, Report, EnterLoop, graphVars
<1>1. CASE StartFresh
  BY <1>1, NewThreadType, FreshInputType DEF StartFresh
<1>2. CASE StartCheckpoint
  BY <1>2, CheckpointInputType DEF StartCheckpoint
<1>3. CASE Clarify
  <2>1. st.auto \in BOOLEAN
    BY DEF Channels
  <2>2. QED
    BY <1>3, <2>1, FreshInputType DEF Clarify
<1>4. CASE FixAndContinue
  <2>1. [st EXCEPT !.resumed = TRUE, !.preflight = TRUE] \in Channels
    BY DEF Channels
  <2>2. QED
    BY <1>4, <2>1 DEF FixAndContinue
<1>5. CASE GateSettled \/ GateFailed \/ Proceed \/ GateRefuses
  BY <1>5 DEF GateSettled, GateFailed, Proceed, GateRefuses
<1>6. CASE Loop
  BY <1>6 DEF Loop, LoopTurn, LoopBreak, LoopReturn, InvokeNull, LoopVerdict
<1>7. QED
  BY <1>1, <1>2, <1>3, <1>4, <1>5, <1>6 DEF Command, Gate

\* Neither does a step of the command.
LEMMA CommandTokens ==
  ASSUME TypeOK, ThreadTypeOK', Command
  PROVE  TokenIsReal'
<1>0. st.token \in 0..Len(requests) /\ Len(requests) \in Nat
  BY DEF TypeOK, GraphTypeOK, ThreadTypeOK, TokenIsReal
<1>1. requests' = requests
  BY DEF Command, Gate, Loop, StartFresh, StartCheckpoint, Clarify, FixAndContinue,
     GateSettled, GateFailed, Proceed, GateRefuses, LoopTurn, LoopBreak,
     LoopReturn, InvokeNull, Begin, graphVars
<1>2. st \in Channels
  BY DEF TypeOK, GraphTypeOK, ThreadTypeOK
<1>3. st'.token \in {st.token, 0}
  <2>1. CASE StartFresh \/ StartCheckpoint
    BY <2>1 DEF StartFresh, StartCheckpoint, Begin, Invoke, FreshInput,
         CheckpointInput, NewThread
  <2>2. CASE Clarify \/ FixAndContinue
    BY <1>2, <2>2 DEF Clarify, FixAndContinue, Begin, Invoke, FreshInput, Channels
  <2>3. CASE GateSettled \/ GateFailed \/ Proceed \/ GateRefuses \/ Loop
    BY <2>3 DEF GateSettled, GateFailed, Proceed, GateRefuses, Loop, LoopTurn,
         LoopBreak, LoopReturn, InvokeNull, graphVars
  <2>4. QED
    BY <2>1, <2>2, <2>3 DEF Command, Gate
<1>4. QED
  BY <1>0, <1>1, <1>3 DEF TokenIsReal

\* Every step keeps the types.
LEMMA TypeStep == TypeOK /\ [Next]_vars => TypeOK'
<1> SUFFICES ASSUME TypeOK, [Next]_vars
             PROVE  TypeOK'
  OBVIOUS
<1>1. CASE Command
  BY <1>1, CommandTypes, CommandTokens DEF TypeOK, GraphTypeOK
<1>2. CASE Graph
  BY <1>2, GraphTypes DEF Graph, TypeOK, loopVars
<1>3. CASE World
  BY <1>3, CloudTypes DEF World, TypeOK, loopVars
<1>4. CASE UNCHANGED vars
  BY <1>4 DEF vars, graphVars, loopVars, TypeOK, GraphTypeOK, ThreadTypeOK, TokenIsReal
<1>5. QED
  BY <1>1, <1>2, <1>3, <1>4 DEF Next

\* The initial state is well typed.
LEMMA InitType == Init => TypeOK
<1> SUFFICES ASSUME Init
             PROVE  TypeOK
  OBVIOUS
<1>1. requests \in Seq(Request) /\ st.token = 0 /\ Len(requests) = 0
  BY DEF Init, NewThread
<1>2. ThreadTypeOK
  BY <1>1, NewThreadType DEF Init, ThreadTypeOK
<1>3. QED
  BY <1>1, <1>2 DEF Init, TypeOK, GraphTypeOK, TokenIsReal

\* The channels of the thread, the requests and the command's own variables
\* keep their types, whatever the origin of the run, and the poller never
\* asks for a request that was not accepted.
THEOREM ApplyTypeCorrect == Spec => []TypeOK
BY InitType, TypeStep, PTL DEF Spec

-----------------------------------------------------------------------------
(* Safety. *)

\* The step leaves the plan in the channels as it is.
SamePlan(s, t) ==
  /\ t.mode = s.mode /\ t.pattern = s.pattern /\ t.queue = s.queue
  /\ t.index = s.index /\ t.completed = s.completed
  /\ t.type = s.type /\ t.desired = s.desired /\ t.resumed = s.resumed

\* What the types say of the channels and of the cursor.
LEMMA ChannelFacts ==
  ASSUME TypeOK
  PROVE  /\ st \in Channels
         /\ st.status \in Status
         /\ st.mode \in {"PLAN", "APPLY"}
         /\ st.pattern \in BOOLEAN /\ st.queue \in BOOLEAN
         /\ st.preflight \in BOOLEAN /\ st.resumed \in BOOLEAN
         /\ st.index \in 0..N \cup {None}
         /\ st.completed \in Seq(Slots)
         /\ st.desired \in Slots \cup {None} /\ st.type \in Slots \cup {None}
         /\ at \in Node \cup {"interrupt", "END"}
         /\ requests \in Seq(Request)
         /\ consent \in BOOLEAN /\ tty \in BOOLEAN
         /\ phase \in {"start"} \cup Phase1 \cup LoopPhase
BY DEF TypeOK, GraphTypeOK, ThreadTypeOK, Channels

\* What the types say of the requests.
LEMMA RequestFacts ==
  ASSUME TypeOK, NEW i \in DOMAIN requests
  PROVE  requests[i].slot \in Int /\ requests[i].outcome \in Outcome
<1>1. requests[i] \in Request
  BY DEF TypeOK, GraphTypeOK, ThreadTypeOK
<1>2. requests[i].slot \in Slots
  BY <1>1 DEF Request
<1>3. QED
  BY <1>1, <1>2 DEF Request, Slots

\* Steps that keep the plan keep all that is defined from it.
LEMMA SamePlanFacts ==
  ASSUME SamePlan(st, st')
  PROVE  /\ CompoundShape(st') = CompoundShape(st)
         /\ Ready(st') = Ready(st)
         /\ AtCompanion(st') = AtCompanion(st)
         /\ ContinuesPattern(st') = ContinuesPattern(st)
         /\ Unplanned(st') = Unplanned(st)
<1>1. CompoundShape(st') = CompoundShape(st)
  BY DEF SamePlan, CompoundShape
<1>2. Ready(st') = Ready(st)
  BY <1>1 DEF SamePlan, Ready
<1>3. AtCompanion(st') = AtCompanion(st) /\ ContinuesPattern(st') = ContinuesPattern(st)
  BY DEF SamePlan, AtCompanion, ContinuesPattern, Cursor
<1>4. Unplanned(st') = Unplanned(st)
  BY DEF SamePlan, Unplanned
<1>5. QED
  BY <1>1, <1>2, <1>3, <1>4

\* Requests stay in order while the cursor stays.
LEMMA RequestsKept ==
  ASSUME RequestInv, requests' = requests,
         CompoundShape(st') = CompoundShape(st), st'.index = st.index,
         st'.status = "PENDING" => st.status = "PENDING",
         Sanctioned => Sanctioned'
  PROVE  RequestInv'
BY DEF RequestInv, NoDuplicateResource, PlannedForItsType, DependencyOrder, Exists

\* A thread without requests satisfies what is said about requests.
LEMMA NothingRequested ==
  ASSUME QueueAssumption, requests' = <<>>, st'.index \in {None, 0}
  PROVE  RequestInv'
BY QueueAssumption DEF RequestInv, NoDuplicateResource, PlannedForItsType, DependencyOrder, Exists, CompoundShape, Provisionable, Slots

\* A step of a node that leaves the plan and the requests as they are.
LEMMA SamePlanStep ==
  ASSUME ApplyInv, at \in Node, SamePlan(st, st'),
         requests' = requests, UNCHANGED <<tty, loopVars>>, consent => consent',
         st'.status = "PENDING" => st.status = "PENDING",
         WholePlans /\ at' = "END" /\ st'.status = "SUCCESS" =>
           \A slot \in (IF st.queue THEN Provisionable ELSE {0}) : Exists(slot)
  PROVE  ShapeInv' /\ RequestInv' /\ VerdictInv'
<1>0. at # "END" /\ phase # "reported"
  BY DEF ApplyInv, RunningInv, Returned, Node
<1>1. ShapeInv'
  BY <1>0, SamePlanFacts DEF ApplyInv, ShapeInv, SamePlan
<1>2. RequestInv'
  BY SamePlanFacts, RequestsKept DEF ApplyInv, SamePlan, Sanctioned
<1>3. VerdictInv'
  BY <1>0 DEF ApplyInv, VerdictInv, HonestVerdict, SamePlan, loopVars, Exists, WholePlans, Provisionable
<1>4. QED
  BY <1>1, <1>2, <1>3

\* Only the phases in which the graph is invoked have a node to run.
LEMMA Active ==
  ASSUME ApplyInv, at \in Node
  PROVE  /\ phase \in Phase1 \/ Running
         /\ at # "END" /\ at # "interrupt" /\ st.mode = "APPLY"
         /\ phase # "loop" /\ phase # "reported" /\ phase # "start"
         /\ phase = "continued" => at = "human_approval"
BY ChannelFacts DEF ApplyInv, PlanningInv, RunningInv, Running, Returned, Phase1,
   LoopPhase, Node

\* The intent is parsed and approval is asked for before phase 2.
LEMMA BeforePhase2 ==
  ASSUME ApplyInv, at \in {"intent_parser", "query_handler", "schema_fetcher",
                           "compound_dispatcher", "human_approval"}
  PROVE  phase \in Phase1 /\ requests = <<>> /\ st.index \in {None, 0}
BY Active DEF ApplyInv, PlanningInv, RunningInv, Node

\* A step of the graph neither reports nor changes the verdict.
LEMMA NoVerdict ==
  ASSUME ApplyInv, phase # "reported", UNCHANGED loopVars,
         at' = "END" => st'.status # "SUCCESS"
  PROVE  VerdictInv'
BY DEF ApplyInv, VerdictInv, HonestVerdict, loopVars, WholePlans

-----------------------------------------------------------------------------
(* The planning half.                                                       *)

\* intent_parser, query_handler and schema_fetcher keep the invariant.
LEMMA IntentSafe ==
  ASSUME ApplyInv, TypeOK', UNCHANGED loopVars,
         IntentUnderstood \/ IntentRejected \/ QueryHandler \/ SchemaFetcher
  PROVE  ApplyInv'
<1>1. st \in Channels /\ requests \in Seq(Request)
  BY ChannelFacts DEF ApplyInv
<1>2. at \in {"intent_parser", "query_handler", "schema_fetcher"}
  BY DEF IntentUnderstood, IntentRejected, QueryHandler, SchemaFetcher, Return
<1>3. /\ phase \in {"phase1", "clarified"} /\ requests = <<>>
      /\ st.index \in {None, 0} /\ st.mode = "APPLY"
  BY <1>2, Active, BeforePhase2 DEF Phase1, Node
<1>4. requests' = requests /\ tty' = tty /\ consent' = consent /\ phase' = phase
  BY DEF IntentUnderstood, IntentRejected, QueryHandler, SchemaFetcher, Return,
     KeepOutside, loopVars
<1>5. /\ st'.mode = st.mode /\ st'.queue = st.queue /\ st'.index = st.index
      /\ st'.completed = st.completed /\ st'.desired = st.desired
      /\ st'.preflight = st.preflight /\ st'.resumed = st.resumed
  BY <1>1 DEF IntentUnderstood, IntentRejected, QueryHandler, SchemaFetcher, Return,
     Understood, With, Channels
<1>6. RequestInv'
  BY <1>3, <1>4, <1>5, NothingRequested, QueueAssumption
<1>7. at' \notin {"END", "interrupt", "resource_provisioner", "status_poller"}
  BY DEF IntentUnderstood, IntentRejected, QueryHandler, SchemaFetcher, Return, Goto,
     RouteIntentParser
<1>8. VerdictInv'
  BY <1>3, <1>7, NoVerdict
<1>9. RunningInv'
  BY <1>3, <1>4 DEF RunningInv, Running
<1>10. ASSUME \/ st'.status \in {"FAILED", "UNSUPPORTED_RESOURCE", "QUERY_INTENT"}
              \/ st'.status = "PENDING",
              st'.status = "UNSUPPORTED_RESOURCE" \/ st'.type = None => st.index = None
       PROVE  PlanningInv'
  BY <1>3, <1>4, <1>5, <1>7, <1>10 DEF PlanningInv, Phase1
<1>11. CASE IntentUnderstood
  <2>1. st.index = None
    BY <1>11 DEF ApplyInv, StageInv, IntentUnderstood, Return
  <2>2. /\ st'.status = st.status
        /\ \/ st'.pattern /\ st'.type = st.type
           \/ st'.pattern = st.pattern /\ st'.type = 0
        /\ at' = RouteIntentParser(st')
    BY <1>1, <1>11 DEF IntentUnderstood, Return, Understood, Channels, Goto, RouteIntentParser
  <2>3. ShapeInv'
    BY <1>5, <2>1, <2>2 DEF ApplyInv, ShapeInv, CompoundShape, WholePlans
  <2>4. CASE st.status = "PENDING" /\ Unplanned(st) /\ ~st.pattern
    <3>1. at' = "schema_fetcher" /\ Unplanned(st')
      BY <1>5, <2>2, <2>4 DEF RouteIntentParser, Unplanned
    <3>2. StageInv'
      BY <2>2, <2>4, <3>1 DEF StageInv, PastPlanning
    <3>3. QED
      BY <1>6, <1>8, <1>9, <1>10, <2>1, <2>2, <2>3, <2>4, <3>2 DEF ApplyInv
  <2>5. CASE st.status \in {"FAILED", "UNSUPPORTED_RESOURCE"}
    <3>1. at' = "result_formatter"
      BY <2>2, <2>5 DEF RouteIntentParser
    <3>2. StageInv'
      BY <2>2, <2>5, <3>1 DEF StageInv, PastPlanning, Terminal
    <3>3. QED
      BY <1>6, <1>8, <1>9, <1>10, <2>1, <2>2, <2>3, <2>5, <3>2 DEF ApplyInv
  <2>6. QED
    BY <1>11, <2>4, <2>5 DEF ApplyInv, StageInv, IntentUnderstood, Return
<1>12. CASE IntentRejected
  <2>1. /\ st'.pattern = st.pattern
        /\ st'.status \in {"FAILED", "UNSUPPORTED_RESOURCE", "QUERY_INTENT"}
        /\ at' \in {"result_formatter", "query_handler"}
    BY <1>1, <1>12 DEF IntentRejected, Return, With, Channels, Goto, RouteIntentParser
  <2>2. st.index = None
    BY <1>12 DEF ApplyInv, StageInv, IntentRejected, Return
  <2>3. ShapeInv'
    BY <1>5, <2>1, <2>2 DEF ApplyInv, ShapeInv, CompoundShape, WholePlans
  <2>4. StageInv'
    BY <2>1 DEF StageInv, Terminal, PastPlanning
  <2>5. QED
    BY <1>6, <1>8, <1>9, <1>10, <2>1, <2>2, <2>3, <2>4 DEF ApplyInv
<1>13. CASE QueryHandler \/ SchemaFetcher
  <2>1. /\ st'.pattern = st.pattern /\ st'.type = st.type
        /\ \/ QueryHandler /\ st'.status \in {"QUERY_INTENT", "FAILED"}
              /\ at' = "result_formatter"
           \/ SchemaFetcher /\ st'.status \in {st.status, "FAILED"}
              /\ at' = "compound_dispatcher"
              /\ (st.pattern => st'.status = st.status)
    BY <1>1, <1>13 DEF QueryHandler, SchemaFetcher, Return, With, Channels, Goto
  <2>2. ShapeInv'
    BY <1>2, <1>5, <2>1 DEF ApplyInv, ShapeInv, CompoundShape, WholePlans
  <2>3. Unplanned(st') = Unplanned(st)
    BY <1>5 DEF Unplanned
  <2>4. SchemaFetcher =>
          /\ Unplanned(st)
          /\ IF st.pattern THEN st.status = "PENDING"
                           ELSE st.status \in {"PENDING", "FAILED"} /\ st.type = 0
    BY DEF ApplyInv, StageInv, SchemaFetcher, Return
  <2>5. StageInv'
    BY <2>1, <2>3, <2>4 DEF StageInv, Terminal, PastPlanning
  <2>6. st'.status = "UNSUPPORTED_RESOURCE" \/ st'.type = None => st.index = None
    BY <1>3, <2>1, <2>4 DEF ApplyInv, PlanningInv, Phase1
  <2>7. QED
    BY <1>6, <1>8, <1>9, <1>10, <2>1, <2>2, <2>4, <2>5, <2>6 DEF ApplyInv
<1>14. QED
  BY <1>11, <1>12, <1>13

\* compound_dispatcher keeps the invariant: the pattern starts at its first slot.
LEMMA DispatcherSafe ==
  ASSUME ApplyInv, TypeOK', UNCHANGED loopVars, CompoundDispatcher
  PROVE  ApplyInv'
<1>1. st \in Channels /\ at = "compound_dispatcher"
  BY ChannelFacts DEF ApplyInv, CompoundDispatcher, Return
<1>2. /\ phase \in {"phase1", "clarified"} /\ requests = <<>>
      /\ st.index \in {None, 0} /\ st.mode = "APPLY"
  BY <1>1, Active, BeforePhase2 DEF Phase1, Node
<1>3. /\ requests' = requests /\ tty' = tty /\ consent' = consent /\ phase' = phase
      /\ at' = "plan_generator"
  BY DEF CompoundDispatcher, Return, KeepOutside, Goto, loopVars
<1>4. st'.mode = st.mode /\ st'.status = st.status /\ st'.pattern = st.pattern
  BY <1>1 DEF CompoundDispatcher, Return, Channels
<1>5. /\ Unplanned(st)
      /\ IF st.pattern THEN st.status = "PENDING"
                       ELSE st.status \in {"PENDING", "FAILED"} /\ st.type = 0
  BY <1>1 DEF ApplyInv, StageInv
<1>6. VerdictInv'
  BY <1>2, <1>3, NoVerdict
<1>7. RunningInv'
  BY <1>2, <1>3 DEF RunningInv, Running
<1>8. CASE ~st.pattern
  <2>1. st' = st
    BY <1>8 DEF CompoundDispatcher, Return
  <2>2. ShapeInv'
    BY <1>1, <2>1 DEF ApplyInv, ShapeInv
  <2>3. StageInv'
    BY <1>3, <1>5, <1>8, <2>1 DEF StageInv, PastPlanning, Unplanned
  <2>4. PlanningInv'
    BY <1>2, <1>3, <1>5, <1>8, <2>1 DEF ApplyInv, PlanningInv, Phase1
  <2>5. RequestInv'
    BY <1>2, <1>3, <2>1, NothingRequested, QueueAssumption
  <2>6. QED
    BY <1>6, <1>7, <2>2, <2>3, <2>4, <2>5 DEF ApplyInv
<1>9. CASE st.pattern
  <2>1. /\ st'.queue /\ st'.index = 0 /\ st'.completed = <<>>
        /\ st'.type = 0 /\ st'.desired = None
    BY <1>1, <1>9 DEF CompoundDispatcher, Return, Channels
  <2>2. CompoundShape(st')
    BY <1>4, <1>9, <2>1, NoneAssumption DEF CompoundShape
  <2>3. ShapeInv'
    BY <2>1, <2>2, QueueAssumption DEF ShapeInv
  <2>4. StageInv'
    BY <1>3, <1>4, <1>5, <1>9, <2>1, <2>2 DEF StageInv, PastPlanning
  <2>5. PlanningInv'
    BY <1>2, <1>3, <1>4, <1>5, <1>9, <2>1, NoneAssumption DEF ApplyInv, PlanningInv, Phase1
  <2>6. RequestInv'
    BY <1>2, <1>3, <2>1, NothingRequested, QueueAssumption
  <2>7. QED
    BY <1>6, <1>7, <2>3, <2>4, <2>5, <2>6 DEF ApplyInv
<1>10. QED
  BY <1>8, <1>9

\* plan_generator keeps the invariant: it plans the slot under the cursor.
LEMMA PlanGeneratorSafe ==
  ASSUME ApplyInv, TypeOK', UNCHANGED loopVars, PlanGenerator
  PROVE  ApplyInv'
<1>1. st \in Channels /\ at = "plan_generator"
  BY ChannelFacts DEF ApplyInv, PlanGenerator, Return
<1>2. /\ phase \in {"phase1", "clarified"} \/ Running
      /\ phase # "reported" /\ phase # "loop" /\ phase # "start"
      /\ st.mode = "APPLY"
  BY <1>1, Active DEF Phase1, Node
<1>3. /\ requests' = requests /\ tty' = tty /\ consent' = consent /\ phase' = phase
      /\ at' = "validate_desired_state"
  BY DEF PlanGenerator, Return, KeepOutside, Goto, loopVars
<1>4. VerdictInv'
  BY <1>2, <1>3, NoVerdict
<1>5. /\ st'.mode = st.mode /\ st'.queue = st.queue /\ st'.pattern = st.pattern
      /\ st'.index = st.index /\ st'.completed = st.completed
      /\ st'.preflight = st.preflight /\ st'.resumed = st.resumed
      /\ st'.status \in {st.status, "FAILED"}
  BY <1>1 DEF PlanGenerator, Return, CompoundPlans, SinglePlans, With, Channels
<1>6. CompoundShape(st') = CompoundShape(st) /\ ContinuesPattern(st') = ContinuesPattern(st)
  BY <1>5 DEF CompoundShape, ContinuesPattern, Cursor
<1>7. st.desired = None /\ st.status \in {"PENDING", "FAILED"}
  BY <1>1 DEF ApplyInv, StageInv
<1>8. RequestInv'
  BY <1>3, <1>5, <1>6, RequestsKept DEF ApplyInv, Sanctioned
<1>9. CASE CompoundShape(st)
  <2>1. st.index # None /\ st.index # N
    BY <1>9 DEF ApplyInv, ShapeInv, CompoundShape
  <2>2. \/ st'.desired = st.index /\ st'.type = st.index
        \/ st'.desired = None /\ st'.type = st.type /\ st'.status = "FAILED"
    BY <1>1, <1>7, <1>9, <2>1 DEF PlanGenerator, Return, CompoundPlans, With, Channels
  <2>3. ShapeInv'
    BY <1>1, <1>3, <1>5, <1>6, <1>9, <2>2 DEF ApplyInv, ShapeInv, WholePlans
  <2>4. StageInv'
    BY <1>3, <1>5, <1>6, <1>7, <1>9, <2>1, <2>2 DEF StageInv, Ready, Terminal
  <2>5. PlanningInv'
    BY <1>2, <1>3, <1>5, <1>7, <2>1, <2>2 DEF ApplyInv, PlanningInv, Phase1, Running
  <2>6. RunningInv'
    BY <1>1, <1>2, <1>3, <1>5, <1>6 DEF ApplyInv, RunningInv, Running, Sanctioned
  <2>7. QED
    BY <1>4, <1>8, <2>3, <2>4, <2>5, <2>6 DEF ApplyInv
<1>10. CASE ~CompoundShape(st)
  <2>1. ~st.pattern /\ st.type = 0 /\ Unplanned(st)
    BY <1>1, <1>10 DEF ApplyInv, StageInv
  <2>2. ~Running
    BY <1>1, <2>1 DEF ApplyInv, RunningInv, ContinuesPattern
  <2>3. /\ st'.type = st.type
        /\ st'.status = "PENDING" => st'.desired = 0
    BY <1>1, <1>7, <1>10 DEF PlanGenerator, Return, SinglePlans, With, Channels
  <2>4. ShapeInv'
    BY <1>1, <1>3, <1>5, <1>6, <1>10 DEF ApplyInv, ShapeInv, WholePlans
  <2>5. StageInv'
    BY <1>3, <1>5, <1>6, <1>7, <1>10, <2>1, <2>3, NoneAssumption
       DEF StageInv, Ready, Terminal
  <2>6. PlanningInv'
    BY <1>2, <1>3, <1>5, <1>7, <2>1, <2>2, <2>3, NoneAssumption
       DEF ApplyInv, PlanningInv, Phase1
  <2>7. RunningInv'
    BY <1>2, <1>3, <2>2 DEF RunningInv, Running
  <2>8. QED
    BY <1>4, <1>8, <2>4, <2>5, <2>6, <2>7 DEF ApplyInv
<1>11. QED
  BY <1>9, <1>10

-----------------------------------------------------------------------------
(* From a plan to the provisioner.                                          *)

\* What is left to show of a step that keeps the plan and the requests.
LEMMA SamePlanSafe ==
  ASSUME ApplyInv, TypeOK', at \in Node, SamePlan(st, st'),
         requests' = requests, UNCHANGED <<tty, loopVars>>, consent => consent',
         st'.status = "PENDING" => st.status = "PENDING",
         WholePlans /\ at' = "END" /\ st'.status = "SUCCESS" =>
           \A slot \in (IF st.queue THEN Provisionable ELSE {0}) : Exists(slot),
         StageInv', PlanningInv', RunningInv'
  PROVE  ApplyInv'
BY SamePlanStep DEF ApplyInv

\* validate_desired_state keeps the invariant.
LEMMA ValidateSafe ==
  ASSUME ApplyInv, TypeOK', UNCHANGED loopVars, ValidateDesiredState
  PROVE  ApplyInv'
<1>1. st \in Channels /\ at = "validate_desired_state"
  BY ChannelFacts DEF ApplyInv, ValidateDesiredState, Return
<1>2. st.status \in {"PENDING", "FAILED"}
  BY <1>1 DEF ApplyInv, StageInv
<1>3. requests' = requests /\ tty' = tty /\ consent' = consent /\ phase' = phase
  BY DEF ValidateDesiredState, Return, KeepOutside, loopVars
<1>4. SamePlan(st, st') /\ st'.preflight = st.preflight
  BY <1>1 DEF ValidateDesiredState, Return, With, SamePlan, Channels
<1>5. \/ st'.status = "FAILED" /\ at' = "result_formatter"
      \/ st'.status = "PENDING" /\ st.status = "PENDING" /\ at' = "preflight_guard"
  BY <1>1, <1>2 DEF ValidateDesiredState, Return, With, Channels, Goto,
     RouteValidateDesiredState, Terminal
<1>6. StageInv'
  BY <1>1, <1>5, <1>4, SamePlanFacts DEF ApplyInv, StageInv, Terminal, PastPlanning
<1>7. PlanningInv'
  BY <1>1, <1>3, <1>4, <1>5, Active DEF ApplyInv, PlanningInv, Phase1, SamePlan, Node
<1>8. RunningInv'
  BY <1>1, <1>3, <1>4, <1>5, SamePlanFacts, Active
     DEF ApplyInv, RunningInv, Running, SamePlan, Sanctioned, Node
<1>9. QED
  BY <1>1, <1>3, <1>4, <1>5, <1>6, <1>7, <1>8, SamePlanSafe DEF Node

\* preflight_guard keeps the invariant: only what it passes goes on to approval.
LEMMA PreflightSafe ==
  ASSUME ApplyInv, TypeOK', UNCHANGED loopVars, PreflightGuard
  PROVE  ApplyInv'
<1>1. st \in Channels /\ at = "preflight_guard"
  BY ChannelFacts DEF ApplyInv, PreflightGuard, Return
<1>2. st.status \in {"PENDING", "FAILED"} /\ st.mode = "APPLY"
  BY <1>1, Active DEF ApplyInv, StageInv, Node
<1>3. requests' = requests /\ tty' = tty /\ consent' = consent /\ phase' = phase
  BY DEF PreflightGuard, Return, KeepOutside, loopVars
<1>4. SamePlan(st, st')
  BY <1>1 DEF PreflightGuard, Return, With, SamePlan, Channels
<1>5. st'.status \in {st.status, "FAILED"}
  BY <1>1 DEF PreflightGuard, Return, With, Channels
<1>6. /\ st'.status \in {"PENDING", "FAILED"}
      /\ st'.status = "PENDING" => st.status = "PENDING"
      /\ \/ /\ st'.status = "FAILED" \/ ~st'.preflight
            /\ at' = "result_formatter"
         \/ /\ st'.status = "PENDING" /\ st'.preflight
            /\ at' = IF ContinuesPattern(st') THEN "interrupt" ELSE "human_approval"
  <2>1. at' = IF RoutePreflightGuard(st') = "resource_provisioner"
                THEN "interrupt" ELSE RoutePreflightGuard(st')
    BY DEF PreflightGuard, Goto
  <2>2. st'.mode = "APPLY"
    BY <1>2, <1>4 DEF SamePlan
  <2>3. QED
    BY <1>2, <1>5, <2>1, <2>2 DEF RoutePreflightGuard, Terminal
<1>7. StageInv'
  BY <1>1, <1>4, <1>5, <1>6, SamePlanFacts DEF ApplyInv, StageInv, Terminal, PastPlanning
<1>8. st.index \in {None, 0} => ~ContinuesPattern(st')
  BY <1>4, SamePlanFacts DEF ContinuesPattern, Cursor
<1>9. PlanningInv'
  BY <1>1, <1>3, <1>4, <1>5, <1>6, <1>8, Active
     DEF ApplyInv, PlanningInv, Phase1, SamePlan, Node
<1>10. RunningInv'
  BY <1>1, <1>3, <1>4, <1>5, <1>6, SamePlanFacts, Active
     DEF ApplyInv, RunningInv, Running, SamePlan, Sanctioned, Node
<1>11. QED
  BY <1>1, <1>3, <1>4, <1>5, <1>6, <1>7, <1>9, <1>10, SamePlanSafe DEF Node

\* human_approval keeps the invariant: what it lets through is sanctioned.
LEMMA ApprovalSafe ==
  ASSUME ApplyInv, TypeOK', UNCHANGED loopVars, HumanApproval
  PROVE  ApplyInv'
<1>1. st \in Channels /\ consent \in BOOLEAN /\ tty \in BOOLEAN
  BY ChannelFacts DEF ApplyInv
<1>2. at = "human_approval" /\ at' = "interrupt"
  BY DEF HumanApproval, Goto
<1>3. requests' = requests /\ tty' = tty /\ phase' = phase /\ (consent => consent')
  BY <1>1 DEF HumanApproval, loopVars
<1>4. SamePlan(st, st') /\ st'.preflight = st.preflight
  BY <1>1 DEF HumanApproval, With, SamePlan, Channels
<1>5. \/ st'.status \in {"FAILED", "CANCELLED"}
      \/ st'.status = st.status /\ Sanctioned'
  BY <1>1 DEF HumanApproval, With, Channels, Sanctioned
<1>6. phase \in Phase1
  BY <1>2, BeforePhase2
<1>7. StageInv'
  BY <1>2, <1>4, <1>5, SamePlanFacts DEF ApplyInv, StageInv, Terminal, PastPlanning
<1>8. PlanningInv'
  BY <1>2, <1>3, <1>4, <1>5, <1>6
     DEF ApplyInv, PlanningInv, Phase1, SamePlan, Terminal
<1>9. RunningInv'
  BY <1>3, <1>6 DEF RunningInv, Running, Phase1
<1>10. QED
  BY <1>2, <1>3, <1>4, <1>5, <1>7, <1>8, <1>9, SamePlanSafe DEF Node

\* What the provisioner finds.
LEMMA AtProvisioner ==
  ASSUME ApplyInv, at = "resource_provisioner"
  PROVE  /\ Running /\ phase = "provisioning" /\ Sanctioned /\ st.preflight
         /\ st.status \in {"PENDING", "IN_PROGRESS"}
         /\ Ready(st) /\ st.desired # None
BY Active DEF ApplyInv, PlanningInv, RunningInv, StageInv, PastPlanning, Terminal,
   Ready, Node, Running

\* Nothing that was requested for the current slot can still bring it about.
LEMMA OnlyRetries ==
  ASSUME ApplyInv, at = "resource_provisioner"
  PROVE  \A i \in DOMAIN requests :
           requests[i].slot = st.desired => requests[i].outcome = "dns"
<1>1. ASSUME st.status = "PENDING", CompoundShape(st)
      PROVE  \A i \in DOMAIN requests : requests[i].slot # st.desired
  <2>1. \A i \in DOMAIN requests : requests[i].slot < st.index
    BY <1>1 DEF ApplyInv, RequestInv
  <2>2. \A i \in DOMAIN requests : requests[i].slot \in Int
    BY RequestFacts DEF ApplyInv
  <2>3. QED
    BY <1>1, <2>1, <2>2, AtProvisioner DEF Ready
<1>2. st.status = "PENDING" /\ ~CompoundShape(st) => DOMAIN requests = {}
  BY DEF ApplyInv, RequestInv
<1>3. (\A i \in Requested(st.desired) : requests[i].outcome = "dns")
       => \A i \in DOMAIN requests :
            requests[i].slot = st.desired => requests[i].outcome = "dns"
  BY DEF Requested
<1>4. QED
  BY <1>1, <1>2, <1>3, AtProvisioner DEF ApplyInv, RunningInv, Running

\* What is sent to CloudControl is a part of the plan, never a companion.
LEMMA PlansProvisionable ==
  ASSUME ApplyInv, WholePlans, at = "resource_provisioner", Provisions(st)
  PROVE  st.desired \in Provisionable
<1>1. st.desired \in Slots /\ Ready(st) /\ ~AtCompanion(st)
  BY ChannelFacts, AtProvisioner DEF ApplyInv, Provisions
<1>2. CASE CompoundShape(st)
  BY <1>1, <1>2 DEF Ready, AtCompanion, Cursor, CompoundShape, Provisionable
<1>3. CASE ~CompoundShape(st)
  BY <1>1, <1>3, QueueAssumption DEF Ready, Provisionable
<1>4. QED
  BY <1>2, <1>3

\* A request for the current slot keeps the requests in order.
LEMMA RequestAdded ==
  ASSUME ApplyInv, at = "resource_provisioner", Provisions(st),
         NEW outcome \in Outcome, Submit(outcome),
         SamePlan(st, st'), st'.status # "PENDING", UNCHANGED <<consent, tty>>
  PROVE  RequestInv'
<1>1. Sanctioned /\ st.desired # None /\ Ready(st)
  BY AtProvisioner
<1>2. /\ requests \in Seq(Request)
      /\ requests' = Append(requests, [slot |-> st.desired, type |-> st.type,
                                       outcome |-> outcome])
  BY ChannelFacts DEF ApplyInv, Submit
<1>3. /\ Len(requests') = Len(requests) + 1
      /\ requests'[Len(requests) + 1].slot = st.desired
      /\ requests'[Len(requests) + 1].type = st.desired
      /\ requests'[Len(requests) + 1].outcome = outcome
      /\ \A i \in 1..Len(requests) : requests'[i] = requests[i]
  BY <1>1, <1>2 DEF Ready
<1>4. DOMAIN requests = 1..Len(requests) /\ DOMAIN requests' = 1..(Len(requests) + 1)
      /\ Len(requests) \in Nat
  BY <1>2, <1>3
<1>5. CompoundShape(st') = CompoundShape(st) /\ st'.index = st.index
  BY SamePlanFacts DEF SamePlan
<1>6. \A t : Exists(t) => Exists(t)'
  BY <1>3, <1>4 DEF Exists
<1>7. CompoundShape(st) => st.desired = st.index
  BY <1>1 DEF Ready
<1>8. \A i \in DOMAIN requests :
        requests[i].slot = st.desired => requests[i].outcome = "dns"
  BY OnlyRetries
<1>9. NoDuplicateResource'
  BY <1>3, <1>4, <1>8 DEF ApplyInv, RequestInv, NoDuplicateResource
<1>10. PlannedForItsType'
  BY <1>3, <1>4 DEF ApplyInv, RequestInv, PlannedForItsType
<1>11. ASSUME WholePlans
       PROVE  DependencyOrder'
  <2>1. ASSUME NEW t \in Provisionable, t < st.desired
        PROVE  \E j \in 1..Len(requests) : requests[j].slot = t /\ requests[j].outcome = "ok"
    <3>1. CompoundShape(st)
      BY <1>1, <1>11, <2>1 DEF Ready, Provisionable, Slots
    <3>2. QED
      BY <1>4, <1>7, <2>1, <3>1 DEF ApplyInv, RequestInv, Exists
  <2>2. DependencyOrder
    BY <1>11 DEF ApplyInv, RequestInv
  <2>3. QED
    BY <1>3, <1>4, <2>1, <2>2 DEF DependencyOrder
<1>12. ASSUME CompoundShape(st')
       PROVE  /\ \A i \in DOMAIN requests' : requests'[i].slot <= st'.index
              /\ \A t \in Provisionable : t < st'.index => Exists(t)'
  <2>1. st.desired \in Int
    BY <1>1, ChannelFacts DEF ApplyInv, Slots
  <2>2. QED
    BY <1>3, <1>4, <1>5, <1>6, <1>7, <1>12, <2>1 DEF ApplyInv, RequestInv
<1>13. ASSUME WholePlans
       PROVE  \A i \in DOMAIN requests' : requests'[i].slot \in Provisionable
  <2>1. st.desired \in Provisionable
    BY <1>13, PlansProvisionable
  <2>2. QED
    BY <1>3, <1>4, <1>13, <2>1 DEF ApplyInv, RequestInv
<1>14. requests' # <<>> => Sanctioned'
  BY <1>1 DEF Sanctioned, SamePlan
<1>15. st'.status # "PENDING"
  OBVIOUS
<1>16. QED
  BY <1>9, <1>10, <1>11, <1>12, <1>13, <1>14, <1>15 DEF RequestInv

-----------------------------------------------------------------------------
(* Provisioning.                                                            *)

\* What is left to show of a step of phase 2 that leads on to the formatter.
LEMMA Settled ==
  ASSUME ApplyInv, Running, SamePlan(st, st'), phase' = phase, phase # "loop",
         st'.preflight = st.preflight, consent' = consent, tty' = tty,
         at' = "result_formatter",
         \/ st'.status = "FAILED"
         \/ st'.status = "SUCCESS" /\ st.preflight /\ Ready(st)
            /\ (AtCompanion(st) \/ Exists(st.desired)')
  PROVE  StageInv' /\ PlanningInv' /\ RunningInv'
<1>1. StageInv'
  BY SamePlanFacts DEF StageInv, PastPlanning, Terminal
<1>2. PlanningInv'
  BY DEF PlanningInv, Running, Phase1
<1>3. RunningInv'
  BY DEF ApplyInv, RunningInv, Running, SamePlan, Sanctioned
<1>4. QED
  BY <1>1, <1>2, <1>3

\* resource_provisioner keeps the invariant when it makes no call.
LEMMA NoCallSafe ==
  ASSUME ApplyInv, TypeOK', UNCHANGED loopVars, SkipProvision \/ RefuseProvision
  PROVE  ApplyInv'
<1>1. st \in Channels /\ at = "resource_provisioner"
  BY ChannelFacts DEF ApplyInv, SkipProvision, RefuseProvision
<1>2. requests' = requests /\ tty' = tty /\ consent' = consent /\ phase' = phase
  BY DEF SkipProvision, RefuseProvision, KeepOutside, loopVars
<1>3. SamePlan(st, st') /\ st'.preflight = st.preflight
  BY <1>1, AtProvisioner DEF SkipProvision, RefuseProvision, With, SamePlan, Channels
<1>4. /\ \/ st'.status = "FAILED"
         \/ st'.status = "SUCCESS" /\ AtCompanion(st)
      /\ at' = "result_formatter"
  BY <1>1, AtProvisioner DEF SkipProvision, RefuseProvision, With, Channels, Goto,
     RouteResourceProvisioner, Provisions
<1>5. StageInv' /\ PlanningInv' /\ RunningInv'
  BY <1>1, <1>2, <1>3, <1>4, AtProvisioner, Settled
<1>6. QED
  BY <1>1, <1>2, <1>3, <1>4, <1>5, SamePlanSafe DEF Node, loopVars

\* resource_provisioner keeps the invariant when its call is accepted.
LEMMA CreateSafe ==
  ASSUME ApplyInv, TypeOK', UNCHANGED loopVars,
         LoseAnswer \/ CreateDirect \/ CreateAsync
  PROVE  ApplyInv'
<1>1. st \in Channels /\ at = "resource_provisioner" /\ Provisions(st)
      /\ requests \in Seq(Request)
  BY ChannelFacts DEF ApplyInv, LoseAnswer, CreateDirect, CreateAsync
<1>2. tty' = tty /\ consent' = consent /\ phase' = phase
  BY DEF LoseAnswer, CreateDirect, CreateAsync, loopVars
<1>3. SamePlan(st, st') /\ st'.preflight = st.preflight
  BY <1>1 DEF LoseAnswer, CreateDirect, CreateAsync, With, SamePlan, Channels
<1>4. /\ LoseAnswer => /\ Submit("pending")
                       /\ st'.status = "FAILED" /\ at' = "result_formatter"
      /\ CreateDirect => /\ Submit("ok")
                         /\ st'.status = "SUCCESS" /\ at' = "result_formatter"
      /\ CreateAsync =>
         /\ Submit("pending")
         /\ st'.status = "IN_PROGRESS" /\ at' = "status_poller"
         /\ st'.token = Len(requests) + 1
  BY <1>1 DEF LoseAnswer, CreateDirect, CreateAsync, With, Channels, Goto,
     RouteResourceProvisioner
<1>5. RequestInv'
  BY <1>1, <1>2, <1>3, <1>4, RequestAdded DEF Outcome
<1>6. ShapeInv'
  BY <1>1, <1>3, <1>4, SamePlanFacts DEF ApplyInv, ShapeInv, SamePlan, WholePlans
<1>7. VerdictInv'
  BY <1>1, <1>2, <1>4, NoVerdict, Active DEF Node
<1>8. /\ Len(requests') = Len(requests) + 1
      /\ requests'[Len(requests) + 1].slot = st.desired
      /\ CreateDirect => requests'[Len(requests) + 1].outcome = "ok"
      /\ \A i \in 1..Len(requests) : requests'[i] = requests[i]
      /\ DOMAIN requests' = 1..(Len(requests) + 1) /\ DOMAIN requests = 1..Len(requests)
  <2>1. PICK outcome : /\ requests' = Append(requests, [slot |-> st.desired,
                                 type |-> st.type, outcome |-> outcome])
                       /\ CreateDirect => outcome = "ok"
    <3>1. CASE CreateDirect
      BY <1>4, <3>1 DEF Submit
    <3>2. CASE ~CreateDirect
      BY <1>4, <3>2 DEF Submit
    <3>3. QED
      BY <3>1, <3>2
  <2>2. QED
    BY <1>1, <2>1
<1>9. CASE LoseAnswer \/ CreateDirect
  <2>1. CreateDirect => Exists(st.desired)'
    <3>1. SUFFICES ASSUME CreateDirect
                   PROVE  \E i \in DOMAIN requests' : requests'[i].slot = st'.desired
                                                 /\ requests'[i].outcome = "ok"
      BY <1>3 DEF Exists, SamePlan
    <3>2. Len(requests) + 1 \in DOMAIN requests'
      BY <1>1, <1>8
    <3>3. QED
      BY <1>3, <1>8, <3>1, <3>2 DEF SamePlan
  <2>2. StageInv' /\ PlanningInv' /\ RunningInv'
    BY <1>1, <1>2, <1>3, <1>4, <1>9, <2>1, AtProvisioner, Settled
  <2>3. QED
    BY <1>5, <1>6, <1>7, <2>2 DEF ApplyInv
<1>10. CASE CreateAsync
  <2>1. st'.status = "IN_PROGRESS" /\ at' = "status_poller" /\ st'.token = Len(requests) + 1
    BY <1>4, <1>10
  <2>2. StageInv'
    BY <1>1, <1>3, <2>1, AtProvisioner, SamePlanFacts DEF StageInv, PastPlanning
  <2>3. PlanningInv'
    BY <1>1, <1>2, AtProvisioner DEF PlanningInv, Phase1
  <2>4. \A i \in DOMAIN requests :
          requests[i].slot = st.desired => requests[i].outcome = "dns"
    BY <1>1, OnlyRetries
  <2>5. RunningInv'
    <3>1. st'.token \in Requested(st.desired)'
      BY <1>1, <1>3, <1>8, <2>1 DEF Requested, SamePlan
    <3>2. \A i \in Requested(st.desired)' : i # st'.token => requests'[i].outcome = "dns"
      BY <1>1, <1>3, <1>8, <2>1, <2>4 DEF Requested, SamePlan
    <3>3. QED
      BY <1>1, <1>2, <1>3, <1>8, <2>1, <3>1, <3>2, AtProvisioner
         DEF ApplyInv, RunningInv, Running, SamePlan, Sanctioned, Requested
  <2>6. QED
    BY <1>5, <1>6, <1>7, <2>2, <2>3, <2>5 DEF ApplyInv
<1>11. QED
  BY <1>9, <1>10

\* What the poller finds, and what it makes of it.
LEMMA AtPoller ==
  ASSUME ApplyInv, StatusPoller
  PROVE  /\ at = "status_poller" /\ Running /\ phase = "provisioning"
         /\ st.mode = "APPLY" /\ Sanctioned
         /\ st.status = "IN_PROGRESS" /\ st.preflight /\ Ready(st)
         /\ st.token = Len(requests) /\ st.token \in Requested(st.desired)
         /\ \A i \in Requested(st.desired) : i # st.token => requests[i].outcome = "dns"
         /\ st.token # 0 /\ requests[st.token].slot = st.desired
         /\ st.token \in DOMAIN requests /\ requests[st.token].outcome \in Outcome
<1>1. at = "status_poller" /\ requests \in Seq(Request)
  BY ChannelFacts DEF ApplyInv, StatusPoller, PollFails, PollThrottled, PollAnswered, Return
<1>2. /\ Running /\ phase = "provisioning" /\ st.mode = "APPLY"
      /\ Sanctioned /\ st.status = "IN_PROGRESS" /\ st.preflight /\ Ready(st)
      /\ st.token = Len(requests) /\ st.token \in Requested(st.desired)
      /\ \A i \in Requested(st.desired) : i # st.token => requests[i].outcome = "dns"
  BY <1>1, Active DEF ApplyInv, PlanningInv, RunningInv, StageInv, PastPlanning,
     Terminal, Node, Running, Phase1
<1>3. /\ st.token # 0 /\ requests[st.token].slot = st.desired
      /\ st.token \in DOMAIN requests
  BY <1>1, <1>2 DEF Requested
<1>4. QED
  BY <1>1, <1>2, <1>3, RequestFacts DEF ApplyInv

\* status_poller changes the status and its own counters, nothing else.
LEMMA Polled ==
  ASSUME ApplyInv, StatusPoller
  PROVE  /\ SamePlan(st, st') /\ st'.preflight = st.preflight
         /\ \/ st'.status = "FAILED"
            \/ st'.status = "SUCCESS" /\ requests[st.token].outcome = "ok"
            \/ st'.status = "IN_PROGRESS" /\ st'.token = st.token
            \/ st'.status = "IN_PROGRESS" /\ st'.token = 0
               /\ requests[st.token].outcome = "dns"
<1>1. st \in Channels
  BY ChannelFacts DEF ApplyInv
<1>2. CASE PollFails \/ PollThrottled
  BY <1>1, <1>2 DEF PollFails, PollThrottled, Return, With, SamePlan, Channels
<1>3. CASE PollAnswered
  <2>1. st' = AfterVerdict(st, requests[st.token].outcome)
    BY <1>3 DEF PollAnswered, Return
  <2>2. QED
    BY <1>1, <2>1, AtPoller DEF AfterVerdict, With, SamePlan, Channels, Outcome
<1>4. QED
  BY <1>2, <1>3 DEF StatusPoller

\* status_poller keeps the invariant: it retries only what came to nothing.
LEMMA PollSafe ==
  ASSUME ApplyInv, TypeOK', UNCHANGED loopVars, StatusPoller
  PROVE  ApplyInv'
<1>1. at = "status_poller"
  BY AtPoller
<1>2. requests' = requests /\ tty' = tty /\ consent' = consent /\ phase' = phase
  BY DEF StatusPoller, PollFails, PollThrottled, PollAnswered, Return, KeepOutside, loopVars
<1>3. /\ Running /\ phase = "provisioning" /\ st.mode = "APPLY"
      /\ Sanctioned /\ st.status = "IN_PROGRESS" /\ st.preflight /\ Ready(st)
      /\ st.token = Len(requests) /\ st.token \in Requested(st.desired)
      /\ \A i \in Requested(st.desired) : i # st.token => requests[i].outcome = "dns"
  BY AtPoller
<1>4. /\ st.token # 0 /\ requests[st.token].slot = st.desired
      /\ st.token \in DOMAIN requests
  BY AtPoller
<1>5. /\ SamePlan(st, st') /\ st'.preflight = st.preflight
      /\ \/ st'.status = "FAILED"
         \/ st'.status = "SUCCESS" /\ requests[st.token].outcome = "ok"
         \/ st'.status = "IN_PROGRESS" /\ st'.token = st.token
         \/ st'.status = "IN_PROGRESS" /\ st'.token = 0 /\ requests[st.token].outcome = "dns"
  BY Polled
<1>6. at' = IF RouteStatusPoller(st') = "resource_provisioner"
              THEN "interrupt" ELSE RouteStatusPoller(st')
  BY DEF StatusPoller, PollFails, PollThrottled, PollAnswered, Goto
<1>7. CASE st'.status \in {"FAILED", "SUCCESS"}
  <2>1. at' = "result_formatter"
    BY <1>6, <1>7 DEF RouteStatusPoller
  <2>2. st'.status = "SUCCESS" => Exists(st.desired)'
    <3>1. SUFFICES ASSUME st'.status = "SUCCESS"
                   PROVE  \E i \in DOMAIN requests' : requests'[i].slot = st'.desired
                                                 /\ requests'[i].outcome = "ok"
      BY <1>5 DEF Exists, SamePlan
    <3>2. QED
      BY <1>2, <1>4, <1>5, <3>1 DEF SamePlan
  <2>3. StageInv' /\ PlanningInv' /\ RunningInv'
    BY <1>2, <1>3, <1>5, <1>7, <2>1, <2>2, Settled
  <2>4. QED
    BY <1>1, <1>2, <1>5, <1>7, <2>1, <2>3, SamePlanSafe DEF Node, loopVars
<1>8. CASE st'.status = "IN_PROGRESS" /\ st'.token = st.token
  <2>1. at' = "status_poller"
    BY <1>4, <1>6, <1>8 DEF RouteStatusPoller
  <2>2. StageInv'
    BY <1>3, <1>5, <1>8, <2>1, SamePlanFacts DEF StageInv, PastPlanning
  <2>3. PlanningInv'
    BY <1>2, <1>3 DEF PlanningInv, Phase1
  <2>4. RunningInv'
    BY <1>2, <1>3, <1>5, <1>8, <2>1
       DEF ApplyInv, RunningInv, Running, SamePlan, Sanctioned, Requested
  <2>5. QED
    BY <1>1, <1>2, <1>5, <1>8, <2>1, <2>2, <2>3, <2>4, SamePlanSafe DEF Node, loopVars
<1>9. CASE st'.status = "IN_PROGRESS" /\ st'.token = 0 /\ requests[st.token].outcome = "dns"
  <2>1. at' = "interrupt"
    BY <1>6, <1>9 DEF RouteStatusPoller
  <2>2. StageInv'
    BY <1>3, <1>5, <1>9, <2>1, SamePlanFacts DEF StageInv, PastPlanning
  <2>3. PlanningInv'
    BY <1>2, <1>3 DEF PlanningInv, Phase1
  <2>4. \A i \in Requested(st.desired)' : requests'[i].outcome = "dns"
    BY <1>2, <1>3, <1>5, <1>9 DEF Requested, SamePlan
  <2>5. RunningInv'
    BY <1>2, <1>3, <1>5, <1>9, <2>1, <2>4
       DEF ApplyInv, RunningInv, Running, SamePlan, Sanctioned
  <2>6. QED
    BY <1>1, <1>2, <1>5, <1>9, <2>1, <2>2, <2>3, <2>5, SamePlanSafe DEF Node, loopVars
<1>10. QED
  BY <1>5, <1>7, <1>8, <1>9

-----------------------------------------------------------------------------
(* Formatting.                                                              *)

\* What the formatter finds.
LEMMA AtFormatter ==
  ASSUME ApplyInv, at = "result_formatter"
  PROVE  /\ \/ st.status \in Terminal \cup {"QUERY_INTENT"}
            \/ st.status = "PENDING" /\ ~st.preflight /\ Ready(st)
            \/ /\ st.status = "SUCCESS" /\ st.preflight /\ Ready(st) /\ Running
               /\ AtCompanion(st) \/ Exists(st.desired)
         /\ st.mode = "APPLY" /\ phase \in {"phase1", "clarified", "provisioning"}
BY Active DEF ApplyInv, PlanningInv, RunningInv, StageInv, PastPlanning, Terminal,
   Node, Running, Phase1

\* The step ends the invocation with the plan as it is.
LEMMA EndSafe ==
  ASSUME ApplyInv, TypeOK', at = "result_formatter", at' = "END",
         SamePlan(st, st'), st'.preflight = st.preflight, UNCHANGED loopVars,
         requests' = requests, UNCHANGED <<consent, tty>>,
         st'.status = st.status \/ st'.status = "FAILED",
         WholePlans /\ st'.status = "SUCCESS" =>
           \A slot \in (IF st.queue THEN Provisionable ELSE {0}) : Exists(slot)
  PROVE  ApplyInv'
<1>1. StageInv'
  BY DEF StageInv, PastPlanning
<1>2. PlanningInv'
  BY AtFormatter, SamePlanFacts
     DEF ApplyInv, PlanningInv, Phase1, SamePlan, loopVars, Terminal
<1>3. RunningInv'
  BY AtFormatter DEF ApplyInv, RunningInv, Running, SamePlan, Sanctioned, loopVars, Returned
<1>4. QED
  BY <1>1, <1>2, <1>3, SamePlanSafe DEF Node

\* The slot under the cursor is done, and so are all the slots before it.
LEMMA DoneSoFar ==
  ASSUME ApplyInv, at = "result_formatter", st.status = "SUCCESS", CompoundShape(st),
         NEW t \in Provisionable, t <= st.index
  PROVE  Exists(t)
<1>1. st.index \in Int /\ t \in Int
  BY ChannelFacts, QueueAssumption DEF ApplyInv, CompoundShape, Provisionable, Slots
<1>2. CASE t < st.index
  BY <1>2 DEF ApplyInv, RequestInv
<1>3. CASE t = st.index
  BY <1>3, AtFormatter DEF Ready, AtCompanion, Cursor, CompoundShape, Provisionable,
     Terminal
<1>4. QED
  BY <1>1, <1>2, <1>3

\* result_formatter keeps the invariant when it moves on to the next slot.
LEMMA AdvanceSafe ==
  ASSUME ApplyInv, TypeOK', UNCHANGED loopVars, FormatCompoundAdvance
  PROVE  ApplyInv'
<1>1. /\ st \in Channels /\ at = "result_formatter" /\ st.status = "SUCCESS"
      /\ CompoundShape(st) /\ st.index + 1 < N /\ st.index \in Nat /\ N \in Nat
  BY ChannelFacts, QueueAssumption
     DEF ApplyInv, FormatCompoundAdvance, CompoundShape
<1>2. /\ requests' = requests /\ tty' = tty /\ consent' = consent /\ phase' = phase
      /\ st' = NextSlot(st)
  BY DEF FormatCompoundAdvance, Finish, KeepOutside, loopVars
<1>3. Running /\ phase = "provisioning" /\ st.mode = "APPLY" /\ st.preflight
  BY <1>1, AtFormatter DEF Running, Terminal
<1>4. /\ st'.mode = st.mode /\ st'.pattern = st.pattern /\ st'.queue = st.queue
      /\ st'.preflight = st.preflight /\ st'.resumed = st.resumed
      /\ st'.status = "PENDING" /\ st'.index = st.index + 1 /\ st'.desired = None
      /\ st'.completed = Append(st.completed, st.index)
  BY <1>1, <1>2 DEF NextSlot, Channels
<1>5. CompoundShape(st') /\ ContinuesPattern(st')
  <2>1. st.index + 1 # None
    BY <1>1, NoneAssumption
  <2>2. QED
    BY <1>1, <1>4, <2>1 DEF CompoundShape, ContinuesPattern, Cursor
<1>6. at' = "plan_generator"
  BY <1>1, <1>3, <1>4, <1>5 DEF FormatCompoundAdvance, Finish, Goto, RouteResultFormatter
<1>7. ShapeInv'
  <2>1. Len(st.completed) = st.index
    BY <1>1 DEF ApplyInv, ShapeInv
  <2>2. Len(st'.completed) = st'.index
    BY <1>1, <1>4, <2>1 DEF Channels
  <2>3. QED
    BY <1>1, <1>4, <1>5, <2>2 DEF ShapeInv
<1>8. StageInv'
  BY <1>4, <1>5, <1>6 DEF StageInv, PastPlanning
<1>9. PlanningInv'
  BY <1>2, <1>3 DEF PlanningInv, Phase1
<1>10. RunningInv'
  BY <1>2, <1>3, <1>4, <1>5, <1>6 DEF ApplyInv, RunningInv, Running, Sanctioned
<1>11. RequestInv'
  <2>1. \A i \in DOMAIN requests : requests[i].slot < st.index + 1
    BY <1>1, RequestFacts DEF ApplyInv, RequestInv
  <2>2. \A t \in Provisionable : t < st.index + 1 => Exists(t)
    BY <1>1, DoneSoFar DEF Provisionable, Slots
  <2>3. \A i \in DOMAIN requests : requests[i].slot <= st.index + 1
    BY <1>1, <2>1, RequestFacts DEF ApplyInv
  <2>4. QED
    BY <1>2, <1>4, <1>5, <2>1, <2>2, <2>3
       DEF ApplyInv, RequestInv, Sanctioned, Exists, NoDuplicateResource,
           PlannedForItsType, DependencyOrder
<1>12. VerdictInv'
  BY <1>3, <1>6, NoVerdict
<1>13. QED
  BY <1>7, <1>8, <1>9, <1>10, <1>11, <1>12 DEF ApplyInv

\* result_formatter keeps the invariant when the last slot is done.
LEMMA LastSlotSafe ==
  ASSUME ApplyInv, TypeOK', UNCHANGED loopVars, FormatCompoundSuccess
  PROVE  ApplyInv'
<1>1. /\ st \in Channels /\ at = "result_formatter" /\ st.status = "SUCCESS"
      /\ CompoundShape(st) /\ st.index + 1 = N /\ st.index \in Nat /\ N \in Nat
  BY ChannelFacts, QueueAssumption
     DEF ApplyInv, FormatCompoundSuccess, CompoundShape
<1>2. /\ requests' = requests /\ tty' = tty /\ consent' = consent /\ phase' = phase
      /\ st' = [st EXCEPT !.completed = Append(@, st.index)]
  BY DEF FormatCompoundSuccess, Finish, KeepOutside, loopVars
<1>3. Running /\ phase = "provisioning" /\ st.mode = "APPLY"
  BY <1>1, AtFormatter DEF Running, Terminal
<1>4. /\ st'.mode = st.mode /\ st'.pattern = st.pattern /\ st'.queue = st.queue
      /\ st'.preflight = st.preflight /\ st'.resumed = st.resumed
      /\ st'.status = "SUCCESS" /\ st'.index = st.index /\ st'.desired = st.desired
      /\ st'.completed = Append(st.completed, st.index)
  BY <1>1, <1>2 DEF Channels
<1>5. CompoundShape(st')
  BY <1>1, <1>4 DEF CompoundShape
<1>6. at' = "END"
  BY <1>4 DEF FormatCompoundSuccess, Finish, Goto, RouteResultFormatter
<1>7. ShapeInv'
  <2>1. Len(st.completed) = st.index
    BY <1>1 DEF ApplyInv, ShapeInv
  <2>2. Len(st'.completed) = N
    BY <1>1, <1>4, <2>1 DEF Channels
  <2>3. QED
    BY <1>1, <1>4, <1>5, <1>6, <2>2 DEF ApplyInv, ShapeInv
<1>8. StageInv'
  BY <1>6 DEF StageInv, PastPlanning
<1>9. PlanningInv'
  BY <1>2, <1>3 DEF PlanningInv, Phase1
<1>10. RunningInv'
  BY <1>2, <1>3, <1>4, <1>6 DEF ApplyInv, RunningInv, Running, Sanctioned
<1>11. RequestInv'
  BY <1>1, <1>2, <1>4, <1>5, RequestsKept DEF ApplyInv, Sanctioned
<1>12. \A t \in Provisionable : Exists(t)
  <2>1. \A t \in Provisionable : t <= st.index
    BY <1>1 DEF Provisionable, Slots
  <2>2. QED
    BY <1>1, <2>1, DoneSoFar
<1>13. VerdictInv'
  BY <1>1, <1>2, <1>3, <1>4, <1>12
     DEF ApplyInv, VerdictInv, HonestVerdict, Exists, loopVars, CompoundShape, WholePlans
<1>14. QED
  BY <1>7, <1>8, <1>9, <1>10, <1>11, <1>13 DEF ApplyInv

\* result_formatter keeps the invariant, whatever it formats.
LEMMA FormatSafe ==
  ASSUME ApplyInv, TypeOK', UNCHANGED loopVars, ResultFormatter
  PROVE  ApplyInv'
<1>1. st \in Channels /\ at = "result_formatter"
  BY ChannelFacts DEF ApplyInv, ResultFormatter, FormatCompoundAdvance,
     FormatCompoundSuccess, FormatOutOfBounds, FormatEnd, FormatPlan
<1>2. CASE FormatCompoundAdvance
  BY <1>2, AdvanceSafe
<1>3. CASE FormatCompoundSuccess
  BY <1>3, LastSlotSafe
<1>4. CASE FormatOutOfBounds
  BY <1>4 DEF FormatOutOfBounds, ApplyInv, ShapeInv
<1>5. CASE FormatEnd
  <2>1. st' = st /\ requests' = requests /\ consent' = consent /\ tty' = tty
    BY <1>5 DEF FormatEnd, Finish, KeepOutside
  <2>2. at' = "END"
    BY <1>5 DEF FormatEnd, Finish, Goto, RouteResultFormatter, Terminal
  <2>3. SamePlan(st, st')
    BY <2>1 DEF SamePlan
  <2>4. CASE st.status # "SUCCESS" \/ ~WholePlans
    BY <1>1, <2>1, <2>2, <2>3, <2>4, EndSafe
  <2>5. CASE st.status = "SUCCESS" /\ WholePlans
    <3>1. ~CompoundShape(st) /\ st.desired = 0 /\ ~st.queue
      BY <1>1, <1>5, <2>5, AtFormatter
         DEF FormatEnd, Ready, Terminal, ApplyInv, ShapeInv
    <3>2. Exists(0)
      BY <1>1, <2>5, <3>1, AtFormatter DEF AtCompanion, Terminal
    <3>3. QED
      BY <1>1, <2>1, <2>2, <2>3, <3>1, <3>2, EndSafe
  <2>6. QED
    BY <2>4, <2>5
<1>6. CASE FormatPlan
  <2>1. st.status = "PENDING" /\ ~st.preflight /\ st.mode = "APPLY" /\ Ready(st)
    BY <1>1, <1>6, AtFormatter DEF FormatPlan, Terminal
  <2>2. PlanAdvanced(st) = st
    BY <2>1 DEF PlanAdvanced
  <2>3. /\ requests' = requests /\ consent' = consent /\ tty' = tty
        /\ st' \in {st, PlanFixed(st)} /\ at' \in {RouteResultFormatter(st'), "interrupt"}
        /\ Goto(RouteResultFormatter(st'))
    BY <1>6, <2>2 DEF FormatPlan, Finish, KeepOutside, Goto
  <2>4. SamePlan(st, st') /\ st'.preflight = st.preflight /\ st'.status = st.status
    <3>1. PlanFixed(st) = [st EXCEPT
            !.desired = IF st.desired = None THEN @ ELSE st.desired, !.fixed = TRUE]
      BY <2>2 DEF PlanFixed
    <3>2. CASE st' = st
      BY <3>2 DEF SamePlan
    <3>3. CASE st' = PlanFixed(st)
      BY <1>1, <3>1, <3>3 DEF SamePlan, Channels
    <3>4. QED
      BY <2>3, <3>2, <3>3
  <2>5. at' = "END"
    BY <2>1, <2>3, <2>4 DEF RouteResultFormatter, Goto
  <2>6. QED
    BY <1>1, <2>1, <2>3, <2>4, <2>5, EndSafe
<1>7. QED
  BY <1>2, <1>3, <1>4, <1>5, <1>6 DEF ResultFormatter

-----------------------------------------------------------------------------
(* The command.                                                             *)

\* The outcomes of evaluating a checkpoint again.
LEMMA RevaluationFacts ==
  ASSUME NEW r \in Revaluation
  PROVE  r.preflight \in BOOLEAN /\ r.status \in {"PENDING", "FAILED", "undefined"}
<1>1. CASE r = [preflight |-> TRUE, status |-> "PENDING"]
  BY <1>1
<1>2. CASE r = [preflight |-> FALSE, status |-> "PENDING"]
  BY <1>2
<1>3. CASE r = [preflight |-> FALSE, status |-> "FAILED"]
  BY <1>3
<1>4. CASE r = [preflight |-> TRUE, status |-> "undefined"]
  BY <1>4
<1>5. QED
  BY <1>1, <1>2, <1>3, <1>4 DEF Revaluation

\* The first invocation keeps the invariant, from an intent or a checkpoint.
LEMMA StartSafe ==
  ASSUME ApplyInv, TypeOK', StartFresh \/ StartCheckpoint
  PROVE  ApplyInv'
<1>1. /\ phase = "start" /\ st = NewThread /\ requests = <<>>
      /\ requests' = requests /\ tty' = tty /\ consent' = consent
      /\ phase' = "phase1" /\ verdict' = verdict /\ at' = RouteCheckpointEntry(st')
  BY DEF StartFresh, StartCheckpoint, Begin, Invoke, ApplyInv, PlanningInv
<1>2. /\ st'.mode = "APPLY" /\ st'.index = None /\ st'.completed = <<>>
      /\ ~st'.pattern
  <2>1. CASE StartFresh
    BY <2>1 DEF StartFresh, Begin, Invoke, FreshInput, NewThread
  <2>2. CASE StartCheckpoint
    <3>1. PICK origin \in Origins \ {"intent"}, yes \in BOOLEAN, r \in Revaluation :
            st' = CheckpointInput(yes, origin = "pattern_plan", r)
      BY <2>2 DEF StartCheckpoint, Begin, Invoke
    <3>2. QED
      BY <3>1 DEF CheckpointInput, NewThread
  <2>3. QED
    BY <2>1, <2>2
<1>3. ShapeInv' /\ StageInv' /\ st'.status \notin {"IN_PROGRESS", "SUCCESS"}
      /\ at' \in {"human_approval", "intent_parser"}
  <2>1. CASE StartFresh
    <3>1. /\ st'.status = "PENDING" /\ ~st'.queue /\ st'.desired = None /\ ~st'.resumed
      BY <2>1 DEF StartFresh, Begin, Invoke, FreshInput, NewThread
    <3>2. at' = "intent_parser"
      BY <1>1, <3>1 DEF RouteCheckpointEntry
    <3>3. QED
      BY <1>2, <3>1, <3>2 DEF ShapeInv, StageInv, CompoundShape, Unplanned, PastPlanning
  <2>2. CASE StartCheckpoint
    <3>1. PICK origin \in Origins \ {"intent"}, yes \in BOOLEAN, r \in Revaluation :
            st' = CheckpointInput(yes, origin = "pattern_plan", r)
      BY <2>2 DEF StartCheckpoint, Begin, Invoke
    <3>2. /\ st'.status = r.status /\ st'.resumed
          /\ st'.type = st'.desired /\ st'.desired # None
          /\ WholePlans => st'.desired = 0 /\ ~st'.queue
      <4>1. /\ st'.status = r.status /\ st'.resumed /\ st'.type = st'.desired
            /\ st'.queue = (origin = "pattern_plan")
            /\ st'.desired = IF origin = "pattern_plan" THEN N - 1 ELSE 0
        BY <3>1 DEF CheckpointInput, NewThread
      <4>2. N - 1 # None /\ 0 # None
        BY NoneAssumption, QueueAssumption
      <4>3. QED
        BY <3>1, <4>1, <4>2 DEF WholePlans
    <3>3. r.status \in {"PENDING", "FAILED", "undefined"}
      BY RevaluationFacts
    <3>4. at' = IF r.status = "FAILED" THEN "intent_parser" ELSE "human_approval"
      BY <1>1, <3>2, <3>3 DEF RouteCheckpointEntry, Terminal
    <3>5. ShapeInv'
      BY <1>2, <3>2 DEF ShapeInv, CompoundShape
    <3>6. StageInv'
      BY <1>2, <3>2, <3>3, <3>4 DEF StageInv, CompoundShape, PastPlanning, Ready
    <3>7. QED
      BY <3>2, <3>3, <3>4, <3>5, <3>6
  <2>3. QED
    BY <2>1, <2>2
<1>4. PlanningInv'
  BY <1>1, <1>2, <1>3 DEF PlanningInv, Phase1
<1>5. RunningInv'
  BY <1>1 DEF RunningInv, Running
<1>6. RequestInv'
  BY <1>1, <1>2, NothingRequested, QueueAssumption
<1>7. VerdictInv'
  BY <1>1, <1>3 DEF ApplyInv, VerdictInv, HonestVerdict, WholePlans
<1>8. QED
  BY <1>3, <1>4, <1>5, <1>6, <1>7 DEF ApplyInv

\* The clarifier's second invocation keeps the invariant.
LEMMA ClarifySafe ==
  ASSUME ApplyInv, TypeOK', Clarify
  PROVE  ApplyInv'
<1>1. /\ phase = "phase1" /\ requests = <<>> /\ st \in Channels
      /\ requests' = requests /\ tty' = tty /\ consent' = consent
      /\ phase' = "clarified" /\ verdict' = verdict /\ verdict = "none"
      /\ at' = RouteCheckpointEntry(st')
  BY ChannelFacts DEF Clarify, Begin, Invoke, ApplyInv, PlanningInv, Phase1, VerdictInv
<1>2. /\ st.status \in {"FAILED", "UNSUPPORTED_RESOURCE"} /\ st.index = None
  BY <1>1 DEF Clarify, Clarifiable, ApplyInv, PlanningInv, Phase1
<1>3. SamePlan([st EXCEPT !.mode = "APPLY"], st') /\ st'.status = st.status
      /\ st'.mode = "APPLY" /\ st'.type = st.type
  BY <1>1 DEF Clarify, Begin, Invoke, FreshInput, SamePlan, Channels
<1>4. /\ st'.index = None /\ st'.completed = st.completed /\ st'.queue = st.queue
  BY <1>1, <1>2, <1>3 DEF SamePlan, Channels
<1>5. at' = "intent_parser"
  BY <1>1, <1>2, <1>3 DEF RouteCheckpointEntry, Terminal
<1>6. ShapeInv'
  BY <1>2, <1>4 DEF ApplyInv, ShapeInv, CompoundShape, WholePlans
<1>7. StageInv'
  BY <1>2, <1>3, <1>4, <1>5 DEF StageInv, PastPlanning
<1>8. PlanningInv'
  BY <1>1, <1>2, <1>3, <1>4, <1>5 DEF PlanningInv, Phase1
<1>9. RunningInv'
  BY <1>1 DEF RunningInv, Running
<1>10. RequestInv'
  BY <1>1, <1>4, NothingRequested, QueueAssumption
<1>11. VerdictInv'
  BY <1>1, <1>5 DEF ApplyInv, VerdictInv, HonestVerdict, WholePlans
<1>12. QED
  BY <1>6, <1>7, <1>8, <1>9, <1>10, <1>11 DEF ApplyInv

\* The invocation after interactive fixes keeps the invariant.
LEMMA FixSafe ==
  ASSUME ApplyInv, TypeOK', FixAndContinue
  PROVE  ApplyInv'
<1>1. /\ phase \in {"phase1", "clarified"} /\ requests = <<>> /\ st \in Channels
      /\ requests' = requests /\ tty' = tty /\ consent' = consent
      /\ phase' = "continued" /\ verdict' = verdict /\ verdict = "none"
      /\ at' = RouteCheckpointEntry(st')
  BY ChannelFacts DEF FixAndContinue, Begin, Invoke, ApplyInv, PlanningInv, Phase1, VerdictInv
<1>2. st.status = "PENDING" /\ ~st.preflight /\ at \in {"END", "interrupt"}
  BY DEF FixAndContinue, Blocked, Returned
<1>3. Ready(st)
  BY <1>1, <1>2 DEF ApplyInv, PlanningInv, StageInv, PastPlanning, Phase1, Terminal
<1>4. /\ st'.status = "PENDING" /\ st'.preflight /\ st'.resumed /\ st'.mode = st.mode
      /\ st'.pattern = st.pattern /\ st'.queue = st.queue /\ st'.index = st.index
      /\ st'.completed = st.completed /\ st'.type = st.type /\ st'.desired = st.desired
  BY <1>1, <1>2 DEF FixAndContinue, Begin, Invoke, Channels
<1>5. at' = "human_approval"
  BY <1>1, <1>3, <1>4 DEF RouteCheckpointEntry, Terminal, Ready
<1>6. CompoundShape(st') = CompoundShape(st)
  BY <1>4 DEF CompoundShape
<1>7. Ready(st')
  BY <1>3, <1>4, <1>6 DEF Ready
<1>8. ShapeInv'
  BY <1>2, <1>4, <1>6 DEF ApplyInv, ShapeInv, WholePlans
<1>9. StageInv'
  BY <1>4, <1>5, <1>7 DEF StageInv, PastPlanning
<1>10. PlanningInv'
  BY <1>1, <1>4, <1>5 DEF ApplyInv, PlanningInv, Phase1
<1>11. RunningInv'
  BY <1>1 DEF RunningInv, Running
<1>12. RequestInv'
  BY <1>1, <1>4, NothingRequested, QueueAssumption DEF ApplyInv, PlanningInv, Phase1
<1>13. VerdictInv'
  BY <1>1, <1>5 DEF ApplyInv, VerdictInv, HonestVerdict, WholePlans
<1>14. QED
  BY <1>8, <1>9, <1>10, <1>11, <1>12, <1>13 DEF ApplyInv

\* A step of the command that leaves the graph alone keeps what is known of it.
LEMMA GraphAlone ==
  ASSUME ApplyInv, UNCHANGED graphVars
  PROVE  ShapeInv' /\ StageInv' /\ RequestInv'
<1>1. st' = st /\ at' = at /\ requests' = requests /\ consent' = consent /\ tty' = tty
  BY DEF graphVars
<1>2. ShapeInv'
  BY <1>1 DEF ApplyInv, ShapeInv, WholePlans
<1>3. StageInv'
  BY <1>1 DEF ApplyInv, StageInv, Exists
<1>4. RequestInv'
  BY <1>1, RequestsKept DEF ApplyInv, Sanctioned
<1>5. QED
  BY <1>2, <1>3, <1>4

\* A report on an ended or interrupted thread.
LEMMA ReportSafe ==
  ASSUME ApplyInv, TypeOK', UNCHANGED graphVars, NEW v, Report(v), Returned,
         WholePlans /\ v = "ok" =>
           IF st.status \in {"CANCELLED", "QUERY_INTENT"}
             THEN requests = <<>>
             ELSE \A slot \in (IF st.queue THEN Provisionable ELSE {0}) : Exists(slot)
  PROVE  ApplyInv'
<1>1. st' = st /\ at' = at /\ requests' = requests /\ phase' = "reported" /\ verdict' = v
  BY DEF graphVars, Report
<1>2. PlanningInv'
  BY <1>1 DEF PlanningInv, Phase1
<1>3. RunningInv'
  BY <1>1 DEF RunningInv, Running, Returned
<1>4. VerdictInv'
  BY <1>1 DEF ApplyInv, VerdictInv, HonestVerdict, Exists, WholePlans, Provisionable
<1>5. QED
  BY <1>2, <1>3, <1>4, GraphAlone DEF ApplyInv

\* The rest of the gate keeps the invariant: it reports, or goes on to phase 2.
LEMMA GateSafe ==
  ASSUME ApplyInv, TypeOK', GateSettled \/ GateFailed \/ Proceed \/ GateRefuses
  PROVE  ApplyInv'
<1>1. UNCHANGED graphVars /\ Returned
  BY DEF GateSettled, GateFailed, Proceed, GateRefuses, Cleared
<1>2. phase \in Phase1 /\ requests = <<>>
  BY DEF GateSettled, GateFailed, Proceed, GateRefuses, Cleared, ApplyInv, PlanningInv, Phase1
<1>3. CASE GateSettled
  <2>1. st.status \in {"CANCELLED", "QUERY_INTENT"} /\ Report("ok")
    BY <1>3 DEF GateSettled
  <2>2. QED
    BY <1>1, <1>2, <2>1, ReportSafe
<1>4. CASE GateFailed \/ GateRefuses
  <2>1. Report("failed")
    BY <1>4 DEF GateFailed, GateRefuses
  <2>2. QED
    BY <1>1, <2>1, ReportSafe
<1>5. CASE Proceed
  <2>1. st' = st /\ at' = at /\ requests' = requests /\ tty' = tty /\ consent' = consent
        /\ phase' = "loop" /\ verdict' = verdict
    BY <1>5 DEF Proceed, EnterLoop, graphVars
  <2>2. st.status = "PENDING" /\ st.mode = "APPLY" /\ Cleared
    BY <1>2, <1>5 DEF Proceed, ApplyInv, PlanningInv
  <2>3. at = "interrupt" /\ st.preflight /\ Sanctioned
    BY <1>1, <1>2, <2>2 DEF Cleared, Blocked, Returned, ApplyInv, PlanningInv, Phase1, Terminal
  <2>4. PlanningInv'
    BY <2>1 DEF PlanningInv, Phase1
  <2>5. RunningInv'
    BY <2>1, <2>2, <2>3 DEF RunningInv, Running, Sanctioned
  <2>6. VerdictInv'
    BY <1>2, <2>1, <2>2 DEF ApplyInv, VerdictInv, HonestVerdict, Exists, WholePlans, Phase1
  <2>7. QED
    BY <1>1, <2>4, <2>5, <2>6, GraphAlone DEF ApplyInv
<1>6. QED
  BY <1>3, <1>4, <1>5

\* The provisioning loop keeps the invariant.
LEMMA LoopSafe ==
  ASSUME ApplyInv, TypeOK', Loop
  PROVE  ApplyInv'
<1>1. CASE LoopTurn
  <2>1. /\ phase = "loop" /\ at = "interrupt" /\ Running
    BY <1>1 DEF LoopTurn, ApplyInv, RunningInv, Running
  <2>2. /\ st' = st /\ requests' = requests /\ tty' = tty /\ consent' = consent
        /\ at' = "resource_provisioner" /\ phase' = "provisioning" /\ verdict' = verdict
    BY <1>1, <2>1 DEF LoopTurn, InvokeNull
  <2>3. SamePlan(st, st')
    BY <2>2 DEF SamePlan
  <2>4. ShapeInv'
    BY <2>1, <2>2 DEF ApplyInv, ShapeInv
  <2>5. StageInv'
    BY <2>1, <2>2 DEF ApplyInv, StageInv, PastPlanning
  <2>6. PlanningInv'
    BY <2>2 DEF PlanningInv, Phase1
  <2>7. RunningInv'
    BY <2>1, <2>2 DEF ApplyInv, RunningInv, Running, Sanctioned, Requested
  <2>8. RequestInv'
    BY <2>2, RequestsKept DEF ApplyInv, Sanctioned
  <2>9. VerdictInv'
    BY <2>1, <2>2 DEF ApplyInv, VerdictInv, HonestVerdict, WholePlans
  <2>10. QED
    BY <2>4, <2>5, <2>6, <2>7, <2>8, <2>9 DEF ApplyInv
<1>2. CASE LoopBreak
  <2>1. phase = "loop" /\ at = "interrupt" /\ UNCHANGED graphVars /\ Report(LoopVerdict(st))
    BY <1>2 DEF LoopBreak, ApplyInv, RunningInv
  <2>2. st.status # "SUCCESS"
    BY <2>1 DEF ApplyInv, RunningInv, Running
  <2>3. Len(st.completed) # N
    <3>1. CompoundShape(st) => st.index # N /\ Len(st.completed) = st.index
      BY <2>1 DEF ApplyInv, ShapeInv
    <3>2. ~CompoundShape(st) => Len(st.completed) = 0
      BY DEF ApplyInv, ShapeInv
    <3>3. QED
      BY <3>1, <3>2, QueueAssumption
  <2>4. LoopVerdict(st) = "failed"
    BY <2>2, <2>3 DEF LoopVerdict, LoopSuccess
  <2>5. QED
    BY <2>1, <2>4, ReportSafe DEF Returned
<1>3. CASE LoopReturn /\ at = "interrupt"
  <2>1. UNCHANGED graphVars /\ phase = "provisioning" /\ phase' = "loop" /\ verdict' = verdict
    BY <1>3 DEF LoopReturn
  <2>2. PlanningInv'
    BY <2>1 DEF PlanningInv, Phase1
  <2>3. RunningInv'
    BY <1>3, <2>1 DEF ApplyInv, RunningInv, Running, Sanctioned, Requested, graphVars
  <2>4. VerdictInv'
    BY <1>3, <2>1 DEF ApplyInv, VerdictInv, HonestVerdict, WholePlans, graphVars
  <2>5. QED
    BY <2>1, <2>2, <2>3, <2>4, GraphAlone DEF ApplyInv
<1>4. CASE LoopReturn /\ at = "END"
  <2>1. UNCHANGED graphVars /\ phase = "provisioning" /\ Report(LoopVerdict(st))
    BY <1>4 DEF LoopReturn
  <2>2. ASSUME LoopVerdict(st) = "ok"
        PROVE  st.status = "SUCCESS"
    <3>1. st.status = "SUCCESS" \/ Len(st.completed) = N
      BY <2>2 DEF LoopVerdict, LoopSuccess
    <3>2. CompoundShape(st) =>
            st.index # N /\ (Len(st.completed) = st.index \/ st.status = "SUCCESS")
      BY DEF ApplyInv, ShapeInv
    <3>3. ~CompoundShape(st) => Len(st.completed) = 0
      BY DEF ApplyInv, ShapeInv
    <3>4. QED
      BY <3>1, <3>2, <3>3, QueueAssumption
  <2>3. QED
    BY <1>4, <2>1, <2>2, ReportSafe DEF Returned, ApplyInv, VerdictInv
<1>5. QED
  BY <1>1, <1>2, <1>3, <1>4 DEF Loop, LoopReturn, Returned

-----------------------------------------------------------------------------
(* The cloud, and the invariant as a whole.                                 *)

\* A create request that is settled keeps the invariant.
LEMMA WorldSafe ==
  ASSUME ApplyInv, TypeOK', CloudControl, UNCHANGED loopVars
  PROVE  ApplyInv'
<1>1. PICK i \in DOMAIN requests, outcome \in {"ok", "failed", "dns"} :
        Settle(i, outcome)
  BY DEF CloudControl
<1>2. /\ st' = st /\ at' = at /\ consent' = consent /\ tty' = tty
      /\ phase' = phase /\ verdict' = verdict /\ requests[i].outcome = "pending"
      /\ requests' = [requests EXCEPT ![i].outcome = outcome]
  BY <1>1 DEF Settle, loopVars
<1>3. requests \in Seq(Request) /\ requests' \in Seq(Request)
  BY DEF ApplyInv, TypeOK, GraphTypeOK, ThreadTypeOK
<1>4. /\ DOMAIN requests' = DOMAIN requests /\ Len(requests') = Len(requests)
      /\ (requests = <<>>) = (requests' = <<>>)
      /\ DOMAIN requests = 1..Len(requests)
  BY <1>2, <1>3
<1>5. \A j \in DOMAIN requests :
        /\ requests'[j].slot = requests[j].slot /\ requests'[j].type = requests[j].type
        /\ requests[j].outcome # "pending" => requests'[j].outcome = requests[j].outcome
  <2>1. \A j \in DOMAIN requests : requests[j] \in Request
    BY <1>3
  <2>2. QED
    BY <1>2, <2>1 DEF Request
<1>6. \A t : Exists(t) => Exists(t)'
  BY <1>4, <1>5 DEF Exists
<1>7. ShapeInv'
  BY <1>2 DEF ApplyInv, ShapeInv, WholePlans
<1>8. StageInv'
  BY <1>2, <1>6 DEF ApplyInv, StageInv
<1>9. PlanningInv'
  BY <1>2, <1>4 DEF ApplyInv, PlanningInv, Sanctioned
<1>10. RunningInv'
  BY <1>2, <1>4, <1>5 DEF ApplyInv, RunningInv, Running, Sanctioned, Requested, Returned
<1>11. RequestInv'
  <2>1. NoDuplicateResource'
    BY <1>4, <1>5 DEF ApplyInv, RequestInv, NoDuplicateResource
  <2>2. PlannedForItsType'
    BY <1>4, <1>5 DEF ApplyInv, RequestInv, PlannedForItsType
  <2>3. WholePlans => DependencyOrder' /\ \A j \in DOMAIN requests' :
                                            requests'[j].slot \in Provisionable
    <3>1. WholePlans => DependencyOrder'
      BY <1>3, <1>4, <1>5 DEF ApplyInv, RequestInv, DependencyOrder
    <3>2. WholePlans => \A j \in DOMAIN requests' : requests'[j].slot \in Provisionable
      BY <1>4, <1>5 DEF ApplyInv, RequestInv
    <3>3. QED
      BY <3>1, <3>2
  <2>4. QED
    BY <1>2, <1>4, <1>5, <1>6, <2>1, <2>2, <2>3 DEF ApplyInv, RequestInv, Sanctioned
<1>12. VerdictInv'
  BY <1>2, <1>4, <1>6 DEF ApplyInv, VerdictInv, HonestVerdict
<1>13. QED
  BY <1>7, <1>8, <1>9, <1>10, <1>11, <1>12 DEF ApplyInv

\* A step that changes nothing keeps the invariant.
LEMMA StutterSafe ==
  ASSUME ApplyInv, TypeOK', UNCHANGED vars
  PROVE  ApplyInv'
<1>1. UNCHANGED graphVars /\ UNCHANGED loopVars
  BY DEF vars, graphVars, loopVars
<1>2. PlanningInv' /\ RunningInv' /\ VerdictInv'
  BY DEF vars, graphVars, loopVars, ApplyInv, PlanningInv, RunningInv, VerdictInv, Running,
     Sanctioned, Requested, Returned, HonestVerdict, Exists, WholePlans, Provisionable
<1>3. QED
  BY <1>1, <1>2, GraphAlone DEF ApplyInv

\* Every step, of the graph, the command or the cloud, keeps the invariant.
LEMMA ApplyInductive == ApplyInv /\ [Next]_vars => ApplyInv'
<1> SUFFICES ASSUME ApplyInv, [Next]_vars
             PROVE  ApplyInv'
  OBVIOUS
<1>1. TypeOK'
  BY TypeStep DEF ApplyInv
<1>2. CASE Command
  BY <1>1, <1>2, StartSafe, ClarifySafe, FixSafe, GateSafe, LoopSafe DEF Command, Gate
<1>3. CASE Graph
  BY <1>1, <1>3, IntentSafe, DispatcherSafe, PlanGeneratorSafe, ValidateSafe,
     PreflightSafe, ApprovalSafe, NoCallSafe, CreateSafe, PollSafe, FormatSafe
     DEF Graph, GraphStep, ResourceProvisioner
<1>4. CASE World
  BY <1>1, <1>4, WorldSafe DEF World
<1>5. CASE UNCHANGED vars
  BY <1>1, <1>5, StutterSafe
<1>6. QED
  BY <1>2, <1>3, <1>4, <1>5 DEF Next

\* The invariant holds before the command has begun.
LEMMA ApplyInitially == Init => ApplyInv
<1> SUFFICES ASSUME Init
             PROVE  ApplyInv
  OBVIOUS
<1>1. TypeOK
  BY InitType
<1>2. QED
  BY <1>1, NoneAssumption, QueueAssumption
     DEF Init, ApplyInv, ShapeInv, StageInv, PlanningInv, RunningInv, RequestInv,
         VerdictInv, NewThread, CompoundShape, PastPlanning, Phase1, Running,
         NoDuplicateResource, PlannedForItsType, DependencyOrder, HonestVerdict, WholePlans

\* The invariant of the apply command, for every origin of the run.
THEOREM ApplyInvariant == Spec => []ApplyInv
BY ApplyInitially, ApplyInductive, PTL DEF Spec

\* There are never two resources for a slot: it is sent a second time only when
\* AWS has said that the first request came to nothing.
THEOREM ApplyNeverDuplicates == Spec => []NoDuplicateResource
<1>1. ApplyInv => NoDuplicateResource
  BY DEF ApplyInv, RequestInv
<1>2. QED
  BY <1>1, ApplyInvariant, PTL

\* Whatever the origin of the run and however it was interrupted, nothing is
\* created without the operator's sanction.
THEOREM ApplyIsAttended == Spec => []NothingUnattended
<1>1. ApplyInv => NothingUnattended
  BY DEF ApplyInv, RequestInv, NothingUnattended
<1>2. QED
  BY <1>1, ApplyInvariant, PTL

\* Every request carries the desired state that was planned for its type.
THEOREM ApplyCreatesAsPlanned == Spec => []PlannedForItsType
<1>1. ApplyInv => PlannedForItsType
  BY DEF ApplyInv, RequestInv
<1>2. QED
  BY <1>1, ApplyInvariant, PTL

\* A run that has all of its plan creates its slots in dependency order.
THEOREM ApplyInOrder ==
  ASSUME WholePlans
  PROVE  Spec => []DependencyOrder
<1>1. ApplyInv => DependencyOrder
  BY WholePlans DEF ApplyInv, RequestInv
<1>2. QED
  BY <1>1, ApplyInvariant, PTL

\* A run that has all of its plan reports success only when everything in the
\* plan exists.
THEOREM ApplyReportsHonestly ==
  ASSUME WholePlans
  PROVE  Spec => []HonestVerdict
<1>1. ApplyInv => HonestVerdict
  BY WholePlans DEF ApplyInv, VerdictInv
<1>2. QED
  BY <1>1, ApplyInvariant, PTL

-----------------------------------------------------------------------------
(* Steps.                                                                   *)

Creates == LoseAnswer \/ CreateDirect \/ CreateAsync

\* Only the provisioner and CloudControl touch the requests, and the operator's
\* sanction is never taken back.
LEMMA StepKinds ==
  ASSUME ApplyInv, [Next]_vars
  PROVE  \/ Creates
         \/ CloudControl
         \/ requests' = requests /\ (Sanctioned => Sanctioned')
<1>1. CASE UNCHANGED vars
  BY <1>1 DEF vars, graphVars, Sanctioned
<1>2. CASE Graph
  <2>1. st \in Channels
    BY ChannelFacts DEF ApplyInv
  <2>2. CASE IntentUnderstood \/ IntentRejected \/ QueryHandler \/ SchemaFetcher
             \/ CompoundDispatcher
    BY <2>1, <2>2 DEF IntentUnderstood, IntentRejected, QueryHandler, SchemaFetcher,
       CompoundDispatcher, Return, KeepOutside, Understood, With, Sanctioned, Channels
  <2>3. CASE PlanGenerator \/ ValidateDesiredState \/ PreflightGuard
    BY <2>1, <2>3 DEF PlanGenerator, ValidateDesiredState, PreflightGuard, Return,
       KeepOutside, CompoundPlans, SinglePlans, With, Sanctioned, Channels
  <2>4. CASE HumanApproval
    BY <2>1, <2>4, ChannelFacts DEF HumanApproval, With, Sanctioned, Channels, ApplyInv
  <2>5. CASE SkipProvision \/ RefuseProvision
    BY <2>1, <2>5 DEF SkipProvision, RefuseProvision, KeepOutside, With, Sanctioned,
       Channels
  <2>6. CASE StatusPoller
    <3>1. requests' = requests /\ consent' = consent /\ tty' = tty
      BY <2>6 DEF StatusPoller, PollFails, PollThrottled, PollAnswered, Return, KeepOutside
    <3>2. QED
      BY <2>6, <3>1, Polled DEF SamePlan, Sanctioned
  <2>7. CASE ResultFormatter
    <3>1. requests' = requests /\ consent' = consent /\ tty' = tty
      BY <2>7 DEF ResultFormatter, FormatCompoundAdvance, FormatCompoundSuccess,
         FormatOutOfBounds, FormatEnd, FormatPlan, KeepOutside
    <3>2. st'.resumed = st.resumed
      BY <2>1, <2>7 DEF ResultFormatter, FormatCompoundAdvance, FormatCompoundSuccess,
         FormatOutOfBounds, FormatEnd, FormatPlan, Finish, NextSlot, PlanAdvanced,
         PlanFixed, With, Channels
    <3>3. QED
      BY <3>1, <3>2 DEF Sanctioned
  <2>8. QED
    BY <1>2, <2>2, <2>3, <2>4, <2>5, <2>6, <2>7
       DEF Graph, GraphStep, ResourceProvisioner, Creates
<1>3. CASE Command
  <2>1. st \in Channels
    BY ChannelFacts DEF ApplyInv
  <2>2. CASE StartFresh \/ StartCheckpoint
    <3>1. requests' = requests /\ consent' = consent /\ tty' = tty /\ phase = "start"
      BY <2>2 DEF StartFresh, StartCheckpoint, Begin
    <3>2. ~st.resumed
      BY <3>1 DEF ApplyInv, PlanningInv, NewThread
    <3>3. QED
      BY <3>1, <3>2 DEF Sanctioned
  <2>3. CASE Clarify \/ FixAndContinue
    BY <2>1, <2>3 DEF Clarify, FixAndContinue, Begin, Invoke, FreshInput, Sanctioned, Channels
  <2>4. CASE GateSettled \/ GateFailed \/ Proceed \/ GateRefuses \/ Loop
    BY <2>4 DEF GateSettled, GateFailed, Proceed, GateRefuses, Loop, LoopTurn, LoopBreak,
       LoopReturn, InvokeNull, Sanctioned, graphVars
  <2>5. QED
    BY <1>3, <2>2, <2>3, <2>4 DEF Command, Gate
<1>4. QED
  BY <1>1, <1>2, <1>3 DEF Next, World

\* Nothing is created from a plan that failed, was cancelled or is blocked.
THEOREM ApplyUsesSoundPlans == Spec => OnlySoundPlans
<1>1. ASSUME ApplyInv, [Next]_vars
      PROVE  [Len(requests') > Len(requests) =>
                st.status \in {"PENDING", "IN_PROGRESS"} /\ st.preflight]_graphVars
  <2>1. CASE Creates
    <3>1. at = "resource_provisioner"
      BY <2>1 DEF Creates, LoseAnswer, CreateDirect, CreateAsync
    <3>2. QED
      BY <1>1, <3>1, AtProvisioner
  <2>2. CASE ~Creates
    <3>1. Len(requests') = Len(requests) /\ Len(requests) \in Nat
      BY <1>1, <2>2, StepKinds, ChannelFacts DEF ApplyInv, CloudControl, Settle
    <3>2. QED
      BY <3>1
  <2>3. QED
    BY <2>1, <2>2
<1>2. QED
  BY <1>1, ApplyInvariant, PTL DEF Spec, OnlySoundPlans

-----------------------------------------------------------------------------
(* The throttling budget.                                                   *)

\* Throttled polls are counted only in phase 2, from the poller on, and a slot
\* whose creation is under way with some of them has been requested.
BudgetInv ==
  st.throttle # 0 =>
    /\ phase \notin {"start"} \cup Phase1
    /\ at \in {"interrupt", "resource_provisioner", "status_poller",
               "result_formatter", "END"}
    /\ st.status \in {"IN_PROGRESS", "SUCCESS", "FAILED"}
    /\ st.status = "IN_PROGRESS" =>
         \E i \in DOMAIN requests : requests[i].slot = st.desired

\* The nodes before the interrupt do not count.
LEMMA PlanningKeepsBudget ==
  ASSUME ApplyInv, BudgetInv,
         \/ IntentUnderstood \/ IntentRejected \/ QueryHandler \/ SchemaFetcher
         \/ CompoundDispatcher \/ PlanGenerator \/ ValidateDesiredState
         \/ PreflightGuard \/ HumanApproval
  PROVE  BudgetInv'
<1>1. st \in Channels
  BY ChannelFacts DEF ApplyInv
<1>2. st'.throttle = st.throttle
  <2>1. CASE IntentUnderstood \/ IntentRejected \/ QueryHandler \/ SchemaFetcher
    BY <1>1, <2>1 DEF IntentUnderstood, IntentRejected, QueryHandler, SchemaFetcher,
       Return, Understood, With, Channels
  <2>2. CASE CompoundDispatcher
    BY <1>1, <2>2 DEF CompoundDispatcher, Return, Channels
  <2>3. CASE PlanGenerator
    BY <1>1, <2>3 DEF PlanGenerator, Return, CompoundPlans, SinglePlans, With, Channels
  <2>4. CASE ValidateDesiredState \/ PreflightGuard
    BY <1>1, <2>4 DEF ValidateDesiredState, PreflightGuard, Return, With, Channels
  <2>5. CASE HumanApproval
    BY <1>1, <2>5 DEF HumanApproval, With, Channels
  <2>6. QED
    BY <2>1, <2>2, <2>3, <2>4, <2>5
<1>3. at \in {"intent_parser", "query_handler", "schema_fetcher", "compound_dispatcher",
              "plan_generator", "validate_desired_state", "preflight_guard",
              "human_approval"}
  BY DEF IntentUnderstood, IntentRejected, QueryHandler, SchemaFetcher,
     CompoundDispatcher, PlanGenerator, ValidateDesiredState, PreflightGuard,
     HumanApproval, Return
<1>4. QED
  BY <1>2, <1>3 DEF BudgetInv

\* resource_provisioner goes on with a slot only when it has requested it.
LEMMA ProvisionerKeepsBudget ==
  ASSUME ApplyInv, BudgetInv, ResourceProvisioner, UNCHANGED loopVars
  PROVE  BudgetInv'
<1>1. st \in Channels /\ requests \in Seq(Request) /\ at = "resource_provisioner"
  BY ChannelFacts DEF ApplyInv, ResourceProvisioner, SkipProvision, RefuseProvision,
     LoseAnswer, CreateDirect, CreateAsync
<1>2. phase' = phase /\ phase \notin {"start"} \cup Phase1
  BY <1>1, AtProvisioner DEF loopVars, Phase1
<1>3. CASE SkipProvision \/ RefuseProvision \/ LoseAnswer \/ CreateDirect
  <2>1. st'.status \in {"SUCCESS", "FAILED"}
    BY <1>1, <1>3, AtProvisioner DEF SkipProvision, RefuseProvision, LoseAnswer,
       CreateDirect, With, Channels, Provisions
  <2>2. at' = "result_formatter"
    BY <1>3, <2>1 DEF SkipProvision, RefuseProvision, LoseAnswer, CreateDirect, Goto,
       RouteResourceProvisioner
  <2>3. QED
    BY <1>2, <2>1, <2>2 DEF BudgetInv
<1>4. CASE CreateAsync
  <2>1. /\ st'.status = "IN_PROGRESS" /\ st'.desired = st.desired /\ at' = "status_poller"
        /\ requests' = Append(requests, [slot |-> st.desired, type |-> st.type,
                                         outcome |-> "pending"])
    BY <1>1, <1>4 DEF CreateAsync, Submit, With, Channels, Goto, RouteResourceProvisioner
  <2>2. /\ Len(requests) + 1 \in DOMAIN requests'
        /\ requests'[Len(requests) + 1].slot = st'.desired
    BY <1>1, <2>1
  <2>3. QED
    BY <1>2, <2>1, <2>2 DEF BudgetInv
<1>5. QED
  BY <1>3, <1>4 DEF ResourceProvisioner

\* status_poller counts, for a slot that it has found requested.
LEMMA PollerKeepsBudget ==
  ASSUME ApplyInv, StatusPoller, UNCHANGED loopVars
  PROVE  BudgetInv'
<1>1. phase' = phase /\ phase \notin {"start"} \cup Phase1
  BY AtPoller DEF loopVars, Phase1
<1>2. requests' = requests
  BY DEF StatusPoller, PollFails, PollThrottled, PollAnswered, Return, KeepOutside
<1>3. st'.status \in {"IN_PROGRESS", "SUCCESS", "FAILED"} /\ st'.desired = st.desired
  BY Polled DEF SamePlan
<1>4. at' \in {"interrupt", "status_poller", "result_formatter"}
  <2>1. Goto(RouteStatusPoller(st'))
    BY DEF StatusPoller, PollFails, PollThrottled, PollAnswered
  <2>2. QED
    BY <1>3, <2>1 DEF Goto, RouteStatusPoller
<1>5. \E i \in DOMAIN requests : requests[i].slot = st.desired
  BY AtPoller
<1>6. QED
  BY <1>1, <1>2, <1>3, <1>4, <1>5 DEF BudgetInv

\* result_formatter hands the next slot a budget of its own.
LEMMA FormatterKeepsBudget ==
  ASSUME ApplyInv, BudgetInv, ResultFormatter, UNCHANGED loopVars
  PROVE  BudgetInv'
<1>1. st \in Channels /\ at = "result_formatter" /\ requests' = requests /\ phase' = phase
  BY ChannelFacts DEF ApplyInv, ResultFormatter, FormatCompoundAdvance,
     FormatCompoundSuccess, FormatOutOfBounds, FormatEnd, FormatPlan, KeepOutside, loopVars
<1>2. CASE FormatCompoundAdvance
  <2>1. st'.throttle = 0
    BY <1>1, <1>2 DEF FormatCompoundAdvance, Finish, NextSlot, Channels
  <2>2. QED
    BY <2>1 DEF BudgetInv
<1>3. CASE FormatCompoundSuccess \/ FormatOutOfBounds \/ FormatEnd
  <2>1. /\ st'.status \in {st.status, "FAILED"} /\ st'.throttle = st.throttle
        /\ st'.desired = st.desired
    BY <1>1, <1>3 DEF FormatCompoundSuccess, FormatOutOfBounds, FormatEnd, Finish, With,
       Channels
  <2>2. at' = IF RouteResultFormatter(st') = "resource_provisioner" THEN "interrupt"
              ELSE RouteResultFormatter(st')
    BY <1>3 DEF FormatCompoundSuccess, FormatOutOfBounds, FormatEnd, Finish, Goto
  <2>3. st.throttle # 0 => at' = "END"
    BY <2>1, <2>2 DEF BudgetInv, RouteResultFormatter
  <2>4. QED
    BY <1>1, <2>1, <2>3 DEF BudgetInv
<1>4. CASE FormatPlan
  <2>1. st.status \in {"PENDING", "undefined"}
    BY <1>1, <1>4, AtFormatter DEF FormatPlan, Terminal
  <2>2. st.throttle = 0
    BY <2>1 DEF BudgetInv
  <2>3. st'.throttle = st.throttle
    BY <1>1, <1>4 DEF FormatPlan, Finish, PlanAdvanced, PlanFixed, Channels
  <2>4. QED
    BY <2>2, <2>3 DEF BudgetInv
<1>5. QED
  BY <1>2, <1>3, <1>4 DEF ResultFormatter

\* Neither does the command count, nor the cloud.
LEMMA CommandKeepsBudget ==
  ASSUME ApplyInv, BudgetInv, Command
  PROVE  BudgetInv'
<1>1. st \in Channels
  BY ChannelFacts DEF ApplyInv
<1>2. CASE StartFresh \/ StartCheckpoint \/ Clarify \/ FixAndContinue
  <2>1. st'.throttle \in {0, st.throttle}
    <3>1. CASE StartFresh
      BY <3>1 DEF StartFresh, Begin, Invoke, FreshInput, NewThread
    <3>2. CASE StartCheckpoint
      BY <3>2 DEF StartCheckpoint, Begin, Invoke, CheckpointInput, NewThread
    <3>3. CASE Clarify \/ FixAndContinue
      BY <1>1, <3>3 DEF Clarify, FixAndContinue, Begin, Invoke, FreshInput, Channels
    <3>4. QED
      BY <1>2, <3>1, <3>2, <3>3
  <2>2. phase \in {"start"} \cup Phase1
    BY <1>2 DEF StartFresh, StartCheckpoint, Clarify, FixAndContinue, Phase1
  <2>3. QED
    BY <2>1, <2>2 DEF BudgetInv
<1>3. CASE GateSettled \/ GateFailed \/ Proceed \/ GateRefuses
  <2>1. phase \in Phase1 /\ UNCHANGED graphVars
    BY <1>3 DEF GateSettled, GateFailed, Proceed, GateRefuses, Cleared, Phase1
  <2>2. QED
    BY <2>1 DEF BudgetInv, graphVars
<1>4. CASE Loop
  <2>1. phase' \notin {"start"} \cup Phase1
    BY <1>4 DEF Loop, LoopTurn, LoopBreak, LoopReturn, Report, Phase1
  <2>2. st' = st /\ requests' = requests /\ at' \in {at, "resource_provisioner"}
    BY <1>4 DEF Loop, LoopTurn, LoopBreak, LoopReturn, InvokeNull, graphVars
  <2>3. QED
    BY <2>1, <2>2 DEF BudgetInv
<1>5. QED
  BY <1>2, <1>3, <1>4 DEF Command, Gate

LEMMA CloudKeepsBudget ==
  ASSUME ApplyInv, BudgetInv, CloudControl, UNCHANGED loopVars
  PROVE  BudgetInv'
<1>1. PICK i \in DOMAIN requests, outcome \in {"ok", "failed", "dns"} :
        Settle(i, outcome)
  BY DEF CloudControl
<1>2. /\ st' = st /\ at' = at /\ phase' = phase
      /\ requests' = [requests EXCEPT ![i].outcome = outcome]
  BY <1>1 DEF Settle, loopVars
<1>3. requests \in Seq(Request)
  BY ChannelFacts DEF ApplyInv
<1>4. /\ DOMAIN requests' = DOMAIN requests
      /\ \A j \in DOMAIN requests : requests'[j].slot = requests[j].slot
  <2>1. \A j \in DOMAIN requests : requests[j] \in Request
    BY <1>3
  <2>2. QED
    BY <1>2, <1>3, <2>1 DEF Request
<1>5. QED
  BY <1>2, <1>4 DEF BudgetInv

\* Every step keeps it.
LEMMA BudgetStep ==
  ASSUME ApplyInv, BudgetInv, [Next]_vars
  PROVE  BudgetInv'
<1>1. CASE Command
  BY <1>1, CommandKeepsBudget
<1>2. CASE Graph
  BY <1>2, PlanningKeepsBudget, ProvisionerKeepsBudget, PollerKeepsBudget,
     FormatterKeepsBudget DEF Graph, GraphStep
<1>3. CASE World
  BY <1>3, CloudKeepsBudget DEF World
<1>4. CASE UNCHANGED vars
  BY <1>4 DEF vars, graphVars, loopVars, BudgetInv
<1>5. QED
  BY <1>1, <1>2, <1>3, <1>4 DEF Next

\* Whatever the slots before it have used up of the throttling budget, a slot
\* that is requested for the first time has all of it.
THEOREM ApplyThrottlesEachSlotAlone == Spec => ThrottleBudgetIsFresh
<1>1. Init => BudgetInv
  BY DEF Init, NewThread, BudgetInv
<1>2. ApplyInv /\ BudgetInv /\ [Next]_vars => BudgetInv'
  BY BudgetStep
<1>3. ASSUME ApplyInv, BudgetInv, [Next]_vars
      PROVE  [ \/ Len(requests') <= Len(requests)
               \/ \E i \in DOMAIN requests : requests[i].slot = st.desired
               \/ st.throttle = 0 ]_graphVars
  <2>1. CASE Creates
    <3>1. at = "resource_provisioner"
      BY <2>1 DEF Creates, LoseAnswer, CreateDirect, CreateAsync
    <3>2. QED
      BY <1>3, <3>1, AtProvisioner DEF BudgetInv
  <2>2. CASE ~Creates
    <3>1. Len(requests') = Len(requests) /\ Len(requests) \in Nat
      BY <1>3, <2>2, StepKinds, ChannelFacts DEF ApplyInv, CloudControl, Settle
    <3>2. QED
      BY <3>1
  <2>3. QED
    BY <2>1, <2>2
<1>4. QED
  BY <1>1, <1>2, <1>3, ApplyInvariant, PTL DEF Spec, ThrottleBudgetIsFresh

-----------------------------------------------------------------------------
(* The count of the provisioning loop.                                      *)

\* What the types say of the numbers that are counted.
LEMMA CountFacts ==
  ASSUME TypeOK
  PROVE  /\ st.retries \in Nat /\ st.retries \in Int /\ pauses \in Nat
         /\ Cursor(st) \in 0..N /\ N \in Nat /\ N > 0
         /\ MaxRetries \in Nat /\ Len(requests) \in Nat
         /\ st.index # None => st.index \in 0..N /\ Cursor(st) = st.index
<1>1. st.retries \in Nat /\ pauses \in Nat /\ Len(requests) \in Nat
      /\ st.index \in 0..N \cup {None}
  BY DEF TypeOK, GraphTypeOK, ThreadTypeOK, Channels
<1>2. N \in Nat /\ N > 0 /\ MaxRetries \in Nat
  BY QueueAssumption, BudgetAssumption
<1>3. QED
  BY <1>1, <1>2, NoneAssumption DEF Cursor

\* The nodes on the way to a pause move neither the cursor nor the counts, but
\* for the dispatcher, which sets the cursor to the first slot.
LEMMA PlanningKeepsPace ==
  ASSUME ApplyInv, TypeOK', PacedInv, UNCHANGED loopVars,
         \/ IntentUnderstood \/ IntentRejected \/ QueryHandler \/ SchemaFetcher
         \/ CompoundDispatcher \/ PlanGenerator \/ ValidateDesiredState
         \/ PreflightGuard \/ HumanApproval
  PROVE  PacedInv'
<1>1. st \in Channels /\ phase' = phase /\ pauses' = pauses
  BY ChannelFacts DEF ApplyInv, loopVars
<1>2. requests' = requests /\ st'.retries = st.retries
  <2>1. CASE IntentUnderstood \/ IntentRejected \/ QueryHandler \/ SchemaFetcher
    BY <1>1, <2>1 DEF IntentUnderstood, IntentRejected, QueryHandler, SchemaFetcher,
       Return, KeepOutside, Understood, With, Channels
  <2>2. CASE CompoundDispatcher
    BY <1>1, <2>2 DEF CompoundDispatcher, Return, KeepOutside, Channels
  <2>3. CASE PlanGenerator
    BY <1>1, <2>3 DEF PlanGenerator, Return, KeepOutside, CompoundPlans, SinglePlans,
       With, Channels
  <2>4. CASE ValidateDesiredState \/ PreflightGuard
    BY <1>1, <2>4 DEF ValidateDesiredState, PreflightGuard, Return, KeepOutside, With,
       Channels
  <2>5. CASE HumanApproval
    BY <1>1, <2>5 DEF HumanApproval, With, Channels
  <2>6. QED
    BY <2>1, <2>2, <2>3, <2>4, <2>5
<1>3. st'.index # None => st'.pattern /\ st'.queue
  <2>1. CASE IntentUnderstood \/ IntentRejected \/ QueryHandler \/ SchemaFetcher
    BY <1>1, <2>1 DEF PacedInv, IntentUnderstood, IntentRejected, QueryHandler,
       SchemaFetcher, Return, Understood, With, Channels
  <2>2. CASE CompoundDispatcher
    BY <1>1, <2>2 DEF PacedInv, CompoundDispatcher, Return, Channels
  <2>3. CASE PlanGenerator
    BY <1>1, <2>3 DEF PacedInv, PlanGenerator, Return, CompoundPlans, SinglePlans, With,
       Channels
  <2>4. CASE ValidateDesiredState \/ PreflightGuard
    BY <1>1, <2>4 DEF PacedInv, ValidateDesiredState, PreflightGuard, Return, With, Channels
  <2>5. CASE HumanApproval
    BY <1>1, <2>5 DEF PacedInv, HumanApproval, With, Channels
  <2>6. QED
    BY <2>1, <2>2, <2>3, <2>4, <2>5
<1>4. CASE phase # "provisioning"
  <2>1. phase # "loop"
    <3>1. at # "interrupt"
      BY DEF IntentUnderstood, IntentRejected, QueryHandler, SchemaFetcher,
         CompoundDispatcher, PlanGenerator, ValidateDesiredState, PreflightGuard,
         HumanApproval, Return
    <3>2. QED
      BY <3>1 DEF ApplyInv, RunningInv
  <2>2. QED
    BY <1>1, <1>2, <1>3, <1>4, <2>1 DEF PacedInv
<1>5. CASE phase = "provisioning"
  <2>1. \/ PlanGenerator /\ at = "plan_generator"
        \/ ValidateDesiredState /\ at = "validate_desired_state"
        \/ PreflightGuard /\ at = "preflight_guard"
    BY <1>5 DEF ApplyInv, RunningInv, Running, IntentUnderstood, IntentRejected,
       QueryHandler, SchemaFetcher, CompoundDispatcher, PlanGenerator,
       ValidateDesiredState, PreflightGuard, HumanApproval, Return
  <2>2. st.status \in {"PENDING", "FAILED"}
    BY <1>5, <2>1 DEF ApplyInv, RunningInv, StageInv, Running
  <2>3. st'.index = st.index /\ st'.status \in {"PENDING", "FAILED"}
    <3>1. CASE PlanGenerator
      BY <1>1, <2>2, <3>1 DEF PlanGenerator, Return, CompoundPlans, SinglePlans, With,
         Channels
    <3>2. CASE ValidateDesiredState
      BY <1>1, <2>2, <3>2 DEF ValidateDesiredState, Return, With, Channels
    <3>3. CASE PreflightGuard
      <4>1. \/ st' \in {st, With(st, "FAILED")}
            \/ \E ok \in BOOLEAN : st' = [st EXCEPT !.preflight = ok, !.fixed = FALSE]
        BY <3>3 DEF PreflightGuard, Return
      <4>2. QED
        BY <1>1, <2>2, <4>1 DEF With, Channels
    <3>4. QED
      BY <2>1, <3>1, <3>2, <3>3
  <2>4. Due' = Due /\ pauses + 1 = Due
    BY <1>2, <1>5, <2>1, <2>3 DEF Due, Cursor, PacedInv, BetweenCreates
  <2>5. at' \notin {"resource_provisioner", "status_poller"}
    BY <2>1 DEF PlanGenerator, ValidateDesiredState, PreflightGuard, Goto,
       RouteValidateDesiredState, RoutePreflightGuard
  <2>6. QED
    BY <1>1, <1>2, <1>3, <1>5, <2>3, <2>4, <2>5 DEF PacedInv, Phase1, BetweenCreates
<1>6. QED
  BY <1>4, <1>5

\* The resource at the pause has its turn: one create, or none.
LEMMA ProvisionerKeepsPace ==
  ASSUME ApplyInv, PacedInv, ResourceProvisioner, UNCHANGED loopVars
  PROVE  PacedInv'
<1>1. /\ st \in Channels /\ requests \in Seq(Request) /\ at = "resource_provisioner"
      /\ phase' = phase /\ pauses' = pauses
  BY ChannelFacts DEF ApplyInv, ResourceProvisioner, SkipProvision, RefuseProvision,
     LoseAnswer, CreateDirect, CreateAsync, loopVars
<1>2. phase = "provisioning" /\ pauses = Due /\ Len(requests) <= pauses
  BY <1>1, AtProvisioner DEF PacedInv
<1>3. /\ st'.index = st.index /\ st'.pattern = st.pattern /\ st'.queue = st.queue
      /\ st'.retries = st.retries
  BY <1>1 DEF ResourceProvisioner, SkipProvision, RefuseProvision, LoseAnswer,
     CreateDirect, CreateAsync, With, Channels
<1>4. Len(requests') \in {Len(requests), Len(requests) + 1}
  BY <1>1 DEF ResourceProvisioner, SkipProvision, RefuseProvision, LoseAnswer,
     CreateDirect, CreateAsync, Submit, KeepOutside
<1>5. at' \in {"status_poller", "result_formatter"}
  BY DEF ResourceProvisioner, SkipProvision, RefuseProvision, LoseAnswer,
     CreateDirect, CreateAsync, Goto, RouteResourceProvisioner
<1>6. Due' = Due
  BY <1>3 DEF Due, Cursor
<1>7. pauses \in Nat /\ Len(requests) \in Nat
  BY CountFacts DEF ApplyInv
<1>8. QED
  BY <1>1, <1>2, <1>3, <1>4, <1>5, <1>6, <1>7 DEF PacedInv, BetweenCreates, Phase1

\* A retry is counted with the pause it leads to, and only within its budget.
LEMMA PollerKeepsPace ==
  ASSUME ApplyInv, PacedInv, StatusPoller, UNCHANGED loopVars
  PROVE  PacedInv'
<1>1. /\ st \in Channels /\ requests' = requests /\ phase' = phase /\ pauses' = pauses
      /\ at = "status_poller" /\ phase = "provisioning" /\ pauses = Due
  BY ChannelFacts, AtPoller DEF ApplyInv, StatusPoller, PollFails, PollThrottled,
     PollAnswered, Return, KeepOutside, loopVars, PacedInv
<1>2. st'.index = st.index /\ st'.pattern = st.pattern /\ st'.queue = st.queue
  BY Polled DEF SamePlan
<1>3. Goto(RouteStatusPoller(st'))
  BY DEF StatusPoller, PollFails, PollThrottled, PollAnswered
<1>4. \/ st'.retries = st.retries /\ at' \in {"status_poller", "result_formatter"}
      \/ /\ st'.retries = st.retries + 1 /\ st.retries < MaxRetries
         /\ at' = "interrupt"
  <2>1. CASE PollFails \/ PollThrottled
    <3>1. st'.retries = st.retries
      BY <1>1, <2>1 DEF PollFails, PollThrottled, Return, With, Channels
    <3>2. st'.status = "FAILED" \/ (st'.token # 0 /\ st'.status = "IN_PROGRESS")
      BY <1>1, <2>1 DEF PollFails, PollThrottled, Return, With, Channels
    <3>3. QED
      BY <1>3, <3>1, <3>2 DEF Goto, RouteStatusPoller
  <2>2. CASE PollAnswered
    <3>1. st.token # 0 /\ st' = AfterVerdict(st, requests[st.token].outcome)
      BY <2>2 DEF PollAnswered, Return
    <3>2. requests[st.token].outcome \in Outcome
      BY AtPoller
    <3>3. CASE st.retries < MaxRetries /\ requests[st.token].outcome = "dns"
      BY <1>1, <1>3, <3>1, <3>3 DEF AfterVerdict, With, Channels, Goto, RouteStatusPoller
    <3>4. CASE ~(st.retries < MaxRetries /\ requests[st.token].outcome = "dns")
      BY <1>1, <1>3, <3>1, <3>2, <3>4
         DEF AfterVerdict, With, Channels, Goto, RouteStatusPoller, Outcome
    <3>5. QED
      BY <3>3, <3>4
  <2>3. QED
    BY <2>1, <2>2 DEF StatusPoller
<1>5. Cursor(st') = Cursor(st)
  BY <1>2 DEF Cursor
<1>6. /\ st.retries \in Nat /\ Cursor(st) \in 0..N /\ pauses \in Nat /\ MaxRetries \in Nat
      /\ Len(requests) \in Nat
  BY CountFacts DEF ApplyInv
<1>7. CASE st'.retries = st.retries /\ at' \in {"status_poller", "result_formatter"}
  <2>1. Due' = Due
    BY <1>5, <1>7 DEF Due
  <2>2. QED
    BY <1>1, <1>2, <1>6, <1>7, <2>1 DEF PacedInv, BetweenCreates, Phase1
<1>8. CASE /\ st'.retries = st.retries + 1 /\ st.retries < MaxRetries
           /\ at' = "interrupt"
  <2>1. Due' = Due + 1
    BY <1>5, <1>6, <1>8 DEF Due
  <2>2. QED
    BY <1>1, <1>2, <1>6, <1>8, <2>1 DEF PacedInv, BetweenCreates, Phase1
<1>9. QED
  BY <1>4, <1>7, <1>8

\* The cursor moves on after a turn that was a success.
LEMMA FormatterKeepsPace ==
  ASSUME ApplyInv, PacedInv, ResultFormatter, UNCHANGED loopVars
  PROVE  PacedInv'
<1>1. /\ st \in Channels /\ requests' = requests /\ phase' = phase /\ pauses' = pauses
      /\ at = "result_formatter" /\ st.mode = "APPLY"
      /\ phase \in {"phase1", "clarified", "provisioning"}
  <2>1. at = "result_formatter" /\ requests' = requests
    BY DEF ResultFormatter, FormatCompoundAdvance, FormatCompoundSuccess,
       FormatOutOfBounds, FormatEnd, FormatPlan, KeepOutside
  <2>2. QED
    BY <2>1, ChannelFacts, AtFormatter DEF ApplyInv, loopVars
<1>2. /\ st.retries \in Nat /\ Cursor(st) \in 0..N /\ pauses \in Nat /\ MaxRetries \in Nat
      /\ N \in Nat /\ st.index # None => st.index \in 0..N /\ Cursor(st) = st.index
  BY CountFacts DEF ApplyInv
<1>3. CASE FormatCompoundAdvance
  <2>1. /\ st.status = "SUCCESS" /\ CompoundShape(st) /\ st' = NextSlot(st)
        /\ Goto(RouteResultFormatter(st'))
    BY <1>3 DEF FormatCompoundAdvance, Finish
  <2>2. /\ st'.index = st.index + 1 /\ st'.retries = st.retries
        /\ st'.pattern = st.pattern /\ st'.queue = st.queue
    BY <1>1, <2>1 DEF NextSlot, Channels
  <2>3. at' \in {"plan_generator", "END"}
    BY <2>1 DEF Goto, RouteResultFormatter
  <2>4. phase = "provisioning" /\ pauses = Due
    <3>1. Running
      BY <1>1, <2>1, AtFormatter DEF Terminal
    <3>2. phase = "provisioning"
      BY <1>1, <3>1 DEF Running
    <3>3. QED
      BY <1>1, <2>1, <3>2 DEF PacedInv
  <2>5. Due' = Due + 1
    BY <1>2, <2>1, <2>2, NoneAssumption DEF Due, Cursor, CompoundShape
  <2>6. QED
    BY <1>1, <1>2, <2>1, <2>2, <2>3, <2>4, <2>5 DEF PacedInv, BetweenCreates, CompoundShape,
       Phase1
<1>4. CASE FormatCompoundSuccess \/ FormatOutOfBounds \/ FormatEnd \/ FormatPlan
  <2>1. /\ st'.index = st.index /\ st'.pattern = st.pattern /\ st'.queue = st.queue
        /\ st'.retries = st.retries /\ Goto(RouteResultFormatter(st'))
    BY <1>1, <1>4 DEF FormatCompoundSuccess, FormatOutOfBounds, FormatEnd, FormatPlan,
       Finish, With, PlanAdvanced, PlanFixed, Channels
  <2>2. at' = "END"
    <3>1. CASE FormatPlan
      <4>1. st.status = "PENDING" /\ ~st.preflight
        BY <1>1, <3>1, AtFormatter DEF FormatPlan, Terminal
      <4>2. st'.preflight = st.preflight
        BY <1>1, <3>1 DEF FormatPlan, Finish, PlanAdvanced, PlanFixed, Channels
      <4>3. QED
        BY <2>1, <4>1, <4>2 DEF Goto, RouteResultFormatter
    <3>2. CASE FormatCompoundSuccess \/ FormatOutOfBounds \/ FormatEnd
      <4>1. st'.status # "PENDING"
        BY <1>1, <3>2 DEF FormatCompoundSuccess, FormatOutOfBounds, FormatEnd, Finish,
           With, Channels, Terminal
      <4>2. QED
        BY <2>1, <4>1 DEF Goto, RouteResultFormatter
    <3>3. QED
      BY <1>4, <3>1, <3>2
  <2>3. Due' = Due
    BY <2>1 DEF Due, Cursor
  <2>4. QED
    BY <1>1, <2>1, <2>2, <2>3 DEF PacedInv, BetweenCreates
<1>5. QED
  BY <1>3, <1>4 DEF ResultFormatter

\* The command starts the count with the loop, and counts each pause once.
LEMMA CommandKeepsPace ==
  ASSUME ApplyInv, PacedInv, Command
  PROVE  PacedInv'
<1>1. /\ st \in Channels /\ requests \in Seq(Request) /\ Len(requests) \in Nat
      /\ phase \in {"start"} \cup Phase1 \cup LoopPhase
  BY ChannelFacts, CountFacts DEF ApplyInv
<1>2. /\ st.retries \in Nat /\ Cursor(st) \in 0..N /\ pauses \in Nat /\ MaxRetries \in Nat
      /\ N \in Nat /\ N > 0
  BY CountFacts DEF ApplyInv
<1>3. CASE StartFresh \/ StartCheckpoint
  <2>1. st'.index = None /\ st'.retries = 0
    <3>1. CASE StartFresh
      BY <3>1 DEF StartFresh, Begin, Invoke, FreshInput, NewThread
    <3>2. CASE StartCheckpoint
      BY <3>2 DEF StartCheckpoint, Begin, Invoke, CheckpointInput, NewThread
    <3>3. QED
      BY <1>3, <3>1, <3>2
  <2>2. phase' = "phase1" /\ pauses' = pauses /\ requests' = requests
    BY <1>3 DEF StartFresh, StartCheckpoint, Begin
  <2>3. QED
    BY <1>2, <2>1, <2>2 DEF PacedInv, Phase1
<1>4. CASE Clarify \/ FixAndContinue
  <2>1. /\ st'.index = st.index /\ st'.pattern = st.pattern /\ st'.queue = st.queue
        /\ st'.retries = st.retries
    <3>1. CASE Clarify
      BY <1>1, <3>1 DEF Clarify, Begin, Invoke, FreshInput, Channels
    <3>2. CASE FixAndContinue
      BY <1>1, <3>2 DEF FixAndContinue, Begin, Invoke, Channels
    <3>3. QED
      BY <1>4, <3>1, <3>2
  <2>2. /\ phase \in Phase1 /\ phase' \in {"clarified", "continued"}
        /\ pauses' = pauses /\ requests' = requests
    BY <1>4 DEF Clarify, FixAndContinue, Begin, Phase1
  <2>3. QED
    BY <2>1, <2>2 DEF PacedInv, Phase1
<1>5. CASE GateSettled \/ GateFailed \/ GateRefuses \/ LoopBreak
  <2>1. /\ phase' = "reported" /\ pauses' = pauses /\ UNCHANGED graphVars
    BY <1>5 DEF GateSettled, GateFailed, GateRefuses, LoopBreak, Report
  <2>2. QED
    BY <2>1 DEF PacedInv, Phase1, graphVars
<1>6. CASE Proceed
  <2>1. /\ phase \in Phase1 /\ phase' = "loop" /\ pauses' = 0 /\ UNCHANGED graphVars
        /\ requests = <<>> /\ st.index \in {None, 0}
    BY <1>6 DEF Proceed, EnterLoop, Cleared, Phase1, ApplyInv, PlanningInv
  <2>2. st.retries = 0 /\ Cursor(st) = 0
    BY <2>1 DEF PacedInv, Cursor
  <2>3. Len(requests) = 0
    BY <2>1
  <2>4. QED
    BY <1>2, <2>1, <2>2, <2>3 DEF PacedInv, Phase1, Due, Cursor, graphVars
<1>7. CASE LoopTurn
  <2>1. /\ phase = "loop" /\ phase' = "provisioning" /\ at = "interrupt"
        /\ at' = "resource_provisioner" /\ pauses' = pauses
        /\ st' = st /\ requests' = requests
    BY <1>7 DEF LoopTurn, InvokeNull, ApplyInv, RunningInv
  <2>2. Due' = Due
    BY <2>1 DEF Due
  <2>3. QED
    BY <2>1, <2>2 DEF PacedInv, Phase1, BetweenCreates
<1>8. CASE LoopReturn
  <2>1. /\ phase = "provisioning" /\ at \in {"interrupt", "END"} /\ UNCHANGED graphVars
        /\ IF at = "END" THEN phase' = "reported" /\ pauses' = pauses
                         ELSE phase' = "loop" /\ pauses' = pauses + 1
    BY <1>8 DEF LoopReturn, Returned, Report
  <2>2. Due' = Due
    BY <2>1 DEF Due, graphVars
  <2>3. CASE at = "END"
    BY <2>1, <2>3 DEF PacedInv, Phase1, graphVars
  <2>4. CASE at = "interrupt"
    <3>1. pauses + 1 = Due
      BY <2>1, <2>4 DEF PacedInv, BetweenCreates
    <3>2. Cursor(st) < N
      BY <1>2, CountFacts DEF ApplyInv, ShapeInv, CompoundShape, PacedInv, Cursor
    <3>3. QED
      BY <1>1, <1>2, <2>1, <2>2, <2>4, <3>1, <3>2 DEF PacedInv, Phase1, graphVars, Due
  <2>5. QED
    BY <2>1, <2>3, <2>4
<1>9. QED
  BY <1>3, <1>4, <1>5, <1>6, <1>7, <1>8 DEF Command, Gate, Loop

\* Every step keeps the pace.
LEMMA PaceStep ==
  ASSUME ApplyInv, ApplyInv', PacedInv, [Next]_vars
  PROVE  PacedInv'
<1>1. CASE Command
  BY <1>1, CommandKeepsPace
<1>2. CASE Graph
  BY <1>2, PlanningKeepsPace, ProvisionerKeepsPace, PollerKeepsPace, FormatterKeepsPace
     DEF Graph, GraphStep, ApplyInv
<1>3. CASE World
  <2>1. UNCHANGED <<st, at, loopVars>> /\ Len(requests') = Len(requests)
    BY <1>3, ChannelFacts DEF World, CloudControl, Settle, ApplyInv
  <2>2. QED
    BY <2>1 DEF PacedInv, loopVars, Due, Cursor, BetweenCreates
<1>4. CASE UNCHANGED vars
  BY <1>4 DEF vars, graphVars, loopVars, PacedInv, Due, Cursor, BetweenCreates
<1>5. QED
  BY <1>1, <1>2, <1>3, <1>4 DEF Next

\* Through every interleaving of pauses, retries and slots, the loop's count is
\* the cursor and the retries taken together.
THEOREM ApplyKeepsPace == Spec => []PacedInv
<1>1. Init => PacedInv
  <2>1. SUFFICES ASSUME Init
                 PROVE  PacedInv
    OBVIOUS
  <2>2. st.index = None /\ st.retries = 0 /\ Len(requests) = 0
    BY <2>1 DEF Init, NewThread
  <2>3. N \in Nat /\ N > 0 /\ MaxRetries \in Nat
    BY QueueAssumption, BudgetAssumption
  <2>4. QED
    BY <2>1, <2>2, <2>3 DEF Init, PacedInv
<1>2. ApplyInv /\ ApplyInv' /\ PacedInv /\ [Next]_vars => PacedInv'
  BY PaceStep
<1>3. QED
  BY <1>1, <1>2, ApplyInvariant, PTL DEF Spec

\* The limits of the loop end no apply in which nothing was retried, and the
\* limit on its turns none at all.
THEOREM ApplyIsCutByRetriesOnly == Spec => []LimitsNeedARetry
<1>1. ASSUME ApplyInv, PacedInv
      PROVE  LimitsNeedARetry
  <2>1. SUFFICES ASSUME phase = "loop", OutOfTurns
                 PROVE  st.retries > 0 /\ pauses < MaxLoops
    BY DEF LimitsNeedARetry
  <2>2. /\ pauses = Cursor(st) + st.retries /\ pauses < N + MaxRetries
    BY <1>1, <2>1 DEF PacedInv, Due
  <2>3. /\ st.retries \in Nat /\ Cursor(st) \in 0..N /\ pauses \in Nat /\ N \in Nat
        /\ MaxRetries \in Nat /\ N > 0
    BY <1>1, CountFacts DEF ApplyInv
  <2>4. Cursor(st) < N
    BY <1>1, <2>3, CountFacts DEF ApplyInv, ShapeInv, CompoundShape, PacedInv, Cursor
  <2>5. MaxLoops \in Nat /\ pauses < MaxLoops
    BY <2>2, <2>3, LoopAssumption
  <2>6. pauses >= N
    BY <2>1, <2>3, <2>5 DEF OutOfTurns
  <2>7. QED
    BY <2>2, <2>3, <2>4, <2>5, <2>6
<1>2. QED
  BY <1>1, ApplyInvariant, ApplyKeepsPace, PTL

\* No run asks for more creates than the plan has resources and the retry
\* budget has retries.
THEOREM ApplyCreatesAreBounded == Spec => []BoundedCreates
<1>1. ASSUME ApplyInv, PacedInv
      PROVE  BoundedCreates
  <2>1. pauses \in Nat /\ N \in Nat /\ MaxRetries \in Nat /\ Len(requests) \in Nat
    BY <1>1, CountFacts DEF ApplyInv
  <2>2. QED
    BY <1>1, <2>1 DEF PacedInv, BoundedCreates
<1>2. QED
  BY <1>1, ApplyInvariant, ApplyKeepsPace, PTL

-----------------------------------------------------------------------------
(* The retries.                                                             *)

\* The graph never ends in the middle of a create, and a pattern that is being
\* worked on has a cursor.
RestInv ==
  /\ at = "END" => st.status # "IN_PROGRESS"
  /\ st.pattern /\ st.queue /\ st.status \in {"PENDING", "IN_PROGRESS"} =>
       st.index # None

\* The formatter ends the graph, and only where no create is under way.
LEMMA FormatterRests ==
  ASSUME ApplyInv, RestInv, ResultFormatter
  PROVE  RestInv'
<1>1. st \in Channels
  BY ChannelFacts DEF ApplyInv
<1>2. at = "result_formatter"
  BY DEF ResultFormatter, FormatCompoundAdvance, FormatCompoundSuccess,
     FormatOutOfBounds, FormatEnd, FormatPlan
<1>3. st.status # "IN_PROGRESS"
  BY <1>2, AtFormatter DEF Terminal
<1>4. CASE FormatCompoundAdvance
  <2>1. st' = NextSlot(st) /\ st.index \in 0..N /\ N \in Nat
    BY <1>1, <1>4, QueueAssumption, NoneAssumption
    DEF FormatCompoundAdvance, Finish, CompoundShape, Channels
  <2>2. st'.status = "PENDING" /\ st'.index = st.index + 1
    BY <1>1, <2>1 DEF NextSlot, Channels
  <2>3. QED
    BY <2>1, <2>2, NoneAssumption DEF RestInv
<1>5. CASE FormatCompoundSuccess
  BY <1>1, <1>3, <1>5 DEF FormatCompoundSuccess, Finish, RestInv, Channels
<1>6. CASE FormatOutOfBounds
  BY <1>1, <1>6 DEF FormatOutOfBounds, Finish, With, RestInv, Channels
<1>7. CASE FormatEnd
  BY <1>3, <1>7 DEF FormatEnd, Finish, RestInv
<1>8. CASE FormatPlan
  <2>1. st.mode = "APPLY"
    BY <1>2, AtFormatter
  <2>2. st'.status = st.status /\ st'.pattern = st.pattern /\ st'.queue = st.queue
          /\ st'.index = st.index
    BY <1>1, <1>8, <2>1 DEF FormatPlan, Finish, PlanAdvanced, PlanFixed, Channels
  <2>3. QED
    BY <1>3, <2>2 DEF RestInv
<1>9. QED
  BY <1>4, <1>5, <1>6, <1>7, <1>8 DEF ResultFormatter

\* The nodes before the provisioner do not end the graph, and plan a pattern
\* only once the dispatcher has set its cursor.
LEMMA PlanningRests ==
  ASSUME ApplyInv, RestInv,
         \/ IntentUnderstood \/ IntentRejected \/ QueryHandler \/ SchemaFetcher
         \/ CompoundDispatcher \/ PlanGenerator \/ ValidateDesiredState
         \/ PreflightGuard \/ HumanApproval
  PROVE  RestInv'
<1>1. st \in Channels
  BY ChannelFacts DEF ApplyInv
<1>2. CASE IntentUnderstood
  <2>1. /\ at = "intent_parser" /\ st' \in Understood(st)
        /\ at' \in {"query_handler", "result_formatter", "schema_fetcher"}
    BY <1>2 DEF IntentUnderstood, Return, Goto, RouteIntentParser
  <2>2. st'.status = st.status /\ st'.queue = st.queue
    BY <1>1, <2>1 DEF Understood, Channels
  <2>3. st.status \in {"FAILED", "UNSUPPORTED_RESOURCE"} \/ ~st.queue
    BY <2>1 DEF ApplyInv, StageInv, Unplanned
  <2>4. QED
    BY <2>1, <2>2, <2>3 DEF RestInv
<1>3. CASE IntentRejected
  BY <1>1, <1>3 DEF IntentRejected, Return, With, Goto, RouteIntentParser, RestInv, Channels
<1>4. CASE QueryHandler
  BY <1>1, <1>4 DEF QueryHandler, Return, With, Goto, RestInv, Channels
<1>5. CASE SchemaFetcher
  BY <1>1, <1>5 DEF SchemaFetcher, Return, With, Goto, RestInv, Channels
<1>6. CASE CompoundDispatcher
  <2>1. at' = "plan_generator"
    BY <1>6 DEF CompoundDispatcher, Return, Goto
  <2>2. CASE st.pattern
    <3>1. st'.index = 0
      BY <1>1, <1>6, <2>2 DEF CompoundDispatcher, Return, Channels
    <3>2. QED
      BY <2>1, <3>1, NoneAssumption DEF RestInv
  <2>3. CASE ~st.pattern
    BY <1>6, <2>1, <2>3 DEF CompoundDispatcher, Return, RestInv
  <2>4. QED
    BY <2>2, <2>3
<1>7. CASE PlanGenerator
  BY <1>1, <1>7 DEF PlanGenerator, Return, CompoundPlans, SinglePlans, CompoundShape, With,
     Goto, RestInv, Channels
<1>8. CASE ValidateDesiredState
  BY <1>1, <1>8 DEF ValidateDesiredState, Return, With, Goto, RouteValidateDesiredState,
     RestInv, Channels
<1>9. CASE PreflightGuard
  BY <1>1, <1>9 DEF PreflightGuard, Return, With, Goto, RoutePreflightGuard, RestInv, Channels
<1>10. CASE HumanApproval
  BY <1>1, <1>10 DEF HumanApproval, With, Goto, RestInv, Channels
<1>11. QED
  BY <1>2, <1>3, <1>4, <1>5, <1>6, <1>7, <1>8, <1>9, <1>10

\* The provisioner and the poller work on a slot that is planned.
LEMMA ProvisioningRests ==
  ASSUME ApplyInv, RestInv, ResourceProvisioner \/ StatusPoller
  PROVE  RestInv'
<1>1. st \in Channels
  BY ChannelFacts DEF ApplyInv
<1>2. st.status \in {"PENDING", "IN_PROGRESS"}
  BY Active DEF ApplyInv, RunningInv, PlanningInv, Running, Node, ResourceProvisioner,
     SkipProvision, RefuseProvision, LoseAnswer, CreateDirect, CreateAsync, StatusPoller,
     PollFails, PollThrottled, PollAnswered, Return
<1>3. st'.pattern = st.pattern /\ st'.queue = st.queue /\ st'.index = st.index
  <2>1. CASE ResourceProvisioner
    BY <1>1, <2>1 DEF ResourceProvisioner, SkipProvision, RefuseProvision, LoseAnswer,
       CreateDirect, CreateAsync, With, Channels
  <2>2. CASE StatusPoller
    BY <2>2, Polled DEF SamePlan
  <2>3. QED
    BY <2>1, <2>2
<1>4. at' # "END"
  BY DEF ResourceProvisioner, SkipProvision, RefuseProvision, LoseAnswer, CreateDirect,
     CreateAsync, StatusPoller, PollFails, PollThrottled, PollAnswered, Goto,
     RouteResourceProvisioner, RouteStatusPoller
<1>5. QED
  BY <1>2, <1>3, <1>4 DEF RestInv

\* So do the command's own steps: a checkpoint's run has no pattern set.
LEMMA CommandRests ==
  ASSUME ApplyInv, RestInv, Command
  PROVE  RestInv'
<1>1. st \in Channels
  BY ChannelFacts DEF ApplyInv
<1>2. CASE StartFresh
  BY <1>2 DEF StartFresh, Begin, Invoke, FreshInput, NewThread, RouteCheckpointEntry, RestInv,
     ApplyInv, PlanningInv
<1>3. CASE StartCheckpoint
  <2>1. PICK origin \in Origins \ {"intent"}, yes \in BOOLEAN, r \in Revaluation :
          Begin(CheckpointInput(yes, origin = "pattern_plan", r), "phase1")
    BY <1>3 DEF StartCheckpoint
  <2>2. ~st'.pattern
    BY <2>1 DEF Begin, Invoke, CheckpointInput, NewThread
  <2>3. at' # "END"
    BY <2>1 DEF Begin, Invoke, RouteCheckpointEntry
  <2>4. QED
    BY <2>2, <2>3 DEF RestInv
<1>4. CASE Clarify
  BY <1>1, <1>4 DEF Clarify, Begin, Invoke, FreshInput, RouteCheckpointEntry, RestInv, Channels
<1>5. CASE FixAndContinue
  BY <1>1, <1>5 DEF FixAndContinue, Begin, Invoke, RouteCheckpointEntry, RestInv, Channels
<1>6. CASE GateSettled \/ GateFailed \/ Proceed \/ GateRefuses
  BY <1>6 DEF GateSettled, GateFailed, Proceed, GateRefuses, graphVars, RestInv
<1>7. CASE Loop
  BY <1>7 DEF Loop, LoopTurn, LoopBreak, LoopReturn, InvokeNull, graphVars, RestInv
<1>8. QED
  BY <1>2, <1>3, <1>4, <1>5, <1>6, <1>7 DEF Command, Gate

LEMMA RestStep ==
  ASSUME ApplyInv, RestInv, [Next]_vars
  PROVE  RestInv'
<1>1. CASE World \/ UNCHANGED vars
  BY <1>1 DEF World, CloudControl, Settle, vars, graphVars, RestInv
<1>2. QED
  BY <1>1, CommandRests, PlanningRests, ProvisioningRests, FormatterRests
  DEF Next, Graph, GraphStep

\* Reports are final: after one nothing of the run changes but what AWS settles.
LEMMA RetryStep ==
  ASSUME ApplyInv, PacedInv, RestInv, RetryIsRunInTurn, [Next]_vars
  PROVE  RetryIsRunInTurn'
<1>1. SUFFICES ASSUME phase' = "reported", st'.status = "IN_PROGRESS"
               PROVE  CompoundShape(st') /\ Due' >= N
  BY DEF RetryIsRunInTurn
<1>2. CASE st' = st /\ phase = "reported"
  BY <1>1, <1>2 DEF RetryIsRunInTurn, Due
<1>3. CASE Command
  <2>1. CASE GateSettled \/ GateFailed \/ GateRefuses
    <3>1. phase \in Phase1 /\ st' = st
      BY <2>1 DEF GateSettled, GateFailed, GateRefuses, Cleared, Phase1, graphVars
    <3>2. QED
      BY <1>1, <3>1 DEF ApplyInv, PlanningInv
  <2>2. CASE LoopBreak
    <3>1. phase = "loop" /\ OutOfTurns /\ st' = st
      BY <2>2 DEF LoopBreak, graphVars
    <3>2. pauses = Due /\ pauses < N + MaxRetries
      BY <3>1 DEF PacedInv
    <3>3. pauses \in Nat /\ N \in Nat /\ MaxRetries \in Nat /\ st.index \in 0..N \cup {None}
      BY CountFacts, ChannelFacts DEF ApplyInv
    <3>4. st.pattern /\ st.queue /\ pauses >= N
      BY <3>1, <3>2, <3>3, LoopAssumption DEF OutOfTurns
    <3>5. st.index # None
      BY <1>1, <3>1, <3>4 DEF RestInv
    <3>6. QED
      BY <3>1, <3>2, <3>4, <3>5 DEF CompoundShape, Due
  <2>3. CASE LoopReturn
    <3>1. at = "END" /\ st' = st
      BY <1>1, <2>3 DEF LoopReturn, graphVars
    <3>2. QED
      BY <1>1, <3>1 DEF RestInv
  <2>4. CASE StartFresh \/ StartCheckpoint \/ Clarify \/ FixAndContinue \/ Proceed \/ LoopTurn
    BY <1>1, <2>4 DEF StartFresh, StartCheckpoint, Clarify, FixAndContinue, Begin, Proceed,
       EnterLoop, LoopTurn
  <2>5. QED
    BY <1>3, <2>1, <2>2, <2>3, <2>4 DEF Command, Gate, Loop
<1>4. CASE Graph
  <2>1. phase = "reported"
    BY <1>1, <1>4 DEF Graph, loopVars
  <2>2. Returned
    BY <2>1 DEF ApplyInv, RunningInv
  <2>3. at \in Node
    BY <1>4 DEF Graph, GraphStep, IntentUnderstood, IntentRejected, QueryHandler,
       SchemaFetcher, CompoundDispatcher, PlanGenerator, ValidateDesiredState,
       PreflightGuard, HumanApproval, ResourceProvisioner, SkipProvision,
       RefuseProvision, LoseAnswer, CreateDirect, CreateAsync, StatusPoller, PollFails,
       PollThrottled, PollAnswered, ResultFormatter, FormatCompoundAdvance,
       FormatCompoundSuccess, FormatOutOfBounds, FormatEnd, FormatPlan, Return, Node
  <2>4. QED
    BY <2>2, <2>3 DEF Returned, Node
<1>5. CASE World \/ UNCHANGED vars
  BY <1>1, <1>2, <1>5 DEF World, CloudControl, Settle, vars, graphVars, loopVars
<1>6. QED
  BY <1>3, <1>4, <1>5 DEF Next

\* A retry that graph-routing.ts promises is made, unless it is a pattern's and
\* the cursor and the retries together have reached the length of the queue.
THEOREM RetriesAreRunInTurn == Spec => []RetryIsRunInTurn
<1>1. Init => RestInv /\ RetryIsRunInTurn
  BY DEF Init, NewThread, RestInv, RetryIsRunInTurn
<1>2. ApplyInv /\ PacedInv /\ RestInv /\ RetryIsRunInTurn /\ [Next]_vars
        => RestInv' /\ RetryIsRunInTurn'
  BY RestStep, RetryStep
<1>3. QED
  BY <1>1, <1>2, ApplyInvariant, ApplyKeepsPace, PTL DEF Spec

-----------------------------------------------------------------------------
(* Refinement.                                                              *)

\* What the abstract specification sees of a step that adds a request or settles
\* one: the attempts and the parts that exist can only become more.
LEMMA RefinesCreate ==
  ASSUME ApplyInv, ApplyInv', WholePlans, Creates
  PROVE  [Ordered!Next]_(Ordered!vars)
<1> DEFINE A == {requests[i].slot : i \in DOMAIN requests}
           X == {slot \in Slots : Exists(slot)}
<1>1. /\ at = "resource_provisioner" /\ Provisions(st) /\ requests \in Seq(Request)
      /\ consent' = consent /\ tty' = tty
  BY ChannelFacts DEF ApplyInv, Creates, LoseAnswer, CreateDirect, CreateAsync
<1>2. Sanctioned /\ st.desired \in Provisionable
  BY <1>1, AtProvisioner, PlansProvisionable
<1>3. PICK outcome \in {"ok", "pending"} : Submit(outcome)
  BY DEF Creates, LoseAnswer, CreateDirect, CreateAsync
<1>4. /\ DOMAIN requests = 1..Len(requests) /\ DOMAIN requests' = 1..(Len(requests) + 1)
      /\ Len(requests) \in Nat
      /\ requests'[Len(requests) + 1].slot = st.desired
      /\ requests'[Len(requests) + 1].outcome = outcome
      /\ \A i \in 1..Len(requests) : requests'[i] = requests[i]
  BY <1>1, <1>3 DEF Submit
<1>5. A' = A \cup {st.desired}
  BY <1>4
<1>6. \A t : Exists(t)' <=> (Exists(t) \/ (t = st.desired /\ outcome = "ok"))
  <2>1. ASSUME NEW t
        PROVE  (\E i \in DOMAIN requests' :
                   requests'[i].slot = t /\ requests'[i].outcome = "ok")
                 <=> (Exists(t) \/ (t = st.desired /\ outcome = "ok"))
    BY <1>4 DEF Exists
  <2>2. QED
    BY <2>1 DEF Exists
<1>7. X' = IF outcome = "ok" THEN X \cup {st.desired} ELSE X
  BY <1>2, <1>6 DEF Provisionable
<1>8. Sanctioned'
  <2>1. st \in Channels
    BY ChannelFacts DEF ApplyInv
  <2>2. st'.resumed = st.resumed
    BY <2>1 DEF Creates, LoseAnswer, CreateDirect, CreateAsync, With, Channels
  <2>3. QED
    BY <1>1, <1>2, <2>2 DEF Sanctioned
<1>9. ASSUME NEW q \in Provisionable, q < st.desired
      PROVE  q \in X
  <2>1. DependencyOrder'
    BY WholePlans DEF ApplyInv, RequestInv
  <2>2. \E j \in 1..Len(requests) : requests'[j].slot = q /\ requests'[j].outcome = "ok"
    BY <1>4, <1>9, <2>1 DEF DependencyOrder
  <2>3. QED
    BY <1>4, <2>2 DEF Exists, Provisionable
<1>10. QED
  BY <1>2, <1>5, <1>7, <1>8, <1>9
     DEF Ordered!Next, Ordered!Attempt, Ordered!Appear, Ordered!vars

\* A request that is settled is a part that appears, or a stutter.
LEMMA RefinesSettle ==
  ASSUME ApplyInv, WholePlans, CloudControl
  PROVE  [Ordered!Next]_(Ordered!vars)
<1> DEFINE A == {requests[i].slot : i \in DOMAIN requests}
           X == {slot \in Slots : Exists(slot)}
<1>1. PICK i \in DOMAIN requests, outcome \in {"ok", "failed", "dns"} :
        Settle(i, outcome)
  BY DEF CloudControl
<1>2. /\ requests[i].outcome = "pending" /\ Sanctioned' = Sanctioned
      /\ requests' = [requests EXCEPT ![i].outcome = outcome]
  BY <1>1 DEF Settle, Sanctioned
<1>3. \A j \in DOMAIN requests : requests[j] \in Request
  BY ChannelFacts DEF ApplyInv
<1>4. /\ DOMAIN requests' = DOMAIN requests
      /\ \A j \in DOMAIN requests :
           /\ requests'[j].slot = requests[j].slot
           /\ requests'[j].outcome = IF j = i THEN outcome ELSE requests[j].outcome
  BY <1>2, <1>3 DEF Request
<1>5. A' = A /\ requests[i].slot \in A /\ requests[i].slot \in Provisionable
  BY <1>4 DEF ApplyInv, RequestInv
<1>6. \A t : Exists(t)' <=> (Exists(t) \/ (t = requests[i].slot /\ outcome = "ok"))
  <2>1. ASSUME NEW t
        PROVE  (\E j \in DOMAIN requests' :
                   requests'[j].slot = t /\ requests'[j].outcome = "ok")
                 <=> (Exists(t) \/ (t = requests[i].slot /\ outcome = "ok"))
    BY <1>2, <1>4 DEF Exists
  <2>2. QED
    BY <2>1 DEF Exists
<1>7. X' = IF outcome = "ok" THEN X \cup {requests[i].slot} ELSE X
  BY <1>5, <1>6 DEF Provisionable
<1>8. QED
  BY <1>2, <1>5, <1>7 DEF Ordered!Next, Ordered!Appear, Ordered!vars

\* Every other step is a sanction or a stutter of the abstract apply.
LEMMA RefinesRest ==
  ASSUME requests' = requests, Sanctioned => Sanctioned',
         Sanctioned \in BOOLEAN, Sanctioned' \in BOOLEAN
  PROVE  [Ordered!Next]_(Ordered!vars)
<1> DEFINE A == {requests[i].slot : i \in DOMAIN requests}
           X == {slot \in Slots : Exists(slot)}
<1>1. A' = A
  OBVIOUS
<1>2. X' = X
  BY DEF Exists
<1>3. QED
  BY <1>1, <1>2 DEF Ordered!Next, Ordered!Sanction, Ordered!vars

\* A run that has all of its plan implements the abstract specification: once
\* the operator has sanctioned the plan, its parts come into being one after the
\* other, each only when all the parts before it exist.
THEOREM ApplyImplementsOrderedApply ==
  ASSUME WholePlans
  PROVE  Spec => ImplementsOrderedApply
<1>1. ASSUME Init
      PROVE  Ordered!Init
  <2>1. requests = <<>> /\ Sanctioned = FALSE
    BY <1>1 DEF Init, Sanctioned, NewThread
  <2>2. DOMAIN requests = {}
    BY <2>1
  <2>3. {requests[i].slot : i \in DOMAIN requests} = {}
    BY <2>2
  <2>4. {slot \in Slots : Exists(slot)} = {}
    BY <2>2 DEF Exists
  <2>5. QED
    BY <2>1, <2>3, <2>4 DEF Ordered!Init
<1>2. ASSUME ApplyInv, ApplyInv', [Next]_vars
      PROVE  [Ordered!Next]_(Ordered!vars)
  <2>1. CASE Creates
    BY <1>2, <2>1, WholePlans, RefinesCreate
  <2>2. CASE CloudControl
    BY <1>2, <2>2, WholePlans, RefinesSettle
  <2>3. CASE requests' = requests /\ (Sanctioned => Sanctioned')
    <3>1. Sanctioned \in BOOLEAN /\ Sanctioned' \in BOOLEAN
      BY DEF Sanctioned
    <3>2. QED
      BY <2>3, <3>1, RefinesRest
  <2>4. QED
    BY <1>2, <2>1, <2>2, <2>3, StepKinds
<1>3. QED
  BY <1>1, <1>2, ApplyInvariant, PTL DEF Spec, ImplementsOrderedApply, Ordered!Spec
=============================================================================
