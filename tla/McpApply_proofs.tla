--------------------------- MODULE McpApply_proofs ---------------------------
(***************************************************************************)
(* The safety of apply_plan, for any number of calls of the tool, every    *)
(* length of the queue, every choice of companions and retryable slots and *)
(* every budget: one apply is at work at a time, it creates its resource   *)
(* once, and the SUCCESS it answers is its own.                            *)
(***************************************************************************)
EXTENDS McpApply, AgentGraph_proofs

\* What the types say of the thread.
LEMMA ThreadFacts ==
  ASSUME TypeOK
  PROVE  /\ st \in Channels
         /\ st.status \in Status
         /\ st.queue \in BOOLEAN /\ st.auto \in BOOLEAN /\ st.resumed \in BOOLEAN
         /\ st.desired \in Slots \cup {None} /\ st.type \in Slots \cup {None}
         /\ st.token \in 0..Len(requests)
         /\ requests \in Seq(Request) /\ Len(requests) \in Nat
         /\ since \in Nat
         /\ DOMAIN requests = 1..Len(requests)
BY DEF TypeOK, GraphTypeOK, ThreadTypeOK, TokenIsReal, Channels

\* The channels that an apply starts from are well typed.
LEMMA McpInputType ==
  ASSUME NEW s \in Channels, NEW pattern \in BOOLEAN
  PROVE  /\ McpInput(s, pattern) \in Channels
         /\ McpInput(s, pattern).token = s.token
         /\ McpInput(s, pattern).index = s.index
         /\ McpInput(s, pattern).status = s.status
         /\ McpInput(s, pattern).desired \in Slots
         /\ McpInput(s, pattern).resumed /\ McpInput(s, pattern).auto
BY SlotFacts DEF McpInput, Channels

\* A step of a handler moves its call, and keeps everything else in its type.
LEMMA HandlerTypes ==
  ASSUME TypeOK, NEW c \in Call, Receive(c) \/ Handle(c) \/ InvokeThrows(c)
  PROVE  TypeOK'
<1> USE ThreadFacts DEF TypeOK, GraphTypeOK, ThreadTypeOK, TokenIsReal, Working, Answer,
       Move, Respond, Settled, KeepGraph, graphVars
<1>1. CASE InvokeCheckpoint(c)
  <2>1. PICK pattern \in BOOLEAN : Invoke(McpInput(st, pattern))
    BY <1>1 DEF InvokeCheckpoint, Channels
  <2>2. st' \in Channels /\ st'.token = st.token
    BY <2>1, McpInputType DEF Invoke
  <2>3. at' \in Node
    BY <2>1 DEF Invoke, RouteCheckpointEntry, Node
  <2>4. QED
    BY <1>1, <2>2, <2>3 DEF InvokeCheckpoint
<1>2. CASE Resume(c)
  BY <1>2 DEF Resume, InvokeNull, Node, toolVars
<1>3. CASE \/ Receive(c) \/ Refuse(c) \/ Guard(c) \/ Block(c) \/ StartLoop(c) \/ Pause(c)
  BY <1>3 DEF Receive, Refuse, Guard, Block, StartLoop, Pause
<1>4. CASE TimeOut(c) \/ Finished(c) \/ Release(c) \/ InvokeThrows(c)
  BY <1>4 DEF TimeOut, Finished, Release, InvokeThrows
<1>5. QED
  BY <1>1, <1>2, <1>3, <1>4 DEF Handle

\* Every step keeps the types.
LEMMA TypeStep == TypeOK /\ [Next]_vars => TypeOK'
<1> SUFFICES ASSUME TypeOK, [Next]_vars
             PROVE  TypeOK'
  OBVIOUS
<1>1. CASE Graph
  BY <1>1, GraphTypes DEF Graph, TypeOK, toolVars
<1>2. CASE World
  BY <1>2, CloudTypes DEF World, TypeOK, toolVars
<1>3. ASSUME NEW c \in Call, Receive(c) \/ Handle(c) \/ InvokeThrows(c)
      PROVE  TypeOK'
  BY <1>3, HandlerTypes
<1>4. CASE UNCHANGED vars
  BY <1>4 DEF vars, graphVars, toolVars, TypeOK, GraphTypeOK, ThreadTypeOK, TokenIsReal
<1>5. QED
  BY <1>1, <1>2, <1>3, <1>4 DEF Next

-----------------------------------------------------------------------------
(* Steps of the graph.                                                      *)

\* What is true while the graph runs for call c: nobody else is at work.
LEMMA TheOneAtWork ==
  ASSUME McpInv, NEW c \in Call, InProgress(c)
  PROVE  active /\ \A d \in Call : InProgress(d) => d = c
BY DEF McpInv, PathActiveWhileApplied

\* A step that leaves the tool alone is sound when the call at work is.
LEMMA ForTheOneAtWork ==
  ASSUME McpInv, NEW c \in Call, InProgress(c), TypeOK', UNCHANGED toolVars,
         ThreadInv', Len(requests') >= Len(requests), CallInv(c)'
  PROVE  McpInv'
<1>1. PathActiveWhileApplied'
  BY DEF McpInv, PathActiveWhileApplied, InProgress, toolVars
<1>2. since' <= Len(requests)'
  BY ThreadFacts DEF McpInv, TypeOK, GraphTypeOK, ThreadTypeOK, toolVars
<1>3. ASSUME NEW d \in Call
      PROVE  CallInv(d)'
  <2>1. CASE InProgress(d)
    BY <2>1, TheOneAtWork
  <2>2. CASE ~InProgress(d)
    BY <2>2 DEF CallInv, StartInv, ResumedInv, InProgress, Working, toolVars
  <2>3. QED
    BY <2>1, <2>2
<1>4. QED
  BY <1>1, <1>2, <1>3 DEF McpInv

\* Planning again, after an error: intent_parser and query_handler create
\* nothing and find no SUCCESS.
LEMMA IntentStep ==
  ASSUME McpInv, NEW c \in Call, call[c] = "phase1", UNCHANGED toolVars, TypeOK',
         IntentUnderstood \/ IntentRejected \/ QueryHandler
  PROVE  McpInv'
<1>0. InProgress(c) /\ st \in Channels
  BY ThreadFacts DEF InProgress, Working, McpInv
<1>1. requests' = requests
  BY DEF IntentUnderstood, IntentRejected, QueryHandler, Return, KeepOutside
<1>2. st'.index = st.index /\ st'.desired = st.desired /\ st'.auto = st.auto
  BY <1>0 DEF IntentUnderstood, IntentRejected, QueryHandler, Return, Understood, With,
     Channels
<1>3. /\ at' \in {"result_formatter", "query_handler"}
      /\ st'.status \in {"FAILED", "UNSUPPORTED_RESOURCE", "QUERY_INTENT"}
  <2>1. CASE IntentUnderstood
    <3>1. st.status \in {"FAILED", "UNSUPPORTED_RESOURCE"}
      BY <2>1 DEF IntentUnderstood, Return, McpInv, ThreadInv
    <3>2. st'.status = st.status
      BY <1>0, <2>1 DEF IntentUnderstood, Return, Understood, Channels
    <3>3. QED
      BY <2>1, <3>1, <3>2 DEF IntentUnderstood, RouteIntentParser, Goto
  <2>2. CASE IntentRejected
    <3>1. st'.status \in {"FAILED", "UNSUPPORTED_RESOURCE", "QUERY_INTENT"}
      BY <1>0, <2>2 DEF IntentRejected, Return, With, Channels
    <3>2. QED
      BY <2>2, <3>1 DEF IntentRejected, RouteIntentParser, Goto
  <2>3. CASE QueryHandler
    BY <1>0, <2>3 DEF QueryHandler, Return, With, Channels, Goto
  <2>4. QED
    BY <2>1, <2>2, <2>3
<1>4. at # "END"
  BY DEF IntentUnderstood, IntentRejected, QueryHandler, Return
<1>5. ThreadInv'
  BY <1>2, <1>3, <1>4 DEF McpInv, ThreadInv
<1>6. CallInv(c)'
  BY <1>1, <1>3 DEF McpInv, CallInv, StartInv, ResumedInv, toolVars
<1>7. QED
  BY <1>0, <1>1, <1>5, <1>6, ThreadFacts, ForTheOneAtWork DEF McpInv

\* human_approval approves what the client has confirmed.
LEMMA ApprovalStep ==
  ASSUME McpInv, NEW c \in Call, call[c] = "phase1", UNCHANGED toolVars, TypeOK',
         HumanApproval
  PROVE  McpInv'
<1>0. InProgress(c)
  BY DEF InProgress, Working
<1>1. st' = st /\ at' = "interrupt" /\ requests' = requests /\ at # "END"
  BY DEF McpInv, ThreadInv, HumanApproval, Goto
<1>2. ThreadInv'
  BY <1>1 DEF McpInv, ThreadInv
<1>3. CallInv(c)'
  BY <1>1 DEF McpInv, CallInv, StartInv, ResumedInv, toolVars
<1>4. QED
  BY <1>0, <1>1, <1>2, <1>3, ThreadFacts, ForTheOneAtWork DEF McpInv

\* resource_provisioner: everything before has come to nothing, so whatever it
\* requests is the only request that may still come to something.
LEMMA ProvisionStep ==
  ASSUME McpInv, NEW c \in Call, call[c] = "running", UNCHANGED toolVars, TypeOK',
         ResourceProvisioner
  PROVE  McpInv'
<1>0. /\ InProgress(c) /\ st \in Channels /\ requests \in Seq(Request)
      /\ Len(requests) \in Nat /\ since \in Nat /\ since <= Len(requests)
  BY ThreadFacts DEF InProgress, Working, McpInv
<1>1. at = "resource_provisioner" /\ AllDns /\ st.index = None /\ st.status # "CANCELLED"
      /\ st.desired # None /\ st.auto
  BY DEF McpInv, ThreadInv, CallInv, ResumedInv, ResourceProvisioner, SkipProvision,
     RefuseProvision, LoseAnswer, CreateDirect, CreateAsync
<1>2. ~AtCompanion(st)
  BY <1>1, QueueAssumption DEF AtCompanion, Cursor
<1>3. /\ st'.index = None /\ st'.desired = st.desired /\ st'.auto
      /\ st'.status \in {"FAILED", "SUCCESS", "IN_PROGRESS"}
  BY <1>0, <1>1, <1>2 DEF ResourceProvisioner, SkipProvision, RefuseProvision, LoseAnswer,
     CreateDirect, CreateAsync, With, Channels, Provisions
<1>4. at' = IF st'.status = "IN_PROGRESS" THEN "status_poller" ELSE "result_formatter"
  BY DEF ResourceProvisioner, SkipProvision, RefuseProvision, LoseAnswer,
     CreateDirect, CreateAsync, Goto, RouteResourceProvisioner
<1>5. ThreadInv'
  BY <1>1, <1>3, <1>4 DEF ThreadInv
<1>6. CASE SkipProvision \/ RefuseProvision
  <2>1. requests' = requests /\ st'.status = "FAILED"
    BY <1>0, <1>1, <1>2, <1>6 DEF SkipProvision, RefuseProvision, KeepOutside, With,
       Channels, Provisions
  <2>2. OnlyRetries'
    BY <1>1, <2>1 DEF AllDns, OnlyRetries, Mine, toolVars
  <2>3. CallInv(c)'
    BY <1>4, <2>1, <2>2 DEF CallInv, StartInv, ResumedInv, toolVars
  <2>4. QED
    BY <1>0, <1>5, <2>1, <2>3, ForTheOneAtWork
<1>7. CASE LoseAnswer \/ CreateDirect \/ CreateAsync
  <2>1. PICK outcome \in Outcome : Submit(outcome) /\ (st'.status = "SUCCESS" => outcome = "ok")
    BY <1>0, <1>7 DEF LoseAnswer, CreateDirect, CreateAsync, Outcome, With, Channels
  <2>2. /\ Len(requests') = Len(requests) + 1
        /\ \A i \in 1..Len(requests) : requests'[i] = requests[i]
        /\ requests'[Len(requests) + 1].slot = st.desired
        /\ requests'[Len(requests) + 1].outcome = outcome
    BY <1>0, <2>1 DEF Submit
  <2>3. OnlyRetries'
    BY <1>0, <1>1, <2>2 DEF AllDns, OnlyRetries, Mine, toolVars
  <2>4. st'.status = "SUCCESS" => Own'
    <3>1. Len(requests) + 1 \in Mine'
      BY <1>0, <2>2 DEF Mine, toolVars
    <3>2. QED
      BY <1>3, <2>1, <2>2, <3>1 DEF Own
  <2>5. st'.status = "IN_PROGRESS" => st'.token = Len(requests) + 1
    BY <1>0, <1>7 DEF LoseAnswer, CreateDirect, CreateAsync, With, Channels
  <2>6. CallInv(c)'
    BY <1>0, <1>3, <1>4, <2>2, <2>3, <2>4, <2>5
       DEF CallInv, StartInv, ResumedInv, toolVars
  <2>7. QED
    BY <1>0, <1>5, <2>2, <2>6, ForTheOneAtWork
<1>8. QED
  BY <1>6, <1>7 DEF ResourceProvisioner

\* status_poller: a verdict is about the last request, and only one that came
\* to nothing sends the thread back.
LEMMA PollStep ==
  ASSUME McpInv, NEW c \in Call, call[c] = "running", UNCHANGED toolVars, TypeOK',
         StatusPoller
  PROVE  McpInv'
<1>0. /\ InProgress(c) /\ st \in Channels /\ requests \in Seq(Request)
      /\ Len(requests) \in Nat /\ since \in Nat
  BY ThreadFacts DEF InProgress, Working, McpInv
<1>1. /\ at = "status_poller" /\ OnlyRetries /\ since < st.token
      /\ st.token = Len(requests) /\ requests[st.token].slot = st.desired
      /\ st.index = None /\ st.desired # None /\ st.auto
  BY DEF McpInv, ThreadInv, CallInv, ResumedInv, StatusPoller, PollFails, PollThrottled,
     PollAnswered, Return
<1>2. requests' = requests /\ requests[st.token].outcome \in Outcome
  <2>1. requests[st.token] \in Request
    BY <1>0, <1>1
  <2>2. QED
    BY <2>1 DEF Request, StatusPoller, PollFails, PollThrottled, PollAnswered, Return,
       KeepOutside
<1>3. /\ st'.index = None /\ st'.desired = st.desired /\ st'.auto
      /\ st'.status \in {"FAILED", "SUCCESS", "IN_PROGRESS"}
      /\ st'.status = "SUCCESS" => requests[st.token].outcome = "ok"
      /\ st'.status = "IN_PROGRESS" =>
           \/ st'.token = st.token
           \/ st'.token = 0 /\ requests[st.token].outcome = "dns"
  <2>1. CASE PollFails \/ PollThrottled
    BY <1>0, <1>1, <2>1 DEF PollFails, PollThrottled, Return, With, Channels
  <2>2. CASE PollAnswered
    <3>1. st' = AfterVerdict(st, requests[st.token].outcome)
      BY <2>2 DEF PollAnswered, Return
    <3>2. QED
      BY <1>0, <1>1, <1>2, <3>1 DEF AfterVerdict, With, Channels, Outcome
  <2>3. QED
    BY <2>1, <2>2 DEF StatusPoller
<1>4. at' = CASE st'.status = "IN_PROGRESS" /\ st'.token = 0 -> "interrupt"
              [] st'.status = "IN_PROGRESS" /\ st'.token # 0 -> "status_poller"
              [] OTHER -> "result_formatter"
  BY DEF StatusPoller, PollFails, PollThrottled, PollAnswered, Goto, RouteStatusPoller
<1>5. ThreadInv'
  BY <1>1, <1>3, <1>4 DEF ThreadInv
<1>6. OnlyRetries'
  BY <1>1, <1>2 DEF OnlyRetries, Mine, toolVars
<1>7. st'.status = "SUCCESS" => Own'
  <2>1. st.token \in Mine'
    BY <1>0, <1>1, <1>2 DEF Mine, toolVars
  <2>2. QED
    BY <1>1, <1>2, <1>3, <2>1 DEF Own
<1>8. at' = "interrupt" => AllDns'
  <2>1. at' = "interrupt" => requests[Len(requests)].outcome = "dns"
    BY <1>0, <1>1, <1>3, <1>4
  <2>2. QED
    BY <1>0, <1>1, <1>2, <2>1 DEF OnlyRetries, AllDns, Mine, toolVars
<1>9. CallInv(c)'
  BY <1>0, <1>1, <1>2, <1>3, <1>4, <1>6, <1>7, <1>8
     DEF CallInv, StartInv, ResumedInv, toolVars
<1>10. QED
  BY <1>0, <1>2, <1>5, <1>9, ForTheOneAtWork

\* result_formatter: there is no index, so there is nothing to go on with.
LEMMA FormatStep ==
  ASSUME McpInv, NEW c \in Call, call[c] \in {"phase1", "running"}, UNCHANGED toolVars,
         TypeOK', ResultFormatter
  PROVE  McpInv'
<1>0. InProgress(c) /\ st \in Channels
  BY ThreadFacts DEF InProgress, Working, McpInv
<1>1. at = "result_formatter" /\ st.index = None
  BY DEF McpInv, ThreadInv, ResultFormatter, FormatCompoundAdvance,
     FormatCompoundSuccess, FormatOutOfBounds, FormatEnd, FormatPlan
<1>2. st.status \in {"SUCCESS", "FAILED", "UNSUPPORTED_RESOURCE", "QUERY_INTENT"}
  BY <1>1 DEF McpInv, ThreadInv
<1>3. ~CompoundShape(st)
  BY <1>1 DEF CompoundShape
<1>4. FormatEnd
  BY <1>2, <1>3 DEF ResultFormatter, FormatCompoundAdvance, FormatCompoundSuccess,
     FormatOutOfBounds, FormatPlan
<1>5. st' = st /\ at' = "END" /\ requests' = requests
  BY <1>3, <1>4 DEF FormatEnd, Finish, RouteResultFormatter, Goto, KeepOutside
<1>6. ThreadInv'
  BY <1>1, <1>5 DEF McpInv, ThreadInv
<1>7. CallInv(c)'
  BY <1>1, <1>5 DEF McpInv, CallInv, StartInv, ResumedInv, OnlyRetries, AllDns, Own, Mine,
     toolVars
<1>8. QED
  BY <1>0, <1>5, <1>6, <1>7, ThreadFacts, ForTheOneAtWork DEF McpInv

\* The node that runs is one of these.
LEMMA GraphSafe ==
  ASSUME McpInv, Graph, TypeOK'
  PROVE  McpInv'
<1>1. PICK c \in Call : call[c] \in {"phase1", "running"}
  BY DEF Graph
<1>2. GraphStep /\ UNCHANGED toolVars
  BY DEF Graph
<1>3. at \notin {"schema_fetcher", "compound_dispatcher", "plan_generator",
                "validate_desired_state", "preflight_guard"}
  BY DEF McpInv, ThreadInv
<1>4. \/ IntentUnderstood \/ IntentRejected \/ QueryHandler \/ HumanApproval
      \/ ResourceProvisioner \/ StatusPoller \/ ResultFormatter
  BY <1>2, <1>3 DEF GraphStep, SchemaFetcher, CompoundDispatcher, PlanGenerator,
     ValidateDesiredState, PreflightGuard, Return
<1>5. CASE call[c] = "phase1"
  <2>1. ~(ResourceProvisioner \/ StatusPoller)
    BY <1>5 DEF McpInv, CallInv, StartInv, ResourceProvisioner, SkipProvision,
       RefuseProvision, LoseAnswer, CreateDirect, CreateAsync, StatusPoller, PollFails,
       PollThrottled, PollAnswered, Return
  <2>2. QED
    BY <1>2, <1>4, <1>5, <2>1, IntentStep, ApprovalStep, FormatStep
<1>6. CASE call[c] = "running"
  <2>1. ~(IntentUnderstood \/ IntentRejected \/ QueryHandler \/ HumanApproval)
    BY <1>6 DEF McpInv, CallInv, ResumedInv, IntentUnderstood, IntentRejected,
       QueryHandler, HumanApproval, Return
  <2>2. QED
    BY <1>2, <1>4, <1>6, <2>1, ProvisionStep, PollStep, FormatStep
<1>7. QED
  BY <1>1, <1>5, <1>6

\* CloudControl settles what is pending: what came to nothing and what exists
\* stay what they are.
LEMMA WorldSafe ==
  ASSUME McpInv, World, TypeOK'
  PROVE  McpInv'
<1>0. requests \in Seq(Request) /\ Len(requests) \in Nat /\ since \in Nat
  BY ThreadFacts DEF McpInv
<1>1. PICK k \in DOMAIN requests, outcome \in {"ok", "failed", "dns"} : Settle(k, outcome)
  BY DEF World, CloudControl
<1>2. /\ UNCHANGED <<st, at, toolVars>>
      /\ Len(requests') = Len(requests)
      /\ \A i \in 1..Len(requests) :
           /\ requests'[i].slot = requests[i].slot
           /\ requests[i].outcome \in {"ok", "dns"} =>
                requests'[i].outcome = requests[i].outcome
  <2>1. \A i \in 1..Len(requests) : requests[i] \in Request
    BY <1>0
  <2>2. QED
    BY <1>0, <1>1, <2>1 DEF Settle, World, Request
<1>3. since' = since /\ call' = call /\ answer' = answer /\ active' = active
  BY <1>2 DEF toolVars
<1>4. Mine' = Mine /\ Mine \subseteq 1..Len(requests)
  BY <1>0, <1>2, <1>3 DEF Mine
<1>5. /\ AllDns => AllDns'
      /\ OnlyRetries => OnlyRetries'
      /\ Own => Own'
  BY <1>2, <1>4 DEF AllDns, OnlyRetries, Own
<1>6. ASSUME NEW c \in Call
      PROVE  CallInv(c)'
  <2>1. CallInv(c)
    BY DEF McpInv
  <2>2. StartInv(c)'
    BY <1>2, <1>3, <2>1 DEF CallInv, StartInv
  <2>3. ResumedInv(c)'
    BY <1>0, <1>2, <1>3, <1>5, <2>1, ThreadFacts DEF McpInv, CallInv, ResumedInv
  <2>4. QED
    BY <2>2, <2>3 DEF CallInv
<1>7. ThreadInv'
  BY <1>2 DEF McpInv, ThreadInv
<1>8. PathActiveWhileApplied'
  BY <1>3 DEF McpInv, PathActiveWhileApplied, InProgress
<1>9. QED
  BY <1>2, <1>3, <1>6, <1>7, <1>8 DEF McpInv

-----------------------------------------------------------------------------
(* Steps of a handler.                                                      *)

\* The other calls are where they were, with the thread as it was.
LEMMA OthersUndisturbed ==
  ASSUME McpInv, NEW c \in Call, NEW d \in Call, d # c,
         call'[d] = call[d], answer'[d] = answer[d],
         \/ UNCHANGED <<st, at, requests, since>>
         \/ ~InProgress(d)
  PROVE  CallInv(d)'
<1>1. CASE UNCHANGED <<st, at, requests, since>>
  BY <1>1 DEF McpInv, CallInv, StartInv, ResumedInv, AllDns, OnlyRetries, Own, Mine
<1>2. CASE ~InProgress(d)
  BY <1>2 DEF InProgress, Working, CallInv, StartInv, ResumedInv
<1>3. QED
  BY <1>1, <1>2

\* A call that begins or ends its work marks and releases the path.
LEMMA PathKept ==
  ASSUME McpInv, NEW c \in Call, NEW to,
         call' = [call EXCEPT ![c] = to],
         \/ active' = active /\ (InProgress(c) <=> to \in Working)
         \/ ~active /\ active' = TRUE /\ to \in Working
         \/ InProgress(c) /\ active' = FALSE /\ to \notin Working
  PROVE  PathActiveWhileApplied'
BY DEF McpInv, TypeOK, PathActiveWhileApplied, InProgress

\* Every step of a handler keeps the invariant.
LEMMA HandlerSafe ==
  ASSUME McpInv, NEW c \in Call, Receive(c) \/ Handle(c) \/ InvokeThrows(c), TypeOK'
  PROVE  McpInv'
<1>0. /\ call \in [Call -> {"idle", "loading", "answered"} \cup Working]
      /\ answer \in [Call -> Answer]
      /\ Len(requests) \in Nat /\ since \in Nat /\ since <= Len(requests)
      /\ CallInv(c) /\ ThreadInv
  BY ThreadFacts DEF McpInv, TypeOK
<1>1. ASSUME Receive(c) \/ Refuse(c) \/ Block(c)
      PROVE  McpInv'
  <2>1. /\ UNCHANGED <<st, at, requests, since>>
        /\ call'[c] \in {"loading", "answered"}
        /\ \A d \in Call : d # c => call'[d] = call[d] /\ answer'[d] = answer[d]
    BY <1>0, <1>1 DEF Receive, Refuse, Block, Move, Respond, KeepGraph, graphVars
  <2>2. PathActiveWhileApplied'
    BY <1>0, <1>1, PathKept DEF Receive, Refuse, Block, Move, InProgress, Working
  <2>3. CallInv(c)'
    BY <2>1 DEF CallInv, StartInv, ResumedInv
  <2>4. QED
    BY <1>0, <2>1, <2>2, <2>3, OthersUndisturbed DEF McpInv, ThreadInv
<1>2. ASSUME Guard(c)
      PROVE  McpInv'
  <2>1. /\ UNCHANGED <<st, at, requests>> /\ since' = Len(requests)
        /\ call'[c] = "guarded"
        /\ \A d \in Call : d # c => call'[d] = call[d] /\ answer'[d] = answer[d]
    BY <1>0, <1>2 DEF Guard, Move, KeepGraph, graphVars
  <2>2. PathActiveWhileApplied'
    BY <1>0, <1>2, PathKept DEF Guard, Move, Working
  <2>3. CallInv(c)'
    BY <1>0, <2>1 DEF CallInv, StartInv, ResumedInv
  <2>4. \A d \in Call : ~InProgress(d)
    BY <1>2 DEF Guard, McpInv, PathActiveWhileApplied
  <2>5. QED
    BY <1>0, <2>1, <2>2, <2>3, <2>4, OthersUndisturbed DEF McpInv, ThreadInv
<1>3. ASSUME InvokeCheckpoint(c)
      PROVE  McpInv'
  <2>0. call[c] = "guarded" /\ Len(requests) = since
    BY <1>0, <1>3 DEF InvokeCheckpoint, Move, CallInv, StartInv
  <2>1. PICK pattern \in BOOLEAN : Invoke(McpInput(st, pattern))
    BY <1>3, ThreadFacts DEF InvokeCheckpoint, McpInv
  <2>2. /\ st'.index = st.index /\ st'.status = st.status
        /\ st'.desired \in Slots /\ st'.resumed /\ st'.auto
    BY <2>1, McpInputType, ThreadFacts DEF Invoke, McpInv
  <2>3. st'.desired # None
    BY <2>2, NoneAssumption DEF Slots
  <2>4. at' = IF st'.status \in Terminal THEN "intent_parser" ELSE "human_approval"
    BY <2>1, <2>2, <2>3 DEF Invoke, RouteCheckpointEntry
  <2>5. ThreadInv'
    BY <1>0, <2>2, <2>3, <2>4 DEF ThreadInv, Terminal
  <2>6. /\ UNCHANGED <<requests, since, active>> /\ call'[c] = "phase1"
        /\ \A d \in Call : d # c => call'[d] = call[d] /\ answer'[d] = answer[d]
    BY <1>0, <1>3 DEF InvokeCheckpoint, Move
  <2>7. PathActiveWhileApplied'
    BY <1>0, <1>3, PathKept DEF InvokeCheckpoint, Move, InProgress, Working
  <2>8. CallInv(c)'
    BY <2>0, <2>4, <2>6 DEF CallInv, StartInv, ResumedInv
  <2>9. \A d \in Call : d # c => ~InProgress(d)
    BY <2>0, TheOneAtWork DEF InProgress, Working
  <2>10. QED
    BY <1>0, <2>5, <2>6, <2>7, <2>8, <2>9, OthersUndisturbed DEF McpInv
<1>4. ASSUME StartLoop(c) \/ Pause(c)
      PROVE  McpInv'
  <2>1. /\ UNCHANGED <<st, at, requests, since>>
        /\ \/ call[c] = "phase1" /\ call'[c] = "first" /\ Returned
           \/ call[c] = "running" /\ call'[c] = "again" /\ at = "interrupt"
        /\ \A d \in Call : d # c => call'[d] = call[d] /\ answer'[d] = answer[d]
    BY <1>0, <1>4 DEF StartLoop, Pause, Move, KeepGraph, graphVars
  <2>2. PathActiveWhileApplied'
    BY <1>0, <1>4, PathKept DEF StartLoop, Pause, Move, InProgress, Working
  <2>3. CallInv(c)'
    BY <1>0, <2>1 DEF CallInv, StartInv, ResumedInv, Returned, AllDns, Mine
  <2>4. QED
    BY <1>0, <2>1, <2>2, <2>3, OthersUndisturbed DEF McpInv, ThreadInv
<1>5. ASSUME Resume(c)
      PROVE  McpInv'
  <2>1. /\ UNCHANGED <<st, requests, since>>
        /\ at' = IF at = "interrupt" THEN "resource_provisioner" ELSE at
        /\ call[c] \in {"first", "again"} /\ call'[c] = "running"
        /\ \A d \in Call : d # c => call'[d] = call[d] /\ answer'[d] = answer[d]
    BY <1>0, <1>5 DEF Resume, Move, InvokeNull, toolVars
  <2>2. PathActiveWhileApplied'
    BY <1>0, <1>5, PathKept DEF Resume, Move, InProgress, Working
  <2>3. at \in {"interrupt", "END"}
    BY <1>0, <2>1 DEF CallInv, StartInv, ResumedInv
  <2>4. at = "interrupt" => AllDns
    BY <1>0, <2>1 DEF CallInv, StartInv, ResumedInv, AllDns, Mine
  <2>5. at = "END" => Len(requests) = since /\ st.status # "SUCCESS"
    BY <1>0, <2>1 DEF CallInv, StartInv, ResumedInv
  <2>6. CallInv(c)'
    BY <1>0, <2>1, <2>3, <2>4, <2>5
       DEF CallInv, StartInv, ResumedInv, AllDns, OnlyRetries, Mine
  <2>7. \A d \in Call : d # c => ~InProgress(d)
    BY <2>1, TheOneAtWork DEF InProgress, Working
  <2>8. QED
    BY <1>0, <2>1, <2>2, <2>3, <2>6, <2>7, OthersUndisturbed DEF McpInv, ThreadInv
<1>6. ASSUME TimeOut(c) \/ Finished(c) \/ InvokeThrows(c)
      PROVE  McpInv'
  <2>1. /\ UNCHANGED <<st, at, requests, since>>
        /\ call'[c] = "audit"
        /\ \/ call[c] = "again" /\ answer'[c] = "timeout"
           \/ call[c] = "running" /\ at = "END"
              /\ answer'[c] = IF st.status = "SUCCESS" THEN "ok" ELSE "error"
           \/ call[c] \in {"phase1", "running"} /\ answer'[c] = "error" /\ at # "END"
        /\ \A d \in Call : d # c => call'[d] = call[d] /\ answer'[d] = answer[d]
    BY <1>0, <1>6 DEF TimeOut, Finished, InvokeThrows, Move, Respond, Settled, KeepGraph,
       graphVars, Returned
  <2>2. PathActiveWhileApplied'
    BY <1>0, <1>6, PathKept DEF TimeOut, Finished, InvokeThrows, Settled, Move,
       InProgress, Working
  <2>3. OnlyRetries
    BY <1>0, <2>1 DEF CallInv, StartInv, ResumedInv, ThreadInv, AllDns, OnlyRetries, Mine
  <2>4. answer'[c] = "ok" => Own
    BY <1>0, <2>1 DEF CallInv, ResumedInv
  <2>5. CallInv(c)'
    BY <2>1, <2>3, <2>4 DEF CallInv, StartInv, ResumedInv, OnlyRetries, Own, Mine
  <2>6. QED
    BY <1>0, <2>1, <2>2, <2>5, OthersUndisturbed DEF McpInv, ThreadInv
<1>7. ASSUME Release(c)
      PROVE  McpInv'
  <2>1. /\ UNCHANGED <<st, at, requests, since>> /\ call'[c] = "answered"
        /\ \A d \in Call : d # c => call'[d] = call[d] /\ answer'[d] = answer[d]
    BY <1>0, <1>7 DEF Release, Move, KeepGraph, graphVars
  <2>2. PathActiveWhileApplied'
    BY <1>0, <1>7, PathKept DEF Release, Move, InProgress, Working
  <2>3. CallInv(c)'
    BY <2>1 DEF CallInv, StartInv, ResumedInv
  <2>4. QED
    BY <1>0, <2>1, <2>2, <2>3, OthersUndisturbed DEF McpInv, ThreadInv
<1>8. QED
  BY <1>1, <1>2, <1>3, <1>4, <1>5, <1>6, <1>7 DEF Handle

-----------------------------------------------------------------------------

\* Every step keeps the invariant.
LEMMA McpInvInductive == McpInv /\ [Next]_vars => McpInv'
<1> SUFFICES ASSUME McpInv, [Next]_vars
             PROVE  McpInv'
  OBVIOUS
<1>1. TypeOK'
  BY TypeStep DEF McpInv
<1>2. CASE Graph
  BY <1>1, <1>2, GraphSafe
<1>3. CASE World
  BY <1>1, <1>3, WorldSafe
<1>4. ASSUME NEW c \in Call, Receive(c) \/ Handle(c) \/ InvokeThrows(c)
      PROVE  McpInv'
  BY <1>1, <1>4, HandlerSafe
<1>5. CASE UNCHANGED vars
  BY <1>1, <1>5 DEF vars, graphVars, toolVars, McpInv, ThreadInv, PathActiveWhileApplied,
     InProgress, CallInv, StartInv, ResumedInv, AllDns, OnlyRetries, Own, Mine
<1>6. QED
  BY <1>2, <1>3, <1>4, <1>5 DEF Next

\* The server that has just started satisfies it.
LEMMA McpInvInit == Init => McpInv
<1> SUFFICES ASSUME Init
             PROVE  McpInv
  OBVIOUS
<1>1. TypeOK
  <2>1. requests \in Seq(Request) /\ st.token = 0 /\ Len(requests) = 0
    BY DEF Init, NewThread
  <2>2. GraphTypeOK
    <3>1. ThreadTypeOK
      BY <2>1, NewThreadType DEF Init, ThreadTypeOK
    <3>2. QED
      BY <2>1, <3>1 DEF GraphTypeOK, TokenIsReal
  <2>3. QED
    BY <2>2 DEF Init, TypeOK, Answer
<1>2. ThreadInv
  BY DEF Init, ThreadInv, NewThread
<1>3. \A c \in Call : call[c] = "idle"
  BY DEF Init
<1>4. PathActiveWhileApplied /\ \A c \in Call : CallInv(c)
  BY <1>3 DEF Init, PathActiveWhileApplied, InProgress, Working, CallInv, StartInv,
     ResumedInv
<1>5. QED
  BY <1>1, <1>2, <1>4 DEF McpInv, Init

\* The inductive invariant of the tool: where the thread can be, and what the
\* requests of the apply in progress have come to, at each step of its handler.
THEOREM McpInvariant == Spec => []McpInv
BY McpInvInit, McpInvInductive, PTL DEF Spec

\* activeApplies has the checkpoint's path exactly while one call is at work,
\* however many calls arrive and however they end.
THEOREM McpPathActive == Spec => []PathActiveWhileApplied
<1>1. McpInv => PathActiveWhileApplied
  BY DEF McpInv
<1>2. QED
  BY <1>1, McpInvariant, PTL

\* One apply never has two requests for its resource that may both come true.
THEOREM McpCreatesOnce == Spec => []CreatesOncePerApply
<1>1. McpInv => CreatesOncePerApply
  <2> SUFFICES ASSUME McpInv, active,
                      NEW i \in (since + 1)..Len(requests),
                      NEW j \in (since + 1)..Len(requests), i < j
               PROVE  requests[i].outcome = "dns"
    BY DEF CreatesOncePerApply
  <2>0. Len(requests) \in Nat /\ since \in Nat
    BY ThreadFacts DEF McpInv
  <2>1. PICK c \in Call : call[c] \in Working /\ CallInv(c)
    BY DEF McpInv, PathActiveWhileApplied, InProgress
  <2>2. Len(requests) # since
    BY <2>0
  <2>3. OnlyRetries
    <3>1. call[c] \in {"running", "again", "audit"}
      BY <2>1, <2>2 DEF Working, CallInv, StartInv
    <3>2. AllDns \/ OnlyRetries
      BY <2>1, <3>1 DEF McpInv, ThreadInv, CallInv, ResumedInv
    <3>3. QED
      BY <3>2 DEF AllDns, OnlyRetries
  <2>4. QED
    BY <2>0, <2>3 DEF OnlyRetries, Mine
<1>2. QED
  BY <1>1, McpInvariant, PTL

\* A call that answers SUCCESS has created its resource itself.
THEOREM McpSuccessIsOwn == Spec => []SuccessIsOwn
<1>1. McpInv => SuccessIsOwn
  BY DEF McpInv, CallInv, ResumedInv, Own, Mine, SuccessIsOwn
<1>2. QED
  BY <1>1, McpInvariant, PTL

-----------------------------------------------------------------------------
(* What an apply can cost.                                                  *)

\* The nodes before the interrupt and the formatter neither request nor count.
LEMMA QuietNodes ==
  ASSUME McpInv,
         \/ IntentUnderstood \/ IntentRejected \/ QueryHandler \/ HumanApproval
         \/ ResultFormatter
  PROVE  requests' = requests /\ st'.retries = st.retries
<1>0. st \in Channels /\ st.index = None
  BY ThreadFacts DEF McpInv, ThreadInv
<1>1. CASE IntentUnderstood \/ IntentRejected \/ QueryHandler
  BY <1>0, <1>1 DEF IntentUnderstood, IntentRejected, QueryHandler, Return, Understood,
     With, KeepOutside, Channels
<1>2. CASE HumanApproval
  BY <1>0, <1>2 DEF HumanApproval, With, Channels
<1>3. CASE ResultFormatter
  <2>1. at = "result_formatter"
    BY <1>3 DEF ResultFormatter, FormatCompoundAdvance, FormatCompoundSuccess,
       FormatOutOfBounds, FormatEnd, FormatPlan
  <2>2. st.status \in {"SUCCESS", "FAILED", "UNSUPPORTED_RESOURCE", "QUERY_INTENT"}
    BY <2>1 DEF McpInv, ThreadInv
  <2>3. FormatEnd
    BY <1>0, <1>3, <2>2 DEF CompoundShape, ResultFormatter, FormatCompoundAdvance,
       FormatCompoundSuccess, FormatOutOfBounds, FormatPlan
  <2>4. QED
    BY <2>3 DEF FormatEnd, Finish, KeepOutside
<1>4. QED
  BY <1>1, <1>2, <1>3

\* resource_provisioner requests at most once, and counts nothing.
LEMMA ProvisionerCost ==
  ASSUME McpInv, ResourceProvisioner
  PROVE  /\ Len(requests') \in {Len(requests), Len(requests) + 1}
         /\ st'.retries = st.retries
         /\ at = "resource_provisioner" /\ at' \notin {"interrupt", "resource_provisioner"}
<1>0. st \in Channels /\ requests \in Seq(Request)
  BY ThreadFacts DEF McpInv
<1>1. Len(requests') \in {Len(requests), Len(requests) + 1} /\ st'.retries = st.retries
  <2>1. CASE SkipProvision \/ RefuseProvision
    BY <1>0, <2>1 DEF SkipProvision, RefuseProvision, KeepOutside, With, Channels
  <2>2. CASE LoseAnswer \/ CreateDirect \/ CreateAsync
    <3>1. PICK outcome \in Outcome : Submit(outcome)
      BY <2>2 DEF LoseAnswer, CreateDirect, CreateAsync, Outcome
    <3>2. Len(requests') = Len(requests) + 1
      BY <1>0, <3>1 DEF Submit
    <3>3. st'.retries = st.retries
      BY <1>0, <2>2 DEF LoseAnswer, CreateDirect, CreateAsync, With, Channels
    <3>4. QED
      BY <3>2, <3>3
  <2>3. QED
    BY <2>1, <2>2 DEF ResourceProvisioner
<1>2. at = "resource_provisioner" /\ at' \notin {"interrupt", "resource_provisioner"}
  BY DEF ResourceProvisioner, SkipProvision, RefuseProvision, LoseAnswer,
     CreateDirect, CreateAsync, Goto, RouteResourceProvisioner
<1>3. QED
  BY <1>1, <1>2

\* status_poller requests nothing, and goes back to the interrupt only with a
\* retry more on the count, while the budget lasts.
LEMMA PollerCost ==
  ASSUME McpInv, StatusPoller, st.token # 0, TypeOK'
  PROVE  /\ requests' = requests
         /\ \/ /\ st'.retries = st.retries
               /\ at' \notin {"interrupt", "resource_provisioner"}
            \/ st'.retries = st.retries + 1 /\ st.retries < MaxRetries
<1>0. st \in Channels
  BY ThreadFacts DEF McpInv
<1>1. requests' = requests
  BY DEF StatusPoller, PollFails, PollThrottled, PollAnswered, Return, KeepOutside
<1>2. at' = CASE st'.status = "IN_PROGRESS" /\ st'.token = 0 -> "interrupt"
              [] st'.status = "IN_PROGRESS" /\ st'.token # 0 -> "status_poller"
              [] OTHER -> "result_formatter"
  BY DEF StatusPoller, PollFails, PollThrottled, PollAnswered, Goto, RouteStatusPoller
<1>3. CASE PollFails \/ PollThrottled
  <2>1. st'.retries = st.retries /\ st'.token = st.token
    BY <1>0, <1>3 DEF PollFails, PollThrottled, Return, With, Channels
  <2>2. QED
    BY <1>1, <1>2, <2>1
<1>4. CASE PollAnswered
  <2>1. st' = AfterVerdict(st, requests[st.token].outcome)
    BY <1>4 DEF PollAnswered, Return
  <2>2. requests[st.token].outcome \in Outcome
    <3>1. requests[st.token] \in Request
      BY ThreadFacts DEF McpInv
    <3>2. QED
      BY <3>1 DEF Request
  <2>3. \/ st'.retries = st.retries /\ st'.token = st.token
        \/ st'.retries = st.retries + 1 /\ st.retries < MaxRetries
        \/ st'.retries = st.retries /\ st'.status = "FAILED"
    BY <1>0, <2>1, <2>2 DEF AfterVerdict, With, Channels, Outcome
  <2>4. QED
    BY <1>1, <1>2, <2>3
<1>5. QED
  BY <1>3, <1>4 DEF StatusPoller

\* Handlers and CloudControl neither request nor count; a call that is resumed
\* for the first time has requested nothing.
LEMMA HandlerCost ==
  ASSUME McpInv, CostInv, TypeOK', NEW c \in Call,
         Receive(c) \/ Handle(c) \/ InvokeThrows(c)
  PROVE  CostInv'
<1>0. /\ call \in [Call -> {"idle", "loading", "answered"} \cup Working]
      /\ Len(requests) \in Nat /\ since \in Nat /\ st.retries \in Nat
      /\ CallInv(c) /\ RetriesPaid(c)
  BY ThreadFacts DEF McpInv, TypeOK, CostInv, Channels
<1>1. requests' = requests /\ st'.retries = st.retries
  <2>1. CASE InvokeCheckpoint(c)
    <3>1. PICK pattern \in BOOLEAN : st' = McpInput(st, pattern)
      BY <2>1, ThreadFacts DEF InvokeCheckpoint, Invoke, McpInv
    <3>2. st'.retries = st.retries
      BY <3>1, ThreadFacts DEF McpInput, McpInv, Channels
    <3>3. QED
      BY <2>1, <3>2 DEF InvokeCheckpoint
  <2>2. CASE Resume(c)
    BY <2>2 DEF Resume, InvokeNull
  <2>3. CASE ~InvokeCheckpoint(c) /\ ~Resume(c)
    BY <2>3 DEF Handle, Receive, Refuse, Guard, Block, StartLoop, Pause, TimeOut,
       Finished, Release, InvokeThrows, Settled, KeepGraph, graphVars
  <2>4. QED
    BY <2>1, <2>2, <2>3
<1>2. ASSUME NEW d \in Call, d # c
      PROVE  RetriesPaid(d)'
  <2>1. call'[d] = call[d]
    BY <1>0, <1>2 DEF Handle, Receive, Refuse, Guard, Block, InvokeCheckpoint, StartLoop,
       Resume, Pause, TimeOut, Finished, Release, InvokeThrows, Move
  <2>2. CASE InProgress(d)
    <3>1. UNCHANGED <<at, since>>
      <4>1. active /\ ~InProgress(c)
        BY <1>2, <2>2, TheOneAtWork
      <4>2. Receive(c) \/ Refuse(c)
        BY <4>1 DEF Handle, Guard, Block, InvokeCheckpoint, StartLoop, Resume, Pause,
           TimeOut, Finished, Release, InvokeThrows, Move, InProgress, Working
      <4>3. QED
        BY <4>2 DEF Receive, Refuse, KeepGraph, graphVars
    <3>2. QED
      BY <1>1, <2>1, <3>1 DEF CostInv, RetriesPaid
  <2>3. CASE ~InProgress(d)
    BY <2>1, <2>3 DEF InProgress, Working, RetriesPaid
  <2>4. QED
    BY <2>2, <2>3
<1>3. RetriesPaid(c)'
  <2>1. CASE Resume(c)
    <3>1. /\ call[c] \in {"first", "again"} /\ call'[c] = "running" /\ since' = since
          /\ at' = IF at = "interrupt" THEN "resource_provisioner" ELSE at
      BY <1>0, <2>1 DEF Resume, Move, InvokeNull
    <3>2. call[c] = "first" => Len(requests) = since
      BY <1>0 DEF CallInv, StartInv
    <3>3. QED
      BY <1>0, <1>1, <3>1, <3>2 DEF RetriesPaid, CallInv, ResumedInv
  <2>2. CASE Pause(c)
    BY <1>0, <1>1, <2>2 DEF Pause, Move, KeepGraph, graphVars, RetriesPaid
  <2>3. CASE TimeOut(c) \/ Finished(c) \/ InvokeThrows(c)
    <3>1. /\ call[c] \in {"phase1", "running", "again"} /\ call'[c] = "audit"
          /\ UNCHANGED since
      BY <1>0, <2>3 DEF TimeOut, Finished, InvokeThrows, Settled, Move
    <3>2. call[c] = "phase1" => Len(requests) = since
      BY <1>0 DEF CallInv, StartInv
    <3>3. QED
      BY <1>0, <1>1, <3>1, <3>2 DEF RetriesPaid
  <2>4. CASE Receive(c) \/ Refuse(c) \/ Guard(c) \/ Block(c) \/ InvokeCheckpoint(c)
             \/ StartLoop(c) \/ Release(c)
    <3>1. call'[c] \notin {"running", "again", "audit"}
      BY <1>0, <2>4 DEF Receive, Refuse, Guard, Block, InvokeCheckpoint, StartLoop,
         Release, Move
    <3>2. QED
      BY <3>1 DEF RetriesPaid
  <2>5. QED
    BY <2>1, <2>2, <2>3, <2>4 DEF Handle
<1>4. QED
  BY <1>1, <1>2, <1>3 DEF CostInv

\* The step of the one graph.
LEMMA GraphCost ==
  ASSUME McpInv, CostInv, Graph, TypeOK'
  PROVE  CostInv'
<1>0. /\ Len(requests) \in Nat /\ since \in Nat /\ st.retries \in Nat
      /\ MaxRetries \in Nat
  BY ThreadFacts, BudgetAssumption DEF McpInv, Channels
<1>1. PICK c \in Call : call[c] \in {"phase1", "running"}
  BY DEF Graph
<1>2. GraphStep /\ UNCHANGED <<call, since>> /\ InProgress(c) /\ CallInv(c)
      /\ RetriesPaid(c)
  BY <1>1 DEF Graph, toolVars, InProgress, Working, McpInv, CostInv
<1>3. at \notin {"schema_fetcher", "compound_dispatcher", "plan_generator",
                "validate_desired_state", "preflight_guard"}
  BY DEF McpInv, ThreadInv
<1>4. \/ IntentUnderstood \/ IntentRejected \/ QueryHandler \/ HumanApproval
      \/ ResultFormatter
      \/ ResourceProvisioner \/ StatusPoller
  BY <1>2, <1>3 DEF GraphStep, SchemaFetcher, CompoundDispatcher, PlanGenerator,
     ValidateDesiredState, PreflightGuard, Return
<1>5. ASSUME NEW d \in Call, d # c
      PROVE  RetriesPaid(d)'
  <2>1. ~InProgress(d)
    BY <1>2, <1>5, TheOneAtWork
  <2>2. QED
    BY <1>2, <2>1 DEF InProgress, Working, RetriesPaid
<1>6. CASE call[c] = "phase1"
  <2>1. ~(ResourceProvisioner \/ StatusPoller)
    BY <1>2, <1>6 DEF CallInv, StartInv, ResourceProvisioner, SkipProvision,
       RefuseProvision, LoseAnswer, CreateDirect, CreateAsync, StatusPoller, PollFails,
       PollThrottled, PollAnswered, Return
  <2>2. st'.retries = st.retries
    BY <1>4, <2>1, QuietNodes
  <2>3. RetriesPaid(c)'
    BY <1>2, <1>6 DEF RetriesPaid
  <2>4. QED
    BY <1>5, <2>2, <2>3 DEF CostInv
<1>7. CASE call[c] = "running"
  <2>1. CASE ResultFormatter
    <3>1. at' \notin {"interrupt", "resource_provisioner"}
      BY <2>1, QuietNodes, ThreadFacts
         DEF ResultFormatter, McpInv, ThreadInv, FormatCompoundAdvance, CompoundShape,
             FormatCompoundSuccess, FormatOutOfBounds, FormatEnd, FormatPlan, Finish,
             RouteResultFormatter, Goto
    <3>2. QED
      BY <1>0, <1>2, <1>5, <2>1, <3>1, QuietNodes DEF CostInv, RetriesPaid
  <2>2. CASE ResourceProvisioner
    BY <1>0, <1>2, <1>5, <1>7, <2>2, ProvisionerCost DEF CostInv, RetriesPaid
  <2>3. CASE StatusPoller
    <3>1. st.token # 0
      BY <1>0, <1>2, <1>7, <2>3 DEF CallInv, ResumedInv, StatusPoller, PollFails,
         PollThrottled, PollAnswered, Return
    <3>2. QED
      BY <1>0, <1>2, <1>5, <1>7, <2>3, <3>1, PollerCost DEF CostInv, RetriesPaid
  <2>4. CASE IntentUnderstood \/ IntentRejected \/ QueryHandler \/ HumanApproval
    BY <1>2, <1>7, <2>4 DEF CallInv, ResumedInv, IntentUnderstood, IntentRejected,
       QueryHandler, HumanApproval, Return
  <2>5. QED
    BY <1>4, <2>1, <2>2, <2>3, <2>4
<1>8. QED
  BY <1>1, <1>6, <1>7

\* Every step keeps the count.
LEMMA CostStep == McpInv /\ CostInv /\ [Next]_vars => CostInv'
<1> SUFFICES ASSUME McpInv, CostInv, [Next]_vars
             PROVE  CostInv'
  OBVIOUS
<1>1. TypeOK'
  BY TypeStep DEF McpInv
<1>2. CASE Graph
  BY <1>1, <1>2, GraphCost
<1>3. CASE World
  <2>1. Len(requests') = Len(requests) /\ UNCHANGED <<st, at, call, since>>
    BY <1>3, ThreadFacts DEF World, CloudControl, Settle, toolVars, McpInv
  <2>2. QED
    BY <2>1 DEF CostInv, RetriesPaid
<1>4. ASSUME NEW c \in Call, Receive(c) \/ Handle(c) \/ InvokeThrows(c)
      PROVE  CostInv'
  BY <1>1, <1>4, HandlerCost
<1>5. CASE UNCHANGED vars
  BY <1>5 DEF vars, graphVars, toolVars, CostInv, RetriesPaid
<1>6. QED
  BY <1>2, <1>3, <1>4, <1>5 DEF Next

\* One apply requests its resource once, and once more for each retry there is:
\* the loop of graph-executor.ts, which counts nothing, cannot go on creating.
THEOREM McpAppliesAreBounded == Spec => []BoundedPerApply
<1>1. Init => CostInv
  BY BudgetAssumption DEF Init, CostInv, RetriesPaid, NewThread
<1>2. McpInv /\ CostInv => BoundedPerApply
  <2> SUFFICES ASSUME McpInv, CostInv, active
               PROVE  Len(requests) - since <= 1 + MaxRetries
    BY DEF BoundedPerApply
  <2>1. PICK c \in Call : call[c] \in Working /\ CallInv(c) /\ RetriesPaid(c)
    BY DEF McpInv, PathActiveWhileApplied, InProgress, CostInv
  <2>2. /\ Len(requests) \in Nat /\ since \in Nat /\ st.retries \in Nat
        /\ MaxRetries \in Nat /\ st.retries <= MaxRetries
    BY ThreadFacts, BudgetAssumption DEF McpInv, Channels, CostInv
  <2>3. QED
    BY <2>1, <2>2 DEF Working, CallInv, StartInv, RetriesPaid
<1>3. QED
  BY <1>1, <1>2, McpInvariant, CostStep, PTL DEF Spec
=============================================================================
