------------------------------ MODULE McpApply ------------------------------
(***************************************************************************)
(* The apply_plan tool of the MCP server (apps/mcp-server/src/tools/apply-  *)
(* plan), for one checkpoint.  Every call of the tool is a member of Call;  *)
(* a client may issue the next before the last has been answered, and again *)
(* after.  All of them use the one thread `<runId>-mcp-apply` of the graph, *)
(* which keeps its channels from call to call.                              *)
(***************************************************************************)
EXTENDS AgentGraph

CONSTANT Call

VARIABLES
  call,    \* where the handler of each call is
  answer,  \* what it was answered
  active,  \* activeApplies has the checkpoint's path
  since    \* how many requests there were when the apply in progress began

toolVars == <<call, answer, active, since>>

vars == <<graphVars, toolVars>>

\* loading  - the checkpoint file is being read
\* guarded  - the path is in activeApplies; best practices are re-evaluated
\* phase1   - graph.invoke with the checkpoint's state is under way
\* first    - about to resume the graph, the clock has only just started
\* running  - graph.invoke(null) is under way
\* again    - the graph has paused once more (a retry)
\* audit    - the outcome is being written to the audit log
Working == {"guarded", "phase1", "first", "running", "again", "audit"}

\* refused - before the graph was touched; error - by the graph
Answer == {"none", "ok", "error", "timeout", "refused"}

TypeOK ==
  /\ GraphTypeOK
  /\ call \in [Call -> {"idle", "loading", "answered"} \cup Working]
  /\ answer \in [Call -> Answer]
  /\ active \in BOOLEAN
  /\ since \in Nat

\* The server's stdin is a pipe.
Init ==
  /\ st = NewThread
  /\ at = "END"
  /\ requests = <<>>
  /\ consent = FALSE
  /\ tty = FALSE
  /\ call = [c \in Call |-> "idle"]
  /\ answer = [c \in Call |-> "none"]
  /\ active = FALSE
  /\ since = 0

Move(c, from, to) == call[c] = from /\ call' = [call EXCEPT ![c] = to]

Respond(c, a) == answer' = [answer EXCEPT ![c] = a]

KeepGraph == UNCHANGED graphVars

-----------------------------------------------------------------------------
(* The handler (handler.ts, handler-steps.ts). *)

Receive(c) ==
  /\ Move(c, "idle", "loading")
  /\ UNCHANGED <<answer, active, since>>
  /\ KeepGraph

\* confirmed is false, the path is no path of ours, the checkpoint is missing,
\* expired, altered or never passed its preflight; or the path is active (or
\* too many are).
Refuse(c) ==
  /\ Move(c, "loading", "answered")
  /\ Respond(c, "refused")
  /\ UNCHANGED <<active, since>>
  /\ KeepGraph

\* Mutant: the guard marks the path without looking.
Guard_NoLook(c) ==
  /\ Move(c, "loading", "guarded")
  /\ active' = TRUE
  /\ since' = Len(requests)
  /\ UNCHANGED answer
  /\ KeepGraph

\* The file is read; nothing is awaited between isApplyActive and
\* markApplyActive.
Guard(c) ==
  /\ Move(c, "loading", "guarded")
  /\ ~active
  /\ active' = TRUE
  /\ since' = Len(requests)
  /\ UNCHANGED answer
  /\ KeepGraph

\* Mutant: a blocked plan is answered past the finally block.
Block_NoRelease(c) ==
  /\ Move(c, "guarded", "answered")
  /\ Respond(c, "refused")
  /\ UNCHANGED <<active, since>>
  /\ KeepGraph

\* A finding blocks, or the rules cannot be evaluated: fail closed.
Block(c) ==
  /\ Move(c, "guarded", "answered")
  /\ Respond(c, "refused")
  /\ active' = FALSE
  /\ UNCHANGED since
  /\ KeepGraph

\* The checkpoint's channels, laid over what the thread still has: neither
\* executionStatus nor resourcePattern nor (after a plan) currentResourceIndex
\* is among them.
McpInput(s, pattern) ==
  LET planned == IF pattern THEN N - 1 ELSE 0
  IN [s EXCEPT !.mode = "APPLY", !.resumed = TRUE, !.auto = TRUE,
        !.type = planned, !.desired = planned, !.queue = pattern,
        !.preflight = TRUE]

\* The checkpoint is a pattern's when the thread has been given its queue.
InvokeCheckpoint(c) ==
  /\ Move(c, "guarded", "phase1")
  /\ \E pattern \in (IF st.desired = None
                       THEN BOOLEAN ELSE {st.queue}) :
       Invoke(McpInput(st, pattern))
  /\ UNCHANGED <<requests, consent, tty, answer, active, since>>

-----------------------------------------------------------------------------
(* runGraphFromCheckpoint (graph-executor.ts). *)

StartLoop(c) ==
  /\ Move(c, "phase1", "first")
  /\ Returned
  /\ UNCHANGED <<answer, active, since>>
  /\ KeepGraph

Resume(c) ==
  /\ Move(c, "first", "running") \/ Move(c, "again", "running")
  /\ InvokeNull
  /\ UNCHANGED <<answer, active, since>>

Pause(c) ==
  /\ Move(c, "running", "again")
  /\ at = "interrupt"
  /\ UNCHANGED <<answer, active, since>>
  /\ KeepGraph

\* The answer is settled before the outcome is audited.
Settled(c, a) ==
  /\ Respond(c, a)
  /\ UNCHANGED <<active, since>>
  /\ KeepGraph

\* Mutant: the clock starts before phase 1, and a timeout only leaves the loop:
\* the answer is made from whatever status the thread has.
TimeOut_Break(c) ==
  /\ Move(c, "again", "audit") \/ Move(c, "first", "audit")
  /\ Settled(c, IF st.status = "SUCCESS" THEN "ok" ELSE "error")

\* The ten minutes are over; they are looked at between invocations only.
TimeOut(c) ==
  /\ Move(c, "again", "audit")
  /\ Settled(c, "timeout")

\* Mutant: the loop is left on success only.
Finished_OnSuccess(c) ==
  /\ Move(c, "running", "audit")
  /\ at = "END" /\ st.status = "SUCCESS"
  /\ Settled(c, "ok")

Finished(c) ==
  /\ Move(c, "running", "audit")
  /\ at = "END"
  /\ Settled(c, IF st.status = "SUCCESS" THEN "ok" ELSE "error")

\* A node throws, or a long series of polls reaches the recursion limit: the
\* thread stays where it is.
InvokeThrows(c) ==
  /\ ~Returned
  /\ Move(c, "phase1", "audit") \/ Move(c, "running", "audit")
  /\ Settled(c, "error")

\* The outcome is on record; the finally block releases the path.
Release(c) ==
  /\ Move(c, "audit", "answered")
  /\ active' = FALSE
  /\ UNCHANGED <<answer, since>>
  /\ KeepGraph

-----------------------------------------------------------------------------

Handle(c) ==
  \/ Refuse(c) \/ Guard(c) \/ Block(c) \/ InvokeCheckpoint(c) \/ StartLoop(c)
  \/ Resume(c) \/ Pause(c) \/ TimeOut(c) \/ Finished(c) \/ Release(c)

\* A node runs only while some call awaits its invocation.
Graph ==
  /\ \E c \in Call : call[c] \in {"phase1", "running"}
  /\ GraphStep
  /\ UNCHANGED toolVars

World == CloudControl /\ UNCHANGED toolVars

Next ==
  \/ Graph
  \/ World
  \/ \E c \in Call : Receive(c) \/ Handle(c) \/ InvokeThrows(c)

Spec == Init /\ [][Next]_vars

\* A node that runs comes back, the poll timeout passes, and every await of a
\* handler is resumed.
Fairness ==
  /\ WF_vars(Graph)
  /\ WF_vars(Graph /\ PollFails)
  /\ \A c \in Call : WF_vars(Handle(c))

FairSpec == Spec /\ Fairness

-----------------------------------------------------------------------------
(* Properties. *)

InProgress(c) == call[c] \in Working

\* One apply creates a resource once, whatever other calls arrive meanwhile:
\* of the requests since it began, a later one for the same slot follows only
\* a create that came to nothing.
CreatesOncePerApply ==
  active =>
    \A i, j \in (since + 1)..Len(requests) :
      i < j /\ requests[i].slot = requests[j].slot => requests[i].outcome = "dns"

\* A call that answers SUCCESS has itself created what it was asked to: the
\* SUCCESS an earlier call has left on the thread is never mistaken for its own.
SuccessIsOwn ==
  \A c \in Call :
    call[c] = "audit" /\ answer[c] = "ok" =>
      \E i \in (since + 1)..Len(requests) :
        requests[i].slot = st.desired /\ requests[i].outcome = "ok"

\* The path is active exactly while one call is at work on it: no refusal,
\* timeout or error leaves it behind, and it is never given up early.
PathActiveWhileApplied ==
  /\ active <=> \E c \in Call : InProgress(c)
  /\ \A c, d \in Call : InProgress(c) /\ InProgress(d) => c = d

\* Every call of the tool is answered, whatever the calls before it have left.
EveryCallIsAnswered == \A c \in Call : call[c] = "loading" ~> call[c] = "answered"

-----------------------------------------------------------------------------
(* The inductive invariant behind them. *)

\* Of the requests of the apply in progress, all have come to nothing, or all
\* but the last of any thread.
Mine == (since + 1)..Len(requests)
AllDns == \A i \in Mine : requests[i].outcome = "dns"
OnlyRetries == \A i \in Mine : i < Len(requests) => requests[i].outcome = "dns"
Own == \E i \in Mine : requests[i].slot = st.desired /\ requests[i].outcome = "ok"

\* The checkpoint's desired state keeps the thread out of the planning nodes:
\* only one that ended in an error goes back to intent_parser, and no further.
ThreadInv ==
  /\ st.index = None /\ st.status # "CANCELLED"
  /\ at \in {"intent_parser", "query_handler", "human_approval", "interrupt",
              "resource_provisioner", "status_poller", "result_formatter", "END"}
  /\ at # "END" => st.desired # None /\ st.auto
  /\ at = "intent_parser" => st.status \in {"FAILED", "UNSUPPORTED_RESOURCE"}
  /\ at = "result_formatter" =>
       st.status \in {"SUCCESS", "FAILED", "UNSUPPORTED_RESOURCE", "QUERY_INTENT"}

\* Before the graph is resumed nothing is requested, and no SUCCESS is left to
\* be found;
StartInv(c) ==
  /\ call[c] \in {"guarded", "phase1", "first"} => Len(requests) = since
  /\ call[c] = "phase1" => at \notin {"resource_provisioner", "status_poller"}
  /\ call[c] = "first" => at \in {"interrupt", "END"}
  /\ call[c] \in {"phase1", "first"} /\ at \in {"result_formatter", "END"} =>
       st.status # "SUCCESS"

\* from then on what was requested before the last request has come to nothing.
ResumedInv(c) ==
  /\ call[c] = "running" => at \notin {"intent_parser", "query_handler", "human_approval"}
  /\ call[c] = "again" => at = "interrupt"
  /\ call[c] \in {"running", "again"} /\ at \in {"interrupt", "resource_provisioner"}
       => AllDns
  /\ call[c] = "running" /\ at = "status_poller" =>
       /\ OnlyRetries
       /\ since < st.token /\ st.token = Len(requests)
       /\ requests[st.token].slot = st.desired
  /\ call[c] = "running" /\ at \in {"result_formatter", "END"} =>
       OnlyRetries /\ (st.status = "SUCCESS" => Own)
  /\ call[c] = "audit" => OnlyRetries /\ (answer[c] = "ok" => Own)

CallInv(c) == StartInv(c) /\ ResumedInv(c)

McpInv ==
  /\ TypeOK
  /\ PathActiveWhileApplied
  /\ ThreadInv
  /\ since <= Len(requests)
  /\ \A c \in Call : CallInv(c)

-----------------------------------------------------------------------------
(* What an apply can cost.  No run lists these; they are for the proofs.    *)

\* graph-executor.ts loops until the graph ends or the clock stops it, with no
\* count of its own: it is the retry count of the channels that bounds what
\* one apply requests, whatever the applies before it have used up of it.
BoundedPerApply == active => Len(requests) - since <= 1 + MaxRetries

\* Every request but the last has been paid for with a retry.
RetriesPaid(c) ==
  /\ call[c] \in {"running", "again"} /\ at \in {"interrupt", "resource_provisioner"}
       => Len(requests) - since <= st.retries
  /\ call[c] \in {"running", "again", "audit"} => Len(requests) - since <= 1 + st.retries

CostInv ==
  /\ st.retries <= MaxRetries
  /\ \A c \in Call : RetriesPaid(c)
=============================================================================
