---------------------------- MODULE ProvisionLoop ----------------------------
(***************************************************************************)
(* Phase 2 of the CLI's apply commands (utils/command-runner/provision-     *)
(* loop.ts): resume the graph from its interrupt until it ends.  The loop   *)
(* counts the pauses at resource_provisioner and takes each for a resource  *)
(* done.                                                                    *)
(***************************************************************************)
EXTENDS AgentGraph

CONSTANT MaxLoops  \* MAX_PROVISION_LOOPS

ASSUME LoopAssumption == MaxLoops \in Nat /\ MaxLoops >= N + MaxRetries + 1

VARIABLES
  phase,   \* where the command is; its driver adds phases of its own
  pauses,  \* resourcesProvisioned (and loopCount - 1)
  verdict  \* what the command reports: none (yet), ok, failed

loopVars == <<phase, pauses, verdict>>

LoopPhase == {"loop", "provisioning", "reported"}

Report(v) == phase' = "reported" /\ verdict' = v /\ UNCHANGED pauses

\* Mutant: whatever has not failed is a success.
LoopSuccess_NotFailed(s) == s.status # "FAILED"

\* success: the status says so, or the whole pattern is completed.
LoopSuccess(s) == s.status = "SUCCESS" \/ (s.pattern /\ Len(s.completed) = N)

LoopVerdict(s) == IF LoopSuccess(s) THEN "ok" ELSE "failed"

\* Mutant: it is the turn to come that is compared with the queue.
OutOfTurns_NextTurn ==
  pauses >= MaxLoops \/ (st.pattern /\ st.queue /\ pauses + 1 >= N)

\* The loop's own limits; the second is rendered as "Internal error: resource
\* queue index out of bounds".
OutOfTurns == pauses >= MaxLoops \/ (st.pattern /\ st.queue /\ pauses >= N)

LoopTurn ==
  /\ phase = "loop"
  /\ ~OutOfTurns
  /\ InvokeNull
  /\ phase' = "provisioning"
  /\ UNCHANGED <<pauses, verdict>>

LoopBreak ==
  /\ phase = "loop"
  /\ OutOfTurns
  /\ Report(LoopVerdict(st))
  /\ UNCHANGED graphVars

LoopReturn ==
  /\ phase = "provisioning"
  /\ Returned
  /\ IF at = "END"
       THEN Report(LoopVerdict(st))
       ELSE phase' = "loop" /\ pauses' = pauses + 1 /\ UNCHANGED verdict
  /\ UNCHANGED graphVars

Loop == LoopTurn \/ LoopBreak \/ LoopReturn

EnterLoop == phase' = "loop" /\ pauses' = 0 /\ UNCHANGED verdict
=============================================================================
