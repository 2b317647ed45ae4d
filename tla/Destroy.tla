------------------------------ MODULE Destroy ------------------------------
(***************************************************************************)
(* `assignee infra destroy <resource>`, `destroy --all`, which is a loop   *)
(* of the former, and the MCP server's destroy_resource.  They resolve an  *)
(* ARN by the tagging API, or by the provision records, prepare the        *)
(* resource, delete it through CloudControl and poll, write a tombstone,   *)
(* and tear down the instance profile of an EC2 instance.  KMS keys have a *)
(* path of their own in the CLI.                                           *)
(***************************************************************************)
EXTENDS Account

CONSTANT Rank  \* TYPE_DESTROY_ORDER, for the kinds of resources in use

VARIABLES
  del,    \* what each command is deleting
  adrift  \* deletions whose outcome nobody waits for any more

\* target: the ARN; plan: the ARNs of a sweep that are still to come; meant:
\* the resources that these were when the command looked; request: what has
\* become of the DeleteResource request; unsure: the account was not known.
NoDeletion == [target |-> None, plan |-> {}, meant |-> {}, request |-> None,
               polls |-> 0, unsure |-> FALSE]

Answer == {"success", "failed", "absent"}
ASSUME AnswerAssumption == None \notin Answer \cup {"open"}

Deletion ==
  [target : Resource \cup {None}, plan : SUBSET Resource, meant : SUBSET Resource,
   request : Answer \cup {None, "open"},
   polls : 0..MaxPolls, unsure : BOOLEAN]

elsewhere == <<address, keys, iam, records, frame, tear>>

Cli(p) == job[p].op \in {"destroy", "sweep"}
Target(p) == del[p].target
TargetKind(p) == Kind[Target(p).run]

Listed(a) == \E r \in shown : Arn(r) = a
Logged(a) == \E r \in records : Arn(r) = a

\* A sweep goes on with the next resource whatever came of this one.
After(p) == IF job[p].op = "sweep" THEN "next" ELSE "over"
Succeed(p) == Goto(p, After(p)) /\ UNCHANGED failed
GiveUp(p) == Goto(p, After(p)) /\ Fail(p)

-----------------------------------------------------------------------------
(* runBulkDestroyAction *)

Plan(p, arns) ==
  /\ del' = [del EXCEPT ![p].plan = arns,
                        ![p].meant = {r \in alive : Arn(r) \in arns}]
  /\ Goto(p, "confirm")
  /\ UNCHANGED failed

\* fetchManagedResources leaves out what has a tombstone, unless it cannot
\* read the tombstones.
Enumerate(p) ==
  /\ pc[p] = "enumerate"
  /\ \/ Works /\ Plan(p, {Arn(r) : r \in shown} \ tombs)
     \/ Fails /\ Plan(p, {Arn(r) : r \in shown})
     \/ /\ Fails
        /\ Fail(p)
        /\ Goto(p, "over")
        /\ UNCHANGED del
  /\ UNCHANGED <<world, elsewhere, tombs, adrift, denied>>

\* The account id is typed in; or this is a dry run, which shows the plan, means
\* nothing of it and exits with 0; or there are too many, or another id.
Confirm(p) ==
  /\ pc[p] = "confirm"
  /\ \/ Goto(p, "next") /\ UNCHANGED <<del, failed>>
     \/ /\ Goto(p, "over")
        /\ del' = [del EXCEPT ![p].plan = {}, ![p].meant = {}]
        /\ UNCHANGED failed
     \/ Goto(p, "over") /\ Fail(p) /\ UNCHANGED del
  /\ UNCHANGED <<world, elsewhere, tombs, adrift, denied, faults>>

\* sortByDestroyOrder.
NextTarget(p) ==
  /\ pc[p] = "next"
  /\ \/ /\ del[p].plan = {}
        /\ Goto(p, "over")
        /\ UNCHANGED del
     \/ \E a \in del[p].plan :
          /\ \A b \in del[p].plan : Rank[Kind[a.run]] <= Rank[Kind[b.run]]
          /\ del' = [del EXCEPT ![p].target = a, ![p].plan = @ \ {a},
                                ![p].request = None, ![p].polls = 0]
          /\ Goto(p, "resolve")
  /\ UNCHANGED <<world, elsewhere, tombs, adrift, failed, denied, faults>>

-----------------------------------------------------------------------------

\* resolveResource, with the CLI's fallback to the provision records, and the
\* operator's consent, which a sweep has already.
Resolve(p) ==
  /\ pc[p] = "resolve"
  /\ LET a == Target(p)
         known == Listed(a) \/ (Logged(a) /\ Cli(p) /\ TargetKind(p) # "cmk")
     IN  \/ /\ known
            /\ Works
            /\ del' = IF job[p].op = "sweep" THEN del
                      ELSE [del EXCEPT ![p].meant = {r \in alive : Arn(r) = a}]
            /\ Goto(p, IF Cli(p) /\ TargetKind(p) = "cmk" THEN "disable" ELSE "hook")
            /\ UNCHANGED failed
         \/ /\ IF known /\ job[p].op = "sweep" THEN Fails ELSE Works
            /\ GiveUp(p)
            /\ UNCHANGED del
  /\ UNCHANGED <<world, elsewhere, tombs, adrift, denied>>

\* tryDisableKmsKey, best effort, for a key that is enabled.
Disable(p) ==
  /\ pc[p] = "disable"
  /\ \/ Works /\ disabled' = disabled \cup (Living(Target(p)) \ pending)
     \/ Fails /\ UNCHANGED disabled
  /\ Goto(p, "schedule")
  /\ UNCHANGED <<alive, shown, blocked, pending, elsewhere, tombs, del, adrift,
                 failed, denied>>

\* scheduleKmsKeyDeletion: a key that is pending already, or gone, is a
\* success.  No tombstone.
Schedule(p) ==
  /\ pc[p] = "schedule"
  /\ \/ /\ Works
        /\ pending' = pending \cup Living(Target(p))
        /\ Succeed(p)
     \/ /\ Fails
        /\ GiveUp(p)
        /\ UNCHANGED pending
  /\ UNCHANGED <<alive, shown, blocked, disabled, elsewhere, tombs, del, adrift,
                 denied>>

\* preDestroy: lift a table's deletion protection; the CLI empties a bucket
\* as well.  The server swallows every failure, the CLI some.
Hook(p) ==
  /\ pc[p] = "hook"
  /\ LET hooked == TargetKind(p) \in IF Cli(p) THEN {"bucket", "table"} ELSE {"table"}
         next == IF Cli(p) THEN "delete" ELSE "recheck"
     IN  \/ /\ Works
            /\ blocked' = IF hooked THEN blocked \ Living(Target(p)) ELSE blocked
            /\ Goto(p, next)
            /\ UNCHANGED failed
         \/ /\ hooked
            /\ Fails
            /\ \/ Goto(p, next) /\ UNCHANGED failed
               \/ Cli(p) /\ GiveUp(p)
            /\ UNCHANGED blocked
  /\ UNCHANGED <<alive, shown, disabled, pending, elsewhere, tombs, del, adrift,
                 denied>>

\* toctouReverifyStep: is it still tagged?
Recheck(p) ==
  /\ pc[p] = "recheck"
  /\ \/ /\ Listed(Target(p))
        /\ Works
        /\ Goto(p, "delete")
        /\ UNCHANGED failed
     \/ /\ (~Listed(Target(p)) /\ Works) \/ Fails
        /\ GiveUp(p)
  /\ UNCHANGED <<world, elsewhere, tombs, del, adrift, denied>>

-----------------------------------------------------------------------------
(* DeleteResource and what comes of it. *)

Delete(p) ==
  /\ pc[p] = "delete"
  /\ \/ /\ Living(Target(p)) = {}
        /\ Works
        /\ Goto(p, "classify")
        /\ UNCHANGED <<del, failed>>
     \/ /\ Living(Target(p)) # {}
        /\ Works
        /\ del' = [del EXCEPT ![p].request = "open"]
        /\ Goto(p, "poll")
        /\ UNCHANGED failed
     \/ /\ Fails
        /\ GiveUp(p)
        /\ UNCHANGED del
  /\ UNCHANGED <<world, elsewhere, tombs, adrift, denied>>

\* CloudControl carries out a request in its own time.
Outcome(a, result) ==
  \/ result = "absent" /\ Living(a) = {} /\ UNCHANGED <<world, address>>
  \/ result = "failed" /\ Living(a) # {} /\ Stuck(a) /\ UNCHANGED <<world, address>>
  \/ result = "success" /\ Living(a) # {} /\ ~Stuck(a) /\ Vanish(a)

Settle(p) ==
  /\ del[p].request = "open"
  /\ \E result \in Answer :
       /\ Outcome(Target(p), result)
       /\ del' = [del EXCEPT ![p].request = result]
  /\ UNCHANGED <<keys, iam, logs, frame, pc, tear, adrift, failed, denied, faults>>

\* A request nobody polls any more.
SettleAdrift(a) ==
  /\ a \in adrift
  /\ \E result \in Answer : Outcome(a, result)
  /\ adrift' = adrift \ {a}
  /\ UNCHANGED <<keys, iam, logs, frame, pc, tear, del, failed, denied, faults>>

Abandoned(p) == IF del[p].request = "open" THEN {Target(p)} ELSE {}

\* Mutant: polled for as long as it takes.
Polled_WithoutEnd(p) == del[p].polls

Polled(p) == del[p].polls + 1

\* Mutant: one poll too many.
MayPoll_OneMore(p) == del[p].polls <= MaxPolls

MayPoll(p) == del[p].polls < MaxPolls

\* pollDeleteStatus, one GetResourceRequestStatus.  A question that fails ends
\* it in the CLI; in the server it counts as a poll, and the third one ends it
\* (which of them is the third is left open).
Poll(p) ==
  /\ pc[p] = "poll"
  /\ MayPoll(p)
  /\ \/ /\ \/ del[p].request = "open" /\ Works
           \/ ~Cli(p) /\ Fails
        /\ del' = [del EXCEPT ![p].polls = Polled(p)]
        /\ UNCHANGED <<adrift, pc, failed>>
     \/ /\ del[p].request \in {"success", "absent"}
        /\ Works
        /\ Goto(p, IF del[p].request = "success" THEN "tombstone" ELSE "classify")
        /\ UNCHANGED <<del, adrift, failed>>
     \/ /\ (del[p].request = "failed" /\ Works) \/ Fails
        /\ adrift' = adrift \cup Abandoned(p)
        /\ del' = [del EXCEPT ![p].request = None]
        /\ GiveUp(p)
  /\ UNCHANGED <<world, elsewhere, tombs, denied>>

\* Mutant: an answer that did not come in time is taken for granted.
TimedOut_Optimist(p) == Goto(p, "tombstone") /\ UNCHANGED failed

\* "Delete operation timed out"
TimedOut(p) == GiveUp(p)

PollsExhausted(p) ==
  /\ pc[p] = "poll"
  /\ ~MayPoll(p)
  /\ adrift' = adrift \cup Abandoned(p)
  /\ del' = [del EXCEPT ![p].request = None]
  /\ TimedOut(p)
  /\ UNCHANGED <<world, elsewhere, tombs, denied, faults>>

\* Mutant: NotFound is a success in any account.
Elsewhere_Never(p) == FALSE

\* The ARN is of another account than the operator's.
Elsewhere(p) == Target(p).run \in Foreign

\* classifyNotFoundShortCircuit; an account that STS does not tell is a match.
Classify(p) ==
  /\ pc[p] = "classify"
  /\ \/ /\ Elsewhere(p)
        /\ Works
        /\ GiveUp(p)
        /\ UNCHANGED del
     \/ /\ (~Elsewhere(p) /\ Works) \/ Fails
        /\ del' = [del EXCEPT ![p].unsure = @ \/ faults' # faults]
        /\ Goto(p, "tombstone")
        /\ UNCHANGED failed
  /\ UNCHANGED <<world, elsewhere, tombs, adrift, denied>>

\* appendDestroyedArn, then maybeDestroySshBundleIamForArn.  While the ledger
\* is locked, both are left out, and the destroy is reported to have failed.
Tombstone(p) ==
  /\ pc[p] = "tombstone"
  /\ \/ /\ Works
        /\ tombs' = tombs \cup {Target(p)}
        /\ IF Cli(p) /\ TargetKind(p) = "instance" /\ Logged(Target(p))
             THEN /\ tear' = [tear EXCEPT ![p] = Piece]
                  /\ Goto(p, "cascade")
                  /\ UNCHANGED failed
             ELSE Succeed(p) /\ UNCHANGED tear
     \/ /\ Fails
        /\ GiveUp(p)
        /\ UNCHANGED <<tombs, tear>>
  /\ UNCHANGED <<world, address, keys, iam, records, frame, del, adrift, denied>>

\* destroySshBundleIam
Cascade(p) ==
  /\ pc[p] = "cascade"
  /\ Teardown(p, Target(p).run, After(p))
  /\ UNCHANGED <<world, address, keys, logs, frame, del, adrift, failed>>

-----------------------------------------------------------------------------

DestroyStep(p) ==
  \/ Enumerate(p) \/ Confirm(p) \/ NextTarget(p)
  \/ Resolve(p) \/ Disable(p) \/ Schedule(p) \/ Hook(p) \/ Recheck(p)
  \/ Delete(p) \/ Poll(p) \/ PollsExhausted(p) \/ Classify(p)
  \/ Tombstone(p) \/ Cascade(p)
=============================================================================
