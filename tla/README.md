# Assignee in TLA+

Specifications of the core of Assignee: the advisory lock behind its files, the
agent graph that plans and provisions AWS resources, the commands that drive that
graph, the records and the audit log they leave on disk, and what applying and
destroying does to an AWS account over time. Each module is translated from the
code; TLC checks it on small instances, and TLAPS proves the same safety properties for
every value of the constants.

To check a run: `tlc -config apply.cfg CliApply`. To check a proof:
`tlapm Ledger_proofs.tla`.

Contents: [the system](#the-system), [the modules](#the-modules),
[the runs](#the-runs), [the proofs](#the-proofs),
[disagreements](#where-code-and-documentation-disagree),
[what is not modelled](#what-is-not-modelled), [the plan](#the-plan).

## The system

Assignee turns a sentence ("an S3 website behind CloudFront") into AWS
resources. A LangGraph state machine in `packages/core/src/graph` parses the
intent, plans one resource or a *pattern* of several in dependency order, checks
the plan against best practices, asks for approval, creates the resources
through CloudControl and polls until they exist. Three programs drive that one
graph: `infra plan`, `infra apply`, and the `apply_plan` tool of the MCP server.
What they learn goes into JSON logs, checkpoints and an audit log under
`~/.assignee`, guarded by file locks.

### Inventory

| Component | State it keeps | Operations | What is hard about it |
|---|---|---|---|
| Advisory file lock (`locks/file-advisory-lock.ts`, `adapters/storage/local-fs-adapter.ts`) | one file per lock name; its mtime | `acquire`, `release`, `withLock` | several processes and tasks; three awaited file operations per attempt; holders that die; locks judged stale |
| Agent graph (`graph/*.ts`, `graph/nodes/**`) | the channels of `AgentState`, per thread | 15 nodes, 7 routing functions | one channel is read by many nodes; a pattern loops through the same nodes with values left by the slot before; an interrupt before `resource_provisioner` |
| Status poller and CloudControl (`nodes/status-poller.ts`) | request token, throttle and retry counts; AWS's own progress | poll, back off, retry, give up | a create goes on after the poller gave up; throttling; the DNS retry of CloudFront |
| Provisioning loop (`utils/command-runner/provision-loop.ts`) | its counts | resume until the graph ends | counts pauses, not resources |
| CLI apply (`commands/apply`) | phase, report | fresh run, run from a checkpoint, gate, phase 2 | the same thread is invoked up to three times before phase 2; what the checkpoint does not carry |
| CLI plan (`commands/plan`) | phase, report | plan, "Apply now?", second thread | the second thread starts from the channels in which the first ended |
| MCP `apply_plan` (`tools/apply-plan`) | the set of active paths; one thread per checkpoint, kept between calls | guard, re-evaluate, invoke, loop, time out | calls overlap and repeat; the channels of the last call are still there |
| Memory store (`services/memory`) | `provisions.json`, `failures.json`, `patterns.json` | append, rotate, repair | reads outside the lock, writes inside; a read that fails is an empty log |
| Audit log (`audit`) | NDJSON chained by HMAC | append, verify, guard truncation | index and link come from a read, which may fail; half-written lines |
| Checkpoints (`checkpoint`) | one JSON file per plan | save, load, prune, find the newest | time to live; resuming with completed resources |
| Destroy (`destroy*`, `commands/destroy`, MCP `destroy_resource`) | tombstones; AWS | resolve, verify the tag, delete, poll | the tag is verified twice; NotFound may be success |
| Pre-create hooks (`nodes/resource-provisioner/*`) | Elastic IPs, key pairs, profiles | create, clean up | failure between the hook and the create |
| Bucket policies (`services/s3-*`) | a bucket's policy | read, merge, put | several writers |
| Caches (STS account, KMS aliases, prices, tenants) | value and in-flight lookup | get, reset | failures that stay cached |
| Best practices, pricing, intent, LLM, schemas, plugins, patterns | tables | pure functions | nothing over time |
| Displays, prompts, doctor, setup, telemetry, listing | none | I/O | nothing over time |

How they interact: a driver calls `graph.invoke` and awaits it; nodes call AWS
and the LLM, and report through channels only; the driver reads the channels
when `invoke` returns. Memory, audit and checkpoints take the advisory lock by
name. The CLI and the MCP server are separate processes that share only files
and AWS.

What makes each correct, in a sentence:

* *lock* - `fn` runs only for the caller whose file it is, for one at a time, and
  every call ends;
* *graph* - a resource is sent to AWS only after what it depends on exists, from
  its own plan, past its preflight, and a second time only when the first came
  to nothing;
* *drivers* - nothing is created without the operator's sanction, and the report
  says success exactly when what was asked for exists; every run reports;
* *memory, audit* - no writer takes away a record it has not read, restore adds no
  second record of a resource, the entries are one chain, and what was acknowledged
  can be found again; of the four the code keeps the last, and the others until a
  read fails or a lock is taken from a living process;
* *checkpoints* - a resumed run is the run that was saved;
* *destroy* - a destroy that reports success has left nothing, a tombstone is
  true, every command ends;
* *hooks* - what a refused create leaves behind is removed, and nothing is
  allocated twice.

The hazards behind these, each with its line, are listed in `PROJECT.json`.

## The modules

```
  ExclusiveLock   <-- refines --  AdvisoryLock  <-- MCAdvisoryLock
                                       ^----------- AdvisoryLock_proofs

  OrderedApply <-- refines -- CliApply
                                 |
                            ProvisionLoop <-- PlanApply
                                 |
                             AgentGraph  <-- McpApply

  AgentGraph_proofs <-- CliApply_proofs, PlanApply_proofs, McpApply_proofs

  NamedLocks <-- MemoryStore <-- Ledger <-- MCLedger
       ^-------- AuditLog    <----'  ^----- Ledger_proofs

  Account <-- Provisioner <-- Lifecycle <-- MCLifecycle
     ^------- Destroy     <----'  ^-------- Lifecycle_proofs <-- LifecycleTidy_proofs
```

(A line without a label is EXTENDS; a `_proofs` module also extends the module it
is named after.) No module declares a RECURSIVE operator, so all of them can be
proved about.

### AdvisoryLock, ExclusiveLock

One lock name. Every caller of `withLock` is a member of `Proc`, whether a
process or an async task. `pc` says which await a caller is at: `acquire()` is
cut into *stat*, *judge* (the clock is read after the await), *reclaim* (unlink)
and *create* (`O_EXCL`, PID written or the file undone), because a rival can run
at each of these awaits. `release()` unlinks by name, whoever wrote the file.
I/O errors that the code swallows, and crashes that orphan a lock, are actions
with budgets (`MaxErrors`, `MaxCrashes`). Time is a set of ages that all grow in
`Tick`; an age stops at `StaleTimeout`, the only value the code compares with.
Two constants bound the environment: how long a callback keeps the lock
(`MaxHold`) and how long a prober takes from stat to verdict (`MaxProbe`).

`ExclusiveLock` is the promise of `ports/advisory-lock-port.ts` with no files and
no time: ask, be granted when nobody holds it, or be turned away, release.
`ImplementsPromise` is the refinement: waiting and holding are read off `pc`.

### AgentGraph

One thread of the graph. `st` is a record of the channels that steer it, `at` the
next node; a node is one action that makes the node's partial state and then
follows its edge, so that routing on stale channels shows. `requests` is what
CloudControl has accepted, each with the slot and type it was sent for and its
outcome; `CloudControl` settles a request at any time, also after everybody has
stopped listening. `consent` remembers that an operator (or `--yes`, or
`confirmed`) stands behind the plan.

A pattern's queue is the slots `0..N-1`. `desired` is the slot a desired state was
planned for, and `type` the slot whose type is current, so that mixing up two
slots' data is visible. `Companion` are the display-only slots, `Retryable` the
CloudFront distributions. What a node computes (parsed intents, plans, findings,
permissions, prices) is a choice among its outcomes; wording is left out.

The properties that any driver should keep are stated here: `DependencyOrder`,
`NoDuplicateResource`, `PlannedForItsType`, `OnlySoundPlans`,
`ThrottleBudgetIsFresh`. The mutants of the graph (names with an underscore) are
plausible bugs that the runs are shown to catch.

Patterns are taken from `pattern-templates`: four slots with the companions at
the end, as in `scheduled-lambda` (one companion), `serverless-api` and
`websocket-api` (two).

### ProvisionLoop, CliApply, OrderedApply

`ProvisionLoop` is phase 2 of both CLI commands, with its own counting of pauses
and its verdict. `CliApply` adds phase 1: a fresh intent or a checkpoint
(`Origins`), the gate of `phase1-gate.ts` with its clarifier and interactive
fixes, and the report. `OrderedApply` is what an apply promises with neither
graph nor gate: after a sanction, parts are attempted in order, each only when
those before it exist. `ImplementsOrderedApply` maps the requests to attempts and
the ones that came out well to existing parts.

### PlanApply

`infra plan`: planning in PLAN mode on one thread, "Apply now?", and the second
thread that `runPlanToApply` starts from the channels of the first.

### McpApply

`apply_plan` for one checkpoint. Each call is a member of `Call` and goes through
the handler's awaits: *loading*, *guarded*, the invocation with the checkpoint's
channels (laid over what the thread still has), and the loop. Reading the set of
active paths and adding to it is one step, since nothing is awaited between
them. The timeout is looked at between invocations only, and not before the
first. A node that throws, or the recursion limit, leaves the thread in the
middle; the next call starts it over with the channels as they are. A checkpoint is its
path: `activeApplies` has the string it is given, so that two spellings of one path are
two checkpoints to the guard, and outside the model.

### NamedLocks, MemoryStore, AuditLog, Ledger

`Ledger` is what an apply leaves on the operator's disk, written by several
processes at once. `NamedLocks` has every lock name at once, without the clock of
`AdvisoryLock`: the environment is timely in the sense of `TimelyEnvironment`, so that
a lock file is stale exactly when the process that wrote it has died (`Orphan`).
Everything else about it is as there. An attempt is the stat, the unlink of an orphan
and the create, each a step of its own (`probe`), so of two processes that judge an
orphan stale the slower one unlinks the file the faster one has made, and both are in;
`robbed` remembers the names this has happened to. `Enter` is `withLock`, whose attempts
are repeated, `Attempt` alone the lock of `file-store.ts`, which tries once. A release
unlinks whoever's file is there. `Fails` is a call that throws and `Crash` a death;
`faults` counts both. A stat, unlink or create of a *lock file* that throws with nobody
in the way is left to `AdvisoryLock`: here an attempt is lost to another process only.

`MemoryStore` is `services/memory` with the recorder's, the cleanup's and the
restore command's use of it. A log (`provisions.json`, `failures.json`) is a set
of records; a record is which recording it is of and who wrote it. `ArnOf` says which
resource a recording is of: several may be of one, since a bucket that is made again
has its old ARN and `appendProvision` does not look. `job[p]` is the call a process is
in, `pc[p]` the await it is at, `view[p]` the set it has read. A read that fails, for
whatever reason, is an empty log (`Reads`, `service.ts:135`), and what is written next
is written over all that there was; `blind` remembers whose read it was. `Ask` ...
`Unlock` are the recorder's append under the lock of `provisions.json`, whichever file
it writes; `Repair` and `Rewrite` are a reader that dropped stale records and takes the
lock only to write back what it read before; `Rotate`, `Load`, `Trim` are `rotation.ts`,
`Kept` with its `slice(-0)`; `LoadBackup` and `Replace` are `restore-provisions --from`,
which takes no lock. Every write may fail, and leaves the file as it was.

`AuditLog` is `appendAuditRecord`: the lock, the read of the whole file (which, when it
fails, is an empty log: `audit-log.ts:277`), index and `prevHmac` from the last line
that parses, the key file (`resolveAuditKey`, with the moment at which it exists and is
empty), and the append. A death, or an append that fails, may leave a part of the line
or all of it without its newline, and the next line is glued to that. A signature is
ideal: the list of what has been signed with which keys. `Linked` is the chain,
`Verifies` the verifier.

`Ledger` composes the two as `memory-recorder.ts` does (record, then event, then
return: `acked`), and adds `restore-provisions --from-audit-log` (`VerifyLog`,
`TakeEvents` with the first event of each resource, `Missing`, `Rebuild`) and the key
that `init` resolves ahead of time (`Warm`).

### Account, Provisioner, Destroy, Lifecycle

`Account` is what AWS and the disk hold: resources that are alive, listed by the
tagging API, protected against deletion; addresses, key pairs, the key file, the
four pieces of an instance profile; provision records and tombstones. A resource
is named by the run of its plan and the job that created it, except that a bucket
made again has its old ARN (`Arn`). Every AWS call may fail, `MaxFaults` times in
all.

`Provisioner` is `resource_provisioner` with its hooks: the Elastic IP that is
found again, released or allocated, the key pair and its file, role, policy,
profile and their attachment, then the create, and when it is refused the cleanup
in its order. `Destroy` is the CLI's destroy of one resource and of all, and
`destroy_resource` of the MCP server: resolve, recheck the tag, prepare (empty a
bucket, lift a protection), delete, poll, classify a NotFound by account, write the
tombstone, tear down an instance's profile; KMS keys go their own way. A deletion
that nobody waits for any more goes on (`adrift`). `Lifecycle` lets two processes
do any of this in an account that is new or has been used; `IndexForgets` and
`LoseTag` are the tagging API's delay and a tag removed by somebody else.
A dry run of a sweep is an outcome of `Confirm` that means nothing and reports no failure;
`destroy_resource` polls again after an error, the terminal does not (`Poll`); a
`CreateKeyPair` that answers without the private key leaves a key pair that the attempt
does not know of (`CreateKey`). `alone` is a history flag: no other command came near the job's resources while it
ran, and no deletion that was given up before it is still on; properties about what
a cleanup leaves use it.

## The runs

| Run | Distinct states | Shows |
|---|---|---|
| `lock_envelope` | 5409 | three callers, one I/O error, no crash, `MaxHold + MaxProbe < StaleTimeout`: the inductive invariant, exclusion, no foreign unlink, and the port's promise |
| `lock_live` | 5229 | two callers, one crash, one error: every call is answered; an orphaned file is reclaimed if somebody keeps trying |
| `apply` | 3015 | everything CLI apply owes, from an intent or a single resource's checkpoint; only retries make the loop run out of turns; the inductive invariant; the refinement; every apply reports |
| `plan_apply` | 797 | planning creates nothing; only a confirmed and unblocked plan is applied; success means that the last resource exists or is display-only; every plan reports; the inductive invariant |
| `mcp_apply` | 143311 | three calls, overlapping and repeated: one apply at a time, one create per apply, no success inherited from an earlier call, every call answered; the inductive invariant, by which no path is left active |
| `ledger` | 1580431 | two processes record, list, clean up and restore; one of them dies, or one read or append fails; orphaned locks are reclaimed in three steps. What was placed under a lock is overwritten unread, and recent records go, only after a failed read or a robbed lock; restore adds no duplicates; what was acknowledged can be found, and a fault costs one event at most; the inductive invariant, by which the entries are one chain until something fails. |
| `lifecycle` | 214490 | a terminal and the MCP server apply, destroy and sweep, one AWS call failing: clean exits, cleanups, addresses and tombstones are what they claim; every command ends; the inductive invariant |
| `lock_reclaim_race`, `apply_pattern_checkpoint`, `plan_fixed`, `destroy_tombstone`, `launch_key` | | one property each, that the documentation states and the code does not keep; see below |

Every property of a passing run has a mutant in `PROJECT.json`: the definition of
the code replaced by a plausible bug under which the same run fails.

**Bounds.** *Lock*: three callers are the fewest with which one reclaims while
another re-creates and a third probes; `StaleTimeout = 4`, `MaxHold = 2` and
`MaxProbe = 1` leave exactly the margin the argument needs (2 + 1 < 4), one retry
lets an attempt fail and be repeated. *Graph*: `N = 4` with the companions at the
end is the shape of the real patterns named above; slots 0 and 1 may retry, so that
a retry happens at the start and in the middle of the queue; `MaxThrottle =
MaxRetries = 1` reach a budget's inside and its end. `MaxLoops = 50` is the code's
own. *MCP*: a pattern behaves as a single resource there, so `N = 2`, and
`MaxThrottle = 0` keeps three calls affordable: the third call finds a thread that
two others have left, and can arrive while either is at work. *Ledger*: two
processes and three jobs between them let a writer, a reader that repairs and a
rotation overlap in pairs, and a third job find what two have left; the second
recording of a run is of a resource that the past knows; old, stale and missing records
from the start; one fault, a death or a failed call, is enough for everything that the
properties exempt: the process that died comes back, so that two reclaim its lock, and
TLC finds `NoBlindWrite` violated when either exemption (`blind`, `robbed`) is dropped; `MaxRecords = 1` makes rotation bite at
once and its budget reach 0. *Lifecycle*: the worlds are `Empty`, `Servers` (an
instance with key, profile and group), `Website` (a bucket with contents) and
`Leftovers` (a protected table, a KMS key, a record of another account, two
addresses of failed attempts); two commands, one failing call and one poll, since a
second poll finds nothing the first does not. One apply of a run at a time, since
`CliApply` and `McpApply` are about two; the tagging index forgets all that is gone
at once. Nothing else is bounded: `requests` and `pauses` are finite because the
code's budgets are.

**Deadlock** is checked for the lock, which never stops. The commands, tool calls and
jobs end, so the other configurations say `CHECK_DEADLOCK FALSE`; that they end in a
report and not before is `EveryApplyIsReported`, `EveryPlanIsReported`,
`EveryCallIsAnswered` and `EveryCommandEnds`.

**Fairness.** The lock: an awaited file operation or timer completes (`WF` of each
caller's step) and time passes. The callers need not call again. `OrphanIsReclaimed`
is conditional on somebody probing infinitely often, since reclamation only
happens in `acquire()`. The drivers: a node that runs returns
(`WF(Graph)`), the command goes on when `invoke` has returned (`WF(Command)`,
`WF(Handle(c))`), and the wall clock passes the poll timeout (`WF` of
`PollFails`): `status-poller.ts` compares the elapsed time on every poll. AWS is
given no fairness at all: a create or a deletion may stay in progress for ever, and
the tagging index may never forget. In `Lifecycle` a command that is under way takes
its next step (`WF` of each process's `Step`): every AWS call it awaits answers or
fails. Operators are
only assumed to answer the prompt they are shown, which is a part of the node or
command that shows it. A clarifier or fix prompt is asked once per run in the
code, so no assumption about giving up is needed. `InvokeThrows` is not fair: no
call relies on an error to end.

## The proofs

| Theorem | In words |
|---|---|
| `LockTypeCorrect` | the lock's variables keep their types |
| `LockInvariant` | in a timely environment, `LockInv` |
| `LockAlwaysHeld`, `LockExcludes`, `OnlyTheOwnerUnlinks` | in a timely environment, `fn` runs only with the lock held, never twice at once, and nobody unlinks another's file (`NoForeignUnlink`) |
| `LockImplementsPromise` | in a timely environment, the file lock implements `ExclusiveLock` |
| `ApplyTypeCorrect` | the channels, the requests and the command keep their types |
| `ApplyInvariant` | `ApplyInv`, for every origin |
| `ApplyNeverDuplicates`, `ApplyIsAttended`, `ApplyCreatesAsPlanned`, `ApplyUsesSoundPlans` | `NoDuplicateResource`, `NothingUnattended`, `PlannedForItsType`, `OnlySoundPlans`, for every origin |
| `ApplyThrottlesEachSlotAlone` | `ThrottleBudgetIsFresh`, for every origin |
| `ApplyKeepsPace`, `ApplyIsCutByRetriesOnly` | `PacedInv` and `LimitsNeedARetry`, for every origin: only a retry makes the loop run out of turns |
| `ApplyCreatesAreBounded` | `BoundedCreates`: a create per slot and one per retry, no more |
| `ApplyInOrder`, `ApplyReportsHonestly` | `DependencyOrder`, `HonestVerdict`, if no origin is a pattern's checkpoint |
| `ApplyImplementsOrderedApply` | under the same assumption, the refinement |
| `McpInvariant` | `McpInv`, for any calls, whatever thread they leave to each other and wherever a node throws |
| `McpPathActive`, `McpCreatesOnce`, `McpSuccessIsOwn` | `PathActiveWhileApplied`, `CreatesOncePerApply`, `SuccessIsOwn` |
| `McpAppliesAreBounded` | `BoundedPerApply`: one apply requests once and once more per retry |
| `PlanInvariant` | `PlanInv`, phase by phase |
| `PlanReportsHonestly`, `PlanNeverDuplicates`, `PlanningCreatesNothing`, `BlockedPlansStay` | `LastCreateExists`, `NoDuplicateResource`, `CreatesOnlyAfterYes`, `BlockedPlanIsNotApplied` |
| `LedgerInvariant` | `LedgerInv`, for any processes, files, jobs, deaths and failing calls |
| `AuditChainIsLinked` | `ChainIsLinked`: while no appender is robbed of its lock, an entry continues the one before it or starts a chain, and only the first entry starts one before something has failed |
| `RecordedIsRecoverable` | `Recoverable` |
| `FaultsCostOneEventEach` | `FaultsCostOneEach`: each death and each failed call costs the audit log at most one acknowledged event, also when two appenders are at work at once |
| `NothingIsWrittenBlindly`, `RecentRecordsSurvive`, `RestoreAddsNone` | `NoBlindWrite`, `RecentSurvives`, `RestoreAddsNoDuplicate`, each for a process whose read has not failed and a ledger whose lock was not robbed |
| `DestroyInvariant`, `LifecycleTypes` | `DestroyInv`, the first part of `LifecycleInv`, and the types |
| `SuccessfulDestroyLeavesNothing`, `TombstonesAreTrue` | `CleanExitMeansGone`, `TombstoneIsTrue` |
| `SightInvariant` | `SightInv`, the third part: what a command has in sight and what a tombstone hides |
| `LifecycleInvariant` | `LifecycleInv`, which is `DestroyInv`, `TidyInv` and `SightInv` |
| `RefusedCreatesCleanUp`, `AddressesAreUsed`, `InstancesGoWhole` | `RefusedCreateLeavesNothing`, `NoSpareAddress`, `DestroyedInstanceLeavesNothing` |

Seven more say when a formula that the code does *not* keep does hold; they are in
the [section on disagreements](#when-they-hold).

They hold for any number of callers, any timeouts and budgets; any length of the
queue, companions and retryable slots, any retry and throttle budgets. The
assumptions are the named ASSUMEs of the modules (`QueueAssumption`: the first
slot is not a companion; `LoopAssumption`: the loop's limit exceeds the queue;
`RecordedAssumption`: what a machine starts with was recorded before the jobs to come;
`NobodyAssumption`: no process is the value that stands for a missing or an orphaned
lock file; `LedgerAssumption`: the audit log is no file of the store; `WorldsAssumption` and
`CommandsAssumption`: an account starts with what IAM and the tagging API allow,
nothing in it is numbered as a job to come, and nobody applies a plan in another
account than their own; `NoValueAssumption`: no resource or address is the value that
stands for none), all of them evaluated by the runs too. `AgentGraph_proofs` holds what the drivers' proofs share: the nodes
keep the types, and which requests a node may touch.

**The lock.** Exclusion is not inductive: a state with two owners-to-be, one of
which has judged the other's file stale, satisfies it. `LockInv` says why that
state is not reached: the file is the one its only owner wrote and exactly as old
as the owner's tenure (`FileIsOwners`), tenures are bounded (`TenureBounded`), so
what a prober has seen was no older than a tenure when it was statted and has
aged no more than the probe since (`SightBounded`); with `MaxHold + MaxProbe <
StaleTimeout` nothing is ever judged stale (`NobodyReclaims`). The assumption
`TimelyEnvironment` is needed, not convenient: one crash is enough for
`lock_reclaim_race`, and with a slow holder `release()` removes its successor's
file.

**Apply.** That a slot is not created twice depends on what the poller knows; that
slots are created in order depends on when the cursor moves; that a success is
real depends on both. `ApplyInv` says, node by node, what may be relied upon:

* `ShapeInv` - what distinguishes a pattern's run from a single resource's, and
  that the completed slots are exactly those before the cursor;
* `StageInv` - which statuses and plans each node can find; past planning, the
  desired state is that of the slot under the cursor (`Ready`);
* `PlanningInv` - before phase 2 nothing is requested, and reaching the interrupt
  with a live status means the operator stands behind it;
* `RunningInv` - in phase 2, the provisioner is only entered with a passed
  preflight and no live request for the slot, and the poller holds the token of
  the one live request;
* `RequestInv` - no requests beyond the cursor, everything before it exists; with
  this `NoDuplicateResource`, `PlannedForItsType` and `DependencyOrder` are
  inductive;
* `VerdictInv` - a SUCCESS at the end means that the whole plan exists.

Most nodes change the status only; `SamePlan` names what they leave alone, and one
lemma (`SamePlanSafe`) does the common part of their cases. There is one lemma
per node and per step of the command. `DependencyOrder`, `HonestVerdict` and the
refinement assume `WholePlans`, since a pattern's checkpoint lacks part of its
plan (next section). `ThrottleBudgetIsFresh` needs one fact more (`BudgetInv`):
throttled polls are counted only from the poller on, for a slot that was requested.

What the loop's own count is worth needs another invariant. `pauses` counts the
stops at the interrupt, and the loop compares it with the queue; `PacedInv` says that
it is the cursor and the retries taken together (`Due`), one behind while the graph is
between a create and the next stop, and that no create is without a stop before it.
From it follow the bound on creates, that `MAX_PROVISION_LOOPS` ends no run, and that
a pattern without a retry never runs out of turns.

**MCP apply.** The thread belongs to no call, so `McpInv` says first what it is
whatever the last call left (`ThreadInv`), then, for the one call that holds the
path, where it is in its invocation and which of the requests are its own
(`since`, `Mine`): they are all failed retries but the last (`OnlyRetries`), and a
SUCCESS on the thread while the call is at work is one it brought about (`Own`).
That the path is active exactly while a call is in `Working` makes "the one call" a
fact. `graph-executor.ts` counts nothing in its loop: what bounds the requests of one
apply is the retry count in the channels (`CostInv`: every request but the last has
been paid for with a retry), which the thread keeps from call to call.

**Plan.** `PlanInv` has a part per phase. `PlanningInv`: the thread is in PLAN mode,
never reaches a node that requests, and ends with a desired state if anything may be
applied. `ApplyingInv`: the second thread goes straight to its interrupt.
`RunningInv`: it attempts one slot and ends, because a plan that passed its preflight
has left nothing in the queue (`PlannedToTheEnd`).

**Ledger.** None of the properties is inductive. `LedgerInv` says, for every process,
that its step belongs to its job (`JobFits`) and which locks it has there (`LocksHeld`):
a lock that was granted is had until a late reclaim robs it (`Keeps`). From that, a
writer of the ledger has read all that was placed, unless its read has failed
(`LedgerIsRead`, `Sees`); and an appender of the audit log has read the entry that is
still the last, unless a read of the log has failed (`AppenderIsCurrent`). Only the
three steps of a reclaim (`LockMove`) can give a lock to two, and `robbed` grows with
exactly those. A job has an id of its own (`OwnId`), and what restore takes is one event
per resource (`OnePerResource`). Most steps leave most processes alone: `Rests` names
what they leave, and one lemma per family of steps (`Others`, `LocksRest`, `PlacedStep`,
`CurrentStep`) does that part of every case. `Placed` leaves out what
`restore-provisions --from` brings: it takes no lock, so what it writes can be
overwritten by a writer that read before.

What is acknowledged does not depend on locks at all. `EventsAreWritten` is the trace
that `Recoverable` asks for: entries are only ever appended, and one that disappears has
been glued to half a line. `LossInv` is the account: what is acknowledged, or about to
be, and not in the log, together with a last line that has no end, is no more than the
faults so far. An unended line is its dead writer's, or one's that is about to give its
event up (`UnendedIsNotOwed`); the next append makes one lost event of the two, and this
holds of two appenders that were let in together. `Untroubled` says that before the
first fault nobody is robbed, orphaned or blind; it is what `CompleteUntilAFault` and
`ChainVerifiesWithAKey` rest on.

That the lock of a name is exclusive is not claimed here: `AdvisoryLock` proves it
without a death, and `lock_reclaim_race` shows that one death is enough to break it.

**Lifecycle.** `LifecycleInv` has three parts, and the others are proved from the first.

* `DestroyInv` follows what a destroy *meant* when it looked: every resource of it is
  dealt with (`Settled`), is still to come in what the command has not done
  (`Progress`), or is known to have failed, which sets the exit code. An answer that is
  still on its way says of its resource what the account says of it (`AnswerHolds`):
  that is what makes a tombstone true.
* `TidyInv` follows what an apply makes before its resource. Attempts are numbered:
  an address, a key pair and a profile bear the number or the plan they were made for
  (`NrOnce`, `Slots`, `Apart`). `Tracked` says of each label which of them may be there
  and that the attempt knows of them, hence that the cleanup comes to them;
  `TornDown` is the same of the teardown of an instance, piece by piece in the order
  IAM asks for; `AddressFits` is what is left to a NAT gateway's next attempt.
* `SightInv` follows what a command *sees*: what any list, plan or answer names is or was
  there (`Met`), what a sweep has still to delete is in the order of the ranks
  (`Ranked`), and a tombstone hides only what is gone, scheduled for deletion, in
  another account, or a bucket made again (`TombstoneHides`).

Every step is made by one command or by AWS. What it leaves alone of the other commands
is one lemma per family of steps (`Gentle`), so that each action is looked at once,
for the command that takes it. Two commands at one plan do disturb each other: `alone`
records that this has happened, and the properties about leftovers exempt it.

**Only model-checked.** Liveness (`EveryCallResolves`, `OrphanIsReclaimed`,
`EveryApplyIsReported`, `EveryPlanIsReported`, `EveryCallIsAnswered`,
`EveryCommandEnds`), since TLAPS does not reason about fairness and ENABLED. Every other
property of the runs that pass is a theorem. The other way round, some theorems are about
formulas that no run lists: `BoundedCreates`, `BoundedPerApply`, `PacedInv`, `CostInv`,
`RetryIsRunInTurn` and `KeyInPlace`. TLC finds them kept on
instances like those of `apply.cfg`, `mcp_apply.cfg` (with `MaxRetries = 2` too) and
`ledger.cfg` (`KeyInPlace` with the key file there from the start).

## Where code and documentation disagree

Five are runs that TLC finds violated, and findings in `PROJECT.json` with the line
quoted.

* `lock_reclaim_race` - two callers that judge one orphaned file stale: the slower
  one unlinks the file the faster has just created. Both run `fn`, although "`fn()`
  is NEVER called without the lock held".
* `apply_pattern_checkpoint` - a checkpoint restores the queue and not the pattern:
  only the last resource is created, and the run reports success.
* `plan_fixed` - a fix for the finding that blocks a pattern's last real resource
  moves the cursor to the companion after it: Yes then creates nothing, and is
  reported as a success.
* `destroy_tombstone` - a tombstone is an ARN and is never taken back: a bucket that
  is made again under its name stays out of `list` and of `destroy --all`.
* `launch_key` - cleanup deletes a key pair and leaves its file, which cannot be
  written over; the next key's private part is lost, and the attempt after that
  launches an instance with it.

More are stated as formulas that the code does not keep either. Each can be seen by
adding the name to the configuration given:

| Formula | Configuration | What happens |
|---|---|---|
| `ConfirmedUnlessYes` | `apply.cfg` | fixing findings interactively stands in for the confirmation that `docs/commands.md:167` promises unless `--yes` is given |
| `RetryIsRun` | `apply.cfg`, with `Companion = {}` and a `Retryable` slot at the end | the retry of a pattern's last resource is taken for a resource beyond the queue; the run ends before it is made |
| `RephrasedIntentIsPlanned` (PROPERTY) | `apply.cfg` | the clarifier's second attempt starts with the first one's FAILED status, so an understood intent is answered with the old failure |
| `DependencyOrder` | `plan_apply.cfg` | Yes after a pattern's plan starts the apply at the cursor's final position, with the last resource |
| `PlannedForItsType` | `plan_apply.cfg` | fixing a slot in the middle of a pattern's plan leaves the next slot's type with this slot's desired state |
| `HoldersFirst` | `lifecycle.cfg`, with `Worlds <- OnlyServers` and `Commands <- Sweeps` | `bulk-action.ts:151` says "EC2 instance before its SG"; the ranks (87 and 86) delete the group first |
| `ChainVerifies` | `ledger.cfg` | a process that finds the key file empty, or cannot read it, signs with a key of its own; one that cannot read the log starts the chain over (`audit-log.ts:277`): the log does not verify |
| `VerifiedIsComplete` | `ledger.cfg` | a line glued to half a line drops out, and the rest verifies. With `MaxFaults = 0` it is kept |
| `OneRecordPerResource` | `ledger.cfg` | `restore-provisions-audit-log.ts:577` has restore leave "unique ARNs, matching the ledger contract"; `appendProvision` looks for no ARN, so a bucket that is made again under its name has two records |
| `NeverBlind` (PROPERTY) | `ledger.cfg` | a read that fails is an empty log (`service.ts:135`): the append that follows writes its one record over all the others. With `MaxFaults = 0` it is kept |
| `NothingClobbered` (PROPERTY) | `ledger.cfg` | appends to `failures.json` hold the lock of `provisions.json`, rotation that of `failures.json`: it takes away a failure it has not read |

### When they hold

A formula that fails is worth more when it is known what it needs. Each of these is
proved, for every value of the constants, and its condition is what the
counterexamples above do without.

| Theorem | The formula | holds |
|---|---|---|
| `RetriesAreRunInTurn` | `RetryIsRun` | unless a pattern's cursor and retries together have reached the length of the queue (`RetryIsRunInTurn`) |
| `SuccessCreatesWithoutCompanions` | `SuccessCreates` | if the pattern has no display-only slots |
| `LiveIsListedUnlessReborn` | `LiveIsListed` | if no bucket and no KMS key is among the resources |
| `SweepsGoByTheRanks` | `HoldersFirst` | if the table's ranks put every holder before what it holds: the sort and the loop are right for any ranks |
| `KeysStayOnDisk` | `KeyOnDisk` | if every account starts with a key pair and its file with the operator |
| `ChainVerifiesWithAKey` | `ChainVerifies` | if the key file is written before the processes start, and until the first death or failed call |
| `CompleteUntilAFault` | `VerifiedIsComplete` | of every log, verified or not, until the first death or failed call |

Known and without a formula: a holder slower than the stale timeout removes its
successor's lock file; calling `apply_plan` again after a success creates the
resource again, and so does running an apply again whose create had gone through
unanswered; in the tool a pattern's checkpoint behaves as in
`apply_pattern_checkpoint`; retries are not reset when a pattern moves on; the client
token is new on every attempt, so AWS does not recognise a retry;
`docs/commands.md:105` has `plan --yes` auto-accept in CI, but `orchestrator.ts:226`
returns before the prompt without a terminal, whatever `--yes` says.

## What is not modelled

* In the graph: `option_elicitor`, `advice_generator`, `bp_evaluator` and
  `fix_applicator` change only data that `preflight_guard` judges, so that the
  choice is made there. The cost channels and the budget they feed are left out;
  the budget guard's refusal is a choice of the gate.
* The pre-create hooks of `resource_provisioner` are `RefuseProvision` in the graph;
  what they leave behind is the subject of `Provisioner`, where in turn the graph
  around the node is left out.
* Resuming a checkpoint with completed resources: nothing in a *plan* completes a
  resource, so no checkpoint of a plan has any.
* The recursion limit is not counted: in `McpApply` it is one way to throw; in the
  CLI it ends the run before the 20-minute poll timeout (a hazard, planned).
* The lock's alarm counters only log. Of the cap on active MCP applies only the
  refusal is seen. `clearAllApplies` runs when the process exits.
* Memory: `patterns.json` is locked and trimmed like `failures.json`,
  `destroyed-arns.json` is only appended to, the copy of a corrupt file is left out.
* Audit: tampering, the guard against truncation and rotation of the log: the HMAC is
  ideal, so that only what the code itself does can break the chain.
* Destroy: the strategies per type other than those of tables, buckets, instances and
  KMS keys; ambiguous names; the exclusion list. The defaults for subnets and KMS
  keys are one step of `Provisioner` that may fail.
* Components that are tables, pure functions, prompts or rendering; see the
  notes in `PROJECT.json`. They are the larger part of the repository by lines, so
  that the map covers a small share of it.

## The plan

Done: the lock, the graph, the three drivers, the ledger with its audit log, the
life cycle of an account; the proofs of all their safety properties, of what the loops
can cost, and of when the formulas hold that the code does not keep. Next:

1. Proofs: the bound of `BoundedPerApply` for the second thread of `PlanApply`;
   `NothingClobbered` for writers that hold the log's own lock; `ConfirmedUnlessYes`
   for runs without interactive fixes.
2. `Checkpoint`: save, prune, newest, time to live, and the resume with completed
   resources; composes with `CliApply` through `Origins`.
3. `PollBudget`: the counts of supersteps against the poll timeouts.
4. `AccountCache`, `BucketPolicy`: two small machines with one hazard each.
