----------------------------- MODULE Lifecycle -----------------------------
(***************************************************************************)
(* What operators do to one account in the course of time: applies and     *)
(* destroys, one after the other or at the same time, in an account that   *)
(* is empty or one that has been in use.                                   *)
(***************************************************************************)
EXTENDS Provisioner, Destroy

vars == <<alive, shown, blocked, disabled, pending, address, key, pem, keyOf,
          iam, records, tombs, pc, job, jobs, failed, denied, tear, faults,
          attempt, del, adrift>>

Ops == {"apply", "destroy", "sweep", "tool"}
Job == [op : Ops, run : Run \cup {None}, nr : {0} \cup Nr, alone : BOOLEAN]

ForAddress == {"find address", "release orphans", "allocate"}
Creating == ForAddress \cup {"find key", "create key", "write pem", "profile",
                            "defaults", "route", "create", "wait"}
Applying == Creating \cup {"record", "clean up", "undo profile", "delete key", "refused"}
Sweeping == {"enumerate", "confirm", "next"}
Preparing == {"resolve", "disable", "schedule", "hook", "recheck", "delete"}
Deleting == Preparing \cup {"poll", "classify"}
Labels == {"idle", "over"} \cup Applying \cup Sweeping \cup Deleting
            \cup {"tombstone", "cascade"}

\* What IAM itself sees to.
Whole(have) ==
  /\ "joined" \in have => {"role", "profile"} \subseteq have
  /\ "policy" \in have => "role" \in have

\* An account before anything here happens to it: what there is was made by
\* jobs 1 and 2, and the tagging API lists nothing of another account.
Old == [run : Run, nr : 1..(FirstJob - 1)]
World ==
  [alive : SUBSET Old, shown : SUBSET {r \in Old : r.run \notin Foreign},
   blocked : SUBSET Old, records : SUBSET Old,
   address : [Nr -> Address \cup {None}], key : 0..(FirstJob - 1),
   keyOf : [Nr -> {0} \cup Nr], iam : [Run -> {have \in SUBSET Piece : Whole(have)}]]

\* Nobody applies a plan in another account than their own.
Command == [op : {"apply"}, run : Run \ Foreign]
             \cup [op : {"destroy", "tool"}, run : Run]
             \cup [op : {"sweep"}, run : {None}]

ASSUME JobAssumption == None \notin Job
ASSUME WorldsAssumption ==
  /\ Worlds \subseteq World
  /\ \A w \in Worlds, i \in Nr : w.address[i] # None =>
       i < FirstJob /\ w.address[i].by = None
ASSUME CommandsAssumption == \A p \in Proc : Commands[p] \subseteq Command

TypeOK ==
  /\ {alive, shown, blocked, disabled, pending, records, tombs} \subseteq SUBSET Resource
  /\ address \in [Nr -> Address \cup {None}]
  /\ {key, pem} \subseteq {0} \cup Nr
  /\ keyOf \in [Nr -> {0} \cup Nr]
  /\ iam \in [Run -> SUBSET Piece]
  /\ pc \in [Proc -> Labels]
  /\ job \in [Proc -> Job \cup {None}]
  /\ jobs \in 0..MaxJobs
  /\ failed \in [Proc -> BOOLEAN]
  /\ tear \in [Proc -> SUBSET Piece]
  /\ denied \in [Proc -> SUBSET (Piece \cup {"lookup", "orphan", "address", "key"})]
  /\ faults \in 0..MaxFaults
  /\ attempt \in [Proc -> Attempt]
  /\ del \in [Proc -> Deletion]
  /\ adrift \subseteq Resource

Init ==
  /\ \E w \in Worlds :
       /\ alive = w.alive /\ shown = w.shown /\ blocked = w.blocked
       /\ address = w.address /\ iam = w.iam /\ records = w.records
       /\ key = w.key /\ pem = w.key /\ keyOf = w.keyOf
  /\ disabled = {} /\ pending = {} /\ tombs = {} /\ adrift = {}
  /\ pc = [p \in Proc |-> "idle"]
  /\ job = [p \in Proc |-> None]
  /\ jobs = 0
  /\ failed = [p \in Proc |-> FALSE]
  /\ denied = [p \in Proc |-> {}]
  /\ tear = [p \in Proc |-> {}]
  /\ faults = 0
  /\ attempt = [p \in Proc |-> Fresh(None, {})]
  /\ del = [p \in Proc |-> NoDeletion]

-----------------------------------------------------------------------------

Busy(p) == job[p] # None

\* Two commands may come near the same resources.  A command is alone while no
\* other comes near its own, and no deletion that was given up before it is
\* still on.
Touch(c, d) == c.run = d.run \/ None \in {c.run, d.run}

\* What an operator can name of a run's resources.
Nameable(run) == {Arn(r) : r \in {s \in alive \cup shown \cup records : s.run = run}}

Start(p, c) ==
  /\ pc[p] = "idle"
  /\ jobs < MaxJobs
  /\ jobs' = jobs + 1
  /\ job' = [q \in Proc |->
       IF q = p
         THEN [op |-> c.op, run |-> c.run,
               nr |-> IF c.op = "apply" THEN FirstJob + jobs ELSE 0,
               alone |-> /\ \A d \in Proc : Busy(d) => ~Touch(c, job[d])
                         /\ \A a \in adrift : a.run # c.run]
         ELSE IF Busy(q) /\ Touch(c, job[q]) THEN [job[q] EXCEPT !.alone = FALSE]
                                             ELSE job[q]]
  /\ UNCHANGED <<world, address, keys, iam, logs, failed, denied, tear, faults,
                 adrift>>

\* The plan of a run is applied by one process at a time: see CliApply and
\* McpApply for what two of them do.
BeginApply(p, c) ==
  /\ c.op = "apply"
  /\ \A q \in Proc : Busy(q) => ~(job[q].op = "apply" /\ job[q].run = c.run)
  /\ Start(p, c)
  /\ attempt' = [attempt EXCEPT ![p] = Fresh(Kind[c.run], iam[c.run])]
  /\ Goto(p, FirstHook(Kind[c.run]))
  /\ UNCHANGED del

BeginDestroy(p, c) ==
  /\ c.op \in {"destroy", "tool"}
  /\ Start(p, c)
  /\ \E a \in Nameable(c.run) : del' = [del EXCEPT ![p].target = a]
  /\ Goto(p, "resolve")
  /\ UNCHANGED attempt

BeginSweep(p, c) ==
  /\ c.op = "sweep"
  /\ Start(p, c)
  /\ Goto(p, "enumerate")
  /\ UNCHANGED <<attempt, del>>

\* The command returns, and its process forgets all of it.
End(p) ==
  /\ pc[p] = "over"
  /\ Goto(p, "idle")
  /\ job' = [job EXCEPT ![p] = None]
  /\ failed' = [failed EXCEPT ![p] = FALSE]
  /\ denied' = [denied EXCEPT ![p] = {}]
  /\ attempt' = [attempt EXCEPT ![p] = Fresh(None, {})]
  /\ del' = [del EXCEPT ![p] = NoDeletion]
  /\ UNCHANGED <<world, address, keys, iam, logs, jobs, tear, faults, adrift>>

\* The tagging API stops listing what is gone, up to an hour later.
IndexForgets ==
  /\ shown \ alive # {}
  /\ shown' = shown \cap alive
  /\ UNCHANGED <<alive, blocked, disabled, pending, address, keys, iam, logs, pc,
                 frame, failed, denied, tear, faults, attempt, del, adrift>>

\* Somebody takes away the managed-by tag.
LoseTag(r) ==
  /\ r \in shown \cap alive
  /\ Fails
  /\ shown' = shown \ {r}
  /\ UNCHANGED <<alive, blocked, disabled, pending, address, keys, iam, logs, pc,
                 frame, failed, denied, tear, attempt, del, adrift>>

Step(p) ==
  \/ Provision(p) /\ UNCHANGED <<del, adrift>>
  \/ DestroyStep(p) /\ UNCHANGED attempt
  \/ End(p)

Next ==
  \/ \E p \in Proc :
       \/ \E c \in Commands[p] : BeginApply(p, c) \/ BeginDestroy(p, c) \/ BeginSweep(p, c)
       \/ Step(p)
       \/ Settle(p) /\ UNCHANGED attempt
  \/ \E a \in adrift : SettleAdrift(a) /\ UNCHANGED attempt
  \/ IndexForgets
  \/ \E r \in shown : LoseTag(r)

\* A command that is running goes on; AWS need not do anything.
Spec == Init /\ [][Next]_vars /\ \A p \in Proc : WF_vars(Step(p))

-----------------------------------------------------------------------------
(* The inductive invariant, first part: what a command at each of its       *)
(* labels is about, and what has become of what it meant to delete.         *)

JobFits(p) ==
  /\ pc[p] \in Applying =>
       /\ job[p] # None /\ job[p].op = "apply" /\ job[p].run \in Run \ Foreign
       /\ job[p].nr \in Nr /\ job[p].nr < FirstJob + jobs
       /\ attempt[p].addr # 0 => Kind[job[p].run] = "nat"
  /\ pc[p] \in ForAddress => Kind[job[p].run] = "nat"
  /\ pc[p] \in Sweeping => job[p].op = "sweep"

DeletionFits(p) ==
  /\ pc[p] = "idle" => del[p] = NoDeletion
  /\ pc[p] \in Deleting \cup {"tombstone", "cascade"} => Target(p) \in Resource
  /\ pc[p] \in {"disable", "schedule"} => Target(p).run \notin Foreign
  /\ del[p].plan # {} => job[p].op = "sweep"
  /\ pc[p] = "over" /\ ~failed[p] => del[p].plan = {}
  /\ del[p].request = "open" => pc[p] = "poll"

\* Nothing that a command is still to create is there, or is in anyone's way.
NotYet(p) ==
  pc[p] \in Creating =>
    /\ Mine(p) \notin alive
    /\ \A q \in Proc : Mine(p) \notin del[q].meant

Numbered == \A r \in alive : r.nr < FirstJob + jobs
MeantNumbered(p) == \A r \in del[p].meant : r.nr < FirstJob + jobs

OnePlanOnce ==
  \A p, q \in Proc : p # q /\ pc[p] \in Applying /\ pc[q] \in Applying =>
    job[p].run # job[q].run

ListedIsOurs == \A r \in shown : r.run \notin Foreign

Settled(p, r) ==
  r \notin alive \/ r \in pending \/ (r.run \in Foreign /\ del[p].unsure)

AtHand(p) == {r \in del[p].meant : Arn(r) = Target(p)}

\* What was meant is dealt with, or the command has failed, or it is to come.
Progress(p) ==
  \A r \in del[p].meant :
    \/ Settled(p, r) \/ failed[p] \/ Arn(r) \in del[p].plan
    \/ Arn(r) = Target(p) /\ pc[p] \in Deleting

\* What each answer of CloudControl means for what is at hand.
AnswerHolds(p) ==
  /\ pc[p] = "classify" \/ (pc[p] = "poll" /\ del[p].request = "absent") =>
       \A r \in AtHand(p) : Settled(p, r) \/ r.run \in Foreign
  /\ pc[p] = "tombstone" \/ (pc[p] = "poll" /\ del[p].request = "success") =>
       \A r \in AtHand(p) : Settled(p, r)

DestroyInv ==
  /\ TypeOK /\ Numbered /\ OnePlanOnce /\ ListedIsOurs
  /\ \A p \in Proc : /\ JobFits(p) /\ DeletionFits(p) /\ NotYet(p)
                     /\ MeantNumbered(p) /\ Progress(p) /\ AnswerHolds(p)

-----------------------------------------------------------------------------
(* Second part: what an apply has made for its resource, whether the         *)
(* account knows it for its own, and what a teardown has still to remove.    *)

Aimed(p) ==
  /\ pc[p] = "idle" <=> job[p] = None
  /\ job[p] # None => (job[p].op = "sweep" <=> job[p].run = None)
  /\ pc[p] \in Sweeping \cup Deleting \cup {"tombstone", "cascade"} =>
       job[p].op # "apply"
  /\ pc[p] \in Deleting \cup {"tombstone", "cascade"} =>
       Target(p).run = job[p].run \/ job[p].run = None
  /\ pc[p] \in {"find key", "create key", "write pem", "profile"} =>
       Kind[job[p].run] = "instance"

Apart ==
  \A p \in Proc : job[p] # None /\ job[p].alone =>
    /\ \A q \in Proc \ {p} : job[q] # None => ~Touch(job[p], job[q])
    /\ job[p].op = "apply" => \A a \in adrift : a.run # job[p].run

NrOnce ==
  \A p, q \in Proc : p # q /\ pc[p] \in Applying /\ pc[q] \in Applying =>
    job[p].nr # job[q].nr

\* Nothing in the account has the number of a job that is still to come.
Slots ==
  /\ key < FirstJob + jobs
  /\ \A i \in Nr : address[i] # None =>
       /\ i < FirstJob + jobs
       /\ address[i].by # None => address[i].run \in {None, address[i].by.run}

Undoing == {"undo profile", "delete key", "refused"}

Alone(p) == job[p].alone /\ denied[p] = {}

\* The address, the key and the pieces that an apply has made are in its
\* attempt, or with the cleanup in its tear, or gone.
Tracked(p) ==
  pc[p] \in Applying =>
    LET nr == job[p].nr  run == job[p].run
    IN  /\ address[nr] # None => attempt[p].fresh
        /\ attempt[p].fresh => attempt[p].addr = nr
        /\ pc[p] \in ForAddress => ~attempt[p].fresh
        /\ pc[p] \in Undoing /\ denied[p] = {} => address[nr] = None
        /\ key = nr /\ denied[p] = {} => attempt[p].keyMade
        /\ pc[p] = "refused" => failed[p] /\ (denied[p] = {} => key # nr)
        /\ pc[p] \in {"delete key", "refused"} => tear[p] = {}
        /\ Whole(attempt[p].found)
        /\ job[p].alone => iam[run] \subseteq attempt[p].found \cup attempt[p].made
        /\ pc[p] \in Undoing /\ Alone(p) => iam[run] \subseteq attempt[p].found \cup tear[p]

\* A destroyed instance's pieces are all still to be torn down, or gone.
TornDown(p) ==
  pc[p] = "cascade" /\ Alone(p) => iam[Target(p).run] \subseteq tear[p]

\* An attempt's address is one of its run, and the run has no other to spare.
Used(i) == address[i].by # None
AddressFits(p) ==
  /\ pc[p] \in Creating /\ attempt[p].addr # 0 =>
       /\ attempt[p].addr < FirstJob + jobs
       /\ address[attempt[p].addr] # None =>
            address[attempt[p].addr].run \in {None, job[p].run}
       /\ \A q \in Proc : pc[q] \in Applying /\ attempt[p].addr = job[q].nr =>
            attempt[q].fresh
  /\ job[p] # None /\ job[p].op = "apply" /\ Alone(p) /\ Kind[job[p].run] = "nat" =>
       /\ pc[p] = "allocate" => Tagged(job[p].run) = {}
       /\ pc[p] \in {"defaults", "route", "create", "wait"} =>
            \A i \in Tagged(job[p].run) : i = attempt[p].addr \/ Used(i)
       /\ pc[p] = "record" \/ (pc[p] = "over" /\ ~failed[p]) =>
            \A i \in Tagged(job[p].run) : Used(i)

TidyInv ==
  /\ Apart /\ NrOnce /\ Slots
  /\ \A run \in Run : Whole(iam[run])
  /\ \A p \in Proc : Aimed(p) /\ Tracked(p) /\ TornDown(p) /\ AddressFits(p)

-----------------------------------------------------------------------------
(* Third part: what a command has in sight, and what the logs tell of it.    *)

\* The logs, the tagging API or a command know it by name.
Named(r) ==
  \/ r \in shown \cup records \cup tombs
  \/ \E p \in Proc : r \in del[p].plan \cup {Target(p)}

\* It is none of what is still to be created.
Met(r) ==
  /\ r.nr < FirstJob + jobs
  /\ \A p \in Proc : pc[p] \in Creating => r # Mine(p)

Sighted(p, r) ==
  \/ r \in del[p].plan
  \/ r = Target(p) /\ pc[p] \in (Deleting \ {"resolve"}) \cup {"tombstone"}
  \/ r = Target(p) /\ pc[p] = "resolve" /\ job[p].op = "sweep"

\* What a command has in sight it means, but for a bucket: that may have been
\* created again since, under the same name.
Sought(p) ==
  \A r \in alive : Kind[r.run] # "bucket" /\ Sighted(p, r) => r \in del[p].meant

\* Nothing that a sweep has still to come to is of a lower rank.
Ranked(p) ==
  pc[p] \in Deleting \cup {"tombstone", "cascade"} =>
    \A b \in del[p].plan : Rank[TargetKind(p)] <= Rank[Kind[b.run]]

OnlyKeysWait ==
  /\ \A r \in pending : Kind[r.run] = "cmk"
  /\ \A p \in Proc : pc[p] \in {"disable", "schedule"} => TargetKind(p) = "cmk"

\* A tombstone hides nothing that is there, except a bucket that was created
\* again, a KMS key that is scheduled for deletion, and what is in another
\* account (destroyed-arns.ts, fetch-managed-resources.ts).
TombstoneHides ==
  \A r \in alive : Arn(r) \in tombs =>
    Kind[r.run] = "bucket" \/ r \in pending \/ r.run \in Foreign

SightInv ==
  /\ \A r \in Resource : Named(r) => Met(r)
  /\ \A p \in Proc : Sought(p) /\ Ranked(p)
  /\ OnlyKeysWait
  /\ TombstoneHides

LifecycleInv == DestroyInv /\ TidyInv /\ SightInv

-----------------------------------------------------------------------------
(* Properties. *)

\* A destroy that reports success, of one resource or of all, has left
\* nothing of what it found: it is gone, or a KMS key that is scheduled for
\* deletion.  The exception is a resource of another account while STS does
\* not answer (classifyNotFoundShortCircuit).
CleanExitMeansGone ==
  \A p \in Proc :
    pc[p] = "over" /\ ~failed[p] /\ job[p].op # "apply" =>
      \A r \in del[p].meant \cap alive :
        r \in pending \/ (r.run \in Foreign /\ del[p].unsure)

\* A create that AWS refused leaves nothing behind that was made for it, no
\* matter how far its preparation had come, unless a call of the cleanup
\* failed, or the answer that a key pair was made lacked its private key
\* (cleanupAllocatedResources).
RefusedCreateLeavesNothing ==
  \A p \in Proc :
    pc[p] = "refused" /\ denied[p] = {} /\ job[p].alone =>
      /\ address[job[p].nr] = None
      /\ key # job[p].nr
      /\ iam[job[p].run] \cap attempt[p].made \subseteq attempt[p].found

\* With the instance goes its role and its instance profile: every call of the
\* teardown that is not denied can be carried out, in the order they come in
\* (destroySshBundleIam).
DestroyedInstanceLeavesNothing ==
  [][\A p \in Proc :
       pc[p] = "cascade" /\ pc'[p] # "cascade" /\ denied'[p] = {} /\ job[p].alone =>
         iam'[Target(p).run] = {}]_vars

\* However often the plan of a NAT gateway is applied again after failures, an
\* apply that succeeds leaves no Elastic IP of the plan that nothing uses,
\* neither allocated twice nor forgotten (findReusableEip, releaseOrphanEips).
NoSpareAddress ==
  \A p \in Proc :
    /\ pc[p] = "over" /\ ~failed[p] /\ denied[p] = {}
    /\ job[p].op = "apply" /\ Kind[job[p].run] = "nat" /\ job[p].alone
    => \A i \in Tagged(job[p].run) : address[i].by # None

\* Nothing is hidden from `list` by a tombstone while it is there: what a
\* destroy meant is gone when its tombstone is written, although the answer of
\* CloudControl may be late, lost or about another account.
TombstoneIsTrue ==
  [][\A p \in Proc : pc[p] = "tombstone" /\ tombs' # tombs =>
       \A r \in del[p].meant : Arn(r) = Target(p) =>
         r \notin alive \/ r \in pending \/ del[p].unsure]_vars

\* Every command ends, even if CloudControl never answers a deletion.
EveryCommandEnds == \A p \in Proc : pc[p] # "idle" ~> pc[p] = "idle"

\* fetch-managed-resources.ts: tombstones are there because "AWS keeps the
\* managed-by tag on deleted resources for up to ~1h".  What is there and
\* tagged is listed.
LiveIsListed ==
  (\A p \in Proc : ~Busy(p)) => \A r \in alive \cap shown : Arn(r) \notin tombs

\* bulk-action.ts: "EC2 instance before its SG".  A sweep deletes nothing that
\* a resource it has still to delete keeps from being deleted.
HoldersFirst ==
  \A p \in Proc :
    job[p] # None /\ job[p].op = "sweep" /\ del[p].request = "open" =>
      \A b \in del[p].plan : b.run \notin Holders[Target(p).run]

\* ssh-keypair.ts: "so we NEVER silently proceed without SSH access".  The
\* operator has the key that an instance was launched with.
KeyOnDisk ==
  \A r \in alive :
    Kind[r.run] = "instance" /\ keyOf[r.nr] # 0 => keyOf[r.nr] = pem
=============================================================================
