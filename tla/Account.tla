------------------------------ MODULE Account ------------------------------
(***************************************************************************)
(* What `apply` and `destroy` change outside this process: the AWS account *)
(* as CloudControl, EC2, IAM and the tagging API show it, the key file on  *)
(* the operator's disk, and the two logs that destroy goes by, provision   *)
(* records and tombstones (destroyed-arns.json).                           *)
(*                                                                         *)
(* A resource is named after the run whose plan it comes from and the job  *)
(* that created it.  Every call to AWS may fail, at most MaxFaults times.  *)
(***************************************************************************)
EXTENDS Naturals, Sequences, FiniteSets

CONSTANTS
  Proc,      \* the command lines and the MCP server of one operator
  Run,       \* plans that are applied, under one run id each
  Kind,      \* what kind of resource the plan of each run is for
  Holders,   \* the runs whose living resources keep a run's from being deleted
  Foreign,   \* runs that were applied in another account
  Worlds,    \* the accounts a behaviour may start from
  Commands,  \* what may be asked of each of them: [op, run]
  None,      \* no value
  MaxJobs,   \* bound: commands
  MaxFaults, \* bound: calls that fail
  MaxPolls   \* how often a deletion is polled

ASSUME BoundsAssumption == MaxJobs \in Nat /\ MaxFaults \in Nat /\ MaxPolls \in Nat
ASSUME RunAssumption == None \notin Run /\ Foreign \subseteq Run

\* Jobs, and what they make, are numbered; 1 and 2 were made before.
FirstJob == 3
Nr == 1..(FirstJob + MaxJobs)
Resource == [run : Run, nr : {0} \cup Nr]
Address == [run : Run \cup {None}, by : Resource \cup {None}]
Piece == {"role", "policy", "profile", "joined"}

ASSUME NoValueAssumption == None \notin Resource \cup Address

VARIABLES
  alive,    \* resources that exist
  shown,    \* resources that the tagging API lists as managed
  blocked,  \* resources that have to be prepared before they can be deleted
  disabled, \* KMS keys that are disabled
  pending,  \* KMS keys that are scheduled for deletion
  address,  \* Elastic IPs: the run they are tagged with, the gateway that has them
  key,      \* which job made the key pair of the account; 0: there is none
  pem,      \* which job's private key is on disk; 0: no file
  keyOf,    \* the key pair that each instance was launched with
  iam,      \* what there is of each run's role and instance profile
  records,  \* the provision records
  tombs,    \* the tombstones
  pc, job, jobs,
  failed,   \* the command does not report success
  denied,   \* what AWS did not let the command look up, keep track of or remove
  tear,     \* IAM pieces that remain to be removed
  faults

world == <<alive, shown, blocked, disabled, pending>>
keys == <<key, pem, keyOf>>
logs == <<records, tombs>>
frame == <<job, jobs>>

\* A bucket that is created again has the ARN it had before.
Arn(r) == IF Kind[r.run] = "bucket" THEN [r EXCEPT !.nr = 0] ELSE r

\* The resource a job creates.
Mine(p) == [run |-> job[p].run, nr |-> job[p].nr]

Goto(p, label) == pc' = [pc EXCEPT ![p] = label]

\* An AWS call either answers, or fails.
Works == UNCHANGED faults
Fails == faults < MaxFaults /\ faults' = faults + 1

\* The command will not report success.
Fail(p) == failed' = [failed EXCEPT ![p] = TRUE]

Deny(p, what) == denied' = [denied EXCEPT ![p] = @ \cup {what}]

-----------------------------------------------------------------------------
(* CloudControl: what can be deleted, and what a deletion does. *)

Living(a) == {r \in alive : Arn(r) = a /\ r.run \notin Foreign}

Stuck(a) ==
  \/ \E r \in Living(a) : r \in blocked \cup pending
  \/ \E r \in alive : r.run \in Holders[a.run]

\* The address of a NAT gateway survives it; a KMS key is only scheduled.
Vanish(a) ==
  /\ IF Kind[a.run] = "cmk"
       THEN pending' = pending \cup Living(a) /\ UNCHANGED <<alive, address>>
       ELSE /\ alive' = alive \ Living(a)
            /\ address' = [i \in Nr |->
                 IF address[i] # None /\ address[i].by \in Living(a)
                   THEN [address[i] EXCEPT !.by = None] ELSE address[i]]
            /\ UNCHANGED pending
  /\ UNCHANGED <<shown, blocked, disabled>>

-----------------------------------------------------------------------------
(* IAM: the role and instance profile assignee-ssh-<run>. *)

Pieces == <<"role", "policy", "profile", "joined">>

CanMake(have, x) ==
  /\ x \in {"policy", "joined"} => "role" \in have
  /\ x = "joined" => "profile" \in have
CanRemove(have, x) ==
  /\ x \in {"profile", "role"} => "joined" \notin have
  /\ x = "role" => "policy" \notin have

\* Mutant: the role first, which is refused while the profile has it.
TeardownOrder_RoleFirst == <<"role", "joined", "profile", "policy">>

\* RemoveRoleFromInstanceProfile, DeleteInstanceProfile, DetachRolePolicy,
\* DeleteRole.
TeardownOrder == <<"joined", "profile", "policy", "role">>

\* x is the first of what is left, in this order.
InTurn(order, left, x) ==
  /\ x \in left
  /\ \E i \in DOMAIN order : order[i] = x /\ \A j \in 1..(i - 1) : order[j] \notin left

\* One call of a teardown.  What is gone already is fine, a conflict is not,
\* and neither stops the teardown.
Teardown(p, run, next) ==
  \E x \in Piece :
    /\ InTurn(TeardownOrder, tear[p], x)
    /\ \/ /\ Works
          /\ iam' = [iam EXCEPT ![run] = IF CanRemove(@, x) THEN @ \ {x} ELSE @]
          /\ UNCHANGED denied
       \/ /\ Fails
          /\ Deny(p, x)
          /\ UNCHANGED iam
    /\ tear' = [tear EXCEPT ![p] = @ \ {x}]
    /\ Goto(p, IF tear'[p] = {} THEN next ELSE pc[p])
=============================================================================
