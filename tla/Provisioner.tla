---------------------------- MODULE Provisioner ----------------------------
(***************************************************************************)
(* resource_provisioner with what it does in the account besides the one   *)
(* CreateResource call: an Elastic IP for a NAT gateway, a key pair and an *)
(* instance profile for an EC2 instance, made before the create and taken  *)
(* back when it is refused (graph/nodes/resource-provisioner.ts and the    *)
(* files of resource-provisioner/), up to the provision record.            *)
(***************************************************************************)
EXTENDS Account

VARIABLE attempt  \* the placeholders of desiredState, and what was made for them

\* desiredState as the plan left it, nothing made yet.  `found` is a record of
\* what there was of the instance profile; the code does not look.
Fresh(kind, found) ==
  [addr |-> 0, fresh |-> FALSE, keyName |-> kind = "instance",
   keyMade |-> FALSE, made |-> {}, found |-> found]

Attempt == [addr : {0} \cup Nr, fresh : BOOLEAN, keyName : BOOLEAN,
            keyMade : BOOLEAN, made : SUBSET Piece, found : SUBSET Piece]

rest == <<world, logs, frame, failed, tear>>

\* The hooks a kind of resource needs: the address, or the key and profile.
FirstHook(kind) ==
  CASE kind = "nat" -> "find address"
    [] kind = "instance" -> "find key"
    [] OTHER -> "defaults"

-----------------------------------------------------------------------------
(* allocateNatGatewayEip *)

Tagged(run) == {i \in Nr : address[i] # None /\ address[i].run = run}

\* findReusableEip: the first address of an earlier attempt of the run; when
\* the question fails, none.
FindAddress(p) ==
  /\ pc[p] = "find address"
  /\ \/ \E i \in Tagged(job[p].run) :
          /\ Works
          /\ attempt' = [attempt EXCEPT ![p].addr = i]
          /\ Goto(p, "release orphans")
          /\ UNCHANGED denied
     \/ /\ Tagged(job[p].run) = {}
        /\ Works
        /\ Goto(p, "allocate")
        /\ UNCHANGED <<attempt, denied>>
     \/ /\ Fails
        /\ Deny(p, "lookup")
        /\ Goto(p, "allocate")
        /\ UNCHANGED attempt
  /\ UNCHANGED <<rest, keys, address, iam>>

\* Mutant: earlier addresses of the run are left where they are.
ReleaseOrphans_Never(p) ==
  /\ pc[p] = "release orphans"
  /\ Goto(p, "defaults")
  /\ UNCHANGED <<rest, keys, address, iam, attempt, denied, faults>>

\* releaseOrphanEips: every other address of the run that nothing uses.
ReleaseOrphans(p) ==
  /\ pc[p] = "release orphans"
  /\ LET orphans == {i \in Tagged(job[p].run) \ {attempt[p].addr} :
                       address[i].by = None}
         Without(gone) == [i \in Nr |-> IF i \in gone THEN None ELSE address[i]]
     IN  \/ /\ Works
            /\ address' = Without(orphans)
            /\ UNCHANGED denied
         \/ \E i \in orphans :
              /\ Fails
              /\ Deny(p, "orphan")
              /\ address' = Without(orphans \ {i})
  /\ Goto(p, "defaults")
  /\ UNCHANGED <<rest, keys, iam, attempt>>

\* allocateFreshEip; without its tag an address is as good as any.
Allocate(p) ==
  /\ pc[p] = "allocate"
  /\ \/ /\ \/ /\ Works
              /\ address' = [address EXCEPT ![job[p].nr] =
                               [run |-> job[p].run, by |-> None]]
           \/ /\ Fails
              /\ address' = [address EXCEPT ![job[p].nr] =
                               [run |-> None, by |-> None]]
        /\ attempt' = [attempt EXCEPT ![p].addr = job[p].nr, ![p].fresh = TRUE]
        /\ Goto(p, "defaults")
        /\ UNCHANGED failed
     \/ /\ Fails
        /\ Fail(p)
        /\ Goto(p, "over")
        /\ UNCHANGED <<address, attempt>>
  /\ UNCHANGED <<world, logs, frame, tear, keys, iam, denied>>

-----------------------------------------------------------------------------
(* ensureSshKeypair: one name for every run of every operator. *)

FindKey(p) ==
  /\ pc[p] = "find key"
  /\ \/ Works /\ Goto(p, IF key # 0 THEN "profile" ELSE "create key")
     \/ Fails /\ Goto(p, "clean up")
  /\ UNCHANGED <<rest, keys, address, iam, attempt, denied>>

\* KeyName is taken out of desiredState: the instance comes up without a key.
Strip(p) == attempt' = [attempt EXCEPT ![p].keyName = FALSE]

\* An answer without KeyMaterial is an error, and the key pair is made all the
\* same: it is not tracked, so the cleanup will not come to it.
CreateKey(p) ==
  /\ pc[p] = "create key"
  /\ \/ /\ key = 0
        /\ Works
        /\ key' = job[p].nr
        /\ attempt' = [attempt EXCEPT ![p].keyMade = TRUE]
        /\ Goto(p, "write pem")
        /\ UNCHANGED denied
     \/ /\ key = 0
        /\ Fails
        /\ key' = job[p].nr
        /\ Strip(p)
        /\ Deny(p, "key")
        /\ Goto(p, "profile")
     \/ /\ (key # 0 /\ Works) \/ Fails
        /\ Strip(p)
        /\ Goto(p, "profile")
        /\ UNCHANGED <<key, denied>>
  /\ UNCHANGED <<rest, pem, keyOf, address, iam>>

\* The file is created read-only, so that it is never written a second time.
WritePem(p) ==
  /\ pc[p] = "write pem"
  /\ \/ /\ pem = 0
        /\ Works
        /\ pem' = job[p].nr
        /\ UNCHANGED attempt
     \/ /\ (pem # 0 /\ Works) \/ Fails
        /\ Strip(p)
        /\ UNCHANGED pem
  /\ Goto(p, "profile")
  /\ UNCHANGED <<rest, key, keyOf, address, iam, denied>>

-----------------------------------------------------------------------------

\* ensureSshIamProfile, one call of it: what exists already counts as made.
MakePiece(p) ==
  /\ pc[p] = "profile"
  /\ \E x \in Piece :
       /\ InTurn(Pieces, Piece \ attempt[p].made, x)
       /\ \/ /\ CanMake(iam[job[p].run], x)
             /\ Works
             /\ iam' = [iam EXCEPT ![job[p].run] = @ \cup {x}]
             /\ attempt' = [attempt EXCEPT ![p].made = @ \cup {x}]
             /\ Goto(p, IF attempt'[p].made = Piece THEN "defaults" ELSE "profile")
          \/ /\ (~CanMake(iam[job[p].run], x) /\ Works) \/ Fails
             /\ Goto(p, "clean up")
             /\ UNCHANGED <<iam, attempt>>
  /\ UNCHANGED <<rest, keys, address, denied>>

\* The default subnet and the nine hooks that put in a default KMS key.
Defaults(p) ==
  /\ pc[p] = "defaults"
  /\ \/ Works /\ Goto(p, "route")
     \/ Fails /\ Goto(p, "clean up")
  /\ UNCHANGED <<rest, keys, address, iam, attempt, denied>>

\* The resource is there, with its tag, and uses what was made for it.
Appears(p) ==
  /\ alive' = alive \cup {Mine(p)}
  /\ shown' = shown \cup {Mine(p)}
  /\ keyOf' = [keyOf EXCEPT ![job[p].nr] = IF attempt[p].keyName THEN key ELSE 0]
  /\ address' = IF attempt[p].addr = 0 THEN address
                ELSE [address EXCEPT ![attempt[p].addr].by = Mine(p)]
  /\ UNCHANGED <<blocked, disabled, pending>>

\* What AWS checks before it creates: the name is free, and what the resource
\* refers to exists.
Creatable(p) ==
  /\ \A r \in alive : Arn(r) # Arn(Mine(p))
  /\ Kind[job[p].run] = "instance" =>
       /\ attempt[p].keyName => key # 0
       /\ {"profile", "joined"} \subseteq iam[job[p].run]
  /\ Kind[job[p].run] = "nat" =>
       address[attempt[p].addr] # None /\ address[attempt[p].addr].by = None

\* routeProvisioningByPartition: outside the commercial partition a bucket is
\* created by the SDK itself, other types are refused; nothing is taken back.
Route(p) ==
  /\ pc[p] = "route"
  /\ \/ /\ Works
        /\ Goto(p, "create")
        /\ UNCHANGED <<world, keyOf, address, failed>>
     \/ /\ Kind[job[p].run] = "bucket"
        /\ Creatable(p)
        /\ Works
        /\ Appears(p)
        /\ Goto(p, "record")
        /\ UNCHANGED failed
     \/ /\ Fails
        /\ Fail(p)
        /\ Goto(p, "over")
        /\ UNCHANGED <<world, keyOf, address>>
  /\ UNCHANGED <<logs, frame, tear, key, pem, iam, attempt, denied>>

\* CreateResource: accepted, or refused and cleaned up after.
Create(p) ==
  /\ pc[p] = "create"
  /\ Goto(p, "wait") \/ Goto(p, "clean up")
  /\ UNCHANGED <<rest, keys, address, iam, attempt, denied, faults>>

\* What comes of an accepted request.  After a failure nothing is cleaned up.
Wait(p) ==
  /\ pc[p] = "wait"
  /\ \/ /\ Creatable(p)
        /\ Appears(p)
        /\ Goto(p, "record")
        /\ UNCHANGED failed
     \/ /\ Fail(p)
        /\ Goto(p, "over")
        /\ UNCHANGED <<world, keyOf, address>>
  /\ UNCHANGED <<logs, frame, tear, key, pem, iam, attempt, denied, faults>>

\* writeProvisionRecord; the ledger may be locked, and the apply succeeds.
WriteRecord(p) ==
  /\ pc[p] = "record"
  /\ \/ Works /\ records' = records \cup {Mine(p)}
     \/ Fails /\ UNCHANGED records
  /\ Goto(p, "over")
  /\ UNCHANGED <<world, tombs, frame, failed, tear, keys, address, iam, attempt,
                 denied>>

-----------------------------------------------------------------------------
(* cleanupAllocatedResources *)

\* Mutant: only a complete profile is torn down, not a partial one.
ToTearDown_WhenWhole(p) ==
  IF "joined" \in attempt[p].made THEN attempt[p].made ELSE {}

\* The IAM pieces that the tracker `created` names.
ToTearDown(p) == attempt[p].made

\* The address, unless it was there before this attempt.
CleanUp(p) ==
  /\ pc[p] = "clean up"
  /\ \/ /\ attempt[p].fresh
        /\ Works
        /\ address' = [address EXCEPT ![attempt[p].addr] = None]
        /\ UNCHANGED denied
     \/ /\ attempt[p].fresh
        /\ Fails
        /\ Deny(p, "address")
        /\ UNCHANGED address
     \/ /\ ~attempt[p].fresh
        /\ Works
        /\ UNCHANGED <<address, denied>>
  /\ tear' = [tear EXCEPT ![p] = ToTearDown(p)]
  /\ Goto(p, IF ToTearDown(p) = {} THEN "delete key" ELSE "undo profile")
  /\ UNCHANGED <<world, logs, frame, failed, keys, iam, attempt>>

UndoProfile(p) ==
  /\ pc[p] = "undo profile"
  /\ Teardown(p, job[p].run, "delete key")
  /\ UNCHANGED <<world, logs, frame, failed, keys, address, attempt>>

\* DeleteKeyPair goes by the name, whoever made the key; the file stays.
DeleteKey(p) ==
  /\ pc[p] = "delete key"
  /\ \/ /\ Works
        /\ key' = IF attempt[p].keyMade THEN 0 ELSE key
        /\ UNCHANGED denied
     \/ /\ attempt[p].keyMade
        /\ Fails
        /\ Deny(p, "key")
        /\ UNCHANGED key
  /\ Fail(p)
  /\ Goto(p, "refused")
  /\ UNCHANGED <<world, logs, frame, tear, pem, keyOf, address, iam, attempt>>

\* The create was refused and cleaned up after.
Refused(p) ==
  /\ pc[p] = "refused"
  /\ Goto(p, "over")
  /\ UNCHANGED <<rest, keys, address, iam, attempt, denied, faults>>

-----------------------------------------------------------------------------

Provision(p) ==
  \/ FindAddress(p) \/ ReleaseOrphans(p) \/ Allocate(p)
  \/ FindKey(p) \/ CreateKey(p) \/ WritePem(p) \/ MakePiece(p)
  \/ Defaults(p) \/ Route(p) \/ Create(p) \/ Wait(p) \/ WriteRecord(p)
  \/ CleanUp(p) \/ UndoProfile(p) \/ DeleteKey(p) \/ Refused(p)
=============================================================================
