-------------------------- MODULE Lifecycle_proofs --------------------------
(***************************************************************************)
(* Applying and destroying, for any number of commands, plans, processes   *)
(* and failing calls: DestroyInv is inductive, and with it a destroy       *)
(* that reports success has left nothing, and no tombstone is on what is   *)
(* still there.                                                            *)
(*                                                                         *)
(* First the types, action by action; then what a step of one command can  *)
(* do to the others; then the parts of DestroyInv.  With it SightInv:      *)
(* what a command has in sight, and when a list shows what lives, a sweep  *)
(* goes by the ranks and the key pair stays on disk.                       *)
(***************************************************************************)
EXTENDS Lifecycle, TLAPS

LEMMA Numbers ==
  /\ MaxJobs \in Nat /\ MaxFaults \in Nat /\ MaxPolls \in Nat
  /\ FirstJob \in Nat /\ \A n \in 0..MaxJobs : FirstJob + n \in Nr
BY BoundsAssumption DEF FirstJob, Nr

\* The types of the account, of the logs and of the commands, one by one.
LEMMA TypeFacts ==
  ASSUME TypeOK
  PROVE  /\ alive \subseteq Resource /\ shown \subseteq Resource
         /\ blocked \subseteq Resource /\ disabled \subseteq Resource
         /\ pending \subseteq Resource /\ records \subseteq Resource
         /\ tombs \subseteq Resource /\ adrift \subseteq Resource
         /\ address \in [Nr -> Address \cup {None}]
         /\ key \in {0} \cup Nr /\ pem \in {0} \cup Nr
         /\ keyOf \in [Nr -> {0} \cup Nr]
         /\ iam \in [Run -> SUBSET Piece]
         /\ pc \in [Proc -> Labels]
         /\ job \in [Proc -> Job \cup {None}]
         /\ jobs \in 0..MaxJobs
         /\ failed \in [Proc -> BOOLEAN]
         /\ tear \in [Proc -> SUBSET Piece]
         /\ denied \in [Proc -> SUBSET (Piece \cup {"lookup", "orphan", "address", "key"})]
         /\ faults \in 0..MaxFaults
         /\ attempt \in [Proc -> Attempt]
         /\ del \in [Proc -> Deletion]
BY DEF TypeOK

\* The parts of the type invariant that the commands share.
WorldOK ==
  /\ {alive, shown, blocked, disabled, pending, records, tombs} \subseteq SUBSET Resource
  /\ address \in [Nr -> Address \cup {None}]
  /\ {key, pem} \subseteq {0} \cup Nr
  /\ keyOf \in [Nr -> {0} \cup Nr]
  /\ iam \in [Run -> SUBSET Piece]
  /\ faults \in 0..MaxFaults
  /\ adrift \subseteq Resource

\* ... and those that tell of each command.
CommandsOK ==
  /\ pc \in [Proc -> Labels]
  /\ job \in [Proc -> Job \cup {None}]
  /\ jobs \in 0..MaxJobs
  /\ failed \in [Proc -> BOOLEAN]
  /\ tear \in [Proc -> SUBSET Piece]
  /\ denied \in [Proc -> SUBSET (Piece \cup {"lookup", "orphan", "address", "key"})]
  /\ attempt \in [Proc -> Attempt]
  /\ del \in [Proc -> Deletion]

LEMMA TypeParts == TypeOK <=> WorldOK /\ CommandsOK
BY DEF TypeOK, WorldOK, CommandsOK

LEMMA FaultsCount ==
  ASSUME TypeOK, Works \/ Fails
  PROVE  faults' \in 0..MaxFaults
BY TypeFacts, Numbers DEF Works, Fails

LEMMA Going ==
  ASSUME TypeOK, NEW p \in Proc, NEW label \in Labels, Goto(p, label)
  PROVE  pc' \in [Proc -> Labels]
BY TypeFacts DEF Goto

LEMMA ArnIsResource ==
  ASSUME NEW r \in Resource
  PROVE  Arn(r) \in Resource /\ Arn(r).run = r.run
BY DEF Arn, Resource

\* A teardown keeps to the pieces there are.
LEMMA TeardownTypes ==
  ASSUME TypeOK, NEW p \in Proc, NEW run \in Run, NEW next \in Labels,
         pc[p] \in Labels, Teardown(p, run, next)
  PROVE  /\ iam' \in [Run -> SUBSET Piece] /\ pc' \in [Proc -> Labels]
         /\ tear' \in [Proc -> SUBSET Piece] /\ faults' \in 0..MaxFaults
         /\ denied' \in [Proc -> SUBSET (Piece \cup {"lookup", "orphan", "address", "key"})]
<1>1. PICK x \in Piece :
        /\ \/ Works /\ iam' = [iam EXCEPT ![run] = IF CanRemove(@, x) THEN @ \ {x} ELSE @]
                    /\ UNCHANGED denied
           \/ Fails /\ Deny(p, x) /\ UNCHANGED iam
        /\ tear' = [tear EXCEPT ![p] = @ \ {x}]
        /\ Goto(p, IF tear'[p] = {} THEN next ELSE pc[p])
  BY DEF Teardown
<1>2. pc' \in [Proc -> Labels]
  BY <1>1, Going
<1>3. faults' \in 0..MaxFaults
  BY <1>1, FaultsCount
<1>4. tear' \in [Proc -> SUBSET Piece]
  BY <1>1, TypeFacts
<1>5. iam' \in [Run -> SUBSET Piece]
  BY <1>1, TypeFacts
<1>6. denied' \in [Proc -> SUBSET (Piece \cup {"lookup", "orphan", "address", "key"})]
  BY <1>1, TypeFacts DEF Deny
<1>7. QED
  BY <1>2, <1>3, <1>4, <1>5, <1>6

-----------------------------------------------------------------------------
(* Types: provisioning. *)

\* What a command that applies a plan works on.
LEMMA Applies ==
  ASSUME TypeOK, NEW p \in Proc, JobFits(p), pc[p] \in Applying
  PROVE  /\ job[p].run \in Run /\ job[p].nr \in Nr /\ Mine(p) \in Resource
         /\ Mine(p).run = job[p].run /\ Mine(p).nr = job[p].nr
         /\ attempt[p] \in Attempt
BY TypeFacts DEF JobFits, Mine, Resource

LEMMA AppearsTypes ==
  ASSUME TypeOK, NEW p \in Proc, JobFits(p), pc[p] \in Applying,
         Creatable(p), Appears(p)
  PROVE  /\ alive' \in SUBSET Resource /\ shown' \in SUBSET Resource
         /\ keyOf' \in [Nr -> {0} \cup Nr]
         /\ address' \in [Nr -> Address \cup {None}]
         /\ UNCHANGED <<blocked, disabled, pending>>
<1>1. alive' \in SUBSET Resource /\ shown' \in SUBSET Resource
  BY Applies, TypeFacts DEF Appears
<1>2. keyOf' \in [Nr -> {0} \cup Nr]
  BY Applies, TypeFacts DEF Appears
<1>3. CASE attempt[p].addr = 0
  BY <1>1, <1>2, <1>3, TypeFacts DEF Appears
<1>4. CASE attempt[p].addr # 0
  <2>1. attempt[p].addr \in Nr
    BY <1>4, Applies DEF Attempt
  <2>2. address[attempt[p].addr] \in Address
    BY <2>1, <1>4, TypeFacts DEF JobFits, Creatable
  <2>3. [address[attempt[p].addr] EXCEPT !.by = Mine(p)] \in Address
    BY <2>2, Applies DEF Address
  <2>4. address' = [address EXCEPT ![attempt[p].addr] =
                                     [address[attempt[p].addr] EXCEPT !.by = Mine(p)]]
    BY <1>4, TypeFacts, <2>1 DEF Appears
  <2>5. address' \in [Nr -> Address \cup {None}]
    BY <2>1, <2>3, <2>4, TypeFacts
  <2>6. QED
    BY <1>1, <1>2, <2>5 DEF Appears
<1>5. QED
  BY <1>3, <1>4

\* What provisioning leaves alone.
LEMMA ProvisionKeeps ==
  ASSUME NEW p \in Proc, Provision(p)
  PROVE  /\ UNCHANGED <<job, jobs, tombs, blocked, disabled, pending>>
         /\ pc[p] \in Applying
<1> USE DEF rest, world, logs, frame, keys, Appears, Applying, Creating, ForAddress
<1>1. CASE FindAddress(p) \/ ReleaseOrphans(p) \/ Allocate(p)
  BY <1>1 DEF FindAddress, ReleaseOrphans, Allocate
<1>2. CASE FindKey(p) \/ CreateKey(p) \/ WritePem(p) \/ MakePiece(p)
  BY <1>2 DEF FindKey, CreateKey, WritePem, MakePiece
<1>3. CASE Defaults(p) \/ Route(p) \/ Create(p)
  BY <1>3 DEF Defaults, Route, Create
<1>4. CASE Wait(p) \/ WriteRecord(p) \/ CleanUp(p)
  BY <1>4 DEF Wait, WriteRecord, CleanUp
<1>5. CASE UndoProfile(p) \/ DeleteKey(p) \/ Refused(p)
  BY <1>5 DEF UndoProfile, DeleteKey, Refused
<1>6. QED
  BY <1>1, <1>2, <1>3, <1>4, <1>5 DEF Provision

\* Where provisioning can go from each label.
LEMMA ProvisionGoes ==
  ASSUME TypeOK, NEW p \in Proc, Provision(p)
  PROVE  /\ pc' \in [Proc -> Labels]
         /\ \A q \in Proc \ {p} : pc'[q] = pc[q]
         /\ pc'[p] \in Applying \cup {"over"}
         /\ pc'[p] \in Creating => pc[p] \in Creating /\ UNCHANGED alive
         /\ pc'[p] \in ForAddress => pc[p] \in ForAddress
<1>0. pc \in [Proc -> Labels]
  BY TypeFacts
<1> USE <1>0 DEF Applying, Creating, ForAddress, Goto, rest, world
<1>1. CASE FindAddress(p)
  BY <1>1 DEF FindAddress, Labels
<1>2. CASE ReleaseOrphans(p)
  BY <1>2 DEF ReleaseOrphans, Labels
<1>3. CASE Allocate(p)
  BY <1>3 DEF Allocate, Labels
<1>4. CASE FindKey(p)
  BY <1>4 DEF FindKey, Labels
<1>5. CASE CreateKey(p)
  BY <1>5 DEF CreateKey, Labels
<1>6. CASE WritePem(p)
  BY <1>6 DEF WritePem, Labels
<1>7. CASE MakePiece(p)
  BY <1>7 DEF MakePiece, Labels
<1>8. CASE Defaults(p)
  BY <1>8 DEF Defaults, Labels
<1>9. CASE Route(p)
  BY <1>9 DEF Route, Labels
<1>10. CASE Create(p)
  BY <1>10 DEF Create, Labels
<1>11. CASE Wait(p)
  BY <1>11 DEF Wait, Labels
<1>12. CASE WriteRecord(p)
  BY <1>12 DEF WriteRecord, Labels
<1>13. CASE CleanUp(p)
  BY <1>13 DEF CleanUp, Labels
<1>14. CASE UndoProfile(p)
  BY <1>14 DEF UndoProfile, Teardown, Labels
<1>15. CASE DeleteKey(p)
  BY <1>15 DEF DeleteKey, Labels
<1>16. CASE Refused(p)
  BY <1>16 DEF Refused, Labels
<1>17. QED
  BY <1>1, <1>2, <1>3, <1>4, <1>5, <1>6, <1>7, <1>8, <1>9, <1>10, <1>11, <1>12, <1>13,
     <1>14, <1>15, <1>16 DEF Provision

\* The variables whose types are left when those are kept.
Rest ==
  /\ alive \subseteq Resource /\ shown \subseteq Resource /\ records \subseteq Resource
  /\ address \in [Nr -> Address \cup {None}]
  /\ key \in {0} \cup Nr /\ pem \in {0} \cup Nr
  /\ keyOf \in [Nr -> {0} \cup Nr]
  /\ iam \in [Run -> SUBSET Piece]
  /\ failed \in [Proc -> BOOLEAN]
  /\ tear \in [Proc -> SUBSET Piece]
  /\ denied \in [Proc -> SUBSET (Piece \cup {"lookup", "orphan", "address", "key"})]
  /\ faults \in 0..MaxFaults
  /\ attempt \in [Proc -> Attempt]

\* What provisioning may write into its attempt.
Written(p) ==
  \/ UNCHANGED attempt
  \/ \E i \in Nr : attempt' = [attempt EXCEPT ![p].addr = i]
  \/ \E i \in Nr : attempt' = [attempt EXCEPT ![p].addr = i, ![p].fresh = TRUE]
  \/ attempt' = [attempt EXCEPT ![p].keyName = FALSE]
  \/ attempt' = [attempt EXCEPT ![p].keyMade = TRUE]
  \/ \E x \in Piece : attempt' = [attempt EXCEPT ![p].made = @ \cup {x}]

LEMMA AttemptTypes ==
  ASSUME TypeOK, NEW p \in Proc, Written(p)
  PROVE  attempt' \in [Proc -> Attempt]
<1>1. attempt \in [Proc -> Attempt] /\ attempt[p] \in Attempt
  BY TypeFacts
<1>2. ASSUME NEW i \in Nr, attempt' = [attempt EXCEPT ![p].addr = i]
      PROVE  attempt' \in [Proc -> Attempt]
  BY <1>1, <1>2 DEF Attempt
<1>3. ASSUME NEW i \in Nr, attempt' = [attempt EXCEPT ![p].addr = i, ![p].fresh = TRUE]
      PROVE  attempt' \in [Proc -> Attempt]
  BY <1>1, <1>3 DEF Attempt
<1>4. CASE attempt' = [attempt EXCEPT ![p].keyName = FALSE]
  BY <1>1, <1>4 DEF Attempt
<1>5. CASE attempt' = [attempt EXCEPT ![p].keyMade = TRUE]
  BY <1>1, <1>5 DEF Attempt
<1>6. ASSUME NEW x \in Piece, attempt' = [attempt EXCEPT ![p].made = @ \cup {x}]
      PROVE  attempt' \in [Proc -> Attempt]
  BY <1>1, <1>6 DEF Attempt
<1>7. CASE UNCHANGED attempt
  BY <1>1, <1>7
<1>8. QED
  BY <1>2, <1>3, <1>4, <1>5, <1>6, <1>7 DEF Written

\* ... and what it may say was denied to it.
LEMMA DenyTypes ==
  ASSUME TypeOK, NEW p \in Proc,
         NEW what \in Piece \cup {"lookup", "orphan", "address", "key"}, Deny(p, what)
  PROVE  denied' \in [Proc -> SUBSET (Piece \cup {"lookup", "orphan", "address", "key"})]
BY TypeFacts DEF Deny

LEMMA AddressTypes ==
  ASSUME TypeOK, NEW p \in Proc, JobFits(p), pc[p] \in Applying,
         FindAddress(p) \/ ReleaseOrphans(p) \/ Allocate(p)
  PROVE  Rest'
<1> USE TypeFacts, Applies DEF rest, world, logs, frame, keys, Rest
<1>1. faults' \in 0..MaxFaults
  BY FaultsCount, Numbers DEF FindAddress, ReleaseOrphans, Allocate
<1>2. CASE FindAddress(p)
  <2>1. attempt' \in [Proc -> Attempt]
    <3>1. Written(p)
      BY <1>2 DEF FindAddress, Tagged, Written
    <3>2. QED
      BY <3>1, AttemptTypes
  <2>2. denied' \in [Proc -> SUBSET (Piece \cup {"lookup", "orphan", "address", "key"})]
    BY <1>2, DenyTypes DEF FindAddress
  <2>3. QED
    BY <1>1, <1>2, <2>1, <2>2 DEF FindAddress
<1>3. CASE ReleaseOrphans(p)
  <2>1. address' \in [Nr -> Address \cup {None}]
    BY <1>3 DEF ReleaseOrphans
  <2>2. denied' \in [Proc -> SUBSET (Piece \cup {"lookup", "orphan", "address", "key"})]
    BY <1>3, DenyTypes DEF ReleaseOrphans
  <2>3. QED
    BY <1>1, <1>3, <2>1, <2>2 DEF ReleaseOrphans
<1>4. CASE Allocate(p)
  <2>1. address' \in [Nr -> Address \cup {None}]
    BY <1>4 DEF Allocate, Address
  <2>2. attempt' \in [Proc -> Attempt]
    <3>1. Written(p)
      BY <1>4 DEF Allocate, Written
    <3>2. QED
      BY <3>1, AttemptTypes
  <2>3. failed' \in [Proc -> BOOLEAN]
    BY <1>4 DEF Allocate, Fail
  <2>4. QED
    BY <1>1, <1>4, <2>1, <2>2, <2>3 DEF Allocate
<1>5. QED
  BY <1>2, <1>3, <1>4

LEMMA HookTypes ==
  ASSUME TypeOK, NEW p \in Proc, JobFits(p), pc[p] \in Applying,
         FindKey(p) \/ CreateKey(p) \/ WritePem(p) \/ MakePiece(p) \/ Defaults(p)
  PROVE  Rest'
<1> USE TypeFacts, Applies DEF rest, world, logs, frame, keys, Rest
<1>1. faults' \in 0..MaxFaults
  BY FaultsCount DEF FindKey, CreateKey, WritePem, MakePiece, Defaults
<1>2. CASE FindKey(p) \/ Defaults(p)
  BY <1>1, <1>2 DEF FindKey, Defaults
<1>3. CASE CreateKey(p) \/ WritePem(p)
  <2>1. attempt' \in [Proc -> Attempt]
    <3>1. Written(p)
      BY <1>3 DEF CreateKey, WritePem, Strip, Written
    <3>2. QED
      BY <3>1, AttemptTypes
  <2>2. denied' \in [Proc -> SUBSET (Piece \cup {"lookup", "orphan", "address", "key"})]
    BY <1>3, DenyTypes DEF CreateKey, WritePem
  <2>3. QED
    BY <1>1, <1>3, <2>1, <2>2 DEF CreateKey, WritePem
<1>4. CASE MakePiece(p)
  <2>1. attempt' \in [Proc -> Attempt]
    <3>1. Written(p)
      BY <1>4 DEF MakePiece, Written
    <3>2. QED
      BY <3>1, AttemptTypes
  <2>2. iam' \in [Run -> SUBSET Piece]
    <3>1. UNCHANGED iam \/ \E x \in Piece : iam' = [iam EXCEPT ![job[p].run] = @ \cup {x}]
      BY <1>4 DEF MakePiece
    <3>2. QED
      BY <3>1
  <2>3. QED
    BY <1>1, <1>4, <2>1, <2>2 DEF MakePiece
<1>5. QED
  BY <1>2, <1>3, <1>4

LEMMA CreateTypes ==
  ASSUME TypeOK, NEW p \in Proc, JobFits(p), pc[p] \in Applying,
         Route(p) \/ Create(p) \/ Wait(p) \/ WriteRecord(p)
  PROVE  Rest'
<1> USE TypeFacts, Applies DEF rest, world, logs, frame, keys, Rest
<1>1. faults' \in 0..MaxFaults
  BY FaultsCount DEF Route, Create, Wait, WriteRecord
<1>2. failed' \in [Proc -> BOOLEAN]
  BY DEF Route, Create, Wait, WriteRecord, Fail
<1>3. CASE Route(p)
  BY <1>1, <1>2, <1>3, AppearsTypes DEF Route
<1>4. CASE Wait(p)
  BY <1>1, <1>2, <1>4, AppearsTypes DEF Wait
<1>5. CASE Create(p) \/ WriteRecord(p)
  BY <1>1, <1>2, <1>5 DEF Create, WriteRecord
<1>6. QED
  BY <1>3, <1>4, <1>5

LEMMA CleanUpTypes ==
  ASSUME TypeOK, NEW p \in Proc, JobFits(p), pc[p] \in Applying,
         CleanUp(p) \/ UndoProfile(p) \/ DeleteKey(p) \/ Refused(p)
  PROVE  Rest'
<1> USE TypeFacts, Applies DEF rest, world, logs, frame, keys, Rest
<1>1. CASE CleanUp(p)
  <2>1. faults' \in 0..MaxFaults
    BY <1>1, FaultsCount DEF CleanUp
  <2>2. denied' \in [Proc -> SUBSET (Piece \cup {"lookup", "orphan", "address", "key"})]
    BY <1>1, DenyTypes DEF CleanUp
  <2>3. tear' \in [Proc -> SUBSET Piece]
    BY <1>1 DEF CleanUp, ToTearDown, Attempt
  <2>4. address' \in [Nr -> Address \cup {None}]
    BY <1>1 DEF CleanUp
  <2>5. QED
    BY <1>1, <2>1, <2>2, <2>3, <2>4 DEF CleanUp
<1>2. CASE UndoProfile(p)
  <2>1. Teardown(p, job[p].run, "delete key") /\ "delete key" \in Labels
    BY <1>2 DEF UndoProfile, Labels, Applying
  <2>2. QED
    BY <1>2, <2>1, TeardownTypes DEF UndoProfile
<1>3. CASE DeleteKey(p)
  <2>1. faults' \in 0..MaxFaults
    BY <1>3, FaultsCount DEF DeleteKey
  <2>2. denied' \in [Proc -> SUBSET (Piece \cup {"lookup", "orphan", "address", "key"})]
    BY <1>3, DenyTypes DEF DeleteKey
  <2>3. failed' \in [Proc -> BOOLEAN]
    BY <1>3 DEF DeleteKey, Fail
  <2>4. QED
    BY <1>3, <2>1, <2>2, <2>3 DEF DeleteKey
<1>4. CASE Refused(p)
  BY <1>4 DEF Refused
<1>5. QED
  BY <1>1, <1>2, <1>3, <1>4

LEMMA ProvisionTypes ==
  ASSUME TypeOK, NEW p \in Proc, JobFits(p), Provision(p), UNCHANGED <<del, adrift>>
  PROVE  TypeOK'
<1>1. UNCHANGED <<job, jobs, tombs, blocked, disabled, pending>> /\ pc[p] \in Applying
  BY ProvisionKeeps
<1>2. Rest'
  BY <1>1, AddressTypes, HookTypes, CreateTypes, CleanUpTypes DEF Provision
<1>3. pc' \in [Proc -> Labels]
  BY ProvisionGoes
<1>4. QED
  BY <1>1, <1>2, <1>3, TypeFacts DEF TypeOK, Rest

-----------------------------------------------------------------------------
(* Types: destroying. *)

\* What destroying may write into its deletion.
Noted(p) ==
  \/ UNCHANGED del
  \/ \E arns, those \in SUBSET Resource :
       del' = [del EXCEPT ![p].plan = arns, ![p].meant = those]
  \/ \E a \in del[p].plan :
       del' = [del EXCEPT ![p].target = a, ![p].plan = @ \ {a},
                          ![p].request = None, ![p].polls = 0]
  \/ \E those \in SUBSET Resource : del' = [del EXCEPT ![p].meant = those]
  \/ \E x \in Answer \cup {None, "open"} :
       del' = [del EXCEPT ![p].request = x]
  \/ \E n \in 0..MaxPolls : del' = [del EXCEPT ![p].polls = n]
  \/ \E u \in BOOLEAN : del' = [del EXCEPT ![p].unsure = u]
  \/ \E a \in Resource : del' = [del EXCEPT ![p].target = a]

LEMMA DeletionTypes ==
  ASSUME TypeOK, NEW p \in Proc, Noted(p)
  PROVE  del' \in [Proc -> Deletion] /\ \A q \in Proc \ {p} : del'[q] = del[q]
<1> USE Numbers DEF Deletion
<1>1. del \in [Proc -> Deletion] /\ del[p] \in Deletion
  BY TypeFacts
<1>2. CASE UNCHANGED del
  BY <1>1, <1>2
<1>3. ASSUME NEW arns \in SUBSET Resource, NEW those \in SUBSET Resource,
             del' = [del EXCEPT ![p].plan = arns, ![p].meant = those]
      PROVE  del' \in [Proc -> Deletion] /\ \A q \in Proc \ {p} : del'[q] = del[q]
  BY <1>1, <1>3
<1>4. ASSUME NEW a \in del[p].plan,
             del' = [del EXCEPT ![p].target = a, ![p].plan = @ \ {a},
                                ![p].request = None, ![p].polls = 0]
      PROVE  del' \in [Proc -> Deletion] /\ \A q \in Proc \ {p} : del'[q] = del[q]
  BY <1>1, <1>4
<1>5. ASSUME NEW those \in SUBSET Resource, del' = [del EXCEPT ![p].meant = those]
      PROVE  del' \in [Proc -> Deletion] /\ \A q \in Proc \ {p} : del'[q] = del[q]
  BY <1>1, <1>5
<1>6. ASSUME NEW x \in Answer \cup {None, "open"},
             del' = [del EXCEPT ![p].request = x]
      PROVE  del' \in [Proc -> Deletion] /\ \A q \in Proc \ {p} : del'[q] = del[q]
  BY <1>1, <1>6
<1>7. ASSUME NEW n \in 0..MaxPolls, del' = [del EXCEPT ![p].polls = n]
      PROVE  del' \in [Proc -> Deletion] /\ \A q \in Proc \ {p} : del'[q] = del[q]
  BY <1>1, <1>7
<1>8. ASSUME NEW u \in BOOLEAN, del' = [del EXCEPT ![p].unsure = u]
      PROVE  del' \in [Proc -> Deletion] /\ \A q \in Proc \ {p} : del'[q] = del[q]
  BY <1>1, <1>8
<1>9. ASSUME NEW a \in Resource, del' = [del EXCEPT ![p].target = a]
      PROVE  del' \in [Proc -> Deletion] /\ \A q \in Proc \ {p} : del'[q] = del[q]
  BY <1>1, <1>9
<1>10. QED
  BY <1>2, <1>3, <1>4, <1>5, <1>6, <1>7, <1>8, <1>9 DEF Noted

LEMMA DestroyNotes ==
  ASSUME TypeOK, NEW p \in Proc, DestroyStep(p)
  PROVE  Noted(p)
<1>0. alive \subseteq Resource /\ shown \subseteq Resource /\ del[p] \in Deletion
  BY TypeFacts
<1>1. CASE Enumerate(p)
  <2>1. CASE UNCHANGED del
    BY <2>1 DEF Noted
  <2>2. ASSUME NEW arns, Plan(p, arns), arns \subseteq {Arn(r) : r \in shown}
        PROVE  Noted(p)
    <3>1. {r \in alive : Arn(r) \in arns} \in SUBSET Resource
      BY <1>0
    <3>2. arns \in SUBSET Resource
      BY <1>0, <2>2, ArnIsResource
    <3>3. del' = [del EXCEPT ![p].plan = arns, ![p].meant = {r \in alive : Arn(r) \in arns}]
      BY <2>2 DEF Plan
    <3>4. QED
      BY <3>1, <3>2, <3>3 DEF Noted
  <2>3. QED
    BY <1>1, <2>1, <2>2 DEF Enumerate
<1>2. CASE NextTarget(p)
  BY <1>2 DEF NextTarget, Noted
<1>3. CASE Resolve(p)
  <2>1. CASE UNCHANGED del
    BY <2>1 DEF Noted
  <2>2. CASE del' = [del EXCEPT ![p].meant = {r \in alive : Arn(r) = Target(p)}]
    <3>1. {r \in alive : Arn(r) = Target(p)} \in SUBSET Resource
      BY <1>0
    <3>2. QED
      BY <2>2, <3>1 DEF Noted
  <2>3. QED
    BY <1>3, <2>1, <2>2 DEF Resolve
<1>4. CASE Delete(p)
  BY <1>4 DEF Delete, Noted
<1>5. CASE Poll(p)
  <2>1. CASE del' = [del EXCEPT ![p].polls = Polled(p)]
    <3>1. MayPoll(p)
      BY <1>5 DEF Poll
    <3>2. Polled(p) \in 0..MaxPolls
      BY <1>0, <3>1, Numbers DEF Deletion, MayPoll, Polled
    <3>3. QED
      BY <2>1, <3>2 DEF Noted
  <2>2. CASE UNCHANGED del \/ del' = [del EXCEPT ![p].request = None]
    BY <2>2 DEF Noted
  <2>3. QED
    BY <1>5, <2>1, <2>2 DEF Poll
<1>6. CASE PollsExhausted(p)
  BY <1>6 DEF PollsExhausted, Noted
<1>7. CASE Classify(p)
  <2>1. CASE UNCHANGED del
    BY <2>1 DEF Noted
  <2>2. CASE del' = [del EXCEPT ![p].unsure = @ \/ faults' # faults]
    <3>1. (del[p].unsure \/ faults' # faults) \in BOOLEAN
      OBVIOUS
    <3>2. del' = [del EXCEPT ![p].unsure = (del[p].unsure \/ faults' # faults)]
      BY <2>2
    <3>3. QED
      BY <3>1, <3>2 DEF Noted
  <2>3. QED
    BY <1>7, <2>1, <2>2 DEF Classify
<1>8. CASE \/ Confirm(p) \/ Disable(p) \/ Schedule(p) \/ Hook(p) \/ Recheck(p)
           \/ Tombstone(p) \/ Cascade(p)
  BY <1>8 DEF Confirm, Disable, Schedule, Hook, Recheck, Tombstone, Cascade, Noted
<1>9. QED
  BY <1>1, <1>2, <1>3, <1>4, <1>5, <1>6, <1>7, <1>8 DEF DestroyStep

\* What destroying leaves alone.
LEMMA DestroyKeeps ==
  ASSUME NEW p \in Proc, DestroyStep(p)
  PROVE  /\ UNCHANGED <<job, jobs, alive, shown, address, key, pem, keyOf, records>>
         /\ pc[p] \in Sweeping \cup Deleting \cup {"tombstone", "cascade"}
<1> USE DEF elsewhere, world, logs, frame, keys, Sweeping, Deleting, Preparing
<1>1. CASE Enumerate(p) \/ Confirm(p) \/ NextTarget(p) \/ Resolve(p)
  BY <1>1 DEF Enumerate, Confirm, NextTarget, Resolve
<1>2. CASE Disable(p) \/ Schedule(p) \/ Hook(p) \/ Recheck(p)
  BY <1>2 DEF Disable, Schedule, Hook, Recheck
<1>3. CASE Delete(p) \/ Poll(p) \/ PollsExhausted(p) \/ Classify(p)
  BY <1>3 DEF Delete, Poll, PollsExhausted, Classify
<1>4. CASE Tombstone(p) \/ Cascade(p)
  BY <1>4 DEF Tombstone, Cascade
<1>5. QED
  BY <1>1, <1>2, <1>3, <1>4 DEF DestroyStep

\* Where destroying can go from each label, and that a failure is remembered.
LEMMA DestroyGoes ==
  ASSUME TypeOK, NEW p \in Proc, DestroyStep(p)
  PROVE  /\ pc' \in [Proc -> Labels] /\ failed' \in [Proc -> BOOLEAN]
         /\ \A q \in Proc \ {p} : pc'[q] = pc[q] /\ failed'[q] = failed[q]
         /\ pc'[p] \in Sweeping \cup Deleting \cup {"tombstone", "cascade", "over"}
         /\ failed[p] => failed'[p]
<1> USE TypeFacts DEF Sweeping, Deleting, Preparing, Goto, Fail, GiveUp, Succeed, After
<1>1. CASE Enumerate(p)
  BY <1>1 DEF Enumerate, Plan, Labels
<1>2. CASE Confirm(p) \/ NextTarget(p)
  BY <1>2 DEF Confirm, NextTarget, Labels
<1>3. CASE Resolve(p)
  BY <1>3 DEF Resolve, Labels
<1>4. CASE Disable(p) \/ Schedule(p)
  BY <1>4 DEF Disable, Schedule, Labels
<1>5. CASE Hook(p)
  BY <1>5 DEF Hook, Labels
<1>6. CASE Recheck(p) \/ Delete(p)
  BY <1>6 DEF Recheck, Delete, Labels
<1>7. CASE Poll(p)
  <2>1. CASE UNCHANGED <<pc, failed>>
    BY <1>7, <2>1 DEF Poll
  <2>2. CASE (Goto(p, "tombstone") \/ Goto(p, "classify")) /\ UNCHANGED failed
    BY <1>7, <2>2 DEF Poll, Labels
  <2>3. CASE GiveUp(p)
    BY <1>7, <2>3 DEF Poll, Labels
  <2>4. \/ UNCHANGED <<pc, failed>>
        \/ (Goto(p, "tombstone") \/ Goto(p, "classify")) /\ UNCHANGED failed
        \/ GiveUp(p)
    BY <1>7 DEF Poll
  <2>5. QED
    BY <2>1, <2>2, <2>3, <2>4
<1>8. CASE PollsExhausted(p) \/ Classify(p)
  BY <1>8 DEF PollsExhausted, TimedOut, Classify, Labels
<1>9. CASE Tombstone(p)
  BY <1>9 DEF Tombstone, Labels
<1>10. CASE Cascade(p)
  BY <1>10 DEF Cascade, Teardown, Labels
<1>11. QED
  BY <1>1, <1>2, <1>3, <1>4, <1>5, <1>6, <1>7, <1>8, <1>9, <1>10 DEF DestroyStep

\* The variables of the account that destroying changes.
Destroyed ==
  /\ blocked \subseteq Resource /\ disabled \subseteq Resource
  /\ pending \subseteq Resource /\ tombs \subseteq Resource /\ adrift \subseteq Resource
  /\ iam \in [Run -> SUBSET Piece]
  /\ tear \in [Proc -> SUBSET Piece]
  /\ denied \in [Proc -> SUBSET (Piece \cup {"lookup", "orphan", "address", "key"})]
  /\ faults \in 0..MaxFaults

LEMMA DestroyedTypes ==
  ASSUME TypeOK, NEW p \in Proc, DeletionFits(p), DestroyStep(p)
  PROVE  Destroyed' /\ pending \subseteq pending'
<1> USE TypeFacts DEF elsewhere, world, logs, frame, keys, Destroyed
<1>1. CASE Enumerate(p) \/ Confirm(p) \/ NextTarget(p) \/ Resolve(p)
  <2>1. faults' \in 0..MaxFaults
    BY <1>1, FaultsCount DEF Enumerate, Confirm, NextTarget, Resolve
  <2>2. UNCHANGED <<blocked, disabled, pending, tombs, adrift, iam, tear, denied>>
    BY <1>1 DEF Enumerate, Confirm, NextTarget, Resolve
  <2>3. QED
    BY <2>1, <2>2
<1>2. CASE Disable(p) \/ Schedule(p) \/ Hook(p) \/ Recheck(p)
  <2>1. faults' \in 0..MaxFaults
    BY <1>2, FaultsCount DEF Disable, Schedule, Hook, Recheck
  <2>2. Living(Target(p)) \subseteq Resource
    BY DEF Living
  <2>3. QED
    BY <1>2, <2>1, <2>2 DEF Disable, Schedule, Hook, Recheck
<1>3. CASE Delete(p) \/ Poll(p) \/ PollsExhausted(p) \/ Classify(p)
  <2>1. faults' \in 0..MaxFaults
    BY <1>3, FaultsCount DEF Delete, Poll, PollsExhausted, Classify
  <2>2. adrift' \subseteq adrift \cup Abandoned(p)
    BY <1>3 DEF Delete, Poll, PollsExhausted, Classify
  <2>3. Abandoned(p) \subseteq Resource
    BY <1>3 DEF Abandoned, DeletionFits, Deleting, Delete, Poll, PollsExhausted, Classify
  <2>4. QED
    BY <1>3, <2>1, <2>2, <2>3 DEF Delete, Poll, PollsExhausted, Classify
<1>4. CASE Tombstone(p)
  <2>1. faults' \in 0..MaxFaults
    BY <1>4, FaultsCount DEF Tombstone
  <2>2. Target(p) \in Resource
    BY <1>4 DEF Tombstone, DeletionFits
  <2>3. tear' \in [Proc -> SUBSET Piece]
    BY <1>4 DEF Tombstone
  <2>4. QED
    BY <1>4, <2>1, <2>2, <2>3 DEF Tombstone
<1>5. CASE Cascade(p)
  <2>1. Target(p).run \in Run
    BY <1>5 DEF Cascade, DeletionFits, Resource
  <2>2. Teardown(p, Target(p).run, After(p)) /\ After(p) \in Labels
    BY <1>5 DEF Cascade, After, Labels, Sweeping
  <2>3. QED
    BY <1>5, <2>1, <2>2, TeardownTypes DEF Cascade
<1>6. QED
  BY <1>1, <1>2, <1>3, <1>4, <1>5 DEF DestroyStep

LEMMA DestroyTypes ==
  ASSUME TypeOK, NEW p \in Proc, DeletionFits(p), DestroyStep(p), UNCHANGED attempt
  PROVE  TypeOK'
<1>1. UNCHANGED <<job, jobs, alive, shown, address, key, pem, keyOf, records>>
  BY DestroyKeeps
<1>2. pc' \in [Proc -> Labels] /\ failed' \in [Proc -> BOOLEAN]
  BY DestroyGoes
<1>3. Destroyed'
  BY DestroyedTypes
<1>4. del' \in [Proc -> Deletion]
  BY DestroyNotes, DeletionTypes
<1>5. QED
  BY <1>1, <1>2, <1>3, <1>4, TypeFacts DEF TypeOK, Destroyed

-----------------------------------------------------------------------------
(* Types: AWS, and commands that begin and end. *)

LEMMA OutcomeTypes ==
  ASSUME TypeOK, NEW a, NEW result, Outcome(a, result)
  PROVE  /\ UNCHANGED <<shown, blocked, disabled>>
         /\ alive' \subseteq alive /\ pending \subseteq pending'
         /\ pending' \subseteq Resource
         /\ address' \in [Nr -> Address \cup {None}]
<1> USE TypeFacts DEF world
<1>1. CASE UNCHANGED <<world, address>>
  BY <1>1
<1>2. CASE Vanish(a)
  <2>1. CASE Kind[a.run] = "cmk"
    BY <1>2, <2>1 DEF Vanish, Living
  <2>2. CASE Kind[a.run] # "cmk"
    <3>1. \A i \in Nr : address[i] # None =>
            [address[i] EXCEPT !.by = None] \in Address
      BY DEF Address
    <3>2. address' \in [Nr -> Address \cup {None}]
      BY <1>2, <2>2, <3>1 DEF Vanish
    <3>3. QED
      BY <1>2, <2>2, <3>2 DEF Vanish
  <2>3. QED
    BY <2>1, <2>2
<1>3. QED
  BY <1>1, <1>2 DEF Outcome

LEMMA AwsTypes ==
  ASSUME TypeOK, UNCHANGED attempt,
         \/ \E p \in Proc : Settle(p)
         \/ \E a \in adrift : SettleAdrift(a)
         \/ IndexForgets
         \/ \E r \in shown : LoseTag(r)
  PROVE  TypeOK'
<1> USE TypeFacts DEF keys, logs, frame
<1>1. ASSUME NEW p \in Proc, Settle(p) PROVE TypeOK'
  <2>1. PICK result \in Answer :
          Outcome(Target(p), result) /\ del' = [del EXCEPT ![p].request = result]
    BY <1>1 DEF Settle
  <2>2. Noted(p)
    BY <2>1 DEF Noted
  <2>3. del' \in [Proc -> Deletion]
    BY <2>2, DeletionTypes
  <2>4. /\ UNCHANGED <<shown, blocked, disabled>> /\ alive' \subseteq alive
        /\ pending' \subseteq Resource /\ address' \in [Nr -> Address \cup {None}]
    BY <2>1, OutcomeTypes
  <2>5. QED
    BY <1>1, <2>3, <2>4 DEF Settle, TypeOK
<1>2. ASSUME NEW a \in adrift, SettleAdrift(a) PROVE TypeOK'
  <2>1. PICK result : Outcome(a, result)
    BY <1>2 DEF SettleAdrift
  <2>2. /\ UNCHANGED <<shown, blocked, disabled>> /\ alive' \subseteq alive
        /\ pending' \subseteq Resource /\ address' \in [Nr -> Address \cup {None}]
    BY <2>1, OutcomeTypes
  <2>3. QED
    BY <1>2, <2>2 DEF SettleAdrift, TypeOK
<1>3. CASE IndexForgets
  BY <1>3 DEF IndexForgets, TypeOK
<1>4. ASSUME NEW r \in shown, LoseTag(r) PROVE TypeOK'
  <2>1. faults' \in 0..MaxFaults
    BY <1>4, FaultsCount DEF LoseTag
  <2>2. QED
    BY <1>4, <2>1 DEF LoseTag, TypeOK
<1>5. QED
  BY <1>1, <1>2, <1>3, <1>4

\* What beginning a command does to the jobs: the new one, and whether the
\* others are still alone.
LEMMA StartFacts ==
  ASSUME TypeOK, NEW p \in Proc, NEW c \in Command, Start(p, c)
  PROVE  /\ pc[p] = "idle" /\ jobs' = jobs + 1 /\ jobs \in 0..(MaxJobs - 1)
         /\ job' \in [Proc -> Job \cup {None}]
         /\ job'[p].op = c.op /\ job'[p].run = c.run
         /\ c.op = "apply" => job'[p].nr = FirstJob + jobs
         /\ job'[p] # None
         /\ \A q \in Proc \ {p} :
              /\ job[q] # None => job'[q] # None
              /\ job'[q].op = job[q].op /\ job'[q].run = job[q].run /\ job'[q].nr = job[q].nr
         /\ UNCHANGED <<world, address, keys, iam, logs, failed, denied, tear, faults,
                        adrift>>
<1> USE TypeFacts, Numbers
<1>1. c.op \in Ops /\ c.run \in Run \cup {None}
  BY DEF Command, Ops
<1>2. \A q \in Proc : job[q] \in Job \cup {None}
  OBVIOUS
<1> DEFINE mine == [op |-> c.op, run |-> c.run,
                    nr |-> IF c.op = "apply" THEN FirstJob + jobs ELSE 0,
                    alone |-> /\ \A d \in Proc : Busy(d) => ~Touch(c, job[d])
                              /\ \A a \in adrift : a.run # c.run]
           other(q) == IF Busy(q) /\ Touch(c, job[q]) THEN [job[q] EXCEPT !.alone = FALSE]
                                                      ELSE job[q]
<1>3. mine \in Job
  BY <1>1 DEF Job
<1>4. ASSUME NEW q \in Proc
      PROVE  /\ other(q) \in Job \cup {None}
             /\ job[q] # None => other(q) # None
             /\ other(q).op = job[q].op /\ other(q).run = job[q].run
             /\ other(q).nr = job[q].nr
  <2>1. CASE job[q] # None
    <3>1. job[q] \in Job /\ [job[q] EXCEPT !.alone = FALSE] \in Job
      BY <1>2, <2>1 DEF Job
    <3>2. other(q) \in Job
      BY <3>1
    <3>3. QED
      BY <3>1, <3>2, JobAssumption DEF Job
  <2>2. CASE job[q] = None
    BY <2>2 DEF Busy
  <2>3. QED
    BY <2>1, <2>2
<1>5. job' = [q \in Proc |-> IF q = p THEN mine ELSE other(q)]
  BY DEF Start
<1> HIDE DEF mine, other
<1>6. job' \in [Proc -> Job \cup {None}]
  BY <1>3, <1>4, <1>5
<1>7. job'[p] = mine /\ \A q \in Proc \ {p} : job'[q] = other(q)
  BY <1>5
<1>8. mine.op = c.op /\ mine.run = c.run /\ (c.op = "apply" => mine.nr = FirstJob + jobs)
  BY DEF mine
<1>9. jobs \in 0..(MaxJobs - 1) /\ jobs' = jobs + 1 /\ pc[p] = "idle"
  BY DEF Start
<1>10. UNCHANGED <<world, address, keys, iam, logs, failed, denied, tear, faults, adrift>>
  BY DEF Start
<1>11. QED
  BY <1>3, <1>4, <1>6, <1>7, <1>8, <1>9, <1>10, JobAssumption

LEMMA FreshTypes ==
  ASSUME NEW kind, NEW found \in SUBSET Piece
  PROVE  Fresh(kind, found) \in Attempt /\ Fresh(kind, found).addr = 0
BY DEF Fresh, Attempt

LEMMA NoDeletionTypes == NoDeletion \in Deletion
BY Numbers DEF NoDeletion, Deletion

\* A command begins in one of three ways.
LEMMA BeginFacts ==
  ASSUME TypeOK, NEW p \in Proc, NEW c \in Command,
         BeginApply(p, c) \/ BeginDestroy(p, c) \/ BeginSweep(p, c)
  PROVE  /\ Start(p, c) /\ pc' \in [Proc -> Labels] /\ attempt' \in [Proc -> Attempt]
         /\ del' \in [Proc -> Deletion]
         /\ \A q \in Proc \ {p} : /\ pc'[q] = pc[q] /\ attempt'[q] = attempt[q]
                                  /\ del'[q] = del[q]
         /\ c.op = "apply" =>
              /\ c.run \in Run \ Foreign
              /\ pc'[p] = FirstHook(Kind[c.run]) /\ pc'[p] \in Creating
              /\ attempt'[p].addr = 0 /\ UNCHANGED del
              /\ pc'[p] \in ForAddress => Kind[c.run] = "nat"
              /\ \A q \in Proc : Busy(q) => ~(job[q].op = "apply" /\ job[q].run = c.run)
         /\ c.op # "apply" => pc'[p] \in {"resolve", "enumerate"}
         /\ pc'[p] = "enumerate" => c.op = "sweep" /\ UNCHANGED del
         /\ pc'[p] = "resolve" =>
              \E a \in Resource : del' = [del EXCEPT ![p].target = a]
<1> USE TypeFacts DEF Goto
<1>1. CASE BeginApply(p, c)
  <2>1. c.op = "apply" /\ c.run \in Run \ Foreign
    BY <1>1 DEF BeginApply, Command
  <2>2. Fresh(Kind[c.run], iam[c.run]) \in Attempt /\ Fresh(Kind[c.run], iam[c.run]).addr = 0
    BY <2>1, FreshTypes
  <2>3. /\ FirstHook(Kind[c.run]) \in Creating
        /\ FirstHook(Kind[c.run]) \in Labels
        /\ FirstHook(Kind[c.run]) \in ForAddress => Kind[c.run] = "nat"
        /\ FirstHook(Kind[c.run]) \notin {"resolve", "enumerate"}
    BY DEF FirstHook, Creating, ForAddress, Labels, Applying
  <2>4. /\ attempt' = [attempt EXCEPT ![p] = Fresh(Kind[c.run], iam[c.run])]
        /\ pc' = [pc EXCEPT ![p] = FirstHook(Kind[c.run])] /\ UNCHANGED del
        /\ Start(p, c)
        /\ \A q \in Proc : Busy(q) => ~(job[q].op = "apply" /\ job[q].run = c.run)
    BY <1>1 DEF BeginApply
  <2>5. attempt' \in [Proc -> Attempt] /\ attempt'[p].addr = 0
    BY <2>2, <2>4
  <2>6. pc' \in [Proc -> Labels] /\ pc'[p] = FirstHook(Kind[c.run])
    BY <2>3, <2>4
  <2>7. QED
    BY <2>1, <2>3, <2>4, <2>5, <2>6
<1>2. CASE BeginDestroy(p, c)
  <2>1. PICK a \in Nameable(c.run) : del' = [del EXCEPT ![p].target = a]
    BY <1>2 DEF BeginDestroy
  <2>2. a \in Resource
    BY <2>1, ArnIsResource DEF Nameable
  <2>3. del' \in [Proc -> Deletion] /\ \A q \in Proc \ {p} : del'[q] = del[q]
    <3>1. Noted(p)
      BY <2>1, <2>2 DEF Noted
    <3>2. QED
      BY <3>1, DeletionTypes
  <2>4. pc' \in [Proc -> Labels]
    BY <1>2 DEF BeginDestroy, Labels, Deleting, Preparing
  <2>5. QED
    BY <1>2, <2>1, <2>2, <2>3, <2>4 DEF BeginDestroy
<1>3. CASE BeginSweep(p, c)
  <2>1. pc' \in [Proc -> Labels]
    BY <1>3 DEF BeginSweep, Labels, Sweeping
  <2>2. QED
    BY <1>3, <2>1 DEF BeginSweep
<1>4. QED
  BY <1>1, <1>2, <1>3

LEMMA BeginTypes ==
  ASSUME TypeOK, NEW p \in Proc, NEW c \in Command,
         BeginApply(p, c) \/ BeginDestroy(p, c) \/ BeginSweep(p, c)
  PROVE  TypeOK'
<1>1. Start(p, c) /\ pc' \in [Proc -> Labels] /\ attempt' \in [Proc -> Attempt]
      /\ del' \in [Proc -> Deletion]
  BY BeginFacts
<1>2. jobs' = jobs + 1 /\ jobs \in 0..(MaxJobs - 1) /\ job' \in [Proc -> Job \cup {None}]
  BY <1>1, StartFacts
<1>3. jobs' \in 0..MaxJobs
  BY <1>2, Numbers
<1>4. UNCHANGED <<world, address, keys, iam, logs, failed, denied, tear, faults, adrift>>
  BY <1>1 DEF Start
<1>5. QED
  BY <1>1, <1>2, <1>3, <1>4, TypeFacts DEF TypeOK, world, keys, logs

LEMMA EndTypes ==
  ASSUME TypeOK, NEW p \in Proc, End(p)
  PROVE  TypeOK'
<1>1. pc' \in [Proc -> Labels]
  BY TypeFacts DEF End, Goto, Labels
<1>2. attempt' \in [Proc -> Attempt]
  BY TypeFacts, FreshTypes DEF End
<1>3. del' \in [Proc -> Deletion]
  BY TypeFacts, NoDeletionTypes DEF End
<1>4. QED
  BY <1>1, <1>2, <1>3, TypeFacts DEF End, TypeOK, world, keys, logs

LEMMA TypeStep ==
  ASSUME DestroyInv, [Next]_vars
  PROVE  TypeOK'
<1>0. TypeOK /\ \A p \in Proc : JobFits(p) /\ DeletionFits(p)
  BY DEF DestroyInv
<1>1. ASSUME NEW p \in Proc, NEW c \in Commands[p],
             BeginApply(p, c) \/ BeginDestroy(p, c) \/ BeginSweep(p, c)
      PROVE  TypeOK'
  BY <1>0, <1>1, BeginTypes, CommandsAssumption
<1>2. ASSUME NEW p \in Proc, Step(p) PROVE TypeOK'
  BY <1>0, <1>2, ProvisionTypes, DestroyTypes, EndTypes DEF Step
<1>3. ASSUME NEW p \in Proc, Settle(p), UNCHANGED attempt PROVE TypeOK'
  BY <1>0, <1>3, AwsTypes
<1>4. ASSUME NEW a \in adrift, SettleAdrift(a), UNCHANGED attempt PROVE TypeOK'
  BY <1>0, <1>4, AwsTypes
<1>5. CASE IndexForgets \/ \E r \in shown : LoseTag(r)
  <2>1. UNCHANGED attempt
    BY <1>5 DEF IndexForgets, LoseTag
  <2>2. QED
    BY <1>0, <1>5, <2>1, AwsTypes
<1>6. CASE UNCHANGED vars
  BY <1>0, <1>6 DEF TypeOK, vars
<1>7. QED
  BY <1>1, <1>2, <1>3, <1>4, <1>5, <1>6 DEF Next

-----------------------------------------------------------------------------
(* What the steps of others leave to a command. *)

Parts(p) == /\ JobFits(p) /\ DeletionFits(p) /\ NotYet(p)
            /\ MeantNumbered(p) /\ Progress(p) /\ AnswerHolds(p)

LEMMA InvParts ==
  DestroyInv <=>
    /\ TypeOK /\ Numbered /\ OnePlanOnce /\ ListedIsOurs
    /\ \A p \in Proc : Parts(p)
BY DEF DestroyInv, Parts

Same(q) ==
  /\ pc'[q] = pc[q] /\ del'[q] = del[q] /\ attempt'[q] = attempt[q]
  /\ failed'[q] = failed[q]
  /\ job[q] # None => job'[q] # None
  /\ job'[q].op = job[q].op /\ job'[q].run = job[q].run /\ job'[q].nr = job[q].nr

\* Nothing that q has still to create or means to delete has appeared.
Undisturbed(q) ==
  /\ Same(q) /\ jobs <= jobs' /\ pending \subseteq pending'
  /\ \A r \in alive' \ alive : r \notin del[q].meant
  /\ pc[q] \in Creating =>
       /\ Mine(q) \notin alive' \ alive
       /\ \A x \in Proc : Mine(q) \in del'[x].meant => Mine(q) \in del[x].meant \cup alive

LEMMA UndisturbedKeeps ==
  ASSUME DestroyInv, TypeOK', NEW q \in Proc, Undisturbed(q)
  PROVE  Parts(q)'
<1>0. Parts(q) /\ TypeOK
  BY InvParts
<1>1. jobs \in Nat /\ jobs' \in Nat /\ job[q] \in Job \cup {None} /\ jobs <= jobs'
  BY <1>0, TypeFacts, Numbers DEF TypeOK, Undisturbed
<1>2. Mine(q)' = Mine(q)
  BY DEF Undisturbed, Same, Mine
<1>3. JobFits(q)'
  <2>1. pc[q] \in Applying => job[q].nr \in Nat
    BY <1>0 DEF Parts, JobFits, Nr
  <2>2. QED
    BY <1>0, <1>1, <2>1, Numbers DEF Parts, JobFits, Undisturbed, Same
<1>4. DeletionFits(q)'
  BY <1>0 DEF Parts, DeletionFits, Undisturbed, Same, Target
<1>5. NotYet(q)'
  BY <1>0, <1>2 DEF Parts, NotYet, Undisturbed, Same
<1>6. MeantNumbered(q)'
  <2>1. ASSUME NEW r \in del[q].meant PROVE r.nr < FirstJob + jobs'
    <3>1. r \in Resource
      BY <1>0, TypeFacts DEF Deletion
    <3>2. r.nr \in Nat /\ r.nr < FirstJob + jobs
      BY <1>0, <3>1 DEF Parts, MeantNumbered, Resource, Nr
    <3>3. QED
      BY <1>1, <3>2, Numbers
  <2>2. QED
    BY <2>1 DEF MeantNumbered, Undisturbed, Same
<1>7. \A r \in del[q].meant : Settled(q, r) => Settled(q, r)'
  BY DEF Settled, Undisturbed, Same
<1>8. Progress(q)'
  BY <1>0, <1>7 DEF Parts, Progress, Undisturbed, Same, Target
<1>9. AnswerHolds(q)'
  BY <1>0, <1>7 DEF Parts, AnswerHolds, AtHand, Undisturbed, Same, Target
<1>10. QED
  BY <1>3, <1>4, <1>5, <1>6, <1>8, <1>9 DEF Parts

\* A step of one command.
StepOf(p) ==
  /\ \A q \in Proc \ {p} : Same(q)
  /\ jobs <= jobs' /\ pending \subseteq pending'
  /\ \A r \in alive' \ alive : pc[p] \in Creating /\ r = Mine(p)
  /\ del'[p].meant \subseteq del[p].meant \cup alive

LEMMA OthersKeep ==
  ASSUME DestroyInv, TypeOK', NEW p \in Proc, StepOf(p), NEW q \in Proc \ {p}
  PROVE  Parts(q)'
<1>0. Parts(p) /\ Parts(q) /\ TypeOK /\ OnePlanOnce
  BY InvParts
<1>1. \A r \in alive' \ alive : r \notin del[q].meant
  BY <1>0 DEF StepOf, Parts, NotYet
<1>2. ASSUME pc[q] \in Creating PROVE Mine(q) \notin alive' \ alive
  BY <1>0, <1>2 DEF StepOf, OnePlanOnce, Applying, Mine
<1>3. ASSUME NEW x \in Proc, Mine(q) \in del'[x].meant
      PROVE  Mine(q) \in del[x].meant \cup alive
  BY <1>3 DEF StepOf, Same
<1>4. Undisturbed(q)
  BY <1>1, <1>2, <1>3 DEF Undisturbed, StepOf
<1>5. QED
  BY <1>4, UndisturbedKeeps

\* ... that keeps its job and its kind of label.
LEMMA SharedKeep ==
  ASSUME DestroyInv, TypeOK', NEW p \in Proc, StepOf(p), UNCHANGED <<job, jobs>>,
         \A r \in shown' : r \in shown \cup (alive' \ alive),
         pc'[p] \in Applying => pc[p] \in Applying,
         pc'[p] \in Creating => pc[p] \in Creating /\ alive' \subseteq alive
  PROVE  Numbered' /\ OnePlanOnce' /\ ListedIsOurs' /\ NotYet(p)' /\ MeantNumbered(p)'
<1>0. /\ TypeOK /\ Numbered /\ OnePlanOnce /\ ListedIsOurs
      /\ \A q \in Proc : Parts(q)
  BY InvParts
<1>1. pc[p] \in Creating => Mine(p).run \notin Foreign /\ Mine(p).nr < FirstJob + jobs
  BY <1>0 DEF Parts, JobFits, Applying, Mine
<1>2. Numbered'
  BY <1>0, <1>1 DEF Numbered, StepOf
<1>3. OnePlanOnce'
  BY <1>0 DEF OnePlanOnce, StepOf, Same
<1>4. ListedIsOurs'
  BY <1>0, <1>1 DEF ListedIsOurs, StepOf
<1>5. NotYet(p)'
  <2>1. Mine(p)' = Mine(p)
    BY DEF Mine
  <2>2. QED
    BY <1>0, <2>1 DEF Parts, NotYet, StepOf, Same
<1>6. MeantNumbered(p)'
  BY <1>0 DEF Parts, Numbered, MeantNumbered, StepOf
<1>7. QED
  BY <1>2, <1>3, <1>4, <1>5, <1>6

-----------------------------------------------------------------------------
(* The steps of a command that applies a plan. *)

\* Only the search for an address changes the address of an attempt, and a
\* failure is remembered.
LEMMA ProvisionWrites ==
  ASSUME TypeOK, NEW p \in Proc, Provision(p)
  PROVE  /\ attempt'[p].addr = attempt[p].addr \/ pc[p] \in ForAddress
         /\ failed[p] => failed'[p]
         /\ \A q \in Proc \ {p} : attempt'[q] = attempt[q] /\ failed'[q] = failed[q]
<1>0. /\ attempt \in [Proc -> Attempt] /\ attempt[p] \in Attempt
      /\ failed \in [Proc -> BOOLEAN]
  BY TypeFacts
<1> USE <1>0 DEF rest, ForAddress, Fail, Attempt
<1>1. CASE FindAddress(p) \/ ReleaseOrphans(p)
  BY <1>1 DEF FindAddress, ReleaseOrphans
<1>2. CASE Allocate(p)
  BY <1>2 DEF Allocate
<1>3. CASE FindKey(p) \/ CreateKey(p) \/ WritePem(p)
  BY <1>3 DEF FindKey, CreateKey, WritePem, Strip
<1>4. CASE MakePiece(p)
  <2>1. UNCHANGED failed
    BY <1>4 DEF MakePiece
  <2>2. UNCHANGED attempt \/ \E x \in Piece : attempt' = [attempt EXCEPT ![p].made = @ \cup {x}]
    BY <1>4 DEF MakePiece
  <2>3. QED
    BY <2>1, <2>2
<1>5. CASE Defaults(p)
  BY <1>5 DEF Defaults
<1>6. CASE Route(p) \/ Create(p) \/ Wait(p) \/ WriteRecord(p)
  BY <1>6 DEF Route, Create, Wait, WriteRecord
<1>7. CASE CleanUp(p) \/ UndoProfile(p) \/ DeleteKey(p) \/ Refused(p)
  BY <1>7 DEF CleanUp, UndoProfile, DeleteKey, Refused
<1>8. QED
  BY <1>1, <1>2, <1>3, <1>4, <1>5, <1>6, <1>7 DEF Provision

\* What a command that is about to create a resource may add to the account.
LEMMA ProvisionAdds ==
  ASSUME NEW p \in Proc, Provision(p)
  PROVE  \/ UNCHANGED <<alive, shown>>
         \/ /\ pc[p] \in Creating
            /\ alive' = alive \cup {Mine(p)} /\ shown' = shown \cup {Mine(p)}
<1> USE DEF rest, world
<1>1. CASE FindAddress(p) \/ ReleaseOrphans(p) \/ Allocate(p) \/ FindKey(p)
  BY <1>1 DEF FindAddress, ReleaseOrphans, Allocate, FindKey
<1>2. CASE CreateKey(p) \/ WritePem(p) \/ MakePiece(p) \/ Defaults(p) \/ Create(p)
  BY <1>2 DEF CreateKey, WritePem, MakePiece, Defaults, Create
<1>3. CASE Route(p) \/ Wait(p)
  BY <1>3 DEF Route, Wait, Appears, Creating
<1>4. CASE WriteRecord(p) \/ CleanUp(p) \/ UndoProfile(p) \/ DeleteKey(p) \/ Refused(p)
  BY <1>4 DEF WriteRecord, CleanUp, UndoProfile, DeleteKey, Refused
<1>5. QED
  BY <1>1, <1>2, <1>3, <1>4 DEF Provision

LEMMA ProvisionKeepsInv ==
  ASSUME DestroyInv, TypeOK', NEW p \in Proc, Provision(p), UNCHANGED <<del, adrift>>
  PROVE  DestroyInv'
<1>0. TypeOK /\ Parts(p) /\ ListedIsOurs
  BY InvParts
<1>1. UNCHANGED <<job, jobs, pending>> /\ pc[p] \in Applying /\ jobs \in Nat
  BY <1>0, ProvisionKeeps, TypeFacts, Numbers
<1>2. /\ pc'[p] \in Applying \cup {"over"} /\ \A q \in Proc \ {p} : pc'[q] = pc[q]
      /\ pc'[p] \in Creating => pc[p] \in Creating /\ UNCHANGED alive
      /\ pc'[p] \in ForAddress => pc[p] \in ForAddress
  BY <1>0, ProvisionGoes
<1>3. /\ attempt'[p].addr = attempt[p].addr \/ pc[p] \in ForAddress
      /\ failed[p] => failed'[p]
      /\ \A q \in Proc \ {p} : attempt'[q] = attempt[q] /\ failed'[q] = failed[q]
  BY <1>0, ProvisionWrites
<1>4. StepOf(p)
  BY <1>1, <1>2, <1>3, ProvisionAdds DEF StepOf, Same
<1>5. \A r \in shown' : r \in shown \cup (alive' \ alive)
  BY <1>0, ProvisionAdds DEF Parts, NotYet
<1>6. pc'[p] \in Applying => pc[p] \in Applying
  BY <1>1
<1>7. Numbered' /\ OnePlanOnce' /\ ListedIsOurs' /\ NotYet(p)' /\ MeantNumbered(p)'
  BY <1>1, <1>2, <1>4, <1>5, <1>6, SharedKeep
<1>8. JobFits(p)'
  BY <1>0, <1>1, <1>2, <1>3
     DEF Parts, JobFits, Applying, Creating, ForAddress, Sweeping
<1>9. DeletionFits(p)'
  <2>1. del[p].plan = {}
    BY <1>0, <1>1 DEF Parts, JobFits, DeletionFits
  <2>2. del[p].request # "open"
    BY <1>0, <1>1 DEF Parts, DeletionFits, Applying, Creating, ForAddress
  <2>3. pc'[p] \notin {"idle", "disable", "schedule"} \cup Deleting \cup {"tombstone", "cascade"}
    BY <1>2 DEF Applying, Creating, ForAddress, Deleting, Preparing
  <2>4. QED
    BY <2>1, <2>2, <2>3 DEF DeletionFits
<1>10. pc[p] \notin Deleting
  BY <1>1 DEF Applying, Creating, ForAddress, Deleting, Preparing
<1>11. \A r \in del[p].meant : Settled(p, r) => Settled(p, r)'
  BY <1>0, <1>1, ProvisionAdds DEF Settled, Parts, NotYet
<1>12. Progress(p)'
  BY <1>0, <1>3, <1>10, <1>11 DEF Parts, Progress
<1>13. AnswerHolds(p)'
  BY <1>2 DEF AnswerHolds, Applying, Creating, ForAddress
<1>14. Parts(p)'
  BY <1>7, <1>8, <1>9, <1>12, <1>13 DEF Parts
<1>15. \A q \in Proc \ {p} : Parts(q)'
  BY <1>4, OthersKeep
<1>16. \A q \in Proc : Parts(q)'
  BY <1>14, <1>15
<1>17. QED
  BY <1>7, <1>16 DEF DestroyInv, Parts

-----------------------------------------------------------------------------
(* The steps of a command that destroys. *)

\* What is meant was there when the command looked.
LEMMA DestroyMeans ==
  ASSUME TypeOK, NEW p \in Proc, DestroyStep(p)
  PROVE  del'[p].meant \subseteq del[p].meant \cup alive
<1>0. del \in [Proc -> Deletion] /\ del[p] \in Deletion
  BY TypeFacts
<1> USE <1>0 DEF Deletion
<1>1. CASE Enumerate(p)
  BY <1>1 DEF Enumerate, Plan
<1>2. CASE NextTarget(p)
  <2>1. ASSUME NEW a,
               del' = [del EXCEPT ![p].target = a, ![p].plan = @ \ {a},
                                  ![p].request = None, ![p].polls = 0]
        PROVE  del'[p].meant = del[p].meant
    BY <2>1
  <2>2. QED
    BY <1>2, <2>1 DEF NextTarget
<1>3. CASE Resolve(p)
  BY <1>3 DEF Resolve
<1>4. CASE Delete(p) \/ PollsExhausted(p) \/ Classify(p)
  BY <1>4 DEF Delete, PollsExhausted, Classify
<1>5. CASE Poll(p)
  BY <1>5 DEF Poll
<1>6. CASE \/ Confirm(p) \/ Disable(p) \/ Schedule(p) \/ Hook(p) \/ Recheck(p)
           \/ Tombstone(p) \/ Cascade(p)
  BY <1>6 DEF Confirm, Disable, Schedule, Hook, Recheck, Tombstone, Cascade
<1>7. QED
  BY <1>1, <1>2, <1>3, <1>4, <1>5, <1>6 DEF DestroyStep

\* The parts of the invariant that a step that destroys has to keep by itself.
Kept(p) == JobFits(p)' /\ DeletionFits(p)' /\ Progress(p)' /\ AnswerHolds(p)'

\* What every step that destroys has in common.
Destroys(p) ==
  /\ UNCHANGED <<job, jobs, alive, shown>> /\ pending \subseteq pending'
  /\ pc[p] \in Sweeping \cup Deleting \cup {"tombstone", "cascade"}
  /\ pc'[p] \in Sweeping \cup Deleting \cup {"tombstone", "cascade", "over"}
  /\ failed[p] => failed'[p]
  /\ \A q \in Proc \ {p} :
       pc'[q] = pc[q] /\ failed'[q] = failed[q] /\ del'[q] = del[q]
  /\ pc \in [Proc -> Labels] /\ pc' \in [Proc -> Labels]
  /\ failed \in [Proc -> BOOLEAN]
  /\ del \in [Proc -> Deletion] /\ del[p] \in Deletion

LEMMA DestroyFacts ==
  ASSUME TypeOK, NEW p \in Proc, DeletionFits(p), DestroyStep(p)
  PROVE  Destroys(p)
<1>1. UNCHANGED <<job, jobs, alive, shown>>
      /\ pc[p] \in Sweeping \cup Deleting \cup {"tombstone", "cascade"}
  BY DestroyKeeps
<1>2. /\ pc'[p] \in Sweeping \cup Deleting \cup {"tombstone", "cascade", "over"}
      /\ failed[p] => failed'[p]
      /\ \A q \in Proc \ {p} : pc'[q] = pc[q] /\ failed'[q] = failed[q]
      /\ pc' \in [Proc -> Labels]
  BY DestroyGoes
<1>3. pending \subseteq pending'
  BY DestroyedTypes
<1>4. \A q \in Proc \ {p} : del'[q] = del[q]
  BY DestroyNotes, DeletionTypes
<1>5. QED
  BY <1>1, <1>2, <1>3, <1>4, TypeFacts DEF Destroys

LEMMA SettledKept ==
  ASSUME NEW p \in Proc, Destroys(p), del'[p].unsure = del[p].unsure \/ del'[p].unsure,
         NEW r, Settled(p, r)
  PROVE  Settled(p, r)'
BY DEF Settled, Destroys

\* A command that gives up leaves nothing to be shown but that it failed.
LEMMA GivesUp ==
  ASSUME DestroyInv, NEW p \in Proc, Destroys(p), GiveUp(p),
         \/ UNCHANGED del /\ pc[p] # "poll"
         \/ del' = [del EXCEPT ![p].request = None]
  PROVE  Kept(p)
<1>0. Parts(p) /\ pc[p] \in Labels
  BY InvParts DEF Destroys
<1>1. failed'[p] /\ pc'[p] = After(p)
  BY DEF Destroys, GiveUp, Goto, Fail
<1>2. pc'[p] = "over" \/ (pc'[p] = "next" /\ job[p].op = "sweep")
  BY <1>1 DEF After
<1>3. del'[p].request # "open" /\ del'[p].plan = del[p].plan
  <2>1. CASE UNCHANGED del /\ pc[p] # "poll"
    BY <1>0, <2>1 DEF Parts, DeletionFits
  <2>2. CASE del' = [del EXCEPT ![p].request = None]
    <3>1. None # "open"
      BY AnswerAssumption
    <3>2. QED
      BY <2>2, <3>1 DEF Destroys, Deletion
  <2>3. QED
    BY <2>1, <2>2
<1>4. JobFits(p)'
  BY <1>2 DEF JobFits, Destroys, Applying, Creating, ForAddress, Sweeping
<1>5. DeletionFits(p)'
  BY <1>0, <1>1, <1>2, <1>3 DEF Parts, DeletionFits, Destroys, Deleting, Preparing
<1>6. Progress(p)'
  BY <1>1 DEF Progress
<1>7. AnswerHolds(p)'
  BY <1>2 DEF AnswerHolds
<1>8. QED
  BY <1>4, <1>5, <1>6, <1>7 DEF Kept

LEMMA SweepKeeps ==
  ASSUME DestroyInv, NEW p \in Proc, Destroys(p),
         Enumerate(p) \/ Confirm(p) \/ NextTarget(p)
  PROVE  Kept(p)
<1>0. TypeOK /\ Parts(p) /\ job[p].op = "sweep" /\ pc[p] \in Sweeping
      /\ del[p].request # "open"
  BY InvParts DEF Parts, JobFits, DeletionFits, Sweeping, Enumerate, Confirm, NextTarget
<1> USE <1>0 DEF Sweeping
<1>1. CASE Enumerate(p)
  <2>1. ASSUME NEW arns, Plan(p, arns) PROVE Kept(p)
    <3>1. /\ pc'[p] = "confirm" /\ del'[p].plan = arns /\ del'[p].request # "open"
          /\ \A r \in del'[p].meant : Arn(r) \in arns
      BY <2>1 DEF Plan, Goto, Destroys, Deletion
    <3>2. JobFits(p)' /\ DeletionFits(p)' /\ AnswerHolds(p)'
      BY <3>1 DEF JobFits, DeletionFits, AnswerHolds, Destroys, Applying, Creating,
                  ForAddress, Deleting, Preparing
    <3>3. Progress(p)'
      BY <3>1 DEF Progress
    <3>4. QED
      BY <3>2, <3>3 DEF Kept
  <2>2. CASE Fail(p) /\ Goto(p, "over") /\ UNCHANGED del
    <3>1. failed'[p] /\ pc'[p] = "over"
      BY <2>2 DEF Fail, Goto, Destroys
    <3>2. QED
      BY <2>2, <3>1 DEF Kept, Parts, JobFits, DeletionFits, AnswerHolds, Progress,
                        Destroys, Applying, Creating, ForAddress, Deleting, Preparing
  <2>3. QED
    BY <1>1, <2>1, <2>2 DEF Enumerate
<1>2. CASE Confirm(p)
  <2>1. CASE UNCHANGED del /\ (pc'[p] = "next" \/ (pc'[p] = "over" /\ failed'[p]))
    <3>1. JobFits(p)' /\ DeletionFits(p)' /\ AnswerHolds(p)'
      BY <2>1 DEF Parts, JobFits, DeletionFits, AnswerHolds, Destroys, Applying, Creating,
                  ForAddress, Deleting, Preparing
    <3>2. pc[p] \notin Deleting
      BY DEF Deleting, Preparing
    <3>3. \A r \in del[p].meant : Settled(p, r) => Settled(p, r)'
      BY <2>1, SettledKept
    <3>4. Progress(p)'
      BY <2>1, <3>2, <3>3 DEF Parts, Progress, Destroys
    <3>5. QED
      BY <3>1, <3>4 DEF Kept
  <2>2. CASE /\ pc'[p] = "over"
             /\ del' = [del EXCEPT ![p].plan = {}, ![p].meant = {}]
    <3>1. del'[p].plan = {} /\ del'[p].meant = {} /\ del'[p].request = del[p].request
      BY <2>2 DEF Destroys, Deletion
    <3>2. JobFits(p)' /\ DeletionFits(p)' /\ AnswerHolds(p)'
      BY <2>2, <3>1 DEF Parts, JobFits, DeletionFits, AnswerHolds, Destroys, Applying,
                        Creating, ForAddress, Deleting, Preparing
    <3>3. Progress(p)'
      BY <3>1 DEF Progress
    <3>4. QED
      BY <3>2, <3>3 DEF Kept
  <2>3. QED
    BY <1>2, <2>1, <2>2 DEF Confirm, Fail, Goto, Destroys
<1>3. CASE NextTarget(p)
  <2>1. pc[p] \notin Deleting
    BY DEF Deleting, Preparing
  <2>2. ASSUME del[p].plan = {}, Goto(p, "over"), UNCHANGED del
        PROVE  Kept(p)
    <3>1. pc'[p] = "over"
      BY <2>2 DEF Goto, Destroys
    <3>2. JobFits(p)' /\ DeletionFits(p)' /\ AnswerHolds(p)'
      BY <2>2, <3>1 DEF JobFits, DeletionFits, AnswerHolds, Destroys, Applying, Creating,
                        ForAddress, Deleting, Preparing
    <3>3. \A r \in del[p].meant : Settled(p, r) => Settled(p, r)'
      BY <2>2, SettledKept
    <3>4. Progress(p)'
      BY <2>1, <2>2, <3>3 DEF Parts, Progress, Destroys
    <3>5. QED
      BY <3>2, <3>4 DEF Kept
  <2>3. ASSUME NEW a \in del[p].plan, Goto(p, "resolve"),
               del' = [del EXCEPT ![p].target = a, ![p].plan = @ \ {a},
                                  ![p].request = None, ![p].polls = 0]
        PROVE  Kept(p)
    <3>1. /\ pc'[p] = "resolve" /\ del'[p].target = a /\ del'[p].plan = del[p].plan \ {a}
          /\ del'[p].request = None /\ del'[p].meant = del[p].meant
          /\ del'[p].unsure = del[p].unsure
      BY <2>3 DEF Goto, Destroys, Deletion
    <3>2. a \in Resource
      BY DEF Destroys, Deletion
    <3>3. JobFits(p)' /\ DeletionFits(p)' /\ AnswerHolds(p)'
      BY <3>1, <3>2, AnswerAssumption
         DEF JobFits, DeletionFits, AnswerHolds, Destroys, Applying, Creating, ForAddress,
             Target
    <3>4. \A r \in del[p].meant : Settled(p, r) => Settled(p, r)'
      BY <3>1, SettledKept
    <3>5. Progress(p)'
      BY <2>1, <3>1, <3>4 DEF Parts, Progress, Destroys, Target, Deleting, Preparing
    <3>6. QED
      BY <3>3, <3>5 DEF Kept
  <2>4. QED
    BY <1>3, <2>2, <2>3 DEF NextTarget
<1>4. QED
  BY <1>1, <1>2, <1>3

\* Preparing a deletion changes nothing of what is known about it.
LEMMA GoesOn ==
  ASSUME DestroyInv, NEW p \in Proc, Destroys(p), UNCHANGED del,
         pc[p] \in Preparing, pc'[p] \in Preparing,
         pc'[p] = "schedule" => pc[p] = "disable", pc'[p] # "disable"
  PROVE  Kept(p)
<1>0. Parts(p)
  BY InvParts
<1> USE DEF Preparing
<1>1. \A r \in del[p].meant : Settled(p, r) => Settled(p, r)'
  BY SettledKept
<1>2. Progress(p)'
  BY <1>0, <1>1 DEF Parts, Progress, Destroys, Target, Deleting
<1>3. JobFits(p)'
  BY DEF JobFits, Applying, Creating, ForAddress, Sweeping
<1>4. DeletionFits(p)'
  BY <1>0 DEF Parts, DeletionFits, Destroys, Target, Deleting
<1>5. AnswerHolds(p)'
  BY DEF AnswerHolds
<1>6. QED
  BY <1>2, <1>3, <1>4, <1>5 DEF Kept

LEMMA ResolveKeeps ==
  ASSUME DestroyInv, NEW p \in Proc, Destroys(p), Resolve(p)
  PROVE  Kept(p)
<1>0. TypeOK /\ Parts(p) /\ ListedIsOurs /\ pc[p] = "resolve"
  BY InvParts DEF Resolve
<1> DEFINE a == Target(p)
<1>1. a \in Resource /\ del[p].request # "open"
  BY <1>0 DEF Parts, DeletionFits, Deleting, Preparing
<1>2. CASE GiveUp(p) /\ UNCHANGED del
  BY <1>0, <1>2, GivesUp
<1>3. ASSUME Listed(a) \/ (Logged(a) /\ Cli(p) /\ TargetKind(p) # "cmk"),
             del' = IF job[p].op = "sweep" THEN del
                    ELSE [del EXCEPT ![p].meant = {r \in alive : Arn(r) = a}],
             Goto(p, IF Cli(p) /\ TargetKind(p) = "cmk" THEN "disable" ELSE "hook")
      PROVE  Kept(p)
  <2>1. pc'[p] \in {"disable", "hook"} /\ (pc'[p] = "disable" => Listed(a))
    BY <1>3 DEF Goto, Destroys
  <2>2. /\ del'[p].target = a /\ del'[p].plan = del[p].plan
        /\ del'[p].request = del[p].request /\ del'[p].unsure = del[p].unsure
        /\ \/ del'[p].meant = del[p].meant
           \/ \A r \in del'[p].meant : Arn(r) = a
    BY <1>3 DEF Destroys, Deletion, Target
  <2>3. ASSUME Listed(a) PROVE a.run \notin Foreign
    <3>1. PICK r \in shown : Arn(r) = a
      BY <2>3 DEF Listed
    <3>2. a.run = r.run
      BY <1>0, <3>1, TypeFacts, ArnIsResource
    <3>3. QED
      BY <1>0, <3>2 DEF ListedIsOurs
  <2>4. JobFits(p)' /\ AnswerHolds(p)'
    BY <2>1 DEF JobFits, AnswerHolds, Applying, Creating, ForAddress, Sweeping
  <2>5. DeletionFits(p)'
    BY <1>0, <1>1, <2>1, <2>2, <2>3
       DEF Parts, DeletionFits, Target, Destroys, Deleting, Preparing
  <2>6. \A r \in del[p].meant : Settled(p, r) => Settled(p, r)'
    BY <2>2, SettledKept
  <2>7. Progress(p)'
    BY <1>0, <2>1, <2>2, <2>6 DEF Parts, Progress, Target, Destroys, Deleting, Preparing
  <2>8. QED
    BY <2>4, <2>5, <2>7 DEF Kept
<1>4. QED
  BY <1>0, <1>2, <1>3 DEF Resolve

\* Everything that has a target's ARN is in the target's account.
LEMMA AtHandFacts ==
  ASSUME DestroyInv, NEW p \in Proc, NEW r \in AtHand(p)
  PROVE  /\ r \in Resource /\ Arn(r) = Target(p) /\ Arn(r).run = r.run
         /\ r \in alive /\ r.run \notin Foreign => r \in Living(Target(p))
<1>1. r \in Resource /\ Arn(r) = Target(p)
  BY InvParts, TypeFacts DEF AtHand, Deletion
<1>2. QED
  BY <1>1, ArnIsResource DEF Living

\* What is at hand is settled once every living resource of the operator's own
\* account is gone or scheduled.
LEMMA ScheduleKeeps ==
  ASSUME DestroyInv, NEW p \in Proc, Destroys(p), Schedule(p)
  PROVE  Kept(p)
<1>0. Parts(p) /\ pc[p] = "schedule" /\ Target(p).run \notin Foreign
      /\ del[p].request # "open"
  BY InvParts DEF Parts, DeletionFits, Schedule
<1>1. CASE GiveUp(p)
  BY <1>0, <1>1, GivesUp DEF Schedule
<1>2. ASSUME pending' = pending \cup Living(Target(p)), Succeed(p)
      PROVE  Kept(p)
  <2>1. UNCHANGED <<del, failed>> /\ pc'[p] = After(p)
    BY <1>2 DEF Schedule, Succeed, Goto, Destroys
  <2>2. pc'[p] = "over" \/ (pc'[p] = "next" /\ job[p].op = "sweep")
    BY <2>1 DEF After
  <2>3. pc'[p] = "over" => del[p].plan = {}
    BY <1>0, <2>1 DEF After, Parts, DeletionFits
  <2>4. JobFits(p)' /\ AnswerHolds(p)'
    BY <2>2 DEF JobFits, AnswerHolds, Destroys, Applying, Creating, ForAddress, Sweeping
  <2>5. DeletionFits(p)'
    BY <1>0, <2>1, <2>2, <2>3
       DEF Parts, DeletionFits, Destroys, Deleting, Preparing
  <2>6. \A r \in del[p].meant : Settled(p, r) => Settled(p, r)'
    BY <2>1, SettledKept
  <2>7. \A r \in AtHand(p) : Settled(p, r)'
    <3>1. ASSUME NEW r \in AtHand(p), r \in alive PROVE r \in pending'
      BY <1>0, <1>2, <3>1, AtHandFacts
    <3>2. QED
      BY <3>1 DEF Settled, Destroys
  <2>8. Progress(p)'
    BY <1>0, <2>1, <2>6, <2>7 DEF Parts, Progress, Target, AtHand
  <2>9. QED
    BY <2>4, <2>5, <2>8 DEF Kept
<1>3. QED
  BY <1>1, <1>2 DEF Schedule

LEMMA PrepareKeeps ==
  ASSUME DestroyInv, NEW p \in Proc, Destroys(p),
         Disable(p) \/ Hook(p) \/ Recheck(p)
  PROVE  Kept(p)
<1>0. UNCHANGED del /\ pc[p] \in {"disable", "hook", "recheck"}
  BY DEF Disable, Hook, Recheck
<1>1. CASE Disable(p)
  BY <1>0, <1>1, GoesOn DEF Disable, Goto, Destroys, Preparing
<1>2. CASE GiveUp(p)
  BY <1>0, <1>2, GivesUp
<1>3. CASE Hook(p) /\ (Goto(p, "delete") \/ Goto(p, "recheck"))
  BY <1>0, <1>3, GoesOn DEF Goto, Destroys, Preparing
<1>4. CASE Recheck(p) /\ Goto(p, "delete")
  BY <1>0, <1>4, GoesOn DEF Recheck, Goto, Destroys, Preparing
<1>5. QED
  BY <1>1, <1>2, <1>3, <1>4 DEF Hook, Recheck

\* A deletion goes on to its next label, and what is then known of what is at
\* hand is known already.
LEMMA MovesOn ==
  ASSUME DestroyInv, NEW p \in Proc, Destroys(p),
         pc[p] \in Deleting, pc'[p] \in {"poll", "classify", "tombstone"},
         del'[p].target = del[p].target, del'[p].meant = del[p].meant,
         del'[p].plan = del[p].plan,
         del'[p].unsure = del[p].unsure \/ del'[p].unsure,
         del'[p].request = "open" => pc'[p] = "poll",
         pc'[p] = "tombstone" => \A r \in AtHand(p) : Settled(p, r)',
         AnswerHolds(p)'
  PROVE  Kept(p)
<1>0. Parts(p)
  BY InvParts
<1>1. JobFits(p)'
  BY DEF JobFits, Applying, Creating, ForAddress, Sweeping
<1>2. DeletionFits(p)'
  BY <1>0 DEF Parts, DeletionFits, Target, Destroys
<1>3. \A r \in del[p].meant : Settled(p, r) => Settled(p, r)'
  BY SettledKept
<1>4. Progress(p)'
  BY <1>0, <1>3 DEF Parts, Progress, Target, AtHand, Destroys, Deleting
<1>5. QED
  BY <1>1, <1>2, <1>4 DEF Kept

LEMMA DeleteKeeps ==
  ASSUME DestroyInv, NEW p \in Proc, Destroys(p), Delete(p)
  PROVE  Kept(p)
<1>0. Parts(p) /\ pc[p] = "delete" /\ pc[p] \in Deleting /\ del[p].request # "open"
  BY InvParts DEF Parts, DeletionFits, Delete, Deleting, Preparing
<1>1. CASE GiveUp(p) /\ UNCHANGED del
  BY <1>0, <1>1, GivesUp
<1>2. CASE Living(Target(p)) = {} /\ Goto(p, "classify") /\ UNCHANGED del
  <2>1. pc'[p] = "classify"
    BY <1>2 DEF Goto, Destroys
  <2>2. \A r \in AtHand(p) : r \in alive => r.run \in Foreign
    BY <1>2, AtHandFacts
  <2>3. AnswerHolds(p)'
    BY <1>2, <2>1, <2>2 DEF AnswerHolds, AtHand, Target, Settled, Destroys
  <2>4. QED
    BY <1>0, <1>2, <2>1, <2>3, MovesOn
<1>3. CASE Goto(p, "poll") /\ del' = [del EXCEPT ![p].request = "open"]
  <2>1. pc'[p] = "poll" /\ del'[p].request = "open"
        /\ del'[p].target = del[p].target /\ del'[p].meant = del[p].meant
        /\ del'[p].plan = del[p].plan /\ del'[p].unsure = del[p].unsure
    BY <1>3 DEF Goto, Destroys, Deletion
  <2>2. AnswerHolds(p)'
    BY <2>1 DEF AnswerHolds
  <2>3. QED
    BY <1>0, <2>1, <2>2, MovesOn
<1>4. QED
  BY <1>1, <1>2, <1>3 DEF Delete

LEMMA PollKeeps ==
  ASSUME DestroyInv, NEW p \in Proc, Destroys(p), Poll(p) \/ PollsExhausted(p)
  PROVE  Kept(p)
<1>0. Parts(p) /\ pc[p] = "poll" /\ pc[p] \in Deleting
  BY InvParts DEF Poll, PollsExhausted, Deleting
<1>1. CASE GiveUp(p) /\ del' = [del EXCEPT ![p].request = None]
  BY <1>1, GivesUp
<1>2. CASE UNCHANGED <<pc, failed>> /\ del' = [del EXCEPT ![p].polls = Polled(p)]
  <2>1. /\ pc'[p] = "poll" /\ del'[p].request = del[p].request
        /\ del'[p].target = del[p].target /\ del'[p].meant = del[p].meant
        /\ del'[p].plan = del[p].plan /\ del'[p].unsure = del[p].unsure
    BY <1>0, <1>2 DEF Destroys, Deletion
  <2>2. \A r \in del[p].meant : Settled(p, r) => Settled(p, r)'
    BY <2>1, SettledKept
  <2>3. AnswerHolds(p)'
    BY <1>0, <2>1, <2>2 DEF Parts, AnswerHolds, AtHand, Target
  <2>4. QED
    BY <1>0, <2>1, <2>3, MovesOn
<1>3. CASE /\ del[p].request \in {"success", "absent"} /\ UNCHANGED del
           /\ Goto(p, IF del[p].request = "success" THEN "tombstone" ELSE "classify")
  <2>1. \/ pc'[p] = "tombstone" /\ del[p].request = "success"
        \/ pc'[p] = "classify" /\ del[p].request = "absent"
    BY <1>3 DEF Goto, Destroys
  <2>2. \A r \in del[p].meant : Settled(p, r) => Settled(p, r)'
    BY <1>3, SettledKept
  <2>3. AtHand(p)' = AtHand(p)
    BY <1>3 DEF AtHand, Target
  <2>4. AtHand(p) \subseteq del[p].meant
    BY DEF AtHand
  <2>5. AnswerHolds(p)' /\ (pc'[p] = "tombstone" => \A r \in AtHand(p) : Settled(p, r)')
    BY <1>0, <1>3, <2>1, <2>2, <2>3, <2>4 DEF Parts, AnswerHolds
  <2>6. QED
    BY <1>0, <1>3, <2>1, <2>5, MovesOn
<1>4. QED
  BY <1>1, <1>2, <1>3 DEF Poll, PollsExhausted, TimedOut

LEMMA ClassifyKeeps ==
  ASSUME DestroyInv, NEW p \in Proc, Destroys(p), Classify(p)
  PROVE  Kept(p)
<1>0. Parts(p) /\ pc[p] = "classify" /\ pc[p] \in Deleting /\ del[p].request # "open"
  BY InvParts DEF Parts, DeletionFits, Classify, Deleting
<1>1. CASE GiveUp(p) /\ UNCHANGED del
  BY <1>0, <1>1, GivesUp
<1>2. CASE /\ (~Elsewhere(p) /\ Works) \/ Fails
           /\ del' = [del EXCEPT ![p].unsure = @ \/ faults' # faults]
           /\ Goto(p, "tombstone")
  <2>1. /\ pc'[p] = "tombstone" /\ del'[p].request = del[p].request
        /\ del'[p].target = del[p].target /\ del'[p].meant = del[p].meant
        /\ del'[p].plan = del[p].plan
        /\ del'[p].unsure = (del[p].unsure \/ faults' # faults)
    BY <1>2 DEF Goto, Destroys, Deletion
  <2>2. Elsewhere(p) => del'[p].unsure
    <3>1. faults \in Nat
      BY InvParts, TypeFacts, Numbers
    <3>2. Elsewhere(p) => faults' # faults
      BY <1>2, <3>1 DEF Fails
    <3>3. QED
      BY <2>1, <3>2, Zenon
  <2>3. del'[p].unsure = del[p].unsure \/ del'[p].unsure
    <3>1. del[p].unsure \in BOOLEAN
      BY DEF Destroys, Deletion
    <3>2. CASE faults' = faults
      BY <2>1, <3>1, <3>2
    <3>3. CASE faults' # faults
      BY <2>1, <3>3, Zenon
    <3>4. QED
      BY <3>2, <3>3
  <2>4. \A r \in del[p].meant : Settled(p, r) => Settled(p, r)'
    BY <2>3, SettledKept
  <2>5. \A r \in AtHand(p) : Settled(p, r)'
    <3>1. ASSUME NEW r \in AtHand(p) PROVE Settled(p, r)'
      <4>1. CASE Settled(p, r)
        BY <2>4, <4>1 DEF AtHand
      <4>2. CASE r.run \in Foreign
        <5>1. Elsewhere(p)
          BY <4>2, AtHandFacts DEF Elsewhere
        <5>2. QED
          BY <2>2, <4>2, <5>1 DEF Settled
      <4>3. QED
        BY <1>0, <4>1, <4>2 DEF Parts, AnswerHolds
    <3>2. QED
      BY <3>1
  <2>6. AtHand(p)' = AtHand(p)
    BY <2>1 DEF AtHand, Target
  <2>7. AnswerHolds(p)'
    BY <2>1, <2>5, <2>6 DEF AnswerHolds
  <2>8. QED
    BY <1>0, <2>1, <2>3, <2>5, <2>7, MovesOn
<1>3. QED
  BY <1>1, <1>2 DEF Classify

LEMMA TombstoneKeeps ==
  ASSUME DestroyInv, NEW p \in Proc, Destroys(p), Tombstone(p) \/ Cascade(p)
  PROVE  Kept(p)
<1>0. Parts(p) /\ pc[p] \in {"tombstone", "cascade"} /\ pc[p] \notin Deleting
      /\ del[p].request # "open" /\ UNCHANGED del
  BY InvParts DEF Parts, DeletionFits, Tombstone, Cascade, Deleting, Preparing
<1>1. CASE GiveUp(p)
  BY <1>0, <1>1, GivesUp
<1>2. CASE UNCHANGED failed /\ pc'[p] \in {After(p), "cascade"}
  <2>1. \/ pc'[p] = "cascade" \/ pc'[p] = "over"
        \/ pc'[p] = "next" /\ job[p].op = "sweep"
    BY <1>2 DEF After
  <2>2. pc'[p] = "over" => del[p].plan = {}
    BY <1>0, <1>2 DEF After, Parts, DeletionFits
  <2>3. JobFits(p)' /\ AnswerHolds(p)'
    BY <2>1 DEF JobFits, AnswerHolds, Destroys, Applying, Creating, ForAddress, Sweeping
  <2>4. DeletionFits(p)'
    BY <1>0, <1>2, <2>1, <2>2
       DEF Parts, DeletionFits, Target, Destroys, Deleting, Preparing
  <2>5. \A r \in del[p].meant : Settled(p, r) => Settled(p, r)'
    BY <1>0, SettledKept
  <2>6. Progress(p)'
    BY <1>0, <1>2, <2>5 DEF Parts, Progress, Target
  <2>7. QED
    BY <2>3, <2>4, <2>6 DEF Kept
<1>3. CASE Tombstone(p)
  BY <1>1, <1>2, <1>3 DEF Tombstone, Succeed, Goto, Destroys
<1>4. CASE Cascade(p)
  <2>1. UNCHANGED failed /\ pc'[p] \in {After(p), pc[p]}
    BY <1>4 DEF Cascade, Teardown, Goto, Destroys
  <2>2. QED
    BY <1>2, <1>4, <2>1 DEF Cascade
<1>5. QED
  BY <1>3, <1>4

LEMMA DestroyKeepsInv ==
  ASSUME DestroyInv, TypeOK', NEW p \in Proc, DestroyStep(p), UNCHANGED attempt
  PROVE  DestroyInv'
<1>0. TypeOK /\ Parts(p)
  BY InvParts
<1>1. Destroys(p)
  BY <1>0, DestroyFacts DEF Parts
<1>2. Kept(p)
  BY <1>1, SweepKeeps, ResolveKeeps, ScheduleKeeps, PrepareKeeps, DeleteKeeps, PollKeeps,
     ClassifyKeeps, TombstoneKeeps DEF DestroyStep
<1>3. StepOf(p)
  <2>1. del'[p].meant \subseteq del[p].meant \cup alive
    BY <1>0, DestroyMeans
  <2>2. jobs \in Nat
    BY <1>0, TypeFacts, Numbers
  <2>3. QED
    BY <1>1, <2>1, <2>2 DEF StepOf, Destroys, Same
<1>4. pc'[p] \notin Applying /\ pc'[p] \notin Creating
  BY <1>1 DEF Destroys, Applying, Creating, ForAddress, Sweeping, Deleting, Preparing
<1>5. Numbered' /\ OnePlanOnce' /\ ListedIsOurs' /\ NotYet(p)' /\ MeantNumbered(p)'
  BY <1>1, <1>3, <1>4, SharedKeep DEF Destroys
<1>6. Parts(p)'
  BY <1>2, <1>5 DEF Kept, Parts
<1>7. \A q \in Proc \ {p} : Parts(q)'
  BY <1>3, OthersKeep
<1>8. \A q \in Proc : Parts(q)'
  BY <1>6, <1>7
<1>9. QED
  BY <1>5, <1>8 DEF DestroyInv, Parts

-----------------------------------------------------------------------------
(* AWS, and commands that begin and end. *)

\* What AWS does by itself leaves every command undisturbed.
LEMMA AwsKeepsInv ==
  ASSUME DestroyInv, TypeOK', UNCHANGED <<pc, failed, attempt, job, jobs>>,
         alive' \subseteq alive, pending \subseteq pending', shown' \subseteq shown,
         NEW P, P \subseteq Proc, \A p \in Proc \ P : del'[p] = del[p],
         \A p \in P : Parts(p)', \A p \in P : del'[p].meant = del[p].meant
  PROVE  DestroyInv'
<1>0. TypeOK /\ Numbered /\ OnePlanOnce /\ ListedIsOurs
  BY InvParts
<1>1. jobs <= jobs'
  BY <1>0, TypeFacts, Numbers
<1>2. ASSUME NEW q \in Proc \ P PROVE Parts(q)'
  <2>1. Same(q)
    BY DEF Same
  <2>2. \A x \in Proc : del'[x].meant = del[x].meant
    OBVIOUS
  <2>3. Undisturbed(q)
    BY <1>1, <2>1, <2>2 DEF Undisturbed
  <2>4. QED
    BY <2>3, UndisturbedKeeps
<1>3. \A q \in Proc : Parts(q)'
  BY <1>2
<1>4. Numbered' /\ OnePlanOnce' /\ ListedIsOurs'
  BY <1>0 DEF Numbered, OnePlanOnce, ListedIsOurs
<1>5. QED
  BY <1>3, <1>4 DEF DestroyInv, Parts

\* An answer of CloudControl is true of what is at hand when it is given.
LEMMA SettleAnswers ==
  ASSUME DestroyInv, TypeOK', NEW p \in Proc, Settle(p), UNCHANGED attempt
  PROVE  Parts(p)' /\ del'[p].meant = del[p].meant
         /\ \A q \in Proc \ {p} : del'[q] = del[q]
<1>0. TypeOK /\ Parts(p) /\ pc[p] = "poll"
  BY InvParts DEF Parts, DeletionFits, Settle
<1>1. PICK result \in Answer :
        Outcome(Target(p), result) /\ del' = [del EXCEPT ![p].request = result]
  BY DEF Settle
<1>2. /\ del'[p].request = result /\ del'[p].target = del[p].target
      /\ del'[p].meant = del[p].meant /\ del'[p].plan = del[p].plan
      /\ del'[p].unsure = del[p].unsure
      /\ \A q \in Proc \ {p} : del'[q] = del[q]
  BY <1>0, <1>1, TypeFacts DEF Deletion
<1>3. alive' \subseteq alive /\ pending \subseteq pending'
  BY <1>0, <1>1, OutcomeTypes
<1>4. UNCHANGED <<pc, job, jobs, failed>>
  BY DEF Settle, frame
<1>5. \A r \in del[p].meant : Settled(p, r) => Settled(p, r)'
  BY <1>2, <1>3 DEF Settled
<1>6. JobFits(p)'
  BY <1>0, <1>4 DEF Parts, JobFits
<1>7. DeletionFits(p)'
  BY <1>0, <1>2, <1>4 DEF Parts, DeletionFits, Target
<1>8. NotYet(p)'
  BY <1>0, <1>4 DEF NotYet, Creating, ForAddress
<1>9. MeantNumbered(p)'
  BY <1>0, <1>2, <1>4 DEF Parts, MeantNumbered
<1>10. Progress(p)'
  BY <1>0, <1>2, <1>4, <1>5 DEF Parts, Progress, Target, Deleting
<1>11. AnswerHolds(p)'
  <2>1. AtHand(p)' = AtHand(p)
    BY <1>2 DEF AtHand, Target
  <2>2. CASE result = "absent"
    <3>1. Living(Target(p)) = {}
      BY <1>1, <2>2 DEF Outcome
    <3>2. \A r \in AtHand(p) : r \in alive => r.run \in Foreign
      BY <3>1, AtHandFacts
    <3>3. \A r \in AtHand(p) : Settled(p, r)' \/ r.run \in Foreign
      BY <1>3, <3>2 DEF Settled
    <3>4. QED
      BY <1>0, <1>2, <1>4, <2>1, <2>2, <3>3 DEF AnswerHolds
  <2>3. CASE result = "success"
    <3>1. Living(Target(p)) # {} /\ Vanish(Target(p))
      BY <1>1, <2>3 DEF Outcome
    <3>2. PICK s \in Living(Target(p)) : TRUE
      BY <3>1
    <3>3. Target(p).run \notin Foreign
      BY <1>0, <3>2, TypeFacts, ArnIsResource DEF Living
    <3>4. ASSUME NEW r \in AtHand(p), r \in alive PROVE r \in Living(Target(p))
      BY <3>3, <3>4, AtHandFacts
    <3>5. ASSUME NEW r \in AtHand(p) PROVE r \notin alive' \/ r \in pending'
      BY <1>3, <3>1, <3>4 DEF Vanish
    <3>6. \A r \in AtHand(p) : Settled(p, r)'
      BY <3>5 DEF Settled
    <3>7. QED
      BY <1>0, <1>2, <1>4, <2>1, <2>3, <3>6 DEF AnswerHolds
  <2>4. CASE result = "failed"
    BY <1>0, <1>2, <1>4, <2>4 DEF AnswerHolds
  <2>5. QED
    BY <2>2, <2>3, <2>4 DEF Answer
<1>12. QED
  BY <1>2, <1>6, <1>7, <1>8, <1>9, <1>10, <1>11 DEF Parts

LEMMA SettleKeepsInv ==
  ASSUME DestroyInv, TypeOK', NEW p \in Proc, Settle(p), UNCHANGED attempt
  PROVE  DestroyInv'
<1>1. PICK result : Outcome(Target(p), result)
  BY DEF Settle
<1>2. alive' \subseteq alive /\ pending \subseteq pending' /\ UNCHANGED shown
  BY <1>1, OutcomeTypes, InvParts
<1>3. UNCHANGED <<pc, job, jobs, failed>>
  BY DEF Settle, frame
<1>4. /\ Parts(p)' /\ del'[p].meant = del[p].meant
      /\ \A q \in Proc \ {p} : del'[q] = del[q]
  BY SettleAnswers
<1> DEFINE P == {p}
<1>5. /\ P \subseteq Proc /\ \A q \in Proc \ P : del'[q] = del[q]
      /\ \A q \in P : Parts(q)' /\ \A x \in P : del'[x].meant = del[x].meant
  BY <1>4
<1> HIDE DEF P
<1>6. QED
  BY <1>2, <1>3, <1>5, AwsKeepsInv

LEMMA WorldKeepsInv ==
  ASSUME DestroyInv, TypeOK',
         \/ \E a \in adrift : SettleAdrift(a) /\ UNCHANGED attempt
         \/ IndexForgets
         \/ \E r \in shown : LoseTag(r)
  PROVE  DestroyInv'
<1>1. /\ UNCHANGED <<pc, failed, attempt, job, jobs, del>>
      /\ alive' \subseteq alive /\ pending \subseteq pending' /\ shown' \subseteq shown
  <2>1. ASSUME NEW a \in adrift, SettleAdrift(a), UNCHANGED attempt
        PROVE  /\ UNCHANGED <<pc, failed, attempt, job, jobs, del>>
               /\ alive' \subseteq alive /\ pending \subseteq pending'
               /\ shown' \subseteq shown
    <3>1. PICK result : Outcome(a, result)
      BY <2>1 DEF SettleAdrift
    <3>2. alive' \subseteq alive /\ pending \subseteq pending' /\ UNCHANGED shown
      BY <3>1, OutcomeTypes, InvParts
    <3>3. QED
      BY <2>1, <3>2 DEF SettleAdrift, frame
  <2>2. CASE IndexForgets
    BY <2>2 DEF IndexForgets, frame
  <2>3. CASE \E r \in shown : LoseTag(r)
    BY <2>3 DEF LoseTag, frame
  <2>4. QED
    BY <2>1, <2>2, <2>3
<1> DEFINE P == {}
<1>2. /\ P \subseteq Proc /\ \A q \in Proc \ P : del'[q] = del[q]
      /\ \A q \in P : Parts(q)' /\ \A x \in P : del'[x].meant = del[x].meant
  BY <1>1
<1> HIDE DEF P
<1>3. QED
  BY <1>1, <1>2, AwsKeepsInv

LEMMA EndKeepsInv ==
  ASSUME DestroyInv, TypeOK', NEW p \in Proc, End(p)
  PROVE  DestroyInv'
<1>0. /\ TypeOK /\ Numbered /\ OnePlanOnce /\ ListedIsOurs
      /\ \A q \in Proc : Parts(q)
  BY InvParts
<1>1. /\ pc'[p] = "idle" /\ del'[p] = NoDeletion
      /\ \A q \in Proc \ {p} : Same(q)
      /\ UNCHANGED <<alive, shown, pending, jobs>>
  BY <1>0, TypeFacts DEF End, Goto, Same, world
<1>2. StepOf(p)
  <2>1. jobs <= jobs'
    BY <1>0, <1>1, TypeFacts, Numbers
  <2>2. QED
    BY <1>1, <2>1 DEF StepOf, NoDeletion
<1>3. \A q \in Proc \ {p} : Parts(q)'
  BY <1>2, OthersKeep
<1>4. Parts(p)'
  <2>1. pc'[p] \notin Applying \cup Creating \cup ForAddress \cup Sweeping \cup Deleting
                        \cup {"tombstone", "cascade", "disable", "schedule", "over"}
    BY <1>1 DEF Applying, Creating, ForAddress, Sweeping, Deleting, Preparing
  <2>2. NoDeletion.plan = {} /\ NoDeletion.meant = {} /\ NoDeletion.request # "open"
    BY AnswerAssumption DEF NoDeletion
  <2>3. QED
    BY <1>1, <2>1, <2>2
       DEF Parts, JobFits, DeletionFits, NotYet, MeantNumbered, Progress, AnswerHolds
<1>5. OnePlanOnce'
  <2>1. pc'[p] \notin Applying
    BY <1>1 DEF Applying, Creating, ForAddress
  <2>2. QED
    BY <1>0, <1>1, <2>1 DEF OnePlanOnce, Same
<1>6. Numbered' /\ ListedIsOurs'
  BY <1>0, <1>1 DEF Numbered, ListedIsOurs
<1>7. \A q \in Proc : Parts(q)'
  BY <1>3, <1>4
<1>8. QED
  BY <1>5, <1>6, <1>7 DEF DestroyInv, Parts

LEMMA BeginKeepsInv ==
  ASSUME DestroyInv, TypeOK', NEW p \in Proc, NEW c \in Command,
         BeginApply(p, c) \/ BeginDestroy(p, c) \/ BeginSweep(p, c)
  PROVE  DestroyInv'
<1>0. /\ TypeOK /\ Numbered /\ OnePlanOnce /\ ListedIsOurs
      /\ \A q \in Proc : Parts(q)
  BY InvParts
<1>1. Start(p, c)
  BY <1>0, BeginFacts
<1>2. /\ pc[p] = "idle" /\ jobs' = jobs + 1 /\ jobs \in 0..(MaxJobs - 1)
      /\ job'[p] # None /\ job'[p].op = c.op /\ job'[p].run = c.run
      /\ c.op = "apply" => job'[p].nr = FirstJob + jobs
      /\ UNCHANGED <<world, failed>>
  BY <1>0, <1>1, StartFacts
<1>3. UNCHANGED <<alive, shown, pending, failed>>
  BY <1>2 DEF world
<1>4. jobs \in Nat /\ jobs' \in Nat /\ jobs < jobs'
  BY <1>2, Numbers
<1>5. del[p] = NoDeletion /\ del \in [Proc -> Deletion]
  BY <1>0, <1>2, TypeFacts DEF Parts, DeletionFits
<1>6. NoDeletion.plan = {} /\ NoDeletion.meant = {} /\ NoDeletion.request # "open"
  BY AnswerAssumption DEF NoDeletion
<1>7. /\ del'[p].plan = {} /\ del'[p].meant = {} /\ del'[p].request # "open"
      /\ pc'[p] \notin {"idle", "over", "disable", "schedule"}
      /\ pc'[p] \in Deleting \cup {"tombstone", "cascade"} => del'[p].target \in Resource
  <2>1. CASE c.op = "apply"
    <3>1. UNCHANGED del /\ pc'[p] \in Creating
      BY <1>0, <2>1, BeginFacts
    <3>2. QED
      BY <1>5, <1>6, <3>1 DEF Creating, ForAddress, Deleting, Preparing
  <2>2. CASE pc'[p] = "enumerate"
    <3>1. UNCHANGED del
      BY <1>0, <2>2, BeginFacts
    <3>2. QED
      BY <1>5, <1>6, <2>2, <3>1 DEF Deleting, Preparing
  <2>3. CASE pc'[p] = "resolve"
    <3>1. PICK a \in Resource : del' = [del EXCEPT ![p].target = a]
      BY <1>0, <2>3, BeginFacts
    <3>2. /\ del'[p].target = a /\ del'[p].plan = del[p].plan
          /\ del'[p].meant = del[p].meant /\ del'[p].request = del[p].request
      BY <1>5, <3>1 DEF Deletion
    <3>3. QED
      BY <1>5, <1>6, <2>3, <3>2
  <2>4. QED
    BY <1>0, <2>1, <2>2, <2>3, BeginFacts
<1>8. c.op # "apply" => pc'[p] \notin Applying \cup Creating \cup ForAddress
  <2>1. c.op # "apply" => pc'[p] \in {"resolve", "enumerate"}
    BY <1>0, BeginFacts
  <2>2. QED
    BY <2>1 DEF Applying, Creating, ForAddress
<1>9. JobFits(p)'
  <2>1. CASE c.op = "apply"
    <3>1. /\ c.run \in Run \ Foreign /\ pc'[p] \in Creating /\ attempt'[p].addr = 0
          /\ pc'[p] \in ForAddress => Kind[c.run] = "nat"
      BY <1>0, <2>1, BeginFacts
    <3>2. job'[p].nr \in Nr /\ job'[p].nr < FirstJob + jobs'
      BY <1>2, <1>4, <2>1, Numbers
    <3>3. pc'[p] \notin Sweeping
      BY <3>1 DEF Creating, ForAddress, Sweeping
    <3>4. QED
      BY <1>2, <2>1, <3>1, <3>2, <3>3 DEF JobFits
  <2>2. CASE c.op # "apply"
    <3>1. pc'[p] \in Sweeping => c.op = "sweep"
      BY <1>0, <2>2, BeginFacts DEF Sweeping
    <3>2. QED
      BY <1>2, <1>8, <2>2, <3>1 DEF JobFits
  <2>3. QED
    BY <2>1, <2>2
<1>10. DeletionFits(p)'
  BY <1>7 DEF DeletionFits, Target
<1>11. \A q \in Proc \ {p} : Same(q)
  <2>1. \A q \in Proc \ {p} :
          /\ job[q] # None => job'[q] # None
          /\ job'[q].op = job[q].op /\ job'[q].run = job[q].run /\ job'[q].nr = job[q].nr
    BY <1>0, <1>1, StartFacts
  <2>2. \A q \in Proc \ {p} : /\ pc'[q] = pc[q] /\ attempt'[q] = attempt[q]
                               /\ del'[q] = del[q]
    BY <1>0, BeginFacts
  <2>3. QED
    BY <1>3, <2>1, <2>2 DEF Same
<1>12. StepOf(p)
  BY <1>3, <1>4, <1>7, <1>11 DEF StepOf
<1>13. NotYet(p)'
  <2>1. CASE c.op = "apply"
    <3>1. Mine(p)'.nr = FirstJob + jobs
      BY <1>2, <2>1 DEF Mine
    <3>2. Mine(p)' \notin alive
      BY <1>0, <1>4, <3>1, Numbers DEF Numbered
    <3>3. ASSUME NEW q \in Proc PROVE Mine(p)' \notin del'[q].meant
      <4>1. CASE q = p
        BY <1>7, <4>1
      <4>2. CASE q # p
        BY <1>0, <1>4, <1>11, <3>1, <4>2, Numbers DEF Parts, MeantNumbered, Same
      <4>3. QED
        BY <4>1, <4>2
    <3>4. QED
      BY <1>3, <3>2, <3>3 DEF NotYet
  <2>2. QED
    BY <1>8, <2>1 DEF NotYet
<1>14. MeantNumbered(p)' /\ Progress(p)' /\ AnswerHolds(p)'
  BY <1>7 DEF MeantNumbered, Progress, AnswerHolds, AtHand
<1>15. Parts(p)'
  BY <1>9, <1>10, <1>13, <1>14 DEF Parts
<1>16. \A q \in Proc \ {p} : Parts(q)'
  BY <1>12, OthersKeep
<1>17. Numbered'
  <2>1. ASSUME NEW r \in alive PROVE r.nr < FirstJob + jobs'
    <3>1. r.nr \in Nat /\ r.nr < FirstJob + jobs
      BY <1>0, TypeFacts DEF Numbered, Resource, Nr
    <3>2. QED
      BY <1>4, <3>1, Numbers
  <2>2. QED
    BY <1>3, <2>1 DEF Numbered
<1>18. OnePlanOnce'
  <2>1. ASSUME NEW q \in Proc \ {p}, pc'[p] \in Applying, pc'[q] \in Applying
        PROVE  job'[p].run # job'[q].run
    <3>1. c.op = "apply"
      BY <1>8, <2>1
    <3>2. \A x \in Proc : Busy(x) => ~(job[x].op = "apply" /\ job[x].run = c.run)
      BY <1>0, <3>1, BeginFacts
    <3>3. job[q] # None /\ job[q].op = "apply"
      BY <1>0, <1>11, <2>1 DEF Parts, JobFits, Same
    <3>4. QED
      BY <1>2, <1>11, <3>2, <3>3 DEF Busy, Same
  <2>2. ASSUME NEW q \in Proc \ {p}, NEW x \in Proc \ {p}, q # x,
               pc'[q] \in Applying, pc'[x] \in Applying
        PROVE  job'[q].run # job'[x].run
    BY <1>0, <1>11, <2>2 DEF OnePlanOnce, Same
  <2>3. QED
    BY <2>1, <2>2 DEF OnePlanOnce
<1>19. ListedIsOurs'
  BY <1>0, <1>3 DEF ListedIsOurs
<1>20. \A q \in Proc : Parts(q)'
  BY <1>15, <1>16
<1>21. QED
  BY <1>17, <1>18, <1>19, <1>20 DEF DestroyInv, Parts

-----------------------------------------------------------------------------
(* The theorems. *)

LEMMA InvInit ==
  ASSUME Init
  PROVE  DestroyInv
<1>1. PICK w \in World :
        /\ alive = w.alive /\ shown = w.shown /\ blocked = w.blocked
        /\ address = w.address /\ iam = w.iam /\ records = w.records
        /\ key = w.key /\ pem = w.key /\ keyOf = w.keyOf
  BY WorldsAssumption DEF Init
<1>2. /\ alive \subseteq Old /\ records \subseteq Old /\ blocked \subseteq Old
      /\ shown \subseteq {r \in Old : r.run \notin Foreign}
      /\ address \in [Nr -> Address \cup {None}] /\ key \in {0} \cup Nr /\ pem \in {0} \cup Nr
      /\ keyOf \in [Nr -> {0} \cup Nr] /\ iam \in [Run -> SUBSET Piece]
  <2>1. 0..(FirstJob - 1) \subseteq {0} \cup Nr
    BY Numbers DEF FirstJob, Nr
  <2>2. iam \in [Run -> {have \in SUBSET Piece : Whole(have)}]
    BY <1>1 DEF World
  <2>3. iam \in [Run -> SUBSET Piece]
    BY <2>2
  <2>4. QED
    BY <1>1, <2>1, <2>3 DEF World
<1>3. Old \subseteq Resource /\ \A r \in Old : r.nr < FirstJob
  BY Numbers DEF Old, Resource, Nr, FirstJob
<1>4. /\ pc = [p \in Proc |-> "idle"] /\ job = [p \in Proc |-> None] /\ jobs = 0
      /\ failed = [p \in Proc |-> FALSE] /\ denied = [p \in Proc |-> {}]
      /\ tear = [p \in Proc |-> {}] /\ faults = 0
      /\ attempt = [p \in Proc |-> Fresh(None, {})] /\ del = [p \in Proc |-> NoDeletion]
      /\ disabled = {} /\ pending = {} /\ tombs = {} /\ adrift = {}
  BY DEF Init
<1>5. TypeOK
  <2>1. Fresh(None, {}) \in Attempt /\ NoDeletion \in Deletion
    BY FreshTypes, NoDeletionTypes
  <2>2. attempt \in [Proc -> Attempt] /\ del \in [Proc -> Deletion]
    BY <1>4, <2>1
  <2>3. pc \in [Proc -> Labels]
    BY <1>4 DEF Labels
  <2>4. {alive, shown, blocked, disabled, pending, records, tombs} \subseteq SUBSET Resource
    BY <1>2, <1>3, <1>4
  <2>5. job \in [Proc -> Job \cup {None}] /\ jobs \in 0..MaxJobs /\ faults \in 0..MaxFaults
    BY <1>4, Numbers
  <2>6. QED
    BY <1>2, <1>4, <2>2, <2>3, <2>4, <2>5 DEF TypeOK
<1>6. Numbered /\ ListedIsOurs
  BY <1>2, <1>3, <1>4, Numbers DEF Numbered, ListedIsOurs
<1>7. OnePlanOnce
  BY <1>4 DEF OnePlanOnce, Applying, Creating, ForAddress
<1>8. ASSUME NEW p \in Proc PROVE Parts(p)
  <2>1. pc[p] \notin Applying \cup Creating \cup ForAddress \cup Sweeping \cup Deleting
                       \cup {"tombstone", "cascade", "disable", "schedule", "over"}
    BY <1>4 DEF Applying, Creating, ForAddress, Sweeping, Deleting, Preparing
  <2>2. NoDeletion.plan = {} /\ NoDeletion.meant = {} /\ NoDeletion.request # "open"
    BY AnswerAssumption DEF NoDeletion
  <2>3. pc[p] = "idle" /\ del[p] = NoDeletion
    BY <1>4
  <2>4. QED
    BY <2>1, <2>2, <2>3
       DEF Parts, JobFits, DeletionFits, NotYet, MeantNumbered, Progress, AnswerHolds
<1>9. QED
  BY <1>5, <1>6, <1>7, <1>8 DEF DestroyInv, Parts

LEMMA InvStep ==
  ASSUME DestroyInv, [Next]_vars
  PROVE  DestroyInv'
<1>0. TypeOK'
  BY TypeStep
<1>1. ASSUME NEW p \in Proc, NEW c \in Commands[p],
             BeginApply(p, c) \/ BeginDestroy(p, c) \/ BeginSweep(p, c)
      PROVE  DestroyInv'
  BY <1>0, <1>1, BeginKeepsInv, CommandsAssumption
<1>2. ASSUME NEW p \in Proc, Step(p) PROVE DestroyInv'
  BY <1>0, <1>2, ProvisionKeepsInv, DestroyKeepsInv, EndKeepsInv DEF Step
<1>3. ASSUME NEW p \in Proc, Settle(p), UNCHANGED attempt PROVE DestroyInv'
  BY <1>0, <1>3, SettleKeepsInv
<1>4. CASE \/ \E a \in adrift : SettleAdrift(a) /\ UNCHANGED attempt
           \/ IndexForgets
           \/ \E r \in shown : LoseTag(r)
  BY <1>0, <1>4, WorldKeepsInv
<1>5. CASE UNCHANGED vars
  <2>1. /\ UNCHANGED <<pc, failed, attempt, job, jobs, del>>
        /\ alive' \subseteq alive /\ pending \subseteq pending' /\ shown' \subseteq shown
    BY <1>5 DEF vars
  <2> DEFINE P == {}
  <2>2. /\ P \subseteq Proc /\ \A q \in Proc \ P : del'[q] = del[q]
        /\ \A q \in P : Parts(q)' /\ \A x \in P : del'[x].meant = del[x].meant
    BY <2>1
  <2> HIDE DEF P
  <2>3. QED
    BY <1>0, <2>1, <2>2, AwsKeepsInv
<1>6. QED
  BY <1>1, <1>2, <1>3, <1>4, <1>5 DEF Next

\* DestroyInv, and the types with it, for every operator's account: what each
\* command at each of its labels is about, and that what it meant to delete is
\* dealt with, still to come, or known to the operator to have failed.
THEOREM DestroyInvariant == Spec => []DestroyInv
<1>1. Init => DestroyInv
  BY InvInit
<1>2. DestroyInv /\ [Next]_vars => DestroyInv'
  BY InvStep
<1>3. QED
  BY <1>1, <1>2, PTL DEF Spec

\* The types of the account, the logs and the commands.
THEOREM LifecycleTypes == Spec => []TypeOK
<1>1. DestroyInv => TypeOK
  BY DEF DestroyInv
<1>2. QED
  BY <1>1, DestroyInvariant, PTL

\* A destroy that reports success has left nothing of what it found, whatever
\* other commands, AWS and the tagging API do meanwhile.
THEOREM SuccessfulDestroyLeavesNothing == Spec => []CleanExitMeansGone
<1>1. DestroyInv => CleanExitMeansGone
  <2>1. SUFFICES ASSUME DestroyInv, NEW p \in Proc, pc[p] = "over", ~failed[p],
                        NEW r \in del[p].meant \cap alive
                 PROVE  r \in pending \/ (r.run \in Foreign /\ del[p].unsure)
    BY DEF CleanExitMeansGone
  <2>2. DeletionFits(p) /\ Progress(p)
    BY <2>1 DEF DestroyInv
  <2>3. pc[p] \notin Deleting
    BY <2>1 DEF Deleting, Preparing
  <2>4. Settled(p, r)
    BY <2>1, <2>2, <2>3 DEF DeletionFits, Progress
  <2>5. QED
    BY <2>1, <2>4 DEF Settled
<1>2. QED
  BY <1>1, DestroyInvariant, PTL

\* A tombstone is written only for what is gone, scheduled, or in an account
\* that STS would not name.
THEOREM TombstonesAreTrue == Spec => TombstoneIsTrue
<1>1. DestroyInv /\ [Next]_vars =>
        [\A p \in Proc : pc[p] = "tombstone" /\ tombs' # tombs =>
           \A r \in del[p].meant : Arn(r) = Target(p) =>
             r \notin alive \/ r \in pending \/ del[p].unsure]_vars
  <2>1. ASSUME DestroyInv, NEW p \in Proc, pc[p] = "tombstone",
               NEW r \in del[p].meant, Arn(r) = Target(p)
        PROVE  r \notin alive \/ r \in pending \/ del[p].unsure
    BY <2>1 DEF DestroyInv, AnswerHolds, AtHand, Settled
  <2>2. QED
    BY <2>1
<1>2. QED
  BY <1>1, DestroyInvariant, PTL DEF Spec, TombstoneIsTrue

-----------------------------------------------------------------------------
(* What a command has in sight, and what the tombstones hide. *)

\* What is there, or known by name, is none of what is still to be created, and
\* neither is what its ARN names.
LEMMA MetFacts ==
  ASSUME DestroyInv, SightInv, NEW r \in Resource, r \in alive \/ Named(r)
  PROVE  Met(r) /\ Met(Arn(r))
<1>1. Met(r)
  BY DEF SightInv, DestroyInv, Numbered, NotYet, Met
<1>2. ASSUME Kind[r.run] = "bucket" PROVE Met(Arn(r))
  <2>1. Arn(r).nr = 0
    BY <1>2 DEF Arn, Resource
  <2>2. jobs \in Nat /\ FirstJob + jobs > 0
    BY TypeFacts, Numbers DEF DestroyInv, FirstJob
  <2>3. ASSUME NEW p \in Proc, pc[p] \in Creating PROVE Arn(r) # Mine(p)
    <3>1. Mine(p).nr \in Nr
      BY <2>3 DEF DestroyInv, JobFits, Applying, Mine
    <3>2. QED
      BY <2>1, <3>1 DEF Nr
  <2>4. QED
    BY <2>1, <2>2, <2>3 DEF Met
<1>3. QED
  BY <1>1, <1>2 DEF Arn

\* It stays so as long as nobody begins to apply a plan.
LEMMA MetKept ==
  ASSUME NEW p \in Proc, StepOf(p), UNCHANGED <<job, jobs>>,
         pc'[p] \in Creating => pc[p] \in Creating,
         NEW r, Met(r)
  PROVE  Met(r)'
BY DEF Met, StepOf, Same, Mine

\* A step of p changes nothing of what another command has in sight.
LEMMA SightOfOthers ==
  ASSUME DestroyInv, SightInv, NEW p \in Proc, StepOf(p), NEW q \in Proc \ {p}
  PROVE  Sought(q)' /\ Ranked(q)'
<1>1. ASSUME NEW r PROVE Sighted(q, r)' => Sighted(q, r)
  BY DEF StepOf, Same, Sighted, Target
<1>2. ASSUME NEW r \in alive', Kind[r.run] # "bucket", Sighted(q, r)'
      PROVE  r \in del'[q].meant
  <2>1. Sighted(q, r)
    BY <1>1, <1>2
  <2>2. CASE r \in alive
    BY <1>2, <2>1, <2>2 DEF SightInv, Sought, StepOf, Same
  <2>3. CASE r \notin alive
    <3>1. pc[p] \in Creating /\ r = Mine(p)
      BY <1>2, <2>3 DEF StepOf
    <3>2. Named(r)
      BY <2>1 DEF Sighted, Named
    <3>3. Mine(p) \in Resource
      BY <3>1, Applies DEF DestroyInv, Applying
    <3>4. QED
      BY <3>1, <3>2, <3>3 DEF SightInv, Met
  <2>4. QED
    BY <2>2, <2>3
<1>3. QED
  BY <1>2 DEF SightInv, Sought, Ranked, StepOf, Same, Target, TargetKind

\* The record of a resource is written when it is there.
LEMMA ProvisionRecords ==
  ASSUME TypeOK, NEW p \in Proc, Provision(p)
  PROVE  UNCHANGED records \/ (records' = records \cup {Mine(p)} /\ pc'[p] = "over")
<1>1. pc \in [Proc -> Labels]
  BY TypeFacts
<1> USE DEF rest, world, logs
<1>2. CASE WriteRecord(p)
  BY <1>1, <1>2 DEF WriteRecord, Goto
<1>3. CASE ~WriteRecord(p)
  BY <1>3 DEF Provision, FindAddress, ReleaseOrphans, Allocate, FindKey, CreateKey, WritePem,
     MakePiece, Defaults, Route, Create, Wait, CleanUp, UndoProfile, DeleteKey, Refused
<1>4. QED
  BY <1>2, <1>3

\* What an apply makes nobody has known by name, and nobody else makes it again.
LEMMA ProvisionKeepsSight ==
  ASSUME DestroyInv, SightInv, NEW p \in Proc, Provision(p), UNCHANGED <<del, adrift>>
  PROVE  SightInv'
<1>0. /\ TypeOK /\ OnePlanOnce /\ JobFits(p) /\ DeletionFits(p) /\ NotYet(p)
      /\ jobs \in Nat
  BY TypeFacts, Numbers DEF DestroyInv
<1>1. UNCHANGED <<job, jobs, pending, tombs>> /\ pc[p] \in Applying
  BY ProvisionKeeps
<1>2. /\ pc'[p] \in Applying \cup {"over"} /\ \A q \in Proc \ {p} : pc'[q] = pc[q]
      /\ pc'[p] \in Creating => pc[p] \in Creating /\ UNCHANGED alive
  BY <1>0, ProvisionGoes
<1>3. StepOf(p)
  BY <1>0, <1>1, <1>2, ProvisionWrites, ProvisionAdds DEF StepOf, Same
<1>4. Mine(p) \in Resource /\ Mine(p).run = job[p].run
      /\ Mine(p).nr = job[p].nr /\ job[p].nr < FirstJob + jobs
  BY <1>0, <1>1, Applies DEF JobFits
<1>5. ASSUME NEW r, r = Mine(p), pc'[p] \notin Creating PROVE Met(r)'
  <2>1. ASSUME NEW q \in Proc \ {p}, pc'[q] \in Creating PROVE Mine(p) # Mine(q)
    <3>1. pc[q] \in Applying
      BY <1>2, <2>1 DEF Applying
    <3>2. job[q].run # job[p].run
      BY <1>0, <1>1, <3>1 DEF OnePlanOnce
    <3>3. QED
      BY <3>2 DEF Mine
  <2>2. \A q \in Proc : Mine(q)' = Mine(q)
    BY <1>1 DEF Mine
  <2>3. QED
    BY <1>1, <1>4, <1>5, <2>1, <2>2 DEF Met
<1>6. ASSUME NEW r \in Resource, Named(r)' PROVE Met(r)'
  <2>1. CASE Named(r)
    BY <1>1, <1>2, <1>3, <2>1, MetKept DEF SightInv
  <2>2. CASE ~Named(r)
    <3>1. r \in shown' \cup records' /\ r \notin shown \cup records
      BY <1>1, <1>6, <2>2 DEF Named, Target
    <3>2. r = Mine(p)
      BY <1>0, <3>1, ProvisionAdds, ProvisionRecords
    <3>3. pc'[p] \notin Creating
      <4>1. CASE r \notin shown /\ r \in shown'
        <5>1. pc[p] \in Creating /\ alive' = alive \cup {Mine(p)}
          BY <4>1, ProvisionAdds
        <5>2. Mine(p) \notin alive
          BY <1>0, <5>1 DEF NotYet
        <5>3. QED
          BY <1>2, <5>1, <5>2
      <4>2. CASE r \notin records /\ r \in records'
        BY <1>0, <4>2, ProvisionRecords DEF Creating, ForAddress
      <4>3. QED
        BY <3>1, <4>1, <4>2
    <3>4. QED
      BY <1>5, <3>2, <3>3
  <2>3. QED
    BY <2>1, <2>2
<1>7. Sought(p)' /\ Ranked(p)'
  <2>1. del[p].plan = {} /\ pc'[p] \notin Deleting \cup {"tombstone", "cascade"}
    BY <1>0, <1>1, <1>2 DEF JobFits, DeletionFits, Applying, Creating, ForAddress, Deleting,
       Preparing
  <2>2. QED
    BY <2>1 DEF Sought, Sighted, Ranked, Deleting, Preparing
<1>8. OnlyKeysWait'
  BY <1>1, <1>2 DEF SightInv, OnlyKeysWait, TargetKind, Target, Applying, Creating, ForAddress
<1>9. TombstoneHides'
  <2>1. ASSUME NEW r \in alive', Arn(r) \in tombs, Kind[r.run] # "bucket", r \notin alive
        PROVE  FALSE
    <3>1. pc[p] \in Creating /\ r = Mine(p)
      BY <1>3, <2>1 DEF StepOf
    <3>2. Named(r)
      BY <2>1 DEF Arn, Named
    <3>3. QED
      BY <1>4, <3>1, <3>2 DEF SightInv, Met
  <2>2. QED
    BY <1>1, <2>1 DEF SightInv, TombstoneHides
<1>10. \A q \in Proc : Sought(q)' /\ Ranked(q)'
  BY <1>3, <1>7, SightOfOthers
<1>11. QED
  BY <1>6, <1>8, <1>9, <1>10 DEF SightInv

\* The names a command has are taken from the listing, and from its own plan.
LEMMA DestroyNames ==
  ASSUME TypeOK, NEW p \in Proc, DestroyStep(p)
  PROVE  /\ \A r \in del'[p].plan : r \in del[p].plan \/ \E s \in shown : r = Arn(s)
         /\ del'[p].target \in {del[p].target} \cup del[p].plan
         /\ tombs' \subseteq tombs \cup {Target(p)}
<1>0. del \in [Proc -> Deletion] /\ del[p] \in Deletion
  BY TypeFacts
<1> USE <1>0 DEF world, elsewhere, Deletion
<1>1. CASE Enumerate(p)
  BY <1>1 DEF Enumerate, Plan
<1>2. CASE NextTarget(p)
  <2>1. CASE UNCHANGED del
    BY <1>2, <2>1 DEF NextTarget
  <2>2. ASSUME NEW a \in del[p].plan,
               del' = [del EXCEPT ![p].target = a, ![p].plan = @ \ {a},
                                  ![p].request = None, ![p].polls = 0]
        PROVE  del'[p].target = a /\ del'[p].plan = del[p].plan \ {a}
    BY <2>2
  <2>3. UNCHANGED tombs
    BY <1>2 DEF NextTarget
  <2>4. QED
    BY <1>2, <2>1, <2>2, <2>3 DEF NextTarget
<1>3. CASE Confirm(p) \/ Resolve(p) \/ Disable(p) \/ Schedule(p) \/ Hook(p) \/ Recheck(p)
  BY <1>3 DEF Confirm, Resolve, Disable, Schedule, Hook, Recheck
<1>4. CASE Delete(p) \/ Poll(p) \/ PollsExhausted(p) \/ Classify(p)
  BY <1>4 DEF Delete, Poll, PollsExhausted, Classify
<1>5. CASE Tombstone(p)
  BY <1>5 DEF Tombstone
<1>6. CASE Cascade(p)
  BY <1>6 DEF Cascade, logs
<1>7. QED
  BY <1>1, <1>2, <1>3, <1>4, <1>5, <1>6 DEF DestroyStep

\* What a command has in sight it means, and it goes by the ranks.
LEMMA DestroySeeks ==
  ASSUME DestroyInv, SightInv, NEW p \in Proc, DestroyStep(p)
  PROVE  Sought(p)' /\ Ranked(p)'
<1>0. /\ TypeOK /\ JobFits(p) /\ DeletionFits(p) /\ Sought(p) /\ Ranked(p)
      /\ del \in [Proc -> Deletion] /\ del[p] \in Deletion /\ pc \in [Proc -> Labels]
  BY TypeFacts DEF DestroyInv, SightInv
<1>1. UNCHANGED <<job, alive>>
  BY DestroyKeeps
<1> DEFINE Gone == pc'[p] \in Sweeping \cup {"over"}
<1>2. Gone => pc'[p] \notin Deleting \cup {"tombstone", "cascade"}
  BY DEF Sweeping, Deleting, Preparing
<1>3. CASE Gone /\ del'[p].plan = del[p].plan /\ del'[p].meant = del[p].meant
  BY <1>0, <1>1, <1>2, <1>3 DEF Sought, Sighted, Ranked, Deleting, Preparing
<1>4. CASE Enumerate(p)
  <2>1. CASE UNCHANGED del /\ Goto(p, "over")
    BY <1>0, <1>3, <2>1 DEF Goto
  <2>2. ASSUME NEW arns, Plan(p, arns) PROVE Sought(p)' /\ Ranked(p)'
    <3>1. pc'[p] = "confirm" /\ del'[p].plan = arns
          /\ del'[p].meant = {r \in alive : Arn(r) \in arns}
      BY <1>0, <2>2 DEF Plan, Goto, Deletion
    <3>2. QED
      BY <1>1, <3>1 DEF Sought, Sighted, Ranked, Arn, Deleting, Preparing
  <2>3. QED
    BY <1>4, <2>1, <2>2 DEF Enumerate
<1>5. CASE Confirm(p)
  <2>1. CASE del' = [del EXCEPT ![p].plan = {}, ![p].meant = {}] /\ Goto(p, "over")
    <3>1. del'[p].plan = {} /\ pc'[p] = "over"
      BY <1>0, <2>1 DEF Goto, Deletion
    <3>2. QED
      BY <1>1, <1>2, <3>1 DEF Sought, Sighted, Ranked, Sweeping, Deleting, Preparing
  <2>2. QED
    BY <1>0, <1>3, <1>5, <2>1 DEF Confirm, Goto, Sweeping
<1>6. CASE NextTarget(p)
  <2>1. CASE UNCHANGED del /\ Goto(p, "over")
    BY <1>0, <1>3, <2>1 DEF Goto
  <2>2. ASSUME NEW a \in del[p].plan,
               \A b \in del[p].plan : Rank[Kind[a.run]] <= Rank[Kind[b.run]],
               del' = [del EXCEPT ![p].target = a, ![p].plan = @ \ {a},
                                  ![p].request = None, ![p].polls = 0],
               Goto(p, "resolve")
        PROVE  Sought(p)' /\ Ranked(p)'
    <3>1. /\ del'[p].target = a /\ del'[p].plan = del[p].plan \ {a}
          /\ del'[p].meant = del[p].meant
      BY <1>0, <2>2 DEF Deletion
    <3>2. ASSUME NEW r, Sighted(p, r)' PROVE Sighted(p, r)
      BY <2>2, <3>1, <3>2 DEF Sighted, Target
    <3>3. QED
      BY <1>0, <1>1, <2>2, <3>1, <3>2 DEF Sought, Ranked, Target, TargetKind
  <2>3. QED
    BY <1>6, <2>1, <2>2 DEF NextTarget
<1>7. CASE Resolve(p)
  <2>1. CASE UNCHANGED del /\ GiveUp(p)
    BY <1>0, <1>3, <2>1 DEF GiveUp, After, Goto, Sweeping
  <2>2. CASE job[p].op = "sweep" /\ UNCHANGED del /\ pc'[p] \in {"disable", "hook"}
    <3>1. ASSUME NEW r, Sighted(p, r)' PROVE Sighted(p, r)
      BY <1>1, <1>7, <2>2, <3>1 DEF Sighted, Target, Resolve
    <3>2. QED
      BY <1>0, <1>1, <1>7, <2>2, <3>1
         DEF Sought, Ranked, Target, TargetKind, Resolve, Deleting, Preparing
  <2>3. CASE /\ job[p].op # "sweep" /\ pc'[p] \in {"disable", "hook"}
             /\ del' = [del EXCEPT ![p].meant = {r \in alive : Arn(r) = Target(p)}]
    <3>1. del'[p].plan = {} /\ Target(p)' = Target(p)
          /\ del'[p].meant = {r \in alive : Arn(r) = Target(p)}
      BY <1>0, <2>3 DEF Deletion, DeletionFits, Target
    <3>2. QED
      BY <1>1, <3>1 DEF Sought, Sighted, Ranked, Arn
  <2>4. QED
    BY <1>0, <1>7, <2>1, <2>2, <2>3 DEF Resolve, Goto
<1>8. CASE /\ del'[p].plan = del[p].plan /\ del'[p].meant = del[p].meant
           /\ del'[p].target = del[p].target
           /\ pc[p] \in (Deleting \ {"resolve"}) \cup {"tombstone", "cascade"}
           /\ pc'[p] # "resolve" /\ (pc[p] = "cascade" => pc'[p] \in Sweeping \cup {"over", "cascade"})
  <2>1. ASSUME NEW r, Sighted(p, r)' PROVE Sighted(p, r)
    BY <1>1, <1>8, <2>1 DEF Sighted, Target, Sweeping, Deleting, Preparing
  <2>2. QED
    BY <1>0, <1>1, <1>8, <2>1 DEF Sought, Ranked, Target, TargetKind
<1>9. CASE Disable(p) \/ Schedule(p) \/ Hook(p) \/ Recheck(p)
  BY <1>0, <1>8, <1>9
     DEF Disable, Schedule, Hook, Recheck, Goto, Succeed, GiveUp, After, Deleting, Preparing
<1>10. CASE Delete(p) \/ Poll(p) \/ PollsExhausted(p) \/ Classify(p)
  <2>1. /\ del'[p].plan = del[p].plan /\ del'[p].meant = del[p].meant
        /\ del'[p].target = del[p].target
    BY <1>0, <1>10 DEF Delete, Poll, PollsExhausted, Classify, Deletion
  <2>2. pc[p] \in {"delete", "poll", "classify"} /\ pc'[p] # "resolve"
    BY <1>0, <1>10 DEF Delete, Poll, PollsExhausted, TimedOut, Classify, Goto, GiveUp, After
  <2>3. QED
    BY <1>8, <2>1, <2>2 DEF Deleting, Preparing
<1>11. CASE Tombstone(p)
  <2>1. UNCHANGED del /\ pc[p] = "tombstone"
    BY <1>11 DEF Tombstone
  <2>2. pc'[p] # "resolve"
    BY <1>0, <1>11 DEF Tombstone, Goto, Succeed, GiveUp, After
  <2>3. QED
    BY <1>8, <2>1, <2>2
<1>12. CASE Cascade(p)
  <2>1. UNCHANGED del /\ pc[p] = "cascade"
    BY <1>12 DEF Cascade
  <2>2. pc'[p] \in {"next", "over", "cascade"}
    <3>1. \E label \in {"next", "over", "cascade"} : Goto(p, label)
      BY <1>12, <2>1 DEF Cascade, Teardown, After
    <3>2. QED
      BY <1>0, <3>1 DEF Goto
  <2>3. QED
    BY <1>8, <2>1, <2>2 DEF Sweeping
<1>13. QED
  BY <1>4, <1>5, <1>6, <1>7, <1>9, <1>10, <1>11, <1>12 DEF DestroyStep

\* What has a tombstone is gone or scheduled, for what was in sight was meant.
LEMMA DestroyKeepsSight ==
  ASSUME DestroyInv, SightInv, NEW p \in Proc, DestroyStep(p), UNCHANGED attempt
  PROVE  SightInv'
<1>0. /\ TypeOK /\ DeletionFits(p) /\ AnswerHolds(p) /\ jobs \in Nat
      /\ pc \in [Proc -> Labels] /\ alive \subseteq Resource /\ shown \subseteq Resource
  BY TypeFacts, Numbers DEF DestroyInv
<1>1. Destroys(p) /\ UNCHANGED records
  BY <1>0, DestroyFacts, DestroyKeeps
<1>2. StepOf(p)
  BY <1>0, <1>1, DestroyMeans DEF StepOf, Destroys, Same, DestroyStep
<1>3. pc'[p] \notin Creating
  BY <1>1 DEF Destroys, Creating, ForAddress, Sweeping, Deleting, Preparing
<1>4. ASSUME NEW r \in Resource, Named(r)' PROVE Met(r)'
  <2>1. Met(r)
    <3>1. CASE Named(r)
      BY <3>1 DEF SightInv
    <3>2. CASE ~Named(r)
      <4>1. PICK s \in shown : r = Arn(s)
        BY <1>0, <1>1, <1>4, <3>2, DestroyNames DEF Named, Target, Destroys
      <4>2. QED
        BY <1>0, <4>1, MetFacts DEF Named
    <3>3. QED
      BY <3>1, <3>2
  <2>2. QED
    BY <1>1, <1>2, <1>3, <2>1, MetKept DEF Destroys
<1>5. \A q \in Proc : Sought(q)' /\ Ranked(q)'
  BY <1>2, DestroySeeks, SightOfOthers
<1>6. OnlyKeysWait'
  <2>1. \A r \in pending' : r \in pending \/ (r.run = Target(p).run /\ pc[p] = "schedule")
    <3>1. CASE Schedule(p)
      <4>1. ASSUME NEW r \in Living(Target(p)) PROVE r.run = Target(p).run
        BY <1>0, <4>1, ArnIsResource DEF Living
      <4>2. QED
        BY <3>1, <4>1 DEF Schedule
    <3>2. CASE ~Schedule(p)
      BY <3>2 DEF DestroyStep, Enumerate, Confirm, NextTarget, Resolve, Disable, Hook, Recheck,
         Delete, Poll, PollsExhausted, Classify, Tombstone, Cascade, world
    <3>3. QED
      BY <3>1, <3>2
  <2>2. pc'[p] \in {"disable", "schedule"} => TargetKind(p)' = "cmk"
    <3>1. CASE Resolve(p)
      <4>1. Target(p)' = Target(p)
        BY <1>1, <3>1 DEF Resolve, Destroys, Deletion, Target
      <4>2. QED
        BY <1>0, <3>1, <4>1 DEF Resolve, Goto, GiveUp, After, TargetKind
    <3>2. CASE Disable(p)
      BY <1>0, <3>2 DEF Disable, TargetKind, Target, SightInv, OnlyKeysWait
    <3>3. CASE ~Resolve(p) /\ ~Disable(p)
      <4>1. pc'[p] \notin {"disable", "schedule"}
        BY <1>0, <3>3 DEF DestroyStep, Enumerate, Plan, Confirm, NextTarget, Schedule, Hook,
           Recheck, Delete, Poll, PollsExhausted, TimedOut, Classify, Tombstone, Cascade,
           Teardown, Goto, Succeed, GiveUp, After
      <4>2. QED
        BY <4>1
    <3>4. QED
      BY <3>1, <3>2, <3>3
  <2>3. QED
    BY <1>1, <2>1, <2>2 DEF SightInv, OnlyKeysWait, Destroys, TargetKind, Target
<1>7. TombstoneHides'
  <2>1. SUFFICES ASSUME NEW r \in alive, Arn(r) \in tombs', Arn(r) \notin tombs,
                        Kind[r.run] # "bucket"
                 PROVE  r \in pending \/ r.run \in Foreign
    BY <1>1 DEF SightInv, TombstoneHides, Destroys
  <2>2. r = Target(p) /\ Arn(r) = r
    BY <1>0, <2>1, DestroyNames DEF Arn
  <2>3. pc[p] = "tombstone"
    BY <2>1 DEF DestroyStep, Enumerate, Confirm, NextTarget, Resolve, Disable, Schedule, Hook,
       Recheck, Delete, Poll, PollsExhausted, Classify, Tombstone, Cascade, logs
  <2>4. r \in del[p].meant
    BY <2>1, <2>2, <2>3 DEF SightInv, Sought, Sighted
  <2>5. QED
    BY <1>0, <2>1, <2>2, <2>3, <2>4 DEF AnswerHolds, AtHand, Settled
<1>8. QED
  BY <1>4, <1>5, <1>6, <1>7 DEF SightInv

\* AWS takes away, and schedules for deletion only keys.
LEMMA OutcomeSight ==
  ASSUME TypeOK, NEW a \in Resource, NEW result, Outcome(a, result)
  PROVE  /\ alive' \subseteq alive /\ shown' = shown /\ pending \subseteq pending'
         /\ \A r \in pending' : r \in pending \/ Kind[r.run] = "cmk"
<1>1. alive' \subseteq alive /\ shown' = shown /\ pending \subseteq pending'
  BY OutcomeTypes
<1>2. ASSUME NEW r \in Living(a), Kind[a.run] = "cmk" PROVE Kind[r.run] = "cmk"
  BY <1>2, TypeFacts, ArnIsResource DEF Living
<1>3. UNCHANGED pending \/ (Kind[a.run] = "cmk" /\ pending' = pending \cup Living(a))
  BY DEF Outcome, Vanish, world
<1>4. QED
  BY <1>1, <1>2, <1>3

\* What AWS does leaves every command what it has in sight.
LEMMA AwsKeepsSight ==
  ASSUME DestroyInv, SightInv, UNCHANGED <<pc, job, jobs, records, tombs>>,
         alive' \subseteq alive, shown' \subseteq shown, pending \subseteq pending',
         \A r \in pending' : r \in pending \/ Kind[r.run] = "cmk",
         \A q \in Proc : /\ del'[q].target = del[q].target /\ del'[q].plan = del[q].plan
                         /\ del'[q].meant = del[q].meant
  PROVE  SightInv'
<1>1. ASSUME NEW r \in Resource, Named(r)' PROVE Met(r)'
  BY <1>1 DEF SightInv, Named, Met, Mine, Target
<1>2. ASSUME NEW q \in Proc PROVE Sought(q)' /\ Ranked(q)'
  BY DEF SightInv, Sought, Sighted, Ranked, Target, TargetKind
<1>3. OnlyKeysWait' /\ TombstoneHides'
  BY DEF SightInv, OnlyKeysWait, TombstoneHides, Target, TargetKind
<1>4. QED
  BY <1>1, <1>2, <1>3 DEF SightInv

LEMMA WorldKeepsSight ==
  ASSUME DestroyInv, SightInv,
         \/ \E p \in Proc : Settle(p) /\ UNCHANGED attempt
         \/ \E a \in adrift : SettleAdrift(a) /\ UNCHANGED attempt
         \/ IndexForgets
         \/ \E r \in shown : LoseTag(r)
         \/ UNCHANGED vars
  PROVE  SightInv'
<1>0. TypeOK /\ adrift \subseteq Resource /\ del \in [Proc -> Deletion]
  BY TypeFacts DEF DestroyInv
<1>1. ASSUME NEW p \in Proc, Settle(p) PROVE SightInv'
  <2>1. PICK result \in Answer :
          Outcome(Target(p), result) /\ del' = [del EXCEPT ![p].request = result]
    BY <1>1 DEF Settle
  <2>2. Target(p) \in Resource
    BY <1>1 DEF DestroyInv, DeletionFits, Settle, Deleting
  <2>3. \A q \in Proc : /\ del'[q].target = del[q].target /\ del'[q].plan = del[q].plan
                        /\ del'[q].meant = del[q].meant
    BY <1>0, <2>1 DEF Deletion
  <2>4. UNCHANGED <<pc, job, jobs, records, tombs>>
    BY <1>1 DEF Settle, logs, frame
  <2>5. QED
    BY <1>0, <2>1, <2>2, <2>3, <2>4, OutcomeSight, AwsKeepsSight
<1>2. ASSUME NEW a \in adrift, SettleAdrift(a) PROVE SightInv'
  <2>1. PICK result \in Answer : Outcome(a, result)
    BY <1>2 DEF SettleAdrift
  <2>2. UNCHANGED <<pc, job, jobs, records, tombs, del>>
    BY <1>2 DEF SettleAdrift, logs, frame
  <2>3. QED
    BY <1>0, <2>1, <2>2, OutcomeSight, AwsKeepsSight
<1>3. CASE IndexForgets \/ \E r \in shown : LoseTag(r)
  <2>1. /\ UNCHANGED <<pc, job, jobs, records, tombs, del, alive, pending>>
        /\ shown' \subseteq shown
    BY <1>3 DEF IndexForgets, LoseTag, logs, frame
  <2>2. QED
    BY <2>1, AwsKeepsSight
<1>4. CASE UNCHANGED vars
  BY <1>4, AwsKeepsSight DEF vars
<1>5. QED
  BY <1>1, <1>2, <1>3, <1>4

\* A command that has returned has nothing in sight.
LEMMA EndKeepsSight ==
  ASSUME DestroyInv, SightInv, NEW p \in Proc, End(p)
  PROVE  SightInv'
<1>0. /\ TypeOK /\ jobs \in Nat /\ pc \in [Proc -> Labels] /\ alive \subseteq Resource
      /\ del \in [Proc -> Deletion] /\ job \in [Proc -> Job \cup {None}]
  BY TypeFacts, Numbers DEF DestroyInv
<1>1. /\ pc'[p] = "idle" /\ del'[p] = NoDeletion
      /\ \A q \in Proc \ {p} : Same(q)
      /\ UNCHANGED <<alive, shown, pending, jobs, records, tombs>>
  BY <1>0, TypeFacts DEF End, Goto, Same, world, logs
<1>2. StepOf(p)
  BY <1>0, <1>1 DEF StepOf, NoDeletion
<1>3. NoDeletion.plan = {} /\ NoDeletion.target = None /\ None \notin Resource
  BY NoValueAssumption DEF NoDeletion
<1>4. pc'[p] \notin Creating \cup Deleting \cup {"tombstone", "cascade"}
  BY <1>1 DEF Creating, ForAddress, Deleting, Preparing
<1>5. ASSUME NEW r \in Resource, Named(r)' PROVE Met(r)'
  <2>1. Named(r)
    BY <1>1, <1>3, <1>5 DEF Named, Target, Same
  <2>2. QED
    BY <1>1, <1>4, <2>1 DEF SightInv, Met, Same, Mine
<1>6. Sought(p)' /\ Ranked(p)'
  BY <1>0, <1>1, <1>3, <1>4 DEF Sought, Sighted, Ranked, Target, Deleting, Preparing
<1>7. \A q \in Proc : Sought(q)' /\ Ranked(q)'
  BY <1>2, <1>6, SightOfOthers
<1>8. OnlyKeysWait' /\ TombstoneHides'
  BY <1>1 DEF SightInv, OnlyKeysWait, TombstoneHides, Same, Target, TargetKind
<1>9. QED
  BY <1>5, <1>7, <1>8 DEF SightInv

\* A new apply takes a number that nothing has; what a destroy is asked for is
\* there, or known by name.
LEMMA BeginKeepsSight ==
  ASSUME DestroyInv, SightInv, NEW p \in Proc, NEW c \in Command,
         BeginApply(p, c) \/ BeginDestroy(p, c) \/ BeginSweep(p, c)
  PROVE  SightInv'
<1>0. /\ TypeOK /\ jobs \in Nat /\ alive \subseteq Resource /\ shown \subseteq Resource
      /\ records \subseteq Resource /\ del \in [Proc -> Deletion]
  BY TypeFacts, Numbers DEF DestroyInv
<1>1. Start(p, c)
  BY <1>0, BeginFacts
<1>2. /\ pc[p] = "idle" /\ jobs' = jobs + 1
      /\ job'[p] # None /\ job'[p].op = c.op /\ job'[p].run = c.run
      /\ c.op = "apply" => job'[p].nr = FirstJob + jobs
      /\ UNCHANGED <<alive, shown, pending, failed, records, tombs>>
  BY <1>0, <1>1, StartFacts DEF world, logs
<1>3. \A q \in Proc \ {p} : Same(q)
  BY <1>0, <1>1, <1>2, BeginFacts, StartFacts DEF Same
<1>4. del[p] = NoDeletion /\ NoDeletion.plan = {} /\ NoDeletion.target = None
      /\ NoDeletion.meant = {} /\ None \notin Resource
  BY <1>2, NoValueAssumption DEF DestroyInv, DeletionFits, NoDeletion
<1>5. ASSUME NEW r \in Resource, Met(r) PROVE Met(r)'
  <2>1. r.nr \in Nat /\ r.nr < FirstJob + jobs /\ FirstJob \in Nat
    BY <1>5, Numbers DEF Met, Resource, Nr
  <2>2. r.nr < FirstJob + jobs'
    BY <1>0, <1>2, <2>1
  <2>3. ASSUME pc'[p] \in Creating PROVE r # Mine(p)'
    <3>0. c.op # "apply" => pc'[p] \in {"resolve", "enumerate"}
      BY <1>0, BeginFacts
    <3>1. c.op = "apply"
      BY <2>3, <3>0 DEF Creating, ForAddress
    <3>2. Mine(p)'.nr = FirstJob + jobs
      BY <1>2, <3>1 DEF Mine
    <3>3. QED
      BY <1>0, <2>1, <3>2
  <2>4. \A q \in Proc \ {p} : pc'[q] \in Creating => r # Mine(q)'
    BY <1>3, <1>5 DEF Met, Same, Mine
  <2>5. QED
    BY <2>2, <2>3, <2>4 DEF Met
<1>6. /\ del'[p].plan = {} /\ del'[p].meant = {}
      /\ \/ del'[p].target = None
         \/ \E r \in alive \cup shown \cup records : del'[p].target = Arn(r) /\ c.op # "sweep"
  <2>1. CASE BeginApply(p, c) \/ BeginSweep(p, c)
    BY <1>4, <2>1 DEF BeginApply, BeginSweep
  <2>2. CASE BeginDestroy(p, c)
    <3>1. PICK a \in Nameable(c.run) : del' = [del EXCEPT ![p].target = a]
      BY <2>2 DEF BeginDestroy
    <3>2. del'[p].plan = {} /\ del'[p].meant = {} /\ del'[p].target = a
      BY <1>0, <1>4, <3>1 DEF Deletion
    <3>3. \E r \in alive \cup shown \cup records : a = Arn(r)
      BY DEF Nameable
    <3>4. QED
      BY <2>2, <3>2, <3>3 DEF BeginDestroy
  <2>3. QED
    BY <2>1, <2>2
<1>7. StepOf(p)
  BY <1>0, <1>2, <1>3, <1>6 DEF StepOf
<1>8. ASSUME NEW r \in Resource, Named(r)' PROVE Met(r)'
  <2>1. CASE Named(r)
    BY <1>5, <2>1 DEF SightInv
  <2>2. CASE ~Named(r)
    <3>1. r = del'[p].target
      BY <1>2, <1>3, <1>6, <1>8, <2>2 DEF Named, Target, Same
    <3>2. PICK s \in alive \cup shown \cup records : r = Arn(s)
      BY <1>4, <1>6, <3>1
    <3>3. Met(Arn(s))
      BY <1>0, MetFacts DEF Named
    <3>4. QED
      BY <1>5, <3>2, <3>3
  <2>3. QED
    BY <2>1, <2>2
<1>9. Sought(p)' /\ Ranked(p)'
  <2>1. pc'[p] = "resolve" \/ pc'[p] \notin Deleting \cup {"tombstone"}
    BY <1>0, BeginFacts DEF Creating, ForAddress, Deleting, Preparing
  <2>2. ASSUME NEW r \in alive' PROVE ~Sighted(p, r)'
    BY <1>0, <1>2, <1>4, <1>6, <2>1 DEF Sighted, Target, Deleting, Preparing
  <2>3. QED
    BY <1>6, <2>2 DEF Sought, Ranked
<1>10. \A q \in Proc : Sought(q)' /\ Ranked(q)'
  BY <1>7, <1>9, SightOfOthers
<1>11. OnlyKeysWait' /\ TombstoneHides'
  <2>1. pc'[p] \notin {"disable", "schedule"}
    BY <1>0, BeginFacts DEF Creating, ForAddress
  <2>2. QED
    BY <1>2, <1>3, <2>1 DEF SightInv, OnlyKeysWait, TombstoneHides, Same, Target, TargetKind
<1>12. QED
  BY <1>8, <1>10, <1>11 DEF SightInv

LEMMA SightInit ==
  ASSUME Init
  PROVE  SightInv
<1>1. PICK w \in World : shown = w.shown /\ records = w.records
  BY WorldsAssumption DEF Init
<1>2. shown \subseteq Old /\ records \subseteq Old
  BY <1>1 DEF World
<1>3. /\ tombs = {} /\ pending = {} /\ jobs = 0
      /\ \A p \in Proc : pc[p] = "idle" /\ del[p].plan = {} /\ del[p].target = None
  BY DEF Init, NoDeletion
<1>4. \A p \in Proc : pc[p] \notin Creating \cup Deleting \cup {"tombstone", "cascade"}
  BY <1>3 DEF Creating, ForAddress, Deleting, Preparing
<1>5. ASSUME NEW r \in Resource, Named(r) PROVE Met(r)
  <2>1. r \in Old
    BY <1>2, <1>3, <1>5, NoValueAssumption DEF Named, Target
  <2>2. r.nr < FirstJob + jobs
    BY <1>3, <2>1 DEF Old, FirstJob
  <2>3. QED
    BY <1>4, <2>2 DEF Met
<1>6. ASSUME NEW p \in Proc PROVE Sought(p) /\ Ranked(p)
  BY <1>3, <1>4 DEF Sought, Sighted, Ranked
<1>7. OnlyKeysWait /\ TombstoneHides
  BY <1>3 DEF OnlyKeysWait, TombstoneHides
<1>8. QED
  BY <1>5, <1>6, <1>7 DEF SightInv

LEMMA SightStep ==
  ASSUME DestroyInv, SightInv, [Next]_vars
  PROVE  SightInv'
<1>1. ASSUME NEW p \in Proc, NEW c \in Commands[p],
             BeginApply(p, c) \/ BeginDestroy(p, c) \/ BeginSweep(p, c)
      PROVE  SightInv'
  BY <1>1, BeginKeepsSight, CommandsAssumption
<1>2. ASSUME NEW p \in Proc, Step(p) PROVE SightInv'
  BY <1>2, ProvisionKeepsSight, DestroyKeepsSight, EndKeepsSight DEF Step
<1>3. QED
  BY <1>1, <1>2, WorldKeepsSight DEF Next

\* SightInv for every operator's account: what a command has in sight it means,
\* nothing that is still to be created is known by name, and what a tombstone
\* hides is gone, scheduled, elsewhere or a bucket that was created again.
THEOREM SightInvariant == Spec => []SightInv
<1>1. Init => SightInv
  BY SightInit
<1>2. DestroyInv /\ SightInv /\ [Next]_vars => SightInv'
  BY SightStep
<1>3. QED
  BY <1>1, <1>2, DestroyInvariant, PTL DEF Spec

\* What hides a resource that is there and tagged is that its kind can come
\* back, or linger: no other kind is ever missing from the listing.
THEOREM LiveIsListedUnlessReborn ==
  ASSUME \A run \in Run : Kind[run] \notin {"bucket", "cmk"}
  PROVE  Spec => []LiveIsListed
<1>1. ASSUME DestroyInv, SightInv, NEW r \in alive \cap shown, Arn(r) \in tombs
      PROVE  FALSE
  <2>1. r.run \in Run /\ r.run \notin Foreign
    BY <1>1, TypeFacts DEF DestroyInv, ListedIsOurs, Resource
  <2>2. r \in pending
    BY <1>1, <2>1 DEF SightInv, TombstoneHides
  <2>3. QED
    BY <1>1, <2>1, <2>2 DEF SightInv, OnlyKeysWait
<1>2. DestroyInv /\ SightInv => LiveIsListed
  BY <1>1 DEF LiveIsListed
<1>3. QED
  BY <1>2, DestroyInvariant, SightInvariant, PTL

\* A sweep deletes nothing that another resource it has still to delete keeps,
\* if only the ranks put every holder before what it holds: the sort, and the
\* loop, are right for any ranks.
THEOREM SweepsGoByTheRanks ==
  ASSUME \A run \in Run : Rank[Kind[run]] \in Nat,
         \A run \in Run : \A h \in Holders[run] \cap Run :
           Rank[Kind[h]] < Rank[Kind[run]]
  PROVE  Spec => []HoldersFirst
<1>1. ASSUME DestroyInv, SightInv, NEW p \in Proc, del[p].request = "open",
             NEW b \in del[p].plan
      PROVE  b.run \notin Holders[Target(p).run]
  <2>1. pc[p] \in Deleting
    BY <1>1 DEF DestroyInv, DeletionFits, Deleting
  <2>2. Target(p).run \in Run /\ b.run \in Run
    BY <1>1, <2>1, TypeFacts DEF DestroyInv, DeletionFits, Deletion, Resource
  <2>3. Rank[TargetKind(p)] <= Rank[Kind[b.run]]
    BY <1>1, <2>1 DEF SightInv, Ranked
  <2>4. QED
    BY <2>2, <2>3 DEF TargetKind
<1>2. DestroyInv /\ SightInv => HoldersFirst
  BY <1>1 DEF HoldersFirst
<1>3. QED
  BY <1>2, DestroyInvariant, SightInvariant, PTL

-----------------------------------------------------------------------------
(* The key pair. *)

\* The key pair of the account is the one on the operator's disk.
KeyHeld ==
  /\ key # 0 /\ pem = key
  /\ \A i \in Nr : keyOf[i] \in {0, key}
  /\ \A p \in Proc : ~attempt[p].keyMade
  /\ \A r \in alive : r.nr \in Nr

LEMMA KeyStep ==
  ASSUME DestroyInv, KeyHeld, [Next]_vars
  PROVE  KeyHeld'
<1>0. /\ TypeOK /\ attempt \in [Proc -> Attempt] /\ keyOf \in [Nr -> {0} \cup Nr]
      /\ \A p \in Proc : JobFits(p)
  BY TypeFacts DEF DestroyInv
<1> DEFINE Idle == UNCHANGED keys /\ alive' \subseteq alive
                  /\ \A q \in Proc : attempt'[q].keyMade => attempt[q].keyMade
<1>1. CASE Idle
  BY <1>1 DEF KeyHeld, keys
<1>2. ASSUME NEW p \in Proc, NEW c \in Commands[p],
             BeginApply(p, c) \/ BeginDestroy(p, c) \/ BeginSweep(p, c)
      PROVE  KeyHeld'
  <2>1. UNCHANGED <<keys, alive>>
    BY <1>2 DEF BeginApply, BeginDestroy, BeginSweep, Start, world
  <2>2. UNCHANGED attempt \/ \E kind, found : attempt' = [attempt EXCEPT ![p] = Fresh(kind, found)]
    BY <1>2 DEF BeginApply, BeginDestroy, BeginSweep
  <2>3. \A q \in Proc : attempt'[q].keyMade => attempt[q].keyMade
    BY <1>0, <2>2 DEF Fresh
  <2>4. QED
    BY <1>1, <2>1, <2>3
<1>3. ASSUME NEW p \in Proc, Provision(p) PROVE KeyHeld'
  <2>1. \A q \in Proc : attempt'[q].keyMade => attempt[q].keyMade
    <3>1. CASE CreateKey(p)
      BY <1>0, <3>1 DEF CreateKey, Strip, KeyHeld, Attempt
    <3>2. CASE FindAddress(p) \/ Allocate(p)
      BY <1>0, <3>2 DEF FindAddress, Allocate, Attempt
    <3>3. CASE WritePem(p) \/ MakePiece(p)
      BY <1>0, <3>3 DEF WritePem, Strip, MakePiece, Attempt
    <3>4. CASE ReleaseOrphans(p) \/ FindKey(p) \/ Defaults(p) \/ Route(p) \/ Create(p) \/ Wait(p)
               \/ WriteRecord(p) \/ CleanUp(p) \/ UndoProfile(p) \/ DeleteKey(p) \/ Refused(p)
      BY <3>4 DEF ReleaseOrphans, FindKey, Defaults, Route, Create, Wait, WriteRecord, CleanUp,
         UndoProfile, DeleteKey, Refused
    <3>5. QED
      BY <1>3, <3>1, <3>2, <3>3, <3>4 DEF Provision
  <2>2. key' = key /\ pem' = pem
    BY <1>3 DEF Provision, FindAddress, ReleaseOrphans, Allocate, FindKey, CreateKey, WritePem,
       MakePiece, Defaults, Route, Create, Wait, WriteRecord, CleanUp, UndoProfile, DeleteKey,
       Refused, rest, keys, KeyHeld
  <2>3. \/ UNCHANGED keyOf
        \/ keyOf' = [keyOf EXCEPT ![job[p].nr] = IF attempt[p].keyName THEN key ELSE 0]
    BY <1>3 DEF Provision, FindAddress, ReleaseOrphans, Allocate, FindKey, CreateKey, WritePem,
       MakePiece, Defaults, Route, Create, Wait, WriteRecord, CleanUp, UndoProfile, DeleteKey,
       Refused, rest, keys, Appears
  <2>4. \A i \in Nr : keyOf'[i] \in {0, key}
    BY <1>0, <2>3 DEF KeyHeld
  <2>5. \A r \in alive' : r.nr \in Nr
    BY <1>0, <1>3, ProvisionAdds, ProvisionKeeps DEF KeyHeld, JobFits, Mine
  <2>6. QED
    BY <2>1, <2>2, <2>4, <2>5 DEF KeyHeld
<1>4. ASSUME NEW p \in Proc, DestroyStep(p), UNCHANGED attempt PROVE KeyHeld'
  BY <1>1, <1>4, DestroyKeeps DEF keys
<1>5. ASSUME NEW p \in Proc, End(p) PROVE KeyHeld'
  <2>1. \A q \in Proc : attempt'[q].keyMade => attempt[q].keyMade
    BY <1>0, <1>5 DEF End, Fresh
  <2>2. QED
    BY <1>1, <1>5, <2>1 DEF End, world
<1>6. CASE \/ \E p \in Proc : Settle(p) /\ UNCHANGED attempt
           \/ \E a \in adrift : SettleAdrift(a) /\ UNCHANGED attempt
           \/ IndexForgets
           \/ \E r \in shown : LoseTag(r)
           \/ UNCHANGED vars
  <2>1. UNCHANGED <<keys, attempt>>
    BY <1>6 DEF Settle, SettleAdrift, IndexForgets, LoseTag, keys, vars
  <2>2. alive' \subseteq alive
    BY <1>0, <1>6, OutcomeTypes DEF Settle, SettleAdrift, IndexForgets, LoseTag, vars
  <2>3. QED
    BY <1>1, <2>1, <2>2
<1>7. QED
  BY <1>2, <1>3, <1>4, <1>5, <1>6 DEF Next, Step

\* Where there is a key pair already, and its file with the operator, no launch
\* and no cleanup ever parts them: only a key pair of the launch's own can come
\* apart from its file.
THEOREM KeysStayOnDisk ==
  ASSUME \A w \in Worlds : w.key # 0 /\ \A i \in Nr : w.keyOf[i] \in {0, w.key}
  PROVE  Spec => []KeyOnDisk
<1>1. ASSUME Init PROVE KeyHeld
  <2>1. PICK w \in Worlds :
          alive = w.alive /\ key = w.key /\ pem = w.key /\ keyOf = w.keyOf
    BY <1>1 DEF Init
  <2>2. w \in World /\ w.alive \subseteq Old /\ w.key # 0
    BY WorldsAssumption DEF World
  <2>3. \A r \in alive : r.nr \in Nr
    BY <2>1, <2>2, Numbers DEF Old, Nr, FirstJob
  <2>4. \A p \in Proc : ~attempt[p].keyMade
    BY <1>1 DEF Init, Fresh
  <2>5. QED
    BY <2>1, <2>2, <2>3, <2>4 DEF KeyHeld
<1>2. DestroyInv /\ KeyHeld /\ [Next]_vars => KeyHeld'
  BY KeyStep
<1>3. KeyHeld => KeyOnDisk
  BY DEF KeyHeld, KeyOnDisk
<1>4. QED
  BY <1>1, <1>2, <1>3, DestroyInvariant, PTL DEF Spec
====
