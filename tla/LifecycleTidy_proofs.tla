---------------------- MODULE LifecycleTidy_proofs ----------------------
(***************************************************************************)
(* TidyInv, the second part of LifecycleInv: that what a command makes     *)
(* before its resource is torn down again, for any number of commands,     *)
(* plans, processes and failing calls.  From LifecycleInv: a refused       *)
(* create leaves nothing behind, no address is left unused, and an         *)
(* instance that was destroyed takes its companions with it.               *)
(*                                                                         *)
(* A step is made by one command.  First what it leaves alone of any other *)
(* (Gentle and its parts), then, section by section, what an apply makes,  *)
(* what its cleanup takes back, what destroying does to it, what AWS does  *)
(* in its own time and what a new command finds.  The parts about the      *)
(* account (Apart, NrOnce, Slots, AllWhole) go along in each section.      *)
(***************************************************************************)
EXTENDS Lifecycle_proofs

-----------------------------------------------------------------------------
(* TidyInv: what the steps of others leave to a command. *)

Tidy(p) == Aimed(p) /\ Tracked(p) /\ TornDown(p) /\ AddressFits(p)

AllWhole == \A run \in Run : Whole(iam[run])

LEMMA TidyParts ==
  TidyInv <=> Apart /\ NrOnce /\ Slots /\ AllWhole /\ \A p \in Proc : Tidy(p)
BY DEF TidyInv, Tidy, AllWhole

\* What is q's own stays, except that it may no longer be alone.
Own(q) ==
  /\ pc'[q] = pc[q] /\ attempt'[q] = attempt[q] /\ tear'[q] = tear[q]
  /\ denied'[q] = denied[q] /\ failed'[q] = failed[q] /\ del'[q].target = del[q].target
  /\ job'[q] = None <=> job[q] = None
  /\ job'[q].op = job[q].op /\ job'[q].run = job[q].run /\ job'[q].nr = job[q].nr
  /\ job[q] # None => (job'[q].alone => job[q].alone)

\* Nobody makes an address or a key under q's number.
Numbering(q) ==
  pc[q] \in Applying =>
    /\ address'[job[q].nr] # None => address[job[q].nr] # None
    /\ key' = job[q].nr => key = job[q].nr

\* The address of q's attempt stays what it is, or goes.
Attempted(q) ==
  pc[q] \in Creating /\ attempt[q].addr # 0 =>
    /\ address'[attempt[q].addr] # None =>
         /\ address[attempt[q].addr] # None
         /\ address'[attempt[q].addr].run = address[attempt[q].addr].run
    /\ \A x \in Proc : pc'[x] \in Applying /\ attempt[q].addr = job'[x].nr =>
         attempt'[x].fresh

\* While q is alone, nobody adds to its instance profile, and an address of its
\* run that is used stays so.
LeftAlone(q) ==
  job[q] # None /\ job[q].alone =>
    /\ \A run \in Run : run = job[q].run \/ job[q].run = None => iam'[run] \subseteq iam[run]
    /\ job[q].op = "apply" =>
         \A i \in Nr : address'[i] # None /\ address'[i].run = job[q].run =>
           /\ address[i] # None /\ address[i].run = job[q].run
           /\ address[i].by # None => address'[i].by # None

Gentle(q) == Own(q) /\ Numbering(q) /\ Attempted(q) /\ LeftAlone(q)

LEMMA GentleKeeps ==
  ASSUME DestroyInv, TidyInv, TypeOK', jobs <= jobs', NEW q \in Proc, Gentle(q)
  PROVE  Tidy(q)'
<1>0. Tidy(q) /\ JobFits(q) /\ DeletionFits(q) /\ TypeOK
  BY TidyParts DEF DestroyInv
<1>1. jobs \in Nat /\ jobs' \in Nat /\ jobs <= jobs'
  BY <1>0, TypeFacts, Numbers DEF TypeOK
<1>2. Own(q)
  BY DEF Gentle
<1>3. Aimed(q)'
  BY <1>0, <1>2 DEF Tidy, Aimed, Own, Target
<1>4. Tracked(q)'
  <2>1. SUFFICES ASSUME pc[q] \in Applying PROVE Tracked(q)'
    BY <1>2 DEF Tracked, Own
  <2>2. job[q] # None /\ job[q].run \in Run /\ job[q].op = "apply"
    BY <1>0, <2>1 DEF JobFits
  <2>3. job'[q].alone => job[q].alone /\ iam'[job[q].run] \subseteq iam[job[q].run]
    BY <1>2, <2>2 DEF Gentle, Own, LeftAlone
  <2>4. /\ address'[job[q].nr] # None => address[job[q].nr] # None
        /\ key' = job[q].nr => key = job[q].nr
    BY <2>1 DEF Gentle, Numbering
  <2>5. /\ pc'[q] = pc[q] /\ attempt'[q] = attempt[q] /\ tear'[q] = tear[q]
        /\ denied'[q] = denied[q] /\ failed'[q] = failed[q]
        /\ job'[q].run = job[q].run /\ job'[q].nr = job[q].nr
    BY <1>2 DEF Own
  <2>6. Tracked(q)
    BY <1>0 DEF Tidy
  <2>7. QED
    BY <2>1, <2>3, <2>4, <2>5, <2>6 DEF Tracked, Alone
<1>5. TornDown(q)'
  <2>1. SUFFICES ASSUME pc[q] = "cascade", job'[q].alone, denied[q] = {}
                 PROVE  iam'[Target(q).run] \subseteq tear[q]
    BY <1>2 DEF TornDown, Alone, Own, Target
  <2>2. job[q] # None /\ (Target(q).run = job[q].run \/ job[q].run = None)
    BY <1>0, <2>1 DEF Tidy, Aimed
  <2>3. Target(q).run \in Run
    BY <1>0, <2>1 DEF DeletionFits, Resource
  <2>4. job[q].alone
    BY <1>2, <2>1, <2>2 DEF Own
  <2>5. iam'[Target(q).run] \subseteq iam[Target(q).run]
    BY <2>2, <2>3, <2>4 DEF Gentle, LeftAlone
  <2>6. iam[Target(q).run] \subseteq tear[q]
    BY <1>0, <2>1, <2>4 DEF Tidy, TornDown, Alone
  <2>7. QED
    BY <2>5, <2>6
<1>6. AddressFits(q)'
  <2>1. ASSUME pc[q] \in Creating, attempt[q].addr # 0
        PROVE  /\ attempt[q].addr < FirstJob + jobs'
               /\ address'[attempt[q].addr] # None =>
                    address'[attempt[q].addr].run \in {None, job[q].run}
               /\ \A x \in Proc : pc'[x] \in Applying /\ attempt[q].addr = job'[x].nr =>
                    attempt'[x].fresh
    <3>1. attempt[q].addr \in Nat
      BY <1>0, TypeFacts DEF Attempt, Nr
    <3>2. /\ attempt[q].addr < FirstJob + jobs
          /\ address[attempt[q].addr] # None =>
               address[attempt[q].addr].run \in {None, job[q].run}
      BY <1>0, <2>1 DEF Tidy, AddressFits
    <3>3. Attempted(q)
      BY DEF Gentle
    <3>4. QED
      BY <1>1, <2>1, <3>1, <3>2, <3>3, Numbers DEF Attempted
  <2>2. ASSUME job[q] # None, job[q].op = "apply", job'[q].alone, denied[q] = {},
               Kind[job[q].run] = "nat"
        PROVE  /\ Tagged(job[q].run)' \subseteq Tagged(job[q].run)
               /\ \A i \in Tagged(job[q].run)' : Used(i) => Used(i)'
               /\ Alone(q)
    BY <1>2, <2>2 DEF Gentle, Own, LeftAlone, Tagged, Used, Alone
  <2>3. AddressFits(q)
    BY <1>0 DEF Tidy
  <2> DEFINE Spare == \A i \in Tagged(job[q].run) : i = attempt[q].addr \/ Used(i)
             None0 == Tagged(job[q].run) = {}
             All == \A i \in Tagged(job[q].run) : Used(i)
  <2>4. ASSUME job[q] # None, job[q].op = "apply", job'[q].alone, denied[q] = {},
               Kind[job[q].run] = "nat"
        PROVE  (None0 => None0') /\ (Spare => Spare') /\ (All => All')
    BY <1>2, <2>2, <2>4 DEF Own
  <2>5. job'[q].run = job[q].run /\ attempt'[q] = attempt[q]
    BY <1>2 DEF Own
  <2>6. QED
    BY <1>2, <2>1, <2>2, <2>3, <2>4, <2>5 DEF AddressFits, Own, Alone
<1>7. QED
  BY <1>3, <1>4, <1>5, <1>6 DEF Tidy

-----------------------------------------------------------------------------
(* ... of an apply. *)

\* What provisioning may do to an address: release it, allocate it, use it.
Moved(p, i) ==
  \/ address'[i] = address[i]
  \/ address'[i] = None
  \/ /\ pc[p] = "allocate" /\ i = job[p].nr /\ attempt'[p].fresh
     /\ address'[i].run \in {None, job[p].run} /\ address'[i].by = None
  \/ /\ pc[p] \in Creating /\ i = attempt[p].addr
     /\ address[i] # None /\ address'[i].run = address[i].run
     /\ address'[i].by = Mine(p)

LEMMA AppearsMoves ==
  ASSUME TypeOK, NEW p \in Proc, JobFits(p), pc[p] \in {"route", "wait"},
         Creatable(p), Appears(p), NEW i \in Nr
  PROVE  Moved(p, i)
<1>1. pc[p] \in Applying /\ pc[p] \in Creating
  BY DEF Applying, Creating
<1>2. CASE attempt[p].addr = 0
  BY <1>2 DEF Appears, Moved
<1>3. CASE attempt[p].addr # 0
  <2>1. attempt[p].addr \in Nr /\ address[attempt[p].addr] # None
    BY <1>1, <1>3, Applies DEF Attempt, JobFits, Creatable
  <2>2. address[attempt[p].addr] \in Address
    BY <2>1, TypeFacts
  <2>3. address' = [address EXCEPT ![attempt[p].addr] =
                      [address[attempt[p].addr] EXCEPT !.by = Mine(p)]]
    BY <1>3, <2>1, TypeFacts DEF Appears
  <2>4. CASE i = attempt[p].addr
    BY <1>1, <2>1, <2>2, <2>3, <2>4, TypeFacts DEF Moved, Address
  <2>5. CASE i # attempt[p].addr
    BY <2>3, <2>5, TypeFacts DEF Moved
  <2>6. QED
    BY <2>4, <2>5
<1>4. QED
  BY <1>2, <1>3

LEMMA ProvisionMoves ==
  ASSUME TypeOK, NEW p \in Proc, JobFits(p), Tracked(p), Provision(p), NEW i \in Nr
  PROVE  Moved(p, i)
<1>0. pc[p] \in Applying
  BY ProvisionKeeps
<1>1. CASE UNCHANGED address
  BY <1>1 DEF Moved
<1>2. CASE ReleaseOrphans(p)
  BY <1>2 DEF ReleaseOrphans, Moved
<1>3. CASE Allocate(p)
  <2>1. CASE address' = [address EXCEPT ![job[p].nr] = [run |-> job[p].run, by |-> None]]
    BY <1>0, <1>3, <2>1, TypeFacts, Applies DEF Allocate, Moved, Attempt
  <2>2. CASE address' = [address EXCEPT ![job[p].nr] = [run |-> None, by |-> None]]
    BY <1>0, <1>3, <2>2, TypeFacts, Applies DEF Allocate, Moved, Attempt
  <2>3. QED
    BY <1>1, <1>3, <2>1, <2>2 DEF Allocate
<1>4. CASE Route(p) \/ Wait(p)
  BY <1>1, <1>4, AppearsMoves DEF Route, Wait
<1>5. CASE CleanUp(p)
  <2>1. CASE address' = [address EXCEPT ![attempt[p].addr] = None]
    BY <2>1, TypeFacts DEF Moved
  <2>2. QED
    BY <1>1, <1>5, <2>1 DEF CleanUp
<1>6. CASE \/ FindAddress(p) \/ FindKey(p) \/ CreateKey(p) \/ WritePem(p) \/ MakePiece(p)
           \/ Defaults(p) \/ Create(p)
  BY <1>1, <1>6 DEF FindAddress, FindKey, CreateKey, WritePem, MakePiece, Defaults, Create
<1>7. CASE WriteRecord(p) \/ UndoProfile(p) \/ DeleteKey(p) \/ Refused(p)
  BY <1>1, <1>7 DEF WriteRecord, UndoProfile, DeleteKey, Refused
<1>8. QED
  BY <1>2, <1>3, <1>4, <1>5, <1>6, <1>7 DEF Provision

\* ... to the key pair and the instance profiles of others.
LEMMA ProvisionTakes ==
  ASSUME TypeOK, NEW p \in Proc, JobFits(p), Provision(p)
  PROVE  /\ key' \in {key, 0, job[p].nr}
         /\ \A run \in Run \ {job[p].run} : iam'[run] = iam[run]
         /\ attempt[p].fresh => attempt'[p].fresh
         /\ \A q \in Proc \ {p} : tear'[q] = tear[q] /\ denied'[q] = denied[q]
         /\ denied'[p] = {} => denied[p] = {}
<1>0. /\ job[p].run \in Run /\ iam \in [Run -> SUBSET Piece] /\ attempt \in [Proc -> Attempt]
      /\ tear \in [Proc -> SUBSET Piece]
      /\ denied \in [Proc -> SUBSET (Piece \cup {"lookup", "orphan", "address", "key"})]
  BY TypeFacts, Applies, ProvisionKeeps
<1> USE <1>0 DEF rest, keys, Deny
<1>1. CASE FindAddress(p)
  BY <1>1 DEF FindAddress, Attempt
<1>2. CASE ReleaseOrphans(p)
  <2>1. UNCHANGED <<rest, keys, iam, attempt>>
    BY <1>2 DEF ReleaseOrphans
  <2>2. UNCHANGED denied \/ Deny(p, "orphan")
    BY <1>2 DEF ReleaseOrphans
  <2>3. QED
    BY <2>1, <2>2
<1>3. CASE Allocate(p)
  BY <1>3 DEF Allocate, Attempt
<1>4. CASE FindKey(p) \/ CreateKey(p) \/ WritePem(p)
  BY <1>4 DEF FindKey, CreateKey, WritePem, Strip, Attempt
<1>5. CASE MakePiece(p)
  <2>1. UNCHANGED <<key, tear, denied>>
    BY <1>5 DEF MakePiece
  <2>2. UNCHANGED iam \/ \E x \in Piece : iam' = [iam EXCEPT ![job[p].run] = @ \cup {x}]
    BY <1>5 DEF MakePiece
  <2>3. UNCHANGED attempt \/ \E x \in Piece : attempt' = [attempt EXCEPT ![p].made = @ \cup {x}]
    BY <1>5 DEF MakePiece
  <2>4. QED
    BY <2>1, <2>2, <2>3 DEF Attempt
<1>6. CASE Defaults(p) \/ Route(p) \/ Create(p) \/ Wait(p) \/ WriteRecord(p)
  BY <1>6 DEF Defaults, Route, Create, Wait, WriteRecord
<1>7. CASE CleanUp(p)
  BY <1>7 DEF CleanUp
<1>8. CASE UndoProfile(p)
  <2>1. UNCHANGED <<key, attempt>> /\ Teardown(p, job[p].run, "delete key")
    BY <1>8 DEF UndoProfile
  <2>2. PICK x \in Piece :
          /\ \/ iam' = [iam EXCEPT ![job[p].run] = IF CanRemove(@, x) THEN @ \ {x} ELSE @]
                /\ UNCHANGED denied
             \/ Deny(p, x) /\ UNCHANGED iam
          /\ tear' = [tear EXCEPT ![p] = @ \ {x}]
    BY <2>1 DEF Teardown
  <2>3. QED
    BY <2>1, <2>2
<1>9. CASE DeleteKey(p) \/ Refused(p)
  BY <1>9 DEF DeleteKey, Refused
<1>10. QED
  BY <1>1, <1>2, <1>3, <1>4, <1>5, <1>6, <1>7, <1>8, <1>9 DEF Provision

\* A command that is alone and one that is not of its run.
LEMMA Strangers ==
  ASSUME TidyInv, NEW p \in Proc, NEW q \in Proc \ {p}, job[p] # None, job[q] # None,
         job[q].alone
  PROVE  /\ job[p].run # job[q].run /\ job[p].run # None /\ job[q].run # None
BY DEF TidyInv, Apart, Touch

LEMMA ProvisionIsGentle ==
  ASSUME DestroyInv, TidyInv, NEW p \in Proc, Provision(p), UNCHANGED <<del, adrift>>,
         NEW q \in Proc \ {p}
  PROVE  Gentle(q)
<1>0. /\ TypeOK /\ JobFits(p) /\ Tidy(p) /\ Tracked(p) /\ pc[p] \in Applying
      /\ JobFits(q) /\ Tidy(q) /\ NrOnce
  BY ProvisionKeeps, TidyParts DEF DestroyInv, Tidy
<1>1. /\ job[p] # None /\ job[p].run \in Run /\ job[p].nr \in Nr /\ Mine(p) \in Resource
      /\ UNCHANGED <<job, jobs>>
  BY <1>0, Applies, ProvisionKeeps DEF JobFits
<1>2. /\ key' \in {key, 0, job[p].nr}
      /\ \A run \in Run \ {job[p].run} : iam'[run] = iam[run]
      /\ attempt[p].fresh => attempt'[p].fresh
  BY <1>0, ProvisionTakes
<1>3. \A x \in Proc \ {p} :
        /\ pc'[x] = pc[x] /\ attempt'[x] = attempt[x] /\ failed'[x] = failed[x]
        /\ tear'[x] = tear[x] /\ denied'[x] = denied[x]
  BY <1>0, ProvisionGoes, ProvisionWrites, ProvisionTakes
<1>4. Own(q)
  BY <1>1, <1>3 DEF Own
<1>5. \A i \in Nr : Moved(p, i)
  BY <1>0, ProvisionMoves
<1>6. Numbering(q)
  <2>1. SUFFICES ASSUME pc[q] \in Applying
                 PROVE  /\ address'[job[q].nr] # None => address[job[q].nr] # None
                        /\ key' = job[q].nr => key = job[q].nr
    BY DEF Numbering
  <2>2. job[q].nr \in Nr /\ job[q].nr # job[p].nr /\ job[q].nr # 0
    BY <1>0, <2>1 DEF JobFits, NrOnce, Nr
  <2>3. QED
    BY <1>2, <1>5, <2>2 DEF Moved
<1>7. Attempted(q)
  <2>1. SUFFICES ASSUME pc[q] \in Creating, attempt[q].addr # 0 PROVE Attempted(q)
    BY DEF Attempted
  <2>2. attempt[q].addr \in Nr
    BY <1>0, <2>1, TypeFacts DEF Attempt
  <2>3. \A x \in Proc : pc[x] \in Applying /\ attempt[q].addr = job[x].nr => attempt[x].fresh
    BY <1>0, <2>1 DEF Tidy, AddressFits
  <2>4. pc[p] = "allocate" => attempt[q].addr # job[p].nr
    BY <1>0, <2>3 DEF Tidy, Tracked, ForAddress
  <2>5. /\ address'[attempt[q].addr] # None =>
             /\ address[attempt[q].addr] # None
             /\ address'[attempt[q].addr].run = address[attempt[q].addr].run
    BY <1>5, <2>2, <2>4 DEF Moved
  <2>6. \A x \in Proc : pc'[x] \in Applying /\ attempt[q].addr = job'[x].nr => attempt'[x].fresh
    BY <1>0, <1>1, <1>2, <1>3, <2>3
  <2>7. QED
    BY <2>5, <2>6 DEF Attempted
<1>8. LeftAlone(q)
  <2>1. SUFFICES ASSUME job[q] # None, job[q].alone PROVE LeftAlone(q)
    BY DEF LeftAlone
  <2>2. job[p].run # job[q].run /\ job[q].run # None
    BY <1>1, <2>1, Strangers
  <2>3. ASSUME NEW i \in Nr, address'[i] # None, address'[i].run = job[q].run
        PROVE  /\ address[i] # None /\ address[i].run = job[q].run
               /\ address[i].by # None => address'[i].by # None
    BY <1>1, <1>5, <2>2, <2>3, NoValueAssumption DEF Moved
  <2>4. QED
    BY <1>2, <2>2, <2>3 DEF LeftAlone
<1>9. QED
  BY <1>4, <1>6, <1>7, <1>8 DEF Gentle

-----------------------------------------------------------------------------
(* What an apply itself has made. *)

LEMMA ProvisionAims ==
  ASSUME DestroyInv, TidyInv, NEW p \in Proc, Provision(p)
  PROVE  Aimed(p)' /\ TornDown(p)'
<1>0. /\ TypeOK /\ JobFits(p) /\ Aimed(p) /\ pc[p] \in Applying /\ UNCHANGED job
      /\ pc \in [Proc -> Labels]
  BY ProvisionKeeps, TidyParts, TypeFacts DEF DestroyInv, Tidy
<1>1. pc'[p] \in Applying \cup {"over"}
  BY <1>0, ProvisionGoes
<1> DEFINE ForKey == {"find key", "create key", "write pem", "profile"}
<1>2. pc'[p] \in ForKey => pc[p] \in ForKey
  <2> USE <1>0 DEF Goto
  <2>1. CASE FindAddress(p) \/ ReleaseOrphans(p) \/ Allocate(p)
    BY <2>1 DEF FindAddress, ReleaseOrphans, Allocate
  <2>2. CASE FindKey(p) \/ CreateKey(p) \/ WritePem(p) \/ MakePiece(p)
    BY <2>2 DEF FindKey, CreateKey, WritePem, MakePiece
  <2>3. CASE Defaults(p) \/ Route(p) \/ Create(p) \/ Wait(p) \/ WriteRecord(p)
    BY <2>3 DEF Defaults, Route, Create, Wait, WriteRecord
  <2>4. CASE CleanUp(p) \/ UndoProfile(p) \/ DeleteKey(p) \/ Refused(p)
    BY <2>4 DEF CleanUp, UndoProfile, Teardown, DeleteKey, Refused
  <2>5. QED
    BY <2>1, <2>2, <2>3, <2>4 DEF Provision
<1>3. pc'[p] # "idle" /\ pc'[p] \notin Sweeping \cup Deleting \cup {"tombstone", "cascade"}
  BY <1>1 DEF Applying, Creating, ForAddress, Sweeping, Deleting, Preparing
<1>4. job[p] # None
  BY <1>0 DEF JobFits
<1>5. QED
  BY <1>0, <1>2, <1>3, <1>4 DEF Aimed, TornDown

LEMMA ProvisionAddressFits ==
  ASSUME DestroyInv, TidyInv, NEW p \in Proc, FindAddress(p) \/ ReleaseOrphans(p) \/ Allocate(p),
         UNCHANGED <<del, adrift>>
  PROVE  Tracked(p)' /\ AddressFits(p)'
<1>0. /\ TypeOK /\ JobFits(p) /\ Tracked(p) /\ AddressFits(p) /\ pc[p] \in Applying
      /\ UNCHANGED <<job, jobs>> /\ Slots /\ NrOnce
  BY ProvisionKeeps, TidyParts DEF DestroyInv, Tidy, Provision
<1>1. /\ attempt \in [Proc -> Attempt] /\ attempt[p] \in Attempt /\ pc \in [Proc -> Labels]
      /\ address \in [Nr -> Address \cup {None}]
      /\ denied \in [Proc -> SUBSET (Piece \cup {"lookup", "orphan", "address", "key"})]
      /\ job[p].nr \in Nr /\ job[p].run \in Run /\ job[p].nr < FirstJob + jobs
  BY <1>0, Applies, TypeFacts DEF JobFits
<1>2. \A q \in Proc : pc[q] \in Applying => Tracked(q) /\ JobFits(q)
  BY TidyParts DEF DestroyInv, Tidy
<1>3. CASE FindAddress(p)
  <2>1. pc[p] = "find address" /\ ~attempt[p].fresh /\ address[job[p].nr] = None
    BY <1>0, <1>3 DEF FindAddress, Tracked, ForAddress
  <2>2. UNCHANGED <<address, key, iam>> /\ (denied'[p] = {} => denied[p] = {})
    BY <1>1, <1>3 DEF FindAddress, Deny, rest, keys
  <2>3. CASE \E i \in Tagged(job[p].run) :
               attempt' = [attempt EXCEPT ![p].addr = i] /\ Goto(p, "release orphans")
    <3>1. PICK i \in Tagged(job[p].run) :
               attempt' = [attempt EXCEPT ![p].addr = i] /\ Goto(p, "release orphans")
      BY <2>3
    <3>2. /\ attempt'[p] = [attempt[p] EXCEPT !.addr = i] /\ pc'[p] = "release orphans"
          /\ \A q \in Proc : attempt'[q].fresh = attempt[q].fresh
          /\ \A q \in Proc \ {p} : pc'[q] = pc[q]
      BY <1>1, <3>1 DEF Goto, Attempt
    <3>3. attempt'[p].addr = i /\ ~attempt'[p].fresh /\ attempt'[p].found = attempt[p].found
          /\ attempt'[p].made = attempt[p].made /\ attempt'[p].keyMade = attempt[p].keyMade
      BY <1>1, <2>1, <3>2 DEF Attempt
    <3>4. Tracked(p)'
      BY <1>0, <2>1, <2>2, <3>2, <3>3 DEF Tracked, Undoing
    <3>5. i \in Nr /\ i < FirstJob + jobs /\ address[i] # None /\ address[i].run = job[p].run
      BY <1>0, <3>1 DEF Tagged, Slots
    <3>6. ASSUME NEW q \in Proc, pc'[q] \in Applying, i = job[q].nr PROVE attempt'[q].fresh
      BY <1>0, <1>2, <2>1, <3>2, <3>5, <3>6 DEF Tracked
    <3>7. AddressFits(p)'
      BY <1>0, <2>2, <3>2, <3>3, <3>5, <3>6 DEF AddressFits
    <3>8. QED
      BY <3>4, <3>7
  <2>4. CASE Goto(p, "allocate") /\ UNCHANGED attempt
    <3>1. pc'[p] = "allocate" /\ attempt'[p] = attempt[p] /\ \A q \in Proc \ {p} : pc'[q] = pc[q]
      BY <1>1, <2>4 DEF Goto
    <3>2. Tracked(p)'
      BY <1>0, <2>1, <2>2, <3>1 DEF Tracked, Undoing, ForAddress, Applying, Creating
    <3>3. denied'[p] = {} => Tagged(job[p].run) = {}
      BY <1>1, <1>3, <2>4 DEF FindAddress, Deny, Goto
    <3>4. Tagged(job[p].run)' = Tagged(job[p].run)
      BY <1>0, <2>2 DEF Tagged
    <3>5. pc[p] \in Creating
      BY <2>1 DEF Creating, ForAddress
    <3>6. AddressFits(p)'
      BY <1>0, <2>2, <2>4, <3>1, <3>3, <3>4, <3>5 DEF AddressFits, Alone
    <3>7. QED
      BY <3>2, <3>6
  <2>5. QED
    BY <1>3, <2>3, <2>4 DEF FindAddress
<1>4. CASE ReleaseOrphans(p)
  <2>1. /\ pc[p] = "release orphans" /\ pc'[p] = "defaults" /\ UNCHANGED <<key, iam, attempt>>
        /\ \A q \in Proc \ {p} : pc'[q] = pc[q]
    BY <1>1, <1>4 DEF ReleaseOrphans, Goto, rest, keys
  <2> DEFINE orphans == {i \in Tagged(job[p].run) \ {attempt[p].addr} : address[i].by = None}
  <2>2. /\ \A i \in Nr : address'[i] = address[i] \/ (i # attempt[p].addr /\ address'[i] = None)
        /\ denied'[p] = {} => /\ address' = [i \in Nr |-> IF i \in orphans THEN None ELSE address[i]]
                              /\ denied[p] = {}
    <3> DEFINE Without(gone) == [i \in Nr |-> IF i \in gone THEN None ELSE address[i]]
    <3>1. CASE address' = Without(orphans) /\ UNCHANGED denied
      BY <3>1
    <3>2. CASE \E i \in orphans : Deny(p, "orphan") /\ address' = Without(orphans \ {i})
      <4>1. denied'[p] # {}
        BY <1>1, <3>2 DEF Deny
      <4>2. QED
        BY <3>2, <4>1
    <3>3. QED
      BY <1>4, <3>1, <3>2 DEF ReleaseOrphans
  <2>3. Tracked(p)'
    BY <1>0, <1>1, <2>1, <2>2 DEF Tracked, Undoing, ForAddress, Applying, Creating
  <2>4. denied'[p] = {} => \A i \in Tagged(job[p].run)' : i = attempt[p].addr \/ Used(i)'
    BY <1>0, <2>2 DEF Tagged, Used
  <2>5. pc[p] \in Creating /\ pc[p] \in Applying
    BY <2>1 DEF Creating, ForAddress, Applying
  <2>6. attempt[p].addr # 0 => attempt[p].addr \in Nr
    BY <1>1 DEF Attempt
  <2>7. attempt[p].addr # 0 /\ address'[attempt[p].addr] # None =>
          address'[attempt[p].addr].run \in {None, job[p].run}
    BY <1>0, <2>2, <2>5, <2>6 DEF AddressFits
  <2>8. AddressFits(p)'
    BY <1>0, <2>1, <2>4, <2>5, <2>7 DEF AddressFits, Alone
  <2>9. QED
    BY <2>3, <2>8
<1>5. CASE Allocate(p)
  <2>1. /\ pc[p] = "allocate" /\ ~attempt[p].fresh /\ UNCHANGED <<key, iam, denied>>
    BY <1>0, <1>5 DEF Allocate, Tracked, ForAddress, keys
  <2>2. CASE /\ \/ address' = [address EXCEPT ![job[p].nr] = [run |-> job[p].run, by |-> None]]
                \/ address' = [address EXCEPT ![job[p].nr] = [run |-> None, by |-> None]]
             /\ attempt' = [attempt EXCEPT ![p].addr = job[p].nr, ![p].fresh = TRUE]
             /\ Goto(p, "defaults")
    <3>1. /\ attempt'[p].addr = job[p].nr /\ attempt'[p].fresh
          /\ attempt'[p].found = attempt[p].found
          /\ attempt'[p].made = attempt[p].made /\ attempt'[p].keyMade = attempt[p].keyMade
          /\ pc'[p] = "defaults" /\ \A q \in Proc \ {p} : pc'[q] = pc[q]
      BY <1>1, <2>2 DEF Attempt, Goto
    <3>2. /\ address'[job[p].nr].run \in {job[p].run, None}
          /\ \A i \in Nr \ {job[p].nr} : address'[i] = address[i]
      BY <1>1, <2>2
    <3>3. Tracked(p)'
      BY <1>0, <2>1, <3>1 DEF Tracked, Undoing, ForAddress
    <3>4. ASSUME NEW q \in Proc, pc'[q] \in Applying, job[p].nr = job[q].nr
          PROVE  attempt'[q].fresh
      BY <1>0, <3>1, <3>4 DEF NrOnce
    <3>5. Alone(p) /\ Kind[job[p].run] = "nat" => Tagged(job[p].run)' \subseteq {job[p].nr}
      <4>1. SUFFICES ASSUME Alone(p), Kind[job[p].run] = "nat"
                     PROVE  Tagged(job[p].run)' \subseteq {job[p].nr}
        OBVIOUS
      <4>2. Tagged(job[p].run) = {}
        BY <1>0, <2>1, <4>1 DEF AddressFits, JobFits
      <4>3. QED
        BY <1>0, <3>2, <4>2 DEF Tagged
    <3>6. AddressFits(p)'
      BY <1>0, <1>1, <2>1, <3>1, <3>2, <3>4, <3>5 DEF AddressFits, Alone
    <3>7. QED
      BY <3>3, <3>6
  <2>3. CASE Fail(p) /\ Goto(p, "over")
    <3>1. pc'[p] = "over" /\ failed'[p]
      BY <1>0, <1>1, <2>3, TypeFacts DEF Fail, Goto
    <3>2. QED
      BY <3>1 DEF Tracked, AddressFits, Applying, Creating, ForAddress
  <2>4. QED
    BY <1>5, <2>2, <2>3 DEF Allocate
<1>6. QED
  BY <1>3, <1>4, <1>5

\* Steps that leave the addresses alone.
Prepared == {"defaults", "route", "create", "wait"}

LEMMA AddressKept ==
  ASSUME TypeOK, NEW p \in Proc, AddressFits(p), pc[p] \in Applying,
         UNCHANGED <<job, jobs, address>>,
         attempt'[p].addr = attempt[p].addr,
         \A q \in Proc : attempt'[q].fresh = attempt[q].fresh,
         \A q \in Proc \ {p} : pc'[q] = pc[q],
         denied'[p] = {} => denied[p] = {},
         pc'[p] \in Creating => pc[p] \in Creating,
         Kind[job[p].run] = "nat" =>
           /\ pc'[p] \notin {"allocate", "record"}
           /\ pc'[p] \in Prepared => pc[p] \in Prepared
           /\ pc'[p] = "over" => failed'[p] \/ pc[p] = "record"
  PROVE  AddressFits(p)'
<1>1. Tagged(job[p].run)' = Tagged(job[p].run)
  BY DEF Tagged
<1>2. \A i \in Nr : Used(i)' <=> Used(i)
  BY DEF Used
<1>3. ASSUME pc'[p] \in Creating, attempt[p].addr # 0
      PROVE  /\ attempt[p].addr < FirstJob + jobs
             /\ address[attempt[p].addr] # None =>
                  address[attempt[p].addr].run \in {None, job[p].run}
             /\ \A q \in Proc : pc'[q] \in Applying /\ attempt[p].addr = job[q].nr =>
                  attempt'[q].fresh
  BY <1>3 DEF AddressFits
<1>4. ASSUME job[p] # None, job[p].op = "apply", Alone(p)', Kind[job[p].run] = "nat"
      PROVE  /\ pc'[p] = "allocate" => Tagged(job[p].run) = {}
             /\ pc'[p] \in Prepared =>
                  \A i \in Tagged(job[p].run) : i = attempt[p].addr \/ Used(i)
             /\ pc'[p] = "record" \/ (pc'[p] = "over" /\ ~failed'[p]) =>
                  \A i \in Tagged(job[p].run) : Used(i)
  <2>1. Alone(p)
    BY <1>4 DEF Alone
  <2>2. QED
    BY <1>4, <2>1 DEF AddressFits, Prepared
<1>5. QED
  BY <1>1, <1>2, <1>3, <1>4 DEF AddressFits, Tagged, Prepared

LEMMA ProvisionKey ==
  ASSUME DestroyInv, TidyInv, NEW p \in Proc,
         FindKey(p) \/ CreateKey(p) \/ WritePem(p) \/ MakePiece(p)
  PROVE  Tracked(p)' /\ AddressFits(p)' /\ \A run \in Run : Whole(iam'[run])
<1>0. /\ TypeOK /\ JobFits(p) /\ Aimed(p) /\ Tracked(p) /\ AddressFits(p) /\ pc[p] \in Applying
      /\ UNCHANGED <<job, jobs>> /\ AllWhole
  BY ProvisionKeeps, TidyParts DEF DestroyInv, Tidy, Provision
<1>1. /\ attempt \in [Proc -> Attempt] /\ attempt[p] \in Attempt /\ pc \in [Proc -> Labels]
      /\ iam \in [Run -> SUBSET Piece]
      /\ denied \in [Proc -> SUBSET (Piece \cup {"lookup", "orphan", "address", "key"})]
      /\ job[p].nr \in Nr /\ job[p].run \in Run /\ job[p].nr # 0
  BY <1>0, Applies, TypeFacts DEF Nr
<1>2. UNCHANGED <<address, failed>>
  BY DEF FindKey, CreateKey, WritePem, MakePiece, rest
<1>3. pc[p] \in {"find key", "create key", "write pem", "profile"} /\ pc[p] \in Creating
  BY DEF FindKey, CreateKey, WritePem, MakePiece, Creating
<1>4. /\ pc'[p] \in {"create key", "write pem", "profile", "defaults", "clean up"}
      /\ \A q \in Proc \ {p} : pc'[q] = pc[q]
  BY <1>1, <1>3 DEF FindKey, CreateKey, WritePem, MakePiece, Goto
<1>5. /\ attempt'[p].addr = attempt[p].addr /\ attempt'[p].found = attempt[p].found
      /\ \A q \in Proc : attempt'[q].fresh = attempt[q].fresh
      /\ attempt[p].made \subseteq attempt'[p].made
      /\ attempt[p].keyMade => attempt'[p].keyMade
      /\ denied'[p] = {} => denied[p] = {}
      /\ key' = job[p].nr /\ denied'[p] = {} => key = job[p].nr \/ attempt'[p].keyMade
      /\ iam'[job[p].run] \subseteq iam[job[p].run] \cup attempt'[p].made
      /\ \A run \in Run : Whole(iam'[run])
  <2>1. CASE FindKey(p) \/ CreateKey(p) \/ WritePem(p)
    <3>1. UNCHANGED iam
      BY <2>1 DEF FindKey, CreateKey, WritePem
    <3>2. CASE UNCHANGED <<attempt, key, denied>>
      BY <1>0, <3>1, <3>2 DEF AllWhole
    <3>3. CASE attempt' = [attempt EXCEPT ![p].keyName = FALSE] /\ UNCHANGED <<key, denied>>
      BY <1>0, <1>1, <3>1, <3>3 DEF AllWhole, Attempt
    <3>4. CASE attempt' = [attempt EXCEPT ![p].keyMade = TRUE] /\ UNCHANGED denied
      BY <1>0, <1>1, <3>1, <3>4 DEF AllWhole, Attempt
    <3>5. CASE attempt' = [attempt EXCEPT ![p].keyName = FALSE] /\ Deny(p, "key")
      BY <1>0, <1>1, <3>1, <3>5 DEF AllWhole, Attempt, Deny
    <3>6. QED
      BY <2>1, <3>2, <3>3, <3>4, <3>5 DEF FindKey, CreateKey, WritePem, Strip, rest, keys
  <2>2. CASE MakePiece(p)
    <3>1. UNCHANGED <<key, denied>>
      BY <2>2 DEF MakePiece, keys
    <3>2. CASE UNCHANGED <<iam, attempt>>
      BY <1>0, <3>1, <3>2 DEF AllWhole
    <3>3. CASE \E x \in Piece : /\ CanMake(iam[job[p].run], x)
                                /\ iam' = [iam EXCEPT ![job[p].run] = @ \cup {x}]
                                /\ attempt' = [attempt EXCEPT ![p].made = @ \cup {x}]
      <4>1. PICK x \in Piece : /\ CanMake(iam[job[p].run], x)
                               /\ iam' = [iam EXCEPT ![job[p].run] = @ \cup {x}]
                               /\ attempt' = [attempt EXCEPT ![p].made = @ \cup {x}]
        BY <3>3
      <4>2. /\ attempt'[p].addr = attempt[p].addr /\ attempt'[p].found = attempt[p].found
            /\ \A q \in Proc : attempt'[q].fresh = attempt[q].fresh
            /\ attempt'[p].made = attempt[p].made \cup {x}
            /\ attempt'[p].keyMade = attempt[p].keyMade
        BY <1>1, <4>1 DEF Attempt
      <4>3. iam'[job[p].run] = iam[job[p].run] \cup {x}
            /\ \A run \in Run \ {job[p].run} : iam'[run] = iam[run]
        BY <1>1, <4>1
      <4>4. Whole(iam[job[p].run] \cup {x})
        BY <1>0, <1>1, <4>1 DEF AllWhole, Whole, CanMake
      <4>5. \A run \in Run : Whole(iam'[run])
        BY <1>0, <4>3, <4>4 DEF AllWhole
      <4>6. QED
        BY <3>1, <4>2, <4>3, <4>5
    <3>4. QED
      BY <2>2, <3>2, <3>3 DEF MakePiece
  <2>3. QED
    BY <2>1, <2>2
<1>6. Tracked(p)'
  BY <1>0, <1>2, <1>4, <1>5 DEF Tracked, Undoing, ForAddress
<1>7. AddressFits(p)'
  <2>1. Kind[job[p].run] # "nat"
    BY <1>0, <1>3 DEF Aimed
  <2>2. QED
    BY <1>0, <1>2, <1>3, <1>4, <1>5, <2>1, AddressKept
<1>8. QED
  BY <1>5, <1>6, <1>7

\* Steps that leave the attempt alone as well.
LEMMA ProvisionCreate ==
  ASSUME DestroyInv, TidyInv, NEW p \in Proc,
         Defaults(p) \/ Create(p) \/ Route(p) \/ Wait(p) \/ WriteRecord(p) \/ Refused(p)
  PROVE  Tracked(p)' /\ AddressFits(p)' /\ UNCHANGED iam
<1>0. /\ TypeOK /\ JobFits(p) /\ Tracked(p) /\ AddressFits(p) /\ pc[p] \in Applying
      /\ UNCHANGED <<job, jobs>>
  BY ProvisionKeeps, TidyParts DEF DestroyInv, Tidy, Provision
<1>1. /\ attempt \in [Proc -> Attempt] /\ attempt[p] \in Attempt /\ pc \in [Proc -> Labels]
      /\ failed \in [Proc -> BOOLEAN]
      /\ job[p].nr \in Nr /\ job[p].run \in Run /\ Mine(p) \in Resource
  BY <1>0, Applies, TypeFacts
<1>2. UNCHANGED <<attempt, denied, key, iam>>
  BY DEF Defaults, Create, Route, Wait, WriteRecord, Refused, rest, keys
<1>3. /\ pc[p] \in Prepared \cup {"record", "refused"}
      /\ pc'[p] \in (Prepared \ {"defaults"}) \cup {"record", "clean up", "over"}
      /\ pc'[p] \in Prepared => pc[p] \in Prepared
      /\ pc'[p] = "over" => failed'[p] \/ pc[p] = "record"
      /\ pc'[p] = "over" \/ pc[p] \in Creating
      /\ \A q \in Proc \ {p} : pc'[q] = pc[q]
  <2> USE <1>1 DEF Goto, Prepared, Creating
  <2>1. CASE Defaults(p) \/ Create(p)
    BY <2>1 DEF Defaults, Create
  <2>2. CASE Route(p) \/ Wait(p)
    BY <2>2 DEF Route, Wait, Fail
  <2>3. CASE WriteRecord(p)
    BY <2>3 DEF WriteRecord
  <2>4. CASE Refused(p)
    <3>1. pc[p] = "refused" /\ failed'[p]
      BY <1>0, <2>4 DEF Refused, Tracked, rest
    <3>2. QED
      BY <2>4, <3>1 DEF Refused
  <2>5. QED
    BY <2>1, <2>2, <2>3, <2>4
<1>4. ASSUME UNCHANGED address PROVE Tracked(p)'
  BY <1>0, <1>2, <1>3, <1>4 DEF Tracked, Undoing, ForAddress, Prepared, Applying, Creating
<1>5. CASE pc'[p] # "record"
  <2>1. UNCHANGED address
    BY <1>1, <1>5
       DEF Defaults, Create, Route, Wait, WriteRecord, Refused, rest, Goto
  <2>2. pc'[p] \in Creating => pc[p] \in Creating
    BY <1>3 DEF Creating, ForAddress, Prepared
  <2>3. pc'[p] \notin {"allocate", "record"}
    BY <1>3, <1>5 DEF Prepared
  <2>4. AddressFits(p)'
    BY <1>0, <1>2, <1>3, <2>1, <2>2, <2>3, AddressKept
  <2>5. QED
    BY <1>2, <1>4, <2>1, <2>4
<1>6. CASE pc'[p] = "record"
  <2>1. /\ pc[p] \in Prepared /\ pc[p] \in {"route", "wait"} /\ Creatable(p) /\ Appears(p)
        /\ pc[p] = "wait" \/ Kind[job[p].run] = "bucket"
    BY <1>1, <1>6 DEF Defaults, Create, Route, Wait, WriteRecord, Refused, Goto, Prepared
  <2>2. pc[p] \in Creating /\ pc'[p] \notin Creating
    BY <1>6, <2>1 DEF Creating, ForAddress
  <2>3. CASE attempt[p].addr = 0
    <3>1. UNCHANGED address
      BY <2>1, <2>3 DEF Appears
    <3>2. Alone(p) /\ Kind[job[p].run] = "nat" => \A i \in Tagged(job[p].run) : Used(i)
      <4>1. SUFFICES ASSUME Alone(p), Kind[job[p].run] = "nat"
                     PROVE  \A i \in Tagged(job[p].run) : Used(i)
        OBVIOUS
      <4>2. \A i \in Tagged(job[p].run) : i = attempt[p].addr \/ Used(i)
        BY <1>0, <2>1, <4>1 DEF AddressFits, JobFits, Prepared
      <4>3. QED
        BY <2>3, <4>2 DEF Tagged, Nr
    <3>3. AddressFits(p)'
      BY <1>0, <1>2, <1>6, <2>2, <3>1, <3>2 DEF AddressFits, Alone, Tagged, Used
    <3>4. QED
      BY <1>2, <1>4, <3>1, <3>3
  <2>4. CASE attempt[p].addr # 0
    <3>1. Kind[job[p].run] = "nat" /\ attempt[p].addr \in Nr
      BY <1>0, <1>1, <2>4 DEF JobFits, Attempt
    <3>2. address[attempt[p].addr] # None /\ address[attempt[p].addr] \in Address
      BY <2>1, <3>1, <1>0, TypeFacts DEF Creatable
    <3>3. \A i \in Nr : Moved(p, i)
      BY <1>0, <2>1, AppearsMoves
    <3>4. /\ address'[attempt[p].addr].by = Mine(p)
          /\ \A i \in Nr \ {attempt[p].addr} : address'[i] = address[i]
      <4>1. address' = [address EXCEPT ![attempt[p].addr] =
                          [address[attempt[p].addr] EXCEPT !.by = Mine(p)]]
        BY <2>1, <2>4, <1>0, TypeFacts DEF Appears
      <4>2. QED
        BY <1>0, <3>1, <3>2, <4>1, TypeFacts DEF Address
    <3>5. Tracked(p)'
      <4>1. address'[job[p].nr] # None => address[job[p].nr] # None
        BY <1>1, <3>2, <3>4
      <4>2. QED
        BY <1>0, <1>2, <1>6, <4>1 DEF Tracked, Undoing, ForAddress
    <3>6. ASSUME Alone(p), NEW i \in Nr, address'[i] # None, address'[i].run = job[p].run
          PROVE  address'[i].by # None
      <4>1. CASE i = attempt[p].addr
        BY <1>1, <3>4, <4>1, NoValueAssumption
      <4>2. CASE i # attempt[p].addr
        BY <1>0, <2>1, <3>1, <3>4, <3>6, <4>2 DEF AddressFits, JobFits, Prepared, Tagged, Used
      <4>3. QED
        BY <4>1, <4>2
    <3>7. AddressFits(p)'
      BY <1>0, <1>2, <1>6, <2>2, <3>6 DEF AddressFits, Alone, Tagged, Used
    <3>8. QED
      BY <1>2, <3>5, <3>7
  <2>5. QED
    BY <2>3, <2>4
<1>7. QED
  BY <1>5, <1>6

-----------------------------------------------------------------------------
(* ... and what the cleanup takes back. *)

\* One call of a teardown, in order: what it could not remove is held by pieces
\* that the teardown does not have on its list, and those hold it for good.
LEMMA TeardownLeaves ==
  ASSUME NEW have \in SUBSET Piece, NEW found \in SUBSET Piece, NEW left \in SUBSET Piece,
         Whole(have), Whole(found), NEW x \in Piece, InTurn(TeardownOrder, left, x),
         have \subseteq found \cup left
  PROVE  (IF CanRemove(have, x) THEN have \ {x} ELSE have) \subseteq found \cup (left \ {x})
<1>1. PICK i \in DOMAIN TeardownOrder :
        TeardownOrder[i] = x /\ \A j \in 1..(i - 1) : TeardownOrder[j] \notin left
  BY DEF InTurn
<1>2. DOMAIN TeardownOrder = 1..4
  BY DEF TeardownOrder
<1>3. /\ x = "profile" => "joined" \notin left
      /\ x = "role" => "joined" \notin left /\ "policy" \notin left
  <2>1. CASE i = 1
    BY <1>1, <2>1 DEF TeardownOrder
  <2>2. CASE i = 2
    BY <1>1, <2>2 DEF TeardownOrder
  <2>3. CASE i = 3
    BY <1>1, <2>3 DEF TeardownOrder
  <2>4. CASE i = 4
    BY <1>1, <2>4 DEF TeardownOrder
  <2>5. QED
    BY <1>2, <2>1, <2>2, <2>3, <2>4
<1>4. QED
  BY <1>3 DEF CanRemove, Whole

LEMMA TeardownKeepsWhole ==
  ASSUME NEW have \in SUBSET Piece, NEW x \in Piece, Whole(have), CanRemove(have, x)
  PROVE  Whole(have \ {x})
BY DEF Whole, CanRemove, Piece

\* What one call of a teardown does.
LEMMA TeardownStep ==
  ASSUME TypeOK, AllWhole, NEW p \in Proc, NEW run \in Run, NEW next \in Labels,
         Teardown(p, run, next)
  PROVE  /\ \A other \in Run : iam'[other] \subseteq iam[other] /\ Whole(iam'[other])
         /\ tear'[p] \subseteq tear[p]
         /\ pc'[p] = IF tear'[p] = {} THEN next ELSE pc[p]
         /\ denied'[p] = {} => denied[p] = {}
         /\ \A found \in SUBSET Piece :
              denied'[p] = {} /\ Whole(found) /\ iam[run] \subseteq found \cup tear[p] =>
                iam'[run] \subseteq found \cup tear'[p]
<1>0. /\ iam \in [Run -> SUBSET Piece] /\ tear \in [Proc -> SUBSET Piece]
      /\ pc \in [Proc -> Labels]
      /\ denied \in [Proc -> SUBSET (Piece \cup {"lookup", "orphan", "address", "key"})]
  BY TypeFacts
<1>1. PICK x \in Piece :
        /\ InTurn(TeardownOrder, tear[p], x)
        /\ \/ /\ iam' = [iam EXCEPT ![run] = IF CanRemove(@, x) THEN @ \ {x} ELSE @]
              /\ UNCHANGED denied
           \/ Deny(p, x) /\ UNCHANGED iam
        /\ tear' = [tear EXCEPT ![p] = @ \ {x}]
        /\ Goto(p, IF tear'[p] = {} THEN next ELSE pc[p])
  BY DEF Teardown
<1>2. tear'[p] = tear[p] \ {x} /\ pc'[p] = IF tear'[p] = {} THEN next ELSE pc[p]
  BY <1>0, <1>1 DEF Goto
<1> DEFINE left == IF CanRemove(iam[run], x) THEN iam[run] \ {x} ELSE iam[run]
<1>3. CASE /\ iam' = [iam EXCEPT ![run] = IF CanRemove(@, x) THEN @ \ {x} ELSE @]
           /\ UNCHANGED denied
  <2>1. iam'[run] = left /\ \A other \in Run \ {run} : iam'[other] = iam[other]
    BY <1>0, <1>3
  <2>2. Whole(left) /\ left \subseteq iam[run]
    BY <1>0, TeardownKeepsWhole DEF AllWhole
  <2>3. ASSUME NEW found \in SUBSET Piece, Whole(found), iam[run] \subseteq found \cup tear[p]
        PROVE  iam'[run] \subseteq found \cup tear'[p]
    <3>1. iam[run] \in SUBSET Piece /\ tear[p] \in SUBSET Piece /\ Whole(iam[run])
      BY <1>0 DEF AllWhole
    <3>2. left \subseteq found \cup (tear[p] \ {x})
      BY <1>1, <2>3, <3>1, TeardownLeaves
    <3>3. QED
      BY <1>2, <2>1, <3>2
  <2> HIDE DEF left
  <2>4. QED
    BY <1>2, <1>3, <2>1, <2>2, <2>3 DEF AllWhole
<1>4. CASE Deny(p, x) /\ UNCHANGED iam
  <2>1. denied'[p] # {}
    BY <1>0, <1>4 DEF Deny
  <2>2. QED
    BY <1>2, <1>4, <2>1 DEF AllWhole
<1>5. QED
  BY <1>1, <1>3, <1>4

LEMMA ProvisionCleansUp ==
  ASSUME DestroyInv, TidyInv, NEW p \in Proc, CleanUp(p) \/ UndoProfile(p) \/ DeleteKey(p)
  PROVE  Tracked(p)' /\ AddressFits(p)' /\ \A run \in Run : Whole(iam'[run])
<1>0. /\ TypeOK /\ JobFits(p) /\ Tracked(p) /\ AddressFits(p) /\ pc[p] \in Applying
      /\ UNCHANGED <<job, jobs>> /\ AllWhole
  BY ProvisionKeeps, TidyParts DEF DestroyInv, Tidy, Provision
<1>1. /\ attempt \in [Proc -> Attempt] /\ attempt[p] \in Attempt /\ pc \in [Proc -> Labels]
      /\ failed \in [Proc -> BOOLEAN] /\ tear \in [Proc -> SUBSET Piece]
      /\ address \in [Nr -> Address \cup {None}]
      /\ denied \in [Proc -> SUBSET (Piece \cup {"lookup", "orphan", "address", "key"})]
      /\ job[p].nr \in Nr /\ job[p].run \in Run /\ job[p].nr # 0 /\ iam[job[p].run] \in SUBSET Piece
  BY <1>0, Applies, TypeFacts DEF Nr
<1>2. UNCHANGED attempt
  BY DEF CleanUp, UndoProfile, DeleteKey
<1>3. /\ pc[p] \in {"clean up", "undo profile", "delete key"}
      /\ pc'[p] \in {"undo profile", "delete key", "refused"}
  BY <1>1 DEF CleanUp, UndoProfile, Teardown, DeleteKey, Goto
<1>4. AddressFits(p)'
  BY <1>3 DEF AddressFits, Creating, ForAddress
<1>5. CASE CleanUp(p)
  <2>1. /\ UNCHANGED <<iam, key>> /\ tear'[p] = attempt[p].made
        /\ pc'[p] = IF attempt[p].made = {} THEN "delete key" ELSE "undo profile"
    BY <1>1, <1>5 DEF CleanUp, ToTearDown, Goto, keys
  <2>2. /\ address'[job[p].nr] # None => address[job[p].nr] # None
        /\ denied'[p] = {} => address'[job[p].nr] = None
        /\ denied'[p] = {} => denied[p] = {}
    <3>1. CASE attempt[p].fresh /\ address' = [address EXCEPT ![attempt[p].addr] = None]
               /\ UNCHANGED denied
      BY <1>0, <1>1, <3>1 DEF Tracked
    <3>2. CASE Deny(p, "address") /\ UNCHANGED address
      BY <1>1, <3>2 DEF Deny
    <3>3. CASE ~attempt[p].fresh /\ UNCHANGED <<address, denied>>
      BY <1>0, <3>3 DEF Tracked
    <3>4. QED
      BY <1>5, <3>1, <3>2, <3>3 DEF CleanUp
  <2>3. Tracked(p)'
    BY <1>0, <1>2, <2>1, <2>2 DEF Tracked, Undoing, ForAddress, Alone
  <2>4. QED
    BY <1>0, <1>4, <2>1, <2>3 DEF AllWhole
<1>6. CASE UndoProfile(p)
  <2>1. /\ pc[p] = "undo profile" /\ Teardown(p, job[p].run, "delete key")
        /\ UNCHANGED <<key, address>>
    BY <1>6 DEF UndoProfile, keys
  <2>2. "delete key" \in Labels
    BY DEF Labels, Applying
  <2>3. /\ \A other \in Run : iam'[other] \subseteq iam[other] /\ Whole(iam'[other])
        /\ pc'[p] = IF tear'[p] = {} THEN "delete key" ELSE pc[p]
        /\ denied'[p] = {} => denied[p] = {}
        /\ \A found \in SUBSET Piece :
              denied'[p] = {} /\ Whole(found) /\ iam[job[p].run] \subseteq found \cup tear[p] =>
                iam'[job[p].run] \subseteq found \cup tear'[p]
    BY <1>0, <1>1, <2>1, <2>2, TeardownStep
  <2>4. attempt[p].found \in SUBSET Piece /\ Whole(attempt[p].found)
    BY <1>0, <1>1 DEF Attempt, Tracked
  <2>5. Alone(p)' => iam'[job[p].run] \subseteq attempt[p].found \cup tear'[p]
    BY <1>0, <2>1, <2>3, <2>4 DEF Tracked, Alone, Undoing
  <2>6. Tracked(p)'
    BY <1>0, <1>1, <1>2, <2>1, <2>3, <2>4, <2>5 DEF Tracked, Undoing, ForAddress
  <2>7. QED
    BY <1>4, <2>3, <2>6
<1>7. CASE DeleteKey(p)
  <2>1. /\ pc[p] = "delete key" /\ pc'[p] = "refused" /\ failed'[p]
        /\ UNCHANGED <<address, iam, tear>>
    BY <1>1, <1>7 DEF DeleteKey, Goto, Fail
  <2>2. /\ denied'[p] = {} => denied[p] = {}
        /\ key' = job[p].nr => key = job[p].nr
        /\ denied'[p] = {} => key' # job[p].nr
    <3>1. CASE key' = (IF attempt[p].keyMade THEN 0 ELSE key) /\ UNCHANGED denied
      <4>1. key = job[p].nr /\ denied[p] = {} => attempt[p].keyMade
        BY <1>0 DEF Tracked
      <4>2. QED
        BY <1>1, <3>1, <4>1
    <3>2. CASE Deny(p, "key") /\ UNCHANGED key
      <4>1. denied'[p] # {}
        BY <1>1, <3>2 DEF Deny
      <4>2. QED
        BY <3>2, <4>1
    <3>3. QED
      BY <1>7, <3>1, <3>2 DEF DeleteKey
  <2>3. Tracked(p)'
    BY <1>0, <1>2, <2>1, <2>2 DEF Tracked, Undoing, ForAddress, Alone
  <2>4. QED
    BY <1>0, <1>4, <2>1, <2>3 DEF AllWhole
<1>8. QED
  BY <1>5, <1>6, <1>7

LEMMA ProvisionKeepsTidy ==
  ASSUME DestroyInv, TidyInv, TypeOK', NEW p \in Proc, Provision(p), UNCHANGED <<del, adrift>>
  PROVE  TidyInv'
<1>0. /\ TypeOK /\ JobFits(p) /\ Tidy(p) /\ pc[p] \in Applying
      /\ UNCHANGED <<job, jobs, adrift>> /\ Apart /\ NrOnce /\ Slots /\ AllWhole
      /\ \A q \in Proc \ {p} : pc'[q] = pc[q]
  BY ProvisionKeeps, ProvisionGoes, TidyParts DEF DestroyInv
<1>1. /\ job[p].nr \in Nr /\ job[p].nr < FirstJob + jobs /\ job[p].run \in Run
      /\ Mine(p) \in Resource /\ Mine(p).run = job[p].run /\ jobs \in Nat
  BY <1>0, Applies, TypeFacts, Numbers DEF JobFits
<1>2. Tidy(p)' /\ \A run \in Run : Whole(iam'[run])
  <2>1. Aimed(p)' /\ TornDown(p)'
    BY ProvisionAims
  <2>2. CASE FindAddress(p) \/ ReleaseOrphans(p) \/ Allocate(p)
    <3>1. UNCHANGED iam
      BY <2>2 DEF FindAddress, ReleaseOrphans, Allocate
    <3>2. QED
      BY <1>0, <2>1, <2>2, <3>1, ProvisionAddressFits DEF Tidy, AllWhole
  <2>3. CASE FindKey(p) \/ CreateKey(p) \/ WritePem(p) \/ MakePiece(p)
    BY <2>1, <2>3, ProvisionKey DEF Tidy
  <2>4. CASE Defaults(p) \/ Create(p) \/ Route(p) \/ Wait(p) \/ WriteRecord(p) \/ Refused(p)
    BY <1>0, <2>1, <2>4, ProvisionCreate DEF Tidy, AllWhole
  <2>5. CASE CleanUp(p) \/ UndoProfile(p) \/ DeleteKey(p)
    BY <2>1, <2>5, ProvisionCleansUp DEF Tidy
  <2>6. QED
    BY <2>2, <2>3, <2>4, <2>5 DEF Provision
<1>3. ASSUME NEW q \in Proc \ {p} PROVE Tidy(q)'
  <2>1. Gentle(q)
    BY ProvisionIsGentle
  <2>2. jobs <= jobs'
    BY <1>0, <1>1
  <2>3. QED
    BY <2>1, <2>2, GentleKeeps
<1>4. Apart'
  BY <1>0 DEF Apart, Touch
<1>5. NrOnce'
  BY <1>0 DEF NrOnce
<1>6. Slots'
  <2>1. key' < FirstJob + jobs'
    <3>1. key' \in {key, 0, job[p].nr}
      BY <1>0, <1>1, ProvisionTakes DEF DestroyInv
    <3>2. 0 < FirstJob + jobs
      BY <1>1 DEF FirstJob
    <3>3. QED
      BY <1>0, <1>1, <3>1, <3>2 DEF Slots
  <2>2. ASSUME NEW i \in Nr, address'[i] # None
        PROVE  /\ i < FirstJob + jobs
               /\ address'[i].by # None => address'[i].run \in {None, address'[i].by.run}
    <3>1. Moved(p, i)
      BY <1>0, ProvisionMoves DEF Tidy
    <3>2. CASE address'[i] = address[i]
      BY <1>0, <2>2, <3>2 DEF Slots
    <3>3. CASE pc[p] = "allocate" /\ i = job[p].nr /\ address'[i].by = None
      BY <1>1, <3>3
    <3>4. CASE /\ pc[p] \in Creating /\ i = attempt[p].addr /\ address[i] # None
               /\ address'[i].run = address[i].run /\ address'[i].by = Mine(p)
      <4>1. attempt[p].addr # 0
        BY <3>4 DEF Nr
      <4>2. address[i].run \in {None, job[p].run}
        BY <1>0, <3>4, <4>1 DEF Tidy, AddressFits
      <4>3. i < FirstJob + jobs
        BY <1>0, <3>4 DEF Slots
      <4>4. QED
        BY <1>1, <3>4, <4>2, <4>3
    <3>5. QED
      BY <2>2, <3>1, <3>2, <3>3, <3>4 DEF Moved
  <2>3. QED
    BY <1>0, <2>1, <2>2 DEF Slots
<1>7. QED
  BY <1>2, <1>3, <1>4, <1>5, <1>6 DEF TidyInv, Tidy

-----------------------------------------------------------------------------
(* ... and what destroying does to it. *)

\* A deletion that is given up is of the command's target.
LEMMA DestroyStrands ==
  ASSUME NEW p \in Proc, DestroyStep(p)
  PROVE  adrift' \subseteq adrift \/ (pc[p] = "poll" /\ adrift' \subseteq adrift \cup {Target(p)})
<1>1. CASE \/ Enumerate(p) \/ Confirm(p) \/ NextTarget(p) \/ Resolve(p) \/ Disable(p)
           \/ Schedule(p) \/ Hook(p) \/ Recheck(p)
  BY <1>1 DEF Enumerate, Confirm, NextTarget, Resolve, Disable, Schedule, Hook, Recheck
<1>2. CASE Delete(p) \/ Classify(p) \/ Tombstone(p) \/ Cascade(p)
  BY <1>2 DEF Delete, Classify, Tombstone, Cascade
<1>3. CASE Poll(p) \/ PollsExhausted(p)
  BY <1>3 DEF Poll, PollsExhausted, Abandoned
<1>4. QED
  BY <1>1, <1>2, <1>3 DEF DestroyStep

\* The target changes only when a sweep goes on.
LEMMA DestroyTargets ==
  ASSUME TypeOK, NEW p \in Proc, JobFits(p), DestroyStep(p)
  PROVE  \/ pc[p] \in Sweeping /\ job[p].op = "sweep"
         \/ /\ pc[p] \in Deleting \cup {"tombstone", "cascade"}
            /\ Target(p)' = Target(p)
<1>0. del \in [Proc -> Deletion] /\ del[p] \in Deletion
  BY TypeFacts
<1> USE <1>0 DEF Deletion, Target, Sweeping, Deleting, Preparing
<1>1. CASE Enumerate(p) \/ Confirm(p) \/ NextTarget(p)
  BY <1>1 DEF Enumerate, Confirm, NextTarget, JobFits
<1>2. CASE Resolve(p)
  BY <1>2 DEF Resolve
<1>3. CASE Disable(p) \/ Schedule(p) \/ Hook(p) \/ Recheck(p) \/ Tombstone(p) \/ Cascade(p)
  BY <1>3 DEF Disable, Schedule, Hook, Recheck, Tombstone, Cascade
<1>4. CASE Delete(p) \/ Classify(p) \/ PollsExhausted(p)
  BY <1>4 DEF Delete, Classify, PollsExhausted
<1>5. CASE Poll(p)
  BY <1>5 DEF Poll
<1>6. QED
  BY <1>1, <1>2, <1>3, <1>4, <1>5 DEF DestroyStep

LEMMA DestroyTakes ==
  ASSUME TypeOK, AllWhole, NEW p \in Proc, DeletionFits(p), TornDown(p), DestroyStep(p)
  PROVE  /\ \A run \in Run : iam'[run] \subseteq iam[run] /\ Whole(iam'[run])
         /\ \A q \in Proc \ {p} : tear'[q] = tear[q] /\ denied'[q] = denied[q]
         /\ UNCHANGED job => TornDown(p)'
<1>0. /\ iam \in [Run -> SUBSET Piece] /\ tear \in [Proc -> SUBSET Piece]
      /\ pc \in [Proc -> Labels]
      /\ denied \in [Proc -> SUBSET (Piece \cup {"lookup", "orphan", "address", "key"})]
  BY TypeFacts
<1> USE <1>0
<1>1. CASE \/ Enumerate(p) \/ Confirm(p) \/ NextTarget(p) \/ Resolve(p) \/ Disable(p)
           \/ Schedule(p) \/ Hook(p) \/ Recheck(p) \/ Delete(p) \/ Poll(p)
           \/ PollsExhausted(p) \/ Classify(p)
  <2>1. UNCHANGED <<iam, tear, denied>>
    BY <1>1 DEF Enumerate, Confirm, NextTarget, Resolve, Disable, Schedule, Hook, Recheck,
                Delete, Poll, PollsExhausted, Classify, elsewhere
  <2>2. pc'[p] # "cascade"
    <3> USE DEF Goto, GiveUp, Succeed, After
    <3>1. CASE Enumerate(p) \/ Confirm(p) \/ NextTarget(p)
      BY <3>1 DEF Enumerate, Plan, Confirm, NextTarget
    <3>2. CASE Resolve(p)
      BY <3>2 DEF Resolve
    <3>3. CASE Disable(p) \/ Schedule(p) \/ Recheck(p)
      BY <3>3 DEF Disable, Schedule, Recheck
    <3>4. CASE Hook(p)
      BY <3>4 DEF Hook
    <3>5. CASE Delete(p) \/ Classify(p)
      BY <3>5 DEF Delete, Classify
    <3>6. CASE Poll(p) \/ PollsExhausted(p)
      BY <3>6 DEF Poll, PollsExhausted, TimedOut
    <3>7. QED
      BY <1>1, <3>1, <3>2, <3>3, <3>4, <3>5, <3>6
  <2>3. QED
    BY <2>1, <2>2 DEF TornDown, AllWhole
<1>2. CASE Tombstone(p)
  <2>1. UNCHANGED <<iam, denied, del>>
    BY <1>2 DEF Tombstone
  <2>2. /\ \A q \in Proc \ {p} : tear'[q] = tear[q]
        /\ pc'[p] = "cascade" => tear'[p] = Piece
    BY <1>2 DEF Tombstone, Goto, GiveUp, Succeed, After
  <2>3. pc'[p] = "cascade" => Target(p).run \in Run
    BY <1>2 DEF Tombstone, DeletionFits, Resource
  <2>4. QED
    BY <2>1, <2>2, <2>3 DEF TornDown, AllWhole, Target
<1>3. CASE Cascade(p)
  <2>1. pc[p] = "cascade" /\ Teardown(p, Target(p).run, After(p)) /\ UNCHANGED del
    BY <1>3 DEF Cascade
  <2>2. Target(p).run \in Run /\ After(p) \in Labels
    BY <2>1 DEF DeletionFits, Resource, After, Labels, Sweeping
  <2>3. /\ \A other \in Run : iam'[other] \subseteq iam[other] /\ Whole(iam'[other])
        /\ denied'[p] = {} => denied[p] = {}
        /\ \A found \in SUBSET Piece :
             denied'[p] = {} /\ Whole(found) /\ iam[Target(p).run] \subseteq found \cup tear[p] =>
               iam'[Target(p).run] \subseteq found \cup tear'[p]
    BY <2>1, <2>2, TeardownStep
  <2>4. Whole({}) /\ {} \in SUBSET Piece
    BY DEF Whole
  <2>5. UNCHANGED job /\ Alone(p)' => iam'[Target(p).run] \subseteq tear'[p]
    BY <2>1, <2>3, <2>4 DEF TornDown, Alone
  <2>6. \A q \in Proc \ {p} : tear'[q] = tear[q] /\ denied'[q] = denied[q]
    BY <2>1 DEF Teardown, Deny
  <2>7. QED
    BY <2>1, <2>3, <2>5, <2>6 DEF TornDown, Target
<1>4. QED
  BY <1>1, <1>2, <1>3 DEF DestroyStep

LEMMA DestroyKeepsTidy ==
  ASSUME DestroyInv, TidyInv, TypeOK', NEW p \in Proc, DestroyStep(p), UNCHANGED attempt
  PROVE  TidyInv'
<1>0. /\ TypeOK /\ JobFits(p) /\ DeletionFits(p) /\ Tidy(p) /\ TornDown(p)
      /\ Apart /\ NrOnce /\ Slots /\ AllWhole
  BY TidyParts DEF DestroyInv, Tidy
<1>1. /\ UNCHANGED <<job, jobs, address, key>>
      /\ pc[p] \in Sweeping \cup Deleting \cup {"tombstone", "cascade"}
      /\ pc'[p] \in Sweeping \cup Deleting \cup {"tombstone", "cascade", "over"}
      /\ \A q \in Proc \ {p} : pc'[q] = pc[q] /\ failed'[q] = failed[q] /\ del'[q] = del[q]
  BY <1>0, DestroyKeeps, DestroyGoes, DestroyNotes, DeletionTypes
<1>2. /\ \A run \in Run : iam'[run] \subseteq iam[run] /\ Whole(iam'[run])
      /\ \A q \in Proc \ {p} : tear'[q] = tear[q] /\ denied'[q] = denied[q]
      /\ TornDown(p)'
  BY <1>0, <1>1, DestroyTakes
<1>3. pc'[p] \notin Applying \cup Creating \cup {"idle", "record"}
  BY <1>1 DEF Applying, Creating, ForAddress, Sweeping, Deleting, Preparing
<1>4. job[p] # None /\ job[p].op # "apply"
  <2>1. pc[p] # "idle"
    BY <1>1 DEF Sweeping, Deleting, Preparing
  <2>2. QED
    BY <1>0, <1>1, <2>1 DEF Tidy, Aimed
<1>5. Aimed(p)'
  <2>1. Target(p)'.run = job[p].run \/ job[p].run = None
        \/ pc'[p] \notin Deleting \cup {"tombstone", "cascade"}
    BY <1>0, <1>4, DestroyTargets DEF Tidy, Aimed
  <2>2. pc'[p] \notin {"idle", "find key", "create key", "write pem", "profile"}
    BY <1>1 DEF Sweeping, Deleting, Preparing
  <2>3. job[p].op = "sweep" <=> job[p].run = None
    BY <1>0, <1>4 DEF Tidy, Aimed
  <2>4. QED
    BY <1>1, <1>4, <2>1, <2>2, <2>3 DEF Aimed
<1>6. Tidy(p)'
  BY <1>1, <1>2, <1>3, <1>4, <1>5 DEF Tidy, Tracked, AddressFits
<1>7. ASSUME NEW q \in Proc \ {p} PROVE Tidy(q)'
  <2>1. Own(q)
    BY <1>1, <1>2 DEF Own
  <2>2. Numbering(q)
    BY <1>1 DEF Numbering
  <2>3. Attempted(q)
    <3>1. SUFFICES ASSUME pc[q] \in Creating, attempt[q].addr # 0 PROVE Attempted(q)
      BY DEF Attempted
    <3>2. \A x \in Proc : pc[x] \in Applying /\ attempt[q].addr = job[x].nr => attempt[x].fresh
      BY <3>1, TidyParts DEF Tidy, AddressFits
    <3>3. \A x \in Proc : pc'[x] \in Applying => pc[x] \in Applying
      BY <1>1, <1>3
    <3>4. QED
      BY <1>1, <3>2, <3>3 DEF Attempted
  <2>4. LeftAlone(q)
    BY <1>1, <1>2 DEF LeftAlone
  <2>5. jobs <= jobs'
    BY <1>0, <1>1, TypeFacts, Numbers
  <2>6. QED
    BY <2>1, <2>2, <2>3, <2>4, <2>5, GentleKeeps DEF Gentle
<1>8. Apart'
  <2>1. SUFFICES ASSUME NEW q \in Proc, job[q] # None, job[q].alone, job[q].op = "apply",
                        NEW a \in adrift'
                 PROVE  a.run # job[q].run
    BY <1>0, <1>1 DEF Apart, Touch
  <2>2. CASE a \in adrift
    BY <1>0, <2>1, <2>2 DEF Apart
  <2>3. CASE a \notin adrift
    <3>1. pc[p] = "poll" /\ a = Target(p)
      BY <2>1, <2>3, DestroyStrands
    <3>2. a.run = job[p].run \/ job[p].run = None
      BY <1>0, <3>1 DEF Tidy, Aimed, Deleting
    <3>3. job[p].run # job[q].run /\ job[p].run # None
      BY <1>4, <2>1, Strangers
    <3>4. QED
      BY <3>2, <3>3
  <2>4. QED
    BY <2>2, <2>3
<1>9. NrOnce'
  BY <1>0, <1>1, <1>3 DEF NrOnce
<1>10. Slots'
  BY <1>0, <1>1 DEF Slots
<1>11. QED
  BY <1>2, <1>6, <1>7, <1>8, <1>9, <1>10 DEF TidyInv, Tidy

-----------------------------------------------------------------------------
(* ... and AWS, in its own time. *)

\* A gateway that goes leaves its address.
LEMMA OutcomeMoves ==
  ASSUME TypeOK, NEW a, NEW result, Outcome(a, result), NEW i \in Nr
  PROVE  \/ address'[i] = address[i]
         \/ /\ address[i] # None /\ address'[i] # None /\ address'[i].run = address[i].run
            /\ address'[i].by = None /\ address[i].by \in Resource /\ address[i].by.run = a.run
<1>1. CASE UNCHANGED address
  BY <1>1
<1>2. CASE Vanish(a) /\ Kind[a.run] # "cmk"
  <2>1. address[i] # None => address[i] \in Address
    BY TypeFacts
  <2>2. \A r \in Living(a) : r \in Resource /\ r.run = a.run
    BY TypeFacts, ArnIsResource DEF Living
  <2>3. CASE address[i] # None /\ address[i].by \in Living(a)
    <3>1. address'[i] = [address[i] EXCEPT !.by = None]
      BY <1>2, <2>3 DEF Vanish
    <3>2. address'[i] \in Address /\ address'[i].run = address[i].run /\ address'[i].by = None
      BY <2>1, <2>3, <3>1 DEF Address
    <3>3. QED
      BY <2>2, <2>3, <3>2, NoValueAssumption
  <2>4. CASE ~(address[i] # None /\ address[i].by \in Living(a))
    BY <1>2, <2>4 DEF Vanish
  <2>5. QED
    BY <2>3, <2>4
<1>3. QED
  BY <1>1, <1>2 DEF Outcome, Vanish

LEMMA AwsKeepsTidy ==
  ASSUME DestroyInv, TidyInv, TypeOK',
         UNCHANGED <<pc, job, jobs, attempt, tear, denied, failed, key, iam>>,
         adrift' \subseteq adrift, \A q \in Proc : del'[q].target = del[q].target,
         UNCHANGED address
           \/ \E a : /\ \E result : Outcome(a, result)
                     /\ \A q \in Proc : job[q] # None /\ job[q].alone /\ job[q].op = "apply" =>
                          a.run # job[q].run
  PROVE  TidyInv'
<1>0. TypeOK /\ Apart /\ NrOnce /\ Slots /\ AllWhole /\ \A q \in Proc : Tidy(q)
  BY TidyParts DEF DestroyInv
<1> DEFINE Freed(i) ==
      /\ address[i] # None /\ address'[i] # None /\ address'[i].run = address[i].run
      /\ address'[i].by = None /\ address[i].by \in Resource
      /\ \A q \in Proc : job[q] # None /\ job[q].alone /\ job[q].op = "apply" =>
           address[i].by.run # job[q].run
<1>1. \A i \in Nr : address'[i] = address[i] \/ Freed(i)
  <2>1. CASE UNCHANGED address
    BY <2>1
  <2>2. CASE \E a : /\ \E result : Outcome(a, result)
                    /\ \A q \in Proc : job[q] # None /\ job[q].alone /\ job[q].op = "apply" =>
                          a.run # job[q].run
    <3>1. PICK a, result : /\ Outcome(a, result)
                           /\ \A q \in Proc : job[q] # None /\ job[q].alone /\ job[q].op = "apply" =>
                                a.run # job[q].run
      BY <2>2
    <3>2. QED
      BY <1>0, <3>1, OutcomeMoves
  <2>3. QED
    BY <2>1, <2>2
<1>2. ASSUME NEW q \in Proc PROVE Tidy(q)'
  <2>1. Own(q)
    BY DEF Own
  <2>2. Numbering(q)
    <3>1. SUFFICES ASSUME pc[q] \in Applying
                   PROVE  address'[job[q].nr] # None => address[job[q].nr] # None
      BY DEF Numbering
    <3>2. job[q].nr \in Nr
      BY <3>1 DEF DestroyInv, JobFits
    <3>3. QED
      BY <1>1, <3>2
  <2>3. Attempted(q)
    <3>1. SUFFICES ASSUME pc[q] \in Creating, attempt[q].addr # 0 PROVE Attempted(q)
      BY DEF Attempted
    <3>2. \A x \in Proc : pc[x] \in Applying /\ attempt[q].addr = job[x].nr => attempt[x].fresh
      BY <1>0, <3>1 DEF Tidy, AddressFits
    <3>3. attempt[q].addr \in Nr
      BY <1>0, <3>1, TypeFacts DEF Attempt
    <3>4. QED
      BY <1>1, <3>2, <3>3 DEF Attempted
  <2>4. LeftAlone(q)
    <3>1. SUFFICES ASSUME job[q] # None, job[q].alone, job[q].op = "apply", NEW i \in Nr,
                          address'[i] # None, address'[i].run = job[q].run
                   PROVE  /\ address[i] # None /\ address[i].run = job[q].run
                          /\ address[i].by # None => address'[i].by # None
      BY DEF LeftAlone
    <3>2. job[q].run # None
      BY <1>0, <3>1 DEF Tidy, Aimed
    <3>3. ~Freed(i)
      BY <1>0, <3>1, <3>2, NoValueAssumption DEF Slots
    <3>4. QED
      BY <1>1, <3>1, <3>3
  <2>5. jobs <= jobs'
    BY <1>0, TypeFacts, Numbers
  <2>6. QED
    BY <2>1, <2>2, <2>3, <2>4, <2>5, GentleKeeps DEF Gentle
<1>3. Apart'
  BY <1>0 DEF Apart, Touch
<1>4. NrOnce' /\ \A run \in Run : Whole(iam'[run])
  BY <1>0 DEF NrOnce, AllWhole
<1>5. Slots'
  BY <1>0, <1>1 DEF Slots
<1>6. QED
  BY <1>2, <1>3, <1>4, <1>5 DEF TidyInv, Tidy

LEMMA WorldKeepsTidy ==
  ASSUME DestroyInv, TidyInv, TypeOK',
         \/ \E p \in Proc : Settle(p) /\ UNCHANGED attempt
         \/ \E a \in adrift : SettleAdrift(a) /\ UNCHANGED attempt
         \/ IndexForgets
         \/ \E r \in shown : LoseTag(r)
         \/ UNCHANGED vars
  PROVE  TidyInv'
<1>0. /\ TypeOK /\ Apart /\ \A q \in Proc : Tidy(q) /\ DeletionFits(q)
      /\ del \in [Proc -> Deletion]
  BY TidyParts, TypeFacts DEF DestroyInv
<1>1. ASSUME NEW p \in Proc, Settle(p), UNCHANGED attempt PROVE TidyInv'
  <2>1. UNCHANGED <<pc, job, jobs, attempt, tear, denied, failed, key, iam, adrift>>
    BY <1>1 DEF Settle, keys, frame
  <2>2. PICK result \in Answer :
          Outcome(Target(p), result) /\ del' = [del EXCEPT ![p].request = result]
    BY <1>1 DEF Settle
  <2>3. \A q \in Proc : del'[q].target = del[q].target
    BY <1>0, <2>2 DEF Deletion
  <2>4. pc[p] = "poll"
    BY <1>0, <1>1 DEF Settle, DeletionFits
  <2>5. /\ job[p] # None /\ job[p].op # "apply"
        /\ Target(p).run = job[p].run \/ job[p].run = None
    BY <1>0, <2>4 DEF Tidy, Aimed, Deleting
  <2>6. \A q \in Proc : job[q] # None /\ job[q].alone /\ job[q].op = "apply" =>
          Target(p).run # job[q].run
    BY <2>5, Strangers
  <2>7. QED
    BY <2>1, <2>2, <2>3, <2>6, AwsKeepsTidy
<1>2. ASSUME NEW a \in adrift, SettleAdrift(a), UNCHANGED attempt PROVE TidyInv'
  <2>1. /\ UNCHANGED <<pc, job, jobs, attempt, tear, denied, failed, key, iam, del>>
        /\ adrift' \subseteq adrift /\ \E result : Outcome(a, result)
    BY <1>2 DEF SettleAdrift, keys, frame
  <2>2. \A q \in Proc : job[q] # None /\ job[q].alone /\ job[q].op = "apply" =>
          a.run # job[q].run
    BY <1>0 DEF Apart
  <2>3. QED
    BY <2>1, <2>2, AwsKeepsTidy
<1>3. CASE IndexForgets \/ (\E r \in shown : LoseTag(r)) \/ UNCHANGED vars
  <2>1. UNCHANGED <<pc, job, jobs, attempt, tear, denied, failed, key, iam, del, adrift, address>>
    BY <1>3 DEF IndexForgets, LoseTag, vars, keys, frame
  <2>2. QED
    BY <2>1, AwsKeepsTidy
<1>4. QED
  BY <1>1, <1>2, <1>3

-----------------------------------------------------------------------------
(* ... and commands that end and begin. *)

LEMMA EndKeepsTidy ==
  ASSUME DestroyInv, TidyInv, TypeOK', NEW p \in Proc, End(p)
  PROVE  TidyInv'
<1>0. /\ TypeOK /\ Apart /\ NrOnce /\ Slots /\ AllWhole /\ \A q \in Proc : Tidy(q)
      /\ jobs \in Nat
  BY TidyParts, TypeFacts, Numbers DEF DestroyInv
<1>1. /\ pc'[p] = "idle" /\ job'[p] = None
      /\ UNCHANGED <<address, key, iam, jobs, tear, adrift>>
      /\ \A q \in Proc \ {p} :
           /\ pc'[q] = pc[q] /\ job'[q] = job[q] /\ attempt'[q] = attempt[q]
           /\ del'[q] = del[q] /\ denied'[q] = denied[q] /\ failed'[q] = failed[q]
  BY <1>0, TypeFacts DEF End, Goto, keys
<1>2. pc'[p] \notin Applying \cup Creating \cup Sweeping \cup Deleting
                     \cup {"tombstone", "cascade", "find key", "create key", "write pem", "profile"}
  BY <1>1 DEF Applying, Creating, ForAddress, Sweeping, Deleting, Preparing
<1>3. Tidy(p)'
  BY <1>1, <1>2 DEF Tidy, Aimed, Tracked, TornDown, AddressFits
<1>4. ASSUME NEW q \in Proc \ {p} PROVE Tidy(q)'
  <2>1. Own(q) /\ Numbering(q) /\ LeftAlone(q)
    BY <1>1 DEF Own, Numbering, LeftAlone
  <2>2. Attempted(q)
    <3>1. SUFFICES ASSUME pc[q] \in Creating, attempt[q].addr # 0 PROVE Attempted(q)
      BY DEF Attempted
    <3>2. \A x \in Proc : pc[x] \in Applying /\ attempt[q].addr = job[x].nr => attempt[x].fresh
      BY <1>0, <3>1 DEF Tidy, AddressFits
    <3>3. \A x \in Proc : pc'[x] \in Applying => x # p
      BY <1>2
    <3>4. QED
      BY <1>1, <3>2, <3>3 DEF Attempted
  <2>3. jobs <= jobs'
    BY <1>0, <1>1
  <2>4. QED
    BY <2>1, <2>2, <2>3, GentleKeeps DEF Gentle
<1>5. Apart' /\ NrOnce' /\ Slots'
  BY <1>0, <1>1, <1>2 DEF Apart, Touch, NrOnce, Slots
<1>6. QED
  BY <1>0, <1>1, <1>3, <1>4, <1>5 DEF TidyInv, Tidy, AllWhole

\* Who is still alone when a command has begun.
LEMMA StartAlone ==
  ASSUME TypeOK, NEW p \in Proc, NEW c \in Command, Start(p, c)
  PROVE  /\ job'[p].alone => /\ \A d \in Proc : job[d] # None => ~Touch(c, job[d])
                             /\ \A a \in adrift : a.run # c.run
         /\ \A q \in Proc \ {p} :
              /\ job'[q] = None <=> job[q] = None
              /\ job[q] # None /\ job'[q].alone => job[q].alone /\ ~Touch(c, job[q])
<1>0. job \in [Proc -> Job \cup {None}]
  BY TypeFacts
<1> DEFINE mine == [op |-> c.op, run |-> c.run,
                    nr |-> IF c.op = "apply" THEN FirstJob + jobs ELSE 0,
                    alone |-> /\ \A d \in Proc : Busy(d) => ~Touch(c, job[d])
                              /\ \A a \in adrift : a.run # c.run]
           other(q) == IF Busy(q) /\ Touch(c, job[q]) THEN [job[q] EXCEPT !.alone = FALSE]
                                                      ELSE job[q]
<1>1. job' = [q \in Proc |-> IF q = p THEN mine ELSE other(q)]
  BY DEF Start
<1>2. ASSUME NEW q \in Proc
      PROVE  /\ other(q) = None <=> job[q] = None
             /\ job[q] # None /\ other(q).alone => job[q].alone /\ ~Touch(c, job[q])
  <2>1. CASE Busy(q) /\ Touch(c, job[q])
    <3>1. job[q] \in Job
      BY <1>0, <2>1 DEF Busy
    <3>2. other(q) \in Job /\ ~other(q).alone
      BY <2>1, <3>1 DEF Job
    <3>3. QED
      BY <2>1, <3>2, JobAssumption DEF Busy
  <2>2. CASE ~(Busy(q) /\ Touch(c, job[q]))
    BY <2>2 DEF Busy
  <2>3. QED
    BY <2>1, <2>2
<1>3. mine.alone <=> /\ \A d \in Proc : Busy(d) => ~Touch(c, job[d])
                     /\ \A a \in adrift : a.run # c.run
  OBVIOUS
<1> HIDE DEF mine, other
<1>4. job'[p] = mine /\ \A q \in Proc \ {p} : job'[q] = other(q)
  BY <1>1
<1>5. QED
  BY <1>2, <1>3, <1>4 DEF Busy

LEMMA BeginKeepsTidy ==
  ASSUME DestroyInv, TidyInv, TypeOK', NEW p \in Proc, NEW c \in Command,
         BeginApply(p, c) \/ BeginDestroy(p, c) \/ BeginSweep(p, c)
  PROVE  TidyInv'
<1>0. /\ TypeOK /\ Apart /\ NrOnce /\ Slots /\ AllWhole
      /\ \A q \in Proc : Tidy(q) /\ JobFits(q)
  BY TidyParts DEF DestroyInv
<1>1. Start(p, c)
  BY <1>0, BeginFacts
<1>2. /\ pc[p] = "idle" /\ jobs' = jobs + 1 /\ jobs \in 0..(MaxJobs - 1)
      /\ job'[p] # None /\ job'[p].op = c.op /\ job'[p].run = c.run
      /\ c.op = "apply" => job'[p].nr = FirstJob + jobs
      /\ UNCHANGED <<address, key, iam, failed, denied, tear, adrift>>
  BY <1>0, <1>1, StartFacts DEF keys
<1>3. jobs \in Nat /\ jobs' \in Nat /\ jobs < jobs' /\ FirstJob + jobs \in Nr
  BY <1>2, Numbers
<1>4. /\ job'[p].alone => /\ \A d \in Proc : job[d] # None => ~Touch(c, job[d])
                          /\ \A a \in adrift : a.run # c.run
      /\ \A q \in Proc \ {p} :
           /\ job'[q] = None <=> job[q] = None
           /\ job[q] # None /\ job'[q].alone => job[q].alone /\ ~Touch(c, job[q])
  BY <1>0, <1>1, StartAlone
<1>5. \A q \in Proc \ {p} :
        /\ job'[q].op = job[q].op /\ job'[q].run = job[q].run /\ job'[q].nr = job[q].nr
        /\ pc'[q] = pc[q] /\ attempt'[q] = attempt[q] /\ del'[q] = del[q]
  BY <1>0, <1>1, StartFacts, BeginFacts
<1>6. Tidy(p)'
  <2>1. CASE c.op = "apply"
    <3>1. BeginApply(p, c)
      BY <2>1 DEF BeginDestroy, BeginSweep, BeginApply
    <3>2. /\ attempt'[p] = Fresh(Kind[c.run], iam[c.run])
          /\ pc'[p] = FirstHook(Kind[c.run])
          /\ c.run \in Run /\ c.run # None
      BY <1>0, <2>1, <3>1, TypeFacts, RunAssumption DEF BeginApply, Goto, Command
    <3>3. /\ attempt'[p].addr = 0 /\ ~attempt'[p].fresh /\ attempt'[p].found = iam[c.run]
      BY <3>2 DEF Fresh
    <3>4. /\ pc'[p] \in {"find address", "find key", "defaults"}
          /\ pc'[p] = "find key" => Kind[c.run] = "instance"
          /\ pc'[p] = "defaults" => Kind[c.run] # "nat"
      BY <3>2 DEF FirstHook
    <3>5. pc'[p] \notin Sweeping \cup Deleting \cup {"tombstone", "cascade"} \cup Undoing
      BY <3>4 DEF Sweeping, Deleting, Preparing, Undoing
    <3>6. Aimed(p)'
      BY <1>2, <2>1, <3>2, <3>4, <3>5 DEF Aimed
    <3>7. address[FirstJob + jobs] = None /\ key # FirstJob + jobs
      BY <1>0, <1>3 DEF Slots, FirstJob
    <3>8. Tracked(p)'
      BY <1>0, <1>2, <2>1, <3>2, <3>3, <3>5, <3>7 DEF Tracked, AllWhole, Undoing
    <3>9. TornDown(p)' /\ AddressFits(p)'
      BY <1>2, <3>3, <3>4, <3>5 DEF TornDown, AddressFits
    <3>10. QED
      BY <3>6, <3>8, <3>9 DEF Tidy
  <2>2. CASE c.op # "apply"
    <3>1. pc'[p] \in {"resolve", "enumerate"}
      BY <1>0, <2>2, BeginFacts
    <3>2. c.op = "sweep" <=> c.run = None
      BY RunAssumption DEF Command
    <3>3. pc'[p] = "resolve" => Target(p)'.run = c.run
      <4>1. SUFFICES ASSUME pc'[p] = "resolve" PROVE Target(p)'.run = c.run
        OBVIOUS
      <4>2. BeginDestroy(p, c)
        BY <1>0, <2>2, <4>1, TypeFacts DEF BeginApply, BeginSweep, Goto
      <4>3. PICK a \in Nameable(c.run) : del' = [del EXCEPT ![p].target = a]
        BY <4>2 DEF BeginDestroy
      <4>4. a.run = c.run
        BY <1>0, <4>3, TypeFacts, ArnIsResource DEF Nameable
      <4>5. QED
        BY <1>0, <4>3, <4>4, TypeFacts DEF Target, Deletion
    <3>4. pc'[p] \notin Applying \cup Creating
                         \cup {"idle", "cascade", "find key", "create key", "write pem", "profile"}
      BY <3>1 DEF Applying, Creating, ForAddress
    <3>5. pc'[p] \in Deleting \cup {"tombstone", "cascade"} => pc'[p] = "resolve"
      BY <3>1 DEF Deleting, Preparing
    <3>6. Aimed(p)'
      BY <1>2, <2>2, <3>2, <3>3, <3>4, <3>5 DEF Aimed
    <3>7. Tracked(p)' /\ TornDown(p)' /\ AddressFits(p)'
      BY <1>2, <2>2, <3>4 DEF Tracked, TornDown, AddressFits
    <3>8. QED
      BY <3>6, <3>7 DEF Tidy
  <2>3. QED
    BY <2>1, <2>2
<1>7. ASSUME NEW q \in Proc \ {p} PROVE Tidy(q)'
  <2>1. Own(q)
    BY <1>2, <1>4, <1>5 DEF Own
  <2>2. Numbering(q) /\ LeftAlone(q)
    BY <1>2 DEF Numbering, LeftAlone
  <2>3. Attempted(q)
    <3>1. SUFFICES ASSUME pc[q] \in Creating, attempt[q].addr # 0 PROVE Attempted(q)
      BY DEF Attempted
    <3>2. /\ \A x \in Proc : pc[x] \in Applying /\ attempt[q].addr = job[x].nr => attempt[x].fresh
          /\ attempt[q].addr < FirstJob + jobs
      BY <1>0, <3>1 DEF Tidy, AddressFits
    <3>3. attempt[q].addr \in Nat
      BY <1>0, <3>1, TypeFacts DEF Attempt, Nr
    <3>4. pc'[p] \in Applying => attempt[q].addr # job'[p].nr
      <4>1. CASE c.op = "apply"
        BY <1>2, <1>3, <3>2, <3>3, <4>1, Numbers
      <4>2. CASE c.op # "apply"
        <5>1. pc'[p] \in {"resolve", "enumerate"}
          BY <1>0, <4>2, BeginFacts
        <5>2. QED
          BY <5>1 DEF Applying, Creating, ForAddress
      <4>3. QED
        BY <4>1, <4>2
    <3>5. QED
      BY <1>2, <1>5, <3>2, <3>4 DEF Attempted
  <2>4. jobs <= jobs'
    BY <1>3
  <2>5. QED
    BY <2>1, <2>2, <2>3, <2>4, GentleKeeps DEF Gentle
<1>8. Apart'
  <2>1. ASSUME NEW q \in Proc, job'[q] # None, job'[q].alone,
               NEW x \in Proc \ {q}, job'[x] # None
        PROVE  ~Touch(job'[q], job'[x])
    <3>1. CASE q = p
      BY <1>2, <1>4, <1>5, <2>1, <3>1 DEF Touch
    <3>2. CASE x = p
      BY <1>2, <1>4, <1>5, <2>1, <3>2 DEF Touch
    <3>3. CASE q # p /\ x # p
      BY <1>0, <1>4, <1>5, <2>1, <3>3 DEF Apart, Touch
    <3>4. QED
      BY <3>1, <3>2, <3>3
  <2>2. ASSUME NEW q \in Proc, job'[q] # None, job'[q].alone, job'[q].op = "apply",
               NEW a \in adrift
        PROVE  a.run # job'[q].run
    <3>1. CASE q = p
      BY <1>2, <1>4, <2>2, <3>1
    <3>2. CASE q # p
      BY <1>0, <1>4, <1>5, <2>2, <3>2 DEF Apart
    <3>3. QED
      BY <3>1, <3>2
  <2>3. QED
    BY <1>2, <2>1, <2>2 DEF Apart, Touch
<1>9. NrOnce'
  <2>1. ASSUME NEW q \in Proc \ {p}, pc'[p] \in Applying, pc'[q] \in Applying
        PROVE  job'[p].nr # job'[q].nr
    <3>1. c.op = "apply"
      <4>1. c.op # "apply" => pc'[p] \in {"resolve", "enumerate"}
        BY <1>0, BeginFacts
      <4>2. QED
        BY <2>1, <4>1 DEF Applying, Creating, ForAddress
    <3>2. job[q].nr \in Nat /\ job[q].nr < FirstJob + jobs
      BY <1>0, <1>5, <2>1 DEF JobFits, Nr
    <3>3. QED
      BY <1>2, <1>3, <1>5, <3>1, <3>2, Numbers
  <2>2. QED
    BY <1>0, <1>5, <2>1 DEF NrOnce
<1>10. Slots'
  <2>1. key \in Nat /\ \A i \in Nr : i \in Nat
    BY <1>0, TypeFacts DEF Nr
  <2>2. QED
    BY <1>0, <1>2, <1>3, <2>1, Numbers DEF Slots
<1>11. QED
  BY <1>0, <1>2, <1>6, <1>7, <1>8, <1>9, <1>10 DEF TidyInv, Tidy, AllWhole

-----------------------------------------------------------------------------
(* The theorems. *)

LEMMA TidyInit ==
  ASSUME Init
  PROVE  TidyInv
<1>1. PICK w \in Worlds :
        address = w.address /\ iam = w.iam /\ key = w.key
  BY DEF Init
<1>2. /\ w \in World
      /\ \A i \in Nr : address[i] # None => i < FirstJob /\ address[i].by = None
  BY <1>1, WorldsAssumption
<1>3. /\ pc = [p \in Proc |-> "idle"] /\ job = [p \in Proc |-> None] /\ jobs = 0
  BY DEF Init
<1>4. Apart /\ NrOnce
  BY <1>3 DEF Apart, NrOnce, Applying, Creating, ForAddress
<1>5. Slots
  BY <1>1, <1>2, <1>3 DEF Slots, World, FirstJob
<1>6. \A run \in Run : Whole(iam[run])
  BY <1>1, <1>2 DEF World
<1>7. ASSUME NEW p \in Proc PROVE Tidy(p)
  <2>1. pc[p] = "idle" /\ job[p] = None
    BY <1>3
  <2>2. pc[p] \notin Applying \cup Creating \cup Sweeping \cup Deleting
                     \cup {"tombstone", "cascade", "find key", "create key", "write pem", "profile"}
    BY <2>1 DEF Applying, Creating, ForAddress, Sweeping, Deleting, Preparing
  <2>3. QED
    BY <2>1, <2>2 DEF Tidy, Aimed, Tracked, TornDown, AddressFits
<1>8. QED
  BY <1>4, <1>5, <1>6, <1>7 DEF TidyInv, Tidy

LEMMA TidyStep ==
  ASSUME LifecycleInv, [Next]_vars
  PROVE  TidyInv'
<1>0. DestroyInv /\ TidyInv /\ TypeOK'
  BY TypeStep DEF LifecycleInv
<1>1. ASSUME NEW p \in Proc, NEW c \in Commands[p],
             BeginApply(p, c) \/ BeginDestroy(p, c) \/ BeginSweep(p, c)
      PROVE  TidyInv'
  BY <1>0, <1>1, BeginKeepsTidy, CommandsAssumption
<1>2. ASSUME NEW p \in Proc, Step(p) PROVE TidyInv'
  BY <1>0, <1>2, ProvisionKeepsTidy, DestroyKeepsTidy, EndKeepsTidy DEF Step
<1>3. CASE \/ \E p \in Proc : Settle(p) /\ UNCHANGED attempt
           \/ \E a \in adrift : SettleAdrift(a) /\ UNCHANGED attempt
           \/ IndexForgets
           \/ \E r \in shown : LoseTag(r)
           \/ UNCHANGED vars
  BY <1>0, <1>3, WorldKeepsTidy
<1>4. QED
  BY <1>1, <1>2, <1>3 DEF Next

\* LifecycleInv: DestroyInv; what an apply has made, whether the account knows
\* it for its own, and what a teardown has still to remove; and what a command
\* has in sight.
THEOREM LifecycleInvariant == Spec => []LifecycleInv
<1>1. Init => LifecycleInv
  BY InvInit, TidyInit, SightInit DEF LifecycleInv
<1>2. LifecycleInv /\ [Next]_vars => LifecycleInv'
  BY InvStep, TidyStep, SightStep DEF LifecycleInv
<1>3. QED
  BY <1>1, <1>2, PTL DEF Spec

\* A create that AWS refused has left nothing that was made for it, however far
\* its preparation had come, unless a call of the cleanup failed.
THEOREM RefusedCreatesCleanUp == Spec => []RefusedCreateLeavesNothing
<1>1. LifecycleInv => RefusedCreateLeavesNothing
  <2>1. SUFFICES ASSUME LifecycleInv, NEW p \in Proc,
                        pc[p] = "refused", denied[p] = {}, job[p].alone
                 PROVE  /\ address[job[p].nr] = None
                        /\ key # job[p].nr
                        /\ iam[job[p].run] \cap attempt[p].made \subseteq attempt[p].found
    BY DEF RefusedCreateLeavesNothing
  <2>2. Tracked(p)
    BY <2>1 DEF LifecycleInv, TidyInv
  <2>3. pc[p] \in Applying /\ pc[p] \in Undoing
    BY <2>1 DEF Applying, Undoing
  <2>4. QED
    BY <2>1, <2>2, <2>3 DEF Tracked, Alone
<1>2. QED
  BY <1>1, LifecycleInvariant, PTL

\* An apply of a NAT gateway that succeeds leaves no address of its plan that
\* nothing uses, whatever earlier attempts have left.
THEOREM AddressesAreUsed == Spec => []NoSpareAddress
<1>1. LifecycleInv => NoSpareAddress
  <2>1. SUFFICES ASSUME LifecycleInv, NEW p \in Proc,
                        pc[p] = "over", ~failed[p], denied[p] = {},
                        job[p].op = "apply", Kind[job[p].run] = "nat", job[p].alone
                 PROVE  \A i \in Tagged(job[p].run) : address[i].by # None
    BY DEF NoSpareAddress
  <2>2. Aimed(p) /\ AddressFits(p)
    BY <2>1 DEF LifecycleInv, TidyInv
  <2>3. job[p] # None
    BY <2>1, <2>2 DEF Aimed
  <2>4. QED
    BY <2>1, <2>2, <2>3 DEF AddressFits, Alone, Used
<1>2. QED
  BY <1>1, LifecycleInvariant, PTL

\* With an instance go its role and its instance profile: no call of the
\* teardown comes before what it depends on.
THEOREM InstancesGoWhole == Spec => DestroyedInstanceLeavesNothing
<1>1. LifecycleInv /\ [Next]_vars =>
        [\A p \in Proc :
           pc[p] = "cascade" /\ pc'[p] # "cascade" /\ denied'[p] = {} /\ job[p].alone =>
             iam'[Target(p).run] = {}]_vars
  <2>1. SUFFICES ASSUME LifecycleInv, Next, NEW p \in Proc, pc[p] = "cascade",
                        pc'[p] # "cascade", denied'[p] = {}, job[p].alone
                 PROVE  iam'[Target(p).run] = {}
    OBVIOUS
  <2>2. /\ TypeOK /\ AllWhole /\ JobFits(p) /\ DeletionFits(p) /\ TornDown(p)
        /\ pc \in [Proc -> Labels]
    BY <2>1, TypeFacts DEF LifecycleInv, DestroyInv, TidyInv, AllWhole
  <2>3. Cascade(p)
    <3>1. ASSUME NEW q \in Proc, NEW c \in Commands[q],
                 BeginApply(q, c) \/ BeginDestroy(q, c) \/ BeginSweep(q, c)
          PROVE  pc'[p] = pc[p]
      <4>1. q # p
        BY <2>1, <3>1 DEF BeginApply, BeginDestroy, BeginSweep, Start
      <4>2. QED
        BY <2>2, <3>1, <4>1, BeginFacts, CommandsAssumption
    <3>2. ASSUME NEW q \in Proc \ {p}, Step(q) PROVE pc'[p] = pc[p]
      <4>1. CASE End(q)
        BY <2>2, <4>1 DEF End, Goto
      <4>2. QED
        BY <2>2, <3>2, <4>1, ProvisionGoes, DestroyGoes DEF Step
    <3>3. ASSUME Step(p) PROVE Cascade(p)
      <4>1. ~Provision(p)
        BY <2>1, ProvisionKeeps DEF Applying, Creating, ForAddress
      <4>2. ~End(p)
        BY <2>1 DEF End
      <4>3. DestroyStep(p)
        BY <3>3, <4>1, <4>2 DEF Step
      <4>4. QED
        BY <2>1, <4>3
           DEF DestroyStep, Enumerate, Confirm, NextTarget, Resolve, Disable, Schedule, Hook,
               Recheck, Delete, Poll, PollsExhausted, Classify, Tombstone
    <3>4. CASE \/ \E q \in Proc : Settle(q) /\ UNCHANGED attempt
               \/ \E a \in adrift : SettleAdrift(a) /\ UNCHANGED attempt
               \/ IndexForgets
               \/ \E r \in shown : LoseTag(r)
      <4>1. UNCHANGED pc
        BY <3>4 DEF Settle, SettleAdrift, IndexForgets, LoseTag, keys, logs, frame
      <4>2. QED
        BY <2>1, <4>1
    <3>5. QED
      BY <2>1, <3>1, <3>2, <3>3, <3>4 DEF Next
  <2>4. Teardown(p, Target(p).run, After(p))
    BY <2>3 DEF Cascade
  <2>5. Target(p).run \in Run /\ After(p) \in Labels
    BY <2>1, <2>2 DEF DeletionFits, Resource, After, Labels, Sweeping
  <2>6. /\ pc'[p] = IF tear'[p] = {} THEN After(p) ELSE pc[p]
        /\ denied'[p] = {} => denied[p] = {}
        /\ \A found \in SUBSET Piece :
             denied'[p] = {} /\ Whole(found) /\ iam[Target(p).run] \subseteq found \cup tear[p] =>
               iam'[Target(p).run] \subseteq found \cup tear'[p]
    BY <2>2, <2>4, <2>5, TeardownStep
  <2>7. Whole({}) /\ {} \in SUBSET Piece
    BY DEF Whole
  <2>8. iam[Target(p).run] \subseteq tear[p]
    BY <2>1, <2>2, <2>6 DEF TornDown, Alone
  <2>9. QED
    BY <2>1, <2>6, <2>7, <2>8
<1>2. QED
  BY <1>1, LifecycleInvariant, PTL DEF Spec, DestroyedInstanceLeavesNothing
=============================================================================
