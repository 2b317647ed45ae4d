------------------------- MODULE AdvisoryLock_proofs -------------------------
(***************************************************************************)
(* Proofs about AdvisoryLock, for every set of callers and every value of  *)
(* the timeouts, retry budgets and bounds on I/O errors.                   *)
(***************************************************************************)
EXTENDS AdvisoryLock, TLAPS

\* Every step of the protocol, in any environment, keeps the types.
LEMMA TypeStep == TypeOK /\ [Next]_vars => TypeOK'
<1> USE NoLockAssumption, TimeAssumption, FaultAssumption DEF TypeOK, PC, Age
<1> SUFFICES ASSUME TypeOK, [Next]_vars
             PROVE  TypeOK'
  OBVIOUS
<1>1. CASE Tick
  BY <1>1 DEF Tick, Older
<1>2. ASSUME NEW p \in Proc, Call(p)
      PROVE  TypeOK'
  BY <1>2 DEF Call, Goto
<1>3. ASSUME NEW p \in Proc, Stat(p)
      PROVE  TypeOK'
  BY <1>3 DEF Stat, Goto, NoError, SwallowedError
<1>4. ASSUME NEW p \in Proc, Judge(p)
      PROVE  TypeOK'
  BY <1>4 DEF Judge, Contended, EndProbe, Goto
<1>5. ASSUME NEW p \in Proc, Reclaim(p)
      PROVE  TypeOK'
  BY <1>5 DEF Reclaim, Goto, NoError, SwallowedError
<1>6. ASSUME NEW p \in Proc, Create(p)
      PROVE  TypeOK'
  BY <1>6 DEF Create, Contended, Goto, NoError, SwallowedError
<1>7. ASSUME NEW p \in Proc, Undo(p)
      PROVE  TypeOK'
  BY <1>7 DEF Undo, Contended, Goto
<1>8. ASSUME NEW p \in Proc, Retry(p)
      PROVE  TypeOK'
  BY <1>8 DEF Retry, Goto
<1>9. ASSUME NEW p \in Proc, Release(p) \/ Throw(p)
      PROVE  TypeOK'
  BY <1>9 DEF Release, Throw, Leave, Goto
<1>10. ASSUME NEW p \in Proc, Orphan(p)
       PROVE  TypeOK'
  BY <1>10 DEF Orphan, Leave, Goto
<1>11. CASE UNCHANGED vars
  BY <1>11 DEF vars
<1>12. QED
  BY <1>1, <1>2, <1>3, <1>4, <1>5, <1>6, <1>7, <1>8, <1>9, <1>10, <1>11
     DEF Next, Step

\* The variables of the lock keep their types, in any environment.
THEOREM LockTypeCorrect == Spec => []TypeOK
<1>1. Init => TypeOK
  BY NoLockAssumption, TimeAssumption, FaultAssumption DEF Init, TypeOK, PC, Age
<1>2. TypeOK /\ [Next]_vars => TypeOK'
  BY TypeStep
<1>3. QED
  BY <1>1, <1>2, PTL DEF Spec

-----------------------------------------------------------------------------
(* The envelope in which the lock is exclusive.                             *)

\* In a timely environment every step keeps the invariant.
LEMMA InvInductive ==
  ASSUME TimelyEnvironment, LockInv, [Next]_vars
  PROVE  LockInv'
<1> USE NoLockAssumption, TimeAssumption, FaultAssumption
<1>0. TypeOK'
  BY TypeStep DEF LockInv
<1> DEFINE Rest == FileIsOwners /\ TenureBounded /\ SightBounded
                   /\ NobodyReclaims /\ ClocksReset
<1>1. ASSUME Tick
      PROVE  Rest'
  <2>1. UNCHANGED pc /\ \A p \in Proc : Owns(p)' <=> Owns(p)
    BY <1>1 DEF Tick, Owns
  <2>2. ASSUME NEW p \in Proc, Owns(p)
        PROVE  /\ holdAge'[p] <= MaxHold
               /\ lockFile' = [owner |-> p, age |-> holdAge'[p]]
    <3>1. lockFile = [owner |-> p, age |-> holdAge[p]]
      BY <2>2 DEF LockInv, FileIsOwners
    <3>2. holdAge'[p] = Older(holdAge[p]) /\ holdAge[p] < MaxHold
      BY <1>1, <2>2 DEF Tick, LockInv, TypeOK
    <3>3. lockFile # NoLock
      BY <3>1 DEF LockInv, TypeOK, Age
    <3>4. lockFile' = [owner |-> p, age |-> Older(holdAge[p])]
      BY <1>1, <3>1, <3>3 DEF Tick
    <3>5. QED
      BY <3>2, <3>4 DEF Older, LockInv, TypeOK, Age
  <2>3. FileIsOwners' /\ TenureBounded'
    <3>1. lockFile' # NoLock => lockFile # NoLock /\ lockFile'.owner = lockFile.owner
      BY <1>1 DEF Tick, LockInv, TypeOK
    <3>2. lockFile # NoLock => lockFile.owner \in Proc /\ Owns(lockFile.owner)
      BY DEF LockInv, TypeOK, FileIsOwners
    <3>3. QED
      BY <2>1, <2>2, <3>1, <3>2 DEF FileIsOwners, TenureBounded
  <2>4. SightBounded'
    BY <1>1, <2>1 DEF Tick, Older, LockInv, TypeOK, Age, SightBounded
  <2>5. NobodyReclaims' /\ ClocksReset'
    BY <1>1, <2>1 DEF Tick, LockInv, TypeOK, NobodyReclaims, ClocksReset
  <2>6. QED
    BY <2>3, <2>4, <2>5
<1>2. ASSUME NEW p \in Proc, Call(p)
      PROVE  Rest'
  BY <1>2 DEF Call, Goto, LockInv, TypeOK, Age, FileIsOwners,
     TenureBounded, SightBounded, NobodyReclaims, ClocksReset, Owns
<1>3. ASSUME NEW p \in Proc, Stat(p)
      PROVE  Rest'
  BY <1>3 DEF Stat, Goto, NoError, SwallowedError, LockInv, TypeOK, Age,
     FileIsOwners, TenureBounded, SightBounded, NobodyReclaims, ClocksReset,
     Owns
<1>4. ASSUME NEW p \in Proc, Judge(p)
      PROVE  Rest'
  <2>1. ~StaleInSight(p)
    BY <1>4 DEF Judge, StaleInSight, LockInv, SightBounded, TimelyEnvironment,
       TypeOK, Age
  <2>2. QED
    BY <1>4, <2>1 DEF Judge, Contended, EndProbe, Goto, LockInv, TypeOK, Age,
       FileIsOwners, TenureBounded, SightBounded, NobodyReclaims, ClocksReset,
       Owns
<1>5. ASSUME NEW p \in Proc, Reclaim(p)
      PROVE  Rest'
  BY <1>5 DEF Reclaim, LockInv, NobodyReclaims
<1>6. ASSUME NEW p \in Proc, Create(p)
      PROVE  Rest'
  <2>1. CASE lockFile = NoLock
    <3>1. \A q \in Proc : ~Owns(q)
      BY <2>1 DEF LockInv, FileIsOwners, TypeOK, Age
    <3>2. /\ lockFile' = [owner |-> p, age |-> 0]
          /\ UNCHANGED <<seen, probeAge, holdAge>>
          /\ pc' = [pc EXCEPT ![p] = pc'[p]]
          /\ pc'[p] \in {"critical", "undo"}
          /\ holdAge[p] = 0
      BY <1>6, <2>1, <3>1 DEF Create, Goto, LockInv, TypeOK, ClocksReset
    <3>3. \A q \in Proc : Owns(q)' <=> q = p
      BY <3>1, <3>2 DEF Owns, LockInv, TypeOK
    <3>4. FileIsOwners' /\ TenureBounded'
      BY <3>2, <3>3 DEF FileIsOwners, TenureBounded
    <3>5. SightBounded' /\ NobodyReclaims' /\ ClocksReset'
      BY <3>2, <3>3, <1>6 DEF Create, LockInv, TypeOK, SightBounded,
         NobodyReclaims, ClocksReset, Owns
    <3>6. QED
      BY <3>4, <3>5
  <2>2. CASE lockFile # NoLock
    BY <1>6, <2>2 DEF Create, Contended, Goto, LockInv, TypeOK, FileIsOwners,
       TenureBounded, SightBounded, NobodyReclaims, ClocksReset, Owns
  <2>3. QED
    BY <2>1, <2>2
<1>7. ASSUME NEW p \in Proc, Undo(p)
      PROVE  Rest'
  BY <1>7 DEF Undo, Contended, Goto, LockInv, TypeOK, Age, FileIsOwners,
     TenureBounded, SightBounded, NobodyReclaims, ClocksReset, Owns
<1>8. ASSUME NEW p \in Proc, Retry(p)
      PROVE  Rest'
  BY <1>8 DEF Retry, Goto, LockInv, TypeOK, Age, FileIsOwners,
     TenureBounded, SightBounded, NobodyReclaims, ClocksReset, Owns
<1>9. ASSUME NEW p \in Proc, Release(p)
      PROVE  Rest'
  BY <1>9 DEF Release, Leave, Goto, LockInv, TypeOK, Age, FileIsOwners,
     TenureBounded, SightBounded, NobodyReclaims, ClocksReset, Owns
<1>10. ASSUME NEW p \in Proc, Throw(p)
       PROVE  Rest'
  BY <1>10 DEF Throw, Leave, Goto, LockInv, TypeOK, Age, FileIsOwners,
     TenureBounded, SightBounded, NobodyReclaims, ClocksReset, Owns
<1>11. ASSUME NEW p \in Proc, Orphan(p)
       PROVE  Rest'
  BY <1>11 DEF Orphan, TimelyEnvironment, LockInv, TypeOK
<1>12. ASSUME UNCHANGED vars
       PROVE  Rest'
  BY <1>12 DEF vars, LockInv, FileIsOwners, TenureBounded, SightBounded,
     NobodyReclaims, ClocksReset, Owns
<1>13. Rest'
  BY <1>1, <1>2, <1>3, <1>4, <1>5, <1>6, <1>7, <1>8, <1>9, <1>10, <1>11, <1>12
     DEF Next, Step
<1>14. QED
  BY <1>0, <1>13 DEF LockInv

\* The invariant holds before anyone has called.
LEMMA InvInitially == TimelyEnvironment /\ Init => LockInv
BY NoLockAssumption, TimeAssumption, FaultAssumption
   DEF Init, LockInv, TypeOK, PC, Age, FileIsOwners, TenureBounded,
       SightBounded, NobodyReclaims, ClocksReset, Owns

\* In a timely environment the protocol stays within its inductive invariant.
THEOREM LockInvariant == TimelyEnvironment => (Spec => []LockInv)
<1> SUFFICES ASSUME TimelyEnvironment
             PROVE  Spec => []LockInv
  OBVIOUS
<1>1. Init => LockInv
  BY InvInitially
<1>2. LockInv /\ [Next]_vars => LockInv'
  BY InvInductive
<1>3. QED
  BY <1>1, <1>2, PTL DEF Spec

\* The invariant contains what the callers rely on.
LEMMA InvImpliesSafety == LockInv => NeverWithoutLock /\ MutualExclusion
BY NoLockAssumption
   DEF LockInv, TypeOK, Age, FileIsOwners, NeverWithoutLock,
       MutualExclusion, Owns

\* fn never runs without the caller's own lock file in place, as the comment
\* above withLock says, if no lock outlives the stale timeout.
THEOREM LockAlwaysHeld == TimelyEnvironment => (Spec => []NeverWithoutLock)
BY LockInvariant, InvImpliesSafety, PTL

\* Under the same condition no two callbacks ever run at once.
THEOREM LockExcludes == TimelyEnvironment => (Spec => []MutualExclusion)
BY LockInvariant, InvImpliesSafety, PTL

\* In a timely environment a lock file disappears only when its owner unlinks
\* it: a step that takes it away is the release of its owner, or the owner's
\* undoing of a create whose PID could not be written.
THEOREM OnlyTheOwnerUnlinks == TimelyEnvironment => (Spec => NoForeignUnlink)
<1> SUFFICES ASSUME TimelyEnvironment
             PROVE  Spec => NoForeignUnlink
  OBVIOUS
<1>1. LockInv /\ [Next]_vars =>
        [lockFile # NoLock /\ lockFile' = NoLock =>
           \A q \in Proc : pc[q] = "critical" => pc'[q] = "idle"]_vars
  <2>1. SUFFICES ASSUME LockInv, Next, lockFile # NoLock, lockFile' = NoLock,
                        NEW q \in Proc, pc[q] = "critical"
                 PROVE  pc'[q] = "idle"
    OBVIOUS
  <2>2. lockFile.owner = q
    BY <2>1 DEF LockInv, FileIsOwners, Owns
  <2>3. PICK p \in Proc : Reclaim(p) \/ Undo(p) \/ Release(p)
    <3>1. ASSUME NEW p \in Proc,
                 Call(p) \/ Stat(p) \/ Judge(p) \/ Retry(p) \/ Throw(p) \/ Orphan(p)
          PROVE  UNCHANGED lockFile
      BY <3>1 DEF Call, Stat, Judge, Retry, Throw, Orphan
    <3>2. ~Tick
      <4>1. SUFFICES ASSUME Tick
                     PROVE  lockFile' # NoLock
        BY <2>1
      <4>2. lockFile' = [lockFile EXCEPT !.age = Older(@)]
        BY <2>1, <4>1 DEF Tick
      <4>3. lockFile \in [owner : Proc, age : Age]
        BY <2>1 DEF LockInv, TypeOK
      <4>4. Older(lockFile.age) \in Int
        BY <4>3 DEF Older, Age
      <4>5. lockFile' \in [owner : Proc, age : Int]
        BY <4>2, <4>3, <4>4
      <4>6. QED
        BY <4>5, NoLockAssumption
    <3>3. ASSUME NEW p \in Proc, Create(p)
          PROVE  UNCHANGED lockFile
      BY <2>1, <3>3 DEF Create
    <3>4. QED
      BY <2>1, <3>1, <3>2, <3>3 DEF Next, Step
  <2>4. ~Reclaim(p)
    BY <2>1 DEF Reclaim, LockInv, NobodyReclaims
  <2>5. Owns(p)
    BY <2>3, <2>4 DEF Undo, Release, Owns
  <2>6. p = q
    BY <2>1, <2>2, <2>5 DEF LockInv, FileIsOwners
  <2>7. QED
    BY <2>1, <2>3, <2>4, <2>6 DEF Undo, Release, Leave, Goto, LockInv, TypeOK
<1>2. Spec => []LockInv
  BY LockInvariant
<1>3. QED
  BY <1>1, <1>2, PTL DEF Spec, NoForeignUnlink

\* One step, seen through the refinement mapping, is a step of the exclusive
\* lock or changes nothing there.
LEMMA StepRefines ==
  ASSUME TimelyEnvironment, LockInv, [Next]_vars
  PROVE  [Promise!Next]_(Promise!vars)
<1> DEFINE W == {p \in Proc : pc[p] \notin {"idle", "critical"}}
           H == {p \in Proc : pc[p] = "critical"}
<1> USE DEF Promise!Next, Promise!vars
<1>1. ASSUME NEW p \in Proc, pc[p] \notin {"idle", "critical"},
             pc'[p] \notin {"idle", "critical"},
             pc' = [pc EXCEPT ![p] = pc'[p]]
      PROVE  W' = W /\ H' = H
  BY <1>1 DEF LockInv, TypeOK
<1>2. ASSUME NEW p \in Proc, Call(p)
      PROVE  Promise!Ask(p)
  BY <1>2 DEF Call, Goto, Promise!Ask, LockInv, TypeOK
<1>3. ASSUME NEW p \in Proc,
             Stat(p) \/ Judge(p) \/ Reclaim(p) \/ Undo(p) \/ Retry(p)
      PROVE  W' = W /\ H' = H
  <2>1. /\ pc[p] \notin {"idle", "critical"}
        /\ pc'[p] \notin {"idle", "critical"}
        /\ pc' = [pc EXCEPT ![p] = pc'[p]]
    BY <1>3 DEF Stat, Judge, Reclaim, Undo, Retry, Contended, Goto, LockInv,
       TypeOK
  <2>2. QED
    BY <1>1, <2>1
<1>4. ASSUME NEW p \in Proc, Create(p)
      PROVE  Promise!Grant(p) \/ (W' = W /\ H' = H)
  <2>1. CASE pc'[p] = "critical"
    <3>1. lockFile = NoLock /\ pc' = [pc EXCEPT ![p] = "critical"]
      BY <1>4, <2>1 DEF Create, Contended, Goto, LockInv, TypeOK
    <3>2. H = {}
      BY <3>1, NoLockAssumption DEF LockInv, FileIsOwners, Owns, TypeOK, Age
    <3>3. pc[p] = "create"
      BY <1>4 DEF Create
    <3>4. QED
      BY <3>1, <3>2, <3>3 DEF Promise!Grant, LockInv, TypeOK
  <2>2. CASE pc'[p] # "critical"
    <3>1. /\ pc[p] = "create"
          /\ pc'[p] \notin {"idle", "critical"}
          /\ pc' = [pc EXCEPT ![p] = pc'[p]]
      BY <1>4, <2>2 DEF Create, Contended, Goto, LockInv, TypeOK
    <3>2. QED
      BY <1>1, <3>1
  <2>3. QED
    BY <2>1, <2>2
<1>5. ASSUME NEW p \in Proc, Release(p)
      PROVE  Promise!Free(p)
  BY <1>5 DEF Release, Leave, Goto, Promise!Free, LockInv, TypeOK
<1>6. ASSUME NEW p \in Proc, Throw(p)
      PROVE  Promise!TurnAway(p)
  BY <1>6 DEF Throw, Leave, Goto, Promise!TurnAway, LockInv, TypeOK
<1>7. ASSUME NEW p \in Proc, Orphan(p)
      PROVE  FALSE
  BY <1>7, FaultAssumption DEF Orphan, TimelyEnvironment, LockInv, TypeOK
<1>8. ASSUME Tick \/ UNCHANGED vars
      PROVE  W' = W /\ H' = H
  BY <1>8 DEF Tick, vars
<1>9. QED
  BY <1>2, <1>3, <1>4, <1>5, <1>6, <1>7, <1>8 DEF Next, Step

\* In a timely environment the file protocol implements the exclusive lock
\* that the port promises.
THEOREM LockImplementsPromise == TimelyEnvironment => (Spec => ImplementsPromise)
<1> SUFFICES ASSUME TimelyEnvironment
             PROVE  Spec => ImplementsPromise
  OBVIOUS
<1>1. Init => Promise!Init
  BY DEF Init, Promise!Init
<1>2. LockInv /\ [Next]_vars => [Promise!Next]_(Promise!vars)
  BY StepRefines
<1>3. Spec => []LockInv
  BY LockInvariant
<1>4. QED
  BY <1>1, <1>2, <1>3, PTL DEF Spec, ImplementsPromise, Promise!Spec
=============================================================================
