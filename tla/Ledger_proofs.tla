---------------------------- MODULE Ledger_proofs ----------------------------
(***************************************************************************)
(* The memory store and the audit log for any number of processes, logs,   *)
(* jobs, deaths and failed calls: LedgerInv is inductive.  From it: what   *)
(* was acknowledged can be found again, the audit log is one chain until   *)
(* something fails, each fault costs it one event at most, and who has     *)
(* read the ledger under its lock overwrites nothing that is placed there. *)
(*                                                                         *)
(* First how a step moves the locks and what it leaves to the others, then *)
(* each part of LedgerInv, then the theorems.                              *)
(***************************************************************************)
EXTENDS Ledger, FiniteSetTheorems, SequenceTheorems, TLAPS

\* What the types and the assumptions say of the store.
LEMMA StoreFacts ==
  ASSUME TypeOK
  PROVE  /\ log \in [File -> SUBSET Record] /\ view \in [Proc -> SUBSET Record]
         /\ job \in [Proc -> Job \cup {None}] /\ jobs \in 0..MaxJobs
         /\ holder \in [Lock -> Proc \cup {Nobody, Orphan}]
         /\ Provisions \in File /\ Failures \in File /\ File \subseteq Lock
         /\ Audit \in Lock /\ Audit \notin File
         /\ Provisions # Failures
         /\ None \notin Job /\ Nobody \notin Proc /\ Orphan \notin Proc /\ Nobody # Orphan
         /\ \A p \in Proc : job[p] # None =>
              job[p] \in Job /\ job[p].op \in Ops /\ job[p].file \in File /\ job[p].id \in Ids
BY FileAssumption, NoneAssumption, AuditAssumption, LedgerAssumption, NobodyAssumption
   DEF TypeOK, StoreTypeOK, LockTypeOK, Job, Provisions, Failures

LEMMA Numbers ==
  /\ FirstId \in Nat /\ FirstId >= 1 /\ MaxJobs \in Nat
  /\ \A n \in 0..MaxJobs : FirstId + n \in Ids
<1>1. Cardinality(OldId \cup StaleId) \in Nat
  BY BoundAssumption, FS_CardinalityType
<1>2. QED
  BY <1>1, BoundAssumption DEF FirstId, Ids

Types == /\ DOMAIN pc = Proc /\ DOMAIN job = Proc /\ DOMAIN view = Proc /\ DOMAIN audited = Proc
         /\ DOMAIN tail = Proc /\ DOMAIN event = Proc /\ DOMAIN myKey = Proc
         /\ DOMAIN holder = Lock /\ DOMAIN log = File /\ DOMAIN probe = Proc

LEMMA Domains ==
  ASSUME LedgerInv
  PROVE  Types
BY DEF LedgerInv, TypeOK, LockTypeOK, StoreTypeOK, AuditTypeOK, Types

\* Where a step leads to.
LEMMA Moved ==
  ASSUME LedgerInv, NEW p \in Proc, NEW label, Goto(p, label)
  PROVE  pc'[p] = label
BY Domains DEF Goto, Types

\* A step of process p.
Act(p) ==
  \/ (Begin(p) \/ StoreStep(p)) /\ UNCHANGED <<auditVars, audited, acked>>
  \/ Recorder(p) \/ Acknowledge(p) \/ Warm(p) \/ Warmed(p)
  \/ VerifyLog(p) \/ TakeEvents(p) \/ Rebuild(p)
  \/ Die(p)

-----------------------------------------------------------------------------
(* The locks. *)

\* What a step of p does to the lock files: another's goes away only when the
\* name is robbed.
LockMove(p) ==
  \/ holder' = holder
  \/ \E l \in Lock : Has(Nobody, l) /\ holder' = [holder EXCEPT ![l] = p]
  \/ \E l \in Lock : /\ holder[l] \in Proc \ {p} => l \in robbed'
                     /\ holder' = [holder EXCEPT ![l] = Nobody]
  \/ holder' = [l \in Lock |-> IF Has(p, l) THEN Orphan ELSE holder[l]]

\* A step of p moves p alone.
PcMove(p) == DOMAIN pc' = Proc /\ \A q \in Proc \ {p} : pc'[q] = pc[q]

\* One attempt at a lock: it is granted, refused, or goes on; a lock that the
\* process has already is not lost by it.
LEMMA AttemptIs ==
  ASSUME LedgerInv, NEW p \in Proc, NEW l \in Lock, NEW granted, NEW refused,
         Attempt(p, l, granted, refused)
  PROVE  /\ LockMove(p) /\ robbed \subseteq robbed' /\ faults' = faults
         /\ \A k \in Lock : Has(p, k) /\ k \notin robbed' => Has(p, k)'
         /\ PcMove(p)
         /\ \/ pc'[p] = granted /\ Has(p, l)' /\ Has(Nobody, l) /\ robbed' = robbed
            \/ pc'[p] = refused /\ holder' = holder /\ robbed' = robbed
            \/ pc' = pc
<1> USE DEF Has, PcMove
<1>1. /\ DOMAIN holder = Lock /\ Nobody \notin Proc /\ DOMAIN pc = Proc
      /\ \A k \in Lock : holder[k] \in Proc \cup {Nobody, Orphan}
  BY StoreFacts DEF LedgerInv
<1>2. CASE Create(p, l, granted) /\ robbed' = robbed /\ faults' = faults
  BY <1>1, <1>2 DEF Create, Goto, LockMove
<1>3. CASE Lose(p, l, refused) /\ robbed' = robbed /\ faults' = faults
  BY <1>1, <1>3 DEF Lose, Goto, LockMove
<1>4. CASE UNCHANGED <<pc, holder, robbed, faults>>
  BY <1>1, <1>4 DEF LockMove
<1>5. CASE /\ holder' = [holder EXCEPT ![l] = Nobody]
           /\ robbed' = IF holder[l] \in Proc THEN robbed \cup {l} ELSE robbed
           /\ UNCHANGED <<pc, faults>>
  BY <1>1, <1>5 DEF LockMove
<1>6. QED
  BY <1>2, <1>3, <1>4, <1>5 DEF Attempt

LEMMA EnterIs ==
  ASSUME LedgerInv, NEW p \in Proc, NEW l \in Lock, NEW granted, NEW refused,
         Enter(p, l, granted, refused)
  PROVE  /\ LockMove(p) /\ robbed \subseteq robbed' /\ faults' = faults
         /\ \A k \in Lock : Has(p, k) /\ k \notin robbed' => Has(p, k)'
         /\ PcMove(p)
         /\ \/ pc'[p] = granted /\ Has(p, l)'
            \/ pc'[p] = refused
            \/ pc'[p] = pc[p]
<1>1. CASE Attempt(p, l, granted, refused)
  BY <1>1, AttemptIs
<1>2. CASE Attempt(p, l, granted, pc[p])
  BY <1>2, AttemptIs
<1>3. QED
  BY <1>1, <1>2 DEF Enter

LEMMA EnterLeads ==
  ASSUME LedgerInv, NEW p \in Proc, NEW l \in Lock, NEW granted, NEW refused,
         Attempt(p, l, granted, refused) \/ Enter(p, l, granted, refused)
  PROVE  pc'[p] \in {granted, refused, pc[p]}
BY AttemptIs, EnterIs, Zenon

\* A process frees a name that it keeps.
LEMMA FreeIs ==
  ASSUME LedgerInv, NEW p \in Proc, NEW l \in Lock, Free(l), Keeps(p, l), robbed' = robbed
  PROVE  LockMove(p)
BY StoreFacts DEF LedgerInv, Free, Keeps, Has, LockMove

-----------------------------------------------------------------------------
(* The other processes. *)

\* What a process has of its own: only its steps change it, but for a lock
\* that it is robbed of.
Rests(q) ==
  /\ pc'[q] = pc[q] /\ job'[q] = job[q] /\ view'[q] = view[q] /\ audited'[q] = audited[q]
  /\ tail'[q] = tail[q] /\ event'[q] = event[q] /\ myKey'[q] = myKey[q]
  /\ q \in blind' <=> q \in blind
  /\ robbed \subseteq robbed'
  /\ \A l \in Lock : l \notin robbed' => (Has(q, l)' <=> Has(q, l))

LEMMA LocksRest ==
  ASSUME LedgerInv, NEW p \in Proc, NEW q \in Proc \ {p}, LockMove(p)
  PROVE  \A l \in Lock : l \notin robbed' => (Has(q, l)' <=> Has(q, l))
<1>1. /\ DOMAIN holder = Lock /\ q # Nobody /\ q # Orphan /\ q # p /\ q \in Proc \ {p}
      /\ \A k \in Lock : holder[k] \in Proc \cup {Nobody, Orphan}
  BY StoreFacts DEF LedgerInv
<1>2. CASE holder' = holder
  BY <1>2 DEF Has
<1>3. CASE \E l \in Lock : Has(Nobody, l) /\ holder' = [holder EXCEPT ![l] = p]
  BY <1>1, <1>3 DEF Has
<1>4. CASE \E l \in Lock : /\ holder[l] \in Proc \ {p} => l \in robbed'
                           /\ holder' = [holder EXCEPT ![l] = Nobody]
  BY <1>1, <1>4 DEF Has
<1>5. CASE holder' = [l \in Lock |-> IF Has(p, l) THEN Orphan ELSE holder[l]]
  BY <1>1, <1>5 DEF Has
<1>6. QED
  BY <1>2, <1>3, <1>4, <1>5 DEF LockMove

\* A step of a process in the store moves locks as above.
LEMMA StoreLocks ==
  ASSUME LedgerInv, NEW p \in Proc, StoreStep(p)
  PROVE  LockMove(p) /\ robbed \subseteq robbed' /\ faults' \in {faults, faults + 1}
<1> USE StoreFacts
<1>0. TypeOK /\ LocksHeld(p) /\ JobFits(p)
  BY DEF LedgerInv
<1>1. CASE Ask(p)
  BY <1>0, <1>1, EnterIs DEF Ask
<1>2. CASE Repair(p)
  <2>1. job[p].file \in Lock
    BY <1>0, <1>2 DEF Repair, JobFits
  <2>2. QED
    BY <1>2, <2>1, AttemptIs DEF Repair
<1>3. CASE Rotate(p)
  <2>1. job[p].file \in Lock
    BY <1>0, <1>3 DEF Rotate, JobFits
  <2>2. QED
    BY <1>3, <2>1, AttemptIs DEF Rotate
<1>4. CASE Rewrite(p) \/ Trim(p)
  <2>1. job[p].file \in Lock /\ Keeps(p, job[p].file) /\ Free(job[p].file)
    BY <1>0, <1>4 DEF Rewrite, Trim, JobFits, LocksHeld
  <2>2. robbed' = robbed /\ faults' = faults
    BY <1>4 DEF Rewrite, Trim, lockRest
  <2>3. QED
    BY <2>1, <2>2, FreeIs
<1>5. CASE Unlock(p) \/ UnlockThenAudit(p)
  <2>1. Provisions \in Lock /\ Keeps(p, Provisions) /\ Free(Provisions)
    BY <1>0, <1>5 DEF Unlock, UnlockThenAudit, JobFits, LocksHeld
  <2>2. robbed' = robbed /\ faults' = faults
    BY <1>5 DEF Unlock, UnlockThenAudit, lockRest
  <2>3. QED
    BY <2>1, <2>2, FreeIs
<1>6. CASE Read(p) \/ Load(p) \/ LoadBackup(p)
  BY <1>6 DEF Read, Load, LoadBackup, Reads, Fails, LockMove
<1>7. CASE Throw(p) \/ Write(p) \/ Clear(p) \/ Done(p) \/ SkipRotation(p) \/ Replace(p)
  BY <1>7 DEF Throw, Write, Clear, Done, SkipRotation, Replace, Forget, lockRest, LockMove
<1>8. QED
  BY <1>1, <1>2, <1>3, <1>4, <1>5, <1>6, <1>7 DEF StoreStep

\* And so does every other step.
LEMMA AllLocks ==
  ASSUME LedgerInv, NEW p \in Proc, Act(p)
  PROVE  LockMove(p) /\ robbed \subseteq robbed' /\ faults' \in {faults, faults + 1}
<1> USE StoreFacts
<1>0. TypeOK /\ LocksHeld(p) /\ JobFits(p)
  BY DEF LedgerInv
<1>1. CASE Begin(p) \/ StoreStep(p)
  BY <1>1, StoreLocks DEF Begin, lockRest, LockMove
<1>2. CASE Recorder(p)
  <2>1. CASE AskAudit(p, "done")
    BY <1>0, <2>1, EnterIs DEF AskAudit
  <2>2. CASE ReadAudit(p, job[p].id) \/ AuditKey(p) \/ AppendLine(p) \/ AppendFails(p)
    BY <2>2 DEF ReadAudit, AuditKey, ResolveKey, WriteKey, AppendLine, AppendFails, Fails, lockRest,
       LockMove
  <2>3. CASE UnlockAudit(p, "done", "acknowledge")
    <3>1. Keeps(p, Audit) /\ Free(Audit) /\ robbed' = robbed /\ faults' = faults
      BY <1>0, <2>3 DEF UnlockAudit, JobFits, LocksHeld, Auditing, lockRest
    <3>2. QED
      BY <1>0, <3>1, FreeIs
  <2>4. QED
    BY <1>2, <2>1, <2>2, <2>3 DEF Recorder, AuditStep
<1>3. CASE Warm(p) \/ VerifyLog(p) \/ TakeEvents(p)
  BY <1>3 DEF Warm, WarmKey, ResolveKey, WriteKey, VerifyLog, TakeEvents, Fails, LockMove
<1>4. CASE Acknowledge(p) \/ Warmed(p) \/ Rebuild(p)
  BY <1>4 DEF Acknowledge, Warmed, Rebuild, lockRest, LockMove
<1>5. CASE Die(p)
  BY <1>5 DEF Die, Crash, Fails, LockMove
<1>6. QED
  BY <1>1, <1>2, <1>3, <1>4, <1>5 DEF Act

LEMMA PcMoves ==
  ASSUME LedgerInv, NEW p \in Proc, Act(p)
  PROVE  PcMove(p)
<1>0. /\ TypeOK /\ JobFits(p) /\ DOMAIN pc = Proc
      /\ \A label : Goto(p, label) => PcMove(p)
  BY DEF LedgerInv, Goto, PcMove
<1>1. CASE Begin(p) \/ StoreStep(p)
  <2>1. CASE Ask(p)
    BY <1>0, <2>1, EnterIs, StoreFacts DEF Ask
  <2>2. CASE Repair(p) \/ Rotate(p)
    <3>1. job[p].file \in Lock
      BY <1>0, <2>2, StoreFacts DEF Repair, Rotate, JobFits
    <3>2. QED
      BY <2>2, <3>1, AttemptIs DEF Repair, Rotate
  <2>3. QED
    BY <1>0, <1>1, <2>1, <2>2 DEF Begin, StoreStep, Throw, Read, Rewrite, Write, Clear, Unlock,
       UnlockThenAudit, Done, SkipRotation, Load, Trim, LoadBackup, Replace, NextRotation
<1>2. CASE Recorder(p)
  <2>1. CASE AskAudit(p, "done")
    BY <1>0, <2>1, EnterIs, StoreFacts DEF AskAudit
  <2>2. QED
    BY <1>0, <1>2, <2>1 DEF Recorder, AuditStep, ReadAudit, AuditKey, ResolveKey, WriteKey, Signs,
       AppendLine, AppendFails, UnlockAudit
<1>3. CASE \/ Acknowledge(p) \/ Warm(p) \/ Warmed(p) \/ VerifyLog(p) \/ TakeEvents(p)
           \/ Rebuild(p) \/ Die(p)
  BY <1>0, <1>3 DEF Acknowledge, Warm, WarmKey, ResolveKey, WriteKey, Signs, Warmed, VerifyLog,
     TakeEvents, Rebuild, Die, Crash
<1>4. QED
  BY <1>1, <1>2, <1>3 DEF Act

\* A step of a process leaves to the others what they have.
LEMMA Others ==
  ASSUME LedgerInv, NEW p \in Proc, Act(p), NEW q \in Proc \ {p}
  PROVE  Rests(q)
<1> USE StoreFacts, Domains DEF Types
<1>0. TypeOK
  BY DEF LedgerInv
<1>1. pc'[q] = pc[q]
  BY PcMoves DEF PcMove
<1>2. job'[q] = job[q] /\ view'[q] = view[q] /\ (q \in blind' <=> q \in blind)
  <2>1. CASE Begin(p) \/ StoreStep(p)
    BY <2>1 DEF Begin, StoreStep, Ask, Throw, Read, Reads, Repair, Rewrite, Write, Clear, Unlock,
       UnlockThenAudit, Done, Rotate, SkipRotation, Load, Trim, LoadBackup, Replace, Forget,
       NextRotation, storeVars
  <2>2. CASE ~(Begin(p) \/ StoreStep(p))
    BY <2>2 DEF Act, Recorder, Acknowledge, Warm, Warmed, VerifyLog, TakeEvents, Rebuild, Die, storeVars
  <2>3. QED
    BY <2>1, <2>2
<1>3. tail'[q] = tail[q] /\ event'[q] = event[q] /\ myKey'[q] = myKey[q]
  <2>1. CASE Recorder(p)
    BY <2>1 DEF Recorder, AuditStep, AskAudit, ReadAudit, AuditKey, ResolveKey, WriteKey, Signs,
       AppendLine, AppendFails, UnlockAudit, ForgetAppend, auditVars
  <2>2. CASE ~Recorder(p)
    BY <2>2 DEF Act, Acknowledge, Warm, WarmKey, ResolveKey, WriteKey, Signs, Warmed, VerifyLog,
       TakeEvents, Rebuild, Die, ForgetAppend, auditVars
  <2>3. QED
    BY <2>1, <2>2
<1>4. audited'[q] = audited[q]
  BY DEF Act, Recorder, Acknowledge, Warm, Warmed, VerifyLog, TakeEvents, Rebuild, Die
<1>5. QED
  BY <1>1, <1>2, <1>3, <1>4, AllLocks, LocksRest DEF Rests

-----------------------------------------------------------------------------
(* The process that takes the step. *)

\* Cleanup goes on with the other log.
LEMMA OtherFile ==
  ASSUME NEW j \in Job
  PROVE  /\ [j EXCEPT !.file = Failures] \in Job
         /\ [j EXCEPT !.file = Failures].op = j.op
         /\ [j EXCEPT !.file = Failures].id = j.id
         /\ [j EXCEPT !.file = Failures].file = Failures
BY FileAssumption DEF Job, Failures, Provisions

LEMMA NextRotationMoves ==
  ASSUME LedgerInv, NEW p \in Proc, job[p] # None, NextRotation(p, "done")
  PROVE  /\ job'[p] \in Job /\ job'[p].op = job[p].op /\ job'[p].id = job[p].id
         /\ pc'[p] \in {"rotate", "done"} /\ job'[p].file = Failures
         /\ job'[p] # None
<1>1. job[p] \in Job /\ None \notin Job
  BY StoreFacts DEF LedgerInv
<1>2. job'[p] = [job[p] EXCEPT !.file = Failures]
  BY Domains, Zenon DEF NextRotation, Types
<1>3. pc'[p] \in {"rotate", "done"}
  BY Domains DEF NextRotation, Types, Goto
<1>4. QED
  BY <1>1, <1>2, <1>3, OtherFile

\* What a step that lets go of no lock leaves a process with.
LEMMA StillKeeps ==
  ASSUME NEW p, NEW l \in Lock, Keeps(p, l), robbed \subseteq robbed',
         holder' = holder \/ \A k \in Lock : Has(p, k) /\ k \notin robbed' => Has(p, k)'
  PROVE  Keeps(p, l)'
BY DEF Keeps, Has

\* Where a recorder of an event is, and which locks it comes by.
LEMMA RecorderAt ==
  ASSUME LedgerInv, NEW p \in Proc, Recorder(p)
  PROVE  /\ pc[p] \in Auditing \cup {"audit"}
         /\ pc'[p] \in Auditing \cup {"audit", "acknowledge", "done"}
         /\ pc'[p] \in Auditing => Keeps(p, Audit)'
<1> USE StoreFacts
<1>0. TypeOK /\ LocksHeld(p) /\ JobFits(p)
  BY DEF LedgerInv
<1>1. CASE AskAudit(p, "done")
  <2>1. /\ pc[p] = "audit"
        /\ (pc'[p] = "read audit" /\ Has(p, Audit)') \/ pc'[p] \in {"done", "audit"}
    BY <1>0, <1>1, EnterIs DEF AskAudit
  <2>2. QED
    BY <2>1 DEF Keeps, Auditing, Appending
<1>2. CASE ReadAudit(p, job[p].id) \/ AuditKey(p) \/ AppendLine(p) \/ AppendFails(p)
  <2>1. /\ pc[p] \in Auditing /\ holder' = holder /\ robbed' = robbed
        /\ \E label \in Auditing : Goto(p, label)
    BY <1>2 DEF ReadAudit, AuditKey, ResolveKey, WriteKey, Signs, AppendLine, AppendFails, Auditing,
       Appending, lockRest
  <2>2. Keeps(p, Audit)
    BY <1>0, <2>1 DEF LocksHeld, JobFits, Auditing, Appending
  <2>3. QED
    BY <2>1, <2>2, Moved DEF Keeps, Has
<1>3. CASE UnlockAudit(p, "done", "acknowledge")
  <2>1. pc[p] = "unlock audit" /\ \E label \in {"done", "acknowledge"} : Goto(p, label)
    BY <1>3 DEF UnlockAudit
  <2>2. QED
    BY <2>1, Moved DEF Auditing, Appending
<1>4. QED
  BY <1>1, <1>2, <1>3 DEF Recorder, AuditStep

\* A job begins at the first step of its operation.
LEMMA FitsBegin ==
  ASSUME LedgerInv, NEW p \in Proc, Begin(p)
  PROVE  JobFits(p)' /\ LocksHeld(p)'
<1> USE StoreFacts, Domains DEF JobFits, LocksHeld, Types, Goto
<1>0. TypeOK
  BY DEF LedgerInv
<1>1. PICK op \in Ops, f \in File :
         /\ job' = [job EXCEPT ![p] = [op |-> op, file |-> f, id |-> FirstId + jobs]]
         /\ op \notin {"record", "list"} => f = IF op = "clear" THEN Failures ELSE Provisions
         /\ Goto(p, FirstStep(op))
  BY DEF Begin
<1>2. \/ op \in {"record", "clear"} /\ FirstStep(op) = "ask"
      \/ op = "list" /\ FirstStep(op) = "read"
      \/ op = "clean" /\ FirstStep(op) = "rotate"
      \/ op = "revert" /\ FirstStep(op) = "load backup"
      \/ op = "restore" /\ FirstStep(op) = "restore"
      \/ op = "warm" /\ FirstStep(op) = "warm"
  BY OpsAssumption DEF FirstStep
<1>3. [op |-> op, file |-> f, id |-> FirstId + jobs] \in Job
  BY <1>0, Numbers DEF Begin, Job
<1>4. job'[p].op = op /\ job'[p].file = f /\ job'[p] # None /\ pc'[p] = FirstStep(op)
  BY <1>0, <1>1, <1>3
<1>5. JobFits(p)'
  <2>1. Belongs(op, pc'[p])
    BY <1>2, <1>4 DEF Belongs
  <2>2. Belongs(job[p].op, pc[p])'
    BY <2>1, <1>4 DEF Belongs, Auditing, Appending
  <2>3. QED
    BY <1>1, <1>4, <2>2
<1>6. LocksHeld(p)'
  BY <1>2, <1>4 DEF Auditing, Appending
<1>7. QED
  BY <1>5, <1>6

\* A process asks for the lock that its next step works under.
LEMMA FitsAsk ==
  ASSUME LedgerInv, NEW p \in Proc, Ask(p) \/ Repair(p) \/ Rotate(p)
  PROVE  JobFits(p)' /\ LocksHeld(p)'
<1> USE StoreFacts DEF JobFits, LocksHeld
<1>0. TypeOK /\ LocksHeld(p) /\ JobFits(p)
  BY DEF LedgerInv
<1>1. job' = job
  BY DEF Ask, Repair, Rotate, storeVars
<1>2. CASE Ask(p)
  <2>1. pc[p] = "ask" /\ (pc'[p] \in {"threw", "ask"} \/ (pc'[p] = "read" /\ Has(p, Provisions)'))
    BY <1>0, <1>2, EnterIs DEF Ask
  <2>2. job[p] # None /\ job[p].op \in {"record", "clear", "restore"}
    BY <1>0, <2>1 DEF Belongs, Auditing, Appending
  <2>3. QED
    BY <1>0, <1>1, <2>1, <2>2 DEF Belongs, Auditing, Appending, Keeps
<1>3. CASE Repair(p)
  <2>1. job[p] # None /\ job[p].op \in {"record", "clear", "list"} /\ pc[p] = "repair"
    BY <1>0, <1>3 DEF Repair, Belongs, Auditing, Appending
  <2>2. /\ robbed \subseteq robbed'
        /\ \A k \in Lock : Has(p, k) /\ k \notin robbed' => Has(p, k)'
        /\ \/ pc'[p] = "rewrite" /\ Has(p, job[p].file)' /\ Has(Nobody, job[p].file) /\ robbed' = robbed
           \/ pc'[p] = AfterRead(p)
           \/ pc'[p] = "repair"
    <3>1. job[p].file \in Lock /\ Attempt(p, job[p].file, "rewrite", AfterRead(p))
      BY <1>0, <1>3, <2>1 DEF Repair
    <3>2. QED
      BY <1>1, <2>1, <3>1, AttemptIs DEF Has
  <2>3. pc'[p] \in {"rewrite", "write", "done", "repair"} /\ (pc'[p] = "write" => job[p].op # "list")
    BY <2>2 DEF AfterRead
  <2>4. JobFits(p)'
    BY <1>0, <1>1, <2>1, <2>3 DEF Belongs
  <2>5. job[p].op # "list" => Keeps(p, Provisions)'
    BY <1>0, <2>1, <2>2, StillKeeps
  <2>6. pc'[p] = "rewrite" => Keeps(p, job[p].file)'
    BY <2>2 DEF AfterRead, Keeps
  <2>7. pc'[p] = "rewrite" /\ job[p].file = Provisions /\ Provisions \notin robbed' => job[p].op = "list"
    <3> SUFFICES ASSUME pc'[p] = "rewrite", job[p].file = Provisions, Provisions \notin robbed',
                        job[p].op # "list"
                 PROVE  FALSE
      OBVIOUS
    <3>1. Has(Nobody, Provisions) /\ Provisions \notin robbed
      BY <2>2 DEF AfterRead
    <3>2. Has(p, Provisions)
      BY <1>0, <2>1, <3>1 DEF Keeps
    <3>3. QED
      BY <1>0, <3>1, <3>2 DEF Has
  <2>8. LocksHeld(p)'
    BY <1>1, <2>1, <2>3, <2>5, <2>6, <2>7 DEF Auditing, Appending, Keeps, Has
  <2>9. QED
    BY <2>4, <2>8
<1>4. CASE Rotate(p)
  <2>1. job[p] # None /\ job[p].op = "clean" /\ pc[p] = "rotate"
    BY <1>0, <1>4 DEF Rotate, Belongs, Auditing, Appending
  <2>2. \/ pc'[p] = "load" /\ Has(p, job[p].file)'
        \/ pc'[p] \in {"no rotation", "rotate"}
    <3>1. PICK f \in Lock : f = job[p].file /\ Attempt(p, f, "load", "no rotation")
      BY <1>0, <1>4, <2>1 DEF Rotate
    <3>2. \/ pc'[p] = "load" /\ Has(p, f)' /\ Has(Nobody, f) /\ robbed' = robbed
          \/ pc'[p] = "no rotation" /\ holder' = holder /\ robbed' = robbed
          \/ pc' = pc
      BY <3>1, AttemptIs, Zenon
    <3>3. QED
      BY <1>1, <2>1, <3>1, <3>2 DEF Has
  <2>3. QED
    BY <1>0, <1>1, <2>1, <2>2 DEF Belongs, Auditing, Appending, Keeps, Has
<1>5. QED
  BY <1>2, <1>3, <1>4

LEMMA FitsStore ==
  ASSUME LedgerInv, NEW p \in Proc, StoreStep(p)
  PROVE  JobFits(p)' /\ LocksHeld(p)'
<1> USE StoreFacts, Domains DEF JobFits, LocksHeld, Types, Goto
<1>0. TypeOK /\ LocksHeld(p) /\ JobFits(p)
  BY DEF LedgerInv
<1>1. CASE Ask(p) \/ Repair(p) \/ Rotate(p)
  BY <1>1, FitsAsk
<1>2. CASE Throw(p) \/ Done(p)
  BY <1>0, <1>2 DEF Throw, Done, Forget
<1>3. CASE Read(p)
  <2>1. /\ job' = job /\ pc[p] = "read" /\ holder' = holder /\ robbed' = robbed
        /\ pc'[p] \in {"repair", AfterRead(p)}
        /\ pc'[p] = "repair" => job[p].op # "restore"
    BY <1>0, <1>3 DEF Read, AfterRead
  <2>2. job[p] # None /\ job[p].op \in {"record", "clear", "list", "restore"}
    BY <1>0, <2>1 DEF Belongs, Auditing, Appending
  <2>3. pc'[p] \in {"repair", "write", "done"} /\ (pc'[p] = "write" => job[p].op # "list")
    BY <2>1 DEF AfterRead
  <2>4. QED
    BY <1>0, <2>1, <2>2, <2>3 DEF Belongs, Auditing, Appending, Keeps, Has
<1>4. CASE Rewrite(p)
  <2>1. /\ job' = job /\ pc[p] = "rewrite" /\ robbed' = robbed /\ pc'[p] = AfterRead(p)
        /\ holder' = [holder EXCEPT ![job[p].file] = Nobody]
    BY <1>0, <1>4 DEF Rewrite, Free, lockRest
  <2>2. job[p] # None /\ job[p].op \in {"record", "clear", "list"}
    BY <1>0, <2>1 DEF Belongs, Auditing, Appending
  <2>3. pc'[p] \in {"write", "done"} /\ (pc'[p] = "write" => job[p].op # "list")
    BY <2>1 DEF AfterRead
  <2>4. job[p].op # "list" => Keeps(p, Provisions)'
    BY <1>0, <2>1, <2>2 DEF Keeps, Has
  <2>5. QED
    BY <1>0, <2>1, <2>2, <2>3, <2>4 DEF Belongs, Auditing, Appending
<1>5. CASE Write(p) \/ Clear(p)
  <2>1. /\ job' = job /\ pc[p] = "write" /\ holder' = holder /\ robbed' = robbed
        /\ \/ pc'[p] = "unlock"
           \/ pc'[p] = "unlock, then audit" /\ job[p].op = "record"
    BY <1>0, <1>5 DEF Write, Clear, lockRest
  <2>2. job[p] # None /\ job[p].op \in {"record", "clear", "restore"}
    BY <1>0, <2>1 DEF Belongs, Auditing, Appending
  <2>3. QED
    BY <1>0, <2>1, <2>2 DEF Belongs, Auditing, Appending, Keeps, Has
<1>6. CASE Unlock(p) \/ UnlockThenAudit(p)
  <2>1. /\ job' = job
        /\ \/ pc[p] = "unlock" /\ pc'[p] = "done"
           \/ pc[p] = "unlock, then audit" /\ pc'[p] = "audit"
    BY <1>0, <1>6 DEF Unlock, UnlockThenAudit, storeVars
  <2>2. QED
    BY <1>0, <2>1 DEF Belongs, Auditing, Appending
<1>7. CASE SkipRotation(p) \/ Trim(p)
  <2>1. pc[p] \in {"no rotation", "trim"} /\ NextRotation(p, "done")
    BY <1>7 DEF SkipRotation, Trim
  <2>2. job[p] # None /\ job[p].op = "clean"
    BY <1>0, <2>1 DEF Belongs, Auditing, Appending
  <2>3. /\ job'[p] # None /\ job'[p].op = "clean" /\ pc'[p] \in {"rotate", "done"}
    BY <2>1, <2>2, NextRotationMoves
  <2>4. QED
    BY <2>3 DEF Belongs, Auditing, Appending
<1>8. CASE Load(p)
  <2>1. job' = job /\ pc[p] = "load" /\ pc'[p] = "trim" /\ holder' = holder /\ robbed' = robbed
    BY <1>0, <1>8 DEF Load
  <2>2. job[p] # None /\ job[p].op = "clean"
    BY <1>0, <2>1 DEF Belongs, Auditing, Appending
  <2>3. QED
    BY <1>0, <2>1, <2>2 DEF Belongs, Auditing, Appending, Keeps, Has
<1>9. CASE LoadBackup(p) \/ Replace(p)
  <2>1. job' = job /\ pc[p] \in {"load backup", "replace"} /\ pc'[p] \in {"replace", "done"}
    BY <1>0, <1>9 DEF LoadBackup, Replace
  <2>2. job[p] # None /\ job[p].op = "revert"
    BY <1>0, <2>1 DEF Belongs, Auditing, Appending
  <2>3. QED
    BY <1>0, <2>1, <2>2 DEF Belongs, Auditing, Appending
<1>10. QED
  BY <1>1, <1>2, <1>3, <1>4, <1>5, <1>6, <1>7, <1>8, <1>9 DEF StoreStep

\* A process stays at a step of its job, with the locks of that step.
LEMMA FitsStep ==
  ASSUME LedgerInv, NEW p \in Proc, Act(p)
  PROVE  JobFits(p)' /\ LocksHeld(p)'
<1> USE StoreFacts, Domains DEF JobFits, LocksHeld, Types, Goto
<1>0. TypeOK /\ LocksHeld(p) /\ JobFits(p)
  BY DEF LedgerInv
<1>1. CASE Begin(p) \/ StoreStep(p)
  BY <1>1, FitsBegin, FitsStore
<1>2. CASE Recorder(p)
  <2>1. job' = job
    BY <1>2 DEF Recorder, storeVars
  <2>2. job[p] # None /\ job[p].op = "record" /\ pc[p] \in Auditing \cup {"audit"}
    BY <1>0, <1>2, RecorderAt DEF Belongs, Auditing, Appending
  <2>3. pc'[p] \in Auditing \cup {"audit", "acknowledge", "done"}
    BY <1>2, RecorderAt
  <2>4. Belongs(job[p].op, pc'[p])
    BY <2>2, <2>3 DEF Belongs, Auditing
  <2>5. JobFits(p)'
    BY <1>0, <2>1, <2>2, <2>4 DEF Belongs, Auditing, Appending
  <2>6. LocksHeld(p)'
    BY <1>2, <2>1, <2>3, RecorderAt DEF Auditing, Appending
  <2>7. QED
    BY <2>5, <2>6
<1>3. CASE Warm(p)
  <2>1. /\ job' = job /\ pc[p] \in {"warm", "warm key"} /\ pc'[p] \in {"warm key", "warmed"}
    BY <1>0, <1>3 DEF Warm, WarmKey, ResolveKey, WriteKey, Signs, storeVars
  <2>2. job[p] # None /\ job[p].op = "warm"
    BY <1>0, <2>1 DEF Belongs, Auditing, Appending
  <2>3. QED
    BY <1>0, <2>1, <2>2 DEF Belongs, Auditing, Appending
<1>4. CASE Acknowledge(p) \/ Warmed(p)
  <2>1. job' = job /\ pc'[p] = "done" /\ pc[p] \in {"acknowledge", "warmed"}
    BY <1>4 DEF Acknowledge, Warmed, storeVars
  <2>2. QED
    BY <1>0, <2>1 DEF Belongs, Auditing, Appending
<1>5. CASE VerifyLog(p) \/ TakeEvents(p)
  <2>1. /\ job' = job /\ pc[p] \in {"restore", "take"} /\ pc'[p] \in {"take", "ask", "done"}
    BY <1>5 DEF VerifyLog, TakeEvents, storeVars
  <2>2. job[p] # None /\ job[p].op = "restore"
    BY <1>0, <2>1 DEF Belongs, Auditing, Appending
  <2>3. QED
    BY <1>0, <2>1, <2>2 DEF Belongs, Auditing, Appending
<1>6. CASE Rebuild(p)
  <2>1. /\ job' = job /\ pc[p] = "write" /\ pc'[p] = "unlock" /\ job[p].op = "restore"
        /\ holder' = holder /\ robbed' = robbed
    BY <1>6 DEF Rebuild, lockRest
  <2>2. job[p] # None
    BY <1>0, <2>1
  <2>3. QED
    BY <1>0, <2>1, <2>2 DEF Belongs, Auditing, Appending, Keeps, Has
<1>7. CASE Die(p)
  BY <1>0, <1>7 DEF Die, Crash
<1>8. QED
  BY <1>1, <1>2, <1>3, <1>4, <1>5, <1>6, <1>7 DEF Act

-----------------------------------------------------------------------------
(* The files of the store. *)

\* Whose steps write to the store.
LEMMA LogKept ==
  ASSUME NEW p \in Proc, Act(p)
  PROVE  log' = log \/ Rewrite(p) \/ Write(p) \/ Clear(p) \/ Trim(p) \/ Replace(p) \/ Rebuild(p)
BY DEF Act, StoreStep, Begin, Ask, Throw, Done, Forget, Read, Repair, Unlock, UnlockThenAudit,
   Rotate, SkipRotation, Load, LoadBackup, Recorder, Acknowledge, Warm, Warmed, VerifyLog,
   TakeEvents, Die, storeVars

LEMMA KeptIsPart ==
  ASSUME NEW f, NEW records
  PROVE  /\ Kept(f, records) \subseteq records
         /\ f = Provisions => \A r \in records : r.id \notin OldId => r \in Kept(f, records)
<1>1. \A k, rs : SliceLast(k, rs) \subseteq rs
  BY DEF SliceLast, Newest
<1>2. Newest(MaxRecords, records) \subseteq records
  BY DEF Newest
<1>3. QED
  BY <1>1, <1>2, Zenon DEF Kept

\* Nobody places a record in the ledger while another has its lock.
LEMMA PlacedStep ==
  ASSUME LedgerInv, NEW p \in Proc, Act(p), NEW q \in Proc \ {p}, Keeps(q, Provisions),
         Provisions \notin robbed'
  PROVE  Placed' \subseteq Placed
<1> USE StoreFacts, Domains DEF Types
<1>0. TypeOK /\ LocksHeld(p) /\ JobFits(p) /\ LedgerIsRead(p)
  BY DEF LedgerInv
<1>1. ~Has(p, Provisions) /\ ~Keeps(p, Provisions)
  <2>1. Provisions \notin robbed
    BY AllLocks
  <2>2. QED
    BY <2>1 DEF Keeps, Has
<1>2. CASE log'[Provisions] = log[Provisions]
  BY <1>2 DEF Placed, Valid
<1>3. CASE Rewrite(p) \/ Trim(p)
  <2>1. job[p] # None /\ Keeps(p, job[p].file)
    BY <1>0, <1>3 DEF Rewrite, Trim, LocksHeld, JobFits
  <2>2. job[p].file # Provisions
    BY <1>1, <2>1
  <2>3. log'[Provisions] = log[Provisions]
    BY <1>0, <1>3, <2>2 DEF Rewrite, Trim, Put
  <2>4. QED
    BY <1>2, <2>3
<1>4. CASE Write(p) \/ Rebuild(p)
  <2>1. job[p] # None /\ pc[p] = "write" /\ job[p].op # "list"
    BY <1>0, <1>4 DEF Write, Rebuild, JobFits
  <2>2. QED
    BY <1>0, <1>1, <2>1 DEF LocksHeld
<1>5. CASE Clear(p)
  <2>1. job[p].file = Failures
    BY <1>0, <1>5 DEF Clear, JobFits
  <2>2. QED
    BY <1>0, <1>2, <1>5, <2>1 DEF Clear, Put
<1>6. CASE Replace(p)
  <2>1. view[p] = Backup
    BY <1>0, <1>6 DEF Replace, LedgerIsRead, JobFits
  <2>2. log'[Provisions] \in {Backup, log[Provisions]}
    BY <1>0, <1>6, <2>1 DEF Replace, Put
  <2>3. QED
    BY <2>2 DEF Placed, Valid
<1>7. QED
  BY <1>2, <1>3, <1>4, <1>5, <1>6, LogKept

\* The steps that lead a process to where it writes.
LEMMA ToWrite ==
  ASSUME LedgerInv, NEW p \in Proc, Act(p), pc'[p] \in {"repair", "write", "trim", "replace"}
  PROVE  Read(p) \/ Repair(p) \/ Rewrite(p) \/ Load(p) \/ LoadBackup(p)
<1> USE Domains DEF Types, Goto
<1>0. TypeOK /\ JobFits(p)
  BY DEF LedgerInv
<1>1. ~Begin(p)
  BY OpsAssumption DEF Begin, FirstStep
<1>2. ~(Ask(p) \/ Rotate(p))
  <2>1. CASE Ask(p)
    BY <1>0, <2>1, EnterLeads, StoreFacts DEF Ask
  <2>2. CASE Rotate(p)
    <3>1. job[p].file \in Lock /\ pc[p] = "rotate" /\ Attempt(p, job[p].file, "load", "no rotation")
      BY <1>0, <2>2, StoreFacts DEF Rotate, JobFits
    <3>2. pc'[p] \in {"load", "no rotation", "rotate"}
      BY <3>1, EnterLeads
    <3>3. QED
      BY <3>2
  <2>3. QED
    BY <2>1, <2>2
<1>3. ~(Throw(p) \/ Unlock(p) \/ UnlockThenAudit(p) \/ Done(p) \/ Write(p) \/ Clear(p) \/ Replace(p))
  BY DEF Throw, Unlock, UnlockThenAudit, Done, Write, Clear, Replace
<1>4. ~(SkipRotation(p) \/ Trim(p))
  BY DEF SkipRotation, Trim, NextRotation
<1>5. ~Recorder(p)
  BY RecorderAt DEF Auditing, Appending
<1>6. ~(Acknowledge(p) \/ Warm(p) \/ Warmed(p) \/ VerifyLog(p) \/ TakeEvents(p) \/ Rebuild(p) \/ Die(p))
  BY DEF Acknowledge, Warm, WarmKey, ResolveKey, WriteKey, Signs, Warmed, VerifyLog, TakeEvents,
     Rebuild, Die, Crash
<1>7. QED
  BY <1>1, <1>2, <1>3, <1>4, <1>5, <1>6 DEF Act, StoreStep

\* Who is about to write the ledger has read it under the lock.
LEMMA ReadStep ==
  ASSUME LedgerInv, NEW p \in Proc, Act(p)
  PROVE  LedgerIsRead(p)'
<1> USE StoreFacts, Domains DEF LedgerIsRead, Types, Goto
<1>0. /\ TypeOK /\ LocksHeld(p) /\ JobFits(p) /\ LedgerIsRead(p)
      /\ robbed \subseteq robbed'
  BY AllLocks DEF LedgerInv
<1>1. CASE pc'[p] \notin {"repair", "write", "trim", "replace"}
  BY <1>1
<1>2. CASE Read(p) \/ Load(p)
  <2>1. /\ job' = job /\ log' = log /\ pc'[p] # "replace" /\ job[p] # None
        /\ p \notin blind' => view'[p] = Valid(log[job[p].file])
    BY <1>0, <1>2 DEF Read, Load, Reads, AfterRead, JobFits
  <2>2. QED
    BY <2>1 DEF Sees, Placed, Valid
<1>3. CASE Repair(p)
  <2>1. /\ log' = log /\ view' = view /\ blind' = blind /\ job' = job
        /\ pc[p] = "repair" /\ job[p] # None /\ job[p].file \in Lock
        /\ Attempt(p, job[p].file, "rewrite", AfterRead(p))
    BY <1>0, <1>3 DEF Repair, storeVars, JobFits
  <2>2. Placed' = Placed
    BY <2>1 DEF Placed, Valid
  <2>3. \/ pc'[p] = "rewrite" \/ pc'[p] = AfterRead(p) \/ pc'[p] = "repair"
    BY <2>1, EnterLeads
  <2>4. pc'[p] \in {"rewrite", "done", "repair"} \/ (pc'[p] = "write" /\ job[p].op # "list")
    BY <2>3 DEF AfterRead
  <2>5. Sees(p)' => Sees(p)
    BY <1>0, <2>1 DEF Sees
  <2>6. QED
    BY <1>0, <2>1, <2>2, <2>4, <2>5
<1>4. CASE Rewrite(p)
  <2>1. /\ job' = job /\ robbed' = robbed /\ pc'[p] = AfterRead(p) /\ pc[p] = "rewrite"
        /\ job[p] # None
    BY <1>0, <1>4 DEF Rewrite, lockRest, JobFits
  <2>2. pc'[p] = "done" \/ (pc'[p] = "write" /\ job[p].op # "list")
    BY <2>1 DEF AfterRead
  <2>3. QED
    BY <1>0, <2>1, <2>2 DEF LocksHeld, Sees
<1>5. CASE LoadBackup(p)
  <2>1. /\ job' = job /\ pc[p] = "load backup" /\ pc'[p] \in {"replace", "done"}
        /\ pc'[p] = "replace" => view'[p] = Backup
    BY <1>0, <1>5 DEF LoadBackup
  <2>2. QED
    BY <2>1
<1>6. QED
  BY <1>1, <1>2, <1>3, <1>4, <1>5, ToWrite

\* What a step reads.
LEMMA ViewStep ==
  ASSUME LedgerInv, NEW p \in Proc, Act(p)
  PROVE  \/ view'[p] \in {view[p], {}, Backup}
         \/ job[p] # None /\ view'[p] = Valid(log[job[p].file])
<1> USE StoreFacts, Domains DEF Types
<1>0. TypeOK /\ JobFits(p)
  BY DEF LedgerInv
<1>1. CASE Read(p) \/ Load(p) \/ LoadBackup(p)
  BY <1>0, <1>1 DEF Read, Load, LoadBackup, Reads, JobFits
<1>2. CASE ~(Read(p) \/ Load(p) \/ LoadBackup(p)) /\ StoreStep(p)
  BY <1>0, <1>2 DEF StoreStep, Ask, Throw, Repair, Rewrite, Write, Clear, Unlock, UnlockThenAudit,
     Done, Rotate, SkipRotation, Trim, Replace, Forget, storeVars
<1>3. CASE \/ Begin(p) \/ Recorder(p) \/ Acknowledge(p) \/ Warm(p) \/ Warmed(p) \/ VerifyLog(p)
           \/ TakeEvents(p) \/ Rebuild(p) \/ Die(p)
  BY <1>0, <1>3 DEF Begin, Recorder, Acknowledge, Warm, Warmed, VerifyLog, TakeEvents, Rebuild, Die,
     storeVars
<1>4. QED
  BY <1>1, <1>2, <1>3 DEF Act

\* What a step writes.
LEMMA LogStep ==
  ASSUME LedgerInv, NEW p \in Proc, Act(p), NEW f \in File
  PROVE  \/ log'[f] \in {log[f], {}} \/ log'[f] \subseteq view[p]
         \/ /\ job[p] # None /\ job[p].op = "record" /\ pc[p] = "write"
            /\ log'[f] = view[p] \cup {[id |-> job[p].id, by |-> p]}
         \/ pc[p] = "write" /\ log'[f] = view[p] \cup Missing(p)
<1> USE StoreFacts, Domains DEF Types
<1>0. TypeOK /\ JobFits(p)
  BY DEF LedgerInv
<1>1. CASE Rewrite(p) \/ Replace(p)
  BY <1>0, <1>1 DEF Rewrite, Replace, Put, JobFits
<1>2. CASE Write(p)
  BY <1>0, <1>2 DEF Write, JobFits
<1>3. CASE Clear(p)
  BY <1>0, <1>3 DEF Clear, Put, JobFits
<1>4. CASE Trim(p)
  <2>1. job[p] # None /\ Kept(job[p].file, view[p]) \subseteq view[p]
    BY <1>0, <1>4, KeptIsPart DEF Trim, JobFits
  <2>2. log' = log \/ log' = [log EXCEPT ![job[p].file] = Kept(job[p].file, view[p])]
    BY <1>4 DEF Trim, Put
  <2>3. QED
    BY <1>0, <2>1, <2>2
<1>5. CASE Rebuild(p)
  BY <1>0, <1>5 DEF Rebuild, Put
<1>6. QED
  BY <1>1, <1>2, <1>3, <1>4, <1>5, LogKept

-----------------------------------------------------------------------------
(* The lines of the audit log. *)

\* Lines are appended to the audit log, and the last one may be spoilt.
LEMMA LinesStep ==
  ASSUME LedgerInv, NEW p \in Proc, Act(p)
  PROVE  \/ lines' = lines
         \/ /\ pc[p] = "append"
            /\ \/ lines' = WithLine(NewEntry(tail[p], event[p], myKey[p]))
               \/ lines' = WithLine(Junk)
<1>1. CASE Recorder(p)
  BY <1>1 DEF Recorder, AuditStep, AskAudit, ReadAudit, AuditKey, ResolveKey, WriteKey, AppendLine,
     AppendFails, InPart, Appended, UnlockAudit, auditVars
<1>2. CASE Die(p)
  BY <1>2 DEF Die, InPart, Appended
<1>3. CASE ~(Recorder(p) \/ Die(p))
  BY <1>3 DEF Act, auditVars, Acknowledge, Warm, WarmKey, ResolveKey, WriteKey, Warmed, VerifyLog,
     TakeEvents, Rebuild
<1>4. QED
  BY <1>1, <1>2, <1>3

LEMMA AppendIs ==
  ASSUME NEW S, NEW s \in Seq(S), NEW x \in S
  PROVE  /\ Append(s, x) \in Seq(S) /\ Len(s) \in Nat /\ Len(Append(s, x)) = Len(s) + 1
         /\ DOMAIN s = 1..Len(s) /\ DOMAIN Append(s, x) = 1..(Len(s) + 1)
         /\ Append(s, x)[Len(s) + 1] = x
         /\ \A i \in 1..Len(s) : Append(s, x)[i] = s[i]
OBVIOUS

LEMMA WithLineIs ==
  ASSUME LedgerInv, NEW l
  PROVE  /\ lines \in Seq(Entry \cup {Junk})
         /\ \/ WithLine(l) = Append(lines, l)
            \/ \E n \in Nat :
                 /\ DOMAIN WithLine(l) = 1..(n + 1) /\ Len(WithLine(l)) = n + 1
                 /\ WithLine(l)[n + 1] = Junk
                 /\ \A i \in 1..n : i \in DOMAIN lines /\ WithLine(l)[i] = lines[i]
<1>1. lines \in Seq(Entry \cup {Junk}) /\ Len(lines) \in Nat /\ DOMAIN lines = 1..Len(lines)
  BY DEF LedgerInv, TypeOK, AuditTypeOK
<1>2. CASE ending = "clean"
  BY <1>1, <1>2 DEF WithLine
<1>3. CASE ending # "clean"
  <2>1. WithLine(l) = Append(Front(lines), Junk)
    BY <1>3 DEF WithLine
  <2>2. CASE Len(lines) = 0
    <3>1. Front(lines) = <<>>
      BY <1>1, <2>2 DEF Front
    <3>2. WithLine(l) = <<Junk>>
      BY <2>1, <3>1
    <3>3. DOMAIN <<Junk>> = 1..(0 + 1) /\ Len(<<Junk>>) = 0 + 1 /\ <<Junk>>[0 + 1] = Junk
      OBVIOUS
    <3>4. QED
      BY <1>1, <3>2, <3>3
  <2>3. CASE Len(lines) > 0
    <3> DEFINE front == SubSeq(lines, 1, Len(lines) - 1)
    <3>1. /\ front \in Seq(Entry \cup {Junk}) /\ Len(front) = Len(lines) - 1
          /\ \A i \in 1..Len(front) : front[i] = lines[i]
      BY <1>1, <2>3
    <3>2. WithLine(l) = Append(front, Junk)
      BY <2>1 DEF Front
    <3> HIDE DEF front
    <3>3. /\ Len(Append(front, Junk)) = Len(front) + 1
          /\ DOMAIN Append(front, Junk) = 1..(Len(front) + 1)
          /\ Append(front, Junk)[Len(front) + 1] = Junk
          /\ \A i \in 1..Len(front) : Append(front, Junk)[i] = front[i]
          /\ Len(front) \in Nat
      BY <3>1, AppendIs
    <3>0. Len(lines) \in Nat /\ DOMAIN lines = 1..Len(lines) /\ Len(front) = Len(lines) - 1
      BY <1>1, <3>1
    <3>4. \A i \in 1..Len(front) : i \in DOMAIN lines
      BY <3>0
    <3>5. /\ DOMAIN WithLine(l) = 1..(Len(front) + 1) /\ Len(WithLine(l)) = Len(front) + 1
          /\ WithLine(l)[Len(front) + 1] = Junk
          /\ \A i \in 1..Len(front) : i \in DOMAIN lines /\ WithLine(l)[i] = lines[i]
      BY <3>1, <3>2, <3>3, <3>4
    <3>6. QED
      BY <1>1, <3>3, <3>5
  <2>4. QED
    BY <1>1, <2>2, <2>3
<1>4. QED
  BY <1>1, <1>2, <1>3

LEMMA AuditedIs ==
  ASSUME NEW ls, NEW i
  PROVE  i \in AuditedIds(ls) <=> \E j \in DOMAIN ls : ls[j] # Junk /\ ls[j].event = i
BY DEF AuditedIds, IsEntry

LEMMA NewEntryIs ==
  ASSUME NEW last, NEW e, NEW k
  PROVE  NewEntry(last, e, k).event = e /\ NewEntry(last, e, k).key = k
BY DEF NewEntry

\* What restore takes from the log are events of it, one for each resource.
LEMMA FirstEventsAre ==
  ASSUME NEW S, NEW ls \in Seq(S)
  PROVE  /\ FirstEvents(ls) \subseteq AuditedIds(ls)
         /\ \A i, j \in FirstEvents(ls) : ArnOf[i] = ArnOf[j] => i = j
<1> DEFINE fit == {i \in DOMAIN ls : IsEntry(ls, i) /\ ls[i].event \notin StaleId}
           Again(i) == \E j \in fit : j < i /\ ArnOf[ls[j].event] = ArnOf[ls[i].event]
<1>1. FirstEvents(ls) = {ls[i].event : i \in {j \in fit : ~Again(j)}}
  BY DEF FirstEvents
<1>2. \A i \in fit : i \in Nat /\ i \in DOMAIN ls /\ IsEntry(ls, i)
  OBVIOUS
<1>3. FirstEvents(ls) \subseteq AuditedIds(ls)
  BY <1>1, <1>2 DEF AuditedIds
<1>4. ASSUME NEW i \in FirstEvents(ls), NEW j \in FirstEvents(ls), ArnOf[i] = ArnOf[j]
      PROVE  i = j
  <2>1. PICK a \in fit : ~Again(a) /\ ls[a].event = i
    BY <1>1
  <2>2. PICK b \in fit : ~Again(b) /\ ls[b].event = j
    BY <1>1
  <2>3. ~(a < b) /\ ~(b < a)
    BY <1>4, <2>1, <2>2
  <2>4. a = b
    BY <1>2, <2>3
  <2>5. QED
    BY <2>1, <2>2, <2>4
<1>5. QED
  BY <1>3, <1>4

\* What a restoring process takes from the audit log.
LEMMA TakenStep ==
  ASSUME LedgerInv, NEW p \in Proc, Act(p)
  PROVE  /\ audited'[p] \in {audited[p], {}, FirstEvents(lines)}
         /\ OnePerResource(p)'
<1> USE Domains DEF Types
<1>0. lines \in Seq(Entry \cup {Junk}) /\ OnePerResource(p)
  BY DEF LedgerInv, TypeOK, AuditTypeOK
<1>1. audited'[p] \in {audited[p], {}, FirstEvents(lines)}
  <2>1. CASE TakeEvents(p) \/ Rebuild(p) \/ Die(p)
    BY <2>1 DEF TakeEvents, Rebuild, Die
  <2>2. CASE audited' = audited
    BY <2>2
  <2>3. QED
    BY <2>1, <2>2 DEF Act, Begin, Recorder, Acknowledge, Warm, Warmed, VerifyLog
<1>2. QED
  BY <1>0, <1>1, FirstEventsAre DEF OnePerResource

-----------------------------------------------------------------------------
(* Jobs. *)

\* A process keeps its job until it is over.
LEMMA JobStep ==
  ASSUME LedgerInv, NEW p \in Proc, Act(p)
  PROVE  \/ Begin(p)
         \/ /\ jobs' = jobs
            /\ \/ job'[p] = None
               \/ /\ job[p] # None /\ job'[p] # None
                  /\ job'[p].id = job[p].id /\ job'[p].op = job[p].op
<1> USE StoreFacts, Domains DEF Types
<1>0. TypeOK /\ JobFits(p)
  BY DEF LedgerInv
<1>1. CASE Trim(p) \/ SkipRotation(p)
  <2>1. job[p] # None /\ jobs' = jobs /\ NextRotation(p, "done")
    BY <1>0, <1>1 DEF Trim, SkipRotation, JobFits
  <2>2. QED
    BY <2>1, NextRotationMoves
<1>2. CASE jobs' = jobs /\ job' = job
  BY <1>2
<1>3. CASE Throw(p) \/ Done(p) \/ Die(p)
  BY <1>0, <1>3 DEF Throw, Done, Forget, Die
<1>4. QED
  BY <1>1, <1>2, <1>3 DEF Act, StoreStep, Ask, Read, Repair, Rewrite, Write, Clear, Unlock,
     UnlockThenAudit, Rotate, Load, LoadBackup, Replace, Recorder, Acknowledge, Warm, Warmed,
     VerifyLog, TakeEvents, Rebuild, storeVars

LEMMA BeginIs ==
  ASSUME LedgerInv, NEW p \in Proc, Begin(p)
  PROVE  jobs' = jobs + 1 /\ job'[p].id = FirstId + jobs /\ job[p] = None
<1>1. PICK op \in Ops, f \in File :
        job' = [job EXCEPT ![p] = [op |-> op, file |-> f, id |-> FirstId + jobs]]
  BY DEF Begin
<1>2. QED
  BY <1>1, Domains DEF LedgerInv, Begin, Types, JobFits, Belongs, Auditing, Appending

\* The numbers of the jobs keep apart.
LEMMA FreshStep ==
  ASSUME LedgerInv, NEW p \in Proc, Act(p), NEW q \in Proc
  PROVE  OwnId(q)'
<1> USE Numbers
<1>0. TypeOK /\ \A r \in Proc : OwnId(r)
  BY DEF LedgerInv
<1>1. jobs \in Nat /\ \A r \in Proc : job[r] # None => job[r].id \in Nat
  BY <1>0, StoreFacts DEF Ids
<1>2. \A r \in Proc \ {p} : job'[r] = job[r]
  BY Others DEF Rests
<1>3. \A r \in Proc : job[r] # None =>
        /\ FirstId <= job[r].id /\ job[r].id < FirstId + jobs
        /\ \A s \in Proc \ {r} : job[s] # None => job[s].id # job[r].id
  BY <1>0 DEF OwnId
<1>4. CASE Begin(p)
  <2>1. jobs' = jobs + 1 /\ job'[p].id = FirstId + jobs
    BY <1>4, BeginIs
  <2>2. CASE q = p
    BY <1>1, <1>2, <1>3, <2>1, <2>2 DEF OwnId
  <2>3. CASE q # p
    BY <1>1, <1>2, <1>3, <2>1, <2>3 DEF OwnId
  <2>4. QED
    BY <2>2, <2>3
<1>5. CASE ~Begin(p)
  <2>1. jobs' = jobs /\ (job'[p] # None => job[p] # None /\ job'[p].id = job[p].id)
    BY <1>5, JobStep
  <2>2. \A r \in Proc : job'[r] # None => job[r] # None /\ job'[r].id = job[r].id
    BY <1>2, <2>1
  <2>3. QED
    BY <1>3, <2>1, <2>2 DEF OwnId
<1>6. QED
  BY <1>4, <1>5

-----------------------------------------------------------------------------
(* The audit log. *)

\* The entries of a log are chained; anew says whether one may start a chain
\* after others.
Chained(ls, anew) ==
  \A i \in DOMAIN ls : IsEntry(ls, i) =>
    \/ Starts(ls[i]) /\ (NoneBefore(ls, i) \/ anew)
    \/ Continues(ls, i)

\* An appender has read the last entry of a log, or may start a chain.
IsTail(last, ls, anew) ==
  \/ last = Nobody /\ (NoneBefore(ls, Len(ls) + 1) \/ anew)
  \/ \E i \in DOMAIN ls : IsLastBefore(ls, i, Len(ls) + 1) /\ last = ls[i]

LEMMA LinkAppend ==
  ASSUME NEW ls \in Seq(Entry \cup {Junk}), NEW anew \in BOOLEAN, Chained(ls, anew), NEW l,
         \/ l = Junk
         \/ \E last, e, k : l = NewEntry(last, e, k) /\ IsTail(last, ls, anew)
  PROVE  Chained(Append(ls, l), anew)
<1> DEFINE new == Append(ls, l)
           n == Len(ls)
<1>1. /\ n \in Nat /\ DOMAIN ls = 1..n /\ DOMAIN new = 1..(n + 1) /\ new[n + 1] = l
      /\ \A i \in 1..n : new[i] = ls[i]
  OBVIOUS
<1> HIDE DEF new, n
<1>2. \A i \in 1..n : IsEntry(new, i) <=> IsEntry(ls, i)
  BY <1>1 DEF IsEntry
<1>3. \A i \in 1..n, m \in 1..(n + 1) : IsLastBefore(ls, i, m) => IsLastBefore(new, i, m)
  BY <1>1, <1>2 DEF IsLastBefore
<1>4. \A m \in 1..(n + 1) : NoneBefore(ls, m) => NoneBefore(new, m)
  BY <1>1, <1>2 DEF NoneBefore
<1>5. ASSUME NEW i \in 1..n, IsEntry(new, i)
      PROVE  (Starts(new[i]) /\ (NoneBefore(new, i) \/ anew)) \/ Continues(new, i)
  <2>1. (Starts(ls[i]) /\ (NoneBefore(ls, i) \/ anew)) \/ Continues(ls, i)
    BY <1>1, <1>2, <1>5 DEF Chained
  <2>2. i \in 1..(n + 1) /\ i \in 1..n
    BY <1>1
  <2>3. CASE Starts(ls[i]) /\ (NoneBefore(ls, i) \/ anew)
    BY <1>1, <1>4, <2>2, <2>3
  <2>4. CASE Continues(ls, i)
    <3>1. PICK j \in 1..n : /\ IsLastBefore(ls, j, i)
                            /\ ls[i].index = ls[j].index + 1 /\ ls[i].prev = Hmac(ls[j])
      BY <1>1, <2>4 DEF Continues
    <3>2. /\ j \in DOMAIN new /\ IsLastBefore(new, j, i)
          /\ new[i].index = new[j].index + 1 /\ new[i].prev = Hmac(new[j])
      BY <1>1, <1>3, <2>2, <3>1
    <3>3. QED
      BY <3>2 DEF Continues
  <2>5. QED
    BY <2>1, <2>3, <2>4
<1>6. ASSUME IsEntry(new, n + 1)
      PROVE  (Starts(new[n + 1]) /\ (NoneBefore(new, n + 1) \/ anew)) \/ Continues(new, n + 1)
  <2>1. PICK last, e, k : l = NewEntry(last, e, k) /\ IsTail(last, ls, anew)
    BY <1>1, <1>6 DEF IsEntry
  <2>2. CASE last = Nobody /\ (NoneBefore(ls, n + 1) \/ anew)
    <3>1. Starts(l)
      BY <2>1, <2>2 DEF NewEntry, Starts
    <3>2. n + 1 \in 1..(n + 1)
      BY <1>1
    <3>3. QED
      BY <1>1, <1>4, <2>2, <3>1, <3>2
  <2>3. ASSUME NEW i \in DOMAIN ls, IsLastBefore(ls, i, n + 1), last = ls[i]
        PROVE  Continues(new, n + 1)
    <3>1. last # Nobody
      BY <2>3, AuditAssumption DEF IsLastBefore, IsEntry
    <3>2. l.index = last.index + 1 /\ l.prev = Hmac(last)
      BY <2>1, <3>1 DEF NewEntry
    <3>3. i \in 1..n /\ n + 1 \in 1..(n + 1) /\ i \in DOMAIN new
      BY <1>1
    <3>4. /\ IsLastBefore(new, i, n + 1)
          /\ new[n + 1].index = new[i].index + 1 /\ new[n + 1].prev = Hmac(new[i])
      BY <1>1, <1>3, <2>3, <3>2, <3>3
    <3>5. QED
      BY <3>3, <3>4 DEF Continues
  <2>4. QED
    BY <2>1, <2>2, <2>3 DEF IsTail, n
<1>7. QED
  BY <1>1, <1>5, <1>6 DEF Chained, new

\* A log whose end is spoilt is chained as far as it goes.
LEMMA LinkSpoilt ==
  ASSUME NEW ls \in Seq(Entry \cup {Junk}), NEW anew \in BOOLEAN, Chained(ls, anew),
         NEW new, NEW n \in Nat,
         DOMAIN new = 1..(n + 1), new[n + 1] = Junk,
         \A i \in 1..n : i \in DOMAIN ls /\ new[i] = ls[i]
  PROVE  Chained(new, anew)
<1>1. \A i \in 1..n : IsEntry(new, i) <=> IsEntry(ls, i)
  BY DEF IsEntry
<1>2. ASSUME NEW i \in 1..n, NEW j \in DOMAIN ls, IsLastBefore(ls, j, i)
      PROVE  j \in 1..n /\ IsLastBefore(new, j, i)
  <2>1. DOMAIN ls = 1..Len(ls) /\ Len(ls) \in Nat
    OBVIOUS
  <2>2. j \in 1..n
    BY <1>2, <2>1 DEF IsLastBefore
  <2>3. QED
    BY <1>1, <1>2, <2>2 DEF IsLastBefore
<1>3. \A i \in 1..n : NoneBefore(ls, i) => NoneBefore(new, i)
  BY <1>1 DEF NoneBefore
<1>4. ~IsEntry(new, n + 1)
  BY DEF IsEntry
<1>5. ASSUME NEW i \in 1..n, IsEntry(new, i)
      PROVE  (Starts(new[i]) /\ (NoneBefore(new, i) \/ anew)) \/ Continues(new, i)
  <2>1. (Starts(ls[i]) /\ (NoneBefore(ls, i) \/ anew)) \/ Continues(ls, i)
    BY <1>1, <1>5 DEF Chained
  <2>2. Continues(ls, i) => Continues(new, i)
    BY <1>2 DEF Continues
  <2>3. QED
    BY <1>3, <2>1, <2>2
<1>6. QED
  BY <1>4, <1>5 DEF Chained

\* A process that has the audit log's lock is the only one that appends.
LEMMA OneAppender ==
  ASSUME LedgerInv, NEW p \in Proc, NEW q \in Proc, p # q, Audit \notin robbed,
         pc[p] \in Appending, pc[q] \in Appending
  PROVE  FALSE
<1>1. /\ JobFits(p) /\ LocksHeld(p) /\ JobFits(q) /\ LocksHeld(q)
  BY DEF LedgerInv
<1>2. Has(p, Audit) /\ Has(q, Audit)
  BY <1>1 DEF JobFits, LocksHeld, Auditing, Appending, Keeps
<1>3. QED
  BY <1>2 DEF Has

LEMMA FaultsAre ==
  ASSUME LedgerInv, NEW p \in Proc, Act(p)
  PROVE  /\ faults \in Nat /\ faults' \in Nat /\ (faults > 0) \in BOOLEAN
         /\ faults > 0 => faults' > 0
<1>1. faults \in 0..MaxFaults /\ faults' \in {faults, faults + 1}
  BY AllLocks DEF LedgerInv, TypeOK, LockTypeOK
<1>2. QED
  BY <1>1, FaultsAssumption

LEMMA LinkStep ==
  ASSUME LedgerInv, NEW p \in Proc, Act(p)
  PROVE  ChainIsLinked'
<1> DEFINE anew == faults' > 0
<1> SUFFICES ASSUME Audit \notin robbed'
             PROVE  Chained(lines', anew)
  BY DEF ChainIsLinked, Chained, IsEntry, NoneBefore, Continues, IsLastBefore
<1>0. /\ Audit \notin robbed /\ AppenderIsCurrent(p)
      /\ faults > 0 => anew
  BY AllLocks, FaultsAre DEF LedgerInv
<1>1. Chained(lines, anew)
  BY <1>0 DEF LedgerInv, ChainIsLinked, Chained
<1>2. CASE lines' = lines
  BY <1>1, <1>2
<1>3. ASSUME pc[p] = "append", NEW l, lines' = WithLine(l),
             l = NewEntry(tail[p], event[p], myKey[p]) \/ l = Junk
      PROVE  Chained(lines', anew)
  <2>1. lines \in Seq(Entry \cup {Junk}) /\ anew \in BOOLEAN
    BY WithLineIs
  <2>2. IsTail(tail[p], lines, anew)
    BY <1>0, <1>3 DEF AppenderIsCurrent, Appending, IsTail
  <2> HIDE DEF anew
  <2>3. CASE WithLine(l) = Append(lines, l)
    BY <1>1, <1>3, <2>1, <2>2, <2>3, LinkAppend
  <2>4. ASSUME NEW n \in Nat, DOMAIN WithLine(l) = 1..(n + 1), WithLine(l)[n + 1] = Junk,
               \A i \in 1..n : i \in DOMAIN lines /\ WithLine(l)[i] = lines[i]
        PROVE  Chained(WithLine(l), anew)
    BY <1>1, <2>1, <2>4, LinkSpoilt
  <2>5. QED
    BY <1>3, <2>3, <2>4, WithLineIs
<1>4. QED
  BY <1>2, <1>3, LinesStep

\* Only a recorder comes to the steps of an append and of what follows it.
LEMMA OnlyRecorders ==
  ASSUME LedgerInv, NEW p \in Proc, Act(p), pc'[p] \in Auditing \cup {"acknowledge"}
  PROVE  Recorder(p)
<1> USE Domains DEF Types, Goto, Auditing, Appending
<1>0. TypeOK /\ JobFits(p)
  BY DEF LedgerInv
<1>1. ~Begin(p)
  BY OpsAssumption DEF Begin, FirstStep
<1>2. ~StoreStep(p)
  <2>1. ASSUME Ask(p) PROVE FALSE
    <3>1. Provisions \in Lock /\ pc[p] = "ask" /\ Enter(p, Provisions, "read", "threw")
      BY <1>0, <2>1, StoreFacts DEF Ask
    <3>2. pc'[p] \in {"read", "threw", "ask"}
      BY <3>1, EnterLeads
    <3>3. QED
      BY <3>2
  <2>2. ~(Repair(p) \/ Rotate(p))
    <3> SUFFICES ASSUME Repair(p) \/ Rotate(p)
                 PROVE  pc'[p] \in {"rewrite", AfterRead(p), "load", "no rotation", "repair", "rotate"}
      BY DEF AfterRead
    <3>1. job[p].file \in Lock /\ pc[p] \in {"repair", "rotate"}
      BY <1>0, StoreFacts DEF Repair, Rotate, JobFits
    <3>2. QED
      BY <3>1, EnterLeads DEF Repair, Rotate
  <2>3. ~(Read(p) \/ Rewrite(p))
    BY DEF Read, Rewrite, AfterRead
  <2>4. ~(SkipRotation(p) \/ Trim(p))
    BY DEF SkipRotation, Trim, NextRotation
  <2>5. QED
    BY <2>1, <2>2, <2>3, <2>4 DEF StoreStep, Throw, Write, Clear, Unlock, UnlockThenAudit, Done,
       Load, LoadBackup, Replace
<1>3. ~(Acknowledge(p) \/ Warm(p) \/ Warmed(p) \/ VerifyLog(p) \/ TakeEvents(p) \/ Rebuild(p) \/ Die(p))
  BY DEF Acknowledge, Warm, WarmKey, ResolveKey, WriteKey, Signs, Warmed, VerifyLog, TakeEvents,
     Rebuild, Die, Crash
<1>4. QED
  BY <1>1, <1>2, <1>3 DEF Act

LEMMA ToAppend ==
  ASSUME LedgerInv, NEW p \in Proc, Act(p), pc'[p] \in Appending
  PROVE  Recorder(p) /\ (ReadAudit(p, job[p].id) \/ AuditKey(p))
<1> USE Domains DEF Types, Goto, Appending
<1>1. Recorder(p)
  BY OnlyRecorders DEF Auditing
<1>2. ASSUME AskAudit(p, "done") PROVE FALSE
  <2>1. Audit \in Lock /\ pc[p] = "audit" /\ Enter(p, Audit, "read audit", "done")
    BY <1>2, AuditAssumption DEF AskAudit
  <2>2. pc'[p] \in {"read audit", "done", "audit"}
    BY <2>1, EnterLeads
  <2>3. QED
    BY <2>2
<1>3. ~(AppendLine(p) \/ AppendFails(p) \/ UnlockAudit(p, "done", "acknowledge"))
  BY DEF AppendLine, AppendFails, UnlockAudit
<1>4. QED
  BY <1>1, <1>2, <1>3 DEF Recorder, AuditStep

\* An appender stays current: nobody else appends while it has the lock.
LEMMA CurrentStep ==
  ASSUME LedgerInv, NEW p \in Proc, Act(p), NEW q \in Proc
  PROVE  AppenderIsCurrent(q)'
<1> USE Domains DEF Types, Goto
<1>0. /\ TypeOK /\ AppenderIsCurrent(q) /\ AppenderIsCurrent(p)
      /\ robbed \subseteq robbed' /\ (faults > 0 => faults' > 0)
  BY AllLocks, FaultsAre DEF LedgerInv
<1>1. CASE q # p
  <2>1. Rests(q)
    BY <1>1, Others
  <2>2. CASE pc[q] \in Appending
    <3>1. event'[q] = job'[q].id /\ (pc'[q] = "append" => myKey'[q] \in Key)
      BY <1>0, <2>1, <2>2 DEF AppenderIsCurrent, Rests
    <3>2. ASSUME Audit \notin robbed'
          PROVE  IsTail(tail'[q], lines', faults' > 0)
      <4>1. Audit \notin robbed
        BY <1>0, <3>2
      <4>2. pc[p] # "append"
        BY <1>1, <2>2, <4>1, OneAppender DEF Appending
      <4>3. lines' = lines
        BY <4>2, LinesStep
      <4>4. IsTail(tail[q], lines, faults' > 0)
        BY <1>0, <2>2, <4>1 DEF AppenderIsCurrent, IsTail
      <4>5. QED
        BY <2>1, <4>3, <4>4 DEF Rests
    <3>3. QED
      BY <3>1, <3>2 DEF AppenderIsCurrent, IsTail, NoneBefore, IsLastBefore, IsEntry
  <2>3. QED
    BY <2>1, <2>2 DEF AppenderIsCurrent, Rests
<1>2. CASE q = p /\ pc'[p] \in Appending
  <2>1. Recorder(p) /\ (ReadAudit(p, job[p].id) \/ AuditKey(p))
    BY <1>2, ToAppend
  <2>2. lines' = lines /\ job' = job
    BY <2>1 DEF Recorder, ReadAudit, AuditKey, ResolveKey, WriteKey, storeVars
  <2>3. /\ event'[p] = job[p].id
        /\ Audit \notin robbed' => IsTail(tail'[p], lines, faults' > 0)
    <3>1. CASE ReadAudit(p, job[p].id)
      <4>1. Fails => faults' > 0
        BY FaultsAre DEF Fails
      <4>2. QED
        BY <1>0, <3>1, <4>1 DEF ReadAudit, TypeOK, AuditTypeOK, IsTail
    <3>2. CASE AuditKey(p)
      <4>1. tail' = tail /\ event' = event /\ pc[p] \in Appending
        BY <3>2 DEF AuditKey, ResolveKey, WriteKey, Appending
      <4>2. QED
        BY <1>0, <4>1 DEF AppenderIsCurrent, IsTail
    <3>3. QED
      BY <2>1, <3>1, <3>2
  <2>4. pc'[p] = "append" => myKey'[p] \in Key
    BY <1>0, <2>1 DEF ReadAudit, AuditKey, ResolveKey, WriteKey, Signs, Key, TypeOK, AuditTypeOK
  <2>5. QED
    BY <1>2, <2>2, <2>3, <2>4 DEF AppenderIsCurrent, IsTail, NoneBefore, IsLastBefore, IsEntry
<1>3. QED
  BY <1>1, <1>2 DEF AppenderIsCurrent

\* An event once in the log stays there, or the log shows that lines are glued.
LEMMA LinesKeep ==
  ASSUME LedgerInv, NEW p \in Proc, Act(p)
  PROVE  \/ Junk \in Range(lines')
         \/ /\ Junk \notin Range(lines) /\ AuditedIds(lines) \subseteq AuditedIds(lines')
            /\ lines' # lines => event[p] \in AuditedIds(lines')
<1> DEFINE new == NewEntry(tail[p], event[p], myKey[p])
<1>0. new.event = event[p]
  BY NewEntryIs
<1> HIDE DEF new
<1>1. CASE lines' = lines
  BY <1>1, AuditedIs DEF Range
<1>2. ASSUME NEW l, lines' = WithLine(l), l = new \/ l = Junk
      PROVE  \/ Junk \in Range(lines')
             \/ /\ Junk \notin Range(lines) /\ AuditedIds(lines) \subseteq AuditedIds(lines')
                /\ event[p] \in AuditedIds(lines')
  <2>1. CASE WithLine(l) = Append(lines, l)
    <3>1. /\ DOMAIN lines' = 1..(Len(lines) + 1) /\ lines'[Len(lines) + 1] = l /\ Len(lines) \in Nat
          /\ DOMAIN lines = 1..Len(lines)
          /\ \A n \in 1..Len(lines) : lines'[n] = lines[n]
      BY <1>2, <2>1, WithLineIs
    <3>2. CASE Junk \in Range(lines) \/ l = Junk
      BY <3>1, <3>2 DEF Range
    <3>3. CASE Junk \notin Range(lines) /\ l = new /\ l # Junk
      <4>1. \A n \in DOMAIN lines : n \in DOMAIN lines' /\ lines'[n] = lines[n]
        BY <3>1
      <4>2. AuditedIds(lines) \subseteq AuditedIds(lines')
        BY <4>1, AuditedIs
      <4>3. event[p] \in AuditedIds(lines')
        BY <1>0, <3>1, <3>3, AuditedIs
      <4>4. QED
        BY <3>3, <4>2, <4>3
    <3>4. QED
      BY <1>2, <3>2, <3>3
  <2>2. ASSUME NEW n \in Nat, DOMAIN WithLine(l) = 1..(n + 1), WithLine(l)[n + 1] = Junk
        PROVE  Junk \in Range(lines')
    BY <1>2, <2>2 DEF Range
  <2>3. QED
    BY <2>1, <2>2, WithLineIs
<1>3. \/ lines' = lines \/ lines' = WithLine(new) \/ lines' = WithLine(Junk)
  BY LinesStep DEF new
<1>4. QED
  BY <1>1, <1>2, <1>3

\* How a recorder comes to owe its return.
LEMMA OwesStep ==
  ASSUME LedgerInv, NEW p \in Proc, Act(p), Owes(p)'
  PROVE  /\ job' = job /\ acked' = acked
         /\ AppendLine(p) \/ (UnlockAudit(p, "done", "acknowledge") /\ Owes(p))
<1> USE Domains DEF Types, Goto
<1>0. TypeOK
  BY DEF LedgerInv
<1>1. Recorder(p)
  BY OnlyRecorders DEF Owes, Auditing
<1>2. ASSUME AskAudit(p, "done") PROVE FALSE
  <2>1. Audit \in Lock /\ pc[p] = "audit" /\ Enter(p, Audit, "read audit", "done")
    BY <1>2, AuditAssumption DEF AskAudit
  <2>2. pc'[p] \in {"read audit", "done", "audit"}
    BY <2>1, EnterLeads
  <2>3. QED
    BY <2>2 DEF Owes
<1>3. ~(ReadAudit(p, job[p].id) \/ AuditKey(p) \/ AppendFails(p))
  BY <1>0 DEF ReadAudit, AuditKey, ResolveKey, WriteKey, Signs, AppendFails, Owes, TypeOK, AuditTypeOK
<1>4. UnlockAudit(p, "done", "acknowledge") => Owes(p)
  BY DEF UnlockAudit, Owes
<1>5. QED
  BY <1>1, <1>2, <1>3, <1>4 DEF Recorder, AuditStep, storeVars

LEMMA WrittenStep ==
  ASSUME LedgerInv, NEW p \in Proc, Act(p)
  PROVE  EventsAreWritten'
<1>0. /\ TypeOK /\ AppenderIsCurrent(p) /\ EventsAreWritten
  BY DEF LedgerInv
<1>1. CASE Junk \in Range(lines')
  BY <1>1 DEF EventsAreWritten, Range
<1>2. CASE /\ Junk \notin Range(lines) /\ AuditedIds(lines) \subseteq AuditedIds(lines')
           /\ Junk \notin Range(lines')
           /\ lines' # lines => event[p] \in AuditedIds(lines')
  <2>1. /\ acked \subseteq AuditedIds(lines')
        /\ \A q \in Proc : Owes(q) => job[q].id \in AuditedIds(lines')
    BY <1>0, <1>2 DEF EventsAreWritten
  <2>2. acked' \subseteq AuditedIds(lines')
    <3>1. CASE Acknowledge(p)
      BY <2>1, <3>1 DEF Acknowledge, Owes
    <3>2. CASE ~Acknowledge(p)
      BY <2>1, <3>2 DEF Act, Begin, StoreStep, Recorder, Warm, Warmed, VerifyLog, TakeEvents,
         Rebuild, Die
    <3>3. QED
      BY <3>1, <3>2
  <2>3. ASSUME NEW q \in Proc \ {p}, Owes(q)'
        PROVE  job'[q].id \in AuditedIds(lines')
    BY <2>1, <2>3, Others DEF Rests, Owes
  <2>4. ASSUME Owes(p)'
        PROVE  job'[p].id \in AuditedIds(lines')
    <3>1. CASE AppendLine(p) /\ job' = job
      <4>1. event[p] = job[p].id
        BY <1>0, <3>1 DEF AppendLine, AppenderIsCurrent, Appending
      <4>2. lines' # lines
        <5>1. lines' = WithLine(NewEntry(tail[p], event[p], myKey[p]))
          BY <3>1 DEF AppendLine, Appended
        <5>2. QED
          BY <5>1, <1>2, WithLineIs DEF Range
      <4>3. QED
        BY <1>2, <3>1, <4>1, <4>2
    <3>2. CASE UnlockAudit(p, "done", "acknowledge") /\ Owes(p) /\ job' = job
      BY <2>1, <3>2 DEF UnlockAudit
    <3>3. QED
      BY <2>4, <3>1, <3>2, OwesStep
  <2>5. \A q \in Proc : Owes(q)' => job'[q].id \in AuditedIds(lines')
    BY <2>3, <2>4
  <2>6. QED
    BY <2>2, <2>5 DEF EventsAreWritten, AuditedIds, IsEntry, Owes
<1>3. QED
  BY <1>1, <1>2, LinesKeep

-----------------------------------------------------------------------------
(* Types. *)

LEMMA EntryType ==
  ASSUME NEW last \in Entry \cup {Nobody}, NEW e \in Event, NEW k \in Key
  PROVE  NewEntry(last, e, k) \in Entry
<1>1. CASE last = Nobody
  BY <1>1 DEF NewEntry, Entry, Genesis
<1>2. CASE last \in Entry /\ last # Nobody
  <2>1. /\ last.index \in Nat /\ last.prev \in Seq(Event \X Key)
        /\ <<last.event, last.key>> \in Event \X Key
    BY <1>2 DEF Entry
  <2>2. Hmac(last) \in Seq(Event \X Key)
    BY <2>1, AppendIs DEF Hmac
  <2>3. QED
    BY <1>2, <2>1, <2>2 DEF NewEntry, Entry
<1>3. QED
  BY <1>1, <1>2

LEMMA LineType ==
  ASSUME LedgerInv, NEW l \in Entry \cup {Junk}
  PROVE  WithLine(l) \in Seq(Entry \cup {Junk})
<1>1. lines \in Seq(Entry \cup {Junk}) /\ Len(lines) \in Nat
  BY DEF LedgerInv, TypeOK, AuditTypeOK
<1>2. Front(lines) \in Seq(Entry \cup {Junk})
  BY <1>1 DEF Front
<1>3. QED
  BY <1>1, <1>2, AppendIs DEF WithLine

\* What a step does to the rest of the locks.
Probing(p) ==
  /\ faults' = faults \/ Fails
  /\ robbed' = robbed \/ \E l \in Lock : robbed' = robbed \cup {l}
  /\ probe' = probe \/ \E x \in {"stat", "unlink", "create"} : probe' = [probe EXCEPT ![p] = x]

LEMMA ProbeStep ==
  ASSUME LedgerInv, NEW p \in Proc, Act(p)
  PROVE  Probing(p)
<1> USE StoreFacts
<1>0. TypeOK /\ JobFits(p)
  BY DEF LedgerInv
<1>1. ASSUME NEW l \in Lock, NEW granted, NEW refused, Attempt(p, l, granted, refused)
      PROVE  Probing(p)
  BY <1>1 DEF Attempt, Create, Lose, Probing
<1>2. CASE Ask(p)
  BY <1>0, <1>1, <1>2, Zenon DEF Ask, Enter
<1>3. CASE AskAudit(p, "done")
  BY <1>0, <1>1, <1>3, Zenon DEF AskAudit, Enter
<1>4. CASE Repair(p) \/ Rotate(p)
  <2>1. job[p].file \in Lock
    BY <1>0, <1>4 DEF Repair, Rotate, JobFits
  <2>2. QED
    BY <1>1, <1>4, <2>1 DEF Repair, Rotate
<1>5. CASE lockRest' = lockRest
  BY <1>5 DEF lockRest, Probing
<1>6. CASE Read(p) \/ Load(p) \/ LoadBackup(p)
  BY <1>6 DEF Read, Load, LoadBackup, Reads, Probing
<1>7. CASE ReadAudit(p, job[p].id) \/ AuditKey(p) \/ AppendFails(p) \/ Warm(p)
  BY <1>7 DEF ReadAudit, AuditKey, ResolveKey, WriteKey, AppendFails, Warm, WarmKey, Probing
<1>8. CASE VerifyLog(p) \/ TakeEvents(p)
  BY <1>8 DEF VerifyLog, TakeEvents, Probing
<1>9. CASE Die(p)
  BY <1>9 DEF Die, Crash, Probing
<1>10. QED
  <2>1. CASE Begin(p) \/ StoreStep(p)
    BY <1>2, <1>4, <1>5, <1>6, <2>1 DEF Begin, StoreStep, Throw, Rewrite, Write, Clear, Unlock,
       UnlockThenAudit, Done, SkipRotation, Trim, Replace, Forget
  <2>2. CASE Recorder(p)
    BY <1>3, <1>5, <1>7, <2>2 DEF Recorder, AuditStep, AppendLine, UnlockAudit
  <2>3. QED
    BY <1>5, <1>7, <1>8, <1>9, <2>1, <2>2 DEF Act, Acknowledge, Warmed, Rebuild

LEMMA LockTypes ==
  ASSUME LedgerInv, NEW p \in Proc, Act(p)
  PROVE  LockTypeOK' /\ (DOMAIN pc = Proc)'
<1>0. LockTypeOK
  BY DEF LedgerInv, TypeOK
<1>1. holder' \in [Lock -> Proc \cup {Nobody, Orphan}]
  <2>1. LockMove(p) /\ holder \in [Lock -> Proc \cup {Nobody, Orphan}]
    BY <1>0, AllLocks DEF LockTypeOK
  <2>2. QED
    BY <2>1 DEF LockMove
<1>2. Probing(p)
  BY ProbeStep
<1>3. probe' \in [Proc -> {"stat", "unlink", "create"}]
  BY <1>0, <1>2 DEF Probing, LockTypeOK
<1>4. robbed' \subseteq Lock
  BY <1>0, <1>2 DEF Probing, LockTypeOK
<1>5. faults' \in 0..MaxFaults
  BY <1>0, <1>2, FaultsAssumption DEF Probing, Fails, LockTypeOK
<1>6. QED
  BY <1>1, <1>3, <1>4, <1>5, PcMoves DEF LockTypeOK, PcMove

LEMMA StoreTypes ==
  ASSUME LedgerInv, NEW p \in Proc, Act(p)
  PROVE  StoreTypeOK'
<1> USE StoreFacts, Domains DEF Types
<1>0. /\ TypeOK /\ JobFits(p) /\ \A q \in Proc : audited[q] \in SUBSET Ids
      /\ Backup \in SUBSET Record /\ blind \subseteq Proc
  BY RecordedAssumption DEF Recorded, LedgerInv, TypeOK, StoreTypeOK
<1>1. Valid(log[Provisions]) \in SUBSET Record /\ \A t \in SUBSET Record : Valid(t) \in SUBSET Record
  BY <1>0 DEF Valid
<1>2. view'[p] \in SUBSET Record
  BY <1>0, <1>1, ViewStep
<1>3. Missing(p) \in SUBSET Record
  BY <1>0 DEF Missing, Record
<1>4. \A f \in File : log'[f] \in SUBSET Record
  BY <1>0, <1>3, LogStep DEF Record
<1>5. log' \in [File -> SUBSET Record]
  <2>1. log' = log \/ \E f, x : log' = [log EXCEPT ![f] = x]
    BY LogKept DEF Rewrite, Write, Clear, Trim, Replace, Rebuild, Put
  <2>2. QED
    BY <1>0, <1>4, <2>1
<1>6. view' \in [Proc -> SUBSET Record] /\ blind' \subseteq Proc
  <2>1. /\ view' = view \/ \E x : view' = [view EXCEPT ![p] = x]
        /\ blind' \in {blind, blind \ {p}, blind \cup {p}}
    <3>1. CASE StoreStep(p)
      BY <3>1 DEF StoreStep, Ask, Throw, Read, Reads, Repair, Rewrite, Write, Clear, Unlock,
         UnlockThenAudit, Done, Rotate, SkipRotation, Load, Trim, LoadBackup, Replace, Forget, storeVars
    <3>2. CASE ~StoreStep(p)
      BY <3>2 DEF Act, Begin, Recorder, Acknowledge, Warm, Warmed, VerifyLog, TakeEvents, Rebuild,
         Die, storeVars
    <3>3. QED
      BY <3>1, <3>2
  <2>2. QED
    BY <1>0, <1>2, <2>1
<1>7. job' \in [Proc -> Job \cup {None}] /\ jobs' \in 0..MaxJobs
  <2>1. CASE Begin(p)
    <3>1. PICK op \in Ops, f \in File :
            job' = [job EXCEPT ![p] = [op |-> op, file |-> f, id |-> FirstId + jobs]]
      BY <2>1 DEF Begin
    <3>2. [op |-> op, file |-> f, id |-> FirstId + jobs] \in Job
      BY <1>0, <2>1, Numbers DEF Begin, Job
    <3>3. jobs' \in 0..MaxJobs
      BY <1>0, <2>1, Numbers DEF Begin
    <3>4. QED
      BY <1>0, <3>1, <3>2, <3>3
  <2>2. CASE SkipRotation(p) \/ Trim(p)
    <3>1. jobs' = jobs /\ job[p] # None /\ NextRotation(p, "done")
      BY <1>0, <2>2 DEF SkipRotation, Trim, JobFits
    <3>2. job'[p] \in Job
      BY <3>1, NextRotationMoves
    <3>3. \E x : job' = [job EXCEPT ![p] = x]
      BY <3>1, Zenon DEF NextRotation
    <3>4. QED
      BY <1>0, <3>1, <3>2, <3>3
  <2>3. CASE StoreStep(p) /\ ~(SkipRotation(p) \/ Trim(p))
    BY <1>0, <2>3 DEF StoreStep, Ask, Throw, Read, Repair, Rewrite, Write, Clear, Unlock, UnlockThenAudit,
       Done, Rotate, Load, LoadBackup, Replace, Forget, storeVars
  <2>4. CASE \/ Recorder(p) \/ Acknowledge(p) \/ Warm(p) \/ Warmed(p) \/ VerifyLog(p)
             \/ TakeEvents(p) \/ Rebuild(p) \/ Die(p)
    BY <1>0, <2>4 DEF Recorder, Acknowledge, Warm, Warmed, VerifyLog, TakeEvents, Rebuild, Die, storeVars
  <2>5. QED
    BY <2>1, <2>2, <2>3, <2>4 DEF Act
<1>8. QED
  BY <1>5, <1>6, <1>7 DEF StoreTypeOK

LEMMA AuditTypes ==
  ASSUME LedgerInv, NEW p \in Proc, Act(p)
  PROVE  AuditTypeOK' /\ audited' \in [Proc -> SUBSET Ids] /\ acked' \subseteq Ids
<1> USE Domains DEF Types
<1>0. /\ TypeOK /\ AuditTypeOK /\ audited \in [Proc -> SUBSET Ids] /\ acked \subseteq Ids
      /\ AppenderIsCurrent(p) /\ JobFits(p) /\ Event = Ids
  BY LedgerAssumption DEF LedgerInv, TypeOK
<1>1. lines' \in Seq(Entry \cup {Junk})
  <2>1. pc[p] = "append" => NewEntry(tail[p], event[p], myKey[p]) \in Entry
    <3> SUFFICES ASSUME pc[p] = "append"
                 PROVE  NewEntry(tail[p], event[p], myKey[p]) \in Entry
      OBVIOUS
    <3>1. tail[p] \in Entry \cup {Nobody} /\ myKey[p] \in Key
      BY <1>0 DEF AuditTypeOK, AppenderIsCurrent, Appending
    <3>2. event[p] \in Event
      BY <1>0, StoreFacts DEF AppenderIsCurrent, Appending, JobFits
    <3>3. QED
      BY <3>1, <3>2, EntryType
  <2>2. QED
    BY <1>0, <2>1, LineType, LinesStep DEF AuditTypeOK
<1>2. ending' \in {"clean", "cut", "unterminated"} /\ keyFile' \in {"absent", "empty", TheKey}
  <2>1. CASE Recorder(p)
    BY <1>0, <2>1 DEF Recorder, AuditStep, AskAudit, ReadAudit, AuditKey, ResolveKey, WriteKey,
       AppendLine, AppendFails, Appended, InPart, UnlockAudit, auditVars, AuditTypeOK
  <2>2. CASE ~Recorder(p)
    BY <1>0, <2>2 DEF Act, auditVars, Acknowledge, Warm, WarmKey, ResolveKey, WriteKey, Warmed,
       VerifyLog, TakeEvents, Rebuild, Die, Appended, InPart, AuditTypeOK
  <2>3. QED
    BY <2>1, <2>2
<1>3. tail' \in [Proc -> Entry \cup {Nobody}]
  <2>1. CASE Recorder(p)
    <3>1. CASE ReadAudit(p, job[p].id)
      <4>1. \A i \in DOMAIN lines : IsEntry(lines, i) => lines[i] \in Entry
        BY <1>0 DEF AuditTypeOK, IsEntry
      <4>2. QED
        BY <1>0, <3>1, <4>1 DEF ReadAudit, AuditTypeOK, IsLastBefore
    <3>2. QED
      BY <1>0, <2>1, <3>1 DEF Recorder, AuditStep, AskAudit, AuditKey, ResolveKey, WriteKey,
         AppendLine, AppendFails, UnlockAudit, ForgetAppend, auditVars, AuditTypeOK
  <2>2. CASE ~Recorder(p)
    BY <1>0, <2>2 DEF Act, auditVars, Acknowledge, Warm, WarmKey, ResolveKey, WriteKey, Warmed, VerifyLog,
       TakeEvents, Rebuild, Die, ForgetAppend, AuditTypeOK
  <2>3. QED
    BY <2>1, <2>2
<1>4. event' \in [Proc -> Event \cup {Nobody}]
  <2>1. CASE Recorder(p)
    <3>1. CASE ReadAudit(p, job[p].id)
      <4>1. job[p].id \in Event
        BY <1>0, <3>1, StoreFacts DEF ReadAudit, JobFits
      <4>2. QED
        BY <1>0, <3>1, <4>1 DEF ReadAudit, AuditTypeOK
    <3>2. QED
      BY <1>0, <2>1, <3>1 DEF Recorder, AuditStep, AskAudit, AuditKey, ResolveKey, WriteKey,
         AppendLine, AppendFails, UnlockAudit, ForgetAppend, auditVars, AuditTypeOK
  <2>2. CASE ~Recorder(p)
    BY <1>0, <2>2 DEF Act, auditVars, Acknowledge, Warm, WarmKey, ResolveKey, WriteKey, Warmed, VerifyLog,
       TakeEvents, Rebuild, Die, ForgetAppend, AuditTypeOK
  <2>3. QED
    BY <2>1, <2>2
<1>5. myKey' \in [Proc -> Key \cup {Nobody}]
  <2>1. CASE Recorder(p)
    BY <1>0, <2>1 DEF Recorder, AuditStep, AskAudit, ReadAudit, AuditKey, ResolveKey, WriteKey, Signs,
       AppendLine, AppendFails, UnlockAudit, ForgetAppend, auditVars, AuditTypeOK, Key
  <2>2. CASE ~Recorder(p)
    BY <1>0, <2>2 DEF Act, auditVars, Acknowledge, Warm, WarmKey, ResolveKey, WriteKey, Signs, Warmed,
       VerifyLog, TakeEvents, Rebuild, Die, ForgetAppend, AuditTypeOK, Key
  <2>3. QED
    BY <2>1, <2>2
<1>6. audited' \in [Proc -> SUBSET Ids]
  <2>1. AuditedIds(lines) \subseteq Ids
    <3>1. \A j \in DOMAIN lines : lines[j] # Junk => lines[j].event \in Event
      BY <1>0 DEF AuditTypeOK, Entry
    <3>2. QED
      BY <1>0, <3>1, AuditedIs
  <2>2. FirstEvents(lines) \subseteq Ids
    BY <1>0, <2>1, FirstEventsAre DEF AuditTypeOK
  <2>3. audited'[p] \subseteq Ids
    BY <1>0, <2>2, TakenStep
  <2>4. audited' = audited \/ \E x : audited' = [audited EXCEPT ![p] = x]
    BY DEF Act, Recorder, Acknowledge, Warm, Warmed, VerifyLog, TakeEvents, Rebuild, Die
  <2>5. QED
    BY <1>0, <2>3, <2>4
<1>7. acked' \subseteq Ids
  <2>1. CASE Acknowledge(p)
    BY <1>0, <2>1, StoreFacts DEF Acknowledge, JobFits
  <2>2. CASE ~Acknowledge(p)
    BY <1>0, <2>2 DEF Act, Begin, StoreStep, Recorder, Warm, Warmed, VerifyLog, TakeEvents, Rebuild, Die
  <2>3. QED
    BY <2>1, <2>2
<1>8. QED
  BY <1>1, <1>2, <1>3, <1>4, <1>5, <1>6, <1>7 DEF AuditTypeOK


-----------------------------------------------------------------------------
(* What the faults cost the audit log. *)

\* An append fails, or its process dies over it: whatever of the line is in the
\* file, nobody is to return from it.
Spoils(p) ==
  /\ pc[p] = "append" /\ faults' = faults + 1 /\ acked' = acked /\ jobs' = jobs /\ ~Owes(p)'
  /\ InPart(p) \/ Appended(p, "clean") \/ UNCHANGED <<lines, ending>>
  /\ job'[p] = None \/ (job' = job /\ pc'[p] = "unlock audit" /\ event'[p] = Nobody)

\* Whose step appends a line, or fails to, and what else a step does to what is
\* owed.
LEMMA OwedStep ==
  ASSUME LedgerInv, NEW p \in Proc, Act(p)
  PROVE  \/ AppendLine(p) /\ acked' = acked /\ job' = job /\ faults' = faults
         \/ Spoils(p)
         \/ /\ lines' = lines /\ ending' = ending /\ faults' \in {faults, faults + 1}
            /\ acked' = acked \/ Acknowledge(p)
            /\ ~AppendLine(p)
<1> USE Domains DEF Types, Goto
<1>0. TypeOK /\ faults' \in {faults, faults + 1}
  BY AllLocks DEF LedgerInv
<1>1. CASE Recorder(p)
  <2>1. CASE AppendLine(p)
    BY <1>1, <2>1 DEF Recorder, AppendLine, storeVars, lockRest
  <2>2. CASE AppendFails(p)
    <3>1. pc'[p] = "unlock audit" /\ event'[p] = Nobody
      BY <1>0, <2>2 DEF AppendFails, TypeOK, AuditTypeOK
    <3>2. QED
      BY <1>1, <2>2, <3>1 DEF Recorder, AppendFails, Fails, Spoils, Owes, storeVars
  <2>3. CASE ~(AppendLine(p) \/ AppendFails(p))
    BY <1>0, <1>1, <2>3 DEF Recorder, AuditStep, AskAudit, ReadAudit, AuditKey, ResolveKey, WriteKey,
       UnlockAudit, auditVars
  <2>4. QED
    BY <2>1, <2>2, <2>3
<1>2. CASE Die(p)
  <2>1. pc'[p] = "idle" /\ job'[p] = None
    BY <1>0, <1>2, StoreFacts DEF Die, Crash
  <2>2. ~AppendLine(p)
    BY <2>1 DEF AppendLine
  <2>3. CASE pc[p] = "append" /\ InPart(p)
    BY <1>2, <2>1, <2>3 DEF Die, Crash, Fails, Spoils, Owes
  <2>4. CASE UNCHANGED <<lines, ending>>
    BY <1>0, <1>2, <2>2, <2>4 DEF Die
  <2>5. QED
    BY <1>2, <2>3, <2>4 DEF Die
<1>3. CASE ~(Recorder(p) \/ Die(p))
  <2>1. ASSUME AppendLine(p) PROVE FALSE
    <3>1. pc[p] = "append" /\ pc'[p] = "unlock audit"
      BY <2>1 DEF AppendLine
    <3>2. QED
      BY <1>3, <3>1, OnlyRecorders DEF Auditing
  <2>2. QED
    BY <1>0, <1>3, <2>1 DEF Act, auditVars, Acknowledge, Warm, WarmKey, ResolveKey, WriteKey, Warmed,
       VerifyLog, TakeEvents, Rebuild
<1>4. QED
  BY <1>1, <1>2, <1>3

\* A job ends after its last step.
LEMMA FromDone ==
  ASSUME LedgerInv, NEW p \in Proc, Act(p), pc[p] = "done"
  PROVE  job'[p] = None
<1> USE Domains DEF Types
<1>1. ~Begin(p) /\ ~Recorder(p)
  BY RecorderAt DEF Begin, Auditing, Appending
<1>2. Done(p) \/ Die(p)
  BY <1>1 DEF Act, StoreStep, Ask, Throw, Read, Repair, Rewrite, Write, Clear, Unlock, UnlockThenAudit,
     Rotate, SkipRotation, Load, Trim, LoadBackup, Replace, Acknowledge, Warm, WarmKey, Warmed, VerifyLog,
     TakeEvents, Rebuild
<1>3. QED
  BY <1>2 DEF Done, Die, Forget

\* An event that was given up is not acknowledged.
LEMMA FromGivenUp ==
  ASSUME LedgerInv, NEW p \in Proc, Act(p), pc[p] = "unlock audit", event[p] = Nobody
  PROVE  job'[p] = None \/ pc'[p] = "done"
<1> USE Domains DEF Types
<1>1. Recorder(p) \/ Die(p)
  BY DEF Act, Begin, StoreStep, Ask, Throw, Read, Repair, Rewrite, Write, Clear, Unlock, UnlockThenAudit,
     Done, Rotate, SkipRotation, Load, Trim, LoadBackup, Replace, Acknowledge, Warm, WarmKey, Warmed,
     VerifyLog, TakeEvents, Rebuild
<1>2. CASE Recorder(p)
  <2>1. UnlockAudit(p, "done", "acknowledge")
    BY <1>2 DEF Recorder, AuditStep, AskAudit, ReadAudit, AuditKey, AppendLine, AppendFails
  <2>2. Goto(p, "done")
    BY <2>1 DEF UnlockAudit
  <2>3. QED
    BY <2>2, Moved
<1>3. CASE Die(p)
  BY <1>3 DEF Die
<1>4. QED
  BY <1>1, <1>2, <1>3

\* A job is acknowledged once.
LEMMA AckedStep ==
  ASSUME LedgerInv, NEW p \in Proc, Act(p)
  PROVE  /\ \A i \in acked' : i < FirstId + jobs'
         /\ \A q \in Proc : job'[q] # None /\ job'[q].id \in acked' => pc'[q] = "done"
<1> USE Numbers, Domains DEF Types
<1>0. /\ TypeOK /\ JobFits(p) /\ \A q \in Proc : OwnId(q)
      /\ \A q \in Proc : job[q] # None /\ job[q].id \in acked => pc[q] = "done"
      /\ \A i \in acked : i < FirstId + jobs
  BY DEF LedgerInv, LossInv
<1>1. /\ jobs \in Nat /\ \A i \in acked : i \in Nat
      /\ \A q \in Proc : job[q] # None => job[q].id \in Nat
  BY <1>0, StoreFacts DEF TypeOK, Ids
<1>2. CASE Acknowledge(p)
  <2>1. /\ pc[p] = "acknowledge" /\ job' = job /\ jobs' = jobs /\ pc' = [pc EXCEPT ![p] = "done"]
        /\ acked' = acked \cup {job[p].id}
    BY <1>2 DEF Acknowledge, storeVars, Goto
  <2>2. job[p] # None
    BY <1>0, <2>1 DEF JobFits
  <2>3. job[p].id < FirstId + jobs
    BY <1>0, <2>2 DEF OwnId
  <2>4. ASSUME NEW q \in Proc \ {p}, job[q] # None PROVE job[q].id # job[p].id
    BY <1>0, <2>2, <2>4 DEF OwnId
  <2>5. QED
    BY <1>0, <2>1, <2>3, <2>4
<1>3. CASE ~Acknowledge(p)
  <2>1. acked' = acked
    BY <1>3, OwedStep DEF Spoils
  <2>2. ASSUME NEW q \in Proc \ {p} PROVE job'[q] = job[q] /\ pc'[q] = pc[q]
    BY Others DEF Rests
  <2>3. CASE Begin(p)
    <3>1. jobs' = jobs + 1 /\ job'[p].id = FirstId + jobs
      BY <2>3, BeginIs
    <3>2. job'[p].id \notin acked
      BY <1>0, <1>1, <3>1
    <3>3. \A i \in acked' : i < FirstId + jobs'
      BY <1>0, <1>1, <2>1, <3>1
    <3>4. QED
      BY <1>0, <2>1, <2>2, <3>2, <3>3
  <2>4. CASE /\ jobs' = jobs
             /\ job'[p] = None \/ (job[p] # None /\ job'[p].id = job[p].id)
    <3>1. ASSUME job'[p] # None, job'[p].id \in acked' PROVE FALSE
      <4>1. pc[p] = "done"
        BY <1>0, <2>1, <2>4, <3>1
      <4>2. QED
        BY <3>1, <4>1, FromDone
    <3>2. QED
      BY <1>0, <2>1, <2>2, <2>4, <3>1
  <2>5. QED
    BY <2>3, <2>4, JobStep
<1>4. QED
  BY <1>2, <1>3

LEMMA LastOf ==
  ASSUME NEW S, NEW s \in Seq(S), s # <<>>
  PROVE  Len(s) > 0 /\ Len(s) \in DOMAIN s /\ s[Len(s)] \in S
<1>1. Len(s) # 0
  BY EmptySeq
<1>2. QED
  BY <1>1

\* What an append adds to the log, and what the rest of a line that was cut
\* takes from it.
LEMMA AppendedIs ==
  ASSUME LedgerInv, UnendedIsNotOwed, NEW l \in Entry \cup {Junk}
  PROVE  LET ls == WithLine(l)
             last == lines[Len(lines)]
         IN  /\ ls # <<>>
             /\ ending = "clean" =>
                  /\ ls[Len(ls)] = l
                  /\ AuditedIds(lines) \subseteq AuditedIds(ls)
                  /\ l # Junk => l.event \in AuditedIds(ls)
             /\ ending # "clean" =>
                  /\ ls[Len(ls)] = Junk
                  /\ \A i \in AuditedIds(lines) :
                       i \in AuditedIds(ls) \/ (last # Junk /\ i = last.event)
<1>1. lines \in Seq(Entry \cup {Junk}) /\ Len(lines) \in Nat /\ DOMAIN lines = 1..Len(lines)
  BY DEF LedgerInv, TypeOK, AuditTypeOK
<1> DEFINE ls == WithLine(l)
           last == lines[Len(lines)]
<1>2. CASE ending = "clean"
  <2>1. ls = Append(lines, l)
    BY <1>2 DEF WithLine
  <2>2. /\ Len(ls) = Len(lines) + 1 /\ DOMAIN ls = 1..(Len(lines) + 1)
        /\ ls[Len(lines) + 1] = l /\ \A i \in 1..Len(lines) : ls[i] = lines[i]
    BY <1>1, <2>1, AppendIs
  <2> HIDE DEF ls
  <2>3. \A j \in DOMAIN lines : j \in DOMAIN ls /\ ls[j] = lines[j]
    BY <1>1, <2>2
  <2>4. AuditedIds(lines) \subseteq AuditedIds(ls)
    BY <2>3, AuditedIs
  <2>5. l # Junk => l.event \in AuditedIds(ls)
    BY <1>1, <2>2, AuditedIs
  <2>6. ls # <<>>
    BY <1>1, <2>2
  <2>7. QED
    BY <1>2, <2>2, <2>4, <2>5, <2>6 DEF ls
<1>3. CASE ending # "clean"
  <2> DEFINE front == SubSeq(lines, 1, Len(lines) - 1)
  <2>0. Len(lines) > 0
    <3>1. lines # <<>>
      BY <1>3 DEF UnendedIsNotOwed
    <3>2. QED
      BY <1>1, <3>1, LastOf
  <2>1. /\ front \in Seq(Entry \cup {Junk}) /\ Len(front) = Len(lines) - 1
        /\ \A i \in 1..Len(front) : front[i] = lines[i]
    BY <1>1, <2>0
  <2>2. ls = Append(front, Junk)
    BY <1>3 DEF WithLine, Front
  <2> HIDE DEF front, ls
  <2>3. /\ Len(ls) = Len(lines) /\ DOMAIN ls = 1..Len(lines) /\ ls[Len(lines)] = Junk
        /\ \A i \in 1..(Len(lines) - 1) : ls[i] = lines[i]
    <3>1. /\ Len(ls) = Len(front) + 1 /\ DOMAIN ls = 1..(Len(front) + 1)
          /\ ls[Len(front) + 1] = Junk /\ \A i \in 1..Len(front) : ls[i] = front[i]
      BY <2>1, <2>2, AppendIs
    <3>2. Len(front) + 1 = Len(lines)
      BY <1>1, <2>0, <2>1
    <3>3. QED
      BY <2>1, <3>1, <3>2
  <2>4. ASSUME NEW i \in AuditedIds(lines)
        PROVE  i \in AuditedIds(ls) \/ (last # Junk /\ i = last.event)
    <3>1. PICK j \in DOMAIN lines : lines[j] # Junk /\ lines[j].event = i
      BY AuditedIs
    <3>2. CASE j = Len(lines)
      BY <3>1, <3>2
    <3>3. CASE j # Len(lines)
      <4>1. j \in 1..(Len(lines) - 1) /\ j \in DOMAIN ls
        BY <1>1, <2>3, <3>3
      <4>2. QED
        BY <2>3, <3>1, <4>1, AuditedIs
    <3>4. QED
      BY <3>2, <3>3
  <2>5. ls # <<>>
    BY <2>0, <2>3
  <2>6. QED
    BY <1>3, <2>3, <2>4, <2>5 DEF ls
<1>4. QED
  BY <1>2, <1>3

\* The line that is appended.
LEMMA NewLine ==
  ASSUME LedgerInv, NEW p \in Proc, pc[p] = "append"
  PROVE  /\ NewEntry(tail[p], event[p], myKey[p]) \in Entry
         /\ NewEntry(tail[p], event[p], myKey[p]).event = job[p].id
         /\ NewEntry(tail[p], event[p], myKey[p]) # Junk
         /\ job[p] # None
<1>1. TypeOK /\ AppenderIsCurrent(p) /\ JobFits(p) /\ Event = Ids
  BY LedgerAssumption DEF LedgerInv
<1>2. tail[p] \in Entry \cup {Nobody} /\ myKey[p] \in Key /\ event[p] = job[p].id /\ job[p] # None
  BY <1>1 DEF TypeOK, AuditTypeOK, AppenderIsCurrent, Appending, JobFits
<1>3. event[p] \in Event
  BY <1>1, <1>2, StoreFacts
<1>4. QED
  BY <1>2, <1>3, EntryType, NewEntryIs, AuditAssumption

\* A last line without its end is owed to nobody still.
LEMMA UnendedStep ==
  ASSUME LedgerInv, NEW p \in Proc, Act(p)
  PROVE  UnendedIsNotOwed'
<1> DEFINE new == NewEntry(tail[p], event[p], myKey[p])
<1> USE Numbers
<1>0. /\ UnendedIsNotOwed /\ jobs \in Nat /\ JobFits(p)
      /\ lines \in Seq(Entry \cup {Junk}) /\ OwnId(p)
      /\ \A q \in Proc : job[q] # None /\ job[q].id \in acked => pc[q] = "done"
  BY StoreFacts DEF LedgerInv, LossInv, TypeOK, AuditTypeOK
<1>1. CASE ending' = "clean"
  BY <1>1 DEF UnendedIsNotOwed
<1>2. CASE Spoils(p) /\ InPart(p)
  <2>1. PICK l \in {new, Junk} : lines' = WithLine(l)
    BY <1>2 DEF InPart, Appended
  <2>2. l \in Entry \cup {Junk} /\ (l # Junk => l.event = job[p].id) /\ job[p] # None
    BY <1>2, NewLine DEF Spoils
  <2>3. lines' # <<>> /\ lines'[Len(lines')] \in {l, Junk}
    BY <1>0, <2>1, <2>2, AppendedIs
  <2>4. job[p].id < FirstId + jobs' /\ job[p].id \notin acked'
    BY <1>0, <1>2, <2>2 DEF Spoils, OwnId
  <2>5. ASSUME NEW q \in Proc, job'[q] # None, job'[q].id = job[p].id
        PROVE  pc'[q] = "unlock audit" /\ event'[q] = Nobody
    <3>1. CASE q = p
      BY <1>2, <2>5, <3>1 DEF Spoils
    <3>2. CASE q # p
      <4>1. job'[q] = job[q]
        BY <3>2, Others DEF Rests
      <4>2. QED
        BY <1>0, <2>2, <2>5, <3>2, <4>1 DEF OwnId
    <3>3. QED
      BY <3>1, <3>2
  <2>6. QED
    BY <2>2, <2>3, <2>4, <2>5 DEF UnendedIsNotOwed
<1>3. CASE lines' = lines /\ ending' = ending
  <2> DEFINE id == lines[Len(lines)].event
  <2> SUFFICES ASSUME ending # "clean", lines[Len(lines)] # Junk
               PROVE  /\ id < FirstId + jobs' /\ id \notin acked'
                      /\ \A q \in Proc : job'[q] # None /\ job'[q].id = id =>
                           \/ pc'[q] = "done"
                           \/ pc'[q] = "unlock audit" /\ event'[q] = Nobody
    BY <1>0, <1>3 DEF UnendedIsNotOwed
  <2>1. /\ id < FirstId + jobs /\ id \notin acked
        /\ \A q \in Proc : job[q] # None /\ job[q].id = id =>
             pc[q] = "done" \/ (pc[q] = "unlock audit" /\ event[q] = Nobody)
    BY <1>0 DEF UnendedIsNotOwed
  <2>2. id \in Nat
    <3>1. lines # <<>>
      BY <1>0 DEF UnendedIsNotOwed
    <3>2. lines[Len(lines)] \in Entry
      BY <1>0, <3>1, LastOf
    <3>3. QED
      BY <3>2, LedgerAssumption DEF Entry, Ids
  <2> HIDE DEF id
  <2>3. jobs' \in {jobs, jobs + 1}
    BY JobStep, BeginIs
  <2>4. id < FirstId + jobs'
    <3>1. FirstId \in Nat /\ jobs \in Nat /\ id < FirstId + jobs
      BY <1>0, <2>1
    <3>2. \A k, m \in Nat : k < FirstId + m => k < FirstId + (m + 1)
      BY <3>1
    <3>3. id < FirstId + (jobs + 1)
      BY <2>2, <3>1, <3>2
    <3>4. CASE jobs' = jobs
      BY <3>1, <3>4
    <3>5. CASE jobs' = jobs + 1
      BY <3>3, <3>5
    <3>6. QED
      BY <2>3, <3>4, <3>5
  <2>5. id \notin acked'
    <3>1. CASE Acknowledge(p)
      <4>1. acked' = acked \cup {job[p].id} /\ job[p] # None /\ pc[p] = "acknowledge"
        BY <1>0, <3>1 DEF Acknowledge, JobFits
      <4>2. QED
        BY <2>1, <4>1
    <3>2. CASE acked' = acked
      BY <2>1, <3>2
    <3>3. QED
      BY <3>1, <3>2, OwedStep DEF Spoils
  <2>6. ASSUME NEW q \in Proc, job'[q] # None, job'[q].id = id
        PROVE  pc'[q] = "done" \/ (pc'[q] = "unlock audit" /\ event'[q] = Nobody)
    <3>1. CASE q # p
      BY <2>1, <2>6, <3>1, Others DEF Rests
    <3>2. CASE q = p
      <4>1. ASSUME Begin(p) PROVE FALSE
        <5>1. id = FirstId + jobs /\ id < FirstId + jobs /\ FirstId \in Nat /\ jobs \in Nat
          BY <1>0, <2>1, <2>6, <3>2, <4>1, BeginIs
        <5>2. QED
          BY <5>1
      <4>2. job[p] # None /\ job[p].id = id
        BY <2>6, <3>2, <4>1, JobStep
      <4>3. QED
        BY <2>1, <2>6, <3>2, <4>2, FromDone, FromGivenUp
    <3>3. QED
      BY <3>1, <3>2
  <2>7. QED
    BY <2>4, <2>5, <2>6 DEF id
<1>4. QED
  BY <1>1, <1>2, <1>3, OwedStep DEF Spoils, AppendLine, Appended

LEMMA OwedIs ==
  ASSUME NEW i
  PROVE  i \in Owed <=> i \in acked \/ \E q \in Proc : Owes(q) /\ i = job[q].id
BY DEF Owed

LEMMA LostIsFinite ==
  ASSUME LedgerInv
  PROVE  IsFiniteSet(Lost)
<1>1. Owed \subseteq Ids
  BY StoreFacts DEF LedgerInv, TypeOK, Owed, Owes, JobFits
<1>2. IsFiniteSet(Ids)
  BY Numbers, FS_Interval DEF Ids
<1>3. QED
  BY <1>1, <1>2, FS_Subset DEF Lost

\* What is owed after a step was owed before it, but for the event of the line
\* that is appended; and nothing of it was in a line without its end.
LEMMA OwedKept ==
  ASSUME LedgerInv, NEW p \in Proc, Act(p), NEW i, i \in Owed'
  PROVE  i \in Owed \/ (AppendLine(p) /\ i = job[p].id)
<1>1. CASE i \in acked'
  <2>1. i \in acked \/ (Acknowledge(p) /\ i = job[p].id /\ Owes(p))
    BY <1>1, OwedStep DEF Acknowledge, Owes, Spoils
  <2>2. QED
    BY <2>1, OwedIs
<1>2. ASSUME NEW q \in Proc, Owes(q)', i = job'[q].id
      PROVE  i \in Owed \/ (AppendLine(p) /\ i = job[p].id)
  <2>1. CASE q # p
    <3>1. Owes(q) /\ job[q] = job'[q]
      BY <1>2, <2>1, Others DEF Rests, Owes
    <3>2. QED
      BY <1>2, <3>1, OwedIs
  <2>2. CASE q = p
    <3>1. job' = job /\ (AppendLine(p) \/ Owes(p))
      BY <1>2, <2>2, OwesStep
    <3>2. QED
      BY <1>2, <2>2, <3>1, OwedIs
  <2>3. QED
    BY <2>1, <2>2
<1>3. QED
  BY <1>1, <1>2 DEF Owed

LEMMA UnendedIsNone ==
  ASSUME LedgerInv, ending # "clean", lines[Len(lines)] # Junk
  PROVE  lines[Len(lines)].event \notin Owed
<1> DEFINE id == lines[Len(lines)].event
<1>1. /\ id \notin acked
      /\ \A q \in Proc : job[q] # None /\ job[q].id = id =>
           pc[q] = "done" \/ (pc[q] = "unlock audit" /\ event[q] = Nobody)
  BY DEF LedgerInv, LossInv, UnendedIsNotOwed
<1>2. ASSUME NEW r \in Proc, Owes(r)
      PROVE  job[r].id # id
  <2>1. job[r] # None
    BY <1>2 DEF LedgerInv, JobFits, Owes
  <2>2. QED
    BY <1>1, <1>2, <2>1 DEF Owes
<1>3. QED
  BY <1>1, <1>2, OwedIs

\* Every fault has cost one event, or left the line that will.
LEMMA LostStep ==
  ASSUME LedgerInv, NEW p \in Proc, Act(p)
  PROVE  /\ faults' \in Nat
         /\ (Cardinality(Lost) + (IF ending = "clean" THEN 0 ELSE 1) <= faults)'
<1> DEFINE open == IF ending = "clean" THEN 0 ELSE 1
           new == NewEntry(tail[p], event[p], myKey[p])
<1>0. /\ faults \in Nat /\ Cardinality(Lost) + open <= faults
      /\ IsFiniteSet(Lost) /\ Cardinality(Lost) \in Nat /\ UnendedIsNotOwed
  BY LostIsFinite, FS_CardinalityType DEF LedgerInv, LossInv
<1>1. ASSUME Lost' \subseteq Lost
      PROVE  Cardinality(Lost') \in Nat /\ Cardinality(Lost') <= Cardinality(Lost)
  BY <1>0, <1>1, FS_Subset, FS_CardinalityType
<1>2. ASSUME ending # "clean", NEW l \in Entry \cup {Junk}, lines' = WithLine(l),
             NEW i \in Owed, i \in AuditedIds(lines)
      PROVE  i \in AuditedIds(lines')
  BY <1>0, <1>2, AppendedIs, UnendedIsNone
<1>3. CASE AppendLine(p) /\ faults' = faults
  <2>1. /\ lines' = WithLine(new) /\ ending' = "clean" /\ faults' = faults
        /\ new \in Entry /\ new.event = job[p].id /\ new # Junk
    BY <1>3, NewLine DEF AppendLine, Appended
  <2>2. CASE ending = "clean"
    <3>1. AuditedIds(lines) \subseteq AuditedIds(lines') /\ job[p].id \in AuditedIds(lines')
      BY <1>0, <2>1, <2>2, AppendedIs
    <3>2. Lost' \subseteq Lost
      BY <3>1, OwedKept DEF Lost
    <3>3. QED
      BY <1>0, <1>1, <2>1, <2>2, <3>2
  <2>3. CASE ending # "clean"
    <3>1. Lost' \subseteq Lost \cup {job[p].id}
      BY <1>2, <2>1, <2>3, OwedKept DEF Lost
    <3>2. /\ IsFiniteSet(Lost \cup {job[p].id}) /\ Cardinality(Lost \cup {job[p].id}) \in Nat
          /\ Cardinality(Lost \cup {job[p].id}) <= Cardinality(Lost) + 1
      <4>1. /\ IsFiniteSet(Lost \cup {job[p].id})
            /\ Cardinality(Lost \cup {job[p].id}) \in {Cardinality(Lost), Cardinality(Lost) + 1}
        <5>1. IsFiniteSet(Lost)
          BY <1>0
        <5>2. QED
          BY <5>1, FS_AddElement, Zenon
      <4>2. QED
        BY <1>0, <4>1
    <3>3. Cardinality(Lost') \in Nat /\ Cardinality(Lost') <= Cardinality(Lost) + 1
      BY <1>0, <3>1, <3>2, FS_Subset, FS_CardinalityType
    <3>4. QED
      BY <1>0, <2>1, <2>3, <3>3
  <2>4. QED
    BY <2>2, <2>3
<1>4. CASE Spoils(p)
  <2>1. lines' = lines \/ \E l \in Entry \cup {Junk} : lines' = WithLine(l)
    BY <1>4, NewLine DEF Spoils, InPart, Appended
  <2>2. \A i \in Owed : i \in AuditedIds(lines) => i \in AuditedIds(lines')
    <3>1. CASE lines' = lines
      BY <3>1
    <3>2. ASSUME NEW l \in Entry \cup {Junk}, lines' = WithLine(l)
          PROVE  \A i \in Owed : i \in AuditedIds(lines) => i \in AuditedIds(lines')
      <4>1. ending = "clean" => AuditedIds(lines) \subseteq AuditedIds(lines')
        BY <1>0, <3>2, AppendedIs
      <4>2. QED
        BY <1>2, <3>2, <4>1
    <3>3. QED
      BY <2>1, <3>1, <3>2
  <2>3. \A i \in Owed' : i \in Owed
    <3>1. ASSUME AppendLine(p) PROVE FALSE
      <4>1. faults' = faults + 1
        BY <1>4 DEF Spoils
      <4>2. faults' = faults
        BY <3>1 DEF AppendLine, lockRest
      <4>3. QED
        BY <1>0, <4>1, <4>2
    <3>2. QED
      BY <3>1, OwedKept
  <2>4. Lost' \subseteq Lost
    BY <2>2, <2>3 DEF Lost
  <2>5. faults' = faults + 1
    BY <1>4 DEF Spoils
  <2>6. QED
    BY <1>0, <1>1, <2>4, <2>5
<1>5. CASE lines' = lines /\ ending' = ending /\ faults' \in {faults, faults + 1} /\ ~AppendLine(p)
  <2>1. AuditedIds(lines') = AuditedIds(lines)
    BY <1>5
  <2>2. Lost' \subseteq Lost
    BY <1>5, <2>1, OwedKept DEF Lost
  <2>3. QED
    BY <1>0, <1>1, <1>5, <2>2
<1>6. QED
  BY <1>3, <1>4, <1>5, OwedStep

LEMMA LossStep ==
  ASSUME LedgerInv, NEW p \in Proc, Act(p)
  PROVE  LossInv'
BY AckedStep, UnendedStep, LostStep DEF LossInv

LEMMA LossKept ==
  ASSUME LossInv, UNCHANGED <<pc, faults, job, jobs, lines, ending, event, acked>>
  PROVE  LossInv'
BY DEF LossInv, Owed, Owes, Lost, UnendedIsNotOwed, AuditedIds

LEMMA LossInit ==
  ASSUME Init, \A i \in acked : i \in Nat /\ i < FirstId, acked \subseteq AuditedIds(lines)
  PROVE  LossInv
<1>1. Lost = {}
  BY DEF Init, LockInit, Lost, Owed, Owes
<1>2. \A i \in acked : i < FirstId + 0
  BY Numbers
<1>3. faults = 0 /\ jobs = 0 /\ ending = "clean" /\ \A p \in Proc : job[p] = None
  BY DEF Init, LockInit, StoreInit, AuditInit
<1>4. Cardinality(Lost) = 0
  BY <1>1, FS_EmptySet
<1>5. QED
  BY <1>2, <1>3, <1>4 DEF LossInv, UnendedIsNotOwed

-----------------------------------------------------------------------------
(* The initial states. *)

LEMMA PastIs ==
  /\ PastLines \in Seq(Entry \cup {Junk}) /\ Linked(PastLines)
  /\ AuditedIds(PastLines) = {Past[i] : i \in DOMAIN Past}
<1> DEFINE Prev(i) == [j \in 1..(i - 1) |-> <<Past[j], TheKey>>]
           n == Len(Past)
<1>1. n \in Nat /\ DOMAIN Past = 1..n /\ \A i \in 1..n : Past[i] \in Event
  BY AuditAssumption
<1>2. /\ DOMAIN PastLines = 1..n
      /\ \A i \in 1..n : PastLines[i] =
           [index |-> i - 1, event |-> Past[i], key |-> TheKey, prev |-> Prev(i)]
  BY <1>1, Zenon DEF PastLines
<1> HIDE DEF n
<1>3. ASSUME NEW i \in 1..n
      PROVE  Prev(i) \in Seq(Event \X Key) /\ Len(Prev(i)) = i - 1
  <2>1. i - 1 \in Nat /\ \A j \in 1..(i - 1) : j \in 1..n
    BY <1>1
  <2>2. \A j \in 1..(i - 1) : <<Past[j], TheKey>> \in Event \X Key
    BY <1>1, <2>1 DEF Key
  <2>3. QED
    BY <2>1, <2>2
<1>4. \A i \in 1..n : PastLines[i] \in Entry
  BY <1>1, <1>2, <1>3 DEF Entry, Key
<1>5. PastLines \in Seq(Entry \cup {Junk})
  <2>1. PastLines = [i \in 1..n |-> PastLines[i]]
    BY <1>1, <1>2 DEF PastLines
  <2>2. QED
    BY <1>1, <1>4, <2>1
<1>6. \A i \in 1..n : IsEntry(PastLines, i)
  BY <1>2, <1>4, AuditAssumption DEF IsEntry
<1>7. AuditedIds(PastLines) = {Past[i] : i \in DOMAIN Past}
  BY <1>1, <1>2, <1>6 DEF AuditedIds
<1>10. \A i \in 1..n : /\ PastLines[i].index = i - 1 /\ PastLines[i].prev = Prev(i)
                       /\ PastLines[i].event = Past[i] /\ PastLines[i].key = TheKey
  BY <1>2
<1>11. \A i \in 1..n : \A j \in 1..(i - 1) : Prev(i)[j] = <<Past[j], TheKey>>
  OBVIOUS
<1> HIDE DEF Prev
<1>8. Linked(PastLines)
  <2>1. ASSUME NEW i \in 1..n, i = 1
        PROVE  NoneBefore(PastLines, i) /\ Starts(PastLines[i])
    <3>1. Prev(i) = <<>>
      BY <1>3, <2>1
    <3>2. QED
      BY <1>10, <2>1, <3>1 DEF NoneBefore, Genesis, Starts
  <2>2. ASSUME NEW i \in 1..n, i # 1
        PROVE  Continues(PastLines, i)
    <3>1. i - 1 \in 1..n /\ (i - 1) + 1 = i /\ i - 1 < i /\ i - 1 \in Nat
      BY <1>1, <2>2
    <3>2. IsLastBefore(PastLines, i - 1, i)
      BY <1>1, <1>6, <2>2, <3>1 DEF IsLastBefore
    <3>3. PastLines[i].index = PastLines[i - 1].index + 1
      BY <1>1, <1>10, <3>1
    <3>4. /\ PastLines[i].prev = Prev(i) /\ PastLines[i - 1].prev = Prev(i - 1)
          /\ PastLines[i - 1].event = Past[i - 1] /\ PastLines[i - 1].key = TheKey
      BY <1>10, <3>1
    <3>5. Prev(i) = Append(Prev(i - 1), <<Past[i - 1], TheKey>>)
      <4> DEFINE x == <<Past[i - 1], TheKey>>
                 last == Append(Prev(i - 1), x)
      <4>1. /\ Prev(i - 1) \in Seq(Event \X Key) /\ Len(Prev(i - 1)) = i - 2
            /\ Prev(i) \in Seq(Event \X Key) /\ Len(Prev(i)) = i - 1
            /\ x \in Event \X Key
        <5>1. /\ Prev(i) \in Seq(Event \X Key) /\ Len(Prev(i)) = i - 1
              /\ Prev(i - 1) \in Seq(Event \X Key) /\ Len(Prev(i - 1)) = (i - 1) - 1
          BY <1>3, <3>1
        <5>2. (i - 1) - 1 = i - 2
          BY <3>1
        <5>3. x \in Event \X Key
          BY <1>1, <3>1 DEF Key
        <5>4. QED
          BY <5>1, <5>2, <5>3
      <4>5. Prev(i)[i - 1] = x /\ \A j \in 1..(i - 2) : Prev(i)[j] = Prev(i - 1)[j]
        BY <1>11, <3>1
      <4> HIDE DEF x
      <4>2. /\ last \in Seq(Event \X Key) /\ Len(last) = i - 1
            /\ last[i - 1] = x
            /\ \A j \in 1..(i - 2) : last[j] = Prev(i - 1)[j]
        <5>1. /\ last \in Seq(Event \X Key) /\ Len(last) = Len(Prev(i - 1)) + 1
              /\ last[Len(Prev(i - 1)) + 1] = x
              /\ \A j \in 1..Len(Prev(i - 1)) : last[j] = Prev(i - 1)[j]
          BY <4>1, AppendIs
        <5>2. QED
          BY <3>1, <4>1, <5>1
      <4> HIDE DEF last
      <4>3. ASSUME NEW j \in 1..(i - 1)
            PROVE  Prev(i)[j] = last[j]
        <5>1. CASE j = i - 1
          BY <4>2, <4>5, <5>1
        <5>2. CASE j \in 1..(i - 2)
          BY <4>2, <4>5, <5>2
        <5>3. QED
          BY <3>1, <5>1, <5>2
      <4>4. Prev(i) = last
        BY <4>1, <4>2, <4>3, SeqEqual
      <4>6. QED
        BY <4>4 DEF last, x
    <3>6. PastLines[i].prev = Hmac(PastLines[i - 1])
      BY <3>4, <3>5, Zenon DEF Hmac
    <3>7. QED
      BY <1>2, <3>1, <3>2, <3>3, <3>6 DEF Continues
  <2>3. QED
    BY <1>2, <2>1, <2>2 DEF Linked
<1>9. QED
  BY <1>5, <1>7, <1>8

LEMMA InitInv == Init => LedgerInv
<1> SUFFICES ASSUME Init
             PROVE  LedgerInv
  OBVIOUS
<1> USE DEF Init, LockInit, StoreInit, AuditInit
<1>1. log \in [File -> SUBSET Record]
  BY RecordedAssumption
<1>2. /\ lines \in Seq(Entry \cup {Junk}) /\ Linked(lines) /\ acked = AuditedIds(lines)
      /\ \A i \in AuditedIds(lines) : i \in Ids /\ i < FirstId
  <2>1. CASE keyFile = TheKey
    BY <2>1, PastIs, LedgerAssumption, AuditAssumption
  <2>2. CASE keyFile # TheKey
    <3>1. lines = <<>> /\ DOMAIN <<>> = {}
      BY <2>2
    <3>2. AuditedIds(<<>>) = {}
      BY <3>1, AuditedIs
    <3>3. Linked(<<>>)
      BY <3>1 DEF Linked
    <3>4. QED
      BY <2>2, <3>1, <3>2, <3>3
  <2>3. QED
    BY <2>1, <2>2
<1>3. TypeOK
  <2>1. StoreTypeOK
    BY <1>1, Numbers DEF StoreTypeOK
  <2>2. AuditTypeOK
    BY <1>2, AuditAssumption DEF AuditTypeOK
  <2>3. LockTypeOK
    BY FaultsAssumption DEF LockTypeOK
  <2>4. QED
    BY <1>2, <2>1, <2>2, <2>3 DEF TypeOK
<1>4. \A p \in Proc : /\ JobFits(p) /\ LocksHeld(p) /\ LedgerIsRead(p)
                      /\ OwnId(p) /\ OnePerResource(p) /\ AppenderIsCurrent(p)
  BY DEF JobFits, LocksHeld, LedgerIsRead, OwnId, OnePerResource, AppenderIsCurrent, Appending
<1>5. ChainIsLinked
  BY <1>2 DEF ChainIsLinked, Linked
<1>6. EventsAreWritten
  BY <1>2 DEF EventsAreWritten, Owes
<1>7. LossInv
  <2>1. acked = AuditedIds(lines) /\ \A i \in AuditedIds(lines) : i \in Ids /\ i < FirstId
    BY <1>2
  <2>2. \A i \in Ids : i \in Nat
    BY Numbers DEF Ids
  <2>3. QED
    BY <2>1, <2>2, LossInit
<1>8. Untroubled
  BY NobodyAssumption DEF Untroubled
<1>9. DOMAIN pc = Proc
  OBVIOUS
<1>10. QED
  BY <1>3, <1>4, <1>5, <1>6, <1>7, <1>8, <1>9 DEF LedgerInv

-----------------------------------------------------------------------------
(* Before the first fault. *)

\* Without an orphan an attempt is one call.
LEMMA PlainAttempt ==
  ASSUME LedgerInv, faults = 0, NEW p \in Proc, NEW l, l \in Lock, NEW granted, NEW refused,
         Attempt(p, l, granted, refused)
  PROVE  /\ robbed' = robbed /\ faults' = faults
         /\ probe' = [probe EXCEPT ![p] = "stat"]
         /\ holder' = holder \/ holder' = [holder EXCEPT ![l] = p]
<1>1. probe[p] = "stat" /\ holder[l] # Orphan
  BY DEF LedgerInv, Untroubled
<1>2. QED
  BY <1>1 DEF Attempt, Create, Lose, Has

\* Only a death leaves an orphan.
LEMMA TroubleStep ==
  ASSUME LedgerInv, NEW p \in Proc, Act(p)
  PROVE  Untroubled'
<1> SUFFICES ASSUME faults' = 0
             PROVE  /\ robbed' = {} /\ blind' = {}
                    /\ \A l \in Lock : holder'[l] # Orphan
                    /\ \A q \in Proc : probe'[q] = "stat"
  BY DEF Untroubled
<1> DEFINE Plain ==
      /\ robbed' = robbed /\ blind' \subseteq blind
      /\ probe' = probe \/ probe' = [probe EXCEPT ![p] = "stat"]
      /\ holder' = holder \/ \E l, x : x # Orphan /\ holder' = [holder EXCEPT ![l] = x]
<1>0. /\ faults = 0 /\ faults' = faults /\ ~Fails /\ p # Orphan /\ Nobody # Orphan
      /\ TypeOK /\ JobFits(p)
  BY FaultsAre, AllLocks, StoreFacts DEF LedgerInv, Fails
<1>1. Plain
  <2>1. ASSUME NEW l, l \in Lock, NEW granted, NEW refused, Attempt(p, l, granted, refused), blind' = blind
        PROVE  Plain
    BY <1>0, <2>1, PlainAttempt
  <2>2. CASE Ask(p)
    BY <1>0, <2>1, <2>2, StoreFacts DEF Ask, Enter, storeVars
  <2>3. CASE Repair(p) \/ Rotate(p)
    <3>1. job[p].file \in Lock
      BY <1>0, <2>3, StoreFacts DEF Repair, Rotate, JobFits
    <3>2. QED
      BY <2>1, <2>3, <3>1 DEF Repair, Rotate, storeVars
  <2>4. CASE Recorder(p) /\ AskAudit(p, "done")
    BY <1>0, <2>1, <2>4, StoreFacts DEF AskAudit, Enter, Recorder, storeVars
  <2>5. CASE Begin(p) \/ (StoreStep(p) /\ ~(Ask(p) \/ Repair(p) \/ Rotate(p)))
    BY <1>0, <2>5 DEF Begin, StoreStep, Throw, Read, Reads, Rewrite, Write, Clear, Unlock,
       UnlockThenAudit, Done, SkipRotation, Load, Trim, LoadBackup, Replace, Forget, Free, storeVars, lockRest
  <2>6. CASE Recorder(p) /\ ~AskAudit(p, "done")
    BY <1>0, <2>6 DEF Recorder, AuditStep, ReadAudit, AuditKey, ResolveKey, WriteKey, AppendLine,
       AppendFails, UnlockAudit, Free, storeVars, lockRest
  <2>7. CASE Acknowledge(p) \/ Warm(p) \/ Warmed(p) \/ VerifyLog(p) \/ TakeEvents(p) \/ Rebuild(p)
    BY <1>0, <2>7 DEF Acknowledge, Warm, WarmKey, ResolveKey, WriteKey, Warmed, VerifyLog, TakeEvents,
       Rebuild, storeVars, lockRest
  <2>8. ~Die(p)
    BY <1>0 DEF Die, Crash
  <2> HIDE DEF Plain
  <2>9. QED
    BY <2>2, <2>3, <2>4, <2>5, <2>6, <2>7, <2>8 DEF Act
<1>2. QED
  BY <1>0, <1>1, Domains DEF LedgerInv, Untroubled, Types

-----------------------------------------------------------------------------
(* The invariant, and the properties it gives. *)

\* A step of a process keeps the invariant.
LEMMA ActInv ==
  ASSUME LedgerInv, NEW p \in Proc, Act(p)
  PROVE  LedgerInv'
<1>1. TypeOK' /\ (DOMAIN pc = Proc)'
  BY LockTypes, StoreTypes, AuditTypes DEF TypeOK
<1>2. ASSUME NEW q \in Proc
      PROVE  JobFits(q)' /\ LocksHeld(q)' /\ LedgerIsRead(q)' /\ OnePerResource(q)'
  <2>1. CASE q = p
    BY <2>1, FitsStep, ReadStep, TakenStep
  <2>2. CASE q # p
    <3>1. /\ Rests(q) /\ TypeOK
          /\ Keeps(q, Provisions) /\ Provisions \notin robbed' => Placed' \subseteq Placed
          /\ JobFits(q) /\ LocksHeld(q) /\ LedgerIsRead(q) /\ OnePerResource(q)
      BY <2>2, Others, PlacedStep DEF LedgerInv
    <3>2. ASSUME NEW l \in Lock, Keeps(q, l)
          PROVE  Keeps(q, l)'
      BY <3>1, <3>2 DEF Keeps, Rests
    <3>3. JobFits(q)' /\ OnePerResource(q)'
      BY <3>1, StoreFacts DEF Rests, JobFits, OnePerResource, Belongs, Auditing, Appending
    <3>4. LocksHeld(q)'
      <4>1. robbed \subseteq robbed' /\ pc'[q] = pc[q] /\ job'[q] = job[q]
        BY <3>1 DEF Rests
      <4>2. Provisions \in Lock /\ Audit \in Lock /\ (job[q] # None => job[q].file \in Lock)
        BY <3>1, StoreFacts
      <4>3. QED
        BY <3>1, <3>2, <4>1, <4>2 DEF LocksHeld, Auditing, Appending
    <3>5. LedgerIsRead(q)'
      <4>1. /\ robbed \subseteq robbed' /\ pc'[q] = pc[q] /\ job'[q] = job[q] /\ view'[q] = view[q]
            /\ q \in blind' <=> q \in blind
        BY <3>1 DEF Rests
      <4>2. CASE job[q] # None /\ job[q].file = Provisions /\ Provisions \notin robbed'
                 /\ (\/ job[q].op # "list" /\ pc[q] \in {"repair", "write"}
                     \/ pc[q] = "trim")
        <5>1. Keeps(q, Provisions)
          BY <3>1, <4>2 DEF LocksHeld
        <5>2. Placed' \subseteq Placed
          BY <3>1, <4>2, <5>1
        <5>3. QED
          BY <3>1, <4>1, <4>2, <5>2 DEF LedgerIsRead, Sees
      <4>3. QED
        BY <3>1, <4>1, <4>2 DEF LedgerIsRead, Sees
    <3>6. QED
      BY <3>3, <3>4, <3>5
  <2>3. QED
    BY <2>1, <2>2
<1>3. \A q \in Proc : AppenderIsCurrent(q)' /\ OwnId(q)'
  BY CurrentStep, FreshStep
<1>4. ChainIsLinked' /\ EventsAreWritten' /\ LossInv' /\ Untroubled'
  BY LinkStep, WrittenStep, LossStep, TroubleStep
<1>5. QED
  BY <1>1, <1>2, <1>3, <1>4 DEF LedgerInv

LEMMA InvStep == LedgerInv /\ [Next]_vars => LedgerInv'
<1> SUFFICES ASSUME LedgerInv, [Next]_vars
             PROVE  LedgerInv'
  OBVIOUS
<1>1. ASSUME NEW p \in Proc, Act(p)
      PROVE  LedgerInv'
  BY <1>1, ActInv
<1>2. CASE UNCHANGED vars
  <2>1. UNCHANGED <<pc, holder, probe, robbed, faults, log, view, blind, job, jobs, lines, ending,
                    keyFile, tail, event, myKey, audited, acked>>
    BY <1>2 DEF vars, lockVars, storeVars, auditVars
  <2>2. TypeOK' /\ (DOMAIN pc = Proc)'
    BY <2>1 DEF LedgerInv, TypeOK, LockTypeOK, StoreTypeOK, AuditTypeOK
  <2>3. ASSUME NEW q \in Proc
        PROVE  /\ JobFits(q)' /\ LocksHeld(q)' /\ LedgerIsRead(q)'
               /\ OwnId(q)' /\ OnePerResource(q)' /\ AppenderIsCurrent(q)'
    <3>1. /\ JobFits(q) /\ LocksHeld(q) /\ LedgerIsRead(q)
          /\ OwnId(q) /\ OnePerResource(q) /\ AppenderIsCurrent(q)
      BY DEF LedgerInv
    <3>2. JobFits(q)' /\ LocksHeld(q)' /\ LedgerIsRead(q)'
      BY <2>1, <3>1 DEF JobFits, LocksHeld, LedgerIsRead, Placed, Valid, Keeps, Has, Sees
    <3>3. OwnId(q)' /\ OnePerResource(q)' /\ AppenderIsCurrent(q)'
      BY <2>1, <3>1 DEF OwnId, OnePerResource, AppenderIsCurrent, NoneBefore, IsLastBefore, IsEntry
    <3>4. QED
      BY <3>2, <3>3
  <2>4. ChainIsLinked' /\ EventsAreWritten'
    BY <2>1 DEF LedgerInv, ChainIsLinked, Continues, IsEntry, NoneBefore, IsLastBefore,
       EventsAreWritten, Owes, AuditedIds, Range
  <2>5. LossInv' /\ Untroubled'
    BY <2>1, LossKept DEF LedgerInv, Untroubled
  <2>6. QED
    BY <2>2, <2>3, <2>4, <2>5 DEF LedgerInv
<1>3. QED
  BY <1>1, <1>2 DEF Next, Step, Act

\* LedgerInv, of any number of processes, files, jobs, deaths, failed reads and
\* appends, and of reclaimers that rob each other: types, the locks of every
\* step, and what the properties below rest on.
THEOREM LedgerInvariant == Spec => []LedgerInv
<1>1. QED
  BY InitInv, InvStep, PTL DEF Spec

\* The entries of the audit log continue each other; until something fails they
\* are one chain, and after that a failed read alone starts another, unless a
\* late reclaim lets two appenders in.
THEOREM AuditChainIsLinked == Spec => []ChainIsLinked
<1>1. LedgerInv => ChainIsLinked
  BY DEF LedgerInv
<1>2. QED
  BY <1>1, LedgerInvariant, PTL

\* What the recorder has returned from is known to the ledger or the audit log,
\* unless a line of the log no longer parses.
THEOREM RecordedIsRecoverable == Spec => []Recoverable
<1>1. LedgerInv => Recoverable
  BY DEF LedgerInv, EventsAreWritten, Recoverable
<1>2. QED
  BY <1>1, LedgerInvariant, PTL

\* Each death, failed read and failed append has cost the audit log at most one
\* acknowledged event.
THEOREM FaultsCostOneEventEach == Spec => []FaultsCostOneEach
<1>1. LedgerInv => FaultsCostOneEach
  <2> SUFFICES ASSUME LedgerInv
               PROVE  FaultsCostOneEach
    OBVIOUS
  <2>1. /\ IsFiniteSet(Lost) /\ Cardinality(Lost) \in Nat /\ faults \in Nat
        /\ Cardinality(Lost) <= faults
    BY LostIsFinite, FS_CardinalityType DEF LedgerInv, LossInv
  <2>2. acked \ AuditedIds(lines) \subseteq Lost
    BY DEF Lost, Owed
  <2>3. /\ Cardinality(acked \ AuditedIds(lines)) \in Nat
        /\ Cardinality(acked \ AuditedIds(lines)) <= Cardinality(Lost)
    BY <2>1, <2>2, FS_Subset, FS_CardinalityType
  <2>4. QED
    BY <2>1, <2>3 DEF FaultsCostOneEach
<1>2. QED
  BY <1>1, LedgerInvariant, PTL

\* Until a process dies or a call fails, no event that was acknowledged is
\* missing: what docs/explanation/audit-threat-model.md says of a log that
\* verifies holds of every log then.
THEOREM CompleteUntilAFault ==
  Spec => [](faults = 0 => acked \subseteq AuditedIds(lines))
<1>1. LedgerInv => (faults = 0 => acked \subseteq AuditedIds(lines))
  <2> SUFFICES ASSUME LedgerInv, faults = 0
               PROVE  acked \subseteq AuditedIds(lines)
    OBVIOUS
  <2>1. IsFiniteSet(Lost) /\ Cardinality(Lost) = 0
    BY LostIsFinite, FS_CardinalityType DEF LedgerInv, LossInv
  <2>2. Lost = {}
    BY <2>1, FS_EmptySet
  <2>3. QED
    BY <2>2 DEF Lost, Owed
<1>2. QED
  BY <1>1, LedgerInvariant, PTL

\* Who replaces the ledger, and was neither robbed nor failed to read, has read
\* what it replaces.
LEMMA ReplacedIsRead ==
  ASSUME LedgerInv, NEW p \in Proc, Replaces(p, Provisions), Sees(p)
  PROVE  Placed \subseteq view[p]
<1>1. job[p] # None /\ job[p].op # "list" /\ pc[p] \in {"write", "trim"} /\ job[p].file = Provisions
  BY DEF LedgerInv, JobFits, Belongs, Auditing, Appending, Replaces
<1>2. QED
  BY <1>1 DEF LedgerInv, LedgerIsRead

\* A step that writes the ledger is the step of the process that is to write.
LEMMA ReplacerActs ==
  ASSUME LedgerInv, [Next]_vars, NEW p \in Proc, Replaces(p, Provisions)
  PROVE  Act(p)
<1>1. ASSUME NEW q \in Proc \ {p}, Act(q)
      PROVE  FALSE
  <2>1. pc'[p] = pc[p]
    BY <1>1, Others DEF Rests
  <2>2. QED
    BY <2>1 DEF Replaces
<1>2. ~UNCHANGED pc
  BY DEF Replaces
<1>3. QED
  BY <1>1, <1>2, Zenon DEF Next, Step, Act, vars, lockVars

\* What is written to the ledger by who replaces it.
LEMMA ReplacerWrites ==
  ASSUME LedgerInv, NEW p \in Proc, Replaces(p, Provisions), Act(p)
  PROVE  \/ Write(p) /\ job[p].op = "record" /\ view[p] \subseteq log'[Provisions]
         \/ Trim(p) /\ job[p].op = "clean" /\ log'[Provisions] = Kept(Provisions, view[p])
         \/ Rebuild(p) /\ log'[Provisions] = view[p] \cup Missing(p)
<1>1. TypeOK /\ JobFits(p)
  BY DEF LedgerInv
<1>2. /\ pc[p] \in {"write", "trim"} /\ job[p].file = Provisions /\ job[p] # None
      /\ log'[Provisions] # log[Provisions] /\ DOMAIN log = File /\ Provisions \in File
      /\ Failures # Provisions
  BY <1>1, Domains, StoreFacts DEF Replaces, JobFits, Types
<1>3. CASE Write(p)
  BY <1>2, <1>3 DEF Write
<1>4. CASE Trim(p)
  <2>1. log'[Provisions] = Kept(Provisions, view[p])
    BY <1>2, <1>4 DEF Trim, Put
  <2>2. job[p].op = "clean"
    BY <1>1, <1>2, <1>4 DEF Trim, JobFits, Belongs, Auditing, Appending
  <2>3. QED
    BY <1>4, <2>1, <2>2
<1>5. CASE Rebuild(p)
  BY <1>2, <1>5 DEF Rebuild, Put
<1>6. ~Clear(p)
  BY <1>1, <1>2 DEF Clear, JobFits
<1>7. QED
  BY <1>2, <1>3, <1>4, <1>5, <1>6, LogKept DEF Rewrite, Replace

\* Appends, rotations and rebuilds take nothing from the ledger that they have
\* not read, but for a read that failed and a lock that was robbed.
THEOREM NothingIsWrittenBlindly == Spec => NoBlindWrite
<1>1. LedgerInv /\ [Next]_vars =>
        [\A p \in Proc :
           Replaces(p, Provisions) /\ Sees(p) => Placed \subseteq view[p]]_vars
  BY ReplacedIsRead
<1>2. QED
  BY <1>1, LedgerInvariant, PTL DEF Spec, NoBlindWrite

\* Cleanup, appends and rebuilds leave the records of the last 30 days where
\* they are, but for the same two.
THEOREM RecentRecordsSurvive == Spec => RecentSurvives
<1>1. ASSUME LedgerInv, NEW p \in Proc, Replaces(p, Provisions), Sees(p), Act(p)
      PROVE  \A r \in Placed : r.id \notin OldId => r \in log'[Provisions]
  <2>1. Placed \subseteq view[p]
    BY <1>1, ReplacedIsRead
  <2>2. CASE view[p] \subseteq log'[Provisions]
    BY <2>1, <2>2
  <2>3. CASE log'[Provisions] = Kept(Provisions, view[p])
    BY <2>1, <2>3, KeptIsPart
  <2>4. QED
    BY <1>1, <2>2, <2>3, ReplacerWrites
<1>2. LedgerInv /\ [Next]_vars =>
        [\A p \in Proc : Replaces(p, Provisions) /\ Sees(p) =>
           \A r \in Placed : r.id \notin OldId => r \in log'[Provisions]]_vars
  BY <1>1, ReplacerActs
<1>3. QED
  BY <1>2, LedgerInvariant, PTL DEF Spec, RecentSurvives

\* Whoever writes the ledger while a restore reads the audit log: the restore
\* adds no second record of a resource that is there, nor two of one.
THEOREM RestoreAddsNone == Spec => RestoreAddsNoDuplicate
<1> DEFINE Added(p) == log'[Provisions] \ view[p]
<1>1. ASSUME LedgerInv, NEW p \in Proc, Replaces(p, Provisions), Sees(p), Act(p),
             job[p].op = "restore", NEW r \in Added(p)
      PROVE  /\ ArnOf[r.id] \notin ArnsOf(Placed)
             /\ \A s \in Added(p) : ArnOf[s.id] = ArnOf[r.id] => s = r
  <2>1. Placed \subseteq view[p] /\ OnePerResource(p)
    BY <1>1, ReplacedIsRead DEF LedgerInv
  <2>2. log'[Provisions] = view[p] \cup Missing(p)
    BY <1>1, ReplacerWrites
  <2>3. \A s \in Added(p) : s \in Missing(p)
    BY <2>2
  <2> HIDE DEF Added
  <2>4. ArnOf[r.id] \notin ArnsOf(Placed)
    BY <1>1, <2>1, <2>3 DEF Missing, ArnsOf
  <2>5. ASSUME NEW s \in Added(p), ArnOf[s.id] = ArnOf[r.id]
        PROVE  s = r
    <3>1. r \in [id : audited[p], by : {p}] /\ s \in [id : audited[p], by : {p}]
      BY <1>1, <2>3, <2>5 DEF Missing
    <3>2. s.id = r.id
      BY <2>1, <2>5, <3>1 DEF OnePerResource
    <3>3. QED
      BY <3>1, <3>2
  <2>6. QED
    BY <2>4, <2>5
<1>2. LedgerInv /\ [Next]_vars =>
        [\A p \in Proc :
           Replaces(p, Provisions) /\ Sees(p) /\ job[p].op = "restore" =>
             LET added == log'[Provisions] \ view[p]
             IN  \A r \in added :
                   /\ ArnOf[r.id] \notin ArnsOf(Placed)
                   /\ \A s \in added : ArnOf[s.id] = ArnOf[r.id] => s = r]_vars
  BY <1>1, ReplacerActs
<1>3. QED
  BY <1>2, LedgerInvariant, PTL DEF Spec, RestoreAddsNoDuplicate

-----------------------------------------------------------------------------
(* The key of the audit log. *)

LEMMA KeyStep ==
  ASSUME LedgerInv, KeyInPlace, NEW p \in Proc, Act(p)
  PROVE  KeyInPlace'
<1> DEFINE new == NewEntry(tail[p], event[p], myKey[p])
<1>0. /\ TypeOK /\ AuditTypeOK /\ AppenderIsCurrent(p)
      /\ keyFile = TheKey /\ DOMAIN myKey = Proc
      /\ keyFile \notin {"absent", "empty"}
  BY Domains, AuditAssumption DEF LedgerInv, TypeOK, KeyInPlace, Types
<1>1. keyFile' = TheKey
  BY <1>0 DEF Act, auditVars, Recorder, AuditStep, AskAudit, ReadAudit, AuditKey, ResolveKey, WriteKey,
     AppendLine, AppendFails, UnlockAudit, Acknowledge, Warm, WarmKey, Warmed, VerifyLog, TakeEvents,
     Rebuild, Die
<1> SUFFICES ASSUME faults' = 0
             PROVE  /\ \A j \in DOMAIN lines' : lines'[j] # Junk => lines'[j].key = TheKey
                    /\ \A q \in Proc : myKey'[q] \in {TheKey, Nobody}
  BY <1>1 DEF KeyInPlace, IsEntry
<1>2. /\ faults = 0 /\ ~Fails
      /\ \A q \in Proc : myKey[q] \in {TheKey, Nobody}
      /\ \A i \in DOMAIN lines : lines[i] # Junk => lines[i].key = TheKey
  BY FaultsAre, AllLocks DEF KeyInPlace, Fails, IsEntry
<1>3. ASSUME NEW q \in Proc PROVE myKey'[q] \in {TheKey, Nobody}
  <2>1. \/ myKey' = myKey \/ myKey' = [myKey EXCEPT ![p] = TheKey]
        \/ myKey' = [myKey EXCEPT ![p] = Nobody]
    BY <1>0, <1>2 DEF Act, auditVars, Recorder, AuditStep, AskAudit, ReadAudit, AuditKey, ResolveKey,
       WriteKey, Signs, AppendLine, AppendFails, ForgetAppend, UnlockAudit, Acknowledge, Warm, WarmKey,
       Warmed, VerifyLog, TakeEvents, Rebuild, Die
  <2>2. QED
    BY <1>0, <1>2, <2>1
<1>4. ASSUME NEW j \in DOMAIN lines', lines'[j] # Junk PROVE lines'[j].key = TheKey
  <2>1. CASE lines' = lines
    BY <1>2, <1>4, <2>1
  <2>2. ASSUME pc[p] = "append", NEW l \in {new, Junk}, lines' = WithLine(l)
        PROVE  lines'[j].key = TheKey
    <3>1. new.key = TheKey
      BY <1>0, <1>2, <2>2, NewEntryIs, NobodyAssumption DEF AppenderIsCurrent, Appending, Key
    <3> HIDE DEF new
    <3>2. CASE lines' = Append(lines, l)
      <4>1. /\ DOMAIN lines' = 1..(Len(lines) + 1) /\ lines'[Len(lines) + 1] = l
            /\ Len(lines) \in Nat /\ \A n \in 1..Len(lines) : n \in DOMAIN lines /\ lines'[n] = lines[n]
        BY <3>2, WithLineIs
      <4>2. QED
        BY <1>2, <1>4, <2>2, <3>1, <4>1
    <3>3. ASSUME NEW n \in Nat, DOMAIN lines' = 1..(n + 1), lines'[n + 1] = Junk,
                 \A m \in 1..n : m \in DOMAIN lines /\ lines'[m] = lines[m]
          PROVE  lines'[j].key = TheKey
      <4>1. j \in 1..n
        BY <1>4, <3>3
      <4>2. QED
        BY <1>2, <1>4, <3>3, <4>1
    <3>4. QED
      BY <2>2, <3>2, <3>3, WithLineIs
  <2>3. QED
    BY <2>1, <2>2, LinesStep
<1>5. QED
  BY <1>3, <1>4

\* Where the key file has been written before the processes start, and until
\* something fails, no race keeps the log from verifying.
THEOREM ChainVerifiesWithAKey ==
  ASSUME KeyStates \subseteq {TheKey}
  PROVE  Spec => [](faults = 0 => ChainVerifies)
<1>1. Init => KeyInPlace
  <2> SUFFICES ASSUME Init
               PROVE  KeyInPlace
    OBVIOUS
  <2>1. keyFile = TheKey /\ lines = PastLines /\ \A p \in Proc : myKey[p] = Nobody
    BY DEF Init, AuditInit
  <2>2. \A i \in DOMAIN PastLines : PastLines[i].key = TheKey
    BY DEF PastLines
  <2>3. QED
    BY <2>1, <2>2 DEF KeyInPlace
<1>2. LedgerInv /\ KeyInPlace /\ [Next]_vars => KeyInPlace'
  <2> SUFFICES ASSUME LedgerInv, KeyInPlace, [Next]_vars
               PROVE  KeyInPlace'
    OBVIOUS
  <2>1. CASE UNCHANGED <<keyFile, lines, myKey, faults>>
    BY <2>1 DEF KeyInPlace, IsEntry
  <2>2. QED
    BY <2>1, KeyStep DEF Next, Step, Act, vars, auditVars, lockVars
<1>3. LedgerInv /\ KeyInPlace => (faults = 0 => ChainVerifies)
  <2> SUFFICES ASSUME LedgerInv, KeyInPlace, faults = 0
               PROVE  Verifies(lines, keyFile)
    BY DEF ChainVerifies
  <2>1. ChainIsLinked /\ Audit \notin robbed
    BY DEF LedgerInv, Untroubled
  <2>2. QED
    BY <2>1 DEF KeyInPlace, Verifies, ChainIsLinked, Linked
<1>4. QED
  BY <1>1, <1>2, <1>3, LedgerInvariant, PTL DEF Spec
=============================================================================
