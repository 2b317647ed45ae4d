---------------------------- MODULE MemoryStore ----------------------------
(***************************************************************************)
(* The JSON logs of ~/.assignee/memory (services/memory/service.ts,        *)
(* file-store.ts, rotation.ts), written by every command through utils/    *)
(* memory-recorder.ts, by cleanup and by the two restore commands.         *)
(*                                                                         *)
(* A log is read whole and written whole (tmp file and rename).  A read    *)
(* that fails, for whatever reason, is an empty log, and what is written   *)
(* next is written over all that there was.  Appends of every log hold the *)
(* advisory lock of provisions.json; rotation and the rewrite of a reader  *)
(* that has dropped stale records hold the lock of the file they write.    *)
(* For provisions.json the two are one file.                               *)
(*                                                                         *)
(* provisions.json and failures.json are modelled; patterns.json is locked *)
(* like failures.json, destroyed-arns.json is only ever appended to.       *)
(* A record is which recording it is of and who wrote it, so that a copy   *)
(* that restore makes is a record of its own.  Recordings are numbered by  *)
(* timestamp.  Each is of a resource, and several may be of one: a bucket  *)
(* that is made again under its name has its old ARN.                      *)
(***************************************************************************)
EXTENDS NamedLocks, FiniteSets, FiniteSetsExt

CONSTANTS
  File,      \* the logs
  Ops,       \* what the processes may be asked to do
  Written,   \* who has written the records of the initial logs
  OldId,     \* recordings of more than 30 days ago
  StaleId,   \* recordings whose record no longer fits the schema
  ArnOf,     \* the resource that each recording is of
  InitLogs,  \* the logs a run may start from
  Backup,    \* a provisions.json that was saved earlier
  MaxRecords,\* rotation: how many records of a log are kept
  MaxJobs,   \* bound: jobs started
  None       \* no value

Provisions == "provisions"
Failures == "failures"

\* The numbers of the recordings: the initial ones, then one per job.
FirstId == 1 + Cardinality(OldId \cup StaleId)
Ids == 1..(FirstId + MaxJobs)
Record == [id : Ids, by : Proc \cup {Written}]
Job == [op : Ops, file : File, id : Ids]

ASSUME FileAssumption == {Provisions, Failures} \subseteq File /\ File \subseteq Lock
ASSUME OpsAssumption ==
  Ops \subseteq {"record", "clear", "list", "clean", "restore", "revert", "warm"}
ASSUME NoneAssumption == None \notin Job
ASSUME BoundAssumption ==
  IsFiniteSet(OldId \cup StaleId) /\ MaxRecords \in Nat /\ MaxJobs \in Nat
ASSUME ArnAssumption == ArnOf \in [Ids -> Ids]
\* What a run starts from, and what was saved, has been recorded before.
Recorded(records) == records \subseteq Record /\ \A r \in records : r.id < FirstId
ASSUME RecordedAssumption ==
  /\ InitLogs \subseteq [File -> SUBSET Record]
  /\ \A init \in InitLogs, f \in File : Recorded(init[f])
  /\ Recorded(Backup)

VARIABLES
  log,   \* the records of each file
  view,  \* what a process has read of the file it works on
  blind, \* history: the processes whose last read has failed
  job,   \* what each has been asked to do
  jobs   \* jobs started so far

storeVars == <<log, view, blind, job, jobs>>

StoreTypeOK ==
  /\ log \in [File -> SUBSET Record]
  /\ view \in [Proc -> SUBSET Record]
  /\ blind \subseteq Proc
  /\ job \in [Proc -> Job \cup {None}]
  /\ jobs \in 0..MaxJobs

StoreInit ==
  /\ log \in InitLogs
  /\ view = [p \in Proc |-> {}]
  /\ blind = {}
  /\ job = [p \in Proc |-> None]
  /\ jobs = 0

\* zod drops the records that no longer fit the schema.
Valid(records) == {r \in records : r.id \notin StaleId}

IdsOf(records) == {r.id : r \in records}
ArnsOf(records) == {ArnOf[r.id] : r \in records}

\* The k newest of a set of records, and slice(-k): slice(-0) is everything.
Newest(k, records) ==
  {r \in records : Cardinality({s \in records : s.id > r.id}) < k}
SliceLast(k, records) == IF k = 0 THEN records ELSE Newest(k, records)

\* Mutant: the preserved records are trimmed like the others.
Kept_NoPreserve(f, records) ==
  IF Cardinality(records) <= MaxRecords THEN records
  ELSE Newest(MaxRecords, records)

\* What rotation leaves of a log: provisions of the last 30 days always stay,
\* the others share what is left of the budget.
Kept(f, records) ==
  IF Cardinality(records) <= MaxRecords THEN records
  ELSE IF f # Provisions THEN Newest(MaxRecords, records)
  ELSE LET recent == {r \in records : r.id \notin OldId}
           room == IF Cardinality(recent) < MaxRecords
                     THEN MaxRecords - Cardinality(recent) ELSE 0
       IN  recent \cup SliceLast(room, records \ recent)

-----------------------------------------------------------------------------
(* Jobs. *)

FirstStep(op) ==
  CASE op \in {"record", "clear"} -> "ask"
    [] op = "list" -> "read"
    [] op = "clean" -> "rotate"
    [] op = "revert" -> "load backup"
    [] op \in {"restore", "warm"} -> op

\* A command comes to one of its calls of the store.
Begin(p) ==
  /\ pc[p] = "idle"
  /\ jobs < MaxJobs
  /\ jobs' = jobs + 1
  /\ \E op \in Ops, f \in File :
       /\ op \notin {"record", "list"} => f = IF op = "clear" THEN Failures
                                              ELSE Provisions
       /\ job' = [job EXCEPT ![p] =
                    [op |-> op, file |-> f, id |-> FirstId + jobs]]
       /\ Goto(p, FirstStep(op))
  /\ UNCHANGED <<log, view, blind, holder, lockRest>>

\* The job is over: nothing of it is left in the process.
Forget(p) ==
  /\ job' = [job EXCEPT ![p] = None]
  /\ view' = [view EXCEPT ![p] = {}]
  /\ blind' = blind \ {p}
  /\ UNCHANGED <<log, jobs, lockRest>>

\* withLock(PROVISIONS_LOCK_NAME): the recorder and restore hold one lock,
\* whichever file they write.  When it cannot be had LockAcquisitionError
\* reaches the caller.
Ask(p) ==
  /\ pc[p] = "ask"
  /\ Enter(p, Provisions, "read", "threw")
  /\ UNCHANGED storeVars

Throw(p) ==
  /\ pc[p] = "threw"
  /\ Goto(p, "idle")
  /\ Forget(p)
  /\ UNCHANGED holder

\* What a reader does with the records it has got.
AfterRead(p) == IF job[p].op = "list" THEN "done" ELSE "write"

\* What a process has of a file that it reads: the records that fit the schema,
\* or none when the read fails.
Reads(p, f) ==
  \/ /\ view' = [view EXCEPT ![p] = Valid(log[f])]
     /\ blind' = blind \ {p}
     /\ UNCHANGED faults
  \/ /\ Fails
     /\ view' = [view EXCEPT ![p] = {}]
     /\ blind' = blind \cup {p}

\* readProvisions, readFailures: when records have been dropped the file is to
\* be rewritten without them.  restore reads the file itself, and does not
\* repair it.
Read(p) ==
  /\ pc[p] = "read"
  /\ Reads(p, job[p].file)
  /\ Goto(p, IF /\ job[p].op # "restore" /\ p \notin blind'
                /\ log[job[p].file] # Valid(log[job[p].file])
               THEN "repair" ELSE AfterRead(p))
  /\ UNCHANGED <<log, job, jobs, holder, probe, robbed>>

\* rewriteFilteredFile takes the lock of the file only now; without it the
\* file stays as it is.  Under an append of provisions it is the append's own.
Repair(p) ==
  /\ pc[p] = "repair"
  /\ Attempt(p, job[p].file, "rewrite", AfterRead(p))
  /\ UNCHANGED storeVars

\* A file is written whole.  The write may fail, and then the file is as it was.
Put(f, records) == log' = [log EXCEPT ![f] = records] \/ UNCHANGED log

\* The set read before the lock was taken is written; the lock is released.
Rewrite(p) ==
  /\ pc[p] = "rewrite"
  /\ Put(job[p].file, view[p])
  /\ Free(job[p].file)
  /\ Goto(p, AfterRead(p))
  /\ UNCHANGED <<view, blind, job, jobs, lockRest>>

\* The write of appendProvision and appendFailure, whatever resource the record
\* is of.  One that fails memory-recorder logs and forgets.
Write(p) ==
  /\ pc[p] = "write"
  /\ job[p].op = "record"
  /\ \/ /\ log' = [log EXCEPT ![job[p].file] = view[p] \cup {[id |-> job[p].id, by |-> p]}]
        /\ Goto(p, IF job[p].file = Provisions THEN "unlock, then audit" ELSE "unlock")
     \/ UNCHANGED log /\ Goto(p, "unlock")
  /\ UNCHANGED <<view, blind, job, jobs, holder, lockRest>>

\* clearFailuresForType: nothing is written when there is nothing to clear.
Clear(p) ==
  /\ pc[p] = "write"
  /\ job[p].op = "clear"
  /\ IF view[p] = {} THEN UNCHANGED log ELSE Put(job[p].file, {})
  /\ Goto(p, "unlock")
  /\ UNCHANGED <<view, blind, job, jobs, holder, lockRest>>

Unlock(p) ==
  /\ pc[p] = "unlock"
  /\ Free(Provisions)
  /\ Goto(p, "done")
  /\ UNCHANGED <<storeVars, lockRest>>

\* The record is written: its event goes to the audit log, without the lock.
UnlockThenAudit(p) ==
  /\ pc[p] = "unlock, then audit"
  /\ Free(Provisions)
  /\ Goto(p, "audit")
  /\ view' = [view EXCEPT ![p] = {}]
  /\ blind' = blind \ {p}
  /\ UNCHANGED <<log, job, jobs, lockRest>>

Done(p) ==
  /\ pc[p] = "done"
  /\ Goto(p, "idle")
  /\ Forget(p)
  /\ UNCHANGED holder

-----------------------------------------------------------------------------
(* Cleanup: rotateProvisions, then rotateFailures. *)

\* A rotation that could not get its lock is skipped, whatever the file holds.
NextRotation(p, label) ==
  /\ job' = [job EXCEPT ![p].file = Failures]
  /\ Goto(p, IF job[p].file = Provisions THEN "rotate" ELSE label)

\* Mutant (the bug REG-N5 names): the log was read before the lock was taken.
Rotate_ReadFirst(p) ==
  /\ pc[p] = "rotate"
  /\ view' = [view EXCEPT ![p] = Valid(log[job[p].file])]
  /\ Goto(p, "trim")
  /\ UNCHANGED <<log, blind, job, jobs, holder, lockRest>>

\* rotateRecords takes the lock of the file it is to trim.
Rotate(p) ==
  /\ pc[p] = "rotate"
  /\ Attempt(p, job[p].file, "load", "no rotation")
  /\ UNCHANGED storeVars

SkipRotation(p) ==
  /\ pc[p] = "no rotation"
  /\ NextRotation(p, "done")
  /\ UNCHANGED <<log, view, blind, jobs, holder, lockRest>>

\* The log is read under the lock; its own repair finds the lock taken.
Load(p) ==
  /\ pc[p] = "load"
  /\ Reads(p, job[p].file)
  /\ Goto(p, "trim")
  /\ UNCHANGED <<log, job, jobs, holder, probe, robbed>>

\* The log is written when records have to go, and the lock released; a write
\* that fails goes on to the next category of the cleanup.
Trim(p) ==
  /\ pc[p] = "trim"
  /\ LET kept == Kept(job[p].file, view[p])
     IN  IF kept = view[p] THEN UNCHANGED log ELSE Put(job[p].file, kept)
  /\ Free(job[p].file)
  /\ NextRotation(p, "done")
  /\ UNCHANGED <<view, blind, jobs, lockRest>>

-----------------------------------------------------------------------------
(* restore-provisions --from: a saved ledger, checked against the schema,   *)
(* replaces the present one.  No lock is taken.                             *)

\* A backup that cannot be read, or does not fit the schema, is refused.
LoadBackup(p) ==
  /\ pc[p] = "load backup"
  /\ \/ /\ Backup = Valid(Backup)
        /\ view' = [view EXCEPT ![p] = Backup]
        /\ Goto(p, "replace")
        /\ UNCHANGED faults
     \/ /\ (Backup # Valid(Backup) /\ UNCHANGED faults) \/ Fails
        /\ Goto(p, "done")
        /\ UNCHANGED view
  /\ UNCHANGED <<log, blind, job, jobs, holder, probe, robbed>>

Replace(p) ==
  /\ pc[p] = "replace"
  /\ Put(Provisions, view[p])
  /\ Goto(p, "done")
  /\ UNCHANGED <<view, blind, job, jobs, holder, lockRest>>

-----------------------------------------------------------------------------

StoreStep(p) ==
  \/ Ask(p) \/ Throw(p) \/ Read(p) \/ Repair(p) \/ Rewrite(p)
  \/ Write(p) \/ Clear(p) \/ Unlock(p) \/ UnlockThenAudit(p) \/ Done(p)
  \/ Rotate(p) \/ SkipRotation(p) \/ Load(p) \/ Trim(p)
  \/ LoadBackup(p) \/ Replace(p)
=============================================================================
