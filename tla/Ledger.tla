------------------------------- MODULE Ledger -------------------------------
(***************************************************************************)
(* What an apply leaves behind on the operator's disk: the memory store    *)
(* and the audit log together, with the recorder that writes to both and   *)
(* `restore-provisions --from-audit-log`, which rebuilds the one from the  *)
(* other.                                                                  *)
(***************************************************************************)
EXTENDS MemoryStore, AuditLog

\* The audit log is no file of the store; an event is about a recording.
ASSUME LedgerAssumption ==
  /\ Audit \notin File
  /\ Event = Ids
  /\ \A i \in DOMAIN Past : Past[i] < FirstId

VARIABLES
  audited,  \* what restore has taken from the audit log, per process
  acked     \* recordings that have returned, audit event included

vars == <<lockVars, storeVars, auditVars, audited, acked>>

TypeOK ==
  /\ LockTypeOK
  /\ StoreTypeOK
  /\ AuditTypeOK
  /\ audited \in [Proc -> SUBSET Ids]
  /\ acked \subseteq Ids

Init ==
  /\ LockInit
  /\ StoreInit
  /\ AuditInit
  /\ audited = [p \in Proc |-> {}]
  /\ acked = IF keyFile = TheKey THEN {Past[i] : i \in DOMAIN Past} ELSE {}

\* The recordings that the audit log tells of.
AuditedIds(ls) == {ls[i].event : i \in {j \in DOMAIN ls : IsEntry(ls, j)}}

-----------------------------------------------------------------------------
(* The recorder's audit event. *)

\* What writeProvisionRecord still owes when the ledger is written.
Recorder(p) ==
  /\ AuditStep(p, job[p].id, "done", "acknowledge")
  /\ UNCHANGED <<storeVars, audited, acked>>

\* writeProvisionRecord returns.
Acknowledge(p) ==
  /\ pc[p] = "acknowledge"
  /\ acked' = acked \cup {job[p].id}
  /\ Goto(p, "done")
  /\ UNCHANGED <<storeVars, auditVars, audited, holder, lockRest>>

Warm(p) ==
  /\ WarmKey(p, "warmed")
  /\ UNCHANGED <<storeVars, audited, acked>>

Warmed(p) ==
  /\ pc[p] = "warmed"
  /\ Goto(p, "done")
  /\ myKey' = [myKey EXCEPT ![p] = Nobody]
  /\ UNCHANGED <<storeVars, lines, ending, keyFile, tail, event, audited,
                 acked, holder, lockRest>>

-----------------------------------------------------------------------------
(* restore-provisions --from-audit-log. *)

\* The chain is verified, without any lock, before anything is taken from it.
\* A log that is not there is refused; one that cannot be read is an empty
\* chain, and verifies.
VerifyLog(p) ==
  /\ pc[p] = "restore"
  /\ \/ /\ Goto(p, IF lines # <<>> /\ Verifies(lines, keyFile) THEN "take" ELSE "done")
        /\ UNCHANGED faults
     \/ lines # <<>> /\ Fails /\ Goto(p, "take")
  /\ UNCHANGED <<storeVars, auditVars, audited, acked, holder, probe, robbed>>

\* The events that restore can make a record of: of those that would fit the
\* schema, the first about each resource.
FirstEvents(ls) ==
  LET fit == {i \in DOMAIN ls : IsEntry(ls, i) /\ ls[i].event \notin StaleId}
      Again(i) == \E j \in fit : j < i /\ ArnOf[ls[j].event] = ArnOf[ls[i].event]
  IN  {ls[i].event : i \in {j \in fit : ~Again(j)}}

\* The log is read a second time, and the events are taken; or none are.
TakeEvents(p) ==
  /\ pc[p] = "take"
  /\ \/ audited' = [audited EXCEPT ![p] = FirstEvents(lines)] /\ UNCHANGED faults
     \/ Fails /\ UNCHANGED audited
  /\ Goto(p, "ask")
  /\ UNCHANGED <<storeVars, auditVars, acked, holder, probe, robbed>>

\* Mutant: the ledger is not searched for what was recorded or restored by
\* others.
Missing_Unsearched(p) == [id : audited[p], by : {p}]

\* The ledger was read again under the lock: of which resources has it no
\* record?
Missing(p) ==
  {r \in [id : audited[p], by : {p}] : ArnOf[r.id] \notin ArnsOf(view[p])}

\* They are added; nothing is written when there are none.
Rebuild(p) ==
  /\ pc[p] = "write"
  /\ job[p].op = "restore"
  /\ IF Missing(p) = {} THEN UNCHANGED log
     ELSE Put(Provisions, view[p] \cup Missing(p))
  /\ Goto(p, "unlock")
  /\ audited' = [audited EXCEPT ![p] = {}]
  /\ UNCHANGED <<view, blind, job, jobs, auditVars, acked, holder, lockRest>>

-----------------------------------------------------------------------------

\* The steps of a process that is on its way.
Step(p) ==
  \/ StoreStep(p) /\ UNCHANGED <<auditVars, audited, acked>>
  \/ Recorder(p) \/ Acknowledge(p)
  \/ Warm(p) \/ Warmed(p)
  \/ VerifyLog(p) \/ TakeEvents(p) \/ Rebuild(p)

\* A process dies, in the middle of its append perhaps.
Die(p) ==
  /\ Crash(p)
  /\ job' = [job EXCEPT ![p] = None]
  /\ view' = [view EXCEPT ![p] = {}]
  /\ blind' = blind \ {p}
  /\ audited' = [audited EXCEPT ![p] = {}]
  /\ ForgetAppend(p)
  /\ (pc[p] = "append" /\ InPart(p)) \/ UNCHANGED <<lines, ending>>
  /\ UNCHANGED <<log, jobs, keyFile, acked>>

Next ==
  \E p \in Proc :
    \/ Begin(p) /\ UNCHANGED <<auditVars, audited, acked>>
    \/ Step(p)
    \/ Die(p)

Spec == Init /\ [][Next]_vars

-----------------------------------------------------------------------------
(* Properties. *)

\* The steps at which a process replaces a log by what it has made of what it
\* had read; for a repair and a restored backup see NothingClobbered.
Replaces(p, f) ==
  /\ pc[p] \in {"write", "trim"} /\ pc'[p] # pc[p]
  /\ job[p].file = f
  /\ log'[f] # log[f]

\* The records of the ledger that came there under a lock: `restore-provisions
\* --from` takes none, so what it puts there may be overwritten unread.
Placed == Valid(log[Provisions]) \ Backup

\* What a process has read of the ledger counts when its read has not failed,
\* and no lock of the ledger was taken from a living process by a late reclaim.
Sees(p) == p \notin blind /\ Provisions \notin robbed

\* Appends, rotations and rebuilds of provisions.json never take away a record
\* that they have not read, however they overlap with each other and with
\* readers that repair the file, and whoever dies: memory-recorder's lock and
\* the lock of rotation are one file there.  Two things alone break that: a
\* read that fails is an empty ledger (service.ts:135), and a slow reclaimer
\* unlinks the lock of a living process (file-advisory-lock.ts:247).
NoBlindWrite ==
  [][\A p \in Proc :
       Replaces(p, Provisions) /\ Sees(p) => Placed \subseteq view[p]]_vars

\* Cleanup and restore leave the provisions of the last 30 days in the ledger
\* (rotateProvisions' preserveFilter; restore adds to what is there), but for
\* the same two causes.
RecentSurvives ==
  [][\A p \in Proc : Replaces(p, Provisions) /\ Sees(p) =>
       \A r \in Placed : r.id \notin OldId => r \in log'[Provisions]]_vars

\* restore-provisions-audit-log.ts reads the ledger again under the lock, "two
\* operators cannot race a write": of a resource that the ledger has it adds no
\* second record, though the audit log tells of it, and of the others one each.
RestoreAddsNoDuplicate ==
  [][\A p \in Proc :
       Replaces(p, Provisions) /\ Sees(p) /\ job[p].op = "restore" =>
         LET added == log'[Provisions] \ view[p]
         IN  \A r \in added :
               /\ ArnOf[r.id] \notin ArnsOf(Placed)
               /\ \A s \in added : ArnOf[s.id] = ArnOf[r.id] => s = r]_vars

\* The entries of the audit log form one chain, whoever appends and is turned
\* away, until something fails; after that an entry that does not continue the
\* one before it starts a chain anew (audit-log.ts:277), as long as no reclaimer
\* lets two appenders in.
ChainIsLinked == Audit \notin robbed =>
  \A i \in DOMAIN lines : IsEntry(lines, i) =>
    \/ Starts(lines[i]) /\ (NoneBefore(lines, i) \/ faults > 0)
    \/ Continues(lines, i)

\* hmac-chain.ts: "TOCTOU-safe: if two processes race, only the winner writes;
\* the loser retries the read path."  Nobody ever signs with another key than
\* the one that ends up in the key file, so the log verifies.
ChainVerifies == keyFile = TheKey => Verifies(lines, keyFile)

\* What the recorder has returned from is not lost without a trace: the ledger
\* has a record of it or the audit log tells of it, or the log holds a line
\* that no longer parses.
Recoverable ==
  \A i \in acked : \/ i \in IdsOf(log[Provisions]) \cup AuditedIds(lines)
                   \/ Junk \in Range(lines)

\* Each death and each failed call costs the audit log at most one event that
\* the recorder has returned from: the one that is glued to what was left of a
\* line.  Two appenders that a reclaimer has let in cost none.
FaultsCostOneEach == Cardinality(acked \ AuditedIds(lines)) <= faults

\* rotation.ts: "Acquire lock BEFORE reading so a concurrent append can't slip
\* a record between read and write and have it clobbered."  For every log:
\* rotation takes nothing away that it has not read.
NothingClobbered ==
  [][\A p \in Proc, f \in File :
       pc[p] = "trim" /\ Replaces(p, f) =>
         \A r \in Valid(log[f]) : r \in view[p]]_vars

\* NoBlindWrite whatever fails and whoever is robbed of a lock.
NeverBlind ==
  [][\A p \in Proc : Replaces(p, Provisions) => Placed \subseteq view[p]]_vars

\* restore-provisions-audit-log.ts: "unique ARNs, matching the ledger contract".
OneRecordPerResource ==
  \A r, s \in log[Provisions] : ArnOf[r.id] = ArnOf[s.id] => r = s

\* docs/explanation/audit-threat-model.md: a partial write is caught by
\* verification.  A log that verifies holds every event that was acknowledged.
VerifiedIsComplete ==
  Verifies(lines, keyFile) => acked \subseteq AuditedIds(lines)

-----------------------------------------------------------------------------
(* The inductive invariant behind the properties. *)

Appending == {"key", "write key", "append"}
Auditing == Appending \cup {"read audit", "unlock audit"}

\* The steps of each operation.
Belongs(op, label) ==
  \/ op \in {"record", "clear", "list"} /\ label \in {"read", "repair", "rewrite"}
  \/ op = "restore" /\ label \in {"restore", "take", "read"}
  \/ op \in {"record", "clear", "restore"} /\ label \in {"ask", "threw", "write", "unlock"}
  \/ op = "record" /\ label \in Auditing \cup {"unlock, then audit", "audit", "acknowledge"}
  \/ op = "clean" /\ label \in {"rotate", "no rotation", "load", "trim"}
  \/ op = "revert" /\ label \in {"load backup", "replace"}
  \/ op = "warm" /\ label \in {"warm", "warm key", "warmed"}
  \/ label = "done"

\* A process is at a step of its job, which is about a file that fits.
JobFits(p) ==
  /\ job[p] = None => pc[p] = "idle"
  /\ job[p] # None => /\ Belongs(job[p].op, pc[p])
                      /\ job[p].op = "clear" => job[p].file = Failures
                      /\ job[p].op \in {"restore", "revert"} => job[p].file = Provisions

\* A lock that was granted is had, until a late reclaim.
Keeps(p, l) == l \notin robbed => Has(p, l)

\* Which locks a process has at which step.
LocksHeld(p) == job[p] # None =>
  /\ job[p].op # "list" /\ pc[p] \in {"read", "repair", "rewrite", "write"}
       => Keeps(p, Provisions)
  /\ pc[p] \in {"unlock", "unlock, then audit"} => Keeps(p, Provisions)
  /\ pc[p] \in {"rewrite", "load", "trim"} => Keeps(p, job[p].file)
  /\ pc[p] = "rewrite" /\ job[p].file = Provisions /\ Provisions \notin robbed
       => job[p].op = "list"
  /\ pc[p] \in Auditing => Keeps(p, Audit)

\* A process that is to write the ledger has read all that was placed there,
\* or brings what was saved.
LedgerIsRead(p) == job[p] # None =>
  /\ /\ Sees(p)
     /\ job[p].file = Provisions
     /\ \/ job[p].op # "list" /\ pc[p] \in {"repair", "write"}
        \/ pc[p] = "trim"
     => Placed \subseteq view[p]
  /\ pc[p] = "replace" => view[p] = Backup

\* A job has an id of its own.
OwnId(p) == job[p] # None =>
  /\ FirstId <= job[p].id /\ job[p].id < FirstId + jobs
  /\ \A q \in Proc \ {p} : job[q] # None => job[q].id # job[p].id

\* What restore has taken is one event for each resource.
OnePerResource(p) ==
  \A i, j \in audited[p] : ArnOf[i] = ArnOf[j] => i = j

\* An appender is to write the event of its job, and has read the last entry.
AppenderIsCurrent(p) == pc[p] \in Appending =>
  /\ event[p] = job[p].id
  /\ pc[p] = "append" => myKey[p] \in Key
  /\ Audit \notin robbed =>
       \/ tail[p] = Nobody /\ (NoneBefore(lines, Len(lines) + 1) \/ faults > 0)
       \/ \E i \in DOMAIN lines :
            IsLastBefore(lines, i, Len(lines) + 1) /\ tail[p] = lines[i]

\* The recorder has written its event, and has not returned yet.
Owes(p) ==
  \/ pc[p] = "unlock audit" /\ event[p] # Nobody
  \/ pc[p] = "acknowledge"

\* What was acknowledged, or is about to be, is in the log, unless lines of the
\* log were glued together.
EventsAreWritten ==
  \/ Junk \in Range(lines)
  \/ /\ acked \subseteq AuditedIds(lines)
     /\ \A p \in Proc : Owes(p) => job[p].id \in AuditedIds(lines)

\* What the log has to hold, now or when the recorder returns, and what of it
\* is lost.
Owed == acked \cup {job[p].id : p \in {q \in Proc : Owes(q)}}
Lost == Owed \ AuditedIds(lines)

\* A last line without its end is none of what was acknowledged, nor will be:
\* its writer has died, or is to give its event up.
UnendedIsNotOwed == ending # "clean" =>
  /\ lines # <<>>
  /\ lines[Len(lines)] # Junk =>
       LET id == lines[Len(lines)].event
       IN  /\ id < FirstId + jobs /\ id \notin acked
           /\ \A p \in Proc : job[p] # None /\ job[p].id = id =>
                \/ pc[p] = "done"
                \/ pc[p] = "unlock audit" /\ event[p] = Nobody

\* A job is acknowledged once, at its end; and every fault has cost one event,
\* or has left the line that will.
LossInv ==
  /\ faults \in Nat
  /\ \A i \in acked : i < FirstId + jobs
  /\ \A p \in Proc : job[p] # None /\ job[p].id \in acked => pc[p] = "done"
  /\ UnendedIsNotOwed
  /\ Cardinality(Lost) + (IF ending = "clean" THEN 0 ELSE 1) <= faults

\* Nothing is robbed, orphaned or read blindly before the first fault.
Untroubled == faults = 0 =>
  /\ robbed = {} /\ blind = {}
  /\ \A l \in Lock : holder[l] # Orphan
  /\ \A p \in Proc : probe[p] = "stat"

\* Type correctness, the properties above, and what makes them inductive.
LedgerInv ==
  /\ TypeOK
  /\ DOMAIN pc = Proc
  /\ \A p \in Proc : /\ JobFits(p) /\ LocksHeld(p) /\ LedgerIsRead(p)
                     /\ OwnId(p) /\ OnePerResource(p) /\ AppenderIsCurrent(p)
  /\ ChainIsLinked
  /\ EventsAreWritten
  /\ LossInv
  /\ Untroubled

\* With a key file in place nobody signs with another key, until a read of it
\* fails.
KeyInPlace ==
  /\ keyFile = TheKey
  /\ faults = 0 =>
       /\ \A i \in DOMAIN lines : IsEntry(lines, i) => lines[i].key = TheKey
       /\ \A p \in Proc : myKey[p] \in {TheKey, Nobody}
=============================================================================
