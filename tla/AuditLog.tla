------------------------------ MODULE AuditLog ------------------------------
(***************************************************************************)
(* The audit log (packages/core audit/audit-log.ts, audit-verifier.ts,     *)
(* hmac-chain.ts): lines of JSON, each signed together with the HMAC of    *)
(* the entry before it.  appendAuditRecord reads the whole file under the  *)
(* advisory lock of the log, takes index and prevHmac from the last entry  *)
(* that parses, resolves the key, and appends one line.  A read that fails *)
(* is an empty log: the entry that follows starts another chain.  The line *)
(* may be cut short by the death of the process or an append that fails;   *)
(* what is appended after that is glued to the rest of it, and the reader  *)
(* takes the result for a line of the time before the chain, which         *)
(* verification skips.                                                     *)
(*                                                                         *)
(* The HMAC is ideal: it is the list of what has been signed, with the     *)
(* keys.                                                                   *)
(***************************************************************************)
EXTENDS NamedLocks, Sequences, SequencesExt

CONSTANTS
  Event,     \* what the entries are about
  TheKey,    \* the content of the key file once it is written
  Junk,      \* a line that does not parse
  KeyStates, \* what the key file may be at the start
  Past       \* the events of the log at the start

Audit == "audit"

\* Without a readable key file a process signs with a key it makes up.
Key == {TheKey} \cup Proc

Entry == [index : Nat, prev : Seq(Event \X Key), event : Event, key : Key]

Hmac(e) == Append(e.prev, <<e.event, e.key>>)
Genesis == <<>>

ASSUME AuditAssumption ==
  /\ Audit \in Lock
  /\ Past \in Seq(Event)
  /\ TheKey \notin {"absent", "empty"}
  /\ KeyStates \subseteq {"absent", "empty", TheKey}
  /\ Junk \notin Entry
  /\ Nobody \notin Entry

VARIABLES
  lines,    \* the lines of the log
  ending,   \* how the last line ends: "clean", "cut" or "unterminated"
  keyFile,  \* "absent", "empty" (created, not yet written) or TheKey
  tail,     \* what an appender has read of the log: its last entry, or Nobody
  event,    \* what it is to write; Nobody once that has failed
  myKey     \* the key it has resolved

auditVars == <<lines, ending, keyFile, tail, event, myKey>>

AuditTypeOK ==
  /\ lines \in Seq(Entry \cup {Junk})
  /\ ending \in {"clean", "cut", "unterminated"}
  /\ keyFile \in {"absent", "empty", TheKey}
  /\ tail \in [Proc -> Entry \cup {Nobody}]
  /\ event \in [Proc -> Event \cup {Nobody}]
  /\ myKey \in [Proc -> Key \cup {Nobody}]

\* readAuditLogRaw without the lines that are no entries: the i-th line is one,
\* and is the last one before line n.
IsEntry(ls, i) == i \in DOMAIN ls /\ ls[i] # Junk

IsLastBefore(ls, i, n) ==
  IsEntry(ls, i) /\ i < n /\ \A j \in (i + 1)..(n - 1) : ~IsEntry(ls, j)

NoneBefore(ls, n) == \A j \in 1..(n - 1) : ~IsEntry(ls, j)

\* What appendAuditRecord signs after the last entry it has read.
NewEntry(last, e, k) ==
  [index |-> IF last = Nobody THEN 0 ELSE last.index + 1,
   prev |-> IF last = Nobody THEN Genesis ELSE Hmac(last),
   event |-> e, key |-> k]

\* An entry starts a chain, or continues the entry before it.
Starts(e) == e.index = 0 /\ e.prev = Genesis

Continues(ls, i) ==
  \E j \in DOMAIN ls :
    /\ IsLastBefore(ls, j, i)
    /\ ls[i].index = ls[j].index + 1 /\ ls[i].prev = Hmac(ls[j])

\* One chain: only the first entry starts it.
Linked(ls) ==
  \A i \in DOMAIN ls : IsEntry(ls, i) =>
    (NoneBefore(ls, i) /\ Starts(ls[i])) \/ Continues(ls, i)

\* verifyAuditLog: the entries are linked, and signed with the key of now.
Verifies(ls, k) ==
  Linked(ls) /\ \A i \in DOMAIN ls : IsEntry(ls, i) => ls[i].key = k

\* The log of a machine that has been used before.
PastLines == [i \in DOMAIN Past |->
  [index |-> i - 1, event |-> Past[i], key |-> TheKey,
   prev |-> [j \in 1..(i - 1) |-> <<Past[j], TheKey>>]]]

AuditInit ==
  /\ keyFile \in KeyStates
  /\ lines = IF keyFile = TheKey THEN PastLines ELSE <<>>
  /\ ending = "clean"
  /\ tail = [p \in Proc |-> Nobody]
  /\ event = [p \in Proc |-> Nobody]
  /\ myKey = [p \in Proc |-> Nobody]

-----------------------------------------------------------------------------
(* appendAuditRecord, from the label "audit" to `after`. *)

\* Mutant: the lock is not taken; two appenders read the same tail.
AskAudit_NoLock(p, after) ==
  /\ pc[p] = "audit"
  /\ Goto(p, "read audit")
  /\ UNCHANGED <<auditVars, holder, lockRest>>

\* Mutant: a recorder that was turned away believes its event is written.
AskAudit_Believes(p, after) ==
  /\ pc[p] = "audit"
  /\ Enter(p, Audit, "read audit", "acknowledge")
  /\ UNCHANGED auditVars

\* withLock(logFile): turned away, the event is logged and given up.
AskAudit(p, after) ==
  /\ pc[p] = "audit"
  /\ Enter(p, Audit, "read audit", after)
  /\ UNCHANGED auditVars

\* The last entry that parses; a log that cannot be read has none.
ReadAudit(p, e) ==
  /\ pc[p] = "read audit"
  /\ \/ /\ NoneBefore(lines, Len(lines) + 1)
        /\ tail' = [tail EXCEPT ![p] = Nobody]
        /\ UNCHANGED faults
     \/ \E i \in DOMAIN lines :
          /\ IsLastBefore(lines, i, Len(lines) + 1)
          /\ tail' = [tail EXCEPT ![p] = lines[i]]
          /\ UNCHANGED faults
     \/ /\ Fails
        /\ tail' = [tail EXCEPT ![p] = Nobody]
  /\ event' = [event EXCEPT ![p] = e]
  /\ Goto(p, "key")
  /\ UNCHANGED <<lines, ending, keyFile, myKey, holder, probe, robbed>>

\* The key of the file, or one that the process makes up for this once.
Signs(p, k, next) ==
  /\ myKey' = [myKey EXCEPT ![p] = k]
  /\ Goto(p, next)

\* resolveAuditKey: the key file is read; when there is none the process
\* creates it (O_EXCL) and writes the key in a second call.  Who finds a file
\* without a key reads again, then makes one up; and so does who cannot read
\* the file or cannot make it.
ResolveKey(p, next) ==
  /\ \/ keyFile = TheKey /\ Signs(p, TheKey, next) /\ UNCHANGED <<keyFile, faults>>
     \/ keyFile = "empty" /\ Signs(p, p, next) /\ UNCHANGED <<keyFile, faults>>
     \/ /\ keyFile = "absent"
        /\ keyFile' = "empty"
        /\ Goto(p, IF next = "append" THEN "write key" ELSE "warm key")
        /\ UNCHANGED <<myKey, faults>>
     \/ Fails /\ Signs(p, p, next) /\ UNCHANGED keyFile
  /\ UNCHANGED <<lines, ending, tail, event, holder, probe, robbed>>

\* A write that fails leaves a key file without a key.
WriteKey(p, next) ==
  /\ \/ keyFile' = TheKey /\ Signs(p, TheKey, next) /\ UNCHANGED faults
     \/ Fails /\ Signs(p, p, next) /\ UNCHANGED keyFile
  /\ UNCHANGED <<lines, ending, tail, event, holder, probe, robbed>>

AuditKey(p) ==
  \/ pc[p] = "key" /\ ResolveKey(p, "append")
  \/ pc[p] = "write key" /\ WriteKey(p, "append")

\* What an appender knows is gone when it has returned, or died.
ForgetAppend(p) ==
  /\ tail' = [tail EXCEPT ![p] = Nobody]
  /\ event' = [event EXCEPT ![p] = Nobody]
  /\ myKey' = [myKey EXCEPT ![p] = Nobody]

\* The file after a line is appended to it: glued to what is there when the
\* last line has no end, and then neither of the two parses.
WithLine(l) ==
  CASE ending = "clean" -> Append(lines, l)
    [] OTHER -> Append(Front(lines), Junk)

\* The entry of a process is in the file, with or without its newline.
Appended(p, end) ==
  /\ lines' = WithLine(NewEntry(tail[p], event[p], myKey[p]))
  /\ ending' = end

\* Part of the line is, or all of it but the newline.
InPart(p) ==
  \/ lines' = WithLine(Junk) /\ ending' = "cut"
  \/ Appended(p, "unterminated")

\* Mutant: the line is appended without its newline.
AppendLine_NoNewline(p) ==
  /\ pc[p] = "append"
  /\ Appended(p, "unterminated")
  /\ Goto(p, "unlock audit")
  /\ UNCHANGED <<keyFile, tail, event, myKey, holder, lockRest>>

\* appendFile, and the fsyncs after it.
AppendLine(p) ==
  /\ pc[p] = "append"
  /\ Appended(p, "clean")
  /\ Goto(p, "unlock audit")
  /\ UNCHANGED <<keyFile, tail, event, myKey, holder, lockRest>>

\* appendFile throws, with nothing written or a part of the line, or fsync does
\* when all of it is; and so does appendAuditRecord.
AppendFails(p) ==
  /\ pc[p] = "append"
  /\ Fails
  /\ InPart(p) \/ Appended(p, "clean") \/ UNCHANGED <<lines, ending>>
  /\ event' = [event EXCEPT ![p] = Nobody]
  /\ Goto(p, "unlock audit")
  /\ UNCHANGED <<keyFile, tail, myKey, holder, probe, robbed>>

\* The lock is released; when the append threw, that is logged and the event
\* given up.
UnlockAudit(p, refused, after) ==
  /\ pc[p] = "unlock audit"
  /\ Free(Audit)
  /\ ForgetAppend(p)
  /\ Goto(p, IF event[p] = Nobody THEN refused ELSE after)
  /\ UNCHANGED <<lines, ending, keyFile, lockRest>>

\* init and setup resolve the key ahead of time, without the lock.
WarmKey(p, after) ==
  \/ pc[p] = "warm" /\ ResolveKey(p, after)
  \/ pc[p] = "warm key" /\ WriteKey(p, after)

AuditStep(p, e, refused, after) ==
  \/ AskAudit(p, refused) \/ ReadAudit(p, e) \/ AuditKey(p)
  \/ AppendLine(p) \/ AppendFails(p) \/ UnlockAudit(p, refused, after)
=============================================================================
