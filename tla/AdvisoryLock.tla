---------------------------- MODULE AdvisoryLock ----------------------------
(***************************************************************************)
(* The file-based advisory lock of packages/core (locks/file-advisory-     *)
(* lock.ts), for one lock name.  Every caller of withLock (a CLI process,  *)
(* the MCP server, or one of several async tasks of a process) is a member *)
(* of Proc.  The lock is a file `<name>.lock`: acquire() stats it, removes *)
(* it when its mtime is at least StaleTimeout old, and creates it with     *)
(* O_CREAT|O_EXCL; release() unlinks it whoever wrote it.  The three file  *)
(* operations are separate steps, because each is awaited.                 *)
(*                                                                         *)
(* Time is kept as ages, in ticks: the age of the lock file, the age of    *)
(* the file a prober has seen, and how long a holder has held or a prober  *)
(* has probed.  An age stops growing at StaleTimeout, the only value the   *)
(* code compares with.                                                     *)
(***************************************************************************)
EXTENDS Integers

CONSTANTS
  Proc,          \* the callers of withLock
  NoLock,        \* there is no lock file
  StaleTimeout,  \* staleLockTimeoutMs, in ticks
  MaxRetries,    \* maxRetries: withLock makes MaxRetries + 1 attempts
  MaxHold,       \* environment: the longest time a callback keeps the lock
  MaxProbe,      \* environment: the longest time from a stat to its verdict
  MaxCrashes,    \* bound: crashes and unlinks that fail, which orphan a lock
  MaxErrors      \* bound: I/O errors that acquire() swallows

ASSUME NoLockAssumption == NoLock \notin Int \cup [owner : Proc, age : Int]
ASSUME TimeAssumption ==
  /\ StaleTimeout \in Nat \ {0}
  /\ MaxRetries \in Nat
  /\ MaxHold \in Nat
  /\ MaxProbe \in Nat
ASSUME FaultAssumption == MaxCrashes \in Nat /\ MaxErrors \in Nat

VARIABLES
  pc,        \* what each caller awaits
  lockFile,  \* NoLock, or [owner |-> the pid written into it, age |-> ...]
  seen,      \* the age of the file a prober has statted, or NoLock
  probeAge,  \* how long ago the prober's stat read the file
  holdAge,   \* how long ago the caller created its lock file
  attempts,  \* failed attempts of the caller's current withLock
  crashes,   \* locks orphaned so far
  errors     \* swallowed I/O errors so far

vars == <<pc, lockFile, seen, probeAge, holdAge, attempts, crashes, errors>>

Age == 0..StaleTimeout

\* idle     - not in withLock
\* stat     - acquire() has asked for the file's mtime
\* judge    - the stat has been taken; the verdict is not yet drawn
\* reclaim  - the file was judged stale; its unlink is under way
\* create   - the O_EXCL create is under way
\* undo     - created, but the PID could not be written: unlink under way
\* critical - the callback fn runs, or the unlink of release() is under way
\* sleep    - between two attempts
\* threw    - LockAcquisitionError is on its way to the caller
PC == {"idle", "stat", "judge", "reclaim", "create", "undo", "critical",
       "sleep", "threw"}

\* The caller has created the lock file and not yet unlinked it.
Owns(p) == pc[p] \in {"critical", "undo"}

TypeOK ==
  /\ pc \in [Proc -> PC]
  /\ lockFile \in [owner : Proc, age : Age] \cup {NoLock}
  /\ seen \in [Proc -> Age \cup {NoLock}]
  /\ probeAge \in [Proc -> Age]
  /\ holdAge \in [Proc -> Age]
  /\ attempts \in [Proc -> 0..MaxRetries]
  /\ crashes \in 0..MaxCrashes
  /\ errors \in 0..MaxErrors

Init ==
  /\ pc = [p \in Proc |-> "idle"]
  /\ lockFile = NoLock
  /\ seen = [p \in Proc |-> NoLock]
  /\ probeAge = [p \in Proc |-> 0]
  /\ holdAge = [p \in Proc |-> 0]
  /\ attempts = [p \in Proc |-> 0]
  /\ crashes = 0
  /\ errors = 0

Goto(p, l) == pc' = [pc EXCEPT ![p] = l]

NoError == UNCHANGED errors
SwallowedError == errors < MaxErrors /\ errors' = errors + 1

\* Mutant: failed attempts are not counted.
Contended_Forever(p) == Goto(p, "sleep") /\ UNCHANGED attempts

\* An attempt of withLock has not got the lock: sleep and try again, or throw
\* LockAcquisitionError when the budget of MaxRetries + 1 attempts is used up.
Contended(p) ==
  IF attempts[p] < MaxRetries
    THEN Goto(p, "sleep") /\ attempts' = [attempts EXCEPT ![p] = @ + 1]
    ELSE Goto(p, "threw") /\ UNCHANGED attempts

-----------------------------------------------------------------------------
(* The steps of withLock. *)

Call(p) ==
  /\ pc[p] = "idle"
  /\ Goto(p, "stat")
  /\ UNCHANGED <<lockFile, seen, probeAge, holdAge, attempts, crashes, errors>>

\* port.stat reads the file's mtime; a stat that throws counts as "no lock".
Stat(p) ==
  /\ pc[p] = "stat"
  /\ Goto(p, "judge")
  /\ \/ /\ seen' = [seen EXCEPT ![p] =
                      IF lockFile = NoLock THEN NoLock ELSE lockFile.age]
        /\ NoError
     \/ /\ seen' = [seen EXCEPT ![p] = NoLock]
        /\ SwallowedError
  /\ UNCHANGED <<lockFile, probeAge, holdAge, attempts, crashes>>

FreshInSight(p) == seen[p] # NoLock /\ seen[p] < StaleTimeout
StaleInSight(p) == seen[p] # NoLock /\ seen[p] >= StaleTimeout

\* What the prober remembers is of no use after the verdict.
EndProbe(p) ==
  /\ seen' = [seen EXCEPT ![p] = NoLock]
  /\ probeAge' = [probeAge EXCEPT ![p] = 0]

\* Mutants: every lock in sight is taken for stale; no lock ever is.
Judge_AlwaysStale(p) ==
  /\ pc[p] = "judge"
  /\ Goto(p, IF seen[p] = NoLock THEN "create" ELSE "reclaim")
  /\ UNCHANGED attempts
  /\ EndProbe(p)
  /\ UNCHANGED <<lockFile, holdAge, crashes, errors>>

Judge_NeverStale(p) ==
  /\ pc[p] = "judge"
  /\ \/ /\ seen[p] = NoLock
        /\ Goto(p, "create")
        /\ UNCHANGED attempts
     \/ /\ seen[p] # NoLock
        /\ Contended(p)
  /\ EndProbe(p)
  /\ UNCHANGED <<lockFile, holdAge, crashes, errors>>

\* acquire() resumes after the stat: the age is taken from the clock now.
Judge(p) ==
  /\ pc[p] = "judge"
  /\ \/ /\ seen[p] = NoLock
        /\ Goto(p, "create")
        /\ UNCHANGED attempts
     \/ /\ FreshInSight(p)
        /\ Contended(p)
     \/ /\ StaleInSight(p)
        /\ Goto(p, "reclaim")
        /\ UNCHANGED attempts
  /\ EndProbe(p)
  /\ UNCHANGED <<lockFile, holdAge, crashes, errors>>

\* port.delete(key): removes whatever file is there by now; errors are ignored.
Reclaim(p) ==
  /\ pc[p] = "reclaim"
  /\ Goto(p, "create")
  /\ \/ lockFile' = NoLock /\ NoError
     \/ UNCHANGED lockFile /\ SwallowedError
  /\ UNCHANGED <<seen, probeAge, holdAge, attempts, crashes>>

\* Mutant: a create that overwrites instead of O_EXCL.
Create_NotExclusive(p) ==
  /\ pc[p] = "create"
  /\ lockFile' = [owner |-> p, age |-> 0]
  /\ Goto(p, "critical")
  /\ UNCHANGED <<seen, probeAge, holdAge, attempts, crashes, errors>>

\* port.tryAcquire: open(O_CREAT|O_EXCL), then write the PID.  When the write
\* fails the adapter unlinks the file it has created and throws.
Create(p) ==
  /\ pc[p] = "create"
  /\ \/ /\ lockFile = NoLock
        /\ lockFile' = [owner |-> p, age |-> 0]
        /\ UNCHANGED attempts
        /\ \/ Goto(p, "critical") /\ NoError
           \/ Goto(p, "undo") /\ SwallowedError
     \/ /\ lockFile # NoLock
        /\ Contended(p)
        /\ UNCHANGED <<lockFile, errors>>
  /\ UNCHANGED <<seen, probeAge, holdAge, crashes>>

\* Mutant: the adapter forgets to unlink the file it could not fill.
Undo_LeavesFile(p) ==
  /\ pc[p] = "undo"
  /\ Contended(p)
  /\ holdAge' = [holdAge EXCEPT ![p] = 0]
  /\ UNCHANGED <<lockFile, seen, probeAge, crashes, errors>>

Undo(p) ==
  /\ pc[p] = "undo"
  /\ lockFile' = NoLock
  /\ Contended(p)
  /\ holdAge' = [holdAge EXCEPT ![p] = 0]
  /\ UNCHANGED <<seen, probeAge, crashes, errors>>

\* The pause between two attempts ends.
Retry(p) ==
  /\ pc[p] = "sleep"
  /\ Goto(p, "stat")
  /\ UNCHANGED <<lockFile, seen, probeAge, holdAge, attempts, crashes, errors>>

\* withLock is over for this caller: its loop counter and its lock are gone.
Leave(p) ==
  /\ Goto(p, "idle")
  /\ attempts' = [attempts EXCEPT ![p] = 0]
  /\ holdAge' = [holdAge EXCEPT ![p] = 0]

\* fn has returned or thrown; the finally block unlinks the file that is there.
Release(p) ==
  /\ pc[p] = "critical"
  /\ Leave(p)
  /\ lockFile' = NoLock
  /\ UNCHANGED <<seen, probeAge, crashes, errors>>

\* Mutant: the finally block also runs when the lock was never acquired.
Throw_AlsoReleases(p) ==
  /\ pc[p] = "threw"
  /\ Leave(p)
  /\ lockFile' = NoLock
  /\ UNCHANGED <<seen, probeAge, crashes, errors>>

\* LockAcquisitionError reaches the caller: fn has not run.
Throw(p) ==
  /\ pc[p] = "threw"
  /\ Leave(p)
  /\ UNCHANGED <<lockFile, seen, probeAge, crashes, errors>>

-----------------------------------------------------------------------------
(* The environment. *)

\* A caller that has created the file dies, or its unlink fails and the error
\* is swallowed: the file stays, the caller is (or restarts) outside withLock.
Orphan(p) ==
  /\ Owns(p)
  /\ crashes < MaxCrashes
  /\ crashes' = crashes + 1
  /\ Leave(p)
  /\ UNCHANGED <<lockFile, seen, probeAge, errors>>

Older(a) == IF a < StaleTimeout THEN a + 1 ELSE a

\* Time passes, within what the environment allows holders and probers.
Tick ==
  /\ \A p \in Proc :
       /\ Owns(p) => holdAge[p] < MaxHold
       /\ pc[p] = "judge" => probeAge[p] < MaxProbe
  /\ lockFile' = IF lockFile = NoLock THEN NoLock
                 ELSE [lockFile EXCEPT !.age = Older(@)]
  /\ seen' = [p \in Proc |->
                IF seen[p] = NoLock THEN NoLock ELSE Older(seen[p])]
  /\ probeAge' = [p \in Proc |->
                    IF pc[p] = "judge" THEN Older(probeAge[p]) ELSE probeAge[p]]
  /\ holdAge' = [p \in Proc |->
                   IF Owns(p) THEN Older(holdAge[p]) ELSE holdAge[p]]
  /\ UNCHANGED <<pc, attempts, crashes, errors>>

-----------------------------------------------------------------------------

Step(p) ==
  \/ Stat(p) \/ Judge(p) \/ Reclaim(p) \/ Create(p) \/ Undo(p)
  \/ Retry(p) \/ Release(p) \/ Throw(p)

Next ==
  \/ Tick
  \/ \E p \in Proc : Call(p) \/ Step(p) \/ Orphan(p)

Spec == Init /\ [][Next]_vars

\* An awaited I/O call or timer completes, and time passes.
Fairness == WF_vars(Tick) /\ \A p \in Proc : WF_vars(Step(p))

FairSpec == Spec /\ Fairness

-----------------------------------------------------------------------------
(* Properties. *)

\* withLock never runs fn without the lock held: while fn runs, the lock file
\* exists and is the one this caller wrote.
NeverWithoutLock ==
  \A p \in Proc : pc[p] = "critical" => lockFile # NoLock /\ lockFile.owner = p

\* Two callbacks never run at once under the same lock name.
MutualExclusion ==
  \A p, q \in Proc : pc[p] = "critical" /\ pc[q] = "critical" => p = q

\* No caller takes away a lock file that another caller still relies on: when
\* the file disappears, only its owner, or nobody, was still using it.
NoForeignUnlink ==
  [][lockFile # NoLock /\ lockFile' = NoLock =>
       \A q \in Proc : pc[q] = "critical" => pc'[q] = "idle"]_vars

\* Every withLock comes to an end of its waiting, whatever its rivals do: it
\* runs fn or throws (or its process has died, and the caller is idle again).
EveryCallResolves ==
  \A p \in Proc : pc[p] = "stat" ~> pc[p] \in {"critical", "threw", "idle"}

\* The file outlived the caller that wrote it.
Orphaned == lockFile # NoLock /\ ~Owns(lockFile.owner)

\* An orphaned lock file does not block the lock for ever: if even one
\* caller keeps probing it, it goes away.
OrphanIsReclaimed ==
  (\E p \in Proc : []<>(pc[p] = "judge")) => (Orphaned ~> ~Orphaned)

-----------------------------------------------------------------------------
(* Why the lock is exclusive when nobody outlives the stale timeout: the    *)
(* inductive invariant.                                                     *)

\* The environment in which the protocol is meant to work: no lock is ever
\* orphaned, and a lock that a prober has seen cannot reach the stale timeout
\* while its holder still has it and the prober still draws its verdict.
TimelyEnvironment ==
  /\ MaxCrashes = 0
  /\ MaxHold + MaxProbe < StaleTimeout

\* The lock file is the one its only owner wrote, and as old as its tenure.
FileIsOwners ==
  /\ \A p \in Proc : Owns(p) => lockFile = [owner |-> p, age |-> holdAge[p]]
  /\ lockFile # NoLock => Owns(lockFile.owner)

\* Nobody keeps the lock longer than the environment allows.
TenureBounded == \A p \in Proc : Owns(p) => holdAge[p] <= MaxHold

\* What a prober has seen was no older than a tenure when it was statted.
SightBounded ==
  \A p \in Proc :
    pc[p] = "judge" => /\ probeAge[p] <= MaxProbe
                       /\ seen[p] # NoLock => seen[p] <= MaxHold + probeAge[p]

\* Hence no lock in sight is ever judged stale.
NobodyReclaims == \A p \in Proc : pc[p] # "reclaim"

\* The ages of a prober and of a holder count from zero.
ClocksReset ==
  \A p \in Proc : /\ ~Owns(p) => holdAge[p] = 0
                  /\ pc[p] # "judge" => seen[p] = NoLock /\ probeAge[p] = 0

LockInv ==
  /\ TypeOK
  /\ FileIsOwners
  /\ TenureBounded
  /\ SightBounded
  /\ NobodyReclaims
  /\ ClocksReset

-----------------------------------------------------------------------------

\* The promise of the port: the callers whose fn runs hold an exclusive lock,
\* those that have called and have no answer yet wait for it.
Promise == INSTANCE ExclusiveLock WITH
  waiting <- {p \in Proc : pc[p] \notin {"idle", "critical"}},
  holders <- {p \in Proc : pc[p] = "critical"}

\* The advisory lock implements the exclusive lock.
ImplementsPromise == Promise!Spec
=============================================================================
