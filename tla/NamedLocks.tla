----------------------------- MODULE NamedLocks -----------------------------
(***************************************************************************)
(* Several lock names at once, as their users see them: the advisory lock  *)
(* of locks/file-advisory-lock.ts, which tries twenty-one times, and the   *)
(* simpler lock of services/memory/file-store.ts, which tries once.  Both  *)
(* stat the lock file, unlink it if it is stale, and create it O_EXCL,     *)
(* each of them awaited; both unlink it by name when they are done.        *)
(*                                                                         *)
(* A lock file is stale once the process that wrote it has died: that      *)
(* nobody alive keeps one for ten seconds is the TimelyEnvironment of      *)
(* AdvisoryLock, which looks at one name with its clock.  What a death     *)
(* does to the lock is here as it is there: of two callers that judge an   *)
(* orphan stale the slower unlinks the file the faster has just made.      *)
(***************************************************************************)
EXTENDS Naturals

CONSTANTS
  Proc,     \* the processes that share ~/.assignee
  Lock,     \* the lock names: the files they are the `.lock` of
  Nobody,   \* there is no lock file
  Orphan,   \* there is one, and the process that wrote it has died
  MaxFaults \* bound: processes that die, reads and appends that fail

ASSUME NobodyAssumption == {Nobody, Orphan} \cap Proc = {} /\ Nobody # Orphan
ASSUME FaultsAssumption == MaxFaults \in Nat

VARIABLES
  pc,     \* what each process does next
  holder, \* who has written the lock file of each name: Nobody, Orphan or who
  probe,  \* what an attempt at a lock has still to do: "stat", "unlink", "create"
  robbed, \* history: names whose file was unlinked while its writer had it
  faults  \* deaths and failures so far

lockVars == <<pc, holder, probe, robbed, faults>>
lockRest == <<probe, robbed, faults>>

LockTypeOK ==
  /\ holder \in [Lock -> Proc \cup {Nobody, Orphan}]
  /\ probe \in [Proc -> {"stat", "unlink", "create"}]
  /\ robbed \subseteq Lock
  /\ faults \in 0..MaxFaults

LockInit ==
  /\ pc = [p \in Proc |-> "idle"]
  /\ holder = [l \in Lock |-> Nobody]
  /\ probe = [p \in Proc |-> "stat"]
  /\ robbed = {}
  /\ faults = 0

Goto(p, label) == pc' = [pc EXCEPT ![p] = label]

\* A call fails, at most MaxFaults times.
Fails == faults < MaxFaults /\ faults' = faults + 1

Has(p, l) == holder[l] = p

\* O_EXCL: the file is created if there is none.
Create(p, l, granted) ==
  /\ Has(Nobody, l)
  /\ holder' = [holder EXCEPT ![l] = p]
  /\ probe' = [probe EXCEPT ![p] = "stat"]
  /\ Goto(p, granted)

\* The file is found fresh, or created by somebody else in the meantime.
Lose(p, l, refused) ==
  /\ ~Has(Nobody, l)
  /\ probe' = [probe EXCEPT ![p] = "stat"]
  /\ Goto(p, refused)
  /\ UNCHANGED holder

\* acquire.  A stat that finds no file and the create that follows are one
\* step: what comes between makes the create lose, as the stat would have.  A
\* process that asks for a name it has finds its own file, and it is fresh.
Attempt(p, l, granted, refused) ==
  \/ /\ probe[p] \in {"stat", "create"}
     /\ Create(p, l, granted) \/ Lose(p, l, refused)
     /\ UNCHANGED <<robbed, faults>>
  \/ /\ probe[p] = "stat"
     /\ Has(Orphan, l)
     /\ probe' = [probe EXCEPT ![p] = "unlink"]
     /\ UNCHANGED <<pc, holder, robbed, faults>>
  \/ /\ probe[p] = "unlink"
     /\ holder' = [holder EXCEPT ![l] = Nobody]
     /\ robbed' = IF holder[l] \in Proc THEN robbed \cup {l} ELSE robbed
     /\ probe' = [probe EXCEPT ![p] = "create"]
     /\ UNCHANGED <<pc, faults>>

\* withLock: an attempt that fails is made again, until it throws.
Enter(p, l, granted, refused) ==
  Attempt(p, l, granted, refused) \/ Attempt(p, l, granted, pc[p])

\* release: the lock file is unlinked, whoever wrote it.
Free(l) == holder' = [holder EXCEPT ![l] = Nobody]

\* A process dies and is started again: it knows nothing, and the lock files it
\* has written stay.  (One that dies without having begun anything is the same
\* as before.)
Crash(p) ==
  /\ pc[p] # "idle"
  /\ Fails
  /\ holder' = [l \in Lock |-> IF Has(p, l) THEN Orphan ELSE holder[l]]
  /\ probe' = [probe EXCEPT ![p] = "stat"]
  /\ Goto(p, "idle")
  /\ UNCHANGED robbed
=============================================================================
