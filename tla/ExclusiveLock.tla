---------------------------- MODULE ExclusiveLock ----------------------------
(***************************************************************************)
(* What AdvisoryLockPort promises of a lock name (ports/advisory-lock-     *)
(* port.ts and the contract stated above withLock in locks/file-advisory-  *)
(* lock.ts): a caller asks, and is then either given the lock while nobody *)
(* else has it, or turned away without it.                                 *)
(***************************************************************************)
CONSTANT Proc

VARIABLES
  waiting,  \* callers that have asked and have no answer yet
  holders   \* callers whose callback runs

vars == <<waiting, holders>>

Init == waiting = {} /\ holders = {}

Ask(p) ==
  /\ p \notin waiting \cup holders
  /\ waiting' = waiting \cup {p}
  /\ UNCHANGED holders

Grant(p) ==
  /\ p \in waiting
  /\ holders = {}
  /\ holders' = {p}
  /\ waiting' = waiting \ {p}

TurnAway(p) ==
  /\ p \in waiting
  /\ waiting' = waiting \ {p}
  /\ UNCHANGED holders

Free(p) ==
  /\ p \in holders
  /\ holders' = holders \ {p}
  /\ UNCHANGED waiting

Next == \E p \in Proc : Ask(p) \/ Grant(p) \/ TurnAway(p) \/ Free(p)

Spec == Init /\ [][Next]_vars
=============================================================================
