------------------------------ MODULE MCLedger ------------------------------
(* Small instances of Ledger for TLC. *)
EXTENDS Ledger

Initially(ids) == [id : ids, by : {Written}]

\* A machine in use: resource 2 is old, 3 has a record of an earlier version of
\* the schema, and 1 is missing, although an audit log that is there tells of it.
UsedLogs ==
  {[provisions |-> Initially({2, 3}), failures |-> Initially({2, 3})]}

\* A bucket is made again under its name: the second recording of the run is
\* of the resource of the first of the past.
Resources == [i \in Ids |-> IF i = FirstId + 1 THEN 1 ELSE i]

SavedLedger == Initially({1})

PastEvents == <<1>>

Symmetry == Permutations(Proc)
=============================================================================
