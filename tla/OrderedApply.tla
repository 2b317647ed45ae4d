---------------------------- MODULE OrderedApply ----------------------------
(***************************************************************************)
(* What applying a plan promises, whatever the graph and its drivers do:    *)
(* once the operator has sanctioned the plan, its parts are created in      *)
(* dependency order, each only when all the parts before it exist.          *)
(***************************************************************************)
EXTENDS Integers

CONSTANT Parts  \* the resources to create, as their places in dependency order

VARIABLES
  sanctioned,  \* the operator stands behind the plan
  attempted,   \* parts whose creation has been requested
  existing     \* parts that exist

vars == <<sanctioned, attempted, existing>>

Init == sanctioned = FALSE /\ attempted = {} /\ existing = {}

Sanction ==
  /\ sanctioned' = TRUE
  /\ UNCHANGED <<attempted, existing>>

\* A part may come into being at once, later, or never.
Attempt(p) ==
  /\ sanctioned
  /\ p \notin attempted
  /\ \A q \in Parts : q < p => q \in existing
  /\ attempted' = attempted \cup {p}
  /\ existing' \in {existing, existing \cup {p}}
  /\ UNCHANGED sanctioned

Appear(p) ==
  /\ p \in attempted
  /\ existing' = existing \cup {p}
  /\ UNCHANGED <<sanctioned, attempted>>

Next == Sanction \/ \E p \in Parts : Attempt(p) \/ Appear(p)

Spec == Init /\ [][Next]_vars
=============================================================================
