---------------------------- MODULE MCLifecycle ----------------------------
(* Small instances of Lifecycle for TLC. *)
EXTENDS Lifecycle

Runs == {"vm", "gateway", "site", "ledger", "firewall", "secret", "theirs"}

KindOfRun ==
  [vm |-> "instance", gateway |-> "nat", site |-> "bucket", ledger |-> "table",
   firewall |-> "group", secret |-> "cmk", theirs |-> "table"]

\* A security group cannot be deleted while an instance has it.
HoldersOfRun == [r \in Runs |-> IF r = "firewall" THEN {"vm"} ELSE {}]

\* The ranks of TYPE_DESTROY_ORDER; NAT gateways have none, and come last.
RankOfKind ==
  [group |-> 86, instance |-> 87, bucket |-> 90, table |-> 100, cmk |-> 150,
   nat |-> 999]

Nothing == [i \in Nr |-> None]

Empty ==
  [alive |-> {}, shown |-> {}, blocked |-> {}, records |-> {}, key |-> 0,
   address |-> Nothing, keyOf |-> [i \in Nr |-> 0], iam |-> [r \in Runs |-> {}]]

At(run, nr) == [run |-> run, nr |-> nr]

With(r) == {At(x, 1) : x \in r}

\* An instance with its key, its profile and its security group.
Servers ==
  LET here == With({"vm", "firewall"})
  IN  [Empty EXCEPT
        !.alive = here, !.shown = here, !.records = here,
        !.key = 1,
        !.keyOf = [i \in Nr |-> IF i = 1 THEN 1 ELSE 0],
        !.iam = [r \in Runs |-> IF r = "vm" THEN Piece ELSE {}]]

\* A bucket with something in it.
Website ==
  [Empty EXCEPT !.alive = With({"site"}), !.shown = With({"site"}),
                !.records = With({"site"}), !.blocked = With({"site"})]

\* A protected table and a KMS key, a table in another account, of which there
\* is a record, and two addresses left over from attempts to make a gateway.
Leftovers ==
  LET here == With({"ledger", "secret"})
  IN  [Empty EXCEPT
        !.alive = here \cup With({"theirs"}), !.shown = here,
        !.records = here \cup With({"theirs"}),
        !.blocked = With({"ledger"}),
        !.address = [i \in Nr |-> IF i \in {1, 2} THEN [run |-> "gateway", by |-> None]
                                                  ELSE None]]

Asked(op, runs) == [op : {op}, run : runs]

\* A terminal and the MCP server of one operator; between them they are asked
\* for everything that the code treats in a way of its own.
Everything ==
  [cli |-> Asked("apply", {"vm", "gateway", "site"})
             \cup Asked("destroy", {"vm", "site", "secret", "theirs"})
             \cup Asked("sweep", {None}),
   mcp |-> Asked("apply", {"site"})
             \cup Asked("tool", {"site", "ledger", "secret"})]

AnyAccount == {Empty, Servers, Website, Leftovers}
OnlyEmpty == {Empty}
OnlyServers == {Servers}
OnlyWebsite == {Website}

Buckets == [cli |-> [op : {"apply", "destroy"}, run : {"site"}], mcp |-> {}]
Launches == [cli |-> Asked("apply", {"vm"}), mcp |-> {}]
Sweeps == [cli |-> Asked("sweep", {None}), mcp |-> {}]
=============================================================================
