--------------------------- MODULE ShardMigration ---------------------------
(***************************************************************************)
(* The whole of it for one train run: writers, migrations between control  *)
(* schemas, migrations to and from physical shards, and the audits.        *)
(***************************************************************************)
EXTENDS PhysicalMigration, ShardAudit

Init == \E home \in Homes : StoresInit(home)

Next == WriterNext \/ PhysicalNext \/ LogicalNext

Spec == Init /\ [][Next]_vars

-----------------------------------------------------------------------------

\* The types of the state the two kinds of migration share.
TypeOK ==
    /\ assignment.shard \in Shards
    /\ assignment.gen \in Nat \ {0}
    /\ assignment.state \in {"stable", "draining", "migrating", "rollback_window"}
    /\ assignment.logical = 0 \/ assignment.physical = 0
    /\ assignment.logical \in {0} \cup LogicalIds
    /\ assignment.physical \in {0} \cup Ids
    /\ \A s \in Shards :
         /\ store[s].rows \in [AllTables -> Versions]
         /\ store[s].state \in {"none", Plain, "standby", "active", "quiescing",
                                "retained", "disabled"}
         /\ s \in PhysicalShards => (store[s].on => store[s].state = "active")
    /\ \A r \in known : r.shard \in Shards /\ r.gen \in 1..assignment.gen
    /\ \A id \in Ids : pm[id].state \in PhysicalStates
    /\ \A id \in LogicalIds : lm[id].state \in LogicalStates

\* The stores that accept writes now, and the rows of the run: those of the
\* store that does, the last committed ones while none does.
Accepting == {s \in Shards : store[s].on}
CurrentRows ==
    IF Accepting = {} THEN latest ELSE store[CHOOSE s \in Accepting : TRUE].rows

Promise == INSTANCE RunOwnership WITH
    Stores <- Shards, RowSets <- Tables, LogRow <- Outbox,
    owners <- Accepting, rows <- CurrentRows

\* Fences, copies, journals, rollbacks and cleanups together implement single
\* ownership of the run: no two stores accept writes, and a store that starts
\* to accept them holds every write committed before.
KeepsOwnership == Promise!Ownership

\* Is a write with this route let in by the store it names?
Admitted(r) ==
    IF r.shard \in ControlShards THEN RoutedVerdict(r) = "ok" ELSE FenceAdmits(r.shard, r.gen)

\* However old the route a writer kept, it is let in only if the assignment
\* still says the same: neither a cached route, nor a command planned before a
\* cutover or a rollback, reaches a store the run has left.
OnlyAssignedRouteAdmitted ==
    /\ TypeOK
    /\ \A r \in known : Admitted(r) => r = Route

=============================================================================
