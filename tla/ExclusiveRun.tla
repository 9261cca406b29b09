---------------------------- MODULE ExclusiveRun ----------------------------
(***************************************************************************)
(* What SyncLockPort (domain/ports/sync-lock.port.ts) promises the engine: *)
(* of the runs of one (provider, entityType) at most one is running.  A    *)
(* run may end because it released the lock or because its process died.   *)
(***************************************************************************)
CONSTANT Runs

VARIABLE running   \* the runs between acquiring the lock and ending

Init == running = {}

Enter(r) == running = {} /\ running' = {r}

Leave(r) == r \in running /\ running' = running \ {r}

Next == \E r \in Runs : Enter(r) \/ Leave(r)

Spec == Init /\ [][Next]_running

=============================================================================
