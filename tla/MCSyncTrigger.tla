--------------------------- MODULE MCSyncTrigger ---------------------------
(***************************************************************************)
(* SyncTrigger with two requests that share a key, one without a key and   *)
(* the worker.                                                             *)
(***************************************************************************)
EXTENDS SyncTrigger, TLC

CONSTANTS q1, q2, p, w

MCCallers == {q1, q2, p, w}
MCKeyed   == {q1, q2}

\* No credentials at all, and HubSpot's, which register two units.
MCDeployments == {{}, {"hubspot"}}

\* Everything, a single unit, and a filter that matches nothing.
MCFilter ==
  LET Body(provider, entityType) == [provider |-> provider, entityType |-> entityType]
  IN  q1 :> Body(Every, Every) @@ q2 :> Body("hubspot", "deal") @@ p :> Body(Every, "payment")
        @@ w :> Body(Every, Every)

=============================================================================
