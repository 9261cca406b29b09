---------------------------- MODULE MCHubSpotSync ----------------------------
(***************************************************************************)
(* HubSpotSync on the instances of HubSpotSync.cfg, HubSpotSync_lost.cfg.  *)
(***************************************************************************)
EXTENDS HubSpotSync

=============================================================================
