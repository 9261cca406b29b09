----------------------------- MODULE MCSyncLock -----------------------------
(***************************************************************************)
(* SyncLock on the instance of SyncLock.cfg.                               *)
(***************************************************************************)
EXTENDS SyncLock

=============================================================================
