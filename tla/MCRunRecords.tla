---------------------------- MODULE MCRunRecords ----------------------------
(***************************************************************************)
(* RunRecords on the instance of RunRecords.cfg.                           *)
(***************************************************************************)
EXTENDS RunRecords

=============================================================================
