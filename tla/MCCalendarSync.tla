--------------------------- MODULE MCCalendarSync ---------------------------
(***************************************************************************)
(* CalendarSync on the instance of CalendarSync.cfg.                       *)
(***************************************************************************)
EXTENDS CalendarSync

=============================================================================
