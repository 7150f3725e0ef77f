---------------------------- MODULE MCTaskPanel ----------------------------
(* The task panel: one tab, two requests at the same time. *)
EXTENDS TaskPanel
=============================================================================
