----------------------------- MODULE ConsoleMC -----------------------------
(* The console for TLC: every screen, query and mutation, few versions. *)
EXTENDS Console
=============================================================================
