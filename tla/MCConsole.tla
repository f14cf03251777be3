----------------------------- MODULE MCConsole -----------------------------
(* Instance of Console for TLC: a Go source and a .proto one. *)
EXTENDS Console
MCFiles == {"go", "proto"}
MCNothing == {}
============================================================================
