----------------------------- MODULE MCCapture -----------------------------
(* Instance of Capture for TLC: two final statuses, 103 Early Hints, and   *)
(* chunks shorter and longer than what is left of maxBody.                 *)
EXTENDS Capture
MCFinalStatuses == {200, 404}
MCInformational == {103}
MCChunks == {<<"x">>, <<"y">>, <<"x", "y", "y">>}
============================================================================
