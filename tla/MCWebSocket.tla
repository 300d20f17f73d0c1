---------------------------- MODULE MCWebSocket -----------------------------
(***************************************************************************)
(* Instances of WebSocket.                                                 *)
(***************************************************************************)
EXTENDS WebSocket, TLC

=============================================================================
