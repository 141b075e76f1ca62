----------------------------- MODULE MCWSClient -----------------------------
(* Four sockets: a first connection and three attempts to get it back.       *)
EXTENDS WSClient
=============================================================================
