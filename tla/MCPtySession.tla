--------------------------- MODULE MCPtySession ---------------------------
(* Two connections of one user to one terminal, for example a page that      *)
(* reconnects before the server has noticed that the old socket is dead.     *)
EXTENDS PtySession

CONSTANTS h1, h2

MCHub == {h1, h2}
=============================================================================
