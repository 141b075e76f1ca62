------------------------------ MODULE MCDesktop ------------------------------
(* Two channels, a reload, and connections that break.                       *)
EXTENDS Desktop
=============================================================================
