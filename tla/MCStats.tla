------------------------------ MODULE MCStats ------------------------------
(* Two connections, so that one can join while the other leaves, or come to  *)
(* a collector that has been idle.                                           *)
EXTENDS StatsCollector

CONSTANTS h1, h2

MCHub == {h1, h2}
=============================================================================
