------------------------------ MODULE MCPacer -------------------------------
(* Model checking of Pacer: three workers, an interval of two clock units, *)
(* time for every worker to be served several times and to fall idle.      *)
EXTENDS Pacer
=============================================================================
