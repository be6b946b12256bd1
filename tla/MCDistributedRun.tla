-------------------------- MODULE MCDistributedRun --------------------------
(* Model checking of DistributedRun: two workers with room for a second    *)
(* attempt beside a first that is still winding down.                      *)
EXTENDS DistributedRun
=============================================================================
