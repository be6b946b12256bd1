----------------------------- MODULE MCJobQueue -----------------------------
(* Model checking of the persistent master: one more submission than the   *)
(* queue accepts and more accepted jobs than slots.                        *)
EXTENDS JobQueue
=============================================================================
