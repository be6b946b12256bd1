----------------------------- MODULE MCDashboard ----------------------------
(* Model checking of Dashboard: one run with two workers, two clients, and *)
(* channels that the four broadcasts of the run can fill.                  *)
EXTENDS Dashboard
=============================================================================
