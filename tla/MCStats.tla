------------------------------- MODULE MCStats ------------------------------
(***************************************************************************)
(* Model checking of Stats: buckets of 1, 1, 2 and 4 microseconds, two     *)
(* clock units each, and latencies below a microsecond, between bounds, on *)
(* a bound and beyond the last one; results of failed requests, of plain   *)
(* ones, and of streams with and without each of the other figures.        *)
(***************************************************************************)
EXTENDS Stats

MCBounds == <<2, 2, 4, 8>>
MCWindows == [w \in Workers |-> IF w = 1 THEN <<2, 4>> ELSE <<1, 3>>]

\* The clock of the master is two units ahead.
MCRunWindow == <<3, 9>>

Plain == [latency |-> 3, success |-> TRUE, code |-> 200, category |-> "none",
          ttft |-> 0, itl |-> << >>, tokens |-> 0, estimated |-> FALSE, rate |-> 0,
          aborted |-> FALSE, upstream |-> 0, input |-> 0, cache |-> "", provider |-> ""]

MCResults ==
    {[Plain EXCEPT !.latency = 1, !.success = FALSE, !.code = 0, !.category = "network"],
     Plain,
     [Plain EXCEPT !.latency = 4, !.upstream = 3, !.cache = "hit", !.provider = "p", !.tokens = 2],
     [Plain EXCEPT !.latency = 9, !.ttft = 2, !.itl = <<0, 5>>, !.tokens = 3, !.rate = 1,
                   !.provider = "q", !.cache = "miss", !.input = 1],
     [Plain EXCEPT !.latency = 7, !.ttft = 3, !.itl = <<1>>, !.tokens = 1, !.estimated = TRUE,
                   !.aborted = TRUE, !.upstream = 5],
     [Plain EXCEPT !.latency = 5, !.success = FALSE, !.code = 500, !.category = "http_status",
                   !.rate = 2]}
=============================================================================
