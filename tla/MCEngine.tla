------------------------------ MODULE MCEngine ------------------------------
(***************************************************************************)
(* Model checking of Engine: two workers, runs limited by a count, by a  *)
(* deadline and by both, with and without ramp-up.  A run that only has a  *)
(* duration may begin any number of requests; MaxBegun stops counting it.  *)
(***************************************************************************)
EXTENDS Engine

CONSTANT MaxBegun

MCConfigs == {c \in [requests : {0, 1, 6}, duration : 0..1, rampUp : 0..1] :
                 c.requests > 0 \/ c.duration > 0}

\* At the bound a worker of a run without a count stays at the head of its
\* loop, where only the context can end it.
Bounded ==
    cfg.requests = 0 =>
        begun' + Cardinality({w \in Workers : wpc'[w] \in {"pace", "ticket"}}) <= MaxBegun

BoundedWorker(w) == Worker(w) /\ Bounded

MCNext == MainStep \/ CloseResults \/ CancelRun \/ Deadline \/ \E w \in Workers : BoundedWorker(w)

MCSpec ==
    /\ Init /\ [][MCNext]_vars
    /\ WF_vars(MainStep) /\ WF_vars(CloseResults) /\ WF_vars(Deadline)
    /\ \A w \in Workers : WF_vars(BoundedWorker(w))
=============================================================================
