------------------------- MODULE MCEngineLifecycle -------------------------
(* EngineLifecycle for the model checker: two processes, launched again and *)
(* again; no critical task besides the bus, the strategies and the sweeper. *)
EXTENDS EngineLifecycle
CONSTANTS e1, e2, nobody

TwoEngines == {e1, e2}
NoOtherTask == {}
(* The second takes the lock, loses its session and dies like the first,    *)
(* and never gets past its load.  No action under fairness leads out of it. *)
SecondLoads == pc[e2] \in {"off", "loading"}
=============================================================================
