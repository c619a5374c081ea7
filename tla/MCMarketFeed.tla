---------------------------- MODULE MCMarketFeed ---------------------------
(* MarketFeed for the model checker: a bar every second watchdog poll, the  *)
(* configured window shorter than that.                                     *)
EXTENDS MarketFeed
=============================================================================
