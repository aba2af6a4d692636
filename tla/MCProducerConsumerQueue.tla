----------------------- MODULE MCProducerConsumerQueue ----------------------
(* Four operations and three worker threads: two consumers are the fewest  *)
(* for which a wake-up can go to the wrong one, three values the fewest    *)
(* for which a push can find one sleeper, one woken thread and one value.  *)
EXTENDS ProducerConsumerQueue
=============================================================================
