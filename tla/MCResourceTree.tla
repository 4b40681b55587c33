--------------------------- MODULE MCResourceTree ---------------------------
(***************************************************************************)
(* ResourceTree on one branch of each kind of process: a Worker, a Router, *)
(* a transport that does not observe its native object (WebRtc, Pipe) and  *)
(* on it a producer and its consumer.                                      *)
(***************************************************************************)
EXTENDS ResourceTree

CONSTANTS worker, router, transport, producer, consumer

FullNode     == {worker, router, transport, producer, consumer}
FullParent   == [n \in FullNode \ {worker} |->
                   IF n = router THEN worker ELSE IF n = transport THEN router ELSE transport]
FullObserved == FullNode \ {transport}

OneSource == [n \in {consumer} |-> producer]
=============================================================================
