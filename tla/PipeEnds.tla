-------------------------------- MODULE PipeEnds --------------------------------
(***************************************************************************)
(* What pipes promise about their two ends.  The pipe Consumer opens       *)
(* first, the pipe Producer after it, and only a pipe that has had both is *)
(* linked, once.  An end may close at any time, alone or with the same     *)
(* ends of other pipes, and none opens again.                              *)
(*                                                                         *)
(* PipeLink, where the link is two casts, a monitor on each side and the   *)
(* messages they make, implements this for its one pipe; PipeToRouter      *)
(* implements it for the pipes of all its callers, and builds on what      *)
(* PipeLink shows of a linked pipe: EndTogether.                           *)
(***************************************************************************)
CONSTANT Pipe

VARIABLES
  consumer,   \* the end of each pipe on the source's router
  producer,   \* the end of each pipe on the other router
  linked      \* the pipes whose ends were linked

ends == <<consumer, producer, linked>>

EndsInit ==
  /\ consumer = [p \in Pipe |-> "none"]
  /\ producer = [p \in Pipe |-> "none"]
  /\ linked = {}

OpenConsumer(p) ==
  /\ consumer[p] = "none" /\ producer[p] = "none" /\ p \notin linked
  /\ consumer' = [consumer EXCEPT ![p] = "open"]
  /\ UNCHANGED <<producer, linked>>

OpenProducer(p) ==
  /\ consumer[p] # "none" /\ producer[p] = "none" /\ p \notin linked
  /\ producer' = [producer EXCEPT ![p] = "open"]
  /\ UNCHANGED <<consumer, linked>>

LinkEnds(p) ==
  /\ consumer[p] # "none" /\ producer[p] # "none" /\ p \notin linked
  /\ linked' = linked \cup {p}
  /\ UNCHANGED <<consumer, producer>>

Closed(end, P) == [p \in Pipe |-> IF p \in P THEN "closed" ELSE end[p]]

\* The ends of some pipes on one side close.
CloseEnds ==
  \E P \in SUBSET Pipe :
    \/ /\ \A p \in P : consumer[p] = "open"
       /\ consumer' = Closed(consumer, P)
       /\ UNCHANGED <<producer, linked>>
    \/ /\ \A p \in P : producer[p] = "open"
       /\ producer' = Closed(producer, P)
       /\ UNCHANGED <<consumer, linked>>

EndsNext ==
  \/ \E p \in Pipe : OpenConsumer(p) \/ OpenProducer(p) \/ LinkEnds(p)
  \/ CloseEnds

Contract == EndsInit /\ [][EndsNext]_ends

\* Of a linked pipe neither end outlives the other.
EndTogether ==
  \A p \in Pipe :
    (p \in linked /\ "closed" \in {consumer[p], producer[p]})
      ~> (consumer[p] = "closed" /\ producer[p] = "closed")
=============================================================================
