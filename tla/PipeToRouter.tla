---------------------------- MODULE PipeToRouter ----------------------------
(***************************************************************************)
(* Concurrent calls of Router.pipe_producer_to_router from one router to   *)
(* another.  The body of the call runs in the calling process: it asks the *)
(* local Router for the PipeTransport pair it has for the remote one,      *)
(* creates, connects and stores a pair when there is none, and makes a     *)
(* pipe Consumer and a pipe Producer on the two transports.  Each of these *)
(* is a call of its own, and between any two of them other callers, the    *)
(* end of a router or of a transport may come.                             *)
(*                                                                         *)
(* Each is a NifWrap.call, which answers {:error, :terminated} for whatever *)
(* keeps it from an answer: a process that is gone, a lost node, and also   *)
(* five seconds in which a live process did not come to it (wrap.ex:54-66).  *)
(* What was asked for may then still be done.                              *)
(*                                                                         *)
(* A pair, and what is made of it, is named after the caller that made it. *)
(* The pipe of a Consumer and a Producer is here what PipeLink shows of    *)
(* it: linked, neither outlives the other.                                 *)
(***************************************************************************)
CONSTANTS
  Caller,      \* processes that pipe a producer, once each
  Ending       \* sides whose router may end on its own

Side == {"local", "remote"}

ASSUME PipingAssumption == "none" \notin Caller /\ Ending \subseteq Side

VARIABLES
  pc,         \* the call each caller is about to make
  result,     \* what pipe_producer_to_router returned
  router,     \* the two Router processes
  mapped,     \* mapped_pipe_transports of the local Router for the remote one
  put,        \* what became of the put of the pair each caller made
  using,      \* the pair a caller works with
  transport,  \* the two transports of each pair
  consumer,   \* the pipe Consumers, on the local side
  producer,   \* the pipe Producers, on the remote side
  linked,     \* callers whose pipe is linked
  after       \* the calls that had returned before this one began (history)

vars == <<pc, result, router, mapped, put, using, transport, consumer, producer, linked, after>>

Stage == {"idle", "get", "create_local", "create_remote", "connect_local", "connect_remote",
          "put", "consume", "produce", "link", "returned"}

TypeOK ==
  /\ pc \in [Caller -> Stage]
  /\ result \in [Caller -> {"none", "ok", "error"}]
  /\ router \in [Side -> {"running", "dead"}]
  /\ mapped \in Caller \cup {"none"}
  /\ put \in [Caller -> {"none", "answered", "pending", "late"}]
  /\ using \in [Caller -> Caller \cup {"none"}]
  /\ transport \in [Side -> [Caller -> {"none", "open", "connected", "closed"}]]
  /\ consumer \in [Caller -> {"none", "open", "closed"}]
  /\ producer \in [Caller -> {"none", "open", "closed"}]
  /\ linked \subseteq Caller
  /\ after \in [Caller -> SUBSET Caller]

Init ==
  /\ pc = [c \in Caller |-> "idle"]
  /\ result = [c \in Caller |-> "none"]
  /\ router = [s \in Side |-> "running"]
  /\ mapped = "none"
  /\ put = [c \in Caller |-> "none"]
  /\ using = [c \in Caller |-> "none"]
  /\ transport = [s \in Side |-> [c \in Caller |-> "none"]]
  /\ consumer = [c \in Caller |-> "none"]
  /\ producer = [c \in Caller |-> "none"]
  /\ linked = {}
  /\ after = [c \in Caller |-> {}]

Usable(s, p) == transport[s][p] \in {"open", "connected"}

Go(c, stage) == pc' = [pc EXCEPT ![c] = stage] /\ UNCHANGED result

\* The call returns; so it does from any step whose result does not match.
Return(c, r) ==
  /\ pc' = [pc EXCEPT ![c] = "returned"]
  /\ result' = [result EXCEPT ![c] = r]

-----------------------------------------------------------------------------
(* The steps of a caller. *)

Begin(c) ==
  /\ pc[c] = "idle"
  /\ Go(c, "get")
  /\ after' = [after EXCEPT ![c] = {d \in Caller : pc[d] = "returned"}]
  /\ UNCHANGED <<router, mapped, put, using, transport, consumer, producer, linked>>

\* Mutant: a get without an answer is taken for a router that has no pair.
GetPairOrMake(c) ==
  /\ pc[c] = "get"
  /\ \/ /\ Go(c, "create_local")
        /\ UNCHANGED using
     \/ /\ router["local"] = "running" /\ mapped # "none"
        /\ Go(c, "consume")
        /\ using' = [using EXCEPT ![c] = mapped]
  /\ UNCHANGED <<router, mapped, put, transport, consumer, producer, linked, after>>

\* {:get_pipe_transport_pair, id}. The {:error, :terminated} of a Router that is
\* gone, or too slow to answer, is not nil, so it is taken for the pair and wrapped
\* in {:ok, _}; do_pipe_producer_to_router returns {:ok, {:error, :terminated}} as
\* it is.
GetPair(c) ==
  /\ pc[c] = "get"
  /\ \/ /\ Return(c, "ok")
        /\ UNCHANGED using
     \/ /\ router["local"] = "running" /\ mapped = "none"
        /\ Go(c, "create_local")
        /\ UNCHANGED using
     \/ /\ router["local"] = "running" /\ mapped # "none"
        /\ Go(c, "consume")
        /\ using' = [using EXCEPT ![c] = mapped]
  /\ UNCHANGED <<router, mapped, put, transport, consumer, producer, linked, after>>

\* Router.create_pipe_transport on one side. When it fails the call returns the
\* error, and a transport made before stays; so does one that was made when the
\* caller had given up. Nobody knows of that one, so when it is made is no matter.
CreateTransport(c, s, stage, next) ==
  /\ pc[c] = stage
  /\ \/ /\ router[s] = "running"
        /\ transport' = [transport EXCEPT ![s][c] = "open"]
        /\ Go(c, next) \/ Return(c, "error")
     \/ /\ Return(c, "error")
        /\ UNCHANGED transport
  /\ UNCHANGED <<router, mapped, put, using, consumer, producer, linked, after>>

\* PipeTransport.connect on one side, after the tuples of both were read: a
\* transport that is gone has none, and the failed match is caught.
ConnectTransport(c, s, stage, next) ==
  /\ pc[c] = stage
  /\ \/ /\ Usable(s, c)
        /\ transport' = [transport EXCEPT ![s][c] = "connected"]
        /\ Go(c, next) \/ Return(c, "error")
     \/ /\ Return(c, "error")
        /\ UNCHANGED transport
  /\ UNCHANGED <<router, mapped, put, using, consumer, producer, linked, after>>

\* Mutant: the pair is stored before it is connected.
MakePairStoringFirst(c) ==
  \/ CreateTransport(c, "local", "create_local", "create_remote")
  \/ CreateTransport(c, "remote", "create_remote", "connect_local")
  \/ /\ pc[c] = "connect_local" /\ mapped = "none" /\ router["local"] = "running"
     /\ mapped' = c
     /\ UNCHANGED <<pc, result, router, put, using, transport, consumer, producer, linked, after>>
  \/ mapped # "none" /\ ConnectTransport(c, "local", "connect_local", "connect_remote")
  \/ ConnectTransport(c, "remote", "connect_remote", "put")

MakePair(c) ==
  \/ CreateTransport(c, "local", "create_local", "create_remote")
  \/ CreateTransport(c, "remote", "create_remote", "connect_local")
  \/ ConnectTransport(c, "local", "connect_local", "connect_remote")
  \/ ConnectTransport(c, "remote", "connect_remote", "put")

\* Mutant: the pair is stored under the local router's own id.
PutPairElsewhere(c) ==
  /\ pc[c] = "put"
  /\ put' = [put EXCEPT ![c] = "answered"]
  /\ using' = [using EXCEPT ![c] = c]
  /\ Go(c, "consume")
  /\ UNCHANGED <<router, mapped, transport, consumer, producer, linked, after>>

\* {:put_pipe_transport_pair, id, pair}: the last to store wins. Nobody looks at
\* the answer, so a caller that got none in time goes on with its pair.
PutPair(c) ==
  /\ pc[c] = "put"
  /\ \/ /\ router["local"] = "running"
        /\ mapped' = c
        /\ put' = [put EXCEPT ![c] = "answered"]
     \/ /\ put' = [put EXCEPT ![c] = "pending"]
        /\ UNCHANGED mapped
  /\ using' = [using EXCEPT ![c] = c]
  /\ Go(c, "consume")
  /\ UNCHANGED <<router, transport, consumer, producer, linked, after>>

\* A put whose caller has given up waiting comes to its turn, if it ever does: the
\* Router may end or the message be lost with a node, and only messages of one
\* sender keep their order.
LatePut(c) ==
  /\ put[c] = "pending" /\ router["local"] = "running"
  /\ mapped' = c
  /\ put' = [put EXCEPT ![c] = "late"]
  /\ UNCHANGED <<pc, result, router, using, transport, consumer, producer, linked, after>>

\* Transport.consume on the local transport of the pair; a Consumer made when the
\* caller had given up stays.
Consume(c) ==
  /\ pc[c] = "consume"
  /\ \/ /\ Usable("local", using[c])
        /\ consumer' = [consumer EXCEPT ![c] = "open"]
        /\ Go(c, "produce") \/ Return(c, "error")
     \/ /\ Return(c, "error")
        /\ UNCHANGED consumer
  /\ UNCHANGED <<router, mapped, put, using, transport, producer, linked, after>>

\* Mutant: the pipe is linked and returned whatever produce answers.
ProduceUnchecked(c) ==
  /\ pc[c] = "produce"
  /\ producer' = [producer EXCEPT ![c] = IF Usable("remote", using[c]) THEN "open" ELSE "none"]
  /\ Go(c, "link")
  /\ UNCHANGED <<router, mapped, put, using, transport, consumer, linked, after>>

\* Transport.produce on the remote one; when it fails the pipe Consumer stays.
Produce(c) ==
  /\ pc[c] = "produce"
  /\ \/ /\ Usable("remote", using[c])
        /\ producer' = [producer EXCEPT ![c] = "open"]
        /\ Go(c, "link") \/ Return(c, "error")
     \/ /\ Return(c, "error")
        /\ UNCHANGED producer
  /\ UNCHANGED <<router, mapped, put, using, transport, consumer, linked, after>>

\* Mutant: only a pipe whose sides both run still is linked.
LinkIfOpen(c) ==
  /\ pc[c] = "link"
  /\ linked' = IF consumer[c] = "open" /\ producer[c] = "open" THEN linked \cup {c} ELSE linked
  /\ Return(c, "ok")
  /\ UNCHANGED <<router, mapped, put, using, transport, consumer, producer, after>>

\* Consumer.link_pipe_producer, whatever became of the two sides.
Link(c) ==
  /\ pc[c] = "link"
  /\ linked' = linked \cup {c}
  /\ Return(c, "ok")
  /\ UNCHANGED <<router, mapped, put, using, transport, consumer, producer, after>>

-----------------------------------------------------------------------------
(* What goes away under the callers. *)

Shut(f, S) == [c \in Caller |-> IF c \in S /\ f[c] # "none" THEN "closed" ELSE f[c]]

\* The transports of the pairs P on one side end, and what runs on them.
TransportsEnd(s, P) ==
  LET users == {c \in Caller : using[c] \in P} IN
  /\ transport' = [transport EXCEPT ![s] = Shut(@, P)]
  /\ IF s = "local"
     THEN consumer' = Shut(consumer, users) /\ UNCHANGED producer
     ELSE producer' = Shut(producer, users) /\ UNCHANGED consumer
  /\ UNCHANGED <<pc, result, mapped, put, using, linked, after>>

TransportEnd(s, p) ==
  /\ Usable(s, p)
  /\ TransportsEnd(s, {p})
  /\ UNCHANGED router

RouterEnd(s) ==
  /\ s \in Ending
  /\ router[s] = "running"
  /\ router' = [router EXCEPT ![s] = "dead"]
  /\ TransportsEnd(s, Caller)

HalfEnded(c) ==
  /\ c \in linked
  /\ "closed" \in {consumer[c], producer[c]} /\ "open" \in {consumer[c], producer[c]}

\* One side of a linked pipe follows the other (PipeLink's PairEndsTogether).
PipeEnd(c) ==
  /\ HalfEnded(c)
  /\ consumer' = [consumer EXCEPT ![c] = "closed"]
  /\ producer' = [producer EXCEPT ![c] = "closed"]
  /\ UNCHANGED <<pc, result, router, mapped, put, using, transport, linked, after>>

CallerStep(c) ==
  \/ Begin(c) \/ GetPair(c) \/ MakePair(c) \/ PutPair(c) \/ Consume(c) \/ Produce(c) \/ Link(c)

Next ==
  \/ \E c \in Caller : CallerStep(c) \/ LatePut(c) \/ PipeEnd(c)
  \/ \E s \in Side : RouterEnd(s) \/ \E p \in Caller : TransportEnd(s, p)

Spec == Init /\ [][Next]_vars /\ \A c \in Caller : WF_vars(PipeEnd(c))

-----------------------------------------------------------------------------
(* Properties. *)

\* {:ok, _} stands for a pipe that was made: "{:ok, PipeToRouterResult.t()} |
\* {:error, String.t()}" (lib/router.ex:161).
OkCarriesPipe ==
  \A c \in Caller : result[c] = "ok" => consumer[c] # "none" /\ producer[c] # "none"

\* The ok that carries no pipe comes before anything was made: a caller told ok has
\* a pipe with both of its ends, or has left nothing behind on either router.
OkIsWholeOrHollow ==
  \A c \in Caller : result[c] = "ok" =>
    \/ using[c] # "none" /\ consumer[c] # "none" /\ producer[c] # "none" /\ c \in linked
    \/ /\ using[c] = "none" /\ consumer[c] = "none" /\ producer[c] = "none"
       /\ \A s \in Side : transport[s][c] = "none"

\* No caller works on a pair before both of its ends are connected, also not on
\* one that another caller made, while that one is still at it.
UsedPairIsConnected ==
  \A c \in Caller : pc[c] \in {"consume", "produce", "link"} =>
    \A s \in Side : transport[s][using[c]] \in {"connected", "closed"}

\* A call that begins after another has returned a pipe makes no pair of its own: two
\* calls in a row share one (test/integration/test_pipe_transport.ex:776). It makes
\* one only when the other met a Router that did not answer, its get, so that it has
\* no pipe, or its put.
CallsInARowShare ==
  \A c \in Caller : transport["local"][c] # "none" =>
    \A d \in after[c] : result[d] = "ok" => using[d] = "none" \/ put[d] \in {"pending", "late"}

\* A stored pair lost its place to the pair of a call that overlapped its own; to one
\* of a later call only when its own put came late, to one of an earlier call only when
\* that one's put did.
Overtaken(c) ==
  /\ mapped # "none"
  /\ c \in after[mapped] => put[c] = "late"
  /\ mapped \in after[c] => put[mapped] = "late"

\* A caller that made transports and has returned has its pair stored, or failed
\* before it was stored, or was not answered and its put is still on its way, or has
\* been overtaken. Nobody closes a pair of the last three kinds.
UnstoredPairIsExplained ==
  \A c \in Caller : pc[c] = "returned" /\ transport["local"][c] # "none" =>
    \/ mapped = c
    \/ using[c] = "none" /\ result[c] = "error"
    \/ put[c] = "pending"
    \/ Overtaken(c)

\* The stored pair has lost a transport, no call is past asking for it, and no put is
\* still on its way.
Broken ==
  /\ mapped # "none" /\ \E s \in Side : transport[s][mapped] = "closed"
  /\ \A c \in Caller : pc[c] \in {"idle", "get", "returned"} /\ put[c] # "pending"

\* From then on no call returns a pipe again, though both routers run: the dead
\* pair is handed to each of them and never replaced. (The ok of a router that does
\* not answer carries none.)
DeadPairIsForGood ==
  \A c \in Caller :
    [](Broken /\ result[c] = "none" =>
         [](result[c] = "ok" => consumer[c] = "none" /\ producer[c] = "none"))

\* A pipe that was returned ends, on both sides, when either of its transports
\* does, also when that was before it was linked.
PipeEndsWithTransports ==
  \A c \in Caller : \A s \in Side : \A p \in Caller :
    (result[c] = "ok" /\ using[c] = p /\ transport[s][p] = "closed")
      ~> (consumer[c] = "closed" /\ producer[c] = "closed")

\* The pipes of all callers, however their calls fall between each other, open, are
\* linked and close as PipeLink's does (lib/router.ex:171-216).
Ends == INSTANCE PipeEnds WITH Pipe <- Caller
ImplementsPipes == Ends!Contract

-----------------------------------------------------------------------------
(* The inductive invariant behind the safety properties. *)

Making  == {"create_local", "create_remote", "connect_local", "connect_remote", "put"}
Working == {"consume", "produce", "link"}

\* A call has its result when it has returned, and only calls that have are
\* counted as earlier ones.
ReturnsInv ==
  \A c \in Caller :
    /\ (result[c] # "none") <=> (pc[c] = "returned")
    /\ \A d \in after[c] : pc[d] = "returned"
    /\ pc[c] = "idle" => after[c] = {}

Made(p) == \A s \in Side : transport[s][p] \in {"connected", "closed"}

\* Pairs that are stored or used were made to the end by their caller, which
\* will not touch them again.
PairsInv ==
  /\ mapped # "none" => Made(mapped) /\ pc[mapped] \in Working \cup {"returned"}
  /\ \A c \in Caller :
       /\ using[c] # "none" => Made(using[c]) /\ pc[using[c]] \in Working \cup {"returned"}
       /\ pc[c] \in Working => using[c] # "none"
       /\ pc[c] = "put" => Made(c)
       /\ pc[c] = "connect_remote" => transport["local"][c] \in {"connected", "closed"}

Handled == {"answered", "late"}

\* Callers that have begun to make a pair, and those whose pair a call before had
\* already stored.
Makes(c)  == pc[c] \in Making \/ transport["local"][c] # "none"
Shares(d) == using[d] # "none" /\ put[d] \notin {"pending", "late"}

\* Once a put is handled there is a pair, and a call makes one of its own only when
\* there was none: no call before it had worked on a pair that was stored in time.
SharingInv ==
  \A c \in Caller :
    /\ put[c] \in Handled => mapped # "none"
    /\ using[c] # "none" => mapped # "none" \/ put[c] = "pending"
    /\ pc[c] \in {"idle", "get"} => ~Makes(c)
    /\ Makes(c) => \A d \in after[c] : ~Shares(d)

\* A caller has put the pair it made, and no other, before it works on it; what is
\* stored is such a pair, and whom it replaced has been overtaken.
StoringInv ==
  /\ mapped # "none" => using[mapped] = mapped /\ put[mapped] \in Handled
  /\ \A c \in Caller :
       /\ pc[c] \in Making \cup {"idle", "get"} => using[c] = "none"
       /\ (using[c] = c) <=> (put[c] # "none")
       /\ Makes(c) /\ using[c] # "none" => using[c] = c
       /\ Makes(c) /\ result[c] = "ok" => using[c] # "none"
       /\ put[c] \in Handled /\ mapped # c => Overtaken(c)

\* What a call has made when it comes to make the next, and that it makes each once.
PipesInv ==
  \A c \in Caller :
    /\ pc[c] \in {"produce", "link"} => consumer[c] # "none"
    /\ pc[c] = "link" => producer[c] # "none"
    /\ pc[c] \in {"idle", "get", "consume"} \cup Making => consumer[c] = "none"
    /\ pc[c] \in {"idle", "get", "consume", "produce"} \cup Making => producer[c] = "none"
    /\ using[c] = "none" => consumer[c] = "none" /\ producer[c] = "none"
    /\ using[c] = "none" /\ result[c] = "ok" => \A s \in Side : transport[s][c] = "none"
    /\ transport["local"][c] = "none" =>
         transport["remote"][c] = "none" /\ pc[c] \notin Making \ {"create_local"}
    /\ c \in linked => pc[c] = "returned" /\ consumer[c] # "none" /\ producer[c] # "none"
    /\ result[c] = "ok" /\ using[c] # "none" => c \in linked

\* Nothing of a pipe is open on a transport that is closed.
OnTransportsInv ==
  \A c \in Caller : using[c] # "none" =>
    /\ transport["local"][using[c]] = "closed" => consumer[c] # "open"
    /\ transport["remote"][using[c]] = "closed" => producer[c] # "open"

\* A returned pipe that has lost a transport, and of which no end has still to follow
\* the other, has ended on both sides: the safety half of PipeEndsWithTransports.
EndedAtRest ==
  \A c \in Caller : \A s \in Side :
    result[c] = "ok" /\ using[c] # "none" /\ transport[s][using[c]] = "closed" /\ ~HalfEnded(c)
      => consumer[c] = "closed" /\ producer[c] = "closed"

IInv ==
  /\ TypeOK /\ ReturnsInv /\ PairsInv /\ SharingInv /\ StoringInv /\ PipesInv
  /\ OnTransportsInv /\ CallsInARowShare /\ EndedAtRest
=============================================================================
