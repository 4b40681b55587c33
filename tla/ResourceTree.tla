---------------------------- MODULE ResourceTree ----------------------------
(***************************************************************************)
(* The tree of GenServers a Worker owns -- Routers, transports, producers  *)
(* and consumers -- and the native mediasoup objects behind them.          *)
(*                                                                         *)
(* Every process holds one disposable reference to its native object; all  *)
(* but the leaves own a DynamicSupervisor with the processes of the        *)
(* objects created from theirs.  The module is about how the tree grows    *)
(* through results that arrive late, and how it goes away: close calls,    *)
(* native close events, the death of the worker thread, faults of a        *)
(* callback, exit signals.                                                 *)
(*                                                                         *)
(* A native object lives as long as something holds it: its reference, an  *)
(* unread create result, a create task that works on it, the objects       *)
(* created from it.  A consumer also closes with the producer it consumes. *)
(***************************************************************************)
EXTENDS Naturals

CONSTANTS
  Node,       \* every process the tree may come to have
  Root,       \* the Worker
  Parent,     \* whose supervisor a process runs under
  Source,     \* the producer a consumer consumes
  Observed,   \* nodes whose init registers the native on_close event
  Faulty,     \* nodes with a callback that may raise: the Router (create_webrtc_transport)
  Killable    \* nodes an exit signal from outside the tree may hit

Kids(n) == {m \in Node \ {Root} : Parent[m] = n}

\* Every process but the Worker runs under one that was started before it. Of any
\* processes there is one, therefore, that has no child among them.
ASSUME TreeAssumption ==
  /\ Root \in Node
  /\ Parent \in [Node \ {Root} -> Node]
  /\ \A S \in SUBSET Node : S # {} => \E n \in S : Kids(n) \cap S = {}
  /\ DOMAIN Source \subseteq Node \ {Root}
  /\ \A n \in DOMAIN Source : Source[n] \in Node
  /\ Observed \subseteq Node /\ Faulty \subseteq Node /\ Killable \subseteq Node

VARIABLES
  proc,       \* the GenServer; "stopping" while it is in terminate
  reason,     \* why it stops; terminate hands it on to the children
  todo,       \* in terminate: the children it has still to see end
  asked,      \* the processes their parent has sent a stop request to
  mail,       \* what waits in the mailbox and ends the process when it is read
  creating,   \* nodes whose create task runs, with a clone of the parent's object
  arrived,    \* nodes whose create result is in the parent's mailbox
  held,       \* nodes whose reference is Some and held by their process
  native,     \* the native mediasoup object
  crashed,    \* the worker thread has died
  count,      \* GLOBAL_WORKER_COUNT
  toldClose,  \* nodes whose listeners were sent {:on_close}
  toldDead,   \* nodes whose listeners were sent {:on_dead, _}
  hit,        \* nodes an exit signal from outside ended (history)
  killed      \* nodes any exit signal ended, terminate skipped or cut short (history)

life   == <<proc, reason, todo, asked, mail>>
growth == <<creating, arrived>>
object == <<held, native, crashed, count>>
told   == <<toldClose, toldDead, hit, killed>>
vars   == <<life, growth, object, told>>

Signal == {"on_close", "on_dead", "stop", "shutdown"}

TypeOK ==
  /\ proc   \in [Node -> {"absent", "running", "stopping", "dead"}]
  /\ reason \in [Node -> {"normal", "shutdown"}]
  /\ todo   \in [Node -> SUBSET Node]
  /\ asked \subseteq Node
  /\ mail   \in [Node -> SUBSET Signal]
  /\ creating \subseteq Node /\ arrived \subseteq Node /\ held \subseteq Node
  /\ native \in [Node -> {"absent", "open", "closed"}]
  /\ crashed \in BOOLEAN
  /\ count \in 0..1
  /\ toldClose \subseteq Node /\ toldDead \subseteq Node
  /\ hit \subseteq Node /\ killed \subseteq Node

Init ==
  /\ proc   = [n \in Node |-> "absent"]
  /\ reason = [n \in Node |-> "normal"]
  /\ todo   = [n \in Node |-> {}]
  /\ asked = {} /\ mail = [n \in Node |-> {}]
  /\ creating = {} /\ arrived = {} /\ held = {}
  /\ native = [n \in Node |-> "absent"]
  /\ crashed = FALSE
  /\ count = 0
  /\ toldClose = {} /\ toldDead = {} /\ hit = {} /\ killed = {}

Alive(n) == proc[n] \in {"running", "stopping"}
Gone(n)  == proc[n] \in {"absent", "dead"}

-----------------------------------------------------------------------------
(* Growing. *)

\* Worker.start_link: init creates the native worker, whose task counts it,
\* registers on_close and on_dead and starts the supervisor.
StartWorker ==
  /\ proc[Root] = "absent"
  /\ proc'   = [proc EXCEPT ![Root] = "running"]
  /\ native' = [native EXCEPT ![Root] = "open"]
  /\ held'   = held \cup {Root}
  /\ count'  = count + 1
  /\ UNCHANGED <<reason, todo, asked, mail, growth, crashed, told>>

\* A create call is dispatched: get_resource clones the parent's object into the task.
Create(n) ==
  /\ n \in Node \ {Root}
  /\ native[n] = "absent" /\ n \notin creating
  /\ proc[Parent[n]] = "running"
  /\ Parent[n] \in held
  /\ creating' = creating \cup {n}
  /\ UNCHANGED <<life, arrived, object, told>>

\* The task ends. It may fail, and does once the worker thread is dead or the
\* producer to consume is not open. The result goes to the parent process; when
\* that is dead the message is freed, and nothing holds the new object.
CreateDone(n) ==
  /\ n \in creating
  /\ creating' = creating \ {n}
  /\ \/ UNCHANGED <<native, arrived>>
     \/ /\ ~crashed
        /\ n \in DOMAIN Source => native[Source[n]] = "open"
        /\ native'  = [native EXCEPT ![n] = "open"]
        /\ arrived' = IF Alive(Parent[n]) THEN arrived \cup {n} ELSE arrived
  /\ UNCHANGED <<life, held, crashed, count, told>>

\* Mutant: on_close of a closed object does not fire when it is registered.
StartChildDeaf(n) ==
  /\ n \in arrived
  /\ proc[Parent[n]] = "running"
  /\ proc'    = [proc EXCEPT ![n] = "running"]
  /\ arrived' = arrived \ {n}
  /\ held'    = held \cup {n}
  /\ UNCHANGED <<reason, todo, asked, mail, creating, native, crashed, count, told>>

\* handle_create_result: the parent starts the child, whose init registers its
\* events; on_close of an object that is closed by now fires at once.
StartChild(n) ==
  /\ n \in arrived
  /\ proc[Parent[n]] = "running"
  /\ proc'    = [proc EXCEPT ![n] = "running"]
  /\ arrived' = arrived \ {n}
  /\ held'    = held \cup {n}
  /\ mail'    = [mail EXCEPT ![n] = IF n \in Observed /\ native[n] = "closed"
                                    THEN {"on_close"} ELSE {}]
  /\ UNCHANGED <<reason, todo, asked, creating, native, crashed, count, told>>

-----------------------------------------------------------------------------
(* Stopping. *)

\* Worker.close, Router.close ...: GenServer.stop from any process.
Close(n) ==
  /\ proc[n] = "running"
  /\ mail' = [mail EXCEPT ![n] = @ \cup {"stop"}]
  /\ UNCHANGED <<proc, reason, todo, asked, growth, object, told>>

\* terminate begins: the listeners are told, which_children lists the children.
\* Nothing else in the mailbox is read any more.
BeginTerminate(n, why) ==
  /\ proc[n] = "running"
  /\ proc'   = [proc EXCEPT ![n] = "stopping"]
  /\ reason' = [reason EXCEPT ![n] = why]
  /\ todo'   = [todo EXCEPT ![n] = {m \in Kids(n) : Alive(m)}]
  /\ mail'   = [mail EXCEPT ![n] = {}]
  /\ toldClose' = toldClose \cup {n}

\* A message that ends the process is read: {:stop, :normal, _} on the native
\* on_close, {:stop, :shutdown, _} on on_dead, the system message of GenServer.stop.
TakeStop(n) ==
  /\ \E s \in mail[n] :
       /\ BeginTerminate(n, IF s \in {"on_dead", "shutdown"} THEN "shutdown" ELSE "normal")
       /\ toldDead' = IF s = "on_dead" THEN toldDead \cup {n} ELSE toldDead
  /\ UNCHANGED <<asked, growth, object, hit, killed>>

\* A callback raises; GenServer runs terminate with the exception as the reason.
Fault(n) ==
  /\ n \in Faulty
  /\ BeginTerminate(n, "shutdown")
  /\ UNCHANGED <<asked, growth, object, toldDead, hit, killed>>

\* Mutant: the objects of unread results are not freed with the mailbox.
FreedLeaking(n) ==
  /\ proc'    = [proc EXCEPT ![n] = "dead"]
  /\ todo'    = [todo EXCEPT ![n] = {}]
  /\ mail'    = [mail EXCEPT ![n] = {}]
  /\ held'    = held \ {n}
  /\ UNCHANGED arrived

\* An exit signal ends n: its heap is freed, with the reference in it and the
\* results and messages in its mailbox.
Freed(n) ==
  /\ proc'    = [proc EXCEPT ![n] = "dead"]
  /\ todo'    = [todo EXCEPT ![n] = {}]
  /\ mail'    = [mail EXCEPT ![n] = {}]
  /\ held'    = held \ {n}
  /\ arrived' = arrived \ Kids(n)

\* Mutant: children are ended with exit signals, as if by Process.exit.
AskChildByExit(n, m) ==
  /\ proc[n] = "stopping"
  /\ m \in todo[n] /\ Alive(m) /\ m \notin asked
  /\ Freed(m)
  /\ killed' = killed \cup {m}
  /\ UNCHANGED <<reason, asked, creating, native, crashed, count,
                 toldClose, toldDead, hit>>

\* supervisor_clean_stop asks one listed child after the other to stop, for the
\* parent's own reason, and waits for each (GenServer.stop).
AskChild(n, m) ==
  /\ proc[n] = "stopping"
  /\ m \in todo[n] /\ Alive(m)
  /\ todo[n] \cap asked = {}
  /\ asked' = asked \cup {m}
  /\ mail'  = [mail EXCEPT ![m] = IF proc[m] = "stopping" THEN @
                 ELSE @ \cup {IF reason[n] = "shutdown" THEN "shutdown" ELSE "stop"}]
  /\ UNCHANGED <<proc, reason, todo, growth, object, told>>

\* Mutant: a child that ends before it is asked is not forgiven; the exit of
\* GenServer.stop ends terminate.
ChildEndedUncaught(n, m) ==
  /\ proc[n] = "stopping"
  /\ m \in todo[n] /\ Gone(m)
  /\ todo' = [todo EXCEPT ![n] = IF m \in asked THEN @ \ {m} ELSE {}]
  /\ UNCHANGED <<proc, reason, asked, mail, growth, object, told>>

\* The child has ended, whether by the request or before it (the exit that
\* GenServer.stop makes then is caught).
ChildEnded(n, m) ==
  /\ proc[n] = "stopping"
  /\ m \in todo[n] /\ Gone(m)
  /\ todo' = [todo EXCEPT ![n] = @ \ {m}]
  /\ UNCHANGED <<proc, reason, asked, mail, growth, object, told>>

\* terminate ends: the supervisor is stopped and Nif.*_close disposes the
\* reference. For a reason other than :normal the exit of the linked supervisor
\* may end the process before that; then its heap is freed, to the same effect.
EndTerminate(n) ==
  /\ proc[n] = "stopping"
  /\ todo[n] = {}
  /\ Freed(n)
  /\ UNCHANGED <<reason, asked, creating, native, crashed, count, told>>

\* An exit signal from outside: nothing traps exits, terminate does not run.
Kill(n) ==
  /\ n \in Killable
  /\ Alive(n)
  /\ Freed(n)
  /\ hit' = hit \cup {n} /\ killed' = killed \cup {n}
  /\ UNCHANGED <<reason, asked, creating, native, crashed, count,
                 toldClose, toldDead>>

\* Mutant: a supervisor that is not linked to its process.
SupervisorKillNever(m) == FALSE

\* The supervisor of a process that is gone follows it through the link and
\* ends the children it still has by an exit signal.
SupervisorKill(m) ==
  /\ m # Root
  /\ proc[Parent[m]] = "dead"
  /\ Alive(m)
  /\ Freed(m)
  /\ killed' = killed \cup {m}
  /\ UNCHANGED <<reason, asked, creating, native, crashed, count,
                 toldClose, toldDead, hit>>

-----------------------------------------------------------------------------
(* The native side. *)

\* Mutant: the Worker registers on_dead only.
OnCloseNotOfWorker(n) ==
  mail' = [mail EXCEPT ![n] = IF n \in Observed \ {Root} /\ proc[n] = "running"
                              THEN @ \cup {"on_close"} ELSE @]

\* on_close fires; it is a message to the process that registered it.
OnClose(n) ==
  mail' = [mail EXCEPT ![n] = IF n \in Observed /\ proc[n] = "running"
                              THEN @ \cup {"on_close"} ELSE @]

\* What keeps the object of n alive.
InUse(n) ==
  \/ n \in held \cup arrived
  \/ \E m \in Kids(n) : m \in creating \cup held \cup arrived \/ native[m] = "open"

\* Nothing holds the object any more: it closes. The worker's on_close also
\* counts it down.
NativeDrop(n) ==
  /\ native[n] = "open"
  /\ ~InUse(n)
  /\ native' = [native EXCEPT ![n] = "closed"]
  /\ count'  = IF n = Root THEN count - 1 ELSE count
  /\ OnClose(n)
  /\ UNCHANGED <<proc, reason, todo, asked, growth, held, crashed, told>>

\* A consumer closes with its producer.
SourceClosed(n) ==
  /\ n \in DOMAIN Source
  /\ native[n] = "open" /\ native[Source[n]] = "closed"
  /\ native' = [native EXCEPT ![n] = "closed"]
  /\ OnClose(n)
  /\ UNCHANGED <<proc, reason, todo, asked, growth, held, crashed, count, told>>

\* Mutant: a dead worker is counted down, and again when it closes.
WorkerCrashCounted ==
  /\ ~crashed
  /\ native[Root] = "open"
  /\ crashed' = TRUE
  /\ count' = count - 1
  /\ mail' = [mail EXCEPT ![Root] = IF proc[Root] = "running" THEN @ \cup {"on_dead"} ELSE @]
  /\ UNCHANGED <<proc, reason, todo, asked, growth, held, native, told>>

\* The worker thread dies under the open worker object; its on_dead callback
\* is a message to the Worker alone.
WorkerCrash ==
  /\ ~crashed
  /\ native[Root] = "open"
  /\ crashed' = TRUE
  /\ mail' = [mail EXCEPT ![Root] = IF proc[Root] = "running" THEN @ \cup {"on_dead"} ELSE @]
  /\ UNCHANGED <<proc, reason, todo, asked, growth, held, native, count, told>>

\* :debug_stop_worker disposes the Worker's reference under the live Worker.
DebugStop ==
  /\ proc[Root] = "running" /\ Root \in held
  /\ held' = held \ {Root}
  /\ UNCHANGED <<life, growth, native, crashed, count, told>>

-----------------------------------------------------------------------------
Terminating(n) ==
  \/ TakeStop(n) \/ EndTerminate(n)
  \/ \E m \in Node : AskChild(n, m) \/ ChildEnded(n, m)

Next ==
  \/ StartWorker \/ WorkerCrash \/ DebugStop
  \/ \E n \in Node :
       \/ Create(n) \/ CreateDone(n) \/ StartChild(n)
       \/ Close(n) \/ Fault(n) \/ Kill(n)
       \/ Terminating(n) \/ SupervisorKill(n)
       \/ NativeDrop(n) \/ SourceClosed(n)

\* Tasks end, processes read their mail and get on with terminate, supervisors
\* follow, native objects close when nothing holds them. Nobody is obliged to
\* create, close, kill or crash anything.
Fairness ==
  \A n \in Node :
    /\ WF_vars(CreateDone(n)) /\ WF_vars(StartChild(n))
    /\ WF_vars(Terminating(n)) /\ WF_vars(SupervisorKill(n))
    /\ WF_vars(NativeDrop(n)) /\ WF_vars(SourceClosed(n))

Spec == Init /\ [][Next]_vars /\ Fairness

-----------------------------------------------------------------------------
(* Properties. *)

\* A process whose terminate ran to its end leaves no child behind: the
\* children listed by supervisor_clean_stop are all there were, no create
\* result read later starts another, and each is waited for, one that had
\* ended on its own included.
ChildrenEndFirst ==
  \A n \in Node : proc[n] = "dead" /\ n \notin killed => \A m \in Kids(n) : Gone(m)

\* A process ends without having told its listeners {:on_close} only when an
\* exit signal from outside the tree hit it, or ended its parent: closing,
\* a dead worker thread, a fault or a native close tells every listener of
\* every process below.
SilentEndIsExternal ==
  \A n \in Node : proc[n] = "dead" /\ n \notin toldClose =>
    n \in hit \/ (n # Root /\ Parent[n] \in killed)

\* Whatever ends a process, with create tasks in flight or not: terminate comes
\* to its end, the children go, the native object is released, and
\* GLOBAL_WORKER_COUNT is back to zero after the Worker (the leak checks of
\* test/worker_test.exs). An end and a release are for good, so "for every end,
\* later a release" is said as "in the end, a release for every end".
EndReleases ==
  <>[] \A n \in Node : proc[n] \in {"stopping", "dead"} =>
      /\ proc[n] = "dead" /\ native[n] = "closed"
      /\ \A m \in Kids(n) : Gone(m) /\ m \notin creating /\ native[m] # "open"
      /\ n = Root => count = 0

\* A consumer process ends when the producer it consumes has closed, also when
\* that happens between its create task and its init.
ConsumerFollowsProducer ==
  \A n \in DOMAIN Source :
    (proc[n] = "running" /\ native[Source[n]] = "closed") ~> (proc[n] = "dead")

\* A Worker whose reference was disposed under it ends by itself once its last
\* Router is gone, and not before it is closed otherwise.
DisposedWorkerEnds ==
  (proc[Root] = "running" /\ Root \notin held
     /\ \A m \in Kids(Root) : Gone(m) /\ m \notin creating \cup arrived)
    ~> (proc[Root] = "dead")

\* Nothing of the library is left to move: no task runs, every running process has
\* read its mail, whoever is in terminate waits for a child it has asked, the
\* supervisors of the dead have followed, and what is open is in use.
AtRest ==
  /\ creating = {}
  /\ \A n \in Node :
       /\ proc[n] = "running" => mail[n] = {} /\ Kids(n) \cap arrived = {}
       /\ proc[n] = "stopping" => todo[n] \cap asked # {} /\ \A m \in todo[n] : Alive(m)
       /\ n # Root /\ Alive(n) => proc[Parent[n]] # "dead"
       /\ native[n] = "open" => InUse(n)
       /\ n \in DOMAIN Source /\ native[n] = "open" => native[Source[n]] # "closed"

\* A tree that has come to rest, whatever it went through, is a clean one: nobody
\* is stuck in terminate or outlives its parent, no object is left open without its
\* process and the worker count goes with the Worker, a Consumer has not missed the
\* end of its producer, and a Worker without its reference runs for a Router only.
RestIsRelease ==
  AtRest =>
    /\ \A n \in Node :
         /\ proc[n] # "stopping"
         /\ n # Root /\ Alive(n) => Alive(Parent[n])
         /\ native[n] = "open" => Alive(n)
         /\ n \in DOMAIN Source \cap Observed /\ Alive(n) => native[Source[n]] # "closed"
    /\ ~Alive(Root) => count = 0
    /\ Root \in Observed \ held /\ Alive(Root) => \E m \in Kids(Root) : Alive(m)

-----------------------------------------------------------------------------
(* The inductive invariant behind the safety properties. *)

\* GLOBAL_WORKER_COUNT counts the one worker object while it is open; no create
\* task makes another.
CountInv ==
  /\ Root \notin creating \cup arrived
  /\ count = IF native[Root] = "open" THEN 1 ELSE 0
  /\ proc[Root] = "absent" => native[Root] = "absent"

\* While a process is in terminate, its list of children still to end covers
\* all that live, and its listeners have been told.
StoppingInv ==
  \A n \in Node : proc[n] = "stopping" =>
    /\ n \in toldClose
    /\ \A m \in Kids(n) : Alive(m) => m \in todo[n]

\* How far a node has come: a task comes before its object, a result before its
\* process, and both after the start of the parent.
BirthInv ==
  \A n \in Node :
    /\ n \in creating => native[n] = "absent" /\ n \notin arrived
    /\ n \in arrived => proc[n] = "absent" /\ Alive(Parent[n])
    /\ proc[n] # "absent" \/ n \in arrived => native[n] # "absent"
    /\ n # Root /\ (n \in creating \/ native[n] # "absent") => proc[Parent[n]] # "absent"
    /\ n \in held => Alive(n)

\* What ends a process is not lost before it is read: the request of the parent,
\* and the close of the own object where that is observed.
MailInv ==
  \A n \in Node :
    /\ todo[n] \subseteq Kids(n)
    /\ n \in asked => proc[n] # "absent"
    /\ proc[n] = "running" /\ n \in asked => mail[n] # {}
    /\ proc[n] = "running" /\ n \in Observed /\ native[n] = "closed" => mail[n] # {}

IInv ==
  /\ TypeOK /\ CountInv
  /\ StoppingInv /\ ChildrenEndFirst /\ SilentEndIsExternal
  /\ BirthInv /\ MailInv
=============================================================================
