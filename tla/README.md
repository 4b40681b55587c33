# TLA+ models of mediasoup-elixir

mediasoup-elixir wraps the Rust crate mediasoup in Elixir processes. Every
mediasoup object (Worker, Router, transports, producers, consumers, WebRtcServer)
is hosted by a GenServer that holds one NIF reference to it. Asynchronous NIFs
run as tasks on a Rust executor and answer with messages. What is hard about the
library is what lies between these: processes, tasks, timers and native
callbacks that meet in any order, and trees of processes and objects that go
away together. The modules here model that. RTP, ICE, DTLS, SCTP and codecs are
in the crate and are not modelled.

Paths below are relative to the repository.

## 1. Inventory

| Component | Source | State | Operations | What makes it correct |
|---|---|---|---|---|
| NifWrap | `lib/wrap.ex` | none of its own; the requests on their way through a server | generated `handle_call` clauses for synchronous and asynchronous NIFs; `call` (GenServer.call, 5 s timer, every exit caught); `handle_create_result` | an answer tells the truth about the effect; nothing created is lost |
| Worker | `lib/worker.ex`, `worker.rs` | reference, DynamicSupervisor, listeners; `GLOBAL_WORKER_COUNT` | start, create_router, create_webrtc_server, update_settings, dump, event, close, debug_stop_worker; on_close, on_dead | ends with its native worker, leaves no router and no count behind |
| Router | `lib/router.ex`, `router.rs` | the same, and `mapped_pipe_transports` | create_*_transport, can_consume?, pipe_producer_to_router, pipe_data_producer_to_router, get/put of a transport pair, event, close | pairs are complete and shared; `{:ok, _}` stands for a pipe |
| WebRtcTransport, PlainTransport, PipeTransport | `lib/*_transport.ex`, `*_transport.rs` | the same | connect, produce, consume, their data forms, stats, event, close | children end with them and first |
| Producer, DataProducer | `lib/producer.ex`, `lib/data_producer.ex` | reference, listeners, `linked_consumer` | pause, resume, send, event, link_pipe_consumer, close | ends with its pipe; follows piped pauses |
| Consumer, DataConsumer | `lib/consumer.ex`, `lib/data_consumer.ex` | reference, listeners, `linked_producer` | pause, resume, layers, event, link_pipe_producer, close | ends with its producer and its pipe |
| WebRtcServer | `lib/webrtc_server.ex`, `webrtc_server.rs` | reference, which Routers and transports come to share | close, closed?, dump, to_ref | its end costs nobody what is in use, and frees the ports in the end |
| EventListener | `lib/utility.ex` 74-140 | map of listener to event types and monitor | add, remove, send | knows who is alive; tells each event once |
| Clean stop | `lib/utility.ex` 56-71 | none | stops each child, then the supervisor | nobody is left, nobody is skipped |
| Executor, result delivery | `lib.rs`, `task.rs`, `macros.rs` | at least two threads | spawn, send_msg_from_other_thread, send_async_nif_result | undelivered results are freed |
| Disposable references | `resource.rs` | `Some` object or `None` | get_resource, unwrap | a closed reference never yields an object |
| LoggerProxy | `lib/logger_proxy.ex`, `logger.rs` | pid and level of the proxy, the global logger and its level | start, restart, set_logger_proxy_process, init_env_logger, log a record | records go to the live proxy, at its level |
| Options | `lib/*_transport.ex`, `lib/transport_listen_info.ex`, `lib/webrtc_server.ex`, the `*OptionsStruct`s in Rust | none | from_map, normalize, try_to_option, to_option | deprecated forms mean the same; what is given arrives |
| Encoding | `json_serde.rs`, `term_box.rs`, `data_structure.rs`, `atoms.rs` | none | conversion of terms | round trips |

How they interact:

* A caller runs `NifWrap.call` in its own process: a request message, a monitor
  and a timer. The server's handler calls the NIF with `from`; the NIF spawns a
  task holding a clone of the native object; the task's result is a message to
  the server, which starts a child process if the result is an object, and
  replies.
* Native callbacks (`on_close`, `on_dead`, `on_pause` ...) are messages to the
  process that registered them at `init`, each sent by a task of its own.
* A server is linked to its DynamicSupervisor, its children are linked to that.
  Nobody traps exits. `terminate` tells the listeners, stops each child and the
  supervisor, and disposes the reference.
* A Router asks the process of a WebRtcServer for its reference from within its
  own callback, and hands it to the task that creates a transport.
* Native threads leave log records to a task each, which sends them to the one
  LoggerProxy that is alive.
* A pipe ties a Consumer and a Producer in two routers (of two nodes, as a rule)
  by two casts and two monitors. `pipe_producer_to_router` itself runs in the
  caller and is a row of separate calls.

What is hard: late results of calls given up on, results for servers that are
gone, ends that start in several places at once, events that overtake each
other, state read in one call and used in the next. The list with lines and
properties is under `hazards` in `PROJECT.json`.

## 2. Modules

| Module | Models | Proofs |
|---|---|---|
| `NifCall` | one server, its callers, tasks and children | `NifCallProofs` |
| `CreateContract` | what a create call promises; abstract, implemented by `NifCall` | in `NifCallProofs` |
| `ResourceTree`, `MCResourceTree` | the tree of processes and of native objects | `ResourceTreeProofs` |
| `PipeLink` | one pipe of Consumer and Producer | `PipeLinkProofs` |
| `PipeToRouter` | overlapping calls of pipe_producer_to_router | `PipeToRouterProofs` |
| `PipeEnds` | what a pipe promises about its two ends; abstract, implemented by `PipeLink` and `PipeToRouter` | in the proofs of those two |
| `PipeChanges` | what a pipe promises about changes of its source; abstract, implemented by `PipeLink` | in `PipeLinkProofs` |
| `EventListener`, `MCEventListener` | one server, its listeners and native events | `EventListenerProofs` |
| `LoggerProxy` | the native logger, its proxy and the records | `LoggerProxyProofs` |
| `CreateOptions`, `MCCreateOptions` | what the options of a create call become | `CreateOptionsProofs` |
| `WebRtcServer` | servers shared by the Routers of a Worker | `WebRtcServerProofs` |

Operators whose comment begins with "Mutant" are deliberately wrong variants of
the definition they stand in front of. No specification uses them. Each shows
that a property notices a plausible error, and `PROJECT.json` pairs them.

How the modules meet. `NifCall` is one process of the tree of `ResourceTree` seen
from its mailbox; `ResourceTree` keeps of a call only the create task and its
result. `EventListener` is the same process seen from its listeners. `PipeToRouter`
takes from `PipeLink` that a linked pipe ends as a whole, and both implement
`PipeEnds`, `PipeLink` for its one pipe and `PipeToRouter` for those of all callers.
`WebRtcServer` takes the end of a Router from `ResourceTree` as one step.

### NifCall

`request[c]` is the stage of a call in the server (queued, task, result,
starting, answered, dropped), `caller[c]` what its process sees, `reply[c]` what
GenServer.reply sent. A mailbox with several senders delivers in any order, so it
is kept as stages and not as a queue. The handlers are one action each:
`HandleQuery` for `def_handle_call_nif`; `Dispatch`, `IgnoreRefusal` and `Raise`
for the three outcomes of `def_handle_call_async_nif`; `ReplyRefusal` and `Crash`
for create_webrtc_transport, which has a handler of its own. `TaskDone` is the Rust
task. `StartChild` and `FinishCreate` are the two halves of
handle_create_result, between which the child already runs and may close the
object (the answer is then "hollow": `{:ok, struct}` with errors for fields).
`Expire` and `SeeDown` are the exits the catch in `call` turns into
`{:error, :terminated}`. The server ends by `Stop` (terminate runs), `Crash`,
`NativeOnClose` or `Kill` (it does not). A call is one of three kinds: a `Query`
is answered at once, a `Job` by a task, a `Creation` by a task and a child;
`Guarded` creations are those of create_webrtc_transport.

`CreateContract` has the calls' outcomes and the set of creations that took
effect, and nothing else. `NifCall` implements it under the mapping `Outcome`.

### ResourceTree

A process is absent, running, stopping (in `terminate`) or dead. `todo[n]` is what
which_children returned and has not yet been seen to end; `mail` holds what will
end a process when it is read. A native object is open while it is `InUse`: by
the reference of its process, an unread result, a create task, or an object made
from it. `Observed` says which processes register on_close: all but WebRtc and
pipe transports, whose `init` registers nothing. `Faulty` is the Router, whose
create_webrtc_transport can raise. Restart counts of a DynamicSupervisor play no
part because children are temporary. `Parent` may be any tree: `TreeAssumption`
asks that every set of nodes has one without a child in it, and no more.

### PipeLink

The caller's steps (consume, read `producer_paused?`, produce, two casts), the
two sides and their link state, and the way of a pause: `events` (tasks of the
Consumer's callback), `toProducer` (messages between the two processes, in
order), `tasks` (pause and resume NIFs of the Producer, in no order). The user may
change the source at any time; the histories `early` and `hasty` remember whether
that was before both sides were linked, and before the last change had come to
rest. `ReadPaused` gives "not paused" for every answer that is not `true`, which
includes the `{:error, :terminated}` of a Consumer that is gone or does not answer
within 5 s; the history `guessed` remembers that nobody answered, until the source
changes for the first time after both sides are linked. The data pipes have the
same link without pause events.

### PipeToRouter

One program counter per caller over the calls of `pipe_producer_to_router`,
`get_or_create_pipe_transport_pair` and `create_pipe_transport_pair`. `mapped` is
the local Router's entry for the remote one; it is never removed, as in the code.
Routers, transports and pipes may end between any two steps. Every one of the calls
may also go unanswered although its process runs: `GetPair` then returns the error
as `{:ok, _}`, `PutPair` goes on without the pair being stored, and `LatePut` is the
Router coming to that put afterwards, if it does (`put[c]` says what became of it). A
creation or connection that times out may take effect all the same, and what it made
is then nobody's. `PipeEnd` is what
`PipeLink` shows of a linked pipe (`PairEndsTogether`), as an action with weak
fairness. A cast lost between two nodes while both sides stay alive is outside both
modules.

### PipeEnds and PipeChanges

A pipe as its user may think of it. In `PipeEnds` the Consumer opens, then the
Producer, then both are linked, once; ends close at any time and none opens again;
`EndTogether` is the promise that neither end of a linked pipe outlives the other.
In `PipeChanges` a change of the source is under way once at most and takes effect
once at most, as what it was, and nothing else changes the pipe Producer. It does
not promise arrival or order, which the code does not keep (section 3).

### EventListener

Subscriptions and DOWN signals in the mailbox, monitors that are armed, native
events from callback to handle_info, and what every listener was sent, in order.
`terminate` sends `{:on_close}`; on_dead is passed on and then stops the server;
the native on_close only stops it.

### LoggerProxy

A proxy starts in three steps, as its `init` calls one NIF that sets the logger,
the pid and the level one after the other (`InstallLogger`, `SetProxyProcess`,
`SetMaxLevel`), while native threads take records through `Check` (the level),
`Log` (the logger and the pid) and `Send` (the task). `under[r]` remembers whose
level a record was compared with. `Die` takes the mailbox with it.

### CreateOptions

No concurrency: one request is normalized by the caller and decoded by the NIF,
and the module says what comes out of it. The fields that say where to listen are
kept as values, all other options as names. `Normalize` and `TryToOption` follow
the clauses of the code in their order; `Places`, `Place`, `ListenInfo` and
`Dropped` are the reference they are compared with. `ListensAsAsked` is the
conjunction of one property per kind (WebRtc, plain with its RTCP place, pipe,
server) and of `PlacesDecode`, that a plain or pipe transport is refused for want of
a place only when it has none.

### WebRtcServer

A call goes from `sent` over the callback of its Router (`asking`, where `to_ref`
waits for the server's process, and `read`) to the task (`creating`) and back
(`arrived`). Two things end the Router on this way: `ServerGone`, the uncaught exit
of `to_ref` when the server is gone, ends, or runs and does not reply within 5 s
(`slow`), and `Raise`, options that do not decode (`broken`), with or without a
server. References are garbage on the heaps of Routers and of the Worker until
a `Collect`. `NativeDrop` closes a native server that nothing keeps (`InUse`).
`Foreign` servers are those of another node, which the NIF refuses.

## 3. Runs

| Run | Instance | Distinct states | Shows |
|---|---|---|---|
| `NifCall` | a query, a job, a guarded and a plain creation; at most 3 calls | 101395 | what callers are told, who owns objects, the contract, children follow the server, no caller depends on its timer but for one refusal |
| `NifCallClosed` | a query, a job | violation | closed? of a live server may be true |
| `ResourceTree` | Worker, Router, unobserved transport, producer, consumer | 173288 | children end first, silent ends come from outside, every end releases, a tree at rest is a clean one, consumers follow, a disposed Worker ends |
| `PipeLink` | 3 changes, any time; the read of the source may time out | 8831 | agreement at rest unless the state was guessed, delivery, both sides end together, the two abstract modules |
| `PipeLinkStale` | 1 change | violation | a change before the link is handled is lost |
| `PipeLinkReorder` | 2 changes | violation | of two changes in a row the older wins |
| `PipeToRouter` | 2 callers, either router may end, any call may time out | 53239 | what an ok stands for; pairs are connected, accounted for, and shared in a row unless a get or put went unanswered; pipes open, link and close in order and end with their transports; a broken pair stays |
| `PipeToRouterGone` | 1 caller, the same | violation | an error is returned as `{:ok, _}` |
| `EventListener` | 2 listeners, 3 subscriptions, 2 events and the close | 73384 | the listed are watched, on_close last and once, dead listeners leave, the close is heard |
| `LoggerProxy` | 2 records, one of them noise, 3 starts, levels 0, 1 and 5 | 111006 | which records are lost, which reach a proxy above its level, none stays on the way |
| `CreateOptions` | 615066 requests of ten kinds, 2 ips | 1845198 | transports and servers listen as asked, the preferred protocol is first, normalizing is idempotent, given options arrive |
| `WebRtcServer` | 2 Routers, 2 calls, a server of their node and one of another | 250798 | whom the end of a server hits, why a Router ends that nobody closed, and when ports are free |

Each run checks the inductive invariant of its module (`IInv`, which includes the
types) before it is proved, where that is not a conjunction of what it checks
anyway: `NifCall`, `ResourceTree`, `PipeToRouter`, `EventListener`. Those of
`PipeLink`, `LoggerProxy` and `WebRtcServer` are proved, and their runs check what
follows from them.

Bounds and why they suffice. Calls of one server interact only through its
life and its reference, so two creations, a query and a job, three of them made,
give every pairing of a call with another call's late result and with each way of
ending. The tree has every kind of parent and child and one producer-consumer
dependency; siblings do not interact except through their parent. Two callers
are what a race for the transport pair takes, and each caller pipes once.
`MaxToggle` is 3 because two events can be exchanged and a third one tells that
from a loss. `MaxCall` of EventListener is 3: a subscription, another for the same
listener, and one after its death; `MaxEvent` is 2, so that on_dead and a plain
event meet the close. Three starts of a proxy let a record cross a restart on
either side of its own. Requests have lists of at most two places, enough for
an order and for every clause; two ips, so that a place of one can be told from a
place of the other; one live and one dead server; two calls and two
Routers are enough for a server to be held by one and refused to the other. The
theorems of section 4 hold without these bounds.

CHECK_DEADLOCK is FALSE in all runs: when the server, tree or pipe is gone and
all calls have returned, nothing is left to happen.

Fairness is weak and is given to what the BEAM and the executor do by
themselves: a process with a message runs, a task ends, a linked supervisor
follows its process, an object that nothing holds closes, a NIF that runs comes
to its end. It is not given to users: nobody has to call, close, kill, subscribe,
log or pause. Timers (`Expire`) have none either, so that what the timer would
cover shows. Steps of a caller of `pipe_producer_to_router` are not fair, since
that process may be killed, and no process has to collect its garbage. A fair
action is disabled by its own step, by the end of the process it belongs to, or
while its server is busy with a create result, which happens finitely often; so
weak fairness is enough. An assumption the library cannot enforce: native tasks
do end (mediasoup answers or its worker dies).

### What the violations mean

* `closed?` reports a live server as closed when the answer takes more than 5 s
  (`lib/wrap.ex:62`).
* A pause between `producer_paused?` and the link is lost (`lib/router.ex:198`).
* Changes in quick succession can be applied in the wrong order
  (`lib.rs:32`, `lib/producer.ex:285`).
* `pipe_producer_to_router` on a Router that is gone, or runs and does not answer
  within 5 s, returns `{:ok, {:error, :terminated}}` (`lib/router.ex:510`).

A disagreement with the types that no run reports: `lib/data_consumer.ex:205-213` and
`lib/data_producer.ex:180-188` document options (`ordered`, `label`, `protocol` and
others), and `lib/router.ex:236` gives `ordered: true`, for which the structures of
the NIF have no field, so that they never arrive. `GivenOptionsArrive` leaves these
open (`Dropped` names them): it would hold of a library that passes them on, and
holds of this one.

Known and modelled, without a promise in the source to hold them against:

* Two overlapping calls make two transport pairs. So do calls in a row when the get or
  put of the first was not answered in time; its late put may then replace the pair
  that a later call stored.
* What is made for a caller that has given up stays: a transport, a pipe Consumer
  whose Producer could not be made, a Producer that is never linked.
* A stored pair whose transport has ended is handed out for ever
  (`DeadPairIsForGood` says so).
* The pipe Producer of a paused source whose Consumer did not answer
  `producer_paused?` in time starts live, and stays so until the source changes.
* A call with options that `try_to_option` refuses gets its error only as a timeout,
  other than create_webrtc_transport.
* A WebRtcServer that is gone, of another node, or slower than 5 s ends the Router
  that is asked to use it, and so do options that do not decode.
* A WebRtcTransport that enables both protocols and prefers neither listens for TCP
  alone. No property requires it to.
* Half a DTLS certificate is dropped without a word.

## 4. Proofs

Proved with TLAPS for all values of the constants that satisfy the named ASSUME
of the module:

| Module | Theorems | Argument |
|---|---|---|
| `NifCallProofs` | `Invariance`, `NoDeadEnds`, `TerminatedExplained`, `OrphansOnlyByTimeout`, `Ownership`, `ContractRefined` | `IInv` = types, stages of requests, answers, creations, what a waiting caller waits for |
| `ResourceTreeProofs` | `TreeInvariance`, `RestReleases`, `ChildrenEndBeforeParents`, `ListenersHearTheEnd` | the children a process has are those in `todo` while it stops, and none after; what ends a process is in its mail until it is read |
| `PipeLinkProofs` | `LinkInvariance`, `LinkedEndsAgree`, `PipeRefined`, `LoneSideIsTied` | while nobody was early or hasty and nothing was guessed, at most one change is under way and carries the state of the source; a change is in one place; a side has its cast to read or monitors the other |
| `PipeToRouterProofs` | `PipingInvariance`, `PipesRefined`, `NoHalfPipeRests`, `PairsAreConnected`, `CallsShare`, `PairsAreAccountedFor`, `BrokenPairIsKept`, `OkIsAPipe` | stored pairs are complete; a pair is stored once a put was handled; who made a pair beside a shared one had asked before it was stored; nothing is open on a closed transport |
| `EventListenerProofs` | `ListenerInvariance`, `RestLeavesNobodyOut`, `NobodyUnwatched`, `CloseComesLast` | events are numbered; one under way has reached nobody |
| `LoggerProxyProofs` | `LoggerInvariance`, `LossMeansDeath`, `LevelsAreKept` | the level is never that of a later proxy than the pid's; a record's proxy is at least as late as its level's |
| `CreateOptionsProofs` | `TransportsListenAsAsked` (from `WebRtcTransportsListenAsAsked`, `PlainPlaces`, `PipePlaces`, `ServerPlaces` and `PlacesAreEnough`), `PreferredIsFirst`, `NormalizingIsIdempotent`, `OptionsReachTheLibrary` | what is passed on is a function of what was asked (`PassedOn`), and lemmas about each clause of normalize and about the places of each kind |
| `WebRtcServerProofs` | `ServerInvariance`, `ServerEndsAreContained`, `GoneServersAreReleased` | what is in use is open; only a running Router that was asked has a reference; a call names only a server that was created, so one that is not running has ended (`NamesInv`); a Router nobody closed has a call that explains its end |

None of the properties is inductive alone. `TerminatedIsExplained` and
`OrphanOnlyAfterTimeout` need to know that a reply is what the caller sees and
that a reply of failure means no child (`AnswersInv`, `CreationsInv`), and that a
dead server has no request it might still serve (`RequestsInv`).
`ChildrenEndFirst` needs that a stopping process still lists every live child
and that no result starts another one. `CallsInARowShare` needs that some pair is
stored from the moment a put was handled, and that a call which begins to make a
pair found none, so that no call before it had worked on a pair that was stored in
time (`SharingInv`, `StoringInv`). `CloseIsLast` needs the numbers of events
in flight. `ContractRefined` follows from `IInv` step by step: `StartChild` maps to
`TakeEffect`, `Receive`, `SeeDown` and `Expire` to `Return`, `Send` to `Begin`, and
every other action to a stutter. In `PipeRefined` the two casts map to one
`LinkEnds`, at the second; that a change is in one place only (`OnePlaceInv`) makes
each handler a stutter or an `Apply`, whatever order tasks and messages take.
`PipesRefined` is the composition: the steps of any number of callers, the ends of
transports, which close many pipes at once (`CloseEnds`), and `PipeEnd`, which
closes the one end that is open, are steps of `PipeEnds`. `BrokenPairIsKept` is a statement about two
moments: from a broken pair on, no call has got past asking for another pair than
that one, which is an invariant of the rest of the behaviour. The lemmas of
`CreateOptionsProofs` are about sequences of any length: that flattening ips and
protocols gives each pair of them once and in order rests on division with
remainder, proved there for two protocols.

No theorem assumes that processes answer in time or that routers stay. `OkIsAPipe`
says of an `{:ok, _}` that it is a linked pipe or stands for a call that made
nothing, which is as much as is true of the code (`PipeToRouterGone`). That a user
is neither early nor hasty, and that the state was not guessed, is no assumption of
`LinkInvariance`, but the condition of `AgreeAtRest` itself; the two violations show
that neither of the first two can be dropped, and `ReadPaused` why the third cannot.

Only model-checked: everything under fairness (`ChildrenFollowServer`,
`AnsweredWithoutTimer`, `EndReleases`, `ConsumerFollowsProducer`,
`DisposedWorkerEnds`, `PauseArrives`, `PairEndsTogether`, `PipeEndsWithTransports`,
`DeadListenersLeave`, `CloseIsHeard`, `RecordsArrive`, `ServerReleased`), since the
prover does not treat liveness.

### Leads-to without liveness

What must happen eventually stays with TLC, because the prover does not treat
fairness. Half of such a property is a safety property all the same: that a
system in which no fair action is left to take has got there, which no scheduling
can help if it is false. These halves are proved, for every instance:

| Leads-to (model-checked) | Its safety half (proved) |
|---|---|
| `EndReleases`, `ConsumerFollowsProducer`, `DisposedWorkerEnds` | `RestIsRelease`: a tree with nothing left to do has nobody stuck in terminate, no orphan, no open object without a process, no missed producer, and a count that goes with the Worker |
| `AnsweredWithoutTimer` | `NobodyWaitsInVain`: who waits has a step to wait for, or a refusal that was forgotten |
| `PairEndsTogether` | `LoneSideIsTied`: a side left alone after both casts monitors the other or has its cast to read |
| `PipeEndsWithTransports` | `EndedAtRest`: a returned pipe without its transport has ended, unless one end has still to follow |
| `DeadListenersLeave`, `CloseIsHeard` | `NobodyLeftOut` |
| `ServerReleased` | `GoneServersRest`: nothing keeps a server that was closed once the Routers and tasks asked to use it are gone |
| `RecordsArrive` | in `RecordInv`: a queued record is in the mailbox of a living proxy |

What is missing from these to the leads-to is that the steps left are finitely
many, and the fairness of each. In `RestIsRelease` the step from one process to the
tree is a minimal counterexample: of the processes in terminate, one has none of
the others for a child (`TreeAssumption`), so that what it waits for is dead, and
the rest was not one. The constants may be any finite or infinite tree of that
kind; TLC evaluates the assumption for the tree of the run.

## 5. Not modelled

* Encoding: the conversion of terms to JSON and to Rust structures has no state,
  and no property tells one wording from another. That a value may not decode,
  and then raises, is modelled (`Raise` of NifCall and WebRtcServer, `bad` of
  CreateOptions).
* The dispatch of `lib/transport.ex` and the constants of `lib/mediasoup.ex`.
* Lookup of network interfaces in `lib/utility.ex`, which is I/O.
* The receive without timeout in the init of a Worker (`lib/nif.ex:400`): the start
  of a Worker is one step.
* What filters of the LoggerProxy decide, and the wording of records.
* The inside of mediasoup: RTP, ICE, DTLS, SCTP, statistics. Queries and jobs that
  read or set it are the calls of NifCall without content.
* The distribution of nodes beyond what messages and deaths show: a lost connection
  between nodes appears to a monitor as a death, which the models have. The loss of
  one of the link casts of a pipe while both of its sides stay alive is left out.
* The messages of data producers and consumers. Both are nodes of the tree and
  parts of a pipe like their media counterparts.
* Fields of a listen info that are passed on unseen: exposeInternalIp, portRange,
  flags and buffer sizes.

## 6. Plan

In order; groups 1 to 9 exist.

1. The call path: `NifCall`, `CreateContract`.
2. The tree: `ResourceTree`.
3. Pipes: `PipeLink`, `PipeToRouter`, what is left over and what a broken pair does
   to later calls.
4. Listeners: `EventListener`.
5. Shared servers: `WebRtcServer`.
6. Options: `CreateOptions`.
7. Logging: `LoggerProxy`.
8. The abstract pipe: `PipeEnds` and `PipeChanges`, implemented by `PipeLink`, and
   `PipeEnds` by `PipeToRouter`.
9. The safety halves of the leads-to properties, proved.
10. Left: order of changes that the user spaces out (a third abstract module, an
    unlossy `PipeChanges` under ~early /\ ~hasty, which `AgreementInv` already
    carries); the create tasks of `ResourceTree` shown to implement `CreateContract`
    as those of `NifCall` do; a measure of the steps left in `ResourceTree`, by
    which its rest is reached.
