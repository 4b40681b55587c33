------------------------------ MODULE PipeLink ------------------------------
(***************************************************************************)
(* Router.pipe_producer_to_router makes a pipe: a pipe Consumer of the     *)
(* source Producer in one router and a pipe Producer in another, the two   *)
(* GenServers tied by a pair of casts (Consumer.link_pipe_producer).  From *)
(* then on the Consumer hands the pause and resume events of the source on *)
(* to the pipe Producer, and each side ends with the other.                *)
(*                                                                         *)
(* Two things on the way are not ordered: every native event is sent by a  *)
(* task of its own (send_msg_from_other_thread), and every pause or resume *)
(* of the pipe Producer is a task of its own.  Between them, messages from *)
(* the Consumer process to the Producer process keep their order.          *)
(***************************************************************************)
EXTENDS Naturals, Sequences

CONSTANT
  MaxToggle     \* how often the source may be paused or resumed (a bound)

ASSUME PipeAssumption == MaxToggle \in Nat

VARIABLES
  caller,     \* how far pipe_producer_to_router has come
  read,       \* what it read as Consumer.producer_paused?
  source,     \* whether the source Producer is paused
  toggles,    \* how often that changed
  events,     \* events of the pipe Consumer, each in its sending task
  toProducer, \* messages from the Consumer process to the Producer process
  tasks,      \* pause and resume tasks of the pipe Producer
  pipe,       \* whether the pipe Producer is paused
  proc,       \* the processes of the two sides
  casts,      \* sides whose link cast is still in their mailbox
  linked,     \* sides that monitor the other
  given,      \* sides the caller has cast the link to, in the end (history)
  guessed,    \* whether that was no answer, and the linked source has not changed
              \* since (history)
  early,      \* whether the source changed before both sides were linked (history)
  hasty       \* whether it changed again before the last change had come to rest (history)

vars == <<caller, read, source, toggles, events, toProducer, tasks, pipe, proc, casts,
          linked, given, guessed, early, hasty>>

history == <<guessed, early, hasty>>

Side == {"consumer", "producer"}
Other(s) == IF s = "consumer" THEN "producer" ELSE "consumer"

\* An event or task: the number of the change it is about, and its kind.
Change == [n : 1..MaxToggle, paused : BOOLEAN]

TypeOK ==
  /\ caller \in {"consume", "read", "produce", "link", "linking", "returned", "failed"}
  /\ read \in BOOLEAN /\ source \in BOOLEAN /\ pipe \in BOOLEAN
  /\ toggles \in 0..MaxToggle
  /\ events \subseteq Change /\ tasks \subseteq Change
  /\ toProducer \in Seq(Change)
  /\ proc \in [Side -> {"absent", "running", "dead"}]
  /\ casts \subseteq Side /\ linked \subseteq Side /\ given \subseteq Side
  /\ guessed \in BOOLEAN /\ early \in BOOLEAN /\ hasty \in BOOLEAN

Init ==
  /\ caller = "consume"
  /\ read = FALSE
  /\ source \in BOOLEAN
  /\ toggles = 0
  /\ events = {} /\ tasks = {} /\ toProducer = <<>>
  /\ pipe = FALSE
  /\ proc = [s \in Side |-> "absent"]
  /\ casts = {} /\ linked = {} /\ given = {}
  /\ guessed = FALSE /\ early = FALSE /\ hasty = FALSE

Running(s) == proc[s] = "running"

-----------------------------------------------------------------------------
(* The caller. *)

\* Transport.consume on the local pipe transport.
Consume ==
  /\ caller = "consume"
  /\ caller' = "read"
  /\ proc' = [proc EXCEPT !["consumer"] = "running"]
  /\ UNCHANGED <<read, source, toggles, events, toProducer, tasks, pipe, casts, linked, given, history>>

\* Consumer.producer_paused?; a Consumer that is gone, or does not answer within the
\* five seconds of NifWrap.call, counts as not paused.
ReadPaused ==
  /\ caller = "read"
  /\ caller' = "produce"
  /\ \/ /\ Running("consumer")
        /\ read' = source
        /\ UNCHANGED guessed
     \/ /\ read' = FALSE
        /\ guessed' = TRUE
  /\ UNCHANGED <<source, toggles, events, toProducer, tasks, pipe, proc, casts, linked, given,
                 early, hasty>>

\* Mutant: the paused option is not handed over.
ProduceLive ==
  /\ caller = "produce"
  /\ \/ /\ caller' = "link"
        /\ proc' = [proc EXCEPT !["producer"] = "running"]
        /\ pipe' = FALSE
     \/ /\ caller' = "failed"
        /\ UNCHANGED <<proc, pipe>>
  /\ UNCHANGED <<read, source, toggles, events, toProducer, tasks, casts, linked, given, history>>

\* Transport.produce on the remote pipe transport, paused as read; when it
\* fails the error is returned and the pipe Consumer is left as it is, and so is a
\* pipe Producer that was made too late for the caller.
Produce ==
  /\ caller = "produce"
  /\ \/ /\ caller' \in {"link", "failed"}
        /\ proc' = [proc EXCEPT !["producer"] = "running"]
        /\ pipe' = read
     \/ /\ caller' = "failed"
        /\ UNCHANGED <<proc, pipe>>
  /\ UNCHANGED <<read, source, toggles, events, toProducer, tasks, casts, linked, given, history>>

\* A cast to a dead process is lost.
Cast(s) ==
  /\ casts' = IF Running(s) THEN casts \cup {s} ELSE casts
  /\ given' = given \cup {s}

\* link_pipe_producer: first the Consumer, then the Producer.
Link ==
  /\ \/ caller = "link" /\ caller' = "linking" /\ Cast("consumer")
     \/ caller = "linking" /\ caller' = "returned" /\ Cast("producer")
  /\ UNCHANGED <<read, source, toggles, events, toProducer, tasks, pipe, proc, linked, history>>

-----------------------------------------------------------------------------
(* The user of the source Producer, and the native side of the Consumer. *)

AtRest == events = {} /\ toProducer = <<>> /\ tasks = {}

\* The source is paused or resumed. The pipe Consumer, while there is one,
\* changes with it and its callback spawns a task that sends the event. Nothing
\* in the library keeps its user from changing the source early or hastily.
Toggle ==
  /\ toggles < MaxToggle
  /\ source'  = ~source
  /\ toggles' = toggles + 1
  /\ events'  = IF Running("consumer")
                THEN events \cup {[n |-> toggles', paused |-> source']} ELSE events
  /\ guessed' = (guessed /\ linked # Side)
  /\ early'   = (early \/ (caller # "consume" /\ linked # Side))
  /\ hasty'   = (hasty \/ ~AtRest)
  /\ UNCHANGED <<caller, read, toProducer, tasks, pipe, proc, casts, linked, given>>

-----------------------------------------------------------------------------
(* The two GenServers. *)

\* handle_cast of the Consumer adds the Producer to its listeners and monitors
\* it; handle_cast of the Producer monitors the Consumer.
HandleLink(s) ==
  /\ Running(s)
  /\ s \in casts
  /\ casts'  = casts \ {s}
  /\ linked' = linked \cup {s}
  /\ UNCHANGED <<caller, read, source, toggles, events, toProducer, tasks, pipe, proc, given, history>>

\* Mutant: the Consumer takes pause events for resume events.
HandleEventSwapped(e) ==
  /\ Running("consumer")
  /\ e \in events
  /\ events' = events \ {e}
  /\ toProducer' = IF "consumer" \in linked /\ Running("producer")
                   THEN Append(toProducer, [e EXCEPT !.paused = ~@]) ELSE toProducer
  /\ UNCHANGED <<caller, read, source, toggles, tasks, pipe, proc, casts, linked, given, history>>

\* Mutant: the Producer is among the listeners twice.
HandleEventTwice(e) ==
  /\ Running("consumer")
  /\ e \in events
  /\ events' = events \ {e}
  /\ toProducer' = IF "consumer" \in linked /\ Running("producer")
                   THEN toProducer \o <<e, e>> ELSE toProducer
  /\ UNCHANGED <<caller, read, source, toggles, tasks, pipe, proc, casts, linked, given, history>>

\* An event reaches the Consumer process, any of those sent, and goes to its
\* listeners; the pipe Producer is one only once the link cast was handled.
HandleEvent(e) ==
  /\ Running("consumer")
  /\ e \in events
  /\ events' = events \ {e}
  /\ toProducer' = IF "consumer" \in linked /\ Running("producer")
                   THEN Append(toProducer, e) ELSE toProducer
  /\ UNCHANGED <<caller, read, source, toggles, tasks, pipe, proc, casts, linked, given, history>>

\* {:on_pause} and {:on_resume} of the Producer spawn the NIF's task and look
\* at no result.
HandlePiped ==
  /\ Running("producer")
  /\ toProducer # <<>>
  /\ toProducer' = Tail(toProducer)
  /\ tasks' = tasks \cup {Head(toProducer)}
  /\ UNCHANGED <<caller, read, source, toggles, events, pipe, proc, casts, linked, given, history>>

\* A task takes effect, in no order with the others. After the Producer is
\* gone it finds a closed object.
TaskDone(e) ==
  /\ e \in tasks
  /\ tasks' = tasks \ {e}
  /\ pipe'  = IF Running("producer") THEN e.paused ELSE pipe
  /\ UNCHANGED <<caller, read, source, toggles, events, toProducer, proc, casts, linked, given, history>>

\* What was in the mailbox of a side, or on its way there, is lost with it.
End(s) ==
  /\ Running(s)
  /\ proc'   = [proc EXCEPT ![s] = "dead"]
  /\ casts'  = casts \ {s}
  /\ events' = IF s = "consumer" THEN {} ELSE events
  /\ toProducer' = IF s = "producer" THEN <<>> ELSE toProducer
  /\ UNCHANGED <<caller, read, source, toggles, tasks, pipe, linked, given, history>>

\* Mutant: the monitor reference is not the one of the link.
DownUnmatched(s) ==
  /\ s \in linked \ {"producer"}
  /\ proc[Other(s)] = "dead"
  /\ End(s)

\* The :DOWN of the linked side, which a monitor of a side already dead gets at
\* once, ends this side.
Down(s) ==
  /\ s \in linked
  /\ proc[Other(s)] = "dead"
  /\ End(s)

Next ==
  \/ Consume \/ ReadPaused \/ Produce \/ Link \/ Toggle \/ HandlePiped
  \/ \E e \in events : HandleEvent(e)
  \/ \E e \in tasks : TaskDone(e)
  \/ \E s \in Side : HandleLink(s) \/ Down(s) \/ End(s)

\* Mailboxes are read, tasks end, a call that has begun goes on. The source's
\* user and whoever closes a side owe nothing; nor need a caller that may be
\* killed between two of its steps come to Link.
Fairness ==
  /\ WF_vars(HandlePiped)
  /\ \A e \in Change : WF_vars(HandleEvent(e)) /\ WF_vars(TaskDone(e))
  /\ \A s \in Side : WF_vars(HandleLink(s)) /\ WF_vars(Down(s))

Spec == Init /\ [][Next]_vars /\ Fairness

-----------------------------------------------------------------------------
(* Properties. *)

\* A user that changes the source after the link and one change at a time: the
\* pipe Producer comes to be paused exactly when the source is, or the source
\* changes again, or the pipe ends. An event of the source crosses two processes
\* and two tasks and is not lost, doubled or inverted on the way. Before the first
\* change this rests on what the caller read, which must not be a guess.
PauseArrives ==
  \A k \in 0..MaxToggle :
    (caller = "returned" /\ toggles = k)
      ~> (\/ pipe = source \/ toggles > k
          \/ guessed \/ early \/ hasty \/ \E s \in Side : proc[s] = "dead")

\* Both sides linked and running, nothing under way: the two ends agree. So read
\* lib/consumer.ex:330 "Pipe events from the pipe Producer to the pipe Consumer."
\* and test/integration/test_pipe_transport.ex:734.
EndsAgree ==
  linked = Side /\ AtRest /\ (\A s \in Side : Running(s)) => pipe = source

\* The ends agree for a source that is changed after the link and not again
\* before it rests, when the read was answered or a change has come since: a Consumer
\* too slow to say that its source is paused leaves the pipe Producer live until the
\* next change, which sets it right.
AgreeAtRest == ~early /\ ~hasty /\ ~guessed => EndsAgree

\* The ends agree though the source was changed while the link was made
\* (lib/router.ex:198: producer_paused? is read, used and then linked).
AgreeThoughEarly == ~hasty /\ ~guessed => EndsAgree

\* The ends agree though changes followed each other quickly (a native event and
\* a pause or resume are each sent by a task of its own).
AgreeThoughHasty == ~early /\ ~guessed => EndsAgree

-----------------------------------------------------------------------------
(* What the pipe implements. *)

EndOf(s) == CASE proc[s] = "absent"  -> "none"
              [] proc[s] = "running" -> "open"
              [] proc[s] = "dead"    -> "closed"

\* The one pipe of this module is linked when the caller has cast both links.
Ends == INSTANCE PipeEnds
          WITH Pipe <- {"pipe"},
               consumer <- [p \in {"pipe"} |-> EndOf("consumer")],
               producer <- [p \in {"pipe"} |-> EndOf("producer")],
               linked <- IF given = Side THEN {"pipe"} ELSE {}

Queued == {toProducer[i] : i \in DOMAIN toProducer}

\* A change is on its way as an event, as a message or as a task.
Changes == INSTANCE PipeChanges
             WITH made <- toggles,
                  pending <- events \cup Queued \cup tasks,
                  opened <- proc["producer"] # "absent",
                  copy <- pipe

\* The two processes, their mailboxes and the tasks between them keep the order in
\* which a pipe opens, is linked and closes (lib/router.ex:171-216), and a change of
\* the source, handed from task to process to process to task, is never doubled,
\* altered or made up, whoever ends in between (lib/consumer.ex and lib/producer.ex,
\* handle_info).
ImplementsPipe == Ends!Contract /\ Changes!Contract

\* Once both link casts are on their way, neither side of a pipe outlives the
\* other, whichever ends first and however its end falls between the casts and
\* their handling (lib/consumer.ex handle_cast and :DOWN, lib/producer.ex). That a
\* cast between two nodes is lost with the connection while both sides go on is
\* outside the model.
PairEndsTogether == Ends!EndTogether

-----------------------------------------------------------------------------
(* The inductive invariant behind the properties above. *)

\* A side that runs and was cast the link monitors the other or has the cast
\* still to read: it learns of the other's end, now or then.
TiedInv ==
  \A s \in given : Running(s) => s \in casts \cup linked

\* Which sides there are, and may be linked, at each point of the call.
StagesInv ==
  /\ (proc["consumer"] = "absent") <=> (caller = "consume")
  /\ caller \in {"consume", "read", "produce"} => proc["producer"] = "absent"
  /\ caller \in {"link", "linking", "returned"} => proc["producer"] # "absent"
  /\ caller \in {"consume", "read", "produce", "link", "failed"} => casts \cup linked \cup given = {}
  /\ caller = "linking" => given = {"consumer"}
  /\ caller = "returned" => given = Side

\* A change of the source is in one place at most, and none is ahead of the source.
OnePlaceInv ==
  /\ \A e \in events \cup Queued \cup tasks : e.n <= toggles
  /\ events \cap tasks = {} /\ Queued \cap (events \cup tasks) = {}
  /\ \A i, j \in DOMAIN toProducer : toProducer[i] = toProducer[j] => i = j

\* Nothing under way, or a single change that carries the state of the source.
OneUnderWay ==
  \/ AtRest /\ (pipe = source \/ guessed)
  \/ \E e \in Change :
       /\ e.paused = source
       /\ \/ events = {e} /\ toProducer = <<>> /\ tasks = {}
          \/ events = {} /\ toProducer = <<e>> /\ tasks = {}
          \/ events = {} /\ toProducer = <<>> /\ tasks = {e}

\* Before both sides are linked the source stands still as the caller read or
\* guessed it; after that at most one change is under way.
AgreementInv ==
  /\ linked # Side => AtRest
  /\ Running("consumer") /\ caller \notin {"consume", "read"} /\ linked # Side
       => read = source \/ guessed
  /\ Running("producer") /\ linked # Side => pipe = read
  /\ linked = Side /\ (\A s \in Side : Running(s)) => OneUnderWay

\* The types, the stages of the call, the tie, and, for a user that is neither early nor
\* hasty, what is under way.
IInv ==
  /\ TypeOK /\ StagesInv /\ TiedInv /\ OnePlaceInv
  /\ (~early /\ ~hasty => AgreementInv)
=============================================================================
