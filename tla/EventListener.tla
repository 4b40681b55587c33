--------------------------- MODULE EventListener ---------------------------
(***************************************************************************)
(* The listeners of one GenServer (Mediasoup.EventListener), and the way   *)
(* of an event to them: native callback, a task of its own that sends it   *)
(* to the server, the server's handle_info, the listeners that asked for   *)
(* its type.  The end of the server is told in terminate, whatever brought *)
(* it about; the native on_close only stops the server.                    *)
(*                                                                         *)
(* A listener is a process like any other and may be dead before its       *)
(* subscription is handled: the server monitors what it lists.  Calls,     *)
(* DOWN signals and events come from different senders, so the mailbox is  *)
(* kept as three sets, and any order of arrival is possible.               *)
(***************************************************************************)
EXTENDS Naturals, Sequences

CONSTANTS
  Listener,     \* processes that are made listeners
  Choice,       \* the event_types of Router.event, Consumer.event ...
  Registered,   \* event types init registers with the native object
  MaxCall,      \* how many subscriptions are made (a bound)
  MaxEvent      \* how many native events fire before the close (a bound)

\* on_close ends the server, on_dead too, after it was passed on; on_other
\* stands for the types that are only passed on (on_pause, on_score ...).
EventType == {"on_close", "on_dead", "on_other"}

ASSUME ListenerAssumption ==
  /\ Choice \subseteq SUBSET EventType
  /\ Registered \subseteq EventType
  /\ MaxCall \in Nat /\ MaxEvent \in Nat

VARIABLES
  server,     \* "ended" when it ran terminate, "killed" when not
  object,     \* the native object
  alive,      \* the listeners that run
  calls,      \* {:event, listener, event_types} in the mailbox
  called,     \* how many were made
  listed,     \* the keys of the listeners map
  types,      \* event_types of each that is listed
  watched,    \* listeners whose monitor is armed
  down,       \* listeners whose :DOWN is in the mailbox
  sending,    \* native events, from their callback to handle_info
  fired,      \* how many have fired
  inbox       \* what each listener was sent, in that order

vars == <<server, object, alive, calls, called, listed, types, watched, down,
          sending, fired, inbox>>

\* An event: which one it is in the order of firing, and its type.
Event == [n : 0..(MaxEvent + 1), type : EventType]

TypeOK ==
  /\ server \in {"running", "ended", "killed"}
  /\ object \in {"open", "closed"}
  /\ alive \subseteq Listener /\ listed \subseteq Listener
  /\ watched \subseteq Listener /\ down \subseteq Listener
  /\ calls \subseteq [who : Listener, types : Choice]
  /\ called \in 0..MaxCall
  /\ types \in [Listener -> SUBSET EventType]
  /\ sending \subseteq Event
  /\ fired \in 0..(MaxEvent + 1)
  /\ inbox \in [Listener -> Seq(Event)]

Init ==
  /\ server = "running" /\ object = "open"
  /\ alive = Listener
  /\ calls = {} /\ called = 0
  /\ listed = {} /\ types = [l \in Listener |-> {}]
  /\ watched = {} /\ down = {}
  /\ sending = {} /\ fired = 0
  /\ inbox = [l \in Listener |-> <<>>]

-----------------------------------------------------------------------------
(* Listeners. *)

\* Worker.event, Router.event, Consumer.event ...: a call, from any process.
Subscribe(l, ts) ==
  /\ server = "running"
  /\ called < MaxCall
  /\ called' = called + 1
  /\ calls' = calls \cup {[who |-> l, types |-> ts]}
  /\ UNCHANGED <<server, object, alive, listed, types, watched, down, sending, fired, inbox>>

\* Mutant: a listener is taken to be alive when it is added.
HandleCallTrusting(c) ==
  /\ server = "running"
  /\ c \in calls
  /\ calls' = calls \ {c}
  /\ types' = [types EXCEPT ![c.who] = c.types]
  /\ listed' = listed \cup {c.who}
  /\ watched' = IF c.who \in alive THEN watched \cup {c.who} ELSE watched
  /\ UNCHANGED <<server, object, alive, called, down, sending, fired, inbox>>

\* EventListener.add: a listener that is listed gets other event types; one
\* that is not is monitored, and the monitor of a dead process fires at once.
HandleCall(c) ==
  /\ server = "running"
  /\ c \in calls
  /\ calls' = calls \ {c}
  /\ types' = [types EXCEPT ![c.who] = c.types]
  /\ listed' = listed \cup {c.who}
  /\ IF c.who \in listed
     THEN UNCHANGED <<watched, down>>
     ELSE IF c.who \in alive
     THEN watched' = watched \cup {c.who} /\ UNCHANGED down
     ELSE down' = down \cup {c.who} /\ UNCHANGED watched
  /\ UNCHANGED <<server, object, alive, called, sending, fired, inbox>>

ListenerDies(l) ==
  /\ l \in alive
  /\ alive' = alive \ {l}
  /\ watched' = watched \ {l}
  /\ down' = IF l \in watched THEN down \cup {l} ELSE down
  /\ UNCHANGED <<server, object, calls, called, listed, types, sending, fired, inbox>>

\* Mutant: the types are cleared, the entry stays and keeps its spent monitor.
HandleDownCleared(l) ==
  /\ server = "running"
  /\ l \in down
  /\ down' = down \ {l}
  /\ types' = [types EXCEPT ![l] = {}]
  /\ UNCHANGED <<server, object, alive, calls, called, listed, watched, sending, fired, inbox>>

\* EventListener.remove, by the :DOWN clause of every server.
HandleDown(l) ==
  /\ server = "running"
  /\ l \in down
  /\ down' = down \ {l}
  /\ listed' = listed \ {l}
  /\ types' = [types EXCEPT ![l] = {}]
  /\ UNCHANGED <<server, object, alive, calls, called, watched, sending, fired, inbox>>

-----------------------------------------------------------------------------
(* The native object. *)

Fire(type) ==
  /\ fired' = fired + 1
  /\ sending' = IF type \in Registered /\ server = "running"
                THEN sending \cup {[n |-> fired, type |-> type]} ELSE sending

\* An event of the object, or the death of the worker thread.
Emit(type) ==
  /\ object = "open"
  /\ type # "on_close"
  /\ fired < MaxEvent
  /\ Fire(type)
  /\ UNCHANGED <<server, object, alive, calls, called, listed, types, watched, down, inbox>>

\* The object closes under the server: with its transport, its producer, its
\* router, or because nothing holds it.
NativeClose ==
  /\ object = "open"
  /\ object' = "closed"
  /\ Fire("on_close")
  /\ UNCHANGED <<server, alive, calls, called, listed, types, watched, down, inbox>>

-----------------------------------------------------------------------------
(* The server. *)

\* EventListener.send of e to the listeners, on top of what boxes says they
\* have. What is sent to a dead process is lost.
Sent(boxes, e) ==
  [l \in Listener |-> IF l \in listed \cap alive /\ e.type \in types[l]
                      THEN Append(boxes[l], e) ELSE boxes[l]]

\* The mailbox is lost with the server; the object is closed by terminate, or
\* freed with the heap. Nobody hears of monitors and tasks any more.
Gone(how) ==
  /\ server' = how
  /\ object' = "closed"
  /\ calls' = {} /\ down' = {} /\ watched' = {} /\ sending' = {}
  /\ UNCHANGED <<alive, called, listed, types, fired>>

\* terminate tells the listeners {:on_close}, after what boxes says.
CloseMessage == [n |-> MaxEvent + 1, type |-> "on_close"]

Terminate(boxes) ==
  /\ Gone("ended")
  /\ inbox' = Sent(boxes, CloseMessage)

\* An event that is only passed on.
PassOn(e) ==
  /\ server = "running"
  /\ e \in sending /\ e.type = "on_other"
  /\ sending' = sending \ {e}
  /\ inbox' = Sent(inbox, e)
  /\ UNCHANGED <<server, object, alive, calls, called, listed, types, watched, down, fired>>

\* Mutant: on_close is passed on like the others before terminate tells it.
StopByEventTwice(e) ==
  /\ server = "running"
  /\ e \in sending /\ e.type \in {"on_close", "on_dead"}
  /\ Terminate(Sent(inbox, e))

\* Mutant: on_close is passed on, and the server stays for Worker.close.
StopByEventStays(e) ==
  /\ server = "running"
  /\ e \in sending /\ e.type \in {"on_close", "on_dead"}
  /\ sending' = sending \ {e}
  /\ UNCHANGED <<server, object, alive, calls, called, listed, types, watched, down, fired, inbox>>

\* {:nif_internal_event, :on_close} stops the server; so does on_dead, which is
\* passed on first.
StopByEvent(e) ==
  /\ server = "running"
  /\ e \in sending /\ e.type \in {"on_close", "on_dead"}
  /\ Terminate(IF e.type = "on_dead" THEN Sent(inbox, e) ELSE inbox)

\* Worker.close, Router.close ...: GenServer.stop, or the parent's terminate.
Close == server = "running" /\ Terminate(inbox)

\* An exit signal: terminate does not run.
Kill ==
  /\ server = "running"
  /\ Gone("killed")
  /\ UNCHANGED inbox

Next ==
  \/ \E l \in Listener :
       \/ \E ts \in Choice : Subscribe(l, ts)
       \/ ListenerDies(l) \/ HandleDown(l)
  \/ \E c \in calls : HandleCall(c)
  \/ \E type \in EventType : Emit(type)
  \/ \E e \in sending : PassOn(e) \/ StopByEvent(e)
  \/ NativeClose \/ Close \/ Kill

\* The mailbox is read. Nobody owes a subscription, a death, a close or a kill.
Fairness ==
  /\ \A l \in Listener : WF_vars(HandleDown(l))
  /\ \A c \in [who : Listener, types : Choice] : WF_vars(HandleCall(c))
  /\ \A e \in Event : WF_vars(PassOn(e)) /\ WF_vars(StopByEvent(e))

Spec == Init /\ [][Next]_vars /\ Fairness

-----------------------------------------------------------------------------
(* Properties. *)

\* What a listener is sent: every native event at most once, {:on_close} as the
\* last of all and once only, however the native on_close, on_dead and a close
\* call meet.
CloseIsLast ==
  \A l \in Listener : \A i \in 1..Len(inbox[l]) :
    /\ inbox[l][i].type = "on_close" => i = Len(inbox[l]) /\ server = "ended"
    /\ \A j \in 1..Len(inbox[l]) : inbox[l][i] = inbox[l][j] => i = j

\* A running server knows of every listener it has whether it still runs: an
\* armed monitor, or a :DOWN it has yet to read, and never both.
ListedAreWatched ==
  server = "running" =>
    listed = watched \cup down /\ watched \subseteq alive /\ down \cap (watched \cup alive) = {}

\* No listener that is dead stays listed, also one that died before it was added
\* or that somebody adds after its death.
DeadListenersLeave ==
  \A l \in Listener : l \notin alive ~> (l \notin listed \/ server # "running")

\* The end of the native object reaches everyone who asked for it, where the
\* server registers it: not the WebRtcTransport and the PipeTransport.
CloseIsHeard ==
  \A l \in Listener :
    ("on_close" \in Registered /\ object = "closed" /\ server = "running"
       /\ l \in listed /\ "on_close" \in types[l])
      ~> (l \notin alive \/ "on_close" \notin types[l] \/ server = "killed"
            \/ \E i \in 1..Len(inbox[l]) : inbox[l][i].type = "on_close")

-----------------------------------------------------------------------------
(* The inductive invariant behind the safety properties. *)

\* Events are numbered as they fire; one that is under way has reached nobody.
EventsInv ==
  /\ object = "open" => fired <= MaxEvent
  /\ \A e \in sending : e.n < fired
  /\ \A e \in sending : \A f \in sending : e.n = f.n => e = f
  /\ server = "running" => \A l \in Listener : \A i \in 1..Len(inbox[l]) :
       /\ inbox[l][i].n < fired /\ inbox[l][i].type # "on_close"
       /\ \A e \in sending : e.n # inbox[l][i].n

\* Numbers, and with them events, are not repeated in an inbox.
InboxInv ==
  \A l \in Listener : \A i, j \in 1..Len(inbox[l]) : inbox[l][i].n = inbox[l][j].n => i = j

\* The close of the object is on its way while the server runs, where it is registered,
\* and what terminate did last is to tell it to everyone listed who asked for it.
CloseInv ==
  /\ object = "closed" /\ server = "running" /\ "on_close" \in Registered
       => \E e \in sending : e.type = "on_close"
  /\ server = "ended" => \A l \in listed \cap alive : "on_close" \in types[l] =>
       Len(inbox[l]) > 0 /\ inbox[l][Len(inbox[l])].type = "on_close"

\* A server that has come to rest has left nobody out: while it runs it lists living
\* processes only and its registered object is open; when it has ended, every listed
\* process that runs and asked for on_close has it. It is the safety half of
\* DeadListenersLeave and CloseIsHeard.
NobodyLeftOut ==
  /\ server = "running" /\ down = {} => listed \subseteq alive
  /\ server = "running" /\ sending = {} /\ "on_close" \in Registered => object = "open"
  /\ server = "ended" => \A l \in listed \cap alive : "on_close" \in types[l] =>
       \E i \in 1..Len(inbox[l]) : inbox[l][i].type = "on_close"

IInv ==
  /\ TypeOK /\ ListedAreWatched /\ EventsInv /\ InboxInv /\ CloseIsLast
  /\ CloseInv /\ NobodyLeftOut
=============================================================================
