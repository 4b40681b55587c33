------------------------ MODULE EventListenerProofs ------------------------
(***************************************************************************)
(* EventListener for any number of listeners, subscriptions and events.    *)
(***************************************************************************)
EXTENDS EventListener, TLAPS

\* Sending adds at most one event to an inbox.
LEMMA SentType ==
  ASSUME NEW boxes \in [Listener -> Seq(Event)], NEW e \in Event
  PROVE  Sent(boxes, e) \in [Listener -> Seq(Event)]
BY DEF Sent

LEMMA CloseMessageType == CloseMessage \in Event
BY ListenerAssumption DEF CloseMessage, Event, EventType

\* The event that fires has a number.
LEMMA FireType ==
  ASSUME TypeOK, NEW type \in EventType, fired <= MaxEvent, Fire(type)
  PROVE  fired' \in 0..(MaxEvent + 1) /\ sending' \subseteq Event
<1>1. fired' \in 0..(MaxEvent + 1) /\ fired \in 0..(MaxEvent + 1)
  BY ListenerAssumption DEF TypeOK, Fire
<1>2. [n |-> fired, type |-> type] \in Event
  BY <1>1 DEF Event
<1>. QED  BY <1>1, <1>2 DEF Fire, TypeOK

\* Nothing is listed, under way or sent.
LEMMA ListenerInit == Init => IInv
<1>1. Init => TypeOK /\ ListedAreWatched /\ EventsInv /\ InboxInv /\ CloseIsLast
  BY ListenerAssumption
     DEF Init, TypeOK, ListedAreWatched, EventsInv, InboxInv, CloseIsLast, EventType, Event
<1>2. Init => CloseInv /\ NobodyLeftOut
  BY DEF Init, CloseInv, NobodyLeftOut
<1>. QED  BY <1>1, <1>2 DEF IInv

-----------------------------------------------------------------------------
(* Types. *)

LEMMA TypeStep == TypeOK /\ EventsInv /\ [Next]_vars => TypeOK'
<1>. SUFFICES ASSUME TypeOK, EventsInv, [Next]_vars PROVE TypeOK'
  OBVIOUS
<1>. USE ListenerAssumption
<1>1. ASSUME NEW l \in Listener, NEW ts \in Choice, Subscribe(l, ts) PROVE TypeOK'
  BY <1>1 DEF Subscribe, TypeOK
<1>2. ASSUME NEW c \in calls, HandleCall(c) PROVE TypeOK'
  BY <1>2 DEF HandleCall, TypeOK
<1>3. ASSUME NEW l \in Listener, ListenerDies(l) PROVE TypeOK'
  BY <1>3 DEF ListenerDies, TypeOK
<1>4. ASSUME NEW l \in Listener, HandleDown(l) PROVE TypeOK'
  BY <1>4 DEF HandleDown, TypeOK
<1>5. ASSUME NEW type \in EventType, Emit(type) PROVE TypeOK'
  <2>1. fired <= MaxEvent
    BY <1>5 DEF Emit, TypeOK
  <2>. QED  BY <1>5, <2>1, FireType DEF Emit, TypeOK
<1>6. CASE NativeClose
  <2>1. fired <= MaxEvent /\ "on_close" \in EventType
    BY <1>6 DEF NativeClose, EventsInv, EventType
  <2>. QED  BY <1>6, <2>1, FireType DEF NativeClose, TypeOK
<1>7. ASSUME NEW e \in sending, PassOn(e) PROVE TypeOK'
  <2>1. Sent(inbox, e) \in [Listener -> Seq(Event)]
    BY SentType DEF TypeOK
  <2>. QED  BY <1>7, <2>1 DEF PassOn, TypeOK
<1>8. ASSUME NEW boxes \in [Listener -> Seq(Event)], Terminate(boxes) PROVE TypeOK'
  <2>1. Sent(boxes, CloseMessage) \in [Listener -> Seq(Event)]
    BY SentType, CloseMessageType
  <2>. QED  BY <1>8, <2>1 DEF Terminate, Gone, TypeOK
<1>9. ASSUME NEW e \in sending, StopByEvent(e) PROVE TypeOK'
  <2>1. Sent(inbox, e) \in [Listener -> Seq(Event)] /\ inbox \in [Listener -> Seq(Event)]
    BY SentType DEF TypeOK
  <2>. QED  BY <1>8, <1>9, <2>1 DEF StopByEvent
<1>10. CASE Close
  BY <1>8, <1>10 DEF Close, TypeOK
<1>11. CASE Kill
  BY <1>11 DEF Kill, Gone, TypeOK
<1>12. CASE UNCHANGED vars
  BY <1>12 DEF vars, TypeOK
<1>. QED
  BY <1>1, <1>2, <1>3, <1>4, <1>5, <1>6, <1>7, <1>9, <1>10, <1>11, <1>12 DEF Next

-----------------------------------------------------------------------------
(* Listeners. *)

\* A server that has ended lists nobody that would have to be watched.
LEMMA WatchStep == TypeOK /\ ListedAreWatched /\ [Next]_vars => ListedAreWatched'
<1>. SUFFICES ASSUME TypeOK, ListedAreWatched, [Next]_vars PROVE ListedAreWatched'
  OBVIOUS
<1>. USE DEF TypeOK, ListedAreWatched
<1>1. ASSUME NEW l \in Listener, NEW ts \in Choice, Subscribe(l, ts) PROVE ListedAreWatched'
  BY <1>1 DEF Subscribe
<1>2. ASSUME NEW c \in calls, HandleCall(c) PROVE ListedAreWatched'
  BY <1>2 DEF HandleCall
<1>3. ASSUME NEW l \in Listener, ListenerDies(l) PROVE ListedAreWatched'
  BY <1>3 DEF ListenerDies
<1>4. ASSUME NEW l \in Listener, HandleDown(l) PROVE ListedAreWatched'
  BY <1>4 DEF HandleDown
<1>5. ASSUME NEW type \in EventType, Emit(type) \/ NativeClose PROVE ListedAreWatched'
  BY <1>5 DEF Emit, NativeClose
<1>6. ASSUME NEW e \in sending, PassOn(e) PROVE ListedAreWatched'
  BY <1>6 DEF PassOn
<1>7. CASE server' \in {"ended", "killed"}
  BY <1>7
<1>8. CASE UNCHANGED vars
  BY <1>8 DEF vars
<1>. QED
  BY <1>1, <1>2, <1>3, <1>4, <1>5, <1>6, <1>7, <1>8
     DEF Next, StopByEvent, Close, Kill, Terminate, Gone, EventType

-----------------------------------------------------------------------------
(* Events. *)

Unrepeated(boxes) ==
  \A l \in Listener : \A i, j \in 1..Len(boxes[l]) : boxes[l][i].n = boxes[l][j].n => i = j

\* What is in an inbox after e was sent is what was in it, or e at its end.
LEMMA SentBox ==
  ASSUME NEW boxes \in [Listener -> Seq(Event)], NEW e \in Event, NEW l \in Listener,
         NEW i \in 1..Len(Sent(boxes, e)[l])
  PROVE  \/ i \in 1..Len(boxes[l]) /\ Sent(boxes, e)[l][i] = boxes[l][i]
         \/ /\ i = Len(boxes[l]) + 1 /\ i = Len(Sent(boxes, e)[l])
            /\ Sent(boxes, e)[l][i] = e
<1>1. Sent(boxes, e)[l] = boxes[l] \/ Sent(boxes, e)[l] = Append(boxes[l], e)
  BY DEF Sent
<1>2. CASE Sent(boxes, e)[l] = boxes[l]
  BY <1>2
<1>3. CASE Sent(boxes, e)[l] = Append(boxes[l], e)
  <2>1. boxes[l] \in Seq(Event) /\ Len(Append(boxes[l], e)) = Len(boxes[l]) + 1
    OBVIOUS
  <2>2. i \in 1..(Len(boxes[l]) + 1)
    BY <1>3, <2>1
  <2>3. CASE i = Len(boxes[l]) + 1
    BY <1>3, <2>1, <2>3
  <2>4. CASE i \in 1..Len(boxes[l])
    BY <1>3, <2>1, <2>4
  <2>. QED  BY <2>1, <2>2, <2>3, <2>4
<1>. QED  BY <1>1, <1>2, <1>3

\* A new number repeats none.
LEMMA SentUnrepeated ==
  ASSUME NEW boxes \in [Listener -> Seq(Event)], NEW e \in Event, Unrepeated(boxes),
         \A l \in Listener : \A i \in 1..Len(boxes[l]) : boxes[l][i].n # e.n
  PROVE  Unrepeated(Sent(boxes, e))
<1>. SUFFICES ASSUME NEW l \in Listener,
                     NEW i \in 1..Len(Sent(boxes, e)[l]), NEW j \in 1..Len(Sent(boxes, e)[l]),
                     Sent(boxes, e)[l][i].n = Sent(boxes, e)[l][j].n
              PROVE  i = j
  BY DEF Unrepeated
<1>. QED  BY SentBox DEF Unrepeated

\* Inboxes of a running server hold numbers given out before, and no close.
Plain(boxes) ==
  /\ boxes \in [Listener -> Seq(Event)]
  /\ \A l \in Listener : \A i \in 1..Len(boxes[l]) :
       boxes[l][i].n <= MaxEvent /\ boxes[l][i].type # "on_close"

\* terminate puts the close behind what was sent, with a number of its own.
LEMMA TerminateStep ==
  ASSUME NEW boxes, Plain(boxes), Unrepeated(boxes), Terminate(boxes)
  PROVE  (EventsInv /\ InboxInv /\ CloseIsLast)'
<1>. DEFINE told == Sent(boxes, CloseMessage)
<1>1. inbox' = told /\ server' = "ended" /\ object' = "closed" /\ sending' = {}
  BY DEF Terminate, Gone
<1>2. \A l \in Listener : \A i \in 1..Len(boxes[l]) : boxes[l][i].n # CloseMessage.n
  BY ListenerAssumption DEF Plain, Event, CloseMessage
<1>3. boxes \in [Listener -> Seq(Event)] /\ CloseMessage \in Event
  BY CloseMessageType DEF Plain
<1>4. Unrepeated(told)
  BY <1>2, <1>3, SentUnrepeated
<1>5. EventsInv'
  BY <1>1 DEF EventsInv
<1>6. InboxInv'
  BY <1>1, <1>4 DEF InboxInv, Unrepeated
<1>7. \A l \in Listener : \A i \in 1..Len(told[l]) :
        told[l][i].type = "on_close" => i = Len(told[l])
  <2>. TAKE l \in Listener
  <2>. TAKE i \in 1..Len(told[l])
  <2>. QED  BY <1>3, SentBox DEF Plain
<1>8. CloseIsLast'
  BY <1>1, <1>4, <1>7 DEF CloseIsLast, Unrepeated
<1>. QED  BY <1>5, <1>6, <1>8

LEMMA EventsStep ==
  TypeOK /\ EventsInv /\ InboxInv /\ CloseIsLast /\ [Next]_vars
    => (EventsInv /\ InboxInv /\ CloseIsLast)'
<1>. SUFFICES ASSUME TypeOK, EventsInv, InboxInv, CloseIsLast, [Next]_vars
              PROVE  (EventsInv /\ InboxInv /\ CloseIsLast)'
  OBVIOUS
<1>0. server = "running" => Plain(inbox) /\ Unrepeated(inbox)
  <2>. SUFFICES ASSUME server = "running" PROVE Plain(inbox)
    BY DEF InboxInv, Unrepeated
  <2>. SUFFICES ASSUME NEW l \in Listener, NEW i \in 1..Len(inbox[l])
                PROVE  inbox[l][i].n <= MaxEvent /\ inbox[l][i].type # "on_close"
    BY DEF Plain, TypeOK
  <2>1. inbox[l][i].n < fired /\ inbox[l][i].type # "on_close"
    BY DEF EventsInv
  <2>2. inbox[l][i] \in Event
    BY DEF TypeOK
  <2>. QED  BY <2>1, <2>2, ListenerAssumption DEF TypeOK, Event
<1>1. ASSUME UNCHANGED <<server, object, sending, fired, inbox>>
      PROVE  (EventsInv /\ InboxInv /\ CloseIsLast)'
  BY <1>1 DEF EventsInv, InboxInv, CloseIsLast
<1>2. ASSUME NEW type \in EventType, Fire(type), UNCHANGED <<server, inbox>>,
             object = "open", fired < MaxEvent \/ object' = "closed"
      PROVE  (EventsInv /\ InboxInv /\ CloseIsLast)'
  <2>1. InboxInv' /\ CloseIsLast'
    BY <1>2 DEF InboxInv, CloseIsLast
  <2>2. fired' = fired + 1 /\ fired \in Nat
    BY <1>2, ListenerAssumption DEF Fire, TypeOK
  <2>3. object' = "open" => fired' <= MaxEvent
    BY <1>2, <2>2, ListenerAssumption
  <2>4. \A e \in sending' : e \in sending \/ (e.n = fired /\ e = [n |-> fired, type |-> type])
    BY <1>2 DEF Fire
  <2>5. \A e \in sending : e.n \in Nat /\ e.n < fired
    BY ListenerAssumption DEF EventsInv, TypeOK, Event
  <2>6. \A e \in sending' : \A f \in sending' : e.n < fired' /\ (e.n = f.n => e = f)
    BY <2>2, <2>4, <2>5 DEF EventsInv
  <2>7. ASSUME server' = "running", NEW l \in Listener, NEW i \in 1..Len(inbox'[l])
        PROVE  /\ inbox'[l][i].n < fired' /\ inbox'[l][i].type # "on_close"
               /\ \A e \in sending' : e.n # inbox'[l][i].n
    <3>1. inbox[l][i].n < fired /\ inbox[l][i].type # "on_close"
            /\ \A e \in sending : e.n # inbox[l][i].n
      BY <1>2, <2>7 DEF EventsInv
    <3>2. inbox[l][i].n \in Nat
      <4>1. inbox[l] \in Seq(Event) /\ i \in 1..Len(inbox[l])
        BY <1>2, <2>7 DEF TypeOK
      <4>2. inbox[l][i] \in Event
        BY <4>1
      <4>. QED  BY <4>2, ListenerAssumption DEF Event
    <3>. QED  BY <1>2, <2>2, <2>4, <3>1, <3>2
  <2>. QED  BY <2>1, <2>3, <2>6, <2>7 DEF EventsInv
<1>3. ASSUME NEW e \in sending, PassOn(e)
      PROVE  (EventsInv /\ InboxInv /\ CloseIsLast)'
  <2>1. server = "running" /\ inbox' = Sent(inbox, e) /\ sending' = sending \ {e}
          /\ e.type = "on_other" /\ UNCHANGED <<server, object, fired>>
    BY <1>3 DEF PassOn
  <2>2. inbox \in [Listener -> Seq(Event)] /\ e \in Event
    BY DEF TypeOK
  <2>3. Unrepeated(inbox')
    BY <1>0, <2>1, <2>2, SentUnrepeated DEF EventsInv
  <2>4. ASSUME NEW l \in Listener, NEW i \in 1..Len(inbox'[l])
        PROVE  /\ inbox'[l][i].n < fired /\ inbox'[l][i].type # "on_close"
               /\ \A f \in sending' : f.n # inbox'[l][i].n
    <3>1. inbox'[l][i] = e \/ \E k \in 1..Len(inbox[l]) : inbox'[l][i] = inbox[l][k]
      BY <2>1, <2>2, SentBox
    <3>. QED  BY <2>1, <3>1 DEF EventsInv
  <2>5. EventsInv'
    BY <2>1, <2>4 DEF EventsInv
  <2>6. InboxInv' /\ CloseIsLast'
    BY <2>3, <2>4 DEF InboxInv, CloseIsLast, Unrepeated
  <2>. QED  BY <2>5, <2>6
<1>4. ASSUME NEW e \in sending, StopByEvent(e)
      PROVE  (EventsInv /\ InboxInv /\ CloseIsLast)'
  <2>1. server = "running" /\ e \in Event /\ inbox \in [Listener -> Seq(Event)]
    BY <1>4 DEF StopByEvent, TypeOK
  <2>2. CASE e.type = "on_dead" /\ Terminate(Sent(inbox, e))
    <3>1. Sent(inbox, e) \in [Listener -> Seq(Event)]
      BY <2>1, SentType
    <3>2. Unrepeated(Sent(inbox, e))
      BY <1>0, <2>1, SentUnrepeated DEF EventsInv
    <3>3. e.n <= MaxEvent
      BY <2>1, ListenerAssumption DEF EventsInv, TypeOK, Event
    <3>4. Plain(Sent(inbox, e))
      <4>. SUFFICES ASSUME NEW l \in Listener, NEW i \in 1..Len(Sent(inbox, e)[l])
                    PROVE  /\ Sent(inbox, e)[l][i].n <= MaxEvent
                           /\ Sent(inbox, e)[l][i].type # "on_close"
        BY <3>1 DEF Plain
      <4>1. \/ Sent(inbox, e)[l][i] = e
            \/ \E k \in 1..Len(inbox[l]) : Sent(inbox, e)[l][i] = inbox[l][k]
        BY <2>1, SentBox
      <4>. QED  BY <1>0, <2>1, <2>2, <3>3, <4>1 DEF Plain
    <3>. QED  BY <2>2, <3>2, <3>4, TerminateStep
  <2>3. CASE Terminate(inbox)
    BY <1>0, <2>1, <2>3, TerminateStep
  <2>. QED  BY <1>4, <2>2, <2>3 DEF StopByEvent
<1>5. CASE Close
  BY <1>0, <1>5, TerminateStep DEF Close
<1>6. CASE Kill
  <2>1. server = "running" /\ server' = "killed" /\ object' = "closed" /\ sending' = {}
          /\ inbox' = inbox
    BY <1>6 DEF Kill, Gone
  <2>2. EventsInv' /\ InboxInv'
    BY <2>1 DEF EventsInv, InboxInv
  <2>3. CloseIsLast'
    BY <1>0, <2>1 DEF CloseIsLast, Plain
  <2>. QED  BY <2>2, <2>3
<1>7. ASSUME NEW type \in EventType, Emit(type)
      PROVE  (EventsInv /\ InboxInv /\ CloseIsLast)'
  BY <1>2, <1>7 DEF Emit
<1>8. CASE NativeClose
  <2>1. "on_close" \in EventType
    BY DEF EventType
  <2>. QED  BY <1>2, <1>8, <2>1 DEF NativeClose
<1>. QED
  BY <1>1, <1>3, <1>4, <1>5, <1>6, <1>7, <1>8
     DEF Next, vars, Subscribe, HandleCall, ListenerDies, HandleDown

-----------------------------------------------------------------------------
(* The close. *)

\* Who is listed, runs and asked for e has it last when it was sent.
LEMMA SentIsLast ==
  ASSUME NEW boxes \in [Listener -> Seq(Event)], NEW e \in Event,
         NEW l \in listed \cap alive, l \in Listener, e.type \in types[l]
  PROVE  Len(Sent(boxes, e)[l]) > 0 /\ Sent(boxes, e)[l][Len(Sent(boxes, e)[l])] = e
<1>1. Sent(boxes, e)[l] = Append(boxes[l], e) /\ boxes[l] \in Seq(Event)
  BY DEF Sent
<1>2. Len(Append(boxes[l], e)) = Len(boxes[l]) + 1 /\ Len(boxes[l]) \in Nat
      /\ Append(boxes[l], e)[Len(boxes[l]) + 1] = e
  BY <1>1
<1>. QED  BY <1>1, <1>2

\* terminate tells everyone who is still to hear it.
LEMMA TerminateTells ==
  ASSUME TypeOK, NEW boxes \in [Listener -> Seq(Event)], Terminate(boxes)
  PROVE  CloseInv'
<1>1. /\ inbox' = Sent(boxes, CloseMessage) /\ server' = "ended"
      /\ UNCHANGED <<alive, listed, types>>
  BY DEF Terminate, Gone
<1>2. ASSUME NEW l \in listed \cap alive, "on_close" \in types[l]
      PROVE  /\ Len(inbox'[l]) > 0
             /\ inbox'[l][Len(inbox'[l])].type = "on_close"
  <2>1. l \in Listener /\ CloseMessage.type = "on_close"
    BY <1>2 DEF TypeOK, CloseMessage
  <2>2. inbox'[l][Len(inbox'[l])] = CloseMessage /\ Len(inbox'[l]) > 0
    BY <1>1, <1>2, <2>1, SentIsLast, CloseMessageType
  <2>. QED  BY <2>1, <2>2
<1>. QED  BY <1>1, <1>2 DEF CloseInv

\* Only the server itself takes the close from its way, and then it tells it.
LEMMA CloseStep == TypeOK /\ CloseInv /\ [Next]_vars => CloseInv'
<1>. SUFFICES ASSUME TypeOK, CloseInv, [Next]_vars PROVE CloseInv'
  OBVIOUS
<1>1. ASSUME UNCHANGED <<server, object, sending, listed, types, inbox>>, alive' \subseteq alive
      PROVE CloseInv'
  BY <1>1 DEF CloseInv
<1>2. ASSUME server = "running", UNCHANGED <<server, object, sending>> PROVE CloseInv'
  BY <1>2 DEF CloseInv
<1>3. ASSUME NEW type \in EventType, Emit(type) PROVE CloseInv'
  BY <1>3 DEF Emit, Fire, CloseInv
<1>4. CASE NativeClose
  <2>1. server = "running" /\ "on_close" \in Registered
          => [n |-> fired, type |-> "on_close"] \in sending'
    BY <1>4 DEF NativeClose, Fire
  <2>. QED  BY <1>4, <2>1 DEF NativeClose, CloseInv
<1>5. ASSUME NEW e \in sending, PassOn(e) PROVE CloseInv'
  BY <1>5 DEF PassOn, CloseInv
<1>6. ASSUME NEW e \in sending, StopByEvent(e) PROVE CloseInv'
  <2>1. Sent(inbox, e) \in [Listener -> Seq(Event)] /\ inbox \in [Listener -> Seq(Event)]
    BY SentType DEF TypeOK
  <2>. QED  BY <1>6, <2>1, TerminateTells DEF StopByEvent
<1>7. CASE Close
  BY <1>7, TerminateTells DEF Close, TypeOK
<1>8. CASE Kill
  BY <1>8 DEF Kill, Gone, CloseInv
<1>. QED
  BY <1>1, <1>2, <1>3, <1>4, <1>5, <1>6, <1>7, <1>8
     DEF Next, vars, Subscribe, HandleCall, ListenerDies, HandleDown

LEMMA LeavesNobodyOut == TypeOK /\ ListedAreWatched /\ CloseInv => NobodyLeftOut
<1>. SUFFICES ASSUME TypeOK, ListedAreWatched, CloseInv PROVE NobodyLeftOut
  OBVIOUS
<1>1. server = "ended" => \A l \in listed \cap alive : "on_close" \in types[l] =>
        \E i \in 1..Len(inbox[l]) : inbox[l][i].type = "on_close"
  <2>. SUFFICES ASSUME server = "ended", NEW l \in listed \cap alive, "on_close" \in types[l]
       PROVE  \E i \in 1..Len(inbox[l]) : inbox[l][i].type = "on_close"
    OBVIOUS
  <2>1. Len(inbox[l]) > 0 /\ inbox[l][Len(inbox[l])].type = "on_close"
    BY DEF CloseInv
  <2>2. Len(inbox[l]) \in Nat
    BY DEF TypeOK
  <2>. QED  BY <2>1, <2>2
<1>2. server = "running" /\ down = {} => listed \subseteq alive
  BY DEF ListedAreWatched
<1>3. server = "running" /\ sending = {} /\ "on_close" \in Registered => object = "open"
  BY DEF CloseInv, TypeOK
<1>. QED  BY <1>1, <1>2, <1>3 DEF NobodyLeftOut

-----------------------------------------------------------------------------
(* The theorems. *)

\* The invariant holds in every state.
THEOREM ListenerInvariance == Spec => []IInv
<1>1. IInv /\ [Next]_vars => IInv'
  <2>1. (TypeOK /\ ListedAreWatched /\ CloseInv)' => NobodyLeftOut'
    BY LeavesNobodyOut, PTL
  <2>. QED  BY <2>1, TypeStep, WatchStep, EventsStep, CloseStep DEF IInv
<1>. QED  BY ListenerInit, <1>1, PTL DEF Spec

\* A running server has, for each listener it lists, an armed monitor or a
\* :DOWN to read (EventListener.add and remove, and every :DOWN clause).
THEOREM NobodyUnwatched == Spec => []ListedAreWatched
<1>1. IInv => ListedAreWatched
  BY DEF IInv
<1>. QED  BY ListenerInvariance, <1>1, PTL

\* Each native event reaches a listener at most once, and {:on_close} is the
\* last it is sent, by a terminate that ran (terminate of every server).
THEOREM CloseComesLast == Spec => []CloseIsLast
<1>1. IInv => CloseIsLast
  BY DEF IInv
<1>. QED  BY ListenerInvariance, <1>1, PTL

\* For any number of listeners: a server at rest has left nobody out, of the end of its
\* object or of its own, and nobody dead stays listed. That it comes to rest needs its
\* mailbox to be read, and is model-checked.
THEOREM RestLeavesNobodyOut == Spec => []NobodyLeftOut
<1>1. IInv => NobodyLeftOut
  BY DEF IInv
<1>. QED  BY ListenerInvariance, <1>1, PTL
=============================================================================
