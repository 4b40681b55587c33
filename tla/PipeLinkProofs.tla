--------------------------- MODULE PipeLinkProofs ---------------------------
(***************************************************************************)
(* Proofs about PipeLink for any number of changes of the source: a side   *)
(* that outlives the other is tied to it; every step is one of PipeEnds    *)
(* and one of PipeChanges, or none; and for a user that changes the source *)
(* after the link and one change at a time, the two ends of a pipe agree   *)
(* whenever nothing is under way.                                          *)
(***************************************************************************)
EXTENDS PipeLink, TLAPS

\* The call has not begun; nothing is under way.
LEMMA LinkInit == Init => IInv
<1>. SUFFICES ASSUME Init PROVE IInv
  OBVIOUS
<1>1. toggles \in 0..MaxToggle
  BY PipeAssumption DEF Init
<1>2. toProducer \in Seq(Change)
  BY DEF Init
<1>3. TypeOK
  BY <1>1, <1>2 DEF Init, TypeOK, Side
<1>4. StagesInv
  BY DEF Init, StagesInv, Side
<1>5. linked = {} /\ AtRest /\ \A s \in Side : ~Running(s)
  BY DEF Init, AtRest, Running
<1>6. AgreementInv
  BY <1>5 DEF AgreementInv, Side
<1>7. TiedInv
  BY DEF Init, TiedInv
<1>8. OnePlaceInv
  BY DEF Init, OnePlaceInv, Queued
<1>. QED  BY <1>3, <1>4, <1>6, <1>7, <1>8 DEF IInv

\* Every action keeps the types, whatever the user of the source does.
LEMMA TypeStep == TypeOK /\ [Next]_vars => TypeOK'
<1>. SUFFICES ASSUME TypeOK, [Next]_vars PROVE TypeOK'
  OBVIOUS
<1>. USE PipeAssumption DEF TypeOK, Side, history
<1>1. CASE Consume \/ ReadPaused \/ Produce
  BY <1>1 DEF Consume, ReadPaused, Produce
<1>2. CASE Link
  BY <1>2 DEF Link, Cast
<1>3. CASE Toggle
  <2>1. toggles' \in 0..MaxToggle /\ toggles' \in 1..MaxToggle
    <3>1. toggles \in 0..MaxToggle /\ MaxToggle \in Nat
      OBVIOUS
    <3>2. toggles < MaxToggle /\ toggles' = toggles + 1
      BY <1>3 DEF Toggle
    <3>. QED  BY <3>1, <3>2
  <2>2. source' = ~source /\ source' \in BOOLEAN
    BY <1>3 DEF Toggle
  <2>3. [n |-> toggles', paused |-> source'] \in Change
    BY <2>1, <2>2 DEF Change
  <2>4. events' \subseteq Change
    BY <1>3, <2>3 DEF Toggle
  <2>5. guessed' \in BOOLEAN /\ early' \in BOOLEAN /\ hasty' \in BOOLEAN
    BY <1>3 DEF Toggle
  <2>. QED  BY <1>3, <2>1, <2>2, <2>4, <2>5 DEF Toggle
<1>4. CASE HandlePiped
  <2>1. Head(toProducer) \in Change /\ toProducer' \in Seq(Change)
    BY <1>4 DEF HandlePiped
  <2>. QED  BY <1>4, <2>1 DEF HandlePiped
<1>5. ASSUME NEW e \in events, HandleEvent(e) PROVE TypeOK'
  BY <1>5 DEF HandleEvent
<1>6. ASSUME NEW e \in tasks, TaskDone(e) PROVE TypeOK'
  BY <1>6 DEF TaskDone, Change
<1>7. ASSUME NEW s \in Side, HandleLink(s) PROVE TypeOK'
  BY <1>7 DEF HandleLink
<1>8. ASSUME NEW s \in Side, End(s) PROVE TypeOK'
  BY <1>8 DEF End
<1>9. CASE UNCHANGED vars
  BY <1>9 DEF vars
<1>. QED
  BY <1>1, <1>2, <1>3, <1>4, <1>5, <1>6, <1>7, <1>8, <1>9 DEF Next, Down

\* The stages of the call, the sides that run and the casts stay in step.
LEMMA StagesStep == TypeOK /\ StagesInv /\ [Next]_vars => StagesInv'
<1>. SUFFICES ASSUME TypeOK, StagesInv, [Next]_vars PROVE StagesInv'
  OBVIOUS
<1>. USE DEF TypeOK, StagesInv, Side
<1>1. CASE Consume \/ ReadPaused \/ Produce
  BY <1>1 DEF Consume, ReadPaused, Produce
<1>2. CASE Link
  BY <1>2 DEF Link, Cast
<1>3. CASE Toggle \/ HandlePiped \/ UNCHANGED vars
  BY <1>3 DEF Toggle, HandlePiped, vars
<1>4. ASSUME NEW e, HandleEvent(e) \/ TaskDone(e) PROVE StagesInv'
  BY <1>4 DEF HandleEvent, TaskDone
<1>5. ASSUME NEW s \in Side, HandleLink(s) PROVE StagesInv'
  BY <1>5 DEF HandleLink
<1>6. ASSUME NEW s \in Side, End(s) PROVE StagesInv'
  BY <1>6 DEF End, Running
<1>. QED
  BY <1>1, <1>2, <1>3, <1>4, <1>5, <1>6 DEF Next, Down

\* The tie is kept: a cast leaves the mailbox into a monitor or with its process.
LEMMA TiedStep == TypeOK /\ StagesInv /\ TiedInv /\ [Next]_vars => TiedInv'
<1>. SUFFICES ASSUME TypeOK, StagesInv, TiedInv, [Next]_vars PROVE TiedInv'
  OBVIOUS
<1>. USE DEF TypeOK, TiedInv, Side, Running
<1>1. CASE Consume \/ ReadPaused \/ Produce
  BY <1>1 DEF Consume, ReadPaused, Produce, StagesInv
<1>2. CASE Link
  BY <1>2 DEF Link, Cast
<1>3. CASE Toggle \/ HandlePiped \/ UNCHANGED vars
  BY <1>3 DEF Toggle, HandlePiped, vars
<1>4. ASSUME NEW e, HandleEvent(e) \/ TaskDone(e) PROVE TiedInv'
  BY <1>4 DEF HandleEvent, TaskDone
<1>5. ASSUME NEW s \in Side, HandleLink(s) PROVE TiedInv'
  BY <1>5 DEF HandleLink
<1>6. ASSUME NEW s \in Side, End(s) PROVE TiedInv'
  BY <1>6 DEF End
<1>. QED
  BY <1>1, <1>2, <1>3, <1>4, <1>5, <1>6 DEF Next, Down

\* What Head takes from a queue without repetitions is not in its Tail; what Append
\* adds, if it was not there, makes no repetition.
LEMMA QueueWithoutRepetition ==
  ASSUME NEW S, NEW q \in Seq(S), \A i, j \in DOMAIN q : q[i] = q[j] => i = j
  PROVE  /\ q # <<>> =>
              /\ Head(q) \in {q[i] : i \in DOMAIN q}
              /\ {Tail(q)[i] : i \in DOMAIN Tail(q)} = {q[i] : i \in DOMAIN q} \ {Head(q)}
              /\ \A i, j \in DOMAIN Tail(q) : Tail(q)[i] = Tail(q)[j] => i = j
         /\ \A e \in S : e \notin {q[i] : i \in DOMAIN q} =>
              /\ {Append(q, e)[i] : i \in DOMAIN Append(q, e)} = {q[i] : i \in DOMAIN q} \cup {e}
              /\ \A i, j \in DOMAIN Append(q, e) : Append(q, e)[i] = Append(q, e)[j] => i = j
<1>1. ASSUME q # <<>>
      PROVE /\ Head(q) \in {q[i] : i \in DOMAIN q}
            /\ {Tail(q)[i] : i \in DOMAIN Tail(q)} = {q[i] : i \in DOMAIN q} \ {Head(q)}
            /\ \A i, j \in DOMAIN Tail(q) : Tail(q)[i] = Tail(q)[j] => i = j
  <2>1. /\ Head(q) = q[1] /\ 1 \in DOMAIN q
        /\ DOMAIN Tail(q) = 1..(Len(q) - 1) /\ DOMAIN q = 1..Len(q) /\ Len(q) \in Nat
        /\ \A i \in DOMAIN Tail(q) : Tail(q)[i] = q[i + 1] /\ i + 1 \in DOMAIN q
    BY <1>1
  <2>2. \A i \in DOMAIN q : i = 1 \/ (i - 1 \in DOMAIN Tail(q) /\ q[i] = Tail(q)[i - 1])
    BY <2>1
  <2>3. \A i \in DOMAIN Tail(q) : Tail(q)[i] # Head(q)
    BY <2>1
  <2>4. {Tail(q)[i] : i \in DOMAIN Tail(q)} \subseteq {q[i] : i \in DOMAIN q} \ {Head(q)}
    BY <2>1, <2>3
  <2>5. {q[i] : i \in DOMAIN q} \ {Head(q)} \subseteq {Tail(q)[i] : i \in DOMAIN Tail(q)}
    BY <2>1, <2>2
  <2>6. ASSUME NEW i \in DOMAIN Tail(q), NEW j \in DOMAIN Tail(q), Tail(q)[i] = Tail(q)[j]
        PROVE  i = j
    <3>1. i + 1 = j + 1
      BY <2>1, <2>6
    <3>. QED  BY <2>1, <3>1
  <2>. QED  BY <2>1, <2>4, <2>5, <2>6
<1>2. ASSUME NEW e \in S, e \notin {q[i] : i \in DOMAIN q}
      PROVE /\ {Append(q, e)[i] : i \in DOMAIN Append(q, e)} = {q[i] : i \in DOMAIN q} \cup {e}
            /\ \A i, j \in DOMAIN Append(q, e) : Append(q, e)[i] = Append(q, e)[j] => i = j
  <2>1. /\ DOMAIN Append(q, e) = DOMAIN q \cup {Len(q) + 1} /\ Len(q) + 1 \notin DOMAIN q
        /\ Append(q, e)[Len(q) + 1] = e
        /\ \A i \in DOMAIN q : Append(q, e)[i] = q[i]
    OBVIOUS
  <2>. QED  BY <1>2, <2>1
<1>. QED  BY <1>1, <1>2

\* A change moves on from place to place, or is lost.
LEMMA OnePlaceStep == TypeOK /\ OnePlaceInv /\ [Next]_vars => OnePlaceInv'
<1>. SUFFICES ASSUME TypeOK, OnePlaceInv, [Next]_vars PROVE OnePlaceInv'
  OBVIOUS
<1>1. CASE UNCHANGED <<events, toProducer, tasks, toggles>>
  BY <1>1 DEF OnePlaceInv, Queued
<1>2. CASE Toggle
  <2>1. UNCHANGED <<toProducer, tasks>> /\ toggles' = toggles + 1
        /\ events' \in {events, events \cup {[n |-> toggles + 1, paused |-> source']}}
    BY <1>2 DEF Toggle
  <2>2. \A e \in events \cup Queued \cup tasks : e.n <= toggles
    BY DEF OnePlaceInv
  <2>3. [n |-> toggles + 1, paused |-> source'] \notin events \cup Queued \cup tasks
    BY <2>2, PipeAssumption DEF TypeOK
  <2>4. toggles \in Nat /\ Queued' = Queued
    BY <2>1, PipeAssumption DEF Queued, TypeOK
  <2>5. \A e \in events' \cup Queued' \cup tasks' : e.n <= toggles'
    <3>0. \A e \in Change : e.n \in Nat
      BY PipeAssumption DEF Change
    <3>1. \A e \in events \cup Queued \cup tasks : e.n \in Nat
      <4>1. Queued \subseteq Change
        BY DEF TypeOK, Queued
      <4>. QED  BY <3>0, <4>1 DEF TypeOK
    <3>. QED  BY <2>1, <2>2, <2>4, <3>1
  <2>6. events' \cap tasks' = {} /\ Queued' \cap (events' \cup tasks') = {}
    BY <2>1, <2>3, <2>4 DEF OnePlaceInv
  <2>. QED  BY <2>1, <2>5, <2>6 DEF OnePlaceInv
<1>3. ASSUME NEW e \in events, HandleEvent(e) PROVE OnePlaceInv'
  <2>1. events' = events \ {e} /\ UNCHANGED <<tasks, toggles>> /\ e \notin Queued /\ e \in Change
    BY <1>3 DEF HandleEvent, OnePlaceInv, TypeOK
  <2>2. CASE toProducer' = toProducer
    BY <2>1, <2>2 DEF OnePlaceInv, Queued
  <2>3. CASE toProducer' = Append(toProducer, e)
    <3>1. Queued' = Queued \cup {e}
          /\ \A i, j \in DOMAIN toProducer' : toProducer'[i] = toProducer'[j] => i = j
      <4>1. /\ toProducer \in Seq(Change) /\ e \notin {toProducer[i] : i \in DOMAIN toProducer}
            /\ \A i, j \in DOMAIN toProducer : toProducer[i] = toProducer[j] => i = j
        BY <2>1 DEF OnePlaceInv, Queued, TypeOK
      <4>2. LET q == Append(toProducer, e) IN
              /\ {q[i] : i \in DOMAIN q} = {toProducer[i] : i \in DOMAIN toProducer} \cup {e}
              /\ \A i, j \in DOMAIN q : q[i] = q[j] => i = j
        BY <2>1, <4>1, QueueWithoutRepetition
      <4>. QED  BY <2>3, <4>2 DEF Queued
    <3>. QED  BY <2>1, <3>1 DEF OnePlaceInv
  <2>. QED  BY <1>3, <2>2, <2>3 DEF HandleEvent
<1>4. CASE HandlePiped
  <2>1. /\ Head(toProducer) \in Queued /\ Queued' = Queued \ {Head(toProducer)}
        /\ \A i, j \in DOMAIN toProducer' : toProducer'[i] = toProducer'[j] => i = j
    <3>1. toProducer \in Seq(Change) /\ toProducer # <<>> /\ toProducer' = Tail(toProducer)
          /\ \A i, j \in DOMAIN toProducer : toProducer[i] = toProducer[j] => i = j
      BY <1>4 DEF HandlePiped, OnePlaceInv, TypeOK
    <3>2. /\ Head(toProducer) \in {toProducer[i] : i \in DOMAIN toProducer}
          /\ {Tail(toProducer)[i] : i \in DOMAIN Tail(toProducer)}
               = {toProducer[i] : i \in DOMAIN toProducer} \ {Head(toProducer)}
          /\ \A i, j \in DOMAIN Tail(toProducer) :
               Tail(toProducer)[i] = Tail(toProducer)[j] => i = j
      BY <3>1, QueueWithoutRepetition
    <3>. QED  BY <3>1, <3>2 DEF Queued
  <2>2. UNCHANGED <<events, toggles>> /\ tasks' = tasks \cup {Head(toProducer)}
    BY <1>4 DEF HandlePiped
  <2>. QED  BY <2>1, <2>2 DEF OnePlaceInv
<1>5. ASSUME NEW e \in tasks, TaskDone(e) PROVE OnePlaceInv'
  BY <1>5 DEF TaskDone, OnePlaceInv, Queued
<1>6. ASSUME NEW s \in Side, End(s) PROVE OnePlaceInv'
  <2>1. events' \in {events, {}} /\ toProducer' \in {toProducer, <<>>} /\ UNCHANGED <<tasks, toggles>>
    BY <1>6 DEF End
  <2>. QED  BY <2>1 DEF OnePlaceInv, Queued
<1>. QED
  BY <1>1, <1>2, <1>3, <1>4, <1>5, <1>6
     DEF Next, Consume, ReadPaused, Produce, Link, HandleLink, Down, vars

\* What the user of the source once did early or hastily stays done.
LEMMA HasteStays == TypeOK /\ [Next]_vars => (early => early') /\ (hasty => hasty')
<1>. SUFFICES ASSUME TypeOK, [Next]_vars PROVE (early => early') /\ (hasty => hasty')
  OBVIOUS
<1>1. CASE Toggle
  BY <1>1 DEF Toggle
<1>2. CASE UNCHANGED <<early, hasty>>
  BY <1>2
<1>3. CASE ~Toggle
  <2>1. UNCHANGED <<early, hasty>>
    BY <1>3 DEF Next, Consume, ReadPaused, Produce, Link, HandlePiped, HandleEvent, TaskDone,
                HandleLink, Down, End, vars, history
  <2>. QED  BY <1>2, <2>1
<1>. QED  BY <1>1, <1>3

\* The agreement is kept while the user of the source waits for the link and
\* for the last change.
LEMMA AgreementStep ==
  ASSUME ~early', ~hasty', TypeOK, StagesInv, AgreementInv, [Next]_vars
  PROVE  AgreementInv'
<1>. USE DEF TypeOK, Side, history
<1>1. CASE Consume
  BY <1>1 DEF Consume, AgreementInv, StagesInv, Running, AtRest
<1>2. CASE ReadPaused
  BY <1>2 DEF ReadPaused, AgreementInv, StagesInv, Running, AtRest
<1>3. CASE Produce
  BY <1>3 DEF Produce, AgreementInv, StagesInv, Running, AtRest
<1>4. CASE Link
  BY <1>4 DEF Link, Cast, AgreementInv, StagesInv, Running, AtRest, OneUnderWay
<1>5. CASE Toggle
  <2>1. CASE linked # Side
    BY <1>5, <2>1 DEF Toggle, AgreementInv, StagesInv, Running, AtRest
  <2>2. CASE linked = Side
    <3>. DEFINE e == [n |-> toggles + 1, paused |-> ~source]
    <3>1. UNCHANGED <<linked, proc, caller, toProducer, tasks>> /\ source' = ~source
      BY <1>5 DEF Toggle
    <3>2. CASE Running("consumer")
      <4>1. e \in Change /\ e.paused = source'
        BY <1>5, PipeAssumption DEF Toggle, Change
      <4>2. events' = {e} /\ toProducer' = <<>> /\ tasks' = {}
        BY <1>5, <3>2 DEF Toggle, AtRest
      <4>3. OneUnderWay'
        BY <4>1, <4>2 DEF OneUnderWay
      <4>. QED  BY <2>2, <3>1, <4>3 DEF AgreementInv
    <3>3. CASE ~Running("consumer")
      BY <2>2, <3>1, <3>3 DEF AgreementInv, Running
    <3>. QED  BY <3>2, <3>3
  <2>. QED  BY <2>1, <2>2
<1>6. ASSUME NEW d \in events, HandleEvent(d) PROVE AgreementInv'
  <2>1. linked = Side /\ UNCHANGED <<linked, proc, source, pipe, tasks, caller, read>>
    BY <1>6 DEF HandleEvent, AgreementInv, AtRest
  <2>2. CASE Running("producer")
    <3>1. PICK e \in Change : /\ e.paused = source
                              /\ events = {e} /\ toProducer = <<>> /\ tasks = {}
      BY <1>6, <2>1, <2>2 DEF HandleEvent, AgreementInv, OneUnderWay, AtRest, Running
    <3>2. events' = {} /\ toProducer' = <<e>>
      BY <1>6, <2>1, <2>2, <3>1 DEF HandleEvent
    <3>3. OneUnderWay'
      BY <2>1, <3>1, <3>2 DEF OneUnderWay
    <3>. QED  BY <2>1, <3>3 DEF AgreementInv
  <2>3. CASE ~Running("producer")
    BY <2>1, <2>3 DEF AgreementInv, Running
  <2>. QED  BY <2>2, <2>3
<1>7. CASE HandlePiped
  <2>1. linked = Side /\ UNCHANGED <<linked, proc, source, pipe, events, caller, read>>
    BY <1>7 DEF HandlePiped, AgreementInv, AtRest
  <2>2. CASE Running("consumer")
    <3>1. PICK e \in Change : /\ e.paused = source
                              /\ events = {} /\ toProducer = <<e>> /\ tasks = {}
      BY <1>7, <2>1, <2>2 DEF HandlePiped, AgreementInv, OneUnderWay, AtRest, Running
    <3>2. toProducer' = <<>> /\ tasks' = {e}
      BY <1>7, <3>1 DEF HandlePiped
    <3>3. OneUnderWay'
      BY <2>1, <3>1, <3>2 DEF OneUnderWay
    <3>. QED  BY <2>1, <3>3 DEF AgreementInv
  <2>3. CASE ~Running("consumer")
    BY <2>1, <2>3 DEF AgreementInv, Running
  <2>. QED  BY <2>2, <2>3
<1>8. ASSUME NEW d \in tasks, TaskDone(d) PROVE AgreementInv'
  <2>1. linked = Side /\ UNCHANGED <<linked, proc, source, events, toProducer, caller, read>>
    BY <1>8 DEF TaskDone, AgreementInv, AtRest
  <2>2. CASE \A s \in Side : Running(s)
    <3>1. PICK e \in Change : /\ e.paused = source
                              /\ events = {} /\ toProducer = <<>> /\ tasks = {e}
      BY <1>8, <2>1, <2>2 DEF AgreementInv, OneUnderWay, AtRest
    <3>2. tasks' = {} /\ pipe' = source
      BY <1>8, <2>2, <3>1 DEF TaskDone
    <3>3. OneUnderWay'
      BY <2>1, <3>1, <3>2 DEF OneUnderWay, AtRest
    <3>. QED  BY <2>1, <3>3 DEF AgreementInv
  <2>3. CASE ~ \A s \in Side : Running(s)
    BY <2>1, <2>3 DEF AgreementInv, Running
  <2>. QED  BY <2>2, <2>3
<1>9. ASSUME NEW s \in Side, HandleLink(s) PROVE AgreementInv'
  <2>1. caller \in {"linking", "returned"} /\ UNCHANGED <<proc, source, pipe, events, toProducer,
                                                          tasks, caller, read, guessed>>
    BY <1>9 DEF HandleLink, StagesInv
  <2>2. linked # Side \/ linked' = linked
    BY <1>9 DEF HandleLink
  <2>3. linked' # Side => linked # Side
    BY <1>9 DEF HandleLink
  <2>. QED
    BY <2>1, <2>2, <2>3 DEF AgreementInv, OneUnderWay, AtRest, Running
<1>10. ASSUME NEW s \in Side, End(s) PROVE AgreementInv'
  <2>1. ~Running(s)' /\ \A t \in Side : Running(t)' => Running(t)
    BY <1>10 DEF End, Running
  <2>2. linked # Side => AtRest'
    BY <1>10 DEF End, AgreementInv, AtRest
  <2>3. UNCHANGED <<linked, caller, read, source, pipe, guessed>>
    BY <1>10 DEF End
  <2>4. ~ \A t \in Side : Running(t)'
    BY <2>1
  <2>5. linked' # Side => AtRest'
    BY <2>2, <2>3
  <2>6. (Running("consumer")' => Running("consumer")) /\ (Running("producer")' => Running("producer"))
    BY <2>1
  <2>. QED  BY <2>3, <2>4, <2>5, <2>6 DEF AgreementInv
<1>11. CASE UNCHANGED vars
  BY <1>11 DEF vars, AgreementInv, AtRest, OneUnderWay, Running
<1>. QED
  BY <1>1, <1>2, <1>3, <1>4, <1>5, <1>6, <1>7, <1>8, <1>9, <1>10, <1>11 DEF Next, Down

\* The inductive invariant holds for every user of the source and every way the
\* two sides end.
THEOREM LinkInvariance == Spec => []IInv
<1>1. Init => IInv
  BY LinkInit
<1>2. IInv /\ [Next]_vars => IInv'
  <2>. SUFFICES ASSUME IInv, [Next]_vars PROVE IInv'
    OBVIOUS
  <2>1. TypeOK' /\ StagesInv' /\ TiedInv' /\ OnePlaceInv'
    BY TypeStep, StagesStep, TiedStep, OnePlaceStep DEF IInv
  <2>2. ASSUME ~early', ~hasty' PROVE AgreementInv'
    BY <2>2, HasteStays, AgreementStep DEF IInv
  <2>. QED  BY <2>1, <2>2 DEF IInv
<1>. QED  BY <1>1, <1>2, PTL DEF Spec

\* Whatever the number of changes: at rest the pipe Producer is paused exactly
\* when the source is, if the source was changed after the link and not again
\* before it rested, and the caller did not guess, or a change has come since.
\* (The runs PipeLinkStale and PipeLinkReorder show that the first two conditions
\* cannot be dropped, ReadPaused the third.)
THEOREM LinkedEndsAgree == Spec => []AgreeAtRest
<1>1. IInv => AgreeAtRest
  <2>. SUFFICES ASSUME IInv, ~early, ~hasty, ~guessed, linked = Side, AtRest, \A s \in Side : Running(s)
                PROVE  pipe = source
    BY DEF AgreeAtRest, EndsAgree
  <2>1. OneUnderWay
    BY DEF IInv, AgreementInv
  <2>. QED  BY <2>1 DEF OneUnderWay, AtRest
<1>. QED  BY <1>1, LinkInvariance, PTL

\* The safety half of PairEndsTogether: once both casts are given, a side that
\* outlives the other monitors it or has the cast still in its mailbox.
THEOREM LoneSideIsTied ==
  Spec => [](\A s \in Side : given = Side /\ Running(s) => s \in casts \cup linked)
<1>1. IInv => \A s \in Side : given = Side /\ Running(s) => s \in casts \cup linked
  BY DEF IInv, TiedInv
<1>. QED  BY <1>1, LinkInvariance, PTL

-----------------------------------------------------------------------------
(* What the pipe implements. *)

\* Every step of the pipe opens, links or closes its ends as PipeEnds says, or leaves
\* them: Consume and Produce open, the second cast links, and a side ends by itself
\* or with the other.
LEMMA EndsStep == IInv /\ [Next]_vars => [Ends!EndsNext]_Ends!ends
<1>. SUFFICES ASSUME IInv, [Next]_vars PROVE [Ends!EndsNext]_Ends!ends
  OBVIOUS
<1>. DEFINE C == [p \in {"pipe"} |-> EndOf("consumer")]
            P == [p \in {"pipe"} |-> EndOf("producer")]
            L == IF given = Side THEN {"pipe"} ELSE {}
<1>. TypeOK /\ StagesInv
  BY DEF IInv
<1>. USE DEF TypeOK, Side
<1>1. ASSUME UNCHANGED <<proc, given>> PROVE UNCHANGED Ends!ends
  BY <1>1 DEF Ends!ends, EndOf
<1>2. CASE Consume
  <2>1. proc["consumer"] = "absent" /\ proc["producer"] = "absent" /\ given = {}
    BY <1>2 DEF Consume, StagesInv
  <2>2. proc' = [proc EXCEPT !["consumer"] = "running"] /\ given' = given
    BY <1>2 DEF Consume
  <2>3. C["pipe"] = "none" /\ P["pipe"] = "none" /\ "pipe" \notin L
        /\ C' = [C EXCEPT !["pipe"] = "open"] /\ UNCHANGED <<P, L>>
    BY <2>1, <2>2 DEF EndOf
  <2>. QED  BY <2>3 DEF Ends!EndsNext, Ends!OpenConsumer
<1>3. CASE Produce
  <2>1. CASE proc' = [proc EXCEPT !["producer"] = "running"] /\ given' = given
    <3>1. proc["consumer"] # "absent" /\ proc["producer"] = "absent" /\ given = {}
      BY <1>3 DEF Produce, StagesInv
    <3>2. C["pipe"] # "none" /\ P["pipe"] = "none" /\ "pipe" \notin L
          /\ P' = [P EXCEPT !["pipe"] = "open"] /\ UNCHANGED <<C, L>>
      BY <2>1, <3>1 DEF EndOf
    <3>. QED  BY <3>2 DEF Ends!EndsNext, Ends!OpenProducer
  <2>. QED  BY <1>1, <1>3, <2>1 DEF Produce
<1>4. CASE Link
  <2>1. CASE caller = "link"
    <3>1. given' = {"consumer"} /\ given = {} /\ proc' = proc
      BY <1>4, <2>1 DEF Link, Cast, StagesInv
    <3>. QED  BY <3>1 DEF Ends!ends, EndOf
  <2>2. CASE caller = "linking"
    <3>1. given = {"consumer"} /\ given' = Side /\ proc' = proc
      BY <1>4, <2>2 DEF Link, Cast, StagesInv
    <3>2. proc["consumer"] # "absent" /\ proc["producer"] # "absent"
      BY <2>2 DEF StagesInv
    <3>3. C["pipe"] # "none" /\ P["pipe"] # "none" /\ "pipe" \notin L
          /\ L' = L \cup {"pipe"} /\ UNCHANGED <<C, P>>
      BY <3>1, <3>2 DEF EndOf
    <3>. QED  BY <3>3 DEF Ends!EndsNext, Ends!LinkEnds
  <2>. QED  BY <1>4, <2>1, <2>2 DEF Link
<1>5. ASSUME NEW s \in Side, End(s) PROVE Ends!EndsNext
  <2>1. proc[s] = "running" /\ proc' = [proc EXCEPT ![s] = "dead"] /\ given' = given
    BY <1>5 DEF End, Running
  <2>2. CASE s = "consumer"
    <3>1. C["pipe"] = "open" /\ C' = [p \in {"pipe"} |-> IF p \in {"pipe"} THEN "closed" ELSE C[p]]
          /\ UNCHANGED <<P, L>>
      BY <2>1, <2>2 DEF EndOf
    <3>. QED  BY <3>1 DEF Ends!EndsNext, Ends!CloseEnds, Ends!Closed
  <2>3. CASE s = "producer"
    <3>1. P["pipe"] = "open" /\ P' = [p \in {"pipe"} |-> IF p \in {"pipe"} THEN "closed" ELSE P[p]]
          /\ UNCHANGED <<C, L>>
      BY <2>1, <2>3 DEF EndOf
    <3>. QED  BY <3>1 DEF Ends!EndsNext, Ends!CloseEnds, Ends!Closed
  <2>. QED  BY <2>2, <2>3
<1>. QED
  BY <1>1, <1>2, <1>3, <1>4, <1>5
     DEF Next, ReadPaused, Toggle, HandlePiped, HandleEvent, TaskDone, HandleLink, Down, vars

\* Every step of the pipe sends a change on, loses some, or lets one take effect, which
\* is then nowhere else.
LEMMA ChangesStep == IInv /\ [Next]_vars => [Changes!ChangesNext]_Changes!changes
<1>. SUFFICES ASSUME IInv, [Next]_vars PROVE [Changes!ChangesNext]_Changes!changes
  OBVIOUS
<1>. DEFINE Pending == events \cup Queued \cup tasks
            Opened  == proc["producer"] # "absent"
<1>. TypeOK /\ StagesInv /\ OnePlaceInv
  BY DEF IInv
<1>0. ASSUME Pending' \subseteq Pending, UNCHANGED <<source, toggles, Opened, pipe>>
      PROVE  Changes!ChangesNext
  BY <1>0 DEF Changes!ChangesNext, Changes!Lose
<1>1. CASE Consume \/ ReadPaused \/ Link \/ UNCHANGED vars
  <2>1. UNCHANGED <<events, toProducer, tasks, source, toggles, pipe>>
    BY <1>1 DEF Consume, ReadPaused, Link, vars
  <2>2. UNCHANGED proc["producer"]
    BY <1>1 DEF Consume, ReadPaused, Link, vars, TypeOK, Side
  <2>. QED  BY <1>0, <2>1, <2>2 DEF Queued
<1>2. CASE Produce
  <2>1. ~Opened /\ UNCHANGED <<events, toProducer, tasks, source, toggles>>
    BY <1>2 DEF Produce, StagesInv
  <2>2. CASE proc' = [proc EXCEPT !["producer"] = "running"] /\ pipe' = read
    <3>1. Opened' = TRUE /\ pipe' \in BOOLEAN /\ UNCHANGED Pending
      BY <2>1, <2>2 DEF TypeOK, Side, Queued
    <3>. QED  BY <2>1, <3>1 DEF Changes!ChangesNext, Changes!Open
  <2>3. CASE UNCHANGED <<proc, pipe>>
    BY <1>0, <2>1, <2>3 DEF Queued
  <2>. QED  BY <1>2, <2>2, <2>3 DEF Produce
<1>3. CASE Toggle
  <2>1. /\ source' = ~source /\ toggles' = toggles + 1 /\ UNCHANGED <<Opened, pipe>>
        /\ Pending' \in {Pending, Pending \cup {[n |-> toggles', paused |-> source']}}
    BY <1>3 DEF Toggle, Queued
  <2>. QED  BY <2>1 DEF Changes!ChangesNext, Changes!Change
<1>4. ASSUME NEW e \in events, HandleEvent(e) PROVE Changes!ChangesNext
  <2>1. events' = events \ {e} /\ UNCHANGED <<tasks, source, toggles, Opened, pipe>>
    BY <1>4 DEF HandleEvent
  <2>2. Queued' \subseteq Queued \cup {e}
    <3>1. CASE toProducer' = toProducer
      BY <3>1 DEF Queued
    <3>2. CASE toProducer' = Append(toProducer, e)
      <4>1. e \notin Queued /\ e \in Change
        BY <1>4 DEF OnePlaceInv, TypeOK
      <4>. QED  BY <3>2, <4>1, QueueWithoutRepetition DEF OnePlaceInv, Queued, TypeOK
    <3>. QED  BY <1>4, <3>1, <3>2 DEF HandleEvent
  <2>. QED  BY <1>0, <2>1, <2>2
<1>5. CASE HandlePiped
  <2>1. Head(toProducer) \in Queued /\ Queued' = Queued \ {Head(toProducer)}
    <3>1. toProducer \in Seq(Change) /\ toProducer # <<>> /\ toProducer' = Tail(toProducer)
          /\ \A i, j \in DOMAIN toProducer : toProducer[i] = toProducer[j] => i = j
      BY <1>5 DEF HandlePiped, OnePlaceInv, TypeOK
    <3>2. /\ Head(toProducer) \in {toProducer[i] : i \in DOMAIN toProducer}
          /\ {Tail(toProducer)[i] : i \in DOMAIN Tail(toProducer)}
               = {toProducer[i] : i \in DOMAIN toProducer} \ {Head(toProducer)}
          /\ \A i, j \in DOMAIN Tail(toProducer) :
               Tail(toProducer)[i] = Tail(toProducer)[j] => i = j
      BY <3>1, QueueWithoutRepetition
    <3>. QED  BY <3>1, <3>2 DEF Queued
  <2>2. tasks' = tasks \cup {Head(toProducer)} /\ UNCHANGED <<events, source, toggles, Opened, pipe>>
    BY <1>5 DEF HandlePiped
  <2>. QED  BY <1>0, <2>1, <2>2
<1>6. ASSUME NEW e \in tasks, TaskDone(e) PROVE Changes!ChangesNext
  <2>1. tasks' = tasks \ {e} /\ UNCHANGED <<events, toProducer, source, toggles, Opened>>
    BY <1>6 DEF TaskDone
  <2>2. Pending' = Pending \ {e} /\ e \in Pending
    BY <2>1 DEF OnePlaceInv, Queued
  <2>3. CASE Running("producer")
    <3>1. pipe' = e.paused /\ Opened
      BY <1>6, <2>3 DEF TaskDone, Running
    <3>. QED  BY <2>1, <2>2, <3>1 DEF Changes!ChangesNext, Changes!Apply
  <2>4. CASE ~Running("producer")
    BY <1>0, <1>6, <2>1, <2>2, <2>4 DEF TaskDone
  <2>. QED  BY <2>3, <2>4
<1>7. ASSUME NEW s \in Side, HandleLink(s) PROVE Changes!ChangesNext
  <2>1. UNCHANGED <<events, toProducer, tasks, source, toggles, proc, pipe>>
    BY <1>7 DEF HandleLink
  <2>. QED  BY <1>0, <2>1 DEF Queued
<1>8. ASSUME NEW s \in Side, End(s) PROVE Changes!ChangesNext
  <2>1. events' \in {events, {}} /\ toProducer' \in {toProducer, <<>>}
        /\ UNCHANGED <<tasks, source, toggles, pipe>>
    BY <1>8 DEF End
  <2>2. UNCHANGED Opened
    BY <1>8 DEF End, Running, TypeOK, Side
  <2>. QED  BY <1>0, <2>1, <2>2 DEF Queued
<1>. QED
  BY <1>1, <1>2, <1>3, <1>4, <1>5, <1>6, <1>7, <1>8 DEF Next, Down

\* For every user of the source and every way the two sides end: the ends of a pipe open,
\* are linked and close in order, and a change takes effect once at most, as itself.
THEOREM PipeRefined == Spec => ImplementsPipe
<1>1. Init => Ends!EndsInit
  BY DEF Init, Ends!EndsInit, EndOf, Side
<1>2. Init => Changes!ChangesInit
  BY DEF Init, Changes!ChangesInit, Queued, Side
<1>. QED
  BY <1>1, <1>2, EndsStep, ChangesStep, LinkInvariance, PTL
     DEF Spec, ImplementsPipe, Ends!Contract, Changes!Contract
=============================================================================
