-------------------------- MODULE WebRtcServerProofs --------------------------
(***************************************************************************)
(* Proofs about WebRtcServer for any number of servers, Routers and calls: *)
(* what keeps a native server keeps it open, and a Router that nobody      *)
(* closed was ended by a call that it could not serve.                     *)
(***************************************************************************)
EXTENDS WebRtcServer, TLAPS

Stage == {"idle", "ok", "error", "terminated"} \cup Waiting

Local == Server \ Foreign

ServerType ==
  /\ server \in [Server -> {"absent", "running", "ended"}]
  /\ native \in [Server -> {"absent", "open", "closed"}]
  /\ router \in [Router -> {"running", "ended"}]
  /\ heap \in [Router \cup {Worker} -> SUBSET Local]
  /\ stage \in [Call -> Stage]
  /\ to \in [Call -> Router \cup {Nil}]
  /\ names \in [Call -> Server \cup {Nil}]
  /\ listener \in [Call -> {"none", "open", "closed"}]
  /\ broken \subseteq Call /\ slow \subseteq Call

\* How far a call has come, and what must be there for it.
CallInv(c) ==
  /\ stage[c] \in Waiting \ {"creating"} => to[c] \in Router /\ router[to[c]] = "running"
  /\ stage[c] = "creating" => to[c] \in Router
  /\ stage[c] = "asking" => names[c] \in Server
  /\ stage[c] = "read" /\ names[c] \in Local => names[c] \in heap[to[c]]
  /\ stage[c] \in {"idle", "sent", "asking", "read", "creating"} => listener[c] = "none"
  /\ stage[c] = "idle" => to[c] = Nil /\ names[c] = Nil
  /\ listener[c] = "open" => to[c] \in Router /\ router[to[c]] = "running"

CallsInv == \A c \in Call : CallInv(c)

\* Only servers that were created have a name to call.
NamesInv == \A c \in Call : names[c] \in Server => server[names[c]] # "absent"

\* Everything that keeps a native server found it open.
UseInv == \A s \in Local : InUse(s) => native[s] = "open"

\* The second conjunct of ServerEndIsContained.
Refused(c) == stage[c] = "terminated" /\ Unserved(c)

CrashInv ==
  \A r \in Router : router[r] = "ended" /\ r \notin closed => \E c \in Call : to[c] = r /\ Refused(c)

\* Who may have a reference on its heap: a Router that runs and was asked to use
\* the server. A server that was created has a native one.
HeapInv ==
  /\ \A r \in Router : \A s \in heap[r] :
       router[r] = "running" /\ \E c \in Call : to[c] = r /\ names[c] = s
  /\ \A s \in Local : server[s] # "absent" => native[s] # "absent"

IInv == ServerType /\ CallsInv /\ NamesInv /\ UseInv /\ CrashInv /\ HeapInv

\* Only foreign servers run at first, and nobody has called.
LEMMA ServerInit == Init => IInv
<1>. SUFFICES ASSUME Init PROVE IInv
  OBVIOUS
<1>1. ServerType
  BY ServerAssumption DEF Init, ServerType, Stage, Local
<1>2. CallsInv
  BY DEF Init, CallsInv, CallInv, Waiting
<1>3. UseInv
  BY ServerAssumption DEF Init, UseInv, InUse, Local
<1>4. CrashInv
  BY DEF Init, CrashInv
<1>5. HeapInv
  BY ServerAssumption DEF Init, HeapInv, Local
<1>6. NamesInv
  BY ServerAssumption DEF Init, NamesInv
<1>. QED  BY <1>1, <1>2, <1>3, <1>4, <1>5, <1>6 DEF IInv

\* Every action keeps the variables in their types.
LEMMA ServerTypeStep == ServerType /\ CallsInv /\ [Next]_vars => ServerType'
<1>. SUFFICES ASSUME ServerType, CallsInv, [Next]_vars PROVE ServerType'
  OBVIOUS
<1>. USE ServerAssumption DEF ServerType, Stage, Waiting, Local, processes, calls, request, history
<1>1. ASSUME NEW r \in Router, EndRouter(r), UNCHANGED <<server, native, request>>,
             slow' \subseteq Call
      PROVE  ServerType'
  BY <1>1 DEF EndRouter
<1>2. CASE CloseWorker \/ WorkerEnded
  BY <1>2 DEF CloseWorker, WorkerEnded
<1>3. ASSUME NEW s \in Server, CreateServer(s) \/ CloseServer(s) \/ NativeDrop(s) \/ StopServer(s)
      PROVE  ServerType'
  <2>1. CASE CreateServer(s)
    <3>1. s \in Local => heap' \in [Router \cup {Worker} -> SUBSET Local]
      BY <2>1 DEF CreateServer
    <3>. QED  BY <2>1, <3>1 DEF CreateServer
  <2>2. CASE CloseServer(s) \/ StopServer(s)
    BY <2>2 DEF CloseServer, StopServer
  <2>3. CASE NativeDrop(s)
    BY <2>3 DEF NativeDrop
  <2>. QED  BY <1>3, <2>1, <2>2, <2>3
<1>4. ASSUME NEW r \in Router, CloseRouter(r) \/ StopRouter(r)
      PROVE  ServerType'
  BY <1>1, <1>4 DEF CloseRouter, StopRouter
<1>5. ASSUME NEW p \in Router \cup {Worker}, Collect(p)
      PROVE  ServerType'
  BY <1>5 DEF Collect
<1>6. ASSUME NEW c \in Call, NEW r \in Router, NEW s \in Server \cup {Nil}, Send(c, r, s)
      PROVE  ServerType'
  BY <1>6 DEF Send
<1>7. ASSUME NEW c \in Call, Serve(c) \/ CloseTransport(c)
      PROVE  ServerType'
  <2>1. CASE BeginCreate(c)
    BY <2>1 DEF BeginCreate
  <2>2. CASE ReadReference(c)
    <3>1. to[c] \in Router /\ names[c] \in Server
      BY <2>2 DEF ReadReference, CallsInv, CallInv
    <3>. QED  BY <2>2, <3>1 DEF ReadReference
  <2>3. CASE ServerGone(c)
    <3>1. to[c] \in Router
      BY <2>3 DEF ServerGone, CallsInv, CallInv
    <3>. QED  BY <1>1, <2>3, <3>1 DEF ServerGone
  <2>4. CASE Dispatch(c)
    BY <2>4 DEF Dispatch
  <2>5. CASE Raise(c)
    <3>1. to[c] \in Router
      BY <2>5 DEF Raise, CallsInv, CallInv
    <3>. QED  BY <1>1, <2>5, <3>1 DEF Raise
  <2>6. CASE TaskDone(c)
    BY <2>6 DEF TaskDone
  <2>7. CASE HandleResult(c) \/ CloseTransport(c)
    BY <2>7 DEF HandleResult, CloseTransport
  <2>. QED  BY <1>7, <2>1, <2>2, <2>3, <2>4, <2>5, <2>6, <2>7 DEF Serve
<1>8. CASE UNCHANGED vars
  BY <1>8 DEF vars
<1>. QED  BY <1>2, <1>3, <1>4, <1>5, <1>6, <1>7, <1>8 DEF Next

\* Every action keeps what holds of each call.
LEMMA CallsStep == ServerType /\ CallsInv /\ [Next]_vars => CallsInv'
<1>. SUFFICES ASSUME ServerType, CallsInv, [Next]_vars, NEW c \in Call PROVE CallInv(c)'
  BY DEF CallsInv
<1>1. CallInv(c) /\ to[c] \in Router \cup {Nil} /\ stage[c] \in Stage
  BY DEF CallsInv, ServerType
<1>. USE DEF CallInv, Waiting, processes, calls, request, history
<1>2. ASSUME NEW r \in Router, EndRouter(r), UNCHANGED <<server, native, request>>
      PROVE  CallInv(c)'
  <2>1. stage'[c] = IF to[c] = r /\ stage[c] \in Waiting \ {"creating"} THEN "terminated" ELSE stage[c]
    BY <1>2 DEF EndRouter
  <2>2. listener'[c] = IF to[c] = r /\ listener[c] = "open" THEN "closed" ELSE listener[c]
    BY <1>2 DEF EndRouter
  <2>3. CASE to[c] = r
    <3>1. stage'[c] \notin Waiting \ {"creating"} /\ listener'[c] # "open"
      BY <2>1, <2>2, <2>3
    <3>2. stage'[c] \in {"creating", "idle"} => stage'[c] = stage[c] /\ listener'[c] = listener[c]
      BY <1>1, <2>1, <2>2, <2>3
    <3>. QED  BY <1>1, <1>2, <3>1, <3>2
  <2>4. CASE to[c] # r
    <3>1. \A q \in Router : q # r => router'[q] = router[q] /\ heap'[q] = heap[q]
      BY <1>2 DEF EndRouter, ServerType
    <3>. QED  BY <1>1, <1>2, <2>1, <2>2, <2>4, <3>1
  <2>. QED  BY <2>3, <2>4
<1>3. CASE CloseWorker
  BY <1>1, <1>3 DEF CloseWorker
<1>4. CASE WorkerEnded
  <2>1. \A q \in Router : heap'[q] = heap[q]
    BY <1>4, ServerAssumption DEF WorkerEnded, ServerType
  <2>. QED  BY <1>1, <1>4, <2>1 DEF WorkerEnded
<1>5. ASSUME NEW s \in Server, CreateServer(s) \/ CloseServer(s) \/ NativeDrop(s) \/ StopServer(s)
      PROVE  CallInv(c)'
  <2>1. CASE CreateServer(s)
    <3>1. \A q \in Router : heap'[q] = heap[q]
      BY <2>1, ServerAssumption DEF CreateServer, ServerType
    <3>. QED  BY <1>1, <2>1, <3>1 DEF CreateServer
  <2>2. CASE CloseServer(s) \/ StopServer(s)
    BY <1>1, <2>2 DEF CloseServer, StopServer
  <2>3. CASE NativeDrop(s)
    BY <1>1, <2>3 DEF NativeDrop
  <2>. QED  BY <1>5, <2>1, <2>2, <2>3
<1>6. ASSUME NEW r \in Router, CloseRouter(r) \/ StopRouter(r)
      PROVE  CallInv(c)'
  BY <1>2, <1>6 DEF CloseRouter, StopRouter
<1>7. ASSUME NEW p \in Router \cup {Worker}, Collect(p)
      PROVE  CallInv(c)'
  <2>1. ASSUME stage[c] = "read", names[c] \in Local PROVE names[c] \in heap'[to[c]]
    <3>1. CASE to[c] = p
      BY <1>1, <1>7, <2>1, <3>1 DEF Collect, ServerType
    <3>2. CASE to[c] # p
      BY <1>1, <1>7, <2>1, <3>2 DEF Collect, ServerType
    <3>. QED  BY <3>1, <3>2
  <2>. QED  BY <1>1, <1>7, <2>1 DEF Collect
<1>8. ASSUME NEW d \in Call, NEW r \in Router, NEW s \in Server \cup {Nil}, Send(d, r, s)
      PROVE  CallInv(c)'
  <2>1. CASE c = d
    BY <1>1, <1>8, <2>1 DEF Send, ServerType
  <2>2. CASE c # d
    BY <1>1, <1>8, <2>2 DEF Send
  <2>. QED  BY <2>1, <2>2
<1>9. ASSUME NEW d \in Call, Serve(d) \/ CloseTransport(d)
      PROVE  CallInv(c)'
  <2>. CallInv(d) /\ stage[d] \in Stage
    BY DEF CallsInv, ServerType
  <2>1. CASE BeginCreate(d)
    <3>1. CASE c = d
      <4>1. names[c] \in Server \cup {Nil} /\ stage[c] = "sent"
        BY <2>1, <3>1 DEF BeginCreate, ServerType
      <4>2. stage'[c] = IF names[c] = Nil THEN "read" ELSE "asking"
        BY <2>1, <3>1, <4>1 DEF BeginCreate, ServerType
      <4>. QED  BY <1>1, <2>1, <4>1, <4>2, ServerAssumption DEF BeginCreate, Local
    <3>2. CASE c # d
      BY <1>1, <2>1, <3>2 DEF BeginCreate
    <3>. QED  BY <3>1, <3>2
  <2>2. CASE ReadReference(d)
    <3>1. to[d] \in Router
      BY <2>2 DEF ReadReference
    <3>2. \A q \in Router : heap[q] \subseteq heap'[q]
      BY <2>2 DEF ReadReference, ServerType
    <3>3. CASE c = d
      <4>1. names[c] \in Local => names[c] \in heap'[to[c]]
        BY <2>2, <3>1, <3>3 DEF ReadReference, ServerType, Local
      <4>2. stage'[c] = "read" /\ router'[to[c]] = "running" /\ listener'[c] = "none"
        BY <1>1, <2>2, <3>1, <3>3 DEF ReadReference, ServerType
      <4>. QED  BY <2>2, <3>1, <3>3, <4>1, <4>2 DEF ReadReference
    <3>4. CASE c # d
      BY <1>1, <2>2, <3>2, <3>4 DEF ReadReference
    <3>. QED  BY <3>3, <3>4
  <2>3. CASE ServerGone(d)
    <3>1. to[d] \in Router
      BY <2>3 DEF ServerGone
    <3>. QED  BY <1>2, <2>3, <3>1 DEF ServerGone
  <2>4. CASE Dispatch(d)
    <3>1. CASE c = d
      BY <1>1, <2>4, <3>1 DEF Dispatch, ServerType
    <3>2. CASE c # d
      BY <1>1, <2>4, <3>2 DEF Dispatch
    <3>. QED  BY <3>1, <3>2
  <2>5. CASE Raise(d)
    <3>1. to[d] \in Router
      BY <2>5 DEF Raise
    <3>. QED  BY <1>2, <2>5, <3>1 DEF Raise
  <2>6. CASE TaskDone(d)
    <3>1. CASE c = d
      <4>1. stage[c] = "creating" /\ to'[c] = to[c] /\ to[c] \in Router
        BY <1>1, <2>6, <3>1 DEF TaskDone
      <4>2. CASE router[to[c]] = "running"
        <5>1. stage'[c] = "arrived" /\ router'[to[c]] = "running"
          BY <2>6, <3>1, <4>2 DEF TaskDone, ServerType
        <5>. QED  BY <4>1, <5>1
      <4>3. CASE router[to[c]] # "running"
        <5>1. stage'[c] = "terminated" /\ listener'[c] # "open"
          BY <2>6, <3>1, <4>3 DEF TaskDone, ServerType
        <5>. QED  BY <5>1
      <4>. QED  BY <4>2, <4>3
    <3>2. CASE c # d
      <4>1. stage'[c] = stage[c] /\ listener'[c] = listener[c]
        BY <2>6, <3>2 DEF TaskDone, ServerType
      <4>2. UNCHANGED <<router, heap, to, names>>
        BY <2>6 DEF TaskDone
      <4>. QED  BY <1>1, <4>1, <4>2
    <3>. QED  BY <3>1, <3>2
  <2>7. CASE HandleResult(d)
    <3>1. CASE c = d
      <4>1. stage'[c] \in {"error", "ok"} /\ UNCHANGED <<router, to, listener>>
        BY <2>7, <3>1 DEF HandleResult, ServerType
      <4>. QED  BY <1>1, <4>1
    <3>2. CASE c # d
      BY <1>1, <2>7, <3>2 DEF HandleResult
    <3>. QED  BY <3>1, <3>2
  <2>8. CASE CloseTransport(d)
    <3>1. CASE c = d
      <4>1. stage'[c] = "ok" /\ listener'[c] = "closed"
        BY <2>8, <3>1 DEF CloseTransport, ServerType
      <4>. QED  BY <4>1
    <3>2. CASE c # d
      BY <1>1, <2>8, <3>2 DEF CloseTransport
    <3>. QED  BY <3>1, <3>2
  <2>. QED  BY <1>9, <2>1, <2>2, <2>3, <2>4, <2>5, <2>6, <2>7, <2>8 DEF Serve
<1>10. CASE UNCHANGED vars
  BY <1>1, <1>10 DEF vars
<1>. QED  BY <1>3, <1>4, <1>5, <1>6, <1>7, <1>8, <1>9, <1>10 DEF Next

\* No server becomes absent again, and only a call that is made gets a name.
LEMMA NamesStep == ServerType /\ NamesInv /\ [Next]_vars => NamesInv'
<1>. SUFFICES ASSUME ServerType, NamesInv, [Next]_vars PROVE NamesInv'
  OBVIOUS
<1>. USE DEF processes, calls, request, history
<1>1. \A s \in Server : server[s] # "absent" => server'[s] # "absent"
  <2>1. ASSUME NEW s \in Server, CreateServer(s) \/ CloseServer(s) \/ NativeDrop(s) \/ StopServer(s)
        PROVE  \A t \in Server : server[t] # "absent" => server'[t] # "absent"
    BY <2>1 DEF CreateServer, CloseServer, NativeDrop, StopServer, ServerType
  <2>2. (\A s \in Server : ~(CreateServer(s) \/ CloseServer(s) \/ NativeDrop(s) \/ StopServer(s)))
          => UNCHANGED server
    BY DEF Next, Serve, CloseWorker, WorkerEnded, CloseRouter, StopRouter, Collect, Send,
           BeginCreate, ReadReference, ServerGone, Dispatch, Raise, TaskDone, HandleResult,
           CloseTransport, vars
  <2>. QED  BY <2>1, <2>2
<1>2. ASSUME NEW c \in Call, NEW r \in Router, NEW s \in Server \cup {Nil}, Send(c, r, s)
      PROVE  NamesInv'
  <2>1. s \in Server => server[s] # "absent"
    BY <1>2, ServerAssumption DEF Send
  <2>2. \A d \in Call : names'[d] = IF d = c THEN s ELSE names[d]
    BY <1>2 DEF Send, ServerType
  <2>. QED  BY <1>1, <2>1, <2>2 DEF NamesInv
<1>3. CASE \A c \in Call, r \in Router, s \in Server \cup {Nil} : ~Send(c, r, s)
  <2>1. UNCHANGED names
    BY <1>3 DEF Next, Serve, CloseWorker, WorkerEnded, CreateServer, CloseServer, NativeDrop,
           StopServer, CloseRouter, StopRouter, Collect, BeginCreate, ReadReference, ServerGone,
           Dispatch, Raise, TaskDone, HandleResult, CloseTransport, vars
  <2>. QED  BY <1>1, <2>1 DEF NamesInv
<1>. QED  BY <1>2, <1>3

\* What keeps a server after a step kept it before, or is its own process, or a
\* reference that the process has just given.
LEMMA UseStep == ServerType /\ CallsInv /\ UseInv /\ [Next]_vars => UseInv'
<1>. SUFFICES ASSUME ServerType, CallsInv, UseInv, [Next]_vars, NEW s \in Local, InUse(s)'
     PROVE  native'[s] = "open"
  BY DEF UseInv
<1>. USE DEF processes, calls, request, history
<1>1. InUse(s) => native[s] = "open"
  BY DEF UseInv
<1>2. ASSUME NEW r \in Router, EndRouter(r), UNCHANGED native, UNCHANGED names,
             server'[s] = "running" => server[s] = "running"
      PROVE  native'[s] = "open"
  <2>1. \A p \in Router \cup {Worker} : heap'[p] \subseteq heap[p]
    BY <1>2 DEF EndRouter, ServerType
  <2>2. \A c \in Call : /\ stage'[c] = "creating" => stage[c] = "creating"
                        /\ listener'[c] = "open" => listener[c] = "open"
    BY <1>2 DEF EndRouter
  <2>. QED  BY <1>1, <1>2, <2>1, <2>2 DEF InUse
<1>3. CASE CloseWorker
  BY <1>1, <1>3 DEF CloseWorker, InUse
<1>4. CASE WorkerEnded
  <2>1. \A p \in Router \cup {Worker} : heap'[p] \subseteq heap[p]
    BY <1>4 DEF WorkerEnded, ServerType
  <2>. QED  BY <1>1, <1>4, <2>1 DEF WorkerEnded, InUse
<1>5. ASSUME NEW t \in Server, CreateServer(t) \/ CloseServer(t) \/ NativeDrop(t) \/ StopServer(t)
      PROVE  native'[s] = "open"
  <2>1. CASE CreateServer(t)
    <3>1. CASE s = t
      BY <2>1, <3>1 DEF CreateServer, ServerType, Local
    <3>2. CASE s # t
      <4>1. \A p \in Router \cup {Worker} : s \in heap'[p] => s \in heap[p]
        BY <2>1, <3>2 DEF CreateServer, ServerType
      <4>2. InUse(s)
        BY <2>1, <3>2, <4>1 DEF CreateServer, ServerType, InUse
      <4>. QED  BY <1>1, <2>1, <3>2, <4>2 DEF CreateServer, ServerType, Local
    <3>. QED  BY <3>1, <3>2
  <2>2. CASE CloseServer(t) \/ StopServer(t)
    <3>1. server'[s] = "running" => server[s] = "running"
      BY <2>2 DEF CloseServer, StopServer, ServerType, Local
    <3>. QED  BY <1>1, <2>2, <3>1 DEF CloseServer, StopServer, InUse
  <2>3. CASE NativeDrop(t)
    <3>1. InUse(s)
      BY <2>3 DEF NativeDrop, InUse
    <3>2. s # t
      BY <2>3, <3>1 DEF NativeDrop
    <3>. QED  BY <1>1, <2>3, <3>1, <3>2 DEF NativeDrop, ServerType, Local
  <2>. QED  BY <1>5, <2>1, <2>2, <2>3
<1>6. ASSUME NEW r \in Router, CloseRouter(r) \/ StopRouter(r)
      PROVE  native'[s] = "open"
  BY <1>2, <1>6 DEF CloseRouter, StopRouter
<1>7. ASSUME NEW p \in Router \cup {Worker}, Collect(p)
      PROVE  native'[s] = "open"
  <2>1. \A q \in Router \cup {Worker} : heap'[q] \subseteq heap[q]
    BY <1>7 DEF Collect, ServerType
  <2>. QED  BY <1>1, <1>7, <2>1 DEF Collect, InUse
<1>8. ASSUME NEW d \in Call, NEW r \in Router, NEW t \in Server \cup {Nil}, Send(d, r, t)
      PROVE  native'[s] = "open"
  <2>1. stage[d] = "idle" /\ listener[d] = "none" /\ stage'[d] # "creating" /\ listener' = listener
    BY <1>8 DEF Send, CallsInv, CallInv, ServerType
  <2>2. \A c \in Call : c # d => names'[c] = names[c] /\ stage'[c] = stage[c]
    BY <1>8 DEF Send, ServerType
  <2>3. InUse(s)
    BY <1>8, <2>1, <2>2 DEF Send, InUse
  <2>. QED  BY <1>1, <1>8, <2>3 DEF Send
<1>9. ASSUME NEW d \in Call, Serve(d) \/ CloseTransport(d)
      PROVE  native'[s] = "open"
  <2>. CallInv(d)
    BY DEF CallsInv
  <2>1. CASE BeginCreate(d)
    <3>1. \A c \in Call : stage'[c] = "creating" => stage[c] = "creating"
      BY <2>1 DEF BeginCreate, ServerType
    <3>. QED  BY <1>1, <2>1, <3>1 DEF BeginCreate, InUse
  <2>2. CASE ReadReference(d)
    <3>1. \A c \in Call : stage'[c] = "creating" => stage[c] = "creating"
      BY <2>2 DEF ReadReference, ServerType
    <3>2. \A p \in Router \cup {Worker} : s \in heap'[p] =>
             s \in heap[p] \/ (s = names[d] /\ server[s] = "running")
      BY <2>2 DEF ReadReference, ServerType
    <3>. QED  BY <1>1, <2>2, <3>1, <3>2 DEF ReadReference, InUse
  <2>3. CASE ServerGone(d)
    <3>1. to[d] \in Router
      BY <2>3 DEF ServerGone, CallInv, Waiting
    <3>. QED  BY <1>2, <2>3, <3>1 DEF ServerGone
  <2>4. CASE Dispatch(d)
    <3>1. \A c \in Call : stage'[c] = "creating" => stage[c] = "creating" \/ c = d
      BY <2>4 DEF Dispatch, ServerType
    <3>2. to[d] \in Router /\ (names[d] = s => s \in heap[to[d]])
      BY <2>4 DEF Dispatch, CallInv, Waiting
    <3>. QED  BY <1>1, <2>4, <3>1, <3>2 DEF Dispatch, InUse
  <2>5. CASE Raise(d)
    <3>1. to[d] \in Router
      BY <2>5 DEF Raise, CallInv, Waiting
    <3>. QED  BY <1>2, <2>5, <3>1 DEF Raise
  <2>6. CASE TaskDone(d)
    <3>1. stage[d] = "creating"
      BY <2>6 DEF TaskDone
    <3>2. \A c \in Call : /\ stage'[c] = "creating" => stage[c] = "creating"
                          /\ listener'[c] = "open" => listener[c] = "open" \/ c = d
      BY <2>6 DEF TaskDone, ServerType
    <3>. QED  BY <1>1, <2>6, <3>1, <3>2 DEF TaskDone, InUse
  <2>7. CASE HandleResult(d)
    <3>1. \A c \in Call : stage'[c] = "creating" => stage[c] = "creating"
      BY <2>7 DEF HandleResult, ServerType
    <3>. QED  BY <1>1, <2>7, <3>1 DEF HandleResult, InUse
  <2>8. CASE CloseTransport(d)
    <3>1. \A c \in Call : listener'[c] = "open" => listener[c] = "open"
      BY <2>8 DEF CloseTransport, ServerType
    <3>. QED  BY <1>1, <2>8, <3>1 DEF CloseTransport, InUse
  <2>. QED  BY <1>9, <2>1, <2>2, <2>3, <2>4, <2>5, <2>6, <2>7, <2>8 DEF Serve
<1>10. CASE UNCHANGED vars
  BY <1>1, <1>10 DEF vars, InUse
<1>. QED  BY <1>3, <1>4, <1>5, <1>6, <1>7, <1>8, <1>9, <1>10 DEF Next

\* A call that was refused stays so, and a Router ends by one or is closed.
LEMMA CrashStep == ServerType /\ CallsInv /\ NamesInv /\ CrashInv /\ [Next]_vars => CrashInv'
<1>. SUFFICES ASSUME ServerType, CallsInv, NamesInv, CrashInv, [Next]_vars, NEW r \in Router,
                     router'[r] = "ended", r \notin closed'
     PROVE  \E c \in Call : to'[c] = r /\ Refused(c)'
  BY DEF CrashInv
<1>. USE DEF processes, calls, request, history
<1>1. \A c \in Call : Refused(c) => Refused(c)' /\ to'[c] = to[c]
  <2>. SUFFICES ASSUME NEW c \in Call, Refused(c) PROVE Refused(c)' /\ to'[c] = to[c]
    OBVIOUS
  <2>. USE DEF Refused, Unserved, Decodes
  <2>1. ASSUME NEW q \in Router, EndRouter(q), UNCHANGED <<server, request>>, slow \subseteq slow'
        PROVE  Refused(c)' /\ to'[c] = to[c]
    BY <2>1 DEF EndRouter, Waiting
  <2>2. CASE CloseWorker \/ WorkerEnded
    BY <2>2 DEF CloseWorker, WorkerEnded
  <2>3. ASSUME NEW s \in Server, CreateServer(s) \/ CloseServer(s) \/ NativeDrop(s) \/ StopServer(s)
        PROVE  Refused(c)' /\ to'[c] = to[c]
    BY <2>3 DEF CreateServer, CloseServer, NativeDrop, StopServer, ServerType
  <2>4. ASSUME NEW q \in Router, CloseRouter(q) \/ StopRouter(q)
        PROVE  Refused(c)' /\ to'[c] = to[c]
    BY <2>1, <2>4 DEF CloseRouter, StopRouter
  <2>5. ASSUME NEW p \in Router \cup {Worker}, Collect(p)
        PROVE  Refused(c)' /\ to'[c] = to[c]
    BY <2>5 DEF Collect
  <2>6. ASSUME NEW d \in Call, NEW q \in Router, NEW s \in Server \cup {Nil}, Send(d, q, s)
        PROVE  Refused(c)' /\ to'[c] = to[c]
    BY <2>6 DEF Send
  <2>7. ASSUME NEW d \in Call, Serve(d) \/ CloseTransport(d)
        PROVE  Refused(c)' /\ to'[c] = to[c]
    <3>1. CASE ServerGone(d) \/ Raise(d)
      <4>1. to[d] \in Router
        BY <3>1 DEF ServerGone, Raise, CallsInv, CallInv, Waiting
      <4>. QED  BY <2>1, <3>1, <4>1 DEF ServerGone, Raise
    <3>2. CASE BeginCreate(d) \/ ReadReference(d) \/ Dispatch(d)
      BY <3>2 DEF BeginCreate, ReadReference, Dispatch, ServerType
    <3>3. CASE TaskDone(d) \/ HandleResult(d) \/ CloseTransport(d)
      BY <3>3 DEF TaskDone, HandleResult, CloseTransport, ServerType
    <3>. QED  BY <2>7, <3>1, <3>2, <3>3 DEF Serve
  <2>8. CASE UNCHANGED vars
    BY <2>8 DEF vars
  <2>. QED  BY <2>2, <2>3, <2>4, <2>5, <2>6, <2>7, <2>8 DEF Next
<1>2. CASE router[r] = "ended" /\ r \notin closed
  <2>1. PICK c \in Call : to[c] = r /\ Refused(c)
    BY <1>2 DEF CrashInv
  <2>. QED  BY <1>1, <2>1
<1>3. CASE ~(router[r] = "ended" /\ r \notin closed)
  <2>1. PICK c \in Call : ServerGone(c) \/ Raise(c)
    <3>1. CASE CloseWorker \/ WorkerEnded
      BY <1>3, <3>1 DEF CloseWorker, WorkerEnded
    <3>2. ASSUME NEW s \in Server, CreateServer(s) \/ CloseServer(s) \/ NativeDrop(s) \/ StopServer(s)
          PROVE  FALSE
      BY <1>3, <3>2 DEF CreateServer, CloseServer, NativeDrop, StopServer
    <3>3. ASSUME NEW q \in Router, CloseRouter(q) \/ StopRouter(q)
          PROVE  FALSE
      BY <1>3, <3>3 DEF CloseRouter, StopRouter, EndRouter, ServerType
    <3>4. ASSUME NEW p \in Router \cup {Worker}, Collect(p)
          PROVE  FALSE
      BY <1>3, <3>4 DEF Collect
    <3>5. ASSUME NEW d \in Call, NEW q \in Router, NEW s \in Server \cup {Nil}, Send(d, q, s)
          PROVE  FALSE
      BY <1>3, <3>5 DEF Send
    <3>6. ASSUME NEW d \in Call, BeginCreate(d) \/ ReadReference(d) \/ Dispatch(d)
          PROVE  FALSE
      BY <1>3, <3>6 DEF BeginCreate, ReadReference, Dispatch
    <3>7. ASSUME NEW d \in Call, TaskDone(d) \/ HandleResult(d) \/ CloseTransport(d)
          PROVE  FALSE
      BY <1>3, <3>7 DEF TaskDone, HandleResult, CloseTransport
    <3>8. CASE UNCHANGED vars
      BY <1>3, <3>8 DEF vars
    <3>. QED  BY <3>1, <3>2, <3>3, <3>4, <3>5, <3>6, <3>7, <3>8 DEF Next, Serve
  <2>2. to[c] \in Router
    BY <2>1 DEF ServerGone, Raise, CallsInv, CallInv, Waiting
  <2>3. EndRouter(to[c]) /\ UNCHANGED <<server, request, closed>>
    BY <2>1 DEF ServerGone, Raise
  <2>4. to[c] = r
    BY <1>3, <2>2, <2>3 DEF EndRouter, ServerType
  <2>5. stage'[c] = "terminated"
    BY <2>1, <2>2, <2>3 DEF ServerGone, Raise, EndRouter, Waiting
  <2>6. Unserved(c)'
    <3>1. CASE ServerGone(c)
      <4>1. names[c] \in Server /\ stage[c] = "asking"
        BY <3>1 DEF ServerGone, CallsInv, CallInv
      <4>2. names[c] # Nil /\ UNCHANGED <<server, names>>
        BY <3>1, <4>1, ServerAssumption DEF ServerGone
      <4>3. CASE server[names[c]] = "running"
        BY <3>1, <4>3 DEF ServerGone, Unserved
      <4>4. CASE server[names[c]] = "ended"
        BY <4>2, <4>4 DEF Unserved
      <4>. QED  BY <4>1, <4>3, <4>4 DEF NamesInv, ServerType
    <3>2. CASE Raise(c)
      BY <3>2 DEF Raise, Unserved, Decodes
    <3>. QED  BY <2>1, <3>1, <3>2
  <2>. QED  BY <2>3, <2>4, <2>5, <2>6 DEF Refused
<1>. QED  BY <1>2, <1>3

\* A step keeps the calls that name a server to a Router, and puts a reference on
\* the heap of a Router only in such a call.
LEMMA HeapStep == ServerType /\ CallsInv /\ HeapInv /\ [Next]_vars => HeapInv'
<1>. SUFFICES ASSUME ServerType, CallsInv, HeapInv, [Next]_vars PROVE HeapInv'
  OBVIOUS
<1>. USE DEF processes, calls, request, history
<1>. DEFINE Natives == \A s \in Local : server[s] # "absent" => native[s] # "absent"
            Asked(r, s) == \E c \in Call : to[c] = r /\ names[c] = s
            Heaps == \A r \in Router : \A s \in heap[r] : router[r] = "running" /\ Asked(r, s)
<1>1. Natives /\ Heaps
  BY DEF HeapInv
<1>2. ASSUME UNCHANGED <<to, names>>,
             \A r \in Router : \A s \in heap'[r] : s \in heap[r] /\ router'[r] = router[r]
      PROVE  Heaps'
  <2>. SUFFICES ASSUME NEW r \in Router, NEW s \in heap'[r]
       PROVE  router'[r] = "running" /\ Asked(r, s)'
    OBVIOUS
  <2>1. s \in heap[r] /\ router'[r] = router[r]
    BY <1>2
  <2>2. router[r] = "running" /\ Asked(r, s)
    BY <1>1, <2>1
  <2>3. Asked(r, s)'
    BY <1>2, <2>2
  <2>. QED  BY <2>1, <2>2, <2>3
<1>3. ASSUME NEW r \in Router, EndRouter(r), UNCHANGED <<server, native, request>>
      PROVE  Heaps' /\ Natives'
  <2>1. \A q \in Router : \A s \in heap'[q] : s \in heap[q] /\ router'[q] = router[q]
    BY <1>3 DEF EndRouter, ServerType
  <2>2. Natives'
    BY <1>1, <1>3
  <2>. QED  BY <1>2, <1>3, <2>1, <2>2
<1>4. CASE CloseWorker
  BY <1>1, <1>4 DEF CloseWorker, HeapInv
<1>5. CASE WorkerEnded
  <2>1. \A q \in Router : heap'[q] = heap[q]
    BY <1>5, ServerAssumption DEF WorkerEnded, ServerType
  <2>2. Heaps'
    BY <1>2, <1>5, <2>1 DEF WorkerEnded
  <2>3. Natives'
    BY <1>1, <1>5 DEF WorkerEnded
  <2>. QED  BY <2>2, <2>3 DEF HeapInv
<1>6. ASSUME NEW s \in Server, CreateServer(s) \/ CloseServer(s) \/ NativeDrop(s) \/ StopServer(s)
      PROVE  HeapInv'
  <2>1. \A q \in Router : heap'[q] = heap[q]
    BY <1>6, ServerAssumption DEF CreateServer, CloseServer, NativeDrop, StopServer, ServerType
  <2>2. Heaps'
    BY <1>2, <1>6, <2>1 DEF CreateServer, CloseServer, NativeDrop, StopServer
  <2>3. Natives'
    <3>1. CASE CreateServer(s) \/ NativeDrop(s)
      BY <1>1, <3>1 DEF CreateServer, NativeDrop, ServerType, Local
    <3>2. CASE CloseServer(s) \/ StopServer(s)
      BY <1>1, <3>2 DEF CloseServer, StopServer, ServerType, Local
    <3>. QED  BY <1>6, <3>1, <3>2
  <2>. QED  BY <2>2, <2>3 DEF HeapInv
<1>7. ASSUME NEW r \in Router, CloseRouter(r) \/ StopRouter(r)
      PROVE  HeapInv'
  BY <1>3, <1>7 DEF CloseRouter, StopRouter, HeapInv
<1>8. ASSUME NEW p \in Router \cup {Worker}, Collect(p)
      PROVE  HeapInv'
  <2>1. \A q \in Router : heap'[q] \subseteq heap[q]
    BY <1>8 DEF Collect, ServerType
  <2>2. Heaps'
    BY <1>2, <1>8, <2>1 DEF Collect
  <2>3. Natives'
    BY <1>1, <1>8 DEF Collect
  <2>. QED  BY <2>2, <2>3 DEF HeapInv
<1>9. ASSUME NEW d \in Call, NEW r \in Router, NEW t \in Server \cup {Nil}, Send(d, r, t)
      PROVE  HeapInv'
  <2>1. to[d] = Nil /\ names[d] = Nil
    BY <1>9 DEF Send, CallsInv, CallInv
  <2>2. \A c \in Call : c # d => to'[c] = to[c] /\ names'[c] = names[c]
    BY <1>9 DEF Send, ServerType
  <2>3. \A q \in Router : \A s \in heap[q] : Asked(q, s)'
    <3>. SUFFICES ASSUME NEW q \in Router, NEW s \in heap[q] PROVE Asked(q, s)'
      OBVIOUS
    <3>1. PICK c \in Call : to[c] = q /\ names[c] = s
      BY <1>1
    <3>2. s # Nil
      BY ServerAssumption DEF ServerType, Local
    <3>. QED  BY <2>1, <2>2, <3>1, <3>2
  <2>4. Heaps'
    BY <1>1, <1>9, <2>3 DEF Send
  <2>5. Natives'
    BY <1>1, <1>9 DEF Send
  <2>. QED  BY <2>4, <2>5 DEF HeapInv
<1>10. ASSUME NEW d \in Call, Serve(d) \/ CloseTransport(d)
      PROVE  HeapInv'
  <2>. CallInv(d)
    BY DEF CallsInv
  <2>1. CASE ReadReference(d)
    <3>1. to[d] \in Router /\ router[to[d]] = "running"
      BY <2>1 DEF ReadReference, CallInv, Waiting
    <3>2. \A q \in Router : heap'[q] \subseteq heap[q] \cup (IF q = to[d] THEN {names[d]} ELSE {})
      BY <2>1, <3>1 DEF ReadReference, ServerType
    <3>3. Heaps'
      BY <1>1, <2>1, <3>1, <3>2 DEF ReadReference
    <3>4. Natives'
      BY <1>1, <2>1 DEF ReadReference
    <3>. QED  BY <3>3, <3>4 DEF HeapInv
  <2>2. CASE ServerGone(d) \/ Raise(d)
    <3>1. to[d] \in Router
      BY <2>2 DEF ServerGone, Raise, CallInv, Waiting
    <3>. QED  BY <1>3, <2>2, <3>1 DEF ServerGone, Raise, HeapInv
  <2>3. CASE BeginCreate(d) \/ Dispatch(d) \/ TaskDone(d) \/ HandleResult(d) \/ CloseTransport(d)
    <3>1. UNCHANGED <<server, native, router, heap, to, names>>
      BY <2>3 DEF BeginCreate, Dispatch, TaskDone, HandleResult, CloseTransport
    <3>. QED  BY <1>1, <3>1 DEF HeapInv
  <2>. QED  BY <1>10, <2>1, <2>2, <2>3 DEF Serve
<1>11. CASE UNCHANGED vars
  BY <1>1, <1>11 DEF vars, HeapInv
<1>. QED  BY <1>4, <1>5, <1>6, <1>7, <1>8, <1>9, <1>10, <1>11 DEF Next

\* The invariant behind ServerEndIsContained and GoneServersRest, for any number of servers, Routers
\* and calls.
THEOREM ServerInvariance == Spec => []IInv
<1>1. IInv /\ [Next]_vars => IInv'
  BY ServerTypeStep, CallsStep, NamesStep, UseStep, CrashStep, HeapStep DEF IInv
<1>. QED  BY ServerInit, <1>1, PTL DEF Spec

\* Ending a WebRtcServer takes no transport and no create call under way with it,
\* and every Router that ended without being closed did so in a call of its own whose
\* options do not decode, or that names a server which had ended, runs on another
\* node, or did not answer the Router in time.
THEOREM ServerEndsAreContained == Spec => []ServerEndIsContained
<1>1. IInv => ServerEndIsContained
  <2>. SUFFICES ASSUME IInv PROVE ServerEndIsContained
    OBVIOUS
  <2>1. ASSUME NEW c \in Call, names[c] \in Server \ Foreign,
               stage[c] \in {"read", "creating"} \/ listener[c] = "open"
        PROVE  native[names[c]] = "open"
    <3>1. InUse(names[c])
      BY <2>1 DEF IInv, CallsInv, CallInv, InUse, Local, Waiting
    <3>. QED  BY <2>1, <3>1 DEF IInv, UseInv, Local
  <2>2. ASSUME NEW r \in Router, router[r] = "ended", r \notin closed
        PROVE  \E c \in Call : to[c] = r /\ stage[c] = "terminated" /\ Unserved(c)
    BY <2>2 DEF IInv, CrashInv, Refused
  <2>. QED  BY <2>1, <2>2 DEF ServerEndIsContained
<1>. QED  BY <1>1, ServerInvariance, PTL

\* A server that was closed, and that neither the Worker's heap nor a Router or task
\* that was asked to use it can still have, is kept by nothing: its ports are free as
\* soon as the native server is dropped. It is the safety half of ServerReleased.
THEOREM GoneServersAreReleased == Spec => []GoneServersRest
<1>1. IInv => GoneServersRest
  <2>. SUFFICES ASSUME IInv, NEW s \in Local, server[s] = "ended", s \notin heap[Worker],
                       \A c \in Call : names[c] = s =>
                         router[to[c]] = "ended" /\ stage[c] # "creating"
       PROVE  ~InUse(s) /\ native[s] \in {"open", "closed"}
    BY DEF GoneServersRest, Local
  <2>1. \A r \in Router : s \notin heap[r]
    BY DEF IInv, HeapInv
  <2>2. \A c \in Call : names[c] = s => listener[c] # "open"
    BY DEF IInv, CallsInv, CallInv
  <2>3. native[s] \in {"open", "closed"}
    BY DEF IInv, HeapInv, ServerType, Local
  <2>. QED  BY <2>1, <2>2, <2>3 DEF InUse
<1>. QED  BY <1>1, ServerInvariance, PTL
=============================================================================
