----------------------------- MODULE WebRtcServer -----------------------------
(***************************************************************************)
(* The WebRtcServers of a Worker, and the Routers that create transports   *)
(* which listen on them.                                                   *)
(*                                                                         *)
(* A caller names a server by its pid. The Router asks that process for    *)
(* its native reference from within the callback of the create call, so    *)
(* that a server which is gone, or does not answer in time, ends the       *)
(* Router, and so do options that the NIF cannot decode. A server is       *)
(* closed by its process ending, and by nothing else: nobody disposes its  *)
(* reference, and the native server stays for as long as a process has the *)
(* reference on its heap, a create task works with the server or a         *)
(* transport listens on it. How a Router ends is the matter of             *)
(* ResourceTree, and one step here; what a caller whose own timer runs out *)
(* is told meanwhile is that of NifCall, and left out.                     *)
(***************************************************************************)
EXTENDS Naturals

CONSTANTS
  Server,   \* WebRtcServers
  Foreign,  \* those among them that run on another node than the Routers
  Router,   \* the Routers of one Worker
  Call,     \* calls of Router.create_webrtc_transport
  Worker,   \* the Worker of the Routers, and of the servers that are not foreign
  Nil       \* what a call names that creates a transport without a server

ASSUME ServerAssumption ==
  /\ Foreign \subseteq Server
  /\ Nil \notin Server
  /\ Worker \notin Router

VARIABLES
  worker,   \* the Worker's process
  server,   \* the processes of the servers
  native,   \* the native servers; those of other nodes are left out
  router,   \* the Routers' processes
  heap,     \* the references on the heaps of the Worker and the Routers (with their
            \* supervisors), garbage included
  stage,    \* how far a call has come, or how the Router answered; one whose task outlives
            \* its Router is "creating" until the task ends
  to,       \* the Router it is made to
  names,    \* the server it names
  broken,   \* the calls whose options the NIF does not decode
  listener, \* the native transport that its task creates
  slow,     \* the calls whose question a running server did not answer in time (history)
  closed    \* the Routers that were closed or stopped (history)

processes == <<worker, server, router>>
request   == <<to, names, broken>>
calls     == <<stage, request>>
history   == <<slow, closed>>
vars      == <<processes, native, heap, calls, listener, history>>

Init ==
  /\ worker = "running"
  /\ server = [s \in Server |-> IF s \in Foreign THEN "running" ELSE "absent"]
  /\ native = [s \in Server |-> "absent"]
  /\ router = [r \in Router |-> "running"]
  /\ heap = [p \in Router \cup {Worker} |-> {}]
  /\ stage = [c \in Call |-> "idle"]
  /\ to = [c \in Call |-> Nil]
  /\ names = [c \in Call |-> Nil]
  /\ broken = {}
  /\ listener = [c \in Call |-> "none"]
  /\ slow = {}
  /\ closed = {}

\* A Router works on one create_webrtc_transport at a time.
InCallback(r) == \E c \in Call : to[c] = r /\ stage[c] \in {"asking", "read"}

-----------------------------------------------------------------------------
(* The servers. *)

\* Worker.create_webrtc_server, whose result the Worker has had in its mailbox.
CreateServer(s) ==
  /\ worker = "running" /\ s \notin Foreign
  /\ server[s] = "absent"
  /\ server' = [server EXCEPT ![s] = "running"]
  /\ native' = [native EXCEPT ![s] = "open"]
  /\ heap' = [heap EXCEPT ![Worker] = @ \cup {s}]
  /\ UNCHANGED <<worker, router, calls, listener, history>>

\* WebRtcServer.close. The process has no terminate; its heap goes with it.
CloseServer(s) ==
  /\ server[s] = "running"
  /\ server' = [server EXCEPT ![s] = "ended"]
  /\ UNCHANGED <<worker, router, native, heap, calls, listener, history>>

\* A garbage collection of the Worker or a Router. It spares the reference that
\* the callback of the Router is about to pass on.
Collect(p) ==
  /\ heap' = [heap EXCEPT ![p] =
                {s \in @ : \E c \in Call : to[c] = p /\ stage[c] = "read" /\ names[c] = s}]
  /\ UNCHANGED <<processes, native, calls, listener, history>>

\* Mutant: the server is looked up by the task, not before it.
InUseLate(s) ==
  \/ server[s] = "running"
  \/ \E p \in Router \cup {Worker} : s \in heap[p]
  \/ \E c \in Call : names[c] = s /\ listener[c] = "open"

\* Who keeps the native server.
InUse(s) ==
  \/ server[s] = "running"
  \/ \E p \in Router \cup {Worker} : s \in heap[p]
  \/ \E c \in Call : names[c] = s /\ (stage[c] = "creating" \/ listener[c] = "open")

NativeDrop(s) ==
  /\ native[s] = "open"
  /\ ~InUse(s)
  /\ native' = [native EXCEPT ![s] = "closed"]
  /\ UNCHANGED <<processes, heap, calls, listener, history>>

-----------------------------------------------------------------------------
(* Router.create_webrtc_transport *)

Waiting == {"sent", "asking", "read", "creating", "arrived"}

\* Mutant: a Router ends without its transports.
EndRouterAlone(r) ==
  /\ router' = [router EXCEPT ![r] = "ended"]
  /\ heap' = [heap EXCEPT ![r] = {}]
  /\ stage' = [c \in Call |-> IF to[c] = r /\ stage[c] \in Waiting \ {"creating"}
                              THEN "terminated" ELSE stage[c]]
  /\ UNCHANGED listener

\* The process ends, and with it its transports, its heap and the results in its
\* mailbox; its callers get {:error, :terminated}. A task that runs goes on.
EndRouter(r) ==
  /\ router' = [router EXCEPT ![r] = "ended"]
  /\ heap' = [heap EXCEPT ![r] = {}]
  /\ stage' = [c \in Call |-> IF to[c] = r /\ stage[c] \in Waiting \ {"creating"}
                              THEN "terminated" ELSE stage[c]]
  /\ listener' = [c \in Call |-> IF to[c] = r /\ listener[c] = "open" THEN "closed" ELSE listener[c]]

\* NifWrap.call: a message to a process, or {:error, :terminated} if it is gone. The
\* caller may give any map of options; the Router does not look at them.
Send(c, r, s) ==
  /\ stage[c] = "idle"
  /\ s # Nil => server[s] # "absent"
  /\ to' = [to EXCEPT ![c] = r]
  /\ names' = [names EXCEPT ![c] = s]
  /\ broken' \in {broken, broken \cup {c}}
  /\ stage' = [stage EXCEPT ![c] = IF router[r] = "running" THEN "sent" ELSE "terminated"]
  /\ UNCHANGED <<processes, native, heap, listener, history>>

\* The callback of the call begins, with WebRtcServer.to_ref.
BeginCreate(c) ==
  /\ stage[c] = "sent"
  /\ ~InCallback(to[c])
  /\ stage' = [stage EXCEPT ![c] = IF names[c] = Nil THEN "read" ELSE "asking"]
  /\ UNCHANGED <<processes, native, heap, request, listener, history>>

\* The server replies with its reference.
ReadReference(c) ==
  /\ stage[c] = "asking"
  /\ server[names[c]] = "running"
  /\ stage' = [stage EXCEPT ![c] = "read"]
  /\ heap' = [heap EXCEPT ![to[c]] = @ \cup ({names[c]} \ Foreign)]
  /\ UNCHANGED <<processes, native, request, listener, history>>

\* to_ref exits: the server is gone, or ends before it replies, or runs and does not
\* reply within the 5 s of the call. Nothing in the Router catches the exit.
ServerGone(c) ==
  /\ stage[c] = "asking"
  /\ slow' = IF server[names[c]] = "running" THEN slow \cup {c} ELSE slow
  /\ EndRouter(to[c])
  /\ UNCHANGED <<worker, server, native, request, closed>>

\* The reference of another node's process is none to the NIF.
Decodes(c) == c \notin broken /\ names[c] \notin Foreign

\* The NIF clones the native server out of the reference and starts the task. It may
\* refuse options that name no server, for want of a place to listen.
Dispatch(c) ==
  /\ stage[c] = "read" /\ Decodes(c)
  /\ \E a \in {"creating"} \cup (IF names[c] = Nil THEN {"error"} ELSE {}) :
       stage' = [stage EXCEPT ![c] = a]
  /\ UNCHANGED <<processes, native, heap, request, listener, history>>

\* The NIF raises for arguments it does not decode, and nothing rescues it.
Raise(c) ==
  /\ stage[c] = "read" /\ ~Decodes(c)
  /\ EndRouter(to[c])
  /\ UNCHANGED <<worker, server, native, request, history>>

\* The task ends. It may fail. The result, and the new transport in it, is lost
\* on a Router that has ended.
TaskDone(c) ==
  /\ stage[c] = "creating"
  /\ IF router[to[c]] = "running"
     THEN /\ stage' = [stage EXCEPT ![c] = "arrived"]
          /\ \E l \in {"none", "open"} : listener' = [listener EXCEPT ![c] = l]
     ELSE /\ stage' = [stage EXCEPT ![c] = "terminated"]
          /\ \E l \in {"none", "closed"} : listener' = [listener EXCEPT ![c] = l]
  /\ UNCHANGED <<processes, native, heap, request, history>>

\* Mutant: no clause of the handler takes the error of a task.
HandleResultOrCrash(c) ==
  /\ stage[c] = "arrived"
  /\ ~InCallback(to[c])
  /\ IF listener[c] = "none"
     THEN EndRouter(to[c])
     ELSE /\ stage' = [stage EXCEPT ![c] = "ok"]
          /\ UNCHANGED <<router, heap, listener>>
  /\ UNCHANGED <<worker, server, native, request, history>>

\* handle_create_result: the transport's process is started, the caller answered.
HandleResult(c) ==
  /\ stage[c] = "arrived"
  /\ ~InCallback(to[c])
  /\ stage' = [stage EXCEPT ![c] = IF listener[c] = "none" THEN "error" ELSE "ok"]
  /\ UNCHANGED <<processes, native, heap, request, listener, history>>

CloseTransport(c) ==
  /\ stage[c] = "ok" /\ listener[c] = "open"
  /\ listener' = [listener EXCEPT ![c] = "closed"]
  /\ UNCHANGED <<processes, native, heap, calls, history>>

-----------------------------------------------------------------------------
(* The ends of Routers and of the Worker. *)

\* Router.close; a Router in a callback reads the request after it.
CloseRouter(r) ==
  /\ router[r] = "running" /\ ~InCallback(r)
  /\ EndRouter(r)
  /\ closed' = closed \cup {r}
  /\ UNCHANGED <<worker, server, native, request, slow>>

\* Worker.close.
CloseWorker ==
  /\ worker = "running"
  /\ worker' = "stopping"
  /\ UNCHANGED <<server, router, native, heap, calls, listener, history>>

\* supervisor_clean_stop stops the Worker's children one after the other.
StopServer(s) ==
  /\ worker = "stopping" /\ s \notin Foreign
  /\ CloseServer(s)

StopRouter(r) ==
  /\ worker = "stopping"
  /\ CloseRouter(r)

WorkerEnded ==
  /\ worker = "stopping"
  /\ \A s \in Server \ Foreign : server[s] # "running"
  /\ \A r \in Router : router[r] = "ended"
  /\ worker' = "ended"
  /\ heap' = [heap EXCEPT ![Worker] = {}]
  /\ UNCHANGED <<server, router, native, calls, listener, history>>

-----------------------------------------------------------------------------

Serve(c) ==
  \/ BeginCreate(c) \/ ReadReference(c) \/ ServerGone(c) \/ Dispatch(c) \/ Raise(c)
  \/ TaskDone(c) \/ HandleResult(c)

Next ==
  \/ CloseWorker \/ WorkerEnded
  \/ \E s \in Server :
       CreateServer(s) \/ CloseServer(s) \/ NativeDrop(s) \/ StopServer(s)
  \/ \E r \in Router : CloseRouter(r) \/ StopRouter(r)
  \/ \E p \in Router \cup {Worker} : Collect(p)
  \/ \E c \in Call :
       \/ \E r \in Router, s \in Server \cup {Nil} : Send(c, r, s)
       \/ Serve(c) \/ CloseTransport(c)

\* Processes read their mail, tasks end, a Worker that stops goes on stopping its
\* children, and what nothing holds is dropped. No process has to collect its
\* garbage: one that idles does not.
Fairness ==
  /\ \A c \in Call : WF_vars(Serve(c))
  /\ \A s \in Server : WF_vars(NativeDrop(s)) /\ WF_vars(StopServer(s))
  /\ \A r \in Router : WF_vars(StopRouter(r))
  /\ WF_vars(WorkerEnded)

Spec == Init /\ [][Next]_vars /\ Fairness

-----------------------------------------------------------------------------
(* Properties. *)

\* A call that a Router cannot serve: its options do not decode, or it names a server
\* of another node, one that is gone, or one that did not answer in time.
Unserved(c) ==
  \/ ~Decodes(c)
  \/ c \in slow
  \/ names[c] # Nil /\ server[names[c]] = "ended"

\* Ending a server costs no transport that listens on it and no create call that
\* has its reference, whoever has let go of the server since. What it costs are the
\* Routers that are asked to use it later: a Router that nobody closed ended in a
\* call that it could not serve, and that was made to it and to no other Router.
ServerEndIsContained ==
  /\ \A c \in Call :
       names[c] \in Server \ Foreign /\ (stage[c] \in {"read", "creating"} \/ listener[c] = "open")
         => native[names[c]] = "open"
  /\ \A r \in Router : router[r] = "ended" /\ r \notin closed =>
       \E c \in Call : to[c] = r /\ stage[c] = "terminated" /\ Unserved(c)

\* What ServerReleased leads to is there when nothing is left to do: a native server
\* that the process has left, the Worker has collected and no running Router or task
\* was asked for has nothing that keeps it, and is closed unless its drop is due.
GoneServersRest ==
  \A s \in Server \ Foreign :
    (/\ server[s] = "ended"
     /\ s \notin heap[Worker]
     /\ \A c \in Call : names[c] = s => router[to[c]] = "ended" /\ stage[c] # "creating")
      => ~InUse(s) /\ native[s] \in {"open", "closed"}

\* Once a server was closed, and the Routers that were asked to use it are gone,
\* the native server closes and its ports are free, with the tasks that were under
\* way at the time; nothing but the Worker's own garbage keeps it then.
ServerReleased ==
  \A s \in Server \ Foreign :
    (/\ server[s] = "ended"
     /\ s \notin heap[Worker]
     /\ \A c \in Call : names[c] = s => router[to[c]] = "ended")
      ~> (native[s] = "closed")
=============================================================================
