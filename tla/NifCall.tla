------------------------------ MODULE NifCall ------------------------------
(***************************************************************************)
(* One GenServer that hosts a NIF resource (a Worker, Router, transport,   *)
(* producer, consumer ... process), the processes that call it through     *)
(* NifWrap.call, the Rust tasks its asynchronous NIFs spawn, and the child *)
(* processes its create calls start.                                       *)
(*                                                                         *)
(* A call goes: request in the server's mailbox, NIF dispatch, (for an     *)
(* asynchronous NIF) a task on the Rust executor, a result message in the  *)
(* server's mailbox, a reply.  Every caller runs the 5 second timer of     *)
(* GenServer.call and monitors the server.  The mailbox is kept as the     *)
(* stage each request has reached and not as a queue: its messages come    *)
(* from different senders (callers, executor threads), so any order of     *)
(* arrival is possible.                                                    *)
(***************************************************************************)
EXTENDS Naturals, FiniteSets

CONSTANTS
  Query,        \* calls of a synchronous NIF (def_handle_call_nif): id, closed?, can_consume? ...
  Job,          \* calls of an asynchronous NIF that only answer: dump, get_stats, connect ...
  Creation,     \* calls whose result is a new native object: create_router, consume ...
  Guarded,      \* creations whose handler replies the NIF's error: create_webrtc_transport
  MaxCall       \* bound on the calls made of the server, for TLC

ASSUME CallAssumption ==
  /\ Query \cap Job = {} /\ Query \cap Creation = {} /\ Job \cap Creation = {}
  /\ Guarded \subseteq Creation /\ MaxCall \in Nat

Call == Query \cup Job \cup Creation

VARIABLES
  server,    \* the GenServer process
  ref,       \* its DisposableResourceWrapper: Some (open) or None (disposed)
  request,   \* where each request is in the server
  caller,    \* what the calling process sees
  reply,     \* the answer GenServer.reply sent, "none" before that
  native,    \* the native object a creation's task produced
  child,     \* the child process started for it
  expired    \* calls whose timer ran out (history)

vars == <<server, ref, request, caller, reply, native, child, expired>>

Answer == {"ok", "hollow", "error", "raised", "terminated"}

TypeOK ==
  /\ server  \in {"running", "dead"}
  /\ ref     \in {"open", "disposed"}
  /\ request \in [Call -> {"unsent", "queued", "task", "result", "starting", "answered", "dropped"}]
  /\ caller  \in [Call -> {"idle", "waiting"} \cup Answer]
  /\ reply   \in [Call -> {"none"} \cup Answer]
  /\ native  \in [Creation -> {"none", "open", "closed"}]
  /\ child   \in [Creation -> {"none", "running", "dead"}]
  /\ expired \subseteq Call

Init ==
  /\ server  = "running"
  /\ ref     = "open"
  /\ request = [c \in Call |-> "unsent"]
  /\ caller  = [c \in Call |-> "idle"]
  /\ reply   = [c \in Call |-> "none"]
  /\ native  = [c \in Creation |-> "none"]
  /\ child   = [c \in Creation |-> "none"]
  /\ expired = {}

(***************************************************************************)
(* The server takes a message only when it is between callbacks; a create  *)
(* result keeps it busy from start_child to the reply.                     *)
(***************************************************************************)
Free == server = "running" /\ \A c \in Call : request[c] # "starting"

Answered(c, a) ==
  /\ request' = [request EXCEPT ![c] = "answered"]
  /\ reply'   = [reply EXCEPT ![c] = a]

-----------------------------------------------------------------------------
(* The caller: NifWrap.call. *)

\* GenServer.call: the request is sent, or the call exits at once because the
\* server is already dead, which the catch turns into {:error, :terminated}.
Send(c) ==
  /\ caller[c] = "idle"
  /\ Cardinality({d \in Call : caller[d] # "idle"}) < MaxCall
  /\ \/ /\ server = "running"
        /\ caller'  = [caller EXCEPT ![c] = "waiting"]
        /\ request' = [request EXCEPT ![c] = "queued"]
     \/ /\ server = "dead"
        /\ caller'  = [caller EXCEPT ![c] = "terminated"]
        /\ UNCHANGED request
  /\ UNCHANGED <<server, ref, reply, native, child, expired>>

\* The reply reaches the caller that still waits for it.
Receive(c) ==
  /\ caller[c] = "waiting"
  /\ reply[c] # "none"
  /\ caller' = [caller EXCEPT ![c] = reply[c]]
  /\ UNCHANGED <<server, ref, request, reply, native, child, expired>>

\* Mutant: the caught exit is reported as a failure of the operation.
SeeDownAsError(c) ==
  /\ caller[c] = "waiting"
  /\ server = "dead"
  /\ reply[c] = "none"
  /\ caller' = [caller EXCEPT ![c] = "error"]
  /\ UNCHANGED <<server, ref, request, reply, native, child, expired>>

\* The server died before answering: its monitor signal, which arrives after
\* any reply it sent, ends the call.
SeeDown(c) ==
  /\ caller[c] = "waiting"
  /\ server = "dead"
  /\ reply[c] = "none"
  /\ caller' = [caller EXCEPT ![c] = "terminated"]
  /\ UNCHANGED <<server, ref, request, reply, native, child, expired>>

\* The 5 s timer runs out; the exit is caught and looks like a dead server.
Expire(c) ==
  /\ caller[c] = "waiting"
  /\ caller'  = [caller EXCEPT ![c] = "terminated"]
  /\ expired' = expired \cup {c}
  /\ UNCHANGED <<server, ref, request, reply, native, child>>

-----------------------------------------------------------------------------
(* The server's handle_call clauses. *)

\* Mutant: get_resource with its two cases exchanged.
HandleQueryInverted(c) ==
  /\ Free
  /\ c \in Query
  /\ request[c] = "queued"
  /\ \E a \in {"raised"} \cup (IF ref = "open" THEN {"terminated"} ELSE {"ok"}) : Answered(c, a)
  /\ UNCHANGED <<server, ref, caller, native, child, expired>>

\* A synchronous NIF: its value; on a disposed resource the error of
\* get_resource, or again a value (closed? is then true); the exception of an
\* argument that does not decode.
HandleQuery(c) ==
  /\ Free
  /\ c \in Query
  /\ request[c] = "queued"
  /\ \E a \in {"ok", "raised"} \cup (IF ref = "open" THEN {} ELSE {"terminated"}) :
       Answered(c, a)
  /\ UNCHANGED <<server, ref, caller, native, child, expired>>

\* What the asynchronous NIF may return to the handler: a creation on an open
\* resource is refused when its options are (try_to_option).
Accepts(c) == ref = "open"
Refuses(c) == ref = "disposed" \/ c \in Creation

\* The NIF spawned its task; the handler returns {:noreply, state}.
Dispatch(c) ==
  /\ Free
  /\ c \in Job \cup Creation
  /\ request[c] = "queued"
  /\ Accepts(c)
  /\ request' = [request EXCEPT ![c] = "task"]
  /\ UNCHANGED <<server, ref, caller, reply, native, child, expired>>

\* The NIF returned {:error, _}: the generated handler ignores the result.
IgnoreRefusal(c) ==
  /\ Free
  /\ c \in (Job \cup Creation) \ Guarded
  /\ request[c] = "queued"
  /\ Refuses(c)
  /\ request' = [request EXCEPT ![c] = "dropped"]
  /\ UNCHANGED <<server, ref, caller, reply, native, child, expired>>

\* Mutant: the error is matched away like in the generated handler.
ReplyRefusalIgnored(c) ==
  /\ Free
  /\ c \in Guarded
  /\ request[c] = "queued"
  /\ Refuses(c)
  /\ request' = [request EXCEPT ![c] = "dropped"]
  /\ UNCHANGED <<server, ref, caller, reply, native, child, expired>>

\* create_webrtc_transport replies the error instead.
ReplyRefusal(c) ==
  /\ Free
  /\ c \in Guarded
  /\ request[c] = "queued"
  /\ Refuses(c)
  /\ Answered(c, IF ref = "open" THEN "error" ELSE "terminated")
  /\ UNCHANGED <<server, ref, caller, native, child, expired>>

\* The NIF raised (an argument did not decode): rescued and replied.
Raise(c) ==
  /\ Free
  /\ c \in (Job \cup Creation) \ Guarded
  /\ request[c] = "queued"
  /\ Answered(c, "raised")
  /\ UNCHANGED <<server, ref, caller, native, child, expired>>

-----------------------------------------------------------------------------
(* The Rust executor and the server's handle_info clauses. *)

\* Mutant: the object of a result that cannot be delivered is not freed.
TaskDoneLeaks(c) ==
  /\ request[c] = "task"
  /\ request' = [request EXCEPT ![c] = IF server = "running" THEN "result" ELSE "dropped"]
  /\ \/ UNCHANGED native
     \/ /\ c \in Creation
        /\ native' = [native EXCEPT ![c] = "open"]
  /\ UNCHANGED <<server, ref, caller, reply, child, expired>>

\* The task ends and sends its result; a message to a dead process is freed,
\* and with it the object it carries.
TaskDone(c) ==
  /\ request[c] = "task"
  /\ IF server = "running"
     THEN /\ request' = [request EXCEPT ![c] = "result"]
          /\ \/ UNCHANGED native
             \/ /\ c \in Creation
                /\ native' = [native EXCEPT ![c] = "open"]
     ELSE /\ request' = [request EXCEPT ![c] = "dropped"]
          /\ UNCHANGED native
  /\ UNCHANGED <<server, ref, caller, reply, child, expired>>

\* The result of a job, or the error of a creation, is replied.
HandleResult(c) ==
  /\ Free
  /\ request[c] = "result"
  /\ \/ c \in Job /\ \E a \in {"ok", "error"} : Answered(c, a)
     \/ c \in Creation /\ native[c] = "none" /\ Answered(c, "error")
  /\ UNCHANGED <<server, ref, caller, native, child, expired>>

\* handle_create_result, first half: DynamicSupervisor.start_child.
StartChild(c) ==
  /\ Free
  /\ c \in Creation
  /\ request[c] = "result"
  /\ native[c] = "open"
  /\ request' = [request EXCEPT ![c] = "starting"]
  /\ child'   = [child EXCEPT ![c] = "running"]
  /\ UNCHANGED <<server, ref, caller, reply, native, expired>>

\* Mutant: the result of start_child does not match and is replied as an error.
FinishCreateMismatch(c) ==
  /\ server = "running"
  /\ c \in Creation
  /\ request[c] = "starting"
  /\ Answered(c, "error")
  /\ UNCHANGED <<server, ref, caller, native, child, expired>>

\* Second half: struct_from_pid_and_ref reads the new object's properties in
\* the server. When the child has already closed it, the struct in {:ok, _}
\* carries {:error, :terminated} where the properties should be ("hollow").
FinishCreate(c) ==
  /\ server = "running"
  /\ c \in Creation
  /\ request[c] = "starting"
  /\ Answered(c, IF native[c] = "open" THEN "ok" ELSE "hollow")
  /\ UNCHANGED <<server, ref, caller, native, child, expired>>

\* A child ends on its own: its close, or the close of what it depends on.
ChildStop(c) ==
  /\ c \in Creation
  /\ child[c] = "running"
  /\ child'  = [child EXCEPT ![c] = "dead"]
  /\ native' = [native EXCEPT ![c] = "closed"]
  /\ UNCHANGED <<server, ref, request, caller, reply, expired>>

-----------------------------------------------------------------------------
(* The end of the server. *)

\* What was in the mailbox or under way in a callback is lost.
LoseMailbox ==
  request' = [c \in Call |-> IF request[c] \in {"queued", "result", "starting"}
                             THEN "dropped" ELSE request[c]]

\* terminate: every child is stopped, the supervisor with them, the own
\* reference is disposed; the objects of unread results go with the mailbox.
Terminate ==
  /\ server' = "dead"
  /\ ref'    = "disposed"
  /\ LoseMailbox
  /\ child'  = [c \in Creation |-> IF child[c] = "running" THEN "dead" ELSE child[c]]
  /\ native' = [c \in Creation |-> IF native[c] = "open" THEN "closed" ELSE native[c]]
  /\ UNCHANGED <<caller, reply, expired>>

\* Worker.close, Router.close ... (GenServer.stop), or a {:stop, ...} callback.
Stop == Free /\ Terminate

\* create_webrtc_transport runs its NIF, and the call to the WebRtcServer
\* before it, outside any rescue: an exception there ends the server.
Crash(c) ==
  /\ c \in Guarded
  /\ request[c] = "queued"
  /\ Stop

\* :debug_stop_worker disposes the resource under the live server.
DebugStop ==
  /\ Free
  /\ ref = "open"
  /\ ref' = "disposed"
  /\ UNCHANGED <<server, request, caller, reply, native, child, expired>>

\* Nothing holds the native object any more: its on_close callback reaches
\* the server, which stops :normal.  Tasks hold a clone of the object, and
\* the objects created from it hold it too.
NativeOnClose ==
  /\ ref = "disposed"
  /\ \A c \in Call : request[c] # "task"
  /\ \A c \in Creation : native[c] # "open"
  /\ Stop

\* An exit signal of a linked process: no process of the library traps exits,
\* so terminate does not run; the heap, with the reference, is freed.
Kill ==
  /\ server = "running"
  /\ server' = "dead"
  /\ ref'    = "disposed"
  /\ LoseMailbox
  /\ native' = [c \in Creation |-> IF native[c] = "open" /\ child[c] = "none"
                                   THEN "closed" ELSE native[c]]
  /\ UNCHANGED <<caller, reply, child, expired>>

\* Mutant: the supervisor is started without a link.
SupervisorDownNever(c) == FALSE

\* The supervisor, linked to the server, follows it and shuts its children down.
SupervisorDown(c) ==
  /\ server = "dead"
  /\ ChildStop(c)

Next ==
  \/ \E c \in Call :
       \/ Send(c) \/ Receive(c) \/ SeeDown(c) \/ Expire(c)
       \/ HandleQuery(c) \/ Dispatch(c) \/ IgnoreRefusal(c) \/ ReplyRefusal(c) \/ Raise(c)
       \/ TaskDone(c) \/ HandleResult(c) \/ StartChild(c) \/ FinishCreate(c)
       \/ ChildStop(c) \/ Crash(c)
  \/ Stop \/ DebugStop \/ NativeOnClose \/ Kill

\* The scheduler runs a server that has a message, the executor ends its
\* tasks, a caller reads its mailbox and supervisors follow their parents.
\* Nobody is obliged to call, stop, kill or dispose anything, and no timer is
\* obliged to run out: what is promised below does not wait for one.
Fairness ==
  /\ \A c \in Call :
       /\ WF_vars(Receive(c)) /\ WF_vars(SeeDown(c))
       /\ WF_vars(TaskDone(c)) /\ WF_vars(FinishCreate(c)) /\ WF_vars(SupervisorDown(c))
       /\ WF_vars(HandleQuery(c) \/ Dispatch(c) \/ IgnoreRefusal(c) \/ ReplyRefusal(c)
                  \/ HandleResult(c) \/ StartChild(c))
  /\ WF_vars(NativeOnClose)

Spec == Init /\ [][Next]_vars /\ Fairness

-----------------------------------------------------------------------------
(* Properties. *)

\* {:error, :terminated} from a call the server did not answer has one of two
\* reasons: the server is dead, or the caller's timer ran out (lib/wrap.ex
\* catches both as the same exit).  From a live server whose resource is open
\* it can only be the timer.
TerminatedIsExplained ==
  \A c \in Call : caller[c] = "terminated" =>
    server = "dead" \/ c \in expired \/ ref = "disposed"

\* A child process that runs under a live server while its creator was told
\* that nothing was created exists only because that creator's timer ran out
\* before the answer: the late create result still starts its child.
OrphanOnlyAfterTimeout ==
  \A c \in Creation :
    (server = "running" /\ child[c] = "running" /\ caller[c] \in {"error", "raised", "terminated"})
      => c \in expired

\* Every native object a task produced is owned: by an unread result in the
\* mailbox of the live server, or by a child process.  None is left to nobody,
\* whenever the server stops, is killed, or its caller has given up.
ObjectsAreOwned ==
  \A c \in Creation : native[c] = "open" =>
    \/ server = "running" /\ request[c] = "result"
    \/ child[c] = "running"

\* A server that ended through terminate leaves no child behind; after a kill
\* the supervisor takes the children down.  Either way they end.
ChildrenFollowServer ==
  \A c \in Creation : (server = "dead") ~> (child[c] # "running" /\ native[c] # "open")

\* The answer of closed? (and of the other queries): {:error, :terminated},
\* which closed? reports as true, only when the server or its resource is gone.
\* lib/router.ex:114 "Tells whether the given router is closed on the local node."
ClosedOnlyWhenGone ==
  \A c \in Query : caller[c] = "terminated" => server = "dead" \/ ref = "disposed"

\* A call whose refusal the generated handler of an asynchronous NIF forgot.
Forgotten(c) == server = "running" /\ c \notin Guarded /\ request[c] = "dropped"

\* Every call returns by itself, without its timer: it is answered, or its
\* server dies.  The exception is a call the NIF refused outside the guarded
\* handler (lib/wrap.ex, def_handle_call_async_nif), which only the timer ends.
AnsweredWithoutTimer ==
  \A c \in Call : (caller[c] = "waiting") ~> (caller[c] # "waiting" \/ Forgotten(c))

\* The server implements the contract of its create calls.
Outcome(c) ==
  IF caller[c] = "waiting" THEN "pending"
  ELSE IF caller[c] \in {"ok", "hollow"} THEN "ok"
  ELSE IF caller[c] \in {"error", "raised"} THEN "failed"
  ELSE caller[c]

C == INSTANCE CreateContract
       WITH outcome <- [c \in Creation |-> Outcome(c)],
            started <- {c \in Creation : child[c] # "none"}

\* A create call whose caller was told of a failure has no effect and never
\* will have one, and {:ok, _} always stands for a started child
\* (handle_create_result, lib/wrap.ex, and the replies of lib/router.ex).
ImplementsContract == C!Contract

-----------------------------------------------------------------------------
(* The inductive invariant behind the properties above. *)

\* A call that was not made has sent nothing; a reply exists exactly for the
\* answered requests; a dead server has no request left to handle.
RequestsInv ==
  \A c \in Call :
    /\ caller[c] = "idle" => request[c] = "unsent"
    /\ (reply[c] # "none") <=> (request[c] = "answered")
    /\ server = "dead" => request[c] \notin {"queued", "result", "starting"}

\* What a caller sees is the reply, or a death, or its own timer; a live
\* server answers "terminated" only once its resource is disposed.
AnswersInv ==
  /\ server = "dead" => ref = "disposed"
  /\ \A c \in Call :
       /\ caller[c] \in Answer \ {"terminated"} => reply[c] = caller[c]
       /\ caller[c] = "terminated" => server = "dead" \/ c \in expired \/ reply[c] = "terminated"
       /\ reply[c] = "terminated" => ref = "disposed"

\* The stage of a creation says whether its object and its child exist.
CreationsInv ==
  \A c \in Creation :
    /\ request[c] \in {"unsent", "queued", "task"} => native[c] = "none"
    /\ child[c] # "none" => request[c] \in {"starting", "answered", "dropped"}
    /\ reply[c] \in {"ok", "hollow"} => child[c] # "none"
    /\ reply[c] \in {"error", "raised", "terminated"} => child[c] = "none"
    /\ request[c] = "starting" => child[c] # "none"
    /\ native[c] = "open" =>
         (server = "running" /\ request[c] = "result") \/ child[c] = "running"

\* What a waiting caller waits for is there or on its way: the answer, the death of
\* the server, a task, a message some clause of the server takes.
Served(c) ==
  \/ reply[c] # "none" \/ server = "dead"
  \/ request[c] \in {"task", "starting"}
  \/ request[c] = "queued" /\ (c \in Query \/ Accepts(c) \/ Refuses(c))
  \/ request[c] = "result" /\ (c \in Job \/ native[c] \in {"none", "open"})

\* Nobody waits in vain but for a refusal the generated handler forgot: no request
\* is lost while its server lives, and no result fits no clause. It is the safety
\* half of AnsweredWithoutTimer.
NobodyWaitsInVain ==
  \A c \in Call : caller[c] = "waiting" => Served(c) \/ Forgotten(c)

\* A caller waits only for a request it has sent; only a creation has an object, and
\* one nobody has read yet has not closed; a query takes no task.
WaitingInv ==
  \A c \in Call :
    /\ caller[c] = "waiting" => request[c] # "unsent"
    /\ request[c] = "result" => c \in Job \/ (c \in Creation /\ native[c] # "closed")
    /\ request[c] = "task" => c \notin Query
    /\ request[c] = "dropped" => server = "dead" \/ c \notin Guarded

IInv == TypeOK /\ RequestsInv /\ AnswersInv /\ CreationsInv /\ WaitingInv /\ NobodyWaitsInVain
=============================================================================
