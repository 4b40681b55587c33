--------------------------- MODULE NifCallProofs ---------------------------
(***************************************************************************)
(* Proofs about NifCall for every set of calls: the inductive invariant,   *)
(* the safety properties it implies, and that every step of the server is  *)
(* a step of the contract of its create calls, or none.                    *)
(***************************************************************************)
EXTENDS NifCall, TLAPS

\* The invariant holds before any call is made.
LEMMA InitInv == Init => IInv
<1>1. Init => TypeOK
  BY DEF Init, TypeOK, Answer
<1>2. Init => RequestsInv /\ AnswersInv /\ CreationsInv
  BY DEF Init, RequestsInv, AnswersInv, CreationsInv, Answer, Call
<1>3. Init => WaitingInv /\ NobodyWaitsInVain
  BY DEF Init, WaitingInv, NobodyWaitsInVain
<1>. QED  BY <1>1, <1>2, <1>3 DEF IInv

\* Every action keeps the variables in their types.
LEMMA TypeStep == TypeOK /\ [Next]_vars => TypeOK'
<1>. SUFFICES ASSUME TypeOK, [Next]_vars PROVE TypeOK'
  OBVIOUS
<1>. USE DEF TypeOK, Answer
<1>1. ASSUME NEW c \in Call, Send(c) PROVE TypeOK'
  BY <1>1 DEF Send
<1>2. ASSUME NEW c \in Call, Receive(c) \/ SeeDown(c) \/ Expire(c) PROVE TypeOK'
  BY <1>2 DEF Receive, SeeDown, Expire
<1>3. ASSUME NEW c \in Call, HandleQuery(c) PROVE TypeOK'
  BY <1>3 DEF HandleQuery, Answered
<1>4. ASSUME NEW c \in Call, Dispatch(c) \/ IgnoreRefusal(c) PROVE TypeOK'
  BY <1>4 DEF Dispatch, IgnoreRefusal
<1>5. ASSUME NEW c \in Call, ReplyRefusal(c) \/ Raise(c) PROVE TypeOK'
  BY <1>5 DEF ReplyRefusal, Raise, Answered
<1>6. ASSUME NEW c \in Call, TaskDone(c) PROVE TypeOK'
  BY <1>6 DEF TaskDone
<1>7. ASSUME NEW c \in Call, HandleResult(c) \/ FinishCreate(c) PROVE TypeOK'
  BY <1>7 DEF HandleResult, FinishCreate, Answered
<1>8. ASSUME NEW c \in Call, StartChild(c) \/ ChildStop(c) PROVE TypeOK'
  BY <1>8 DEF StartChild, ChildStop
<1>9. ASSUME Terminate PROVE TypeOK'
  BY <1>9 DEF Terminate, LoseMailbox
<1>10. CASE DebugStop
  BY <1>10 DEF DebugStop
<1>11. CASE Kill
  BY <1>11 DEF Kill, LoseMailbox
<1>12. CASE UNCHANGED vars
  BY <1>12 DEF vars
<1>. QED
  BY <1>1, <1>2, <1>3, <1>4, <1>5, <1>6, <1>7, <1>8, <1>9, <1>10, <1>11, <1>12
     DEF Next, Crash, Stop, NativeOnClose

\* Requests and replies stay in step.
LEMMA RequestsStep == TypeOK /\ RequestsInv /\ [Next]_vars => RequestsInv'
<1>. SUFFICES ASSUME TypeOK, RequestsInv, [Next]_vars PROVE RequestsInv'
  OBVIOUS
<1>. USE DEF TypeOK, Answer, RequestsInv
<1>1. ASSUME NEW c \in Call, Send(c) PROVE RequestsInv'
  BY <1>1 DEF Send
<1>2. ASSUME NEW c \in Call, Receive(c) \/ SeeDown(c) \/ Expire(c) PROVE RequestsInv'
  BY <1>2 DEF Receive, SeeDown, Expire
<1>3. ASSUME NEW c \in Call, HandleQuery(c) PROVE RequestsInv'
  BY <1>3 DEF HandleQuery, Answered, Free
<1>4. ASSUME NEW c \in Call, Dispatch(c) \/ IgnoreRefusal(c) PROVE RequestsInv'
  BY <1>4 DEF Dispatch, IgnoreRefusal
<1>5. ASSUME NEW c \in Call, ReplyRefusal(c) \/ Raise(c) PROVE RequestsInv'
  BY <1>5 DEF ReplyRefusal, Raise, Answered
<1>6. ASSUME NEW c \in Call, TaskDone(c) PROVE RequestsInv'
  BY <1>6 DEF TaskDone
<1>7. ASSUME NEW c \in Call, HandleResult(c) \/ FinishCreate(c) PROVE RequestsInv'
  BY <1>7 DEF HandleResult, FinishCreate, Answered, Free
<1>8. ASSUME NEW c \in Call, StartChild(c) \/ ChildStop(c) PROVE RequestsInv'
  BY <1>8 DEF StartChild, ChildStop, Free
<1>9. ASSUME Terminate PROVE RequestsInv'
  BY <1>9 DEF Terminate, LoseMailbox
<1>10. CASE DebugStop
  BY <1>10 DEF DebugStop
<1>11. CASE Kill
  BY <1>11 DEF Kill, LoseMailbox
<1>12. CASE UNCHANGED vars
  BY <1>12 DEF vars
<1>. QED
  BY <1>1, <1>2, <1>3, <1>4, <1>5, <1>6, <1>7, <1>8, <1>9, <1>10, <1>11, <1>12
     DEF Next, Crash, Stop, NativeOnClose

\* What callers see stays explained.
LEMMA AnswersStep ==
  TypeOK /\ RequestsInv /\ AnswersInv /\ [Next]_vars => AnswersInv'
<1>. SUFFICES ASSUME TypeOK, RequestsInv, AnswersInv, [Next]_vars PROVE AnswersInv'
  OBVIOUS
<1>. USE DEF TypeOK, Answer, AnswersInv
<1>1. ASSUME NEW c \in Call, Send(c) PROVE AnswersInv'
  BY <1>1 DEF Send
<1>2. ASSUME NEW c \in Call, Receive(c) \/ SeeDown(c) \/ Expire(c) PROVE AnswersInv'
  BY <1>2 DEF Receive, SeeDown, Expire
<1>3. ASSUME NEW c \in Call, HandleQuery(c) PROVE AnswersInv'
  BY <1>3 DEF HandleQuery, Answered, Free, RequestsInv
<1>4. ASSUME NEW c \in Call, Dispatch(c) \/ IgnoreRefusal(c) PROVE AnswersInv'
  BY <1>4 DEF Dispatch, IgnoreRefusal
<1>5. ASSUME NEW c \in Call, ReplyRefusal(c) \/ Raise(c) PROVE AnswersInv'
  BY <1>5 DEF ReplyRefusal, Raise, Answered, RequestsInv
<1>6. ASSUME NEW c \in Call, TaskDone(c) PROVE AnswersInv'
  BY <1>6 DEF TaskDone
<1>7. ASSUME NEW c \in Call, HandleResult(c) \/ FinishCreate(c) PROVE AnswersInv'
  BY <1>7 DEF HandleResult, FinishCreate, Answered, Free, RequestsInv
<1>8. ASSUME NEW c \in Call, StartChild(c) \/ ChildStop(c) PROVE AnswersInv'
  BY <1>8 DEF StartChild, ChildStop
<1>9. ASSUME Terminate PROVE AnswersInv'
  BY <1>9 DEF Terminate
<1>10. CASE DebugStop
  BY <1>10 DEF DebugStop, Free
<1>11. CASE Kill
  BY <1>11 DEF Kill
<1>12. CASE UNCHANGED vars
  BY <1>12 DEF vars
<1>. QED
  BY <1>1, <1>2, <1>3, <1>4, <1>5, <1>6, <1>7, <1>8, <1>9, <1>10, <1>11, <1>12
     DEF Next, Crash, Stop, NativeOnClose

\* Objects and children stay in step with the stage of their creation.
LEMMA CreationsStep ==
  TypeOK /\ RequestsInv /\ CreationsInv /\ [Next]_vars => CreationsInv'
<1>. SUFFICES ASSUME TypeOK, RequestsInv, CreationsInv, [Next]_vars PROVE CreationsInv'
  OBVIOUS
<1>. Creation \subseteq Call
  BY DEF Call
<1>. USE DEF TypeOK, Answer, CreationsInv
<1>1. ASSUME NEW c \in Call, Send(c) PROVE CreationsInv'
  BY <1>1 DEF Send, RequestsInv
<1>2. ASSUME NEW c \in Call, Receive(c) \/ SeeDown(c) \/ Expire(c) PROVE CreationsInv'
  BY <1>2 DEF Receive, SeeDown, Expire
<1>3. ASSUME NEW c \in Call, HandleQuery(c) PROVE CreationsInv'
  BY <1>3, CallAssumption DEF HandleQuery, Answered, Free
<1>4. ASSUME NEW c \in Call, Dispatch(c) \/ IgnoreRefusal(c) PROVE CreationsInv'
  BY <1>4 DEF Dispatch, IgnoreRefusal
<1>5. ASSUME NEW c \in Call, ReplyRefusal(c) \/ Raise(c) PROVE CreationsInv'
  BY <1>5 DEF ReplyRefusal, Raise, Answered
<1>6. ASSUME NEW c \in Call, TaskDone(c) PROVE CreationsInv'
  BY <1>6 DEF TaskDone
<1>7. ASSUME NEW c \in Call, HandleResult(c) \/ FinishCreate(c) PROVE CreationsInv'
  BY <1>7, CallAssumption DEF HandleResult, FinishCreate, Answered
<1>8. ASSUME NEW c \in Call, StartChild(c) \/ ChildStop(c) PROVE CreationsInv'
  BY <1>8, RequestsInv DEF StartChild, ChildStop, RequestsInv
<1>9. ASSUME Terminate PROVE CreationsInv'
  BY <1>9 DEF Terminate, LoseMailbox
<1>10. CASE DebugStop
  BY <1>10 DEF DebugStop
<1>11. CASE Kill
  BY <1>11 DEF Kill, LoseMailbox
<1>12. CASE UNCHANGED vars
  BY <1>12 DEF vars
<1>. QED
  BY <1>1, <1>2, <1>3, <1>4, <1>5, <1>6, <1>7, <1>8, <1>9, <1>10, <1>11, <1>12
     DEF Next, Crash, Stop, NativeOnClose

\* No request is lost while its server lives, but by the generated handler.
LEMMA WaitingStep ==
  TypeOK /\ CreationsInv /\ WaitingInv /\ [Next]_vars => WaitingInv'
<1>. SUFFICES ASSUME TypeOK, CreationsInv, WaitingInv, [Next]_vars PROVE WaitingInv'
  OBVIOUS
<1>. Creation \subseteq Call /\ Guarded \subseteq Creation
  BY CallAssumption DEF Call
<1>. USE DEF TypeOK, Answer, WaitingInv
<1>1. ASSUME NEW c \in Call, Send(c) PROVE WaitingInv'
  BY <1>1 DEF Send
<1>2. ASSUME NEW c \in Call, Receive(c) \/ SeeDown(c) \/ Expire(c) PROVE WaitingInv'
  BY <1>2 DEF Receive, SeeDown, Expire
<1>3. ASSUME NEW c \in Call, HandleQuery(c) PROVE WaitingInv'
  BY <1>3 DEF HandleQuery, Answered
<1>4. ASSUME NEW c \in Call, Dispatch(c) \/ IgnoreRefusal(c) PROVE WaitingInv'
  BY <1>4, CallAssumption DEF Dispatch, IgnoreRefusal
<1>5. ASSUME NEW c \in Call, ReplyRefusal(c) \/ Raise(c) PROVE WaitingInv'
  BY <1>5 DEF ReplyRefusal, Raise, Answered
<1>6. ASSUME NEW c \in Call, TaskDone(c) PROVE WaitingInv'
  <2>1. c \in Job \/ (c \in Creation /\ native[c] = "none")
    BY <1>6 DEF TaskDone, CreationsInv, Call
  <2>. QED  BY <1>6, <2>1, CallAssumption DEF TaskDone
<1>7. ASSUME NEW c \in Call, HandleResult(c) \/ FinishCreate(c) PROVE WaitingInv'
  BY <1>7 DEF HandleResult, FinishCreate, Answered
<1>8. ASSUME NEW c \in Call, StartChild(c) \/ ChildStop(c) PROVE WaitingInv'
  BY <1>8 DEF StartChild, ChildStop, CreationsInv
<1>9. ASSUME Terminate PROVE WaitingInv'
  BY <1>9 DEF Terminate, LoseMailbox
<1>10. CASE DebugStop
  BY <1>10 DEF DebugStop
<1>11. CASE Kill
  BY <1>11 DEF Kill, LoseMailbox
<1>12. CASE UNCHANGED vars
  BY <1>12 DEF vars
<1>. QED
  BY <1>1, <1>2, <1>3, <1>4, <1>5, <1>6, <1>7, <1>8, <1>9, <1>10, <1>11, <1>12
     DEF Next, Crash, Stop, NativeOnClose

\* In every stage a request that still lacks its answer has somebody to move it.
LEMMA StagesAreServed ==
  TypeOK /\ RequestsInv /\ WaitingInv => NobodyWaitsInVain
BY DEF TypeOK, RequestsInv, WaitingInv, NobodyWaitsInVain, Served, Forgotten, Accepts,
       Refuses, Call

\* The inductive invariant holds throughout, whatever calls are made of the
\* server and however it ends.
THEOREM Invariance == Spec => []IInv
<1>1. Init => IInv
  BY InitInv
<1>2. IInv /\ [Next]_vars => IInv'
  <2>1. TypeOK /\ RequestsInv /\ WaitingInv => NobodyWaitsInVain
    BY StagesAreServed
  <2>2. (TypeOK /\ RequestsInv /\ WaitingInv)' => NobodyWaitsInVain'
    BY <2>1, PTL
  <2>. QED
    BY <2>2, TypeStep, RequestsStep, AnswersStep, CreationsStep, WaitingStep DEF IInv
<1>. QED  BY <1>1, <1>2, PTL DEF Spec

\* For every set of calls, a waiting caller waits for something that moves, and only
\* a refusal the generated handler ignored is left to its timer: no stage of a call
\* is a dead end. That what moves does arrive needs fairness and is model-checked.
THEOREM NoDeadEnds == Spec => []NobodyWaitsInVain
<1>1. IInv => NobodyWaitsInVain
  BY DEF IInv
<1>. QED  BY <1>1, Invariance, PTL

\* For every set of calls, {:error, :terminated} is explained by the death of
\* the server, by the disposal of its resource, or by the caller's own timer.
THEOREM TerminatedExplained == Spec => []TerminatedIsExplained
<1>1. IInv => TerminatedIsExplained
  BY DEF IInv, AnswersInv, TerminatedIsExplained
<1>. QED  BY <1>1, Invariance, PTL

\* For every set of creations, a child whose creator was told of a failure is
\* the late result of a creation whose timer ran out, and nothing else.
THEOREM OrphansOnlyByTimeout == Spec => []OrphanOnlyAfterTimeout
<1>1. IInv => OrphanOnlyAfterTimeout
  BY DEF IInv, TypeOK, Answer, AnswersInv, CreationsInv, OrphanOnlyAfterTimeout, Call
<1>. QED  BY <1>1, Invariance, PTL

\* For every set of creations, no native object a task produced is ever left
\* without an owner.
THEOREM Ownership == Spec => []ObjectsAreOwned
<1>1. IInv => ObjectsAreOwned
  BY DEF IInv, CreationsInv, ObjectsAreOwned
<1>. QED  BY <1>1, Invariance, PTL

-----------------------------------------------------------------------------
(* The contract of create calls. *)

\* An action that changes no caller and starts no child is a stutter of the
\* contract.
LEMMA ContractStutter ==
  UNCHANGED <<caller, child>> => UNCHANGED C!contractVars
  BY DEF C!contractVars, Outcome

\* A caller that moves from one state to another moves in the contract alone.
LEMMA ContractCallerStep ==
  ASSUME TypeOK, NEW c \in Call, NEW a, caller' = [caller EXCEPT ![c] = a]
  PROVE  [d \in Creation |-> Outcome(d)]' = IF c \in Creation
           THEN [[d \in Creation |-> Outcome(d)] EXCEPT ![c] = Outcome(c)']
           ELSE [d \in Creation |-> Outcome(d)]
  BY DEF TypeOK, Outcome, Call

\* Every step of the server is a step of the contract or leaves it unchanged:
\* Send begins a call, Receive, SeeDown and Expire return from one, StartChild
\* is where a creation takes effect.
LEMMA ContractStep == IInv /\ [Next]_vars => [C!ContractNext]_C!contractVars
<1>. SUFFICES ASSUME IInv, [Next]_vars PROVE [C!ContractNext]_C!contractVars
  OBVIOUS
<1>. TypeOK /\ RequestsInv /\ AnswersInv /\ CreationsInv
  BY DEF IInv
<1>1. ASSUME NEW c \in Call, Send(c) PROVE [C!ContractNext]_C!contractVars
  <2>1. PICK a \in {"waiting", "terminated"} : caller' = [caller EXCEPT ![c] = a]
    BY <1>1 DEF Send
  <2>2. UNCHANGED child
    BY <1>1 DEF Send
  <2>3. CASE c \in Creation
    <3>1. Outcome(c) = "idle"
      BY <1>1 DEF Send, Outcome, Answer
    <3>2. Outcome(c)' \in {"pending", "terminated"}
      BY <2>1 DEF Outcome, TypeOK
    <3>3. C!Begin(c)
      BY <2>1, <2>2, <2>3, <3>1, <3>2, ContractCallerStep DEF C!Begin
    <3>. QED  BY <2>3, <3>3 DEF C!ContractNext
  <2>4. CASE c \notin Creation
    BY <2>1, <2>2, <2>4, ContractCallerStep DEF C!contractVars
  <2>. QED  BY <2>3, <2>4
<1>2. ASSUME NEW c \in Call, Receive(c) \/ SeeDown(c) \/ Expire(c)
      PROVE [C!ContractNext]_C!contractVars
  <2>1. PICK a \in Answer :
          caller' = [caller EXCEPT ![c] = a] /\ (a = "terminated" \/ a = reply[c])
    BY <1>2 DEF Receive, SeeDown, Expire, TypeOK, Answer
  <2>2. UNCHANGED child /\ caller[c] = "waiting"
    BY <1>2 DEF Receive, SeeDown, Expire
  <2>3. CASE c \in Creation
    <3>1. Outcome(c) = "pending"
      BY <2>2 DEF Outcome
    <3>2. Outcome(c)' \in {"terminated"} \cup (IF child[c] # "none" THEN {"ok"} ELSE {"failed"})
      BY <2>1, <2>3 DEF Outcome, TypeOK, Answer, CreationsInv
    <3>3. C!Return(c)
      BY <2>1, <2>2, <2>3, <3>1, <3>2, ContractCallerStep DEF C!Return
    <3>. QED  BY <2>3, <3>3 DEF C!ContractNext
  <2>4. CASE c \notin Creation
    BY <2>1, <2>2, <2>4, ContractCallerStep DEF C!contractVars
  <2>. QED  BY <2>3, <2>4
<1>3. ASSUME NEW c \in Call, StartChild(c) PROVE [C!ContractNext]_C!contractVars
  <2>1. c \in Creation /\ child[c] = "none" /\ reply[c] = "none" /\ caller[c] # "idle"
    BY <1>3 DEF StartChild, RequestsInv, CreationsInv, TypeOK
  <2>2. Outcome(c) \in {"pending", "terminated"}
    BY <2>1 DEF Outcome, TypeOK, AnswersInv, Answer
  <2>3. {d \in Creation : child[d] # "none"}' = {d \in Creation : child[d] # "none"} \cup {c}
    BY <1>3, <2>1 DEF StartChild, TypeOK
  <2>4. UNCHANGED [d \in Creation |-> Outcome(d)]
    BY <1>3 DEF StartChild, Outcome
  <2>5. C!TakeEffect(c)
    BY <2>1, <2>2, <2>3, <2>4 DEF C!TakeEffect
  <2>. QED  BY <2>1, <2>5 DEF C!ContractNext
<1>4. ASSUME UNCHANGED caller, \A c \in Creation : child'[c] # "none" <=> child[c] # "none"
      PROVE [C!ContractNext]_C!contractVars
  BY <1>4 DEF C!contractVars, Outcome
<1>5. ASSUME NEW c \in Call, HandleQuery(c) \/ Dispatch(c) \/ IgnoreRefusal(c) \/ ReplyRefusal(c)
                \/ Raise(c) \/ TaskDone(c) \/ HandleResult(c) \/ FinishCreate(c)
      PROVE [C!ContractNext]_C!contractVars
  <2>1. UNCHANGED <<caller, child>>
    BY <1>5 DEF HandleQuery, Dispatch, IgnoreRefusal, ReplyRefusal, Raise, TaskDone,
                HandleResult, FinishCreate
  <2>. QED  BY <2>1, ContractStutter
<1>6. ASSUME NEW c \in Call, ChildStop(c) PROVE [C!ContractNext]_C!contractVars
  BY <1>4, <1>6 DEF ChildStop, TypeOK
<1>7. ASSUME Terminate PROVE [C!ContractNext]_C!contractVars
  BY <1>4, <1>7 DEF Terminate, TypeOK
<1>8. CASE DebugStop \/ Kill \/ UNCHANGED vars
  <2>1. UNCHANGED <<caller, child>>
    BY <1>8 DEF DebugStop, Kill, vars
  <2>. QED  BY <2>1, ContractStutter
<1>. QED
  BY <1>1, <1>2, <1>3, <1>5, <1>6, <1>7, <1>8 DEF Next, Crash, Stop, NativeOnClose

\* The server implements the contract of its create calls: at most one effect,
\* {:ok, _} only after it, a reported failure only without it.
THEOREM ContractRefined == Spec => ImplementsContract
<1>1. Init => C!ContractInit
  BY DEF Init, C!ContractInit, Outcome, Call
<1>2. IInv /\ [Next]_vars => [C!ContractNext]_C!contractVars
  BY ContractStep
<1>. QED
  BY <1>1, <1>2, Invariance, PTL DEF Spec, ImplementsContract, C!Contract
=============================================================================
