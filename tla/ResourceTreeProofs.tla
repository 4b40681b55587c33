------------------------- MODULE ResourceTreeProofs -------------------------
(***************************************************************************)
(* Proofs about ResourceTree for every tree of processes: the types, the   *)
(* worker count, how a tree ends, and what is left of it when nothing of   *)
(* the library moves any more.                                             *)
(***************************************************************************)
EXTENDS ResourceTree, TLAPS

USE DEF life, growth, object, told

\* A child has a parent in the tree, which has it among its kids.
LEMMA ParentOfKid ==
  ASSUME NEW m \in Node, m # Root
  PROVE  Parent[m] \in Node /\ m \in Kids(Parent[m])
BY TreeAssumption DEF Kids

\* Kids are nodes, and know their parent.
LEMMA KidsAreNodes ==
  ASSUME NEW n \in Node, NEW m \in Kids(n)
  PROVE  m \in Node /\ m # Root /\ Parent[m] = n
BY DEF Kids

-----------------------------------------------------------------------------
(* Types, and the worker count. *)

\* The typed part of the invariant, and the count that keeps it typed.
TypeInv == TypeOK /\ CountInv

\* The initial state is typed and counts no worker.
LEMMA TypeInit == Init => TypeInv
<1>. SUFFICES ASSUME Init PROVE TypeInv
  OBVIOUS
<1>1. TypeOK
  <2>1. mail \in [Node -> SUBSET Signal] /\ todo \in [Node -> SUBSET Node]
    BY DEF Init
  <2>2. count \in 0..1
    BY DEF Init
  <2>. QED  BY <2>1, <2>2 DEF Init, TypeOK
<1>2. CountInv
  BY TreeAssumption DEF Init, CountInv
<1>. QED  BY <1>1, <1>2 DEF TypeInv

\* Every action keeps the types, and the count at one for the open worker.
LEMMA TypeStep == TypeInv /\ [Next]_vars => TypeInv'
<1>. SUFFICES ASSUME TypeInv, [Next]_vars PROVE TypeInv'
  OBVIOUS
<1>. USE TreeAssumption DEF TypeInv, TypeOK, CountInv, Signal
<1>1. CASE StartWorker
  BY <1>1 DEF StartWorker
<1>2. CASE WorkerCrash
  BY <1>2 DEF WorkerCrash
<1>3. CASE DebugStop
  BY <1>3 DEF DebugStop
<1>4. ASSUME NEW n \in Node, Create(n) \/ CreateDone(n) PROVE TypeInv'
  BY <1>4 DEF Create, CreateDone
<1>5. ASSUME NEW n \in Node, StartChild(n) PROVE TypeInv'
  BY <1>5 DEF StartChild
<1>6. ASSUME NEW n \in Node, Close(n) PROVE TypeInv'
  BY <1>6 DEF Close
<1>7. ASSUME NEW n \in Node, TakeStop(n) \/ Fault(n) PROVE TypeInv'
  <2>1. PICK why \in {"normal", "shutdown"} : BeginTerminate(n, why)
    BY <1>7 DEF TakeStop, Fault
  <2>2. UNCHANGED <<asked, growth, object, hit, killed>> /\ (toldDead' \in SUBSET Node)
    BY <1>7 DEF TakeStop, Fault
  <2>. QED  BY <2>1, <2>2 DEF BeginTerminate, Kids
<1>8. ASSUME NEW n \in Node, NEW m \in Node, AskChild(n, m) PROVE TypeInv'
  BY <1>8 DEF AskChild
<1>9. ASSUME NEW n \in Node, NEW m \in Node, ChildEnded(n, m) PROVE TypeInv'
  BY <1>9 DEF ChildEnded
<1>10. ASSUME NEW n \in Node, EndTerminate(n) PROVE TypeInv'
  BY <1>10 DEF EndTerminate, Freed
<1>11. ASSUME NEW n \in Node, Kill(n) \/ SupervisorKill(n) PROVE TypeInv'
  BY <1>11 DEF Kill, SupervisorKill, Freed
<1>12. ASSUME NEW n \in Node, NativeDrop(n) PROVE TypeInv'
  BY <1>12 DEF NativeDrop, OnClose
<1>13. ASSUME NEW n \in Node, SourceClosed(n) PROVE TypeInv'
  BY <1>13 DEF SourceClosed, OnClose
<1>14. CASE UNCHANGED vars
  BY <1>14 DEF vars
<1>. QED
  BY <1>1, <1>2, <1>3, <1>4, <1>5, <1>6, <1>7, <1>8, <1>9, <1>10, <1>11, <1>12, <1>13, <1>14
     DEF Next, Terminating

-----------------------------------------------------------------------------
(* How a tree ends. *)

\* The part of the inductive invariant about the end of processes: the two
\* properties, and what terminate has established while it still waits.
EndInv == StoppingInv /\ ChildrenEndFirst /\ SilentEndIsExternal

\* Nothing has ended yet in the initial state.
LEMMA EndInit == Init => EndInv
BY DEF Init, EndInv, StoppingInv, ChildrenEndFirst, SilentEndIsExternal

\* A step that neither starts, stops nor kills a process keeps EndInv.
LEMMA EndFrame ==
  ASSUME EndInv, UNCHANGED <<proc, toldClose, hit, killed>>,
         \A n \in Node : \A m \in Kids(n) : Alive(m) /\ m \in todo[n] => m \in todo'[n]
  PROVE  EndInv'
BY DEF EndInv, StoppingInv, ChildrenEndFirst, SilentEndIsExternal, Alive, Gone

\* Every action keeps the order in which a tree ends.
LEMMA EndStep == TypeInv /\ EndInv /\ [Next]_vars => EndInv'
<1>. SUFFICES ASSUME TypeInv, EndInv, [Next]_vars PROVE EndInv'
  OBVIOUS
<1>. TypeOK
  BY DEF TypeInv
<1>1. CASE StartWorker
  BY <1>1, KidsAreNodes DEF StartWorker, EndInv, StoppingInv, ChildrenEndFirst,
     SilentEndIsExternal, Alive, Gone, TypeOK
<1>2. CASE WorkerCrash \/ DebugStop \/ UNCHANGED vars
  BY <1>2, EndFrame DEF WorkerCrash, DebugStop, vars
<1>3. ASSUME NEW n \in Node,
             Create(n) \/ CreateDone(n) \/ Close(n) \/ NativeDrop(n) \/ SourceClosed(n)
      PROVE EndInv'
  BY <1>3, EndFrame DEF Create, CreateDone, Close, NativeDrop, SourceClosed
<1>4. ASSUME NEW n \in Node, StartChild(n) PROVE EndInv'
  <2>0. n # Root
    BY <1>4 DEF StartChild, TypeInv, CountInv
  <2>1. proc[Parent[n]] = "running" /\ UNCHANGED <<toldClose, hit, killed, todo>>
    BY <1>4 DEF StartChild
  <2>2. proc' = [proc EXCEPT ![n] = "running"]
    BY <1>4 DEF StartChild
  <2>. QED
    BY <2>0, <2>1, <2>2, KidsAreNodes
       DEF EndInv, StoppingInv, ChildrenEndFirst, SilentEndIsExternal, Alive, Gone, TypeOK
<1>5. ASSUME NEW n \in Node, TakeStop(n) \/ Fault(n) PROVE EndInv'
  <2>1. PICK why : BeginTerminate(n, why)
    BY <1>5 DEF TakeStop, Fault
  <2>2. UNCHANGED <<hit, killed>> /\ proc[n] = "running"
    BY <1>5, <2>1 DEF TakeStop, Fault, BeginTerminate
  <2>3. /\ proc' = [proc EXCEPT ![n] = "stopping"]
        /\ todo' = [todo EXCEPT ![n] = {m \in Kids(n) : Alive(m)}]
        /\ toldClose' = toldClose \cup {n}
    BY <2>1 DEF BeginTerminate
  <2>4. StoppingInv'
    BY <2>2, <2>3, KidsAreNodes DEF EndInv, StoppingInv, Alive, TypeOK
  <2>5. ChildrenEndFirst' /\ SilentEndIsExternal'
    BY <2>2, <2>3, KidsAreNodes
       DEF EndInv, ChildrenEndFirst, SilentEndIsExternal, Gone, TypeOK
  <2>. QED  BY <2>4, <2>5 DEF EndInv
<1>6. ASSUME NEW n \in Node, NEW m \in Node, AskChild(n, m) PROVE EndInv'
  BY <1>6, EndFrame DEF AskChild
<1>7. ASSUME NEW n \in Node, NEW m \in Node, ChildEnded(n, m) PROVE EndInv'
  BY <1>7, EndFrame, KidsAreNodes DEF ChildEnded, Alive, Gone, TypeOK
<1>8. ASSUME NEW n \in Node, EndTerminate(n) PROVE EndInv'
  <2>1. n \in toldClose /\ \A m \in Kids(n) : m \in Node /\ ~Alive(m)
    BY <1>8, KidsAreNodes DEF EndTerminate, EndInv, StoppingInv
  <2>2. /\ proc' = [proc EXCEPT ![n] = "dead"] /\ todo' = [todo EXCEPT ![n] = {}]
        /\ UNCHANGED <<toldClose, hit, killed>>
    BY <1>8 DEF EndTerminate, Freed
  <2>. QED
    BY <2>1, <2>2, KidsAreNodes
       DEF EndInv, StoppingInv, ChildrenEndFirst, SilentEndIsExternal, Alive, Gone, TypeOK
<1>9. ASSUME NEW n \in Node, Kill(n) PROVE EndInv'
  <2>1. /\ proc' = [proc EXCEPT ![n] = "dead"] /\ todo' = [todo EXCEPT ![n] = {}]
        /\ hit' = hit \cup {n} /\ killed' = killed \cup {n} /\ UNCHANGED toldClose
    BY <1>9 DEF Kill, Freed
  <2>. QED
    BY <2>1, KidsAreNodes
       DEF EndInv, StoppingInv, ChildrenEndFirst, SilentEndIsExternal, Alive, Gone, TypeOK
<1>10. ASSUME NEW n \in Node, SupervisorKill(n) PROVE EndInv'
  <2>1. /\ proc' = [proc EXCEPT ![n] = "dead"] /\ todo' = [todo EXCEPT ![n] = {}]
        /\ killed' = killed \cup {n} /\ UNCHANGED <<hit, toldClose>>
    BY <1>10 DEF SupervisorKill, Freed
  <2>2. n # Root /\ Parent[n] \in killed
    BY <1>10, ParentOfKid DEF SupervisorKill, EndInv, ChildrenEndFirst, Alive, Gone
  <2>. QED
    BY <2>1, <2>2, KidsAreNodes
       DEF EndInv, StoppingInv, ChildrenEndFirst, SilentEndIsExternal, Alive, Gone, TypeOK
<1>. QED
  BY <1>1, <1>2, <1>3, <1>4, <1>5, <1>6, <1>7, <1>8, <1>9, <1>10 DEF Next, Terminating

-----------------------------------------------------------------------------
(* How a tree grows, and what cannot be lost. *)

\* Nothing has been created in the initial state.
LEMMA BirthInit == Init => BirthInv /\ MailInv
BY DEF Init, BirthInv, MailInv, Alive

\* Every action keeps the order of task, object, result and process.
LEMMA BirthStep == TypeInv /\ BirthInv /\ [Next]_vars => BirthInv'
<1>. SUFFICES ASSUME TypeInv, BirthInv, [Next]_vars PROVE BirthInv'
  OBVIOUS
<1>. TypeOK /\ CountInv
  BY DEF TypeInv
<1>1. CASE StartWorker
  BY <1>1, ParentOfKid, TreeAssumption DEF StartWorker, BirthInv, CountInv, Alive, TypeOK
<1>2. CASE WorkerCrash \/ DebugStop \/ UNCHANGED vars
  BY <1>2 DEF WorkerCrash, DebugStop, vars, BirthInv, Alive
<1>3. ASSUME NEW n \in Node, Create(n) PROVE BirthInv'
  BY <1>3, ParentOfKid DEF Create, BirthInv, Alive, TypeOK
<1>4. ASSUME NEW n \in Node, CreateDone(n) PROVE BirthInv'
  <2>1. n \in creating /\ creating' = creating \ {n} /\ UNCHANGED <<proc, held>>
    BY <1>4 DEF CreateDone
  <2>2. CASE UNCHANGED <<native, arrived>>
    BY <2>1, <2>2 DEF BirthInv, Alive
  <2>3. CASE /\ native' = [native EXCEPT ![n] = "open"]
             /\ arrived' = IF Alive(Parent[n]) THEN arrived \cup {n} ELSE arrived
    <3>1. n # Root /\ native[n] = "absent" /\ proc[Parent[n]] # "absent" /\ proc[n] = "absent"
      BY <2>1 DEF CountInv, BirthInv
    <3>. QED  BY <2>1, <2>3, <3>1 DEF BirthInv, Alive, TypeOK
  <2>. QED  BY <1>4, <2>2, <2>3 DEF CreateDone
<1>5. ASSUME NEW n \in Node, StartChild(n) PROVE BirthInv'
  <2>1. n # Root /\ n \in arrived /\ proc[n] = "absent"
    BY <1>5 DEF StartChild, CountInv, BirthInv
  <2>2. /\ proc' = [proc EXCEPT ![n] = "running"] /\ arrived' = arrived \ {n}
        /\ held' = held \cup {n} /\ UNCHANGED <<creating, native>>
    BY <1>5 DEF StartChild
  <2>. QED  BY <2>1, <2>2, ParentOfKid DEF BirthInv, Alive, CountInv, TypeOK
<1>6. ASSUME NEW n \in Node, Close(n) PROVE BirthInv'
  BY <1>6 DEF Close, BirthInv, Alive
<1>7. ASSUME NEW n \in Node, TakeStop(n) \/ Fault(n) PROVE BirthInv'
  <2>1. PICK why : BeginTerminate(n, why)
    BY <1>7 DEF TakeStop, Fault
  <2>2. UNCHANGED <<growth, object>> /\ proc[n] = "running"
        /\ proc' = [proc EXCEPT ![n] = "stopping"]
    BY <1>7, <2>1 DEF TakeStop, Fault, BeginTerminate
  <2>. QED  BY <2>2, ParentOfKid DEF BirthInv, Alive, CountInv, TypeOK
<1>8. ASSUME NEW n \in Node, NEW m \in Node, AskChild(n, m) \/ ChildEnded(n, m) PROVE BirthInv'
  BY <1>8 DEF AskChild, ChildEnded, BirthInv, Alive
<1>9. ASSUME NEW n \in Node, EndTerminate(n) \/ Kill(n) \/ SupervisorKill(n) PROVE BirthInv'
  <2>1. /\ Alive(n) /\ Freed(n) /\ UNCHANGED <<creating, native>>
    BY <1>9 DEF EndTerminate, Kill, SupervisorKill, Alive
  <2>2. /\ proc' = [proc EXCEPT ![n] = "dead"]
        /\ held' = held \ {n} /\ arrived' = arrived \ Kids(n)
    BY <2>1 DEF Freed
  <2>3. ASSUME NEW m \in Node, m \in arrived' PROVE m \in arrived /\ m # Root /\ Parent[m] # n
    BY <2>2, <2>3, ParentOfKid DEF CountInv
  <2>. QED  BY <2>1, <2>2, <2>3, ParentOfKid DEF BirthInv, Alive, TypeOK
<1>10. ASSUME NEW n \in Node, NativeDrop(n) \/ SourceClosed(n) PROVE BirthInv'
  <2>1. /\ native[n] = "open" /\ native' = [native EXCEPT ![n] = "closed"]
        /\ UNCHANGED <<proc, creating, arrived, held>>
    BY <1>10 DEF NativeDrop, SourceClosed
  <2>. QED  BY <2>1 DEF BirthInv, Alive, TypeOK
<1>. QED
  BY <1>1, <1>2, <1>3, <1>4, <1>5, <1>6, <1>7, <1>8, <1>9, <1>10 DEF Next, Terminating

\* No action loses the request of a parent or the close of the own object.
LEMMA MailStep == TypeInv /\ BirthInv /\ MailInv /\ [Next]_vars => MailInv'
<1>. SUFFICES ASSUME TypeInv, BirthInv, MailInv, [Next]_vars PROVE MailInv'
  OBVIOUS
<1>. TypeOK /\ CountInv
  BY DEF TypeInv
<1>1. CASE StartWorker
  <2>1. Root \notin asked /\ proc[Root] = "absent"
    BY <1>1, TreeAssumption DEF StartWorker, MailInv
  <2>. QED  BY <1>1, <2>1 DEF StartWorker, MailInv, TypeOK
<1>2. CASE WorkerCrash
  BY <1>2 DEF WorkerCrash, MailInv, TypeOK
<1>3. CASE DebugStop \/ UNCHANGED vars
  BY <1>3 DEF DebugStop, vars, MailInv
<1>4. ASSUME NEW n \in Node, Create(n) PROVE MailInv'
  BY <1>4 DEF Create, MailInv
<1>5. ASSUME NEW n \in Node, CreateDone(n) PROVE MailInv'
  <2>1. proc[n] = "absent"
    BY <1>5 DEF CreateDone, BirthInv
  <2>2. UNCHANGED <<proc, todo, asked, mail>>
        /\ native' \in {native, [native EXCEPT ![n] = "open"]}
    BY <1>5 DEF CreateDone
  <2>. QED  BY <2>1, <2>2 DEF MailInv, TypeOK
<1>6. ASSUME NEW n \in Node, StartChild(n) PROVE MailInv'
  <2>1. n \notin asked
    BY <1>6 DEF StartChild, BirthInv, MailInv
  <2>. QED  BY <1>6, <2>1 DEF StartChild, MailInv, TypeOK
<1>7. ASSUME NEW n \in Node, Close(n) PROVE MailInv'
  BY <1>7 DEF Close, MailInv, TypeOK
<1>8. ASSUME NEW n \in Node, TakeStop(n) \/ Fault(n) PROVE MailInv'
  <2>1. PICK why : BeginTerminate(n, why)
    BY <1>8 DEF TakeStop, Fault
  <2>2. UNCHANGED <<asked, native>> /\ proc[n] = "running"
    BY <1>8, <2>1 DEF TakeStop, Fault, BeginTerminate
  <2>. QED  BY <2>1, <2>2 DEF BeginTerminate, MailInv, TypeOK
<1>9. ASSUME NEW n \in Node, NEW m \in Node, AskChild(n, m) PROVE MailInv'
  <2>1. /\ Alive(m) /\ asked' = asked \cup {m} /\ UNCHANGED <<proc, todo, native>>
        /\ \E s : mail' = [mail EXCEPT ![m] = IF proc[m] = "stopping" THEN @ ELSE @ \cup {s}]
    BY <1>9 DEF AskChild
  <2>. QED  BY <2>1 DEF Alive, MailInv, TypeOK
<1>10. ASSUME NEW n \in Node, NEW m \in Node, ChildEnded(n, m) PROVE MailInv'
  BY <1>10 DEF ChildEnded, MailInv, TypeOK
<1>11. ASSUME NEW n \in Node, EndTerminate(n) \/ Kill(n) \/ SupervisorKill(n) PROVE MailInv'
  <2>1. /\ proc' = [proc EXCEPT ![n] = "dead"] /\ todo' = [todo EXCEPT ![n] = {}]
        /\ mail' = [mail EXCEPT ![n] = {}] /\ UNCHANGED <<asked, native>>
    BY <1>11 DEF EndTerminate, Kill, SupervisorKill, Freed
  <2>. QED  BY <2>1 DEF MailInv, TypeOK
<1>12. ASSUME NEW n \in Node, NativeDrop(n) \/ SourceClosed(n) PROVE MailInv'
  <2>1. /\ native' = [native EXCEPT ![n] = "closed"] /\ OnClose(n)
        /\ UNCHANGED <<proc, todo, asked>>
    BY <1>12 DEF NativeDrop, SourceClosed
  <2>. QED  BY <2>1 DEF OnClose, MailInv, TypeOK
<1>. QED
  BY <1>1, <1>2, <1>3, <1>4, <1>5, <1>6, <1>7, <1>8, <1>9, <1>10, <1>11, <1>12
     DEF Next, Terminating

-----------------------------------------------------------------------------
(* The theorems. *)

\* The inductive invariant holds throughout, for every tree: types, the worker
\* count, the order of births, of requests and of ends.
THEOREM TreeInvariance == Spec => []IInv
<1>. DEFINE Parts == TypeInv /\ EndInv /\ BirthInv /\ MailInv
<1>1. Init => Parts
  BY TypeInit, EndInit, BirthInit
<1>2. Parts /\ [Next]_vars => Parts'
  BY TypeStep, EndStep, BirthStep, MailStep
<1>3. Parts => IInv
  BY DEF TypeInv, EndInv, IInv
<1>. QED  BY <1>1, <1>2, <1>3, PTL DEF Spec

\* In every tree a process whose terminate ran to its end leaves no child behind.
THEOREM ChildrenEndBeforeParents == Spec => []ChildrenEndFirst
<1>1. IInv => ChildrenEndFirst
  BY DEF IInv
<1>. QED  BY <1>1, TreeInvariance, PTL

\* In every tree the listeners of a process hear {:on_close}, unless an exit
\* signal from outside ended it or, level by level, one of those above it.
THEOREM ListenersHearTheEnd == Spec => []SilentEndIsExternal
<1>1. IInv => SilentEndIsExternal
  BY DEF IInv
<1>. QED  BY <1>1, TreeInvariance, PTL

-----------------------------------------------------------------------------
(* The tree at rest. *)

\* At rest nobody is in terminate: the lowest such process would wait for a child
\* that has its request and reads it.
LEMMA NobodyStopping ==
  ASSUME IInv, AtRest
  PROVE  \A n \in Node : proc[n] # "stopping"
<1>. DEFINE S == {n \in Node : proc[n] = "stopping"}
<1>. SUFFICES ASSUME S # {} PROVE FALSE
  OBVIOUS
<1>1. PICK n \in S : Kids(n) \cap S = {}
  BY TreeAssumption
<1>2. PICK m \in todo[n] : m \in asked /\ Alive(m)
  BY <1>1 DEF AtRest
<1>3. m \in Kids(n) /\ m \in Node
  BY <1>1, <1>2, KidsAreNodes DEF IInv, MailInv
<1>4. proc[m] = "running"
  BY <1>1, <1>2, <1>3 DEF Alive
<1>. QED  BY <1>2, <1>3, <1>4 DEF IInv, MailInv, AtRest

\* At rest a living process has a living parent, and no result waits.
LEMMA NoOrphans ==
  ASSUME IInv, AtRest
  PROVE  /\ \A n \in Node \ {Root} : Alive(n) => Alive(Parent[n])
         /\ arrived \cap Node = {}
<1>1. ASSUME NEW n \in Node \ {Root}, Alive(n) PROVE Alive(Parent[n])
  <2>1. Parent[n] \in Node /\ proc[Parent[n]] # "dead"
    BY <1>1, ParentOfKid DEF AtRest
  <2>2. proc[Parent[n]] # "absent"
    BY <1>1 DEF IInv, BirthInv, Alive
  <2>. QED  BY <2>1, <2>2 DEF IInv, TypeOK, Alive
<1>2. ASSUME NEW n \in Node, n \in arrived PROVE FALSE
  <2>1. n # Root /\ Alive(Parent[n])
    BY <1>2 DEF IInv, BirthInv, CountInv
  <2>2. Parent[n] \in Node /\ n \in Kids(Parent[n])
    BY <2>1, ParentOfKid
  <2>3. proc[Parent[n]] = "running"
    BY <2>1, <2>2, NobodyStopping DEF Alive
  <2>. QED  BY <1>2, <2>2, <2>3 DEF AtRest
<1>. QED  BY <1>1, <1>2

\* At rest an open object has its process: the lowest one without would be in use
\* by a child that has one, and so has the parent.
LEMMA OpenIsOwned ==
  ASSUME IInv, AtRest
  PROVE  \A n \in Node : native[n] = "open" => Alive(n)
<1>. DEFINE S == {n \in Node : native[n] = "open" /\ ~Alive(n)}
<1>. SUFFICES ASSUME S # {} PROVE FALSE
  OBVIOUS
<1>1. PICK n \in S : Kids(n) \cap S = {}
  BY TreeAssumption
<1>2. n \notin held \cup arrived
  BY <1>1, NoOrphans DEF IInv, BirthInv
<1>3. PICK m \in Kids(n) : m \in creating \cup held \cup arrived \/ native[m] = "open"
  BY <1>1, <1>2 DEF AtRest, InUse
<1>4. m \in Node \ {Root} /\ Parent[m] = n
  BY <1>3, KidsAreNodes
<1>5. Alive(m)
  BY <1>1, <1>3, <1>4, NoOrphans DEF AtRest, IInv, BirthInv
<1>. QED  BY <1>1, <1>4, <1>5, NoOrphans

\* For every tree: whatever was created, closed, killed or crashed, a tree that has
\* come to rest has nobody stuck in terminate, no orphan, no object without its
\* process, no worker counted after the Worker and no deaf Consumer. With fairness a
\* tree left alone comes to rest; that part is model-checked.
THEOREM RestReleases == Spec => []RestIsRelease
<1>1. ASSUME IInv, AtRest
      PROVE /\ \A n \in Node :
                 /\ proc[n] # "stopping"
                 /\ n # Root /\ Alive(n) => Alive(Parent[n])
                 /\ native[n] = "open" => Alive(n)
                 /\ n \in DOMAIN Source \cap Observed /\ Alive(n) => native[Source[n]] # "closed"
            /\ ~Alive(Root) => count = 0
            /\ Root \in Observed \ held /\ Alive(Root) => \E m \in Kids(Root) : Alive(m)
  <2>1. ASSUME NEW n \in Node, n \in Observed, Alive(n) PROVE native[n] = "open"
    <3>1. proc[n] = "running" /\ mail[n] = {}
      BY <1>1, <2>1, NobodyStopping DEF Alive, AtRest
    <3>2. native[n] # "closed" /\ native[n] # "absent"
      BY <1>1, <2>1, <3>1 DEF IInv, MailInv, BirthInv
    <3>. QED  BY <1>1, <3>2 DEF IInv, TypeOK
  <2>2. ASSUME NEW n \in Node, n \in DOMAIN Source \cap Observed, Alive(n)
        PROVE native[Source[n]] # "closed"
    BY <1>1, <2>1, <2>2 DEF AtRest
  <2>3. ~Alive(Root) => count = 0
    BY <1>1, OpenIsOwned, TreeAssumption DEF IInv, CountInv
  <2>4. ASSUME Root \in Observed \ held, Alive(Root)
        PROVE \E m \in Kids(Root) : Alive(m)
    <3>1. InUse(Root) /\ Root \notin arrived
      BY <1>1, <2>1, <2>4, TreeAssumption DEF AtRest, IInv, CountInv
    <3>2. PICK m \in Kids(Root) : m \in creating \cup held \cup arrived \/ native[m] = "open"
      BY <2>4, <3>1 DEF InUse
    <3>3. m \in Node
      BY <3>2 DEF Kids
    <3>4. m \notin creating \cup arrived /\ (native[m] = "open" => Alive(m))
      BY <1>1, <3>3, NoOrphans, OpenIsOwned DEF AtRest
    <3>5. m \in held => Alive(m)
      BY <1>1, <3>3 DEF IInv, BirthInv
    <3>. QED  BY <3>2, <3>4, <3>5
  <2>. QED  BY <1>1, <2>2, <2>3, <2>4, NobodyStopping, NoOrphans, OpenIsOwned
<1>2. IInv => RestIsRelease
  BY <1>1 DEF RestIsRelease
<1>. QED  BY <1>2, TreeInvariance, PTL
=============================================================================
