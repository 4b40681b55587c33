------------------------- MODULE PipeToRouterProofs -------------------------
(***************************************************************************)
(* Proofs about PipeToRouter for any number of concurrent callers.         *)
(***************************************************************************)
EXTENDS PipeToRouter, TLAPS

\* Nobody has called yet.
LEMMA PipingInit == Init => IInv
<1>. SUFFICES ASSUME Init PROVE IInv
  OBVIOUS
<1>1. TypeOK
  BY DEF Init, TypeOK, Stage, Side
<1>2. ReturnsInv /\ PairsInv /\ PipesInv /\ CallsInARowShare
  BY DEF Init, ReturnsInv, PairsInv, PipesInv, CallsInARowShare, Making, Working, Side
<1>3. SharingInv /\ StoringInv
  BY PipingAssumption DEF Init, SharingInv, StoringInv, Handled, Makes, Shares, Making, Side
<1>4. OnTransportsInv /\ EndedAtRest
  BY DEF Init, OnTransportsInv, EndedAtRest
<1>. QED  BY <1>1, <1>2, <1>3, <1>4 DEF IInv

\* Every action keeps the types.
LEMMA TypeStep ==
  TypeOK /\ [Next]_vars => TypeOK'
<1>. SUFFICES ASSUME TypeOK, [Next]_vars PROVE TypeOK'
  OBVIOUS
<1>. USE DEF TypeOK, Stage, Side
<1>1. ASSUME NEW c \in Caller, Begin(c) PROVE TypeOK'
  BY <1>1 DEF Begin, Go
<1>2. ASSUME NEW c \in Caller, GetPair(c) PROVE TypeOK'
  BY <1>2 DEF GetPair, Go, Return
<1>3. ASSUME NEW c \in Caller, PutPair(c) PROVE TypeOK'
  BY <1>3 DEF PutPair, Go
<1>4. ASSUME NEW c \in Caller, Consume(c) PROVE TypeOK'
  BY <1>4 DEF Consume, Go, Return
<1>5. ASSUME NEW c \in Caller, Produce(c) PROVE TypeOK'
  BY <1>5 DEF Produce, Go, Return
<1>6. ASSUME NEW c \in Caller, Link(c) PROVE TypeOK'
  BY <1>6 DEF Link, Return
<1>7. ASSUME NEW c \in Caller, PipeEnd(c) \/ LatePut(c) PROVE TypeOK'
  BY <1>7 DEF PipeEnd, LatePut
<1>8. ASSUME NEW c \in Caller, MakePair(c) PROVE TypeOK'
  BY <1>8 DEF MakePair, CreateTransport, ConnectTransport, Go, Return
<1>9. ASSUME NEW s \in Side, NEW P \in SUBSET Caller, TransportsEnd(s, P),
             UNCHANGED router \/ router' = [router EXCEPT ![s] = "dead"]
      PROVE TypeOK'
  BY <1>9 DEF TransportsEnd, Shut
<1>10. CASE UNCHANGED vars
  BY <1>10 DEF vars
<1>. QED
  BY <1>1, <1>2, <1>3, <1>4, <1>5, <1>6, <1>7, <1>8, <1>9, <1>10
     DEF Next, CallerStep, TransportEnd, RouterEnd

\* A call that has returned stays so, with its result.
LEMMA ReturnsStep ==
  TypeOK /\ ReturnsInv /\ [Next]_vars => ReturnsInv'
<1>. SUFFICES ASSUME TypeOK, ReturnsInv, [Next]_vars PROVE ReturnsInv'
  OBVIOUS
<1>. USE DEF TypeOK, ReturnsInv
<1>1. ASSUME NEW c \in Caller, Begin(c) PROVE ReturnsInv'
  BY <1>1 DEF Begin, Go
<1>2. ASSUME NEW c \in Caller, GetPair(c) PROVE ReturnsInv'
  BY <1>2 DEF GetPair, Go, Return
<1>3. ASSUME NEW c \in Caller, PutPair(c) PROVE ReturnsInv'
  BY <1>3 DEF PutPair, Go
<1>4. ASSUME NEW c \in Caller, Consume(c) PROVE ReturnsInv'
  BY <1>4 DEF Consume, Go, Return
<1>5. ASSUME NEW c \in Caller, Produce(c) PROVE ReturnsInv'
  BY <1>5 DEF Produce, Go, Return
<1>6. ASSUME NEW c \in Caller, Link(c) PROVE ReturnsInv'
  BY <1>6 DEF Link, Return
<1>7. ASSUME NEW c \in Caller, PipeEnd(c) \/ LatePut(c) PROVE ReturnsInv'
  BY <1>7 DEF PipeEnd, LatePut
<1>8. ASSUME NEW c \in Caller, MakePair(c) PROVE ReturnsInv'
  BY <1>8 DEF MakePair, CreateTransport, ConnectTransport, Go, Return
<1>9. ASSUME NEW s \in Side, NEW P \in SUBSET Caller, TransportsEnd(s, P),
             UNCHANGED router \/ router' = [router EXCEPT ![s] = "dead"]
      PROVE ReturnsInv'
  BY <1>9 DEF TransportsEnd, Shut
<1>10. CASE UNCHANGED vars
  BY <1>10 DEF vars
<1>. QED
  BY <1>1, <1>2, <1>3, <1>4, <1>5, <1>6, <1>7, <1>8, <1>9, <1>10
     DEF Next, CallerStep, TransportEnd, RouterEnd

\* A step of a caller that touches no transport, no stored pair and no choice of
\* a pair keeps the pairs, when it does not go back to the making of one.
LEMMA PairsKept ==
  ASSUME TypeOK, PairsInv, NEW c \in Caller, NEW stage,
         UNCHANGED <<transport, mapped, using>>,
         pc' = [pc EXCEPT ![c] = stage],
         stage \notin {"put", "connect_remote"},
         stage \in Working => pc[c] \in Working,
         pc[c] \in Working \cup {"returned"} => stage \in Working \cup {"returned"}
  PROVE  PairsInv'
<1>1. \A p : Made(p) <=> Made(p)'
  BY DEF Made
<1>2. \A d \in Caller : pc'[d] = IF d = c THEN stage ELSE pc[d]
  BY DEF TypeOK
<1>3. \A d \in Caller : pc[d] \in Working \cup {"returned"}
                          => pc'[d] \in Working \cup {"returned"}
  BY <1>2
<1>4. mapped # "none" => Made(mapped)' /\ pc'[mapped] \in Working \cup {"returned"}
  BY <1>1, <1>3 DEF PairsInv, TypeOK
<1>5. ASSUME NEW d \in Caller
      PROVE  /\ using[d] # "none" =>
                  Made(using[d])' /\ pc'[using[d]] \in Working \cup {"returned"}
             /\ pc'[d] \in Working => using[d] # "none"
             /\ pc'[d] = "put" => Made(d)'
             /\ pc'[d] = "connect_remote" => transport'["local"][d] \in {"connected", "closed"}
  BY <1>1, <1>2, <1>3 DEF PairsInv, TypeOK
<1>. QED  BY <1>4, <1>5 DEF PairsInv

\* A pair in use is never touched again by the caller that made it.
LEMMA PairsStep ==
  TypeOK /\ PairsInv /\ StoringInv /\ [Next]_vars => PairsInv'
<1>. SUFFICES ASSUME TypeOK, PairsInv, StoringInv, [Next]_vars PROVE PairsInv'
  OBVIOUS
<1>1. ASSUME NEW c \in Caller, Begin(c) PROVE PairsInv'
  <2>1. pc[c] = "idle" /\ pc' = [pc EXCEPT ![c] = "get"]
    BY <1>1 DEF Begin, Go
  <2>2. UNCHANGED <<transport, mapped, using>>
    BY <1>1 DEF Begin
  <2>. QED  BY <2>1, <2>2, PairsKept DEF Working
<1>2. ASSUME NEW c \in Caller, GetPair(c) PROVE PairsInv'
  <2>1. CASE mapped # "none" /\ pc' = [pc EXCEPT ![c] = "consume"]
             /\ using' = [using EXCEPT ![c] = mapped]
    <3>1. UNCHANGED <<transport, mapped>> /\ pc[c] = "get"
      BY <1>2 DEF GetPair
    <3>2. \A p : Made(p) <=> Made(p)'
      BY <3>1 DEF Made
    <3>3. \A d \in Caller : pc[d] \in Working \cup {"returned"}
                              => pc'[d] \in Working \cup {"returned"}
      BY <2>1 DEF TypeOK, Working
    <3>4. mapped \in Caller /\ Made(mapped) /\ pc[mapped] \in Working \cup {"returned"}
      BY <2>1 DEF PairsInv, TypeOK
    <3>5. ASSUME NEW d \in Caller
          PROVE  /\ using'[d] # "none" =>
                      (\A s \in Side : transport'[s][using'[d]] \in {"connected", "closed"})
                         /\ pc'[using'[d]] \in Working \cup {"returned"}
                 /\ pc'[d] \in Working => using'[d] # "none"
                 /\ pc'[d] = "put" => Made(d)'
                 /\ pc'[d] = "connect_remote" => transport'["local"][d] \in {"connected", "closed"}
      <4>1. CASE d = c
        <5>1. using'[d] = mapped /\ pc'[d] = "consume" /\ mapped # "none"
          BY <2>1, <4>1 DEF TypeOK
        <5>. QED  BY <5>1, <3>1, <3>3, <3>4 DEF Made
      <4>2. CASE d # c
        <5>1. using'[d] = using[d] /\ pc'[d] = pc[d] /\ using[d] \in Caller \cup {"none"}
          BY <2>1, <4>2 DEF TypeOK
        <5>. QED  BY <5>1, <3>1, <3>2, <3>3 DEF PairsInv, Made
      <4>. QED  BY <4>1, <4>2
    <3>6. mapped # "none" => Made(mapped)' /\ pc'[mapped] \in Working \cup {"returned"}
      BY <3>1, <3>3, <3>4 DEF Made
    <3>7. mapped' = mapped
      BY <3>1
    <3>. QED  BY <3>5, <3>6, <3>7 DEF PairsInv, Made
  <2>2. CASE UNCHANGED using /\ \E stage \in {"returned", "create_local"} :
               pc' = [pc EXCEPT ![c] = stage]
    <3>1. UNCHANGED <<transport, mapped, using>> /\ pc[c] = "get"
      BY <1>2, <2>2 DEF GetPair
    <3>. QED  BY <2>2, <3>1, PairsKept DEF Working
  <2>. QED  BY <1>2, <2>1, <2>2 DEF GetPair, Go, Return
<1>3. ASSUME NEW c \in Caller, PutPair(c) PROVE PairsInv'
  <2>1. c # "none" /\ Made(c) /\ pc[c] = "put"
    BY <1>3, PipingAssumption DEF PutPair, PairsInv
  <2>2. UNCHANGED transport /\ pc' = [pc EXCEPT ![c] = "consume"]
    BY <1>3 DEF PutPair, Go
  <2>3. \A p \in Caller : Made(p) => Made(p)'
    BY <2>2 DEF Made
  <2>4. mapped' \in {mapped, c} /\ using' = [using EXCEPT ![c] = c]
    BY <1>3 DEF PutPair
  <2>. QED
    BY <2>1, <2>2, <2>3, <2>4 DEF PairsInv, TypeOK, Working
<1>4. ASSUME NEW c \in Caller, Consume(c) PROVE PairsInv'
  <2>1. pc[c] = "consume" /\ \E stage \in {"produce", "returned"} : pc' = [pc EXCEPT ![c] = stage]
    BY <1>4 DEF Consume, Go, Return
  <2>2. UNCHANGED <<transport, mapped, using>>
    BY <1>4 DEF Consume
  <2>. QED  BY <2>1, <2>2, PairsKept DEF Working
<1>5. ASSUME NEW c \in Caller, Produce(c) PROVE PairsInv'
  <2>1. pc[c] = "produce" /\ \E stage \in {"link", "returned"} : pc' = [pc EXCEPT ![c] = stage]
    BY <1>5 DEF Produce, Go, Return
  <2>2. UNCHANGED <<transport, mapped, using>>
    BY <1>5 DEF Produce
  <2>. QED  BY <2>1, <2>2, PairsKept DEF Working
<1>6. ASSUME NEW c \in Caller, Link(c) PROVE PairsInv'
  <2>1. pc[c] = "link" /\ \E stage \in {"returned"} : pc' = [pc EXCEPT ![c] = stage]
    BY <1>6 DEF Link, Return
  <2>2. UNCHANGED <<transport, mapped, using>>
    BY <1>6 DEF Link
  <2>. QED  BY <2>1, <2>2, PairsKept DEF Working
<1>7. ASSUME NEW c \in Caller, PipeEnd(c) PROVE PairsInv'
  <2>1. UNCHANGED <<pc, transport, mapped, using>>
    BY <1>7 DEF PipeEnd
  <2>. QED  BY <2>1 DEF PairsInv, Made
<1>11. ASSUME NEW c \in Caller, LatePut(c) PROVE PairsInv'
  <2>1. UNCHANGED <<pc, transport, using>> /\ mapped' = c
    BY <1>11 DEF LatePut
  <2>2. using[c] = c /\ c # "none"
    BY <1>11, PipingAssumption DEF LatePut, StoringInv
  <2>. QED  BY <2>1, <2>2 DEF PairsInv, Made
<1>8. ASSUME NEW c \in Caller, MakePair(c) PROVE PairsInv'
  <2>1. pc[c] \in Making /\ UNCHANGED <<mapped, using>>
    BY <1>8 DEF MakePair, CreateTransport, ConnectTransport, Making
  <2>2. \A d \in Caller : d # c =>
          pc'[d] = pc[d] /\ \A s \in Side : transport'[s][d] = transport[s][d]
    BY <1>8 DEF MakePair, CreateTransport, ConnectTransport, Go, Return, TypeOK, Side
  <2>3. mapped # c /\ \A d \in Caller : using[d] # c
    <3>1. c # "none"
      BY PipingAssumption
    <3>2. pc[c] \notin Working \cup {"returned"}
      BY <2>1 DEF Making, Working
    <3>. QED  BY <3>1, <3>2 DEF PairsInv
  <2>4. pc'[c] \notin Working
    BY <1>8 DEF MakePair, CreateTransport, ConnectTransport, Working, Go, Return, TypeOK
  <2>5. \A p \in Caller : p # c /\ Made(p) => Made(p)'
    BY <2>2 DEF Made
  <2>6. SUFFICES /\ pc'[c] = "put" => Made(c)'
                 /\ pc'[c] = "connect_remote" =>
                      transport'["local"][c] \in {"connected", "closed"}
    <3>1. mapped' # "none" => Made(mapped)' /\ pc'[mapped'] \in Working \cup {"returned"}
      <4>1. mapped # "none" => mapped \in Caller
        BY DEF TypeOK
      <4>. QED  BY <2>1, <2>2, <2>3, <2>5, <4>1 DEF PairsInv, Made
    <3>2. ASSUME NEW d \in Caller, using'[d] # "none"
          PROVE Made(using[d])' /\ pc'[using'[d]] \in Working \cup {"returned"}
      <4>1. using[d] \in Caller
        BY <2>1, <3>2 DEF TypeOK
      <4>. QED  BY <2>1, <2>2, <2>3, <2>5, <3>2, <4>1 DEF PairsInv, Made
    <3>3. ASSUME NEW d \in Caller
          PROVE /\ pc'[d] \in Working => using'[d] # "none"
                /\ d # c /\ pc'[d] = "put" => Made(d)'
                /\ d # c /\ pc'[d] = "connect_remote" =>
                     transport'["local"][d] \in {"connected", "closed"}
      BY <2>1, <2>2, <2>4, <2>5, <3>3 DEF PairsInv, Side
    <3>. QED  BY <3>1, <3>2, <3>3, <2>6 DEF PairsInv
  <2>7. CASE ConnectTransport(c, "local", "connect_local", "connect_remote")
    BY <2>7 DEF ConnectTransport, Go, Return, TypeOK, Side
  <2>8. CASE ConnectTransport(c, "remote", "connect_remote", "put")
    <3>1. pc'[c] = "put" => transport'["remote"][c] = "connected"
      BY <2>8 DEF ConnectTransport, Go, Return, TypeOK, Side
    <3>2. pc'[c] # "connect_remote" /\ pc[c] = "connect_remote"
      BY <2>8 DEF ConnectTransport, Go, Return, TypeOK
    <3>3. transport'["local"][c] = transport["local"][c]
      BY <2>8 DEF ConnectTransport, Go, Return, TypeOK, Side
    <3>. QED  BY <3>1, <3>2, <3>3 DEF PairsInv, Made, Side
  <2>9. CASE CreateTransport(c, "local", "create_local", "create_remote")
             \/ CreateTransport(c, "remote", "create_remote", "connect_local")
    BY <2>9 DEF CreateTransport, Go, Return, TypeOK
  <2>. QED  BY <1>8, <2>7, <2>8, <2>9 DEF MakePair
<1>9. ASSUME NEW s \in Side, NEW P \in SUBSET Caller, TransportsEnd(s, P),
             UNCHANGED router \/ router' = [router EXCEPT ![s] = "dead"]
      PROVE PairsInv'
  BY <1>9 DEF TransportsEnd, Shut, TypeOK, PairsInv, Made, Working, Side
<1>10. CASE UNCHANGED vars
  BY <1>10 DEF vars, TypeOK, PairsInv, Made, Working, Side
<1>. QED
  BY <1>1, <1>2, <1>3, <1>4, <1>5, <1>6, <1>7, <1>8, <1>9, <1>10, <1>11
     DEF Next, CallerStep, TransportEnd, RouterEnd

\* A call that touches no put, no stored pair and nobody's choice of a pair keeps what
\* is known of them, when it begins no pair of its own.
LEMMA StoringKept ==
  ASSUME TypeOK, ReturnsInv, SharingInv, StoringInv, CallsInARowShare,
         UNCHANGED <<mapped, put, using, after>>,
         \A c \in Caller : Makes(c)' => Makes(c),
         \A c \in Caller : transport'["local"][c] # "none" => Makes(c),
         \A c \in Caller : pc'[c] \in {"idle", "get"} => pc[c] \in {"idle", "get"} /\ ~Makes(c)',
         \A c \in Caller : pc'[c] \in Making => pc[c] \in Making \cup {"get"},
         \A c \in Caller : result'[c] = "ok" =>
           result[c] = "ok" \/ ~Makes(c)' \/ using[c] # "none",
         \A c \in Caller : \A d \in after[c] : result'[d] = "ok" => result[d] = "ok"
  PROVE  (SharingInv /\ StoringInv /\ CallsInARowShare)'
<1>1. \A c \in Caller : Shares(c)' <=> Shares(c)
  BY DEF Shares
<1>2. \A c \in Caller : after[c] \subseteq Caller
  BY DEF TypeOK
<1>3. SharingInv'
  BY <1>1, <1>2 DEF SharingInv
<1>4. \A c \in Caller : Overtaken(c)' <=> Overtaken(c)
  BY DEF Overtaken
<1>5. StoringInv'
  BY <1>4 DEF StoringInv
<1>6. CallsInARowShare'
  BY <1>1, <1>2 DEF CallsInARowShare, SharingInv, Shares
<1>. QED  BY <1>3, <1>5, <1>6

\* A call that finds no pair is one that no stored pair of a call before it precedes,
\* and whoever's pair is replaced has been overtaken.
LEMMA StoringStep ==
  TypeOK /\ ReturnsInv /\ PairsInv /\ SharingInv /\ StoringInv /\ CallsInARowShare
    /\ [Next]_vars => (SharingInv /\ StoringInv /\ CallsInARowShare)'
<1>. SUFFICES ASSUME TypeOK, ReturnsInv, PairsInv, SharingInv, StoringInv, CallsInARowShare,
                     [Next]_vars
     PROVE (SharingInv /\ StoringInv /\ CallsInARowShare)'
  OBVIOUS
<1>. DEFINE Goal == SharingInv /\ StoringInv /\ CallsInARowShare
<1>0. /\ "none" \notin Caller
      /\ mapped # "none" => mapped \in Caller /\ pc[mapped] \in Working \cup {"returned"}
      /\ \A c \in Caller : \A d \in after[c] : d \in Caller /\ pc[d] = "returned"
  BY PipingAssumption DEF TypeOK, PairsInv, ReturnsInv
<1>1. ASSUME NEW c \in Caller, Begin(c) PROVE Goal'
  <2>1. /\ pc[c] = "idle" /\ pc' = [pc EXCEPT ![c] = "get"]
        /\ UNCHANGED <<result, mapped, put, using, transport>>
        /\ after' = [after EXCEPT ![c] = {d \in Caller : pc[d] = "returned"}]
    BY <1>1 DEF Begin, Go
  <2>2. /\ \A d \in Caller : Makes(d)' <=> Makes(d)
        /\ \A d \in Caller : Shares(d)' <=> Shares(d)
        /\ ~Makes(c) /\ using[c] = "none" /\ put[c] = "none"
    BY <2>1, <1>0 DEF TypeOK, Makes, Shares, Making, SharingInv, StoringInv
  <2>3. mapped # c /\ \A d \in Caller : d # c => after'[d] = after[d]
    BY <1>0, <2>1, <2>2 DEF TypeOK, StoringInv
  <2>4. \A d \in Caller : Overtaken(d) /\ d # c => Overtaken(d)'
    BY <1>0, <2>1, <2>3 DEF Overtaken
  <2>5. SharingInv'
    BY <1>0, <2>1, <2>2, <2>3 DEF SharingInv, TypeOK, Handled
  <2>6. StoringInv'
    BY <1>0, <2>1, <2>2, <2>3, <2>4 DEF StoringInv, TypeOK, Making, Handled
  <2>7. CallsInARowShare'
    BY <2>1, <2>2, <2>3 DEF CallsInARowShare, Makes
  <2>. QED  BY <2>5, <2>6, <2>7
<1>2. ASSUME NEW c \in Caller, GetPair(c) PROVE Goal'
  <2>1. /\ pc[c] = "get" /\ using[c] = "none" /\ put[c] = "none" /\ ~Makes(c)
        /\ transport["local"][c] = "none"
        /\ UNCHANGED <<mapped, put, transport, after>>
    BY <1>0, <1>2 DEF GetPair, TypeOK, Makes, SharingInv, StoringInv
  <2>2. \A d \in Caller : d # c => pc'[d] = pc[d] /\ result'[d] = result[d]
                                  /\ using'[d] = using[d]
    BY <1>2 DEF GetPair, Go, Return, TypeOK
  <2>3. /\ pc'[c] \in {"returned", "create_local", "consume"}
        /\ pc'[c] = "create_local" => mapped = "none" /\ result'[c] # "ok"
        /\ using'[c] \in {"none", mapped}
    BY <1>2, <2>1 DEF GetPair, Go, Return, TypeOK, ReturnsInv
  <2>4. /\ mapped # c
        /\ \A d \in Caller : d # c => (Makes(d)' <=> Makes(d)) /\ (Shares(d)' <=> Shares(d))
        /\ \A d \in Caller : Overtaken(d)' <=> Overtaken(d)
        /\ Makes(c)' => mapped = "none" /\ result'[c] # "ok"
    BY <1>0, <2>1, <2>2, <2>3 DEF Makes, Shares, Overtaken, StoringInv, Making
  <2>5. \A d \in Caller : c \notin after[d]
    BY <1>0, <2>1
  <2>6. SharingInv'
    <3>1. Makes(c)' => \A d \in after[c] : ~Shares(d)
      BY <1>0, <2>4 DEF SharingInv, Shares
    <3>. QED
      BY <1>0, <2>1, <2>2, <2>3, <2>4, <2>5, <3>1 DEF SharingInv, Handled
  <2>7. StoringInv'
    BY <1>0, <2>1, <2>2, <2>3, <2>4 DEF StoringInv, Making, Handled
  <2>8. CallsInARowShare'
    BY <1>0, <2>1, <2>2, <2>5 DEF CallsInARowShare
  <2>. QED  BY <2>6, <2>7, <2>8
<1>3. ASSUME NEW c \in Caller, PutPair(c) \/ LatePut(c) PROVE Goal'
  <2>1. /\ UNCHANGED <<result, transport, after>>
        /\ \E a \in {"answered", "pending", "late"} :
             /\ put' = [put EXCEPT ![c] = a]
             /\ mapped' = IF a = "pending" THEN mapped ELSE c
             /\ a = "late" <=> put[c] = "pending"
        /\ using' = [using EXCEPT ![c] = c]
    <3>1. CASE PutPair(c)
      BY <1>0, <3>1 DEF PutPair, Go, TypeOK, StoringInv, Making
    <3>2. CASE LatePut(c)
      BY <3>2 DEF LatePut, TypeOK, StoringInv
    <3>. QED  BY <1>3, <3>1, <3>2
  <2>2. \/ pc[c] = "put" /\ pc' = [pc EXCEPT ![c] = "consume"] /\ put[c] = "none"
        \/ UNCHANGED pc /\ put[c] = "pending"
    BY <1>0, <1>3 DEF PutPair, LatePut, Go, StoringInv, Making, TypeOK
  <2>3. transport["local"][c] # "none"
    BY <1>0, <2>2 DEF PairsInv, StoringInv, Made, Side
  <2>4. \A d \in Caller : Makes(d)' <=> Makes(d)
    BY <2>1, <2>2, <2>3 DEF Makes, Making, TypeOK
  <2>5. \A d \in Caller : \A e \in after[d] : ~Shares(e) => ~Shares(e)'
    BY <1>0, <2>1, <2>2 DEF Shares, TypeOK
  <2>6. Makes(c) /\ \A d \in after[c] : ~Shares(d)
    BY <2>3 DEF Makes, SharingInv
  <2>7. SharingInv'
    BY <1>0, <2>1, <2>2, <2>4, <2>5 DEF SharingInv, Handled, TypeOK
  <2>8. ASSUME NEW d \in Caller, put'[d] \in Handled, mapped' # d PROVE Overtaken(d)'
    <3>1. CASE mapped' = mapped /\ d # c
      <4>1. Overtaken(d) /\ put'[d] = put[d]
        BY <2>1, <2>8, <3>1 DEF StoringInv, TypeOK
      <4>2. mapped \in Caller /\ (put[mapped] = "late" => put'[mapped] = "late")
        BY <1>0, <2>1, <2>2, <4>1 DEF Overtaken, TypeOK, StoringInv, Handled
      <4>. QED  BY <2>1, <3>1, <4>1, <4>2 DEF Overtaken
    <3>2. CASE mapped' = c /\ d # c /\ mapped' # mapped
      <4>1. put'[c] \in {"answered", "late"} /\ put'[d] = put[d] /\ using[d] = d
        BY <1>0, <2>1, <2>8, <3>2 DEF TypeOK, StoringInv, Handled
      <4>2. d \in after[c] => put[d] = "late"
        BY <1>0, <2>6, <2>8, <4>1 DEF Shares, Handled
      <4>3. c \in after[d] => put'[c] = "late"
        BY <1>0, <2>1, <2>2 DEF TypeOK
      <4>. QED  BY <1>0, <2>1, <3>2, <4>1, <4>2, <4>3 DEF Overtaken
    <3>3. CASE d = c
      BY <2>1, <2>8, <3>3 DEF Handled, TypeOK
    <3>. QED  BY <2>1, <3>1, <3>2, <3>3
  <2>9. StoringInv'
    <3>1. mapped' # "none" => using'[mapped'] = mapped' /\ put'[mapped'] \in Handled
      BY <1>0, <2>1, <2>2 DEF StoringInv, Handled, TypeOK
    <3>2. ASSUME NEW d \in Caller
          PROVE /\ pc'[d] \in Making \cup {"idle", "get"} => using'[d] = "none"
                /\ (using'[d] = d) <=> (put'[d] # "none")
                /\ Makes(d) /\ using'[d] # "none" => using'[d] = d
                /\ Makes(d) /\ result[d] = "ok" => using'[d] # "none"
      <4>1. CASE d = c
        BY <1>0, <2>1, <2>2, <4>1 DEF TypeOK, Making, StoringInv
      <4>2. CASE d # c
        BY <2>1, <2>2, <4>2 DEF TypeOK, StoringInv
      <4>. QED  BY <4>1, <4>2
    <3>. QED  BY <2>1, <2>4, <2>8, <3>1, <3>2 DEF StoringInv, Handled
  <2>10. CallsInARowShare'
    <3>1. ASSUME NEW d \in Caller, transport["local"][d] # "none", NEW e \in after[d],
                 result[e] = "ok"
          PROVE  using'[e] = "none" \/ put'[e] \in {"pending", "late"}
      <4>1. using[e] = "none" \/ put[e] \in {"pending", "late"}
        BY <3>1 DEF CallsInARowShare
      <4>2. e = c => put[c] = "pending"
        BY <1>0, <2>2, <3>1 DEF ReturnsInv
      <4>. QED  BY <1>0, <2>1, <4>1, <4>2 DEF TypeOK
    <3>. QED  BY <2>1, <3>1 DEF CallsInARowShare
  <2>. QED  BY <2>7, <2>9, <2>10
<1>4. ASSUME NEW c \in Caller, Consume(c) \/ Produce(c) \/ Link(c) PROVE Goal'
  <2>1. /\ pc[c] \in Working /\ using[c] # "none"
        /\ UNCHANGED <<mapped, put, using, after, transport>>
    BY <1>4 DEF Consume, Produce, Link, PairsInv, Working
  <2>2. \E stage \in Working \cup {"returned"} : pc' = [pc EXCEPT ![c] = stage]
    BY <1>4 DEF Consume, Produce, Link, Go, Return, Working
  <2>3. \A d \in Caller : d # c => result'[d] = result[d]
    BY <1>4 DEF Consume, Produce, Link, Go, Return, TypeOK
  <2>4. \A d \in Caller : Makes(d)' => Makes(d)
    BY <2>1, <2>2 DEF Makes, Making, Working, TypeOK
  <2>5. \A d \in Caller : c \notin after[d]
    BY <1>0, <2>1 DEF Working
  <2>6. \A d \in Caller : pc'[d] \in {"idle", "get"} => pc[d] \in {"idle", "get"} /\ ~Makes(d)'
    BY <2>1, <2>2, <2>4 DEF Working, TypeOK, SharingInv
  <2>7. \A d \in Caller : pc'[d] \in Making => pc[d] \in Making
    BY <2>2 DEF Working, Making, TypeOK
  <2>8. \A d \in Caller : transport'["local"][d] # "none" => Makes(d)
    BY <2>1 DEF Makes
  <2>9. \A d \in Caller : \A e \in after[d] : result'[e] = "ok" => result[e] = "ok"
    BY <1>0, <2>3, <2>5
  <2>10. \A d \in Caller : result'[d] = "ok" =>
           result[d] = "ok" \/ ~Makes(d)' \/ using[d] # "none"
    BY <2>1, <2>3
  <2>. QED
    BY <2>1, <2>4, <2>6, <2>7, <2>8, <2>9, <2>10, StoringKept
<1>5. ASSUME NEW c \in Caller, MakePair(c) PROVE Goal'
  <2>1. pc[c] \in Making /\ UNCHANGED <<mapped, put, using, after>>
    BY <1>5 DEF MakePair, CreateTransport, ConnectTransport, Making
  <2>2. /\ \E stage \in Making \cup {"returned"} : pc' = [pc EXCEPT ![c] = stage]
        /\ result'[c] \in {result[c], "error"}
    BY <1>5 DEF MakePair, CreateTransport, ConnectTransport, Go, Return, TypeOK, Making
  <2>3. \A d \in Caller : d # c =>
          result'[d] = result[d] /\ transport'["local"][d] = transport["local"][d]
    BY <1>5 DEF MakePair, CreateTransport, ConnectTransport, Go, Return, TypeOK, Side
  <2>4. Makes(c) /\ result'[c] # "ok"
    <3>1. result[c] # "ok"
      BY <2>1 DEF ReturnsInv, Making, TypeOK
    <3>. QED  BY <2>1, <2>2, <3>1 DEF Makes
  <2>5. \A d \in Caller : Makes(d)' => Makes(d)
    BY <2>2, <2>3, <2>4 DEF Makes, TypeOK
  <2>6. \A d \in Caller : pc'[d] \in {"idle", "get"} => pc[d] \in {"idle", "get"} /\ ~Makes(d)'
    BY <2>2, <2>5 DEF Making, TypeOK, SharingInv
  <2>7. \A d \in Caller : pc'[d] \in Making => pc[d] \in Making
    BY <2>1, <2>2 DEF TypeOK
  <2>8. \A d \in Caller : transport'["local"][d] # "none" => Makes(d)
    BY <2>3, <2>4 DEF Makes
  <2>9. \A d \in Caller : result'[d] = "ok" => result[d] = "ok"
    BY <2>3, <2>4
  <2>10. \A d \in Caller : \A e \in after[d] : result'[e] = "ok" => result[e] = "ok"
    BY <1>0, <2>9
  <2>. QED
    BY <2>1, <2>5, <2>6, <2>7, <2>8, <2>9, <2>10, StoringKept
<1>6. ASSUME UNCHANGED <<pc, result, mapped, put, using, after>>,
             \A c \in Caller : (transport'["local"][c] # "none") <=> (transport["local"][c] # "none")
      PROVE Goal'
  <2>1. \A c \in Caller : Makes(c)' <=> Makes(c)
    BY <1>6 DEF Makes
  <2>2. \A c \in Caller : transport'["local"][c] # "none" => Makes(c)
    BY <1>6 DEF Makes
  <2>3. \A d \in Caller : pc'[d] \in {"idle", "get"} => pc[d] \in {"idle", "get"} /\ ~Makes(d)'
    BY <1>6, <2>1 DEF SharingInv
  <2>. QED  BY <1>6, <2>1, <2>2, <2>3, StoringKept
<1>7. ASSUME NEW c \in Caller, PipeEnd(c) PROVE Goal'
  BY <1>6, <1>7 DEF PipeEnd
<1>8. ASSUME NEW s \in Side, NEW P \in SUBSET Caller, TransportsEnd(s, P) PROVE Goal'
  <2>1. \A c \in Caller : (transport["local"][c] # "none") <=> (transport'["local"][c] # "none")
    BY <1>8 DEF TransportsEnd, Shut, TypeOK, Side
  <2>. QED  BY <1>6, <1>8, <2>1 DEF TransportsEnd
<1>9. CASE UNCHANGED vars
  BY <1>6, <1>9 DEF vars
<1>. QED
  BY <1>1, <1>2, <1>3, <1>4, <1>5, <1>7, <1>8, <1>9
     DEF Next, CallerStep, TransportEnd, RouterEnd

\* Each thing a call makes is there when it comes to make the next, and is made once.
LEMMA PipesStep ==
  TypeOK /\ ReturnsInv /\ PairsInv /\ SharingInv /\ StoringInv /\ PipesInv /\ [Next]_vars
    => PipesInv'
<1>. SUFFICES ASSUME TypeOK, ReturnsInv, PairsInv, SharingInv, StoringInv, PipesInv, [Next]_vars
     PROVE PipesInv'
  OBVIOUS
<1>. USE DEF TypeOK, PipesInv, Making
<1>1. ASSUME NEW c \in Caller, Begin(c) PROVE PipesInv'
  BY <1>1 DEF Begin, Go
<1>2. ASSUME NEW c \in Caller, GetPair(c) PROVE PipesInv'
  <2>1. using[c] = "none" /\ pc[c] = "get" /\ UNCHANGED <<consumer, producer, linked, transport>>
    BY <1>2 DEF GetPair, StoringInv
  <2>2. \A d \in Caller : d # c => pc'[d] = pc[d] /\ result'[d] = result[d] /\ using'[d] = using[d]
    BY <1>2 DEF GetPair, Go, Return
  <2>3. pc'[c] \in {"returned", "create_local", "consume"} /\ (pc'[c] = "returned" => using' = using)
    BY <1>2 DEF GetPair, Go, Return
  <2>4. pc'[c] # "returned" => result'[c] # "ok"
    BY <1>2, <2>1 DEF GetPair, Go, Return, ReturnsInv
  <2>5. consumer[c] = "none" /\ producer[c] = "none" /\ c \notin linked
    BY <2>1
  <2>6. \A s \in Side : transport[s][c] = "none"
    BY <2>1 DEF SharingInv, Makes, Side
  <2>. QED  BY <2>1, <2>2, <2>3, <2>4, <2>5, <2>6
<1>3. ASSUME NEW c \in Caller, PutPair(c) PROVE PipesInv'
  <2>1. pc[c] = "put" /\ UNCHANGED <<result, consumer, producer, linked, transport>>
    BY <1>3 DEF PutPair, Go
  <2>2. \A d \in Caller : d # c => pc'[d] = pc[d] /\ using'[d] = using[d]
    BY <1>3 DEF PutPair, Go
  <2>3. pc'[c] = "consume" /\ result[c] # "ok"
    BY <1>3, <2>1 DEF PutPair, Go, ReturnsInv
  <2>4. consumer[c] = "none" /\ producer[c] = "none" /\ c \notin linked
    BY <2>1
  <2>. QED  BY <2>1, <2>2, <2>3, <2>4
<1>4. ASSUME NEW c \in Caller, Consume(c) PROVE PipesInv'
  <2>1. using[c] # "none" /\ pc[c] = "consume" /\ UNCHANGED <<using, producer, linked, transport>>
    BY <1>4 DEF Consume, PairsInv, Working
  <2>2. c \notin linked /\ consumer[c] = "none" /\ producer[c] = "none"
    BY <2>1
  <2>3. \A d \in Caller : d # c =>
          pc'[d] = pc[d] /\ result'[d] = result[d] /\ consumer'[d] = consumer[d]
    BY <1>4 DEF Consume, Go, Return
  <2>4. /\ pc'[c] \in {"produce", "returned"}
        /\ pc'[c] = "produce" => consumer'[c] # "none"
        /\ result'[c] = "ok" => result[c] = "ok"
    BY <1>4 DEF Consume, Go, Return
  <2>5. result[c] # "ok"
    BY <2>1 DEF ReturnsInv
  <2>. QED  BY <2>1, <2>2, <2>3, <2>4, <2>5
<1>5. ASSUME NEW c \in Caller, Produce(c) PROVE PipesInv'
  <2>1. using[c] # "none" /\ pc[c] = "produce" /\ UNCHANGED <<using, consumer, linked, transport>>
    BY <1>5 DEF Produce, PairsInv, Working
  <2>2. c \notin linked /\ consumer[c] # "none" /\ producer[c] = "none"
    BY <2>1
  <2>3. \A d \in Caller : d # c =>
          pc'[d] = pc[d] /\ result'[d] = result[d] /\ producer'[d] = producer[d]
    BY <1>5 DEF Produce, Go, Return
  <2>4. /\ pc'[c] \in {"link", "returned"}
        /\ pc'[c] = "link" => producer'[c] # "none"
        /\ result'[c] = "ok" => result[c] = "ok"
    BY <1>5 DEF Produce, Go, Return
  <2>5. result[c] # "ok"
    BY <2>1 DEF ReturnsInv
  <2>. QED  BY <2>1, <2>2, <2>3, <2>4, <2>5
<1>6. ASSUME NEW c \in Caller, Link(c) PROVE PipesInv'
  <2>1. using[c] # "none"
    BY <1>6 DEF Link, PairsInv, Working
  <2>. QED  BY <1>6, <2>1 DEF Link, Return
<1>7. ASSUME NEW c \in Caller, PipeEnd(c) \/ LatePut(c) PROVE PipesInv'
  BY <1>7 DEF PipeEnd, LatePut, HalfEnded
<1>8. ASSUME NEW c \in Caller, MakePair(c) PROVE PipesInv'
  <2>1. pc[c] \in Making /\ UNCHANGED <<using, consumer, producer, linked>>
    BY <1>8 DEF MakePair, CreateTransport, ConnectTransport
  <2>2. \A d \in Caller : d # c =>
          /\ pc'[d] = pc[d] /\ result'[d] = result[d]
          /\ \A s \in Side : transport'[s][d] = transport[s][d]
    BY <1>8 DEF MakePair, CreateTransport, ConnectTransport, Go, Return, Side
  <2>3. result[c] # "ok" /\ pc'[c] \in Making \cup {"returned"}
        /\ result'[c] \in {result[c], "error"} /\ c \notin linked
    BY <1>8, <2>1 DEF MakePair, CreateTransport, ConnectTransport, Go, Return, ReturnsInv
  <2>4. transport'["local"][c] = "none" =>
          transport'["remote"][c] = "none" /\ pc'[c] = "returned"
    <3>1. CASE CreateTransport(c, "local", "create_local", "create_remote")
      BY <3>1 DEF CreateTransport, Go, Return, Side
    <3>2. CASE ~CreateTransport(c, "local", "create_local", "create_remote")
      <4>1. pc[c] # "create_local"
        BY <1>8, <3>2 DEF MakePair, CreateTransport, ConnectTransport
      <4>2. transport["local"][c] # "none"
        BY <2>1, <4>1
      <4>. QED
        BY <1>8, <4>2 DEF MakePair, CreateTransport, ConnectTransport, Side
    <3>. QED  BY <3>1, <3>2
  <2>5. \A d \in Caller : d # c => (d \in linked => pc[d] = "returned")
    OBVIOUS
  <2>. QED  BY <2>1, <2>2, <2>3, <2>4, <2>5 DEF Side
<1>9. ASSUME NEW s \in Side, NEW P \in SUBSET Caller, TransportsEnd(s, P) PROVE PipesInv'
  <2>1. UNCHANGED <<pc, result, using, linked>>
    BY <1>9 DEF TransportsEnd
  <2>2. \A d \in Caller : /\ (consumer'[d] = "none") <=> (consumer[d] = "none")
                          /\ (producer'[d] = "none") <=> (producer[d] = "none")
    BY <1>9 DEF TransportsEnd, Shut
  <2>3. \A r \in Side : \A d \in Caller :
          (transport'[r][d] = "none") <=> (transport[r][d] = "none")
    BY <1>9 DEF TransportsEnd, Shut
  <2>. QED  BY <2>1, <2>2, <2>3 DEF Side
<1>10. CASE UNCHANGED vars
  BY <1>10 DEF vars
<1>. HIDE DEF TypeOK, PipesInv, Making
<1>. QED
  BY <1>1, <1>2, <1>3, <1>4, <1>5, <1>6, <1>7, <1>8, <1>9, <1>10
     DEF Next, CallerStep, TransportEnd, RouterEnd

\* A transport takes with it what runs on it, and nothing is made on a closed one.
LEMMA OnTransportsStep ==
  TypeOK /\ PairsInv /\ PipesInv /\ OnTransportsInv /\ [Next]_vars => OnTransportsInv'
<1>. SUFFICES ASSUME TypeOK, PairsInv, PipesInv, OnTransportsInv, [Next]_vars
     PROVE OnTransportsInv'
  OBVIOUS
<1>. USE DEF TypeOK, OnTransportsInv, Side
<1>1. ASSUME NEW c \in Caller, Begin(c) \/ Link(c) PROVE OnTransportsInv'
  BY <1>1 DEF Begin, Link
<1>2. ASSUME NEW c \in Caller, GetPair(c) \/ PutPair(c) PROVE OnTransportsInv'
  <2>1. consumer[c] = "none" /\ producer[c] = "none"
        /\ UNCHANGED <<consumer, producer, transport>>
    BY <1>2 DEF GetPair, PutPair, PipesInv, Making
  <2>2. \A d \in Caller : d # c => using'[d] = using[d]
    BY <1>2 DEF GetPair, PutPair
  <2>. QED  BY <2>1, <2>2
<1>3. ASSUME NEW c \in Caller, Consume(c) PROVE OnTransportsInv'
  BY <1>3 DEF Consume, Usable
<1>4. ASSUME NEW c \in Caller, Produce(c) PROVE OnTransportsInv'
  BY <1>4 DEF Produce, Usable
<1>5. ASSUME NEW c \in Caller, PipeEnd(c) \/ LatePut(c) PROVE OnTransportsInv'
  BY <1>5 DEF PipeEnd, LatePut
<1>6. ASSUME NEW c \in Caller, MakePair(c) PROVE OnTransportsInv'
  <2>1. UNCHANGED <<using, consumer, producer>>
    BY <1>6 DEF MakePair, CreateTransport, ConnectTransport
  <2>2. \A s \in Side : \A p \in Caller : transport'[s][p] = "closed" => transport[s][p] = "closed"
    BY <1>6 DEF MakePair, CreateTransport, ConnectTransport
  <2>. QED  BY <2>1, <2>2
<1>7. ASSUME NEW s \in Side, NEW P \in SUBSET Caller, TransportsEnd(s, P) PROVE OnTransportsInv'
  <2>. SUFFICES ASSUME NEW c \in Caller, using[c] # "none"
        PROVE /\ transport'["local"][using[c]] = "closed" => consumer'[c] # "open"
              /\ transport'["remote"][using[c]] = "closed" => producer'[c] # "open"
    BY <1>7 DEF TransportsEnd
  <2>1. using[c] \in Caller
    OBVIOUS
  <2>. QED  BY <1>7, <2>1 DEF TransportsEnd, Shut
<1>8. CASE UNCHANGED vars
  BY <1>8 DEF vars
<1>. QED
  BY <1>1, <1>2, <1>3, <1>4, <1>5, <1>6, <1>7, <1>8
     DEF Next, CallerStep, TransportEnd, RouterEnd

\* A returned pipe on a transport that is gone has a closed end, and the other is
\* closed as well when it has none to follow.
LEMMA RestHasEnded ==
  TypeOK /\ PipesInv /\ OnTransportsInv => EndedAtRest
<1>. SUFFICES ASSUME TypeOK, PipesInv, OnTransportsInv, NEW c \in Caller, NEW s \in Side,
                     result[c] = "ok", using[c] # "none", transport[s][using[c]] = "closed",
                     ~HalfEnded(c)
     PROVE  consumer[c] = "closed" /\ producer[c] = "closed"
  BY DEF EndedAtRest
<1>1. c \in linked /\ consumer[c] # "none" /\ producer[c] # "none"
  BY DEF PipesInv
<1>2. consumer[c] # "open" \/ producer[c] # "open"
  BY DEF OnTransportsInv, Side
<1>3. consumer[c] \in {"open", "closed"} /\ producer[c] \in {"open", "closed"}
  BY <1>1 DEF TypeOK
<1>. QED  BY <1>1, <1>2, <1>3 DEF HalfEnded

\* The inductive invariant holds for every set of callers.
THEOREM PipingInvariance == Spec => []IInv
<1>1. Init => IInv
  BY PipingInit
<1>2. IInv /\ [Next]_vars => IInv'
  <2>1. (TypeOK /\ PipesInv /\ OnTransportsInv)' => EndedAtRest'
    BY RestHasEnded, PTL
  <2>. QED
    BY <2>1, TypeStep, ReturnsStep, PairsStep, StoringStep, PipesStep, OnTransportsStep DEF IInv
<1>. QED  BY <1>1, <1>2, PTL DEF Spec

\* However many callers race for it, nobody works on a pair before it is
\* connected at both ends.
THEOREM PairsAreConnected == Spec => []UsedPairIsConnected
<1>1. IInv => UsedPairIsConnected
  BY DEF IInv, PairsInv, Made, Working, UsedPairIsConnected
<1>. QED  BY <1>1, PipingInvariance, PTL

\* However many callers there are, a call that begins after one that returned a pipe
\* makes no further pair, unless the put of that one had no answer in time.
THEOREM CallsShare == Spec => []CallsInARowShare
<1>1. IInv => CallsInARowShare
  BY DEF IInv
<1>. QED  BY <1>1, PipingInvariance, PTL

\* Whatever the callers do and however late their puts are handled, a pair that a
\* returned call made is the stored one, was never stored, or has been overtaken.
THEOREM PairsAreAccountedFor == Spec => []UnstoredPairIsExplained
<1>1. IInv => UnstoredPairIsExplained
  <2>. SUFFICES ASSUME IInv, NEW c \in Caller, pc[c] = "returned", transport["local"][c] # "none"
        PROVE  \/ mapped = c
               \/ using[c] = "none" /\ result[c] = "error"
               \/ put[c] = "pending"
               \/ Overtaken(c)
    BY DEF UnstoredPairIsExplained
  <2>1. result[c] \in {"ok", "error"} /\ c # "none"
    BY PipingAssumption DEF IInv, TypeOK, ReturnsInv
  <2>2. CASE using[c] = "none"
    BY <2>1, <2>2 DEF IInv, StoringInv, Makes
  <2>3. CASE using[c] # "none"
    <3>1. using[c] = c /\ put[c] # "none"
      BY <2>3 DEF IInv, StoringInv, Makes
    <3>2. put[c] = "pending" \/ put[c] \in Handled
      BY <3>1 DEF IInv, TypeOK, Handled
    <3>. QED  BY <3>2 DEF IInv, StoringInv
  <2>. QED  BY <2>2, <2>3
<1>. QED  BY <1>1, PipingInvariance, PTL

\* What stays true once the stored pair is broken: no call makes another pair, none
\* gets past the transport that is gone, and no pair made before is still to be stored.
Stuck ==
  /\ mapped # "none"
  /\ \E s \in Side : transport[s][mapped] = "closed"
  /\ \A c \in Caller :
       /\ pc[c] \notin Making \cup {"link"} /\ put[c] # "pending"
       /\ pc[c] = "consume" => using[c] = mapped
       /\ pc[c] = "produce" => using[c] = mapped /\ transport["remote"][mapped] = "closed"

\* However many calls follow, after the stored pair has lost a transport with no
\* call under way none of them returns a pipe.
THEOREM BrokenPairIsKept == Spec => DeadPairIsForGood
<1>. SUFFICES ASSUME NEW c \in Caller
     PROVE  Spec => [](Broken /\ result[c] = "none" =>
                         [](result[c] = "ok" => consumer[c] = "none" /\ producer[c] = "none"))
  BY DEF DeadPairIsForGood
<1>. DEFINE R == result[c] = "ok" => consumer[c] = "none" /\ producer[c] = "none"
            B == Broken /\ result[c] = "none"
<1>1. B => Stuck /\ R
  BY DEF Broken, Stuck, Making
<1>2. IInv /\ Stuck /\ R /\ [Next]_vars => (Stuck /\ R)'
  <2>. SUFFICES ASSUME IInv, Stuck, R, [Next]_vars PROVE (Stuck /\ R)'
    OBVIOUS
  <2>. TypeOK /\ PipesInv /\ ReturnsInv
    BY DEF IInv
  <2>0. mapped \in Caller
    BY DEF TypeOK, Stuck
  <2>. USE DEF TypeOK, Stuck, Making, Side
  <2>1. ASSUME NEW d \in Caller, Begin(d) PROVE (Stuck /\ R)'
    BY <2>1 DEF Begin, Go
  <2>2. ASSUME NEW d \in Caller, GetPair(d) PROVE (Stuck /\ R)'
    <3>1. consumer[d] = "none" /\ producer[d] = "none"
      BY <2>2 DEF GetPair, PipesInv
    <3>. QED  BY <2>2, <3>1 DEF GetPair, Go, Return
  <2>3. ASSUME NEW d \in Caller, PutPair(d) \/ LatePut(d) \/ MakePair(d) \/ Link(d) PROVE FALSE
    BY <2>3 DEF PutPair, LatePut, MakePair, CreateTransport, ConnectTransport, Link
  <2>4. ASSUME NEW d \in Caller, Consume(d) PROVE (Stuck /\ R)'
    <3>1. result[d] # "ok"
      BY <2>4 DEF Consume, ReturnsInv
    <3>. QED  BY <2>0, <2>4, <3>1 DEF Consume, Usable, Go, Return
  <2>5. ASSUME NEW d \in Caller, Produce(d) PROVE (Stuck /\ R)'
    <3>1. result[d] # "ok"
      BY <2>5 DEF Produce, ReturnsInv
    <3>. QED  BY <2>0, <2>5, <3>1 DEF Produce, Usable, Go, Return
  <2>6. ASSUME NEW d \in Caller, PipeEnd(d) PROVE (Stuck /\ R)'
    <3>1. consumer[d] # "none" /\ producer[d] # "none"
      BY <2>6 DEF PipeEnd, HalfEnded
    <3>. QED  BY <2>6, <3>1 DEF PipeEnd
  <2>7. ASSUME NEW s \in Side, NEW P \in SUBSET Caller, TransportsEnd(s, P),
               UNCHANGED router \/ router' = [router EXCEPT ![s] = "dead"]
        PROVE (Stuck /\ R)'
    BY <2>0, <2>7 DEF TransportsEnd, Shut
  <2>8. CASE UNCHANGED vars
    BY <2>8 DEF vars
  <2>. QED
    BY <2>1, <2>2, <2>3, <2>4, <2>5, <2>6, <2>7, <2>8
       DEF Next, CallerStep, TransportEnd, RouterEnd
<1>3. Stuck /\ R => R
  OBVIOUS
<1>. QED  BY <1>1, <1>2, <1>3, PipingInvariance, PTL DEF Spec

\* Whatever fails or is late, {:ok, _} stands for a pipe with both its ends or for
\* nothing at all: no transport, no pipe Consumer and no pipe Producer of that call is
\* left behind. (The run PipeToRouterGone shows the second.)
THEOREM OkIsAPipe == Spec => []OkIsWholeOrHollow
<1>1. IInv => OkIsWholeOrHollow
  BY DEF IInv, PipesInv, OkIsWholeOrHollow
<1>. QED  BY <1>1, PipingInvariance, PTL

\* However many callers there are: a returned pipe on a transport that is gone has ended
\* on both sides, or one end has still to follow the other. No pipe is left half open.
THEOREM NoHalfPipeRests == Spec => []EndedAtRest
<1>1. IInv => EndedAtRest
  BY DEF IInv
<1>. QED  BY <1>1, PipingInvariance, PTL

-----------------------------------------------------------------------------
(* The contract of the pipes. *)

\* What closes on one side of some pipes is a step of the contract.
LEMMA ShutCloses ==
  ASSUME TypeOK, NEW P \in SUBSET Caller
  PROVE  /\ consumer' = Shut(consumer, P) /\ UNCHANGED <<producer, linked>> => Ends!CloseEnds
         /\ producer' = Shut(producer, P) /\ UNCHANGED <<consumer, linked>> => Ends!CloseEnds
<1>1. ASSUME consumer' = Shut(consumer, P), UNCHANGED <<producer, linked>> PROVE Ends!CloseEnds
  <2>. DEFINE Q == {c \in P : consumer[c] = "open"}
  <2>1. consumer' = Ends!Closed(consumer, Q)
    BY <1>1 DEF Shut, Ends!Closed, TypeOK
  <2>. QED  BY <1>1, <2>1 DEF Ends!CloseEnds
<1>2. ASSUME producer' = Shut(producer, P), UNCHANGED <<consumer, linked>> PROVE Ends!CloseEnds
  <2>. DEFINE Q == {c \in P : producer[c] = "open"}
  <2>1. producer' = Ends!Closed(producer, Q)
    BY <1>2 DEF Shut, Ends!Closed, TypeOK
  <2>. QED  BY <1>2, <2>1 DEF Ends!CloseEnds
<1>. QED  BY <1>1, <1>2

\* Every step of the callers and of what goes away under them is one of the contract, or
\* leaves the pipes as they are.
LEMMA EndsStep == IInv /\ [Next]_vars => [Ends!EndsNext]_Ends!ends
<1>. SUFFICES ASSUME IInv, [Next]_vars PROVE [Ends!EndsNext]_Ends!ends
  OBVIOUS
<1>. TypeOK /\ PipesInv
  BY DEF IInv
<1>. USE DEF TypeOK
<1>1. ASSUME NEW c \in Caller,
             Begin(c) \/ GetPair(c) \/ PutPair(c) \/ LatePut(c) \/ MakePair(c)
      PROVE UNCHANGED Ends!ends
  BY <1>1 DEF Begin, GetPair, PutPair, LatePut, MakePair, CreateTransport, ConnectTransport, Ends!ends
<1>2. ASSUME NEW c \in Caller, Consume(c) PROVE [Ends!EndsNext]_Ends!ends
  <2>1. consumer[c] = "none" /\ producer[c] = "none" /\ c \notin linked
    BY <1>2 DEF Consume, PipesInv
  <2>. QED  BY <1>2, <2>1 DEF Consume, Ends!EndsNext, Ends!OpenConsumer, Ends!ends
<1>3. ASSUME NEW c \in Caller, Produce(c) PROVE [Ends!EndsNext]_Ends!ends
  <2>1. consumer[c] # "none" /\ producer[c] = "none" /\ c \notin linked
    BY <1>3 DEF Produce, PipesInv
  <2>. QED  BY <1>3, <2>1 DEF Produce, Ends!EndsNext, Ends!OpenProducer, Ends!ends
<1>4. ASSUME NEW c \in Caller, Link(c) PROVE Ends!EndsNext
  <2>1. consumer[c] # "none" /\ producer[c] # "none" /\ c \notin linked
    BY <1>4 DEF Link, PipesInv
  <2>. QED  BY <1>4, <2>1 DEF Link, Ends!EndsNext, Ends!LinkEnds
<1>5. ASSUME NEW c \in Caller, PipeEnd(c) PROVE Ends!EndsNext
  <2>1. UNCHANGED linked /\ consumer' = [consumer EXCEPT ![c] = "closed"]
        /\ producer' = [producer EXCEPT ![c] = "closed"]
    BY <1>5 DEF PipeEnd
  <2>2. CASE consumer[c] = "closed"
    <3>1. producer[c] = "open" /\ consumer' = consumer
      BY <1>5, <2>1, <2>2 DEF PipeEnd, HalfEnded
    <3>2. producer' = Shut(producer, {c})
      BY <2>1, <3>1 DEF Shut
    <3>3. {c} \in SUBSET Caller
      OBVIOUS
    <3>. QED  BY <2>1, <3>1, <3>2, <3>3, ShutCloses DEF Ends!EndsNext
  <2>3. CASE producer[c] = "closed"
    <3>1. consumer[c] = "open" /\ producer' = producer
      BY <1>5, <2>1, <2>3 DEF PipeEnd, HalfEnded
    <3>2. consumer' = Shut(consumer, {c})
      BY <2>1, <3>1 DEF Shut
    <3>3. {c} \in SUBSET Caller
      OBVIOUS
    <3>. QED  BY <2>1, <3>1, <3>2, <3>3, ShutCloses DEF Ends!EndsNext
  <2>. QED  BY <1>5, <2>2, <2>3 DEF PipeEnd, HalfEnded
<1>6. ASSUME NEW s \in Side, NEW P \in SUBSET Caller, TransportsEnd(s, P) PROVE Ends!EndsNext
  BY <1>6, ShutCloses DEF TransportsEnd, Ends!EndsNext
<1>7. CASE UNCHANGED vars
  BY <1>7 DEF vars, Ends!ends
<1>. QED
  BY <1>1, <1>2, <1>3, <1>4, <1>5, <1>6, <1>7
     DEF Next, CallerStep, TransportEnd, RouterEnd

\* For any number of callers, the pipes they make open, are linked and close as the
\* contract of a pipe says, which PipeLink implements with processes and casts.
THEOREM PipesRefined == Spec => ImplementsPipes
<1>1. Init => Ends!EndsInit
  BY DEF Init, Ends!EndsInit
<1>. QED
  BY <1>1, EndsStep, PipingInvariance, PTL DEF Spec, ImplementsPipes, Ends!Contract
=============================================================================
