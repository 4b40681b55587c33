------------------------ MODULE CreateOptionsProofs ------------------------
(***************************************************************************)
(* Proofs about CreateOptions, for listen lists of any length and any ips, *)
(* addresses, ports and servers.                                           *)
(***************************************************************************)
EXTENDS CreateOptions, TLAPS

\* Each stage holds what the one before made of the request.
PassedOn ==
  /\ stage \in {"given", "normalized", "answered"}
  /\ asked \in Asking
  /\ stage = "given" => request = asked
  /\ stage # "given" => request = Normalize(FromMap(asked))
  /\ stage = "answered" => native = TryToOption(request)

LEMMA PassedOnAlways == Spec => []PassedOn
<1>1. Init => PassedOn
  BY DEF Init, PassedOn
<1>2. PassedOn /\ [Next]_vars => PassedOn'
  BY DEF PassedOn, Next, NormalizeStep, NativeStep, vars
<1>. QED  BY <1>1, <1>2, PTL DEF Spec

\* A request keeps its kind and is one of that kind when a map's port is dropped.
LEMMA FromMapKeepsType ==
  ASSUME NEW r \in Asking
  PROVE  /\ r.kind \in Kind /\ r \in Request(r.kind)
         /\ FromMap(r).kind = r.kind /\ FromMap(r) \in Request(r.kind)
<1>1. r.kind \in Kind /\ r \in Request(r.kind)
  BY AskingAssumption
<1>2. CASE r.kind = "webrtc"
  <2>1. r.o \in WebRtcOption
    BY <1>1, <1>2 DEF Request, Option
  <2>2. [r.o EXCEPT !.port = Nil] \in WebRtcOption
    BY <2>1 DEF WebRtcOption
  <2>. QED  BY <1>1, <1>2, <2>2 DEF FromMap, Request, Option
<1>. QED  BY <1>1, <1>2 DEF FromMap

\* A name that is changed is changed once.
LEMMA RenamedOnce ==
  ASSUME NEW x \in Info
  PROVE  Renamed(x) \in Info /\ Renamed(x).announcedIp = "absent" /\ Renamed(Renamed(x)) = Renamed(x)
BY DEF Info, Renamed

LEMMA ListRenamedOnce ==
  ASSUME NEW s \in Seq(Info), NEW t, t = [i \in DOMAIN s |-> Renamed(s[i])]
  PROVE  t \in Seq(Info) /\ [i \in DOMAIN t |-> Renamed(t[i])] = t
<1>1. \A i \in DOMAIN s : s[i] \in Info
  OBVIOUS
<1>2. \A i \in DOMAIN s : t[i] \in Info /\ Renamed(t[i]) = t[i]
  BY <1>1, RenamedOnce
<1>3. DOMAIN s = 1..Len(s) /\ Len(s) \in Nat
  OBVIOUS
<1>4. t \in [1..Len(s) -> Info]
  BY <1>2, <1>3
<1>5. t \in Seq(Info)
  BY <1>3, <1>4
<1>. QED  BY <1>2, <1>5

\* An ip and a protocol as the listen info they become.
Conversion(o, ip, p) ==
  [ip |-> ip.ip, protocol |-> p, port |-> o.port,
   announcedIp |-> "absent", announcedAddress |-> Renamed(ip).announcedAddress]

LEMMA ConversionType ==
  ASSUME NEW o \in WebRtcOption, NEW ip \in ListenIp, NEW p \in Protocol
  PROVE  Conversion(o, ip, p) \in Info
BY DEF Conversion, WebRtcOption, ListenIp, Info, Renamed

LEMMA ProtocolsCases ==
  ASSUME NEW o
  PROVE  Protocols(o) \in {<<>>, <<"udp">>, <<"tcp">>, <<"udp", "tcp">>, <<"tcp", "udp">>}
BY DEF Protocols

\* The converted list holds each ip with each protocol, and nothing else.
LEMMA ConvertedHoldsAll ==
  ASSUME NEW o \in WebRtcOption, o.listen_ips \in Seq(ListenIp)
  PROVE  /\ Converted(o) \in Seq(Info)
         /\ Elements(Converted(o)) =
              {Conversion(o, x, p) : x \in Elements(o.listen_ips), p \in Elements(Protocols(o))}
<1>. DEFINE s == o.listen_ips
            n == Len(s)
            c == Converted(o)
<1>1. n \in Nat /\ DOMAIN s = 1..n /\ \A i \in 1..n : s[i] \in ListenIp
  OBVIOUS
<1>2. CASE Protocols(o) = <<>>
  <2>1. c = [k \in 1..(n * 0) |-> c[k]]
    BY <1>2 DEF Converted
  <2>2. 1..(n * 0) = {} /\ DOMAIN c = {}
    BY <1>1, <2>1
  <2>3. c = <<>>
    BY <2>1, <2>2
  <2>. QED  BY <1>2, <2>3 DEF Elements
<1>3. ASSUME NEW p \in Protocol, Protocols(o) = <<p>>
      PROVE  c \in Seq(Info) /\ Elements(c) = {Conversion(o, x, q) : x \in Elements(s), q \in {p}}
  <2>1. c = [k \in 1..(n * 1) |-> Conversion(o, s[((k - 1) \div 1) + 1], <<p>>[((k - 1) % 1) + 1])]
    BY <1>3 DEF Converted, Conversion
  <2>2. \A k \in 1..n : ((k - 1) \div 1) + 1 = k /\ ((k - 1) % 1) + 1 = 1
    BY <1>1
  <2>3. c = [k \in 1..n |-> Conversion(o, s[k], p)]
    BY <1>1, <2>1, <2>2
  <2>4. \A k \in 1..n : c[k] \in Info
    BY <1>1, <2>3, ConversionType
  <2>5. c \in Seq(Info)
    BY <1>1, <2>3, <2>4
  <2>6. DOMAIN c = 1..n
    BY <2>3
  <2>. QED  BY <1>1, <2>3, <2>5, <2>6 DEF Elements
<1>4. ASSUME NEW p \in Protocol, NEW q \in Protocol, Protocols(o) = <<p, q>>
      PROVE  c \in Seq(Info) /\ Elements(c) = {Conversion(o, x, r) : x \in Elements(s), r \in {p, q}}
  <2>1. c = [k \in 1..(n * 2) |-> Conversion(o, s[((k - 1) \div 2) + 1], <<p, q>>[((k - 1) % 2) + 1])]
    BY <1>4 DEF Converted, Conversion
  <2>2. \A k \in 1..(n * 2) : ((k - 1) \div 2) + 1 \in 1..n /\ ((k - 1) % 2) + 1 \in {1, 2}
    BY <1>1
  <2>3. \A i \in 1..n : /\ 2 * i - 1 \in 1..(n * 2) /\ 2 * i \in 1..(n * 2)
                        /\ ((2 * i - 1 - 1) \div 2) + 1 = i /\ ((2 * i - 1 - 1) % 2) + 1 = 1
                        /\ ((2 * i - 1) \div 2) + 1 = i /\ ((2 * i - 1) % 2) + 1 = 2
    BY <1>1
  <2>4. \A k \in 1..(n * 2) : c[k] \in {Conversion(o, s[((k - 1) \div 2) + 1], p),
                                        Conversion(o, s[((k - 1) \div 2) + 1], q)}
    <3>1. ASSUME NEW k \in 1..(n * 2), NEW i, NEW j \in {1, 2},
                 c[k] = Conversion(o, s[i], <<p, q>>[j])
          PROVE  c[k] \in {Conversion(o, s[i], p), Conversion(o, s[i], q)}
      <4>1. CASE j = 1
        <5>1. <<p, q>>[j] = p
          BY <4>1
        <5>. QED  BY ONLY <5>1, <3>1
      <4>2. CASE j = 2
        <5>1. <<p, q>>[j] = q
          BY <4>2
        <5>. QED  BY ONLY <5>1, <3>1
      <4>. QED  BY <4>1, <4>2
    <3>2. ASSUME NEW k \in 1..(n * 2)
          PROVE  c[k] = Conversion(o, s[((k - 1) \div 2) + 1], <<p, q>>[((k - 1) % 2) + 1])
      <4>. HIDE DEF n, s
      <4>. QED  BY ONLY <2>1, <3>2
    <3>. HIDE DEF c, s, n
    <3>. QED  BY ONLY <2>2, <3>1, <3>2
  <2>5. \A i \in 1..n : c[2 * i - 1] = Conversion(o, s[i], p) /\ c[2 * i] = Conversion(o, s[i], q)
    BY <2>1, <2>3
  <2>6. \A k \in 1..(n * 2) : c[k] \in Info
    BY <1>1, <2>2, <2>4, ConversionType
  <2>7. DOMAIN c = 1..(n * 2) /\ n * 2 \in Nat
    BY <1>1, <2>1
  <2>8. c \in Seq(Info)
    <3>1. c \in [1..(n * 2) -> Info]
      BY <2>1, <2>6
    <3>. QED  BY <2>7, <3>1
  <2>. HIDE DEF c
  <2>9. ASSUME NEW e \in Elements(c) PROVE e \in {Conversion(o, x, r) : x \in Elements(s), r \in {p, q}}
    <3>1. PICK k \in 1..(n * 2) : e = c[k]
      BY <2>7 DEF Elements
    <3>2. PICK i \in 1..n : e \in {Conversion(o, s[i], p), Conversion(o, s[i], q)}
      BY <2>2, <2>4, <3>1
    <3>3. s[i] \in Elements(s)
      BY <1>1 DEF Elements
    <3>. QED  BY <3>2, <3>3
  <2>10. ASSUME NEW x \in Elements(s), NEW r \in {p, q} PROVE Conversion(o, x, r) \in Elements(c)
    <3>1. PICK i \in 1..n : x = s[i]
      BY <1>1 DEF Elements
    <3>2. c[2 * i - 1] \in Elements(c) /\ c[2 * i] \in Elements(c)
      BY <2>3, <2>7 DEF Elements
    <3>. QED  BY <2>5, <3>1, <3>2
  <2>. QED  BY <2>8, <2>9, <2>10
<1>5. Elements(<<>>) = {} /\ \A p, q \in Protocol : Elements(<<p>>) = {p} /\ Elements(<<p, q>>) = {p, q}
  BY DEF Elements
<1>. DEFINE T(P) == {Conversion(o, x, r) : x \in Elements(s), r \in P}
<1>. HIDE DEF c, T
<1>7. ASSUME NEW p \in Protocol, Protocols(o) = <<p>>
      PROVE  c \in Seq(Info) /\ Elements(c) = T(Elements(Protocols(o)))
  <2>1. c \in Seq(Info) /\ Elements(c) = T({p})
    BY <1>3, <1>7 DEF T
  <2>2. Elements(Protocols(o)) = {p}
    BY <1>5, <1>7
  <2>. QED  BY <2>1, <2>2
<1>8. ASSUME NEW p \in Protocol, NEW q \in Protocol, Protocols(o) = <<p, q>>
      PROVE  c \in Seq(Info) /\ Elements(c) = T(Elements(Protocols(o)))
  <2>1. c \in Seq(Info) /\ Elements(c) = T({p, q})
    BY <1>4, <1>8 DEF T
  <2>2. Elements(Protocols(o)) = {p, q}
    BY <1>5, <1>8
  <2>. QED  BY <2>1, <2>2
<1>9. CASE Protocols(o) # <<>>
  <2>1. \/ \E p \in Protocol : Protocols(o) = <<p>>
        \/ \E p \in Protocol : \E q \in Protocol : Protocols(o) = <<p, q>>
    BY <1>9, ProtocolsCases DEF Protocol
  <2>. QED  BY <1>7, <1>8, <2>1 DEF c, T
<1>. QED  BY <1>2, <1>9

\* The three clauses of normalize, one after the other: where each leaves the
\* fields that it does not set, and what the next one finds.
LEMMA WebRtcNormalized ==
  ASSUME NEW o \in WebRtcOption, NEW n, n = NormalizeWebRtc(o)
  PROVE  /\ n \in WebRtcOption
         /\ n.listen_ips = Nil /\ n.listen = Nil
         /\ n.webrtc_server = IF o.listen # Nil /\ o.listen \in Server THEN o.listen ELSE o.webrtc_server
         /\ InfosRenamed(n) = n
         /\ n.listen_infos # Nil =>
              n.listen_infos = LET l == FromListen(FromIps(o)).listen_infos IN
                               [i \in DOMAIN l |-> Renamed(l[i])]
<1>. DEFINE a == FromIps(o)
            b == FromListen(a)
<1>1. a \in WebRtcOption /\ a.listen_ips = Nil /\ a.listen = o.listen /\ a.webrtc_server = o.webrtc_server
  <2>1. CASE o.listen_ips = Nil
    BY <2>1 DEF FromIps
  <2>2. CASE o.listen_ips # Nil
    <3>1. o.listen_ips \in Seq(ListenIp)
      BY <2>2 DEF WebRtcOption
    <3>2. Converted(o) \in Seq(Info)
      BY <3>1, ConvertedHoldsAll
    <3>. QED  BY <2>2, <3>2 DEF FromIps, WebRtcOption
  <2>. QED  BY <2>1, <2>2
<1>. HIDE DEF a
<1>2. /\ b \in WebRtcOption /\ b.listen_ips = Nil /\ b.listen = Nil
      /\ b.webrtc_server = IF o.listen # Nil /\ o.listen \in Server THEN o.listen ELSE o.webrtc_server
  <2>1. CASE a.listen = Nil
    BY <1>1, <2>1 DEF FromListen
  <2>2. CASE a.listen # Nil /\ a.listen \in Server
    BY <1>1, <2>2 DEF FromListen, WebRtcOption
  <2>3. CASE a.listen # Nil /\ a.listen \notin Server
    BY <1>1, <2>3 DEF FromListen, WebRtcOption
  <2>. QED  BY <2>1, <2>2, <2>3
<1>3. n = InfosRenamed(b)
  BY DEF NormalizeWebRtc, a
<1>. HIDE DEF b
<1>4. CASE b.listen_infos = Nil
  <2>1. n = b
    BY <1>3, <1>4 DEF InfosRenamed
  <2>. QED  BY <1>2, <1>4, <2>1 DEF InfosRenamed
<1>5. CASE b.listen_infos # Nil
  <2>. DEFINE t == [i \in DOMAIN b.listen_infos |-> Renamed(b.listen_infos[i])]
  <2>1. b.listen_infos \in Seq(Info)
    BY <1>2, <1>5 DEF WebRtcOption
  <2>2. t \in Seq(Info) /\ [i \in DOMAIN t |-> Renamed(t[i])] = t
    BY <2>1, ListRenamedOnce
  <2>. HIDE DEF t
  <2>3. n = [b EXCEPT !.listen_infos = t]
    BY <1>3, <1>5 DEF InfosRenamed, t
  <2>4. n \in WebRtcOption /\ n.listen_infos = t
    BY <1>2, <2>2, <2>3 DEF WebRtcOption
  <2>5. [n EXCEPT !.listen_infos = t] = n
    BY <2>4 DEF WebRtcOption
  <2>6. InfosRenamed(n) = n
    BY <2>2, <2>4, <2>5 DEF InfosRenamed
  <2>7. t = LET l == FromListen(FromIps(o)).listen_infos IN [i \in DOMAIN l |-> Renamed(l[i])]
    BY DEF t, b, a
  <2>. QED  BY <1>2, <2>3, <2>4, <2>6, <2>7 DEF WebRtcOption
<1>. QED  BY <1>4, <1>5

\* Normalizing twice is normalizing once, for requests of every kind.
LEMMA NormalizeOnce ==
  ASSUME NEW r, r.kind \in Kind, r \in Request(r.kind)
  PROVE  Normalize(Normalize(r)) = Normalize(r)
<1>. DEFINE n == Normalize(r)
<1>0. r.o \in Option(r.kind)
  BY DEF Request
<1>1. ASSUME NEW x, n = [r EXCEPT !.o = x], Normalize(n) = [n EXCEPT !.o = x]
      PROVE  Normalize(n) = n
  BY <1>1 DEF Request
<1>. HIDE DEF n
<1>. USE DEF Request
<1>2. CASE r.kind = "webrtc"
  <2>. DEFINE m == NormalizeWebRtc(r.o)
  <2>1. r.o \in WebRtcOption
    BY <1>0, <1>2 DEF Option
  <2>2. m.listen_ips = Nil /\ m.listen = Nil /\ InfosRenamed(m) = m
    BY <2>1, WebRtcNormalized
  <2>3. NormalizeWebRtc(m) = m
    <3>1. FromIps(m) = m /\ FromListen(m) = m
      BY <2>2 DEF FromIps, FromListen
    <3>. QED  BY <2>2, <3>1 DEF NormalizeWebRtc
  <2>. HIDE DEF m
  <2>4. n = [r EXCEPT !.o = m]
    BY <1>2 DEF n, Normalize, m
  <2>5. n.kind = "webrtc" /\ n.o = m
    BY <1>2, <2>4
  <2>6. Normalize(n) = [n EXCEPT !.o = m]
    BY <2>3, <2>5 DEF Normalize
  <2>. QED  BY <1>1, <2>4, <2>6 DEF n
<1>3. CASE r.kind = "plain"
  <2>. DEFINE m == NormalizePlain(r.o)
  <2>1. r.o \in PlainOption
    BY <1>0, <1>3 DEF Option
  <2>3. NormalizePlain(m) = m
    BY <2>1 DEF NormalizePlain, PlainOption
  <2>. HIDE DEF m
  <2>4. n = [r EXCEPT !.o = m]
    BY <1>3 DEF n, Normalize, m
  <2>5. n.kind = "plain" /\ n.o = m
    BY <1>3, <2>4
  <2>6. Normalize(n) = [n EXCEPT !.o = m]
    BY <2>3, <2>5 DEF Normalize
  <2>. QED  BY <1>1, <2>4, <2>6 DEF n
<1>4. CASE r.kind = "pipe"
  <2>. DEFINE m == NormalizePipe(r.o)
  <2>1. r.o \in PipeOption
    BY <1>0, <1>4 DEF Option
  <2>3. NormalizePipe(m) = m
    BY <2>1 DEF NormalizePipe, PipeOption
  <2>. HIDE DEF m
  <2>4. n = [r EXCEPT !.o = m]
    BY <1>4 DEF n, Normalize, m
  <2>5. n.kind = "pipe" /\ n.o = m
    BY <1>4, <2>4
  <2>6. Normalize(n) = [n EXCEPT !.o = m]
    BY <2>3, <2>5 DEF Normalize
  <2>. QED  BY <1>1, <2>4, <2>6 DEF n
<1>5. CASE r.kind = "webrtc_server"
  <2>. DEFINE m == NormalizeServer(r.o)
  <2>1. r.o \in ServerOption /\ r.o.listen_infos \in Seq(Info)
    BY <1>0, <1>5 DEF Option, ServerOption
  <2>2. m.listen_infos = [i \in DOMAIN r.o.listen_infos |-> Renamed(r.o.listen_infos[i])]
    BY <2>1 DEF NormalizeServer, ServerOption
  <2>3. NormalizeServer(m) = m
    <3>1. [i \in DOMAIN m.listen_infos |-> Renamed(m.listen_infos[i])] = m.listen_infos
      BY <2>1, <2>2, ListRenamedOnce
    <3>. QED  BY <2>1, <3>1 DEF NormalizeServer, ServerOption
  <2>. HIDE DEF m
  <2>4. n = [r EXCEPT !.o = m]
    BY <1>5 DEF n, Normalize, m
  <2>5. n.kind = "webrtc_server" /\ n.o = m
    BY <1>5, <2>4
  <2>6. Normalize(n) = [n EXCEPT !.o = m]
    BY <2>3, <2>5 DEF Normalize
  <2>. QED  BY <1>1, <2>4, <2>6 DEF n
<1>6. CASE r.kind \notin {"webrtc", "plain", "pipe", "webrtc_server"}
  <2>1. n = [r EXCEPT !.o = r.o] /\ n.kind = r.kind /\ n.o = r.o
    BY <1>6 DEF n, Normalize
  <2>2. Normalize(n) = [n EXCEPT !.o = r.o]
    BY <1>6, <2>1 DEF Normalize
  <2>. QED  BY <1>1, <2>1, <2>2 DEF n
<1>. QED  BY <1>2, <1>3, <1>4, <1>5, <1>6

\* However long the lists are, options that were normalized stay as they are.
THEOREM NormalizingIsIdempotent == Spec => []NormalizedForGood
<1>1. PassedOn => NormalizedForGood
  <2>. SUFFICES ASSUME PassedOn, stage # "given" PROVE Normalize(request) = request
    BY DEF NormalizedForGood
  <2>1. request = Normalize(FromMap(asked)) /\ asked \in Asking
    BY DEF PassedOn
  <2>. QED  BY <2>1, FromMapKeepsType, NormalizeOnce
<1>. QED  BY <1>1, PassedOnAlways, PTL

\* A request that is passed on has the kind, the plain options and the ill-formed
\* values of the one that was made.
LEMMA NormalizeKeepsRest ==
  ASSUME NEW r, r.kind \in Kind, r \in Request(r.kind)
  PROVE  LET n == Normalize(FromMap(r)) IN n.kind = r.kind /\ n.given = r.given /\ n.bad = r.bad
BY DEF Normalize, FromMap, Request

\* Whatever is given, of every kind of object, reaches the library unless the
\* NIF has no field for it or a Worker lacks the other half of its certificate;
\* nothing else does, and half a certificate never.
THEOREM OptionsReachTheLibrary == Spec => []GivenOptionsArrive
<1>1. PassedOn => GivenOptionsArrive
  <2>. SUFFICES ASSUME PassedOn, stage = "answered"
       PROVE  /\ native.answer = "ok" =>
                   /\ asked.given \ Dropped(asked) \subseteq native.arrived
                   /\ native.arrived \subseteq asked.given
                   /\ native.arrived \cap Certificate \in {{}, Certificate}
              /\ asked.bad \ Dropped(asked) # {} => native.answer = "raised"
    BY DEF GivenOptionsArrive
  <2>1. /\ asked.kind \in Kind /\ asked.bad \subseteq asked.given
        /\ asked.given \subseteq Documented[asked.kind]
    BY AskingAssumption DEF PassedOn, Request
  <2>2. /\ native = TryToOption(request) /\ request.kind = asked.kind
        /\ request.given = asked.given /\ request.bad = asked.bad
    BY NormalizeKeepsRest, AskingAssumption DEF PassedOn
  <2>3. Arrived(request) = asked.given \ Dropped(asked)
    <3>1. CASE asked.kind = "data_producer"
      BY <2>1, <2>2, <3>1 DEF Arrived, Dropped, Read, Documented, Kind, Certificate
    <3>2. CASE asked.kind = "data_consumer"
      BY <2>1, <2>2, <3>2 DEF Arrived, Dropped, Read, Documented, Kind, Certificate
    <3>3. CASE asked.kind = "worker"
      BY <2>1, <2>2, <3>3 DEF Arrived, Dropped, Read
    <3>4. CASE asked.kind \notin {"data_producer", "data_consumer", "worker"}
      <4>1. Certificate \cap Documented[asked.kind] = {}
        BY <2>1, <3>4 DEF Documented, Kind, Certificate, Sctp
      <4>2. Dropped(asked) = {}
        BY <3>4 DEF Dropped
      <4>3. Read[asked.kind] = Documented[asked.kind]
        BY <2>1, <3>4 DEF Read
      <4>. QED  BY <2>1, <2>2, <4>1, <4>2, <4>3 DEF Arrived, Certificate
    <3>. QED  BY <3>1, <3>2, <3>3, <3>4
  <2>4. asked.bad \ Dropped(asked) \subseteq Read[asked.kind]
    BY <2>1 DEF Dropped, Read, Documented, Kind, Certificate
  <2>5. native.answer = "ok" => native.arrived = Arrived(request)
    BY <2>2, <2>1 DEF TryToOption, Accept, Refuse, NoNative
  <2>6. asked.bad \ Dropped(asked) # {} => native.answer = "raised"
    BY <2>2, <2>4 DEF TryToOption, Refuse, NoNative
  <2>7. Arrived(request) \cap Certificate \in {{}, Certificate}
    <3>. DEFINE some == request.given \cap Read[request.kind]
    <3>1. CASE Certificate \subseteq some
      BY <3>1 DEF Arrived
    <3>2. CASE ~(Certificate \subseteq some)
      <4>1. Arrived(request) = some \ Certificate
        BY <3>2 DEF Arrived
      <4>. QED  BY <4>1
    <3>. QED  BY <3>1, <3>2
  <2>. QED  BY <2>3, <2>5, <2>6, <2>7
<1>. QED  BY <1>1, PassedOnAlways, PTL

\* What the NIF gets of a request for a PlainTransport, a PipeTransport or a server.
LEMMA PlainPassedOn ==
  ASSUME PassedOn, stage = "answered", NEW k \in {"plain", "pipe", "webrtc_server"}, asked.kind = k
  PROVE  /\ asked.o \in Option(k) /\ native = TryToOption(request)
         /\ request.kind = k /\ request.bad = asked.bad
         /\ request.o = CASE k = "plain" -> NormalizePlain(asked.o)
                          [] k = "pipe"  -> NormalizePipe(asked.o)
                          [] OTHER       -> NormalizeServer(asked.o)
<1>1. asked \in Request(k) /\ asked.o \in Option(k)
  BY AskingAssumption DEF PassedOn, Request
<1>. QED  BY <1>1 DEF PassedOn, Normalize, FromMap, Request

\* A listen info that is made of an ip is the place that was asked for.
LEMMA CreatedPlace ==
  ASSUME NEW ip \in ListenIp, NEW port
  PROVE  ListenInfo(CreateInfo(ip, port)) = Place(ip, "udp", port)
BY DEF ListenInfo, CreateInfo, Renamed, Place, Announced, ListenIp

\* So is one whose older name of the address is renamed.
LEMMA RenamedPlace ==
  ASSUME NEW x \in Info
  PROVE  ListenInfo(Renamed(x)) = Place(x, x.protocol, x.port)
BY DEF ListenInfo, Renamed, Place, Announced, Info

\* A PlainTransport is asked for the listen info it was given, or else for the ip and
\* port, and the fixed port is RTP's alone.
LEMMA PlainPlaces == PassedOn => PlainListensAsAsked
<1>. SUFFICES ASSUME PassedOn, stage = "answered", asked.kind = "plain", native.answer # "raised"
     PROVE  PlainListensAsAsked
  BY DEF PlainListensAsAsked, Answered
<1>. DEFINE o == asked.o
            n == request.o
<1>1. o \in PlainOption /\ native = TryToOption(request) /\ request.kind = "plain" /\ n = NormalizePlain(o)
  BY PlainPassedOn DEF Option
<1>2. /\ native.answer = "ok" /\ native.infos = <<ListenInfo(n.listen_info)>>
      /\ native.rtcp = IF n.rtcp_listen_info = Nil THEN Nil ELSE ListenInfo(n.rtcp_listen_info)
  <2>1. \A x : [i \in DOMAIN <<x>> |-> ListenInfo(<<x>>[i])] = <<ListenInfo(x)>>
    OBVIOUS
  <2>2. native = Accept(request, Nil, <<n.listen_info>>,
                        IF n.rtcp_listen_info = Nil THEN Nil ELSE ListenInfo(n.rtcp_listen_info))
    BY <1>1 DEF TryToOption, Refuse, NoNative
  <2>. QED  BY <2>1, <2>2 DEF Accept
<1>3. CASE o.listen_ip = Nil
  <2>1. n = o
    BY <1>1, <1>3 DEF NormalizePlain
  <2>2. o.listen_info # Nil
    BY <1>1, <2>1 DEF TryToOption, Refuse, NoNative
  <2>. QED  BY <1>2, <1>3, <2>1, <2>2 DEF PlainListensAsAsked
<1>4. CASE o.listen_ip # Nil
  <2>1. /\ n.listen_info = IF o.listen_info = Nil THEN CreateInfo(o.listen_ip, o.port) ELSE o.listen_info
        /\ n.rtcp_listen_info = IF o.rtcp_listen_info = Nil THEN CreateInfo(o.listen_ip, Nil)
                                ELSE o.rtcp_listen_info
    BY <1>1, <1>4 DEF NormalizePlain, PlainOption
  <2>2. o.listen_ip \in ListenIp
    BY <1>1, <1>4 DEF PlainOption
  <2>3. CreateInfo(o.listen_ip, Nil) \in Info
    BY <2>2 DEF CreateInfo, Renamed, ListenIp, Info, Protocol
  <2>4. n.rtcp_listen_info # Nil
    BY <2>1, <2>3, OptionsAssumption
  <2>. QED  BY <1>2, <1>4, <2>1, <2>2, <2>4, CreatedPlace DEF PlainListensAsAsked
<1>. QED  BY <1>3, <1>4

\* A PipeTransport is asked for the ip it was given, or else for the listen info.
LEMMA PipePlaces == PassedOn => PipeListensAsAsked
<1>. SUFFICES ASSUME PassedOn, stage = "answered", asked.kind = "pipe", native.answer # "raised"
     PROVE  PipeListensAsAsked
  BY DEF PipeListensAsAsked, Answered
<1>. DEFINE o == asked.o
            n == request.o
<1>1. o \in PipeOption /\ native = TryToOption(request) /\ request.kind = "pipe" /\ n = NormalizePipe(o)
  BY PlainPassedOn DEF Option
<1>2. native.answer = "ok" /\ native.infos = <<ListenInfo(n.listen_info)>>
  <2>1. \A x : [i \in DOMAIN <<x>> |-> ListenInfo(<<x>>[i])] = <<ListenInfo(x)>>
    OBVIOUS
  <2>2. native = Accept(request, Nil, <<n.listen_info>>, Nil)
    BY <1>1 DEF TryToOption, Refuse, NoNative
  <2>. QED  BY <2>1, <2>2 DEF Accept
<1>3. CASE o.listen_ip = Nil
  <2>1. n = o
    BY <1>1, <1>3 DEF NormalizePipe
  <2>. QED  BY <1>2, <1>3, <2>1 DEF PipeListensAsAsked
<1>4. CASE o.listen_ip # Nil
  <2>1. n.listen_info = CreateInfo(o.listen_ip, o.port) /\ o.listen_ip \in ListenIp
    BY <1>1, <1>4 DEF NormalizePipe, PipeOption
  <2>. QED  BY <1>2, <1>4, <2>1, CreatedPlace DEF PipeListensAsAsked
<1>. QED  BY <1>3, <1>4

\* A server is asked for its listen infos, in their order.
LEMMA ServerPlaces == PassedOn => ServerListensAsAsked
<1>. SUFFICES ASSUME PassedOn, stage = "answered", asked.kind = "webrtc_server", native.answer # "raised"
     PROVE  ServerListensAsAsked
  BY DEF ServerListensAsAsked, Answered
<1>. DEFINE infos == asked.o.listen_infos
            n == request.o
<1>1. /\ asked.o \in ServerOption /\ native = TryToOption(request) /\ request.kind = "webrtc_server"
      /\ n = NormalizeServer(asked.o)
  BY PlainPassedOn DEF Option
<1>2. infos \in Seq(Info) /\ n.listen_infos = [i \in DOMAIN infos |-> Renamed(infos[i])]
  BY <1>1 DEF NormalizeServer, ServerOption
<1>3. n.listen_infos = <<>> <=> infos = <<>>
  BY <1>2
<1>4. native = IF n.listen_infos = <<>> THEN Refuse("error")
               ELSE Accept(request, Nil, n.listen_infos, Nil)
  BY <1>1 DEF TryToOption, Refuse, NoNative
<1>5. \A i \in DOMAIN infos : ListenInfo(Renamed(infos[i])) = Place(infos[i], infos[i].protocol, infos[i].port)
  BY <1>2, RenamedPlace
<1>6. CASE infos = <<>>
  BY <1>3, <1>4, <1>6 DEF ServerListensAsAsked, Refuse, NoNative
<1>7. CASE infos # <<>>
  <2>1. /\ native.answer = "ok"
        /\ native.infos = [i \in DOMAIN n.listen_infos |-> ListenInfo(n.listen_infos[i])]
    BY <1>3, <1>4, <1>7 DEF Accept
  <2>2. native.infos = [i \in DOMAIN infos |-> Place(infos[i], infos[i].protocol, infos[i].port)]
    BY <1>2, <1>5, <2>1
  <2>. QED  BY <1>7, <2>1, <2>2 DEF ServerListensAsAsked
<1>. QED  BY <1>6, <1>7

\* Nothing but a missing place makes the NIF raise when every value decodes.
LEMMA PlacesAreEnough == PassedOn => PlacesDecode
<1>. SUFFICES ASSUME PassedOn, stage = "answered", NEW k \in {"plain", "pipe"}, asked.kind = k,
                     asked.bad = {}
     PROVE  native.answer = "raised" <=> asked.o.listen_ip = Nil /\ asked.o.listen_info = Nil
  BY DEF PlacesDecode
<1>. DEFINE o == asked.o
            n == request.o
<1>1. /\ o \in Option(k) /\ native = TryToOption(request) /\ request.kind = k /\ request.bad = {}
      /\ n = IF k = "plain" THEN NormalizePlain(o) ELSE NormalizePipe(o)
  BY PlainPassedOn
<1>2. native.answer = "raised" <=> n.listen_info = Nil
  BY <1>1 DEF TryToOption, Accept, Refuse, NoNative
<1>3. CASE o.listen_ip = Nil
  BY <1>1, <1>2, <1>3 DEF NormalizePlain, NormalizePipe
<1>4. CASE o.listen_ip # Nil
  <2>1. o.listen_ip \in ListenIp /\ o.port \in {Nil} \cup Port
    BY <1>1, <1>4 DEF Option, PlainOption, PipeOption
  <2>2. CreateInfo(o.listen_ip, o.port) \in Info
    BY <2>1 DEF CreateInfo, Renamed, ListenIp, Info, Protocol
  <2>3. n.listen_info \in {o.listen_info, CreateInfo(o.listen_ip, o.port)} \ {Nil}
    <3>1. CASE k = "plain"
      BY <1>1, <1>4, <2>2, <3>1, OptionsAssumption DEF Option, NormalizePlain, PlainOption
    <3>2. CASE k = "pipe"
      BY <1>1, <1>4, <2>2, <3>2, OptionsAssumption DEF Option, NormalizePipe, PipeOption
    <3>. QED  BY <3>1, <3>2
  <2>. QED  BY <1>2, <1>4, <2>3
<1>. QED  BY <1>3, <1>4

\* Where the normalized options of a WebRtcTransport listen is where the caller
\* asked to.
LEMMA WebRtcPlaces ==
  ASSUME NEW o \in WebRtcOption, ~Undecided(o), o.listen \notin Server,
         NEW n, n = NormalizeWebRtc(o)
  PROVE  IF n.listen_infos = Nil THEN Places(o, o.port) = {}
         ELSE {ListenInfo(x) : x \in Elements(n.listen_infos)} = Places(o, o.port)
<1>. DEFINE l == FromListen(FromIps(o)).listen_infos
            G(infos) == {Place(x, x.protocol, x.port) : x \in Elements(infos)}
<1>1. n.listen_infos = IF l = Nil THEN Nil ELSE [i \in DOMAIN l |-> Renamed(l[i])]
  BY WebRtcNormalized DEF NormalizeWebRtc, InfosRenamed
<1>2. ASSUME l \in Seq(Info)
      PROVE  n.listen_infos # Nil /\ {ListenInfo(x) : x \in Elements(n.listen_infos)} = G(l)
  <2>1. n.listen_infos = [i \in DOMAIN l |-> Renamed(l[i])] /\ n.listen_infos \in Seq(Info)
    BY <1>1, <1>2, OptionsAssumption, ListRenamedOnce
  <2>2. \A i \in DOMAIN l : l[i] \in Info
    BY <1>2
  <2>3. \A i \in DOMAIN l : ListenInfo(Renamed(l[i])) = Place(l[i], l[i].protocol, l[i].port)
    BY <2>2 DEF ListenInfo, Renamed, Place, Announced, Info
  <2>. QED  BY <2>1, <2>3, OptionsAssumption DEF Elements
<1>. HIDE DEF G
<1>3. CASE o.listen # Nil
  <2>1. o.listen \in Seq(Info)
    BY <1>3 DEF WebRtcOption
  <2>2. FromIps(o).listen = o.listen /\ l = o.listen
    BY <1>3 DEF FromIps, FromListen, WebRtcOption
  <2>3. Places(o, o.port) = G(o.listen)
    BY <1>3 DEF Places, G
  <2>. QED  BY <1>2, <2>1, <2>2, <2>3
<1>4. CASE o.listen = Nil /\ o.listen_ips # Nil
  <2>1. o.listen_ips \in Seq(ListenIp)
    BY <1>4 DEF WebRtcOption
  <2>2. l = Converted(o) /\ l \in Seq(Info)
    <3>1. FromIps(o).listen = Nil /\ FromIps(o).listen_infos = Converted(o)
      BY <1>4 DEF FromIps, WebRtcOption
    <3>. QED  BY <2>1, <3>1, ConvertedHoldsAll DEF FromListen
  <2>3. Elements(l) = {Conversion(o, x, p) : x \in Elements(o.listen_ips), p \in Elements(Protocols(o))}
    BY <2>1, <2>2, ConvertedHoldsAll
  <2>4. Elements(Protocols(o)) = Enabled(o)
    BY DEF Elements, Protocols, Enabled, Undecided, WebRtcOption
  <2>5. \A x \in Elements(o.listen_ips) : x \in ListenIp
    BY <2>1 DEF Elements
  <2>6. \A x \in Elements(o.listen_ips) : \A p \in Enabled(o) :
          LET c == Conversion(o, x, p) IN Place(c, c.protocol, c.port) = Place(x, p, o.port)
    BY <2>5 DEF Conversion, Place, Announced, Renamed, ListenIp
  <2>7. G(l) = {Place(x, p, o.port) : x \in Elements(o.listen_ips), p \in Enabled(o)}
    BY <2>3, <2>4, <2>6 DEF G
  <2>8. Places(o, o.port) = {Place(x, p, o.port) : x \in Elements(o.listen_ips), p \in Enabled(o)}
    BY <1>4 DEF Places
  <2>9. Places(o, o.port) = G(l)
    BY <2>7, <2>8
  <2>. HIDE DEF l
  <2>. QED  BY <1>2, <2>2, <2>9
<1>5. CASE o.listen = Nil /\ o.listen_ips = Nil
  <2>1. l = o.listen_infos
    BY <1>5 DEF FromIps, FromListen
  <2>2. Places(o, o.port) = IF l = Nil THEN {} ELSE G(l)
    BY <1>5, <2>1 DEF Places, G
  <2>3. l = Nil \/ l \in Seq(Info)
    BY <2>1 DEF WebRtcOption
  <2>. QED  BY <1>1, <1>2, <2>2, <2>3
<1>. QED  BY <1>3, <1>4, <1>5

\* However the old and the new fields are combined and however long the lists
\* are, a WebRtcTransport listens where it was asked to.
THEOREM WebRtcTransportsListenAsAsked == Spec => []WebRtcListensAsAsked
<1>1. PassedOn => WebRtcListensAsAsked
  <2>. SUFFICES ASSUME PassedOn, Answered("webrtc"), ~Undecided(asked.o)
       PROVE  LET server == AskedServer(asked.o)
                  places == Places(asked.o, IF asked.map THEN Nil ELSE asked.o.port) IN
              IF server # Nil
              THEN IF server \in Disposed THEN native.answer = "error"
                   ELSE native.answer = "ok" /\ native.server = server
              ELSE IF places = {} THEN native.answer = "error"
                   ELSE native.answer = "ok" /\ Elements(native.infos) = places
    BY DEF WebRtcListensAsAsked
  <2>. DEFINE o == FromMap(asked).o
              n == NormalizeWebRtc(o)
  <2>1. asked \in Request("webrtc") /\ asked.kind = "webrtc" /\ asked.o \in WebRtcOption
    BY AskingAssumption DEF PassedOn, Answered, Request, Option
  <2>2. o = IF asked.map THEN [asked.o EXCEPT !.port = Nil] ELSE asked.o
    BY <2>1 DEF FromMap, Request
  <2>3. /\ o \in WebRtcOption /\ o.listen = asked.o.listen /\ o.listen_ips = asked.o.listen_ips
        /\ o.listen_infos = asked.o.listen_infos /\ o.webrtc_server = asked.o.webrtc_server
        /\ o.port = (IF asked.map THEN Nil ELSE asked.o.port)
        /\ o.enable_udp = asked.o.enable_udp /\ o.enable_tcp = asked.o.enable_tcp
        /\ o.prefer_udp = asked.o.prefer_udp /\ o.prefer_tcp = asked.o.prefer_tcp
    BY <2>1, <2>2 DEF WebRtcOption
  <2>. HIDE DEF o
  <2>4. /\ ~Undecided(o) /\ AskedServer(asked.o) = AskedServer(o)
        /\ Places(asked.o, o.port) = Places(o, o.port)
    BY <2>3 DEF Undecided, AskedServer, Places, Enabled
  <2>5. request.o = n /\ request.kind = "webrtc"
    <3>1. FromMap(asked) \in Request("webrtc") /\ FromMap(asked).kind = "webrtc"
      BY <2>1, FromMapKeepsType DEF PassedOn
    <3>. QED  BY <3>1 DEF PassedOn, Answered, Normalize, Request, o
  <2>6. /\ n \in WebRtcOption
        /\ n.webrtc_server = IF o.listen # Nil /\ o.listen \in Server THEN o.listen ELSE o.webrtc_server
    BY <2>3, WebRtcNormalized
  <2>. HIDE DEF n
  <2>7. n.webrtc_server = AskedServer(o)
    BY <2>6, OptionsAssumption DEF AskedServer
  <2>8. native = TryToOption(request) /\ request.bad \cap Read[request.kind] = {}
    BY DEF PassedOn, Answered, TryToOption, Refuse, NoNative
  <2>9. CASE AskedServer(o) # Nil
    BY <2>4, <2>5, <2>7, <2>8, <2>9 DEF TryToOption, Accept, Refuse, NoNative
  <2>10. CASE AskedServer(o) = Nil
    <3>1. o.listen \notin Server
      BY <2>10, OptionsAssumption DEF AskedServer
    <3>2. IF n.listen_infos = Nil THEN Places(o, o.port) = {}
          ELSE {ListenInfo(x) : x \in Elements(n.listen_infos)} = Places(o, o.port)
      BY <2>3, <2>4, <3>1, WebRtcPlaces DEF n
    <3>3. CASE n.listen_infos \in {Nil, <<>>}
      <4>1. native.answer = "error"
        BY <2>5, <2>7, <2>8, <2>10, <3>3 DEF TryToOption, Refuse, NoNative
      <4>2. Elements(<<>>) = {}
        BY DEF Elements
      <4>3. Places(o, o.port) = {}
        BY <3>2, <3>3, <4>2
      <4>. QED  BY <2>3, <2>4, <2>10, <4>1, <4>3
    <3>4. CASE n.listen_infos \notin {Nil, <<>>}
      <4>1. n.listen_infos \in Seq(Info) /\ n.listen_infos # <<>>
        BY <2>6, <3>4 DEF WebRtcOption
      <4>2. native.answer = "ok"
            /\ native.infos = [i \in DOMAIN n.listen_infos |-> ListenInfo(n.listen_infos[i])]
        BY <2>5, <2>7, <2>8, <2>10, <3>4 DEF TryToOption, Accept
      <4>3. Elements(native.infos) = {ListenInfo(x) : x \in Elements(n.listen_infos)}
        BY <4>2 DEF Elements
      <4>4. Elements(n.listen_infos) # {}
        <5>1. 1 \in DOMAIN n.listen_infos
          BY <4>1
        <5>. QED  BY <5>1 DEF Elements
      <4>. QED  BY <2>3, <2>4, <2>10, <3>2, <3>4, <4>2, <4>3, <4>4
    <3>. QED  BY <3>3, <3>4
  <2>. QED  BY <2>9, <2>10
<1>. QED  BY <1>1, PassedOnAlways, PTL

\* Together: whatever the options and however long the lists, the transports and the
\* servers listen where they were asked to, and RTCP without a place of its own is on
\* the ip of listen_ip and on no fixed port.
THEOREM TransportsListenAsAsked == Spec => []ListensAsAsked
<1>1. WebRtcListensAsAsked /\ PassedOn => ListensAsAsked
  BY PlainPlaces, PipePlaces, ServerPlaces, PlacesAreEnough DEF ListensAsAsked
<1>. QED  BY <1>1, WebRtcTransportsListenAsAsked, PassedOnAlways, PTL

\* On any number of ips, the first candidate of a transport that is offered for
\* both protocols is one for the protocol that is preferred.
THEOREM PreferredIsFirst == Spec => []PreferredComesFirst
<1>1. PassedOn => PreferredComesFirst
  <2>. SUFFICES ASSUME PassedOn, Answered("webrtc"), native.infos # <<>>, asked.o.listen_ips # Nil,
                       asked.o.listen = Nil, Enabled(asked.o) = {"udp", "tcp"},
                       asked.o.prefer_udp \/ asked.o.prefer_tcp
       PROVE  native.infos[1].protocol = IF asked.o.prefer_udp THEN "udp" ELSE "tcp"
    BY DEF PreferredComesFirst
  <2>. DEFINE o == FromMap(asked).o
              n == NormalizeWebRtc(o)
              c == Converted(o)
  <2>1. asked \in Request("webrtc") /\ asked.kind = "webrtc" /\ asked.o \in WebRtcOption
    BY AskingAssumption DEF PassedOn, Answered, Request, Option
  <2>2. o = IF asked.map THEN [asked.o EXCEPT !.port = Nil] ELSE asked.o
    BY <2>1 DEF FromMap, Request
  <2>3. /\ o \in WebRtcOption /\ o.listen = Nil /\ o.listen_ips # Nil
        /\ o.prefer_udp = asked.o.prefer_udp /\ Enabled(o) = {"udp", "tcp"}
    <3>1. /\ o \in WebRtcOption /\ o.listen = Nil /\ o.listen_ips # Nil
          /\ o.prefer_udp = asked.o.prefer_udp
          /\ o.enable_udp = asked.o.enable_udp /\ o.enable_tcp = asked.o.enable_tcp
      BY <2>1, <2>2 DEF WebRtcOption
    <3>2. Enabled(o) = Enabled(asked.o)
      BY <3>1, Zenon DEF Enabled
    <3>. QED  BY <3>1, <3>2
  <2>. HIDE DEF o
  <2>4. request.o = n /\ request.kind = "webrtc"
    <3>1. FromMap(asked) \in Request("webrtc") /\ FromMap(asked).kind = "webrtc"
      BY <2>1, FromMapKeepsType DEF PassedOn
    <3>. QED  BY <3>1 DEF PassedOn, Answered, Normalize, Request, o
  <2>5. /\ o.enable_udp = TRUE /\ o.enable_tcp = TRUE
        /\ Len(Protocols(o)) \in Nat \ {0}
        /\ Protocols(o)[1] = IF o.prefer_udp THEN "udp" ELSE "tcp"
    <3>1. "udp" \in Enabled(o) /\ "tcp" \in Enabled(o)
      BY <2>3
    <3>2. o.enable_udp = TRUE /\ o.enable_tcp = TRUE
      BY <3>1 DEF Enabled
    <3>. QED  BY <3>2, <2>3 DEF Protocols
  <2>6. c \in Seq(Info) /\ FromListen(FromIps(o)).listen_infos = c
    <3>1. FromIps(o).listen = Nil /\ FromIps(o).listen_infos = c
      BY <2>3 DEF FromIps, WebRtcOption
    <3>2. o.listen_ips \in Seq(ListenIp)
      BY <2>3 DEF WebRtcOption
    <3>. QED  BY <2>3, <3>1, <3>2, ConvertedHoldsAll DEF FromListen
  <2>7. n.listen_infos = [i \in DOMAIN c |-> Renamed(c[i])]
    BY <2>3, <2>6, OptionsAssumption, WebRtcNormalized DEF NormalizeWebRtc, InfosRenamed
  <2>8. native = TryToOption(request) /\ request.bad \cap Read[request.kind] = {}
    BY DEF PassedOn, Answered, TryToOption, Refuse, NoNative
  <2>9. native.infos = [i \in DOMAIN n.listen_infos |-> ListenInfo(n.listen_infos[i])]
    BY <2>4, <2>8 DEF TryToOption, Accept, Refuse, NoNative
  <2>10. 1 \in DOMAIN c /\ native.infos[1] = ListenInfo(Renamed(c[1]))
    <3>1. DOMAIN native.infos = DOMAIN c
      BY <2>7, <2>9
    <3>2. c # <<>>
      BY <3>1, <2>9, <2>7
    <3>. QED  BY <2>6, <2>7, <2>9, <3>2
  <2>11. c[1].protocol = Protocols(o)[1]
    <3>1. 1 \in 1..(Len(o.listen_ips) * Len(Protocols(o)))
      BY <2>10 DEF Converted
    <3>2. ((1 - 1) % Len(Protocols(o))) + 1 = 1
      BY <2>5
    <3>. QED  BY <3>1, <3>2 DEF Converted
  <2>12. Renamed(c[1]).protocol = c[1].protocol
    BY <2>6, <2>10 DEF Renamed, Info
  <2>. QED  BY <2>3, <2>5, <2>10, <2>11, <2>12 DEF ListenInfo
<1>. QED  BY <1>1, PassedOnAlways, PTL
=============================================================================
