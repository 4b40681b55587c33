--------------------------- MODULE MCCreateOptions ---------------------------
(***************************************************************************)
(* The requests of the run: every combination of the fields that say where *)
(* to listen, over short lists of places on two ips, and for each kind     *)
(* every set of the other options, with at most one of them ill-formed.    *)
(***************************************************************************)
EXTENDS CreateOptions

CONSTANTS i1, i2, a1, p1, live, gone

Ips == {i1, i2}
AnAddress == {a1}
APort == {p1}
Servers == {live, gone}
Gone == {gone}

Plainly(S) == {x \in S : x.announcedIp = "absent" /\ x.announcedAddress = Nil}

Lists(S, n) == UNION {[1..k -> S] : k \in 0..n}

WebRtcOptions ==
  [listen_ips : {Nil} \cup {s \in Lists({x \in ListenIp : x.announcedAddress = Nil}, 2) :
                             Len(s) = 2 => s[1].ip # s[2].ip},
   listen_infos : {Nil} \cup Lists({x \in Plainly(Info) : x.port = Nil}, 1),
   listen : {Nil} \cup Server \cup Lists({x \in Info : x.port # Nil /\ x.announcedIp # Nil}, 1),
   webrtc_server : {Nil} \cup Server, port : {Nil} \cup Port,
   enable_udp : BOOLEAN, enable_tcp : {TRUE, FALSE}, prefer_udp : BOOLEAN, prefer_tcp : BOOLEAN]

PlainOptions ==
  [listen_ip : {Nil} \cup ListenIp, listen_info : {Nil} \cup Plainly(Info),
   rtcp_listen_info : {Nil} \cup Plainly(Info), port : {Nil} \cup Port]

ServerOptions == [listen_infos : Lists(Info, 2)]

Of(k, O, G, B) ==
  {r \in [kind : {k}, map : BOOLEAN, o : O, given : G, bad : B] :
     r.map => k \notin {"pipe", "webrtc_server"}}

Listening ==
  Of("webrtc", WebRtcOptions, {{}}, {{}}) \cup Of("plain", PlainOptions, {{}}, {{}})
    \cup Of("pipe", PipeOption, {{}}, {{}}) \cup Of("webrtc_server", ServerOptions, {{}}, {{}})

\* One place to listen at, for the requests that vary the other options.
APlace ==
  LET info == [ip |-> i1, protocol |-> "udp", port |-> p1,
               announcedIp |-> "absent", announcedAddress |-> Nil] IN
  [k \in Kind |->
     CASE k = "webrtc" ->
            [listen_ips |-> Nil, listen_infos |-> <<info>>, listen |-> Nil, webrtc_server |-> Nil,
             port |-> Nil, enable_udp |-> TRUE, enable_tcp |-> Nil, prefer_udp |-> FALSE,
             prefer_tcp |-> FALSE]
       [] k = "plain" ->
            [listen_ip |-> Nil, listen_info |-> info, rtcp_listen_info |-> Nil, port |-> Nil]
       [] k = "pipe" -> [listen_ip |-> Nil, listen_info |-> info, port |-> Nil]
       [] k = "webrtc_server" -> [listen_infos |-> <<info>>]
       [] OTHER -> Nil]

Giving ==
  UNION {{r \in Of(k, {APlace[k]}, SUBSET Documented[k], {{}} \cup {{f} : f \in Documented[k]}) :
            r.bad \subseteq r.given} : k \in Kind}

Requests == Listening \cup Giving
=============================================================================
