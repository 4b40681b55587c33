---------------------------- MODULE CreateOptions ----------------------------
(***************************************************************************)
(* What the options of a create call become on their way to the native     *)
(* library.  The caller normalizes the transports' options, which folds    *)
(* deprecated fields into the newer ones; the NIF decodes the structure    *)
(* and overrides with each value that was given the library's default.     *)
(*                                                                         *)
(* A request either varies where the new object shall listen or varies     *)
(* which of the plain options are given, and each is answered once.  The   *)
(* plain options are abstracted to their names.  A missing key is one      *)
(* whose value is nil, but for announcedIp, whose presence is matched on.  *)
(***************************************************************************)
EXTENDS Integers, Sequences

CONSTANTS
  Ip, Address, Port,  \* ips, announced addresses and ports
  Server, Disposed,   \* WebRtcServers, and those whose native object is gone
  Nil,                \* nil
  Asking              \* the requests that are made

Protocol == {"udp", "tcp"}

\* TransportListenIp; a string stands for the map of the ip alone.
ListenIp ==
  [ip : Ip, announcedIp : {"absent", Nil} \cup Address, announcedAddress : {Nil} \cup Address]

\* TransportListenInfo
Info ==
  [ip : Ip, protocol : Protocol, port : {Nil} \cup Port,
   announcedIp : {"absent", Nil} \cup Address, announcedAddress : {Nil} \cup Address]

ASSUME OptionsAssumption ==
  /\ Disposed \subseteq Server
  /\ Nil \notin Ip \cup Address \cup Port \cup Server
  /\ Nil \notin Info /\ Nil \notin Seq(Info)

\* The fields of the Options structures that say where to listen.
WebRtcOption ==
  [listen_ips : {Nil} \cup Seq(ListenIp), listen_infos : {Nil} \cup Seq(Info),
   listen : {Nil} \cup Server \cup Seq(Info), webrtc_server : {Nil} \cup Server,
   port : {Nil} \cup Port, enable_udp : BOOLEAN, enable_tcp : {Nil} \cup BOOLEAN,
   prefer_udp : BOOLEAN, prefer_tcp : BOOLEAN]

PlainOption ==
  [listen_ip : {Nil} \cup ListenIp, listen_info : {Nil} \cup Info,
   rtcp_listen_info : {Nil} \cup Info, port : {Nil} \cup Port]

PipeOption ==
  [listen_ip : {Nil} \cup ListenIp, listen_info : {Nil} \cup Info, port : {Nil} \cup Port]

ServerOption == [listen_infos : Seq(Info)]

Sctp == {"enable_sctp", "num_sctp_streams", "max_sctp_message_size", "sctp_send_buffer_size"}

Kind == {"webrtc", "plain", "pipe", "webrtc_server", "producer", "consumer",
         "data_producer", "data_consumer", "router", "worker"}

\* The fields of the Elixir structures, as their types document them.
Documented ==
  [k \in Kind |->
     CASE k = "webrtc" -> Sctp \cup {"enable_udp", "enable_tcp", "prefer_udp", "prefer_tcp",
                                     "initial_available_outgoing_bitrate"}
       [] k = "plain" -> Sctp \cup {"rtcp_mux", "comedia", "enable_srtp"}
       [] k = "pipe" -> Sctp \cup {"enable_rtx", "enable_srtp"}
       [] k = "webrtc_server" -> {}
       [] k = "producer" -> {"id", "paused", "key_frame_request_delay"}
       [] k = "consumer" -> {"paused", "preferred_layers", "enable_rtx", "ignore_dtx", "pipe", "mid"}
       [] k = "data_producer" -> {"label", "protocol", "sctp_stream_parameters"}
       [] k = "data_consumer" -> {"ordered", "max_packet_life_time", "max_retransmits"}
       [] k = "router" -> {"media_codecs"}
       [] k = "worker" -> {"log_level", "log_tags", "rtc_min_port", "rtc_max_port",
                           "dtls_certificate_file", "dtls_private_key_file"}]

Option(k) ==
  CASE k = "webrtc"        -> WebRtcOption
    [] k = "plain"         -> PlainOption
    [] k = "pipe"          -> PipeOption
    [] k = "webrtc_server" -> ServerOption
    [] OTHER               -> {Nil}

\* A request for a new object of a kind: a map or a structure, its fields that say
\* where to listen, the other options that are given, and which of these have an
\* ill-formed value.
Request(k) ==
  [kind : {k}, map : IF k \in {"pipe", "webrtc_server"} THEN {FALSE} ELSE BOOLEAN,
   o : Option(k), given : SUBSET Documented[k], bad : SUBSET Documented[k]]

ASSUME AskingAssumption ==
  \A r \in Asking : r.kind \in Kind /\ r \in Request(r.kind) /\ r.bad \subseteq r.given

VARIABLES
  stage,    \* "given", "normalized" or "answered"
  asked,    \* the request, as it was made (history)
  request,  \* the request, as it is passed on
  native    \* what the NIF makes of it

vars == <<stage, asked, request, native>>

-----------------------------------------------------------------------------
(* TransportListenInfo *)

\* normalize/1 and the map clauses of normalize_listen_ip/1: the older key is
\* renamed, and replaces a value under the newer one.
Renamed(info) ==
  IF info.announcedIp = "absent" THEN info
  ELSE [info EXCEPT !.announcedIp = "absent", !.announcedAddress = info.announcedIp]

\* create/3: struct/2 drops every key that the structure does not have.
CreateInfo(ip, port) ==
  [ip |-> ip.ip, protocol |-> "udp", port |-> port, announcedIp |-> "absent",
   announcedAddress |-> Renamed(ip).announcedAddress]

-----------------------------------------------------------------------------
(* WebRtcTransport.Options *)

\* protocols/1. The third clause also takes an option that enables both and
\* prefers neither.
Protocols(o) ==
  IF o.enable_udp = TRUE /\ o.enable_tcp = TRUE /\ o.prefer_udp THEN <<"udp", "tcp">>
  ELSE IF o.enable_udp = TRUE /\ o.enable_tcp = TRUE /\ o.prefer_tcp THEN <<"tcp", "udp">>
  ELSE IF o.enable_tcp = TRUE THEN <<"tcp">>
  ELSE IF o.enable_udp = TRUE THEN <<"udp">>
  ELSE <<>>

\* Each ip with each protocol, the protocols of one ip together.
Converted(o) ==
  LET p == Protocols(o) IN
  [k \in 1..(Len(o.listen_ips) * Len(p)) |->
     LET ip == o.listen_ips[((k - 1) \div Len(p)) + 1] IN
     [ip |-> ip.ip, protocol |-> p[((k - 1) % Len(p)) + 1], port |-> o.port,
      announcedIp |-> "absent", announcedAddress |-> Renamed(ip).announcedAddress]]

\* The clauses of normalize/1, each of which calls it again.
FromIps(o) ==
  IF o.listen_ips = Nil THEN o
  ELSE [o EXCEPT !.listen_ips = Nil, !.listen_infos = Converted(o)]

FromListen(o) ==
  IF o.listen = Nil THEN o
  ELSE IF o.listen \in Server THEN [o EXCEPT !.listen = Nil, !.webrtc_server = o.listen]
  ELSE [o EXCEPT !.listen = Nil, !.listen_infos = o.listen]

InfosRenamed(o) ==
  IF o.listen_infos = Nil THEN o
  ELSE [o EXCEPT !.listen_infos = [i \in DOMAIN o.listen_infos |-> Renamed(o.listen_infos[i])]]

\* Mutant: the clauses in another order.
NormalizeWebRtcSwapped(o) == InfosRenamed(FromIps(FromListen(o)))

NormalizeWebRtc(o) == InfosRenamed(FromListen(FromIps(o)))

-----------------------------------------------------------------------------
(* PlainTransport.Options, PipeTransport.Options, WebRtcServer.Options *)

\* Mutant: both listen on the port that was given.
NormalizePlainOnePort(o) ==
  IF o.listen_ip = Nil THEN o
  ELSE [o EXCEPT !.listen_ip = Nil, !.port = Nil,
          !.listen_info = IF @ = Nil THEN CreateInfo(o.listen_ip, o.port) ELSE @,
          !.rtcp_listen_info = IF @ = Nil THEN CreateInfo(o.listen_ip, o.port) ELSE @]

\* A listen info that is given stays; only the one for RTP gets the port.
NormalizePlain(o) ==
  IF o.listen_ip = Nil THEN o
  ELSE [o EXCEPT !.listen_ip = Nil, !.port = Nil,
          !.listen_info = IF @ = Nil THEN CreateInfo(o.listen_ip, o.port) ELSE @,
          !.rtcp_listen_info = IF @ = Nil THEN CreateInfo(o.listen_ip, Nil) ELSE @]

\* Mutant: the ip is not reset.
NormalizePipeAgain(o) ==
  IF o.listen_ip = Nil THEN o
  ELSE [o EXCEPT !.port = Nil, !.listen_info = CreateInfo(o.listen_ip, o.port)]

\* A listen info that is given is overwritten.
NormalizePipe(o) ==
  IF o.listen_ip = Nil THEN o
  ELSE [o EXCEPT !.listen_ip = Nil, !.port = Nil, !.listen_info = CreateInfo(o.listen_ip, o.port)]

NormalizeServer(o) ==
  [o EXCEPT !.listen_infos = [i \in DOMAIN o.listen_infos |-> Renamed(o.listen_infos[i])]]

\* from_map/1 of a WebRtcTransport takes no port; the others leave no field out.
FromMap(r) == IF r.map /\ r.kind = "webrtc" THEN [r EXCEPT !.o.port = Nil] ELSE r

Normalize(r) ==
  [r EXCEPT !.o = CASE r.kind = "webrtc"        -> NormalizeWebRtc(@)
                    [] r.kind = "plain"         -> NormalizePlain(@)
                    [] r.kind = "pipe"          -> NormalizePipe(@)
                    [] r.kind = "webrtc_server" -> NormalizeServer(@)
                    [] OTHER                    -> @]

-----------------------------------------------------------------------------
(* The options that are no place to listen at. *)

\* The fields of the NIF's structures. Those of the others are not looked at.
Read ==
  [k \in Kind |->
     CASE k = "data_producer" -> {"sctp_stream_parameters"}
       [] k = "data_consumer" -> {}
       [] OTHER -> Documented[k]]

Certificate == {"dtls_certificate_file", "dtls_private_key_file"}

\* Mutant: also one of the two files replaces the default.
ArrivedSingly(r) == r.given \cap Read[r.kind]

\* The values that replace a default. Some replaces it, None does not; a Worker
\* takes its certificate and the key only together.
Arrived(r) ==
  LET some == r.given \cap Read[r.kind] IN
  IF Certificate \subseteq some THEN some ELSE some \ Certificate

-----------------------------------------------------------------------------
(* The NIF *)

NoNative == [answer |-> "none", server |-> Nil, infos |-> <<>>, rtcp |-> Nil, arrived |-> {}]

Refuse(answer) == [NoNative EXCEPT !.answer = answer]

\* A listen info as the library's structure has it; it knows no announcedIp.
ListenInfo(info) ==
  [ip |-> info.ip, protocol |-> info.protocol, port |-> info.port,
   announced |-> info.announcedAddress]

\* Mutant: the first listen info is inserted after the others.
AcceptLastFirst(r, server, infos, rtcp) ==
  [answer |-> "ok", server |-> server, rtcp |-> rtcp, arrived |-> Arrived(r),
   infos |-> [i \in DOMAIN infos |-> ListenInfo(infos[Len(infos) + 1 - i])]]

Accept(r, server, infos, rtcp) ==
  [answer |-> "ok", server |-> server, rtcp |-> rtcp, arrived |-> Arrived(r),
   infos |-> [i \in DOMAIN infos |-> ListenInfo(infos[i])]]

\* The structure is decoded, which raises for a value that does not decode, and
\* turned into the library's options. A server is preferred to listen infos, and
\* one whose object is gone is an error, as is an empty list.
TryToOption(r) ==
  IF r.bad \cap Read[r.kind] # {} THEN Refuse("raised")
  ELSE CASE r.kind = "webrtc" ->
              IF r.o.webrtc_server # Nil
              THEN IF r.o.webrtc_server \in Disposed THEN Refuse("error")
                   ELSE Accept(r, r.o.webrtc_server, <<>>, Nil)
              ELSE IF r.o.listen_infos \in {Nil, <<>>} THEN Refuse("error")
                   ELSE Accept(r, Nil, r.o.listen_infos, Nil)
         [] r.kind = "webrtc_server" ->
              IF r.o.listen_infos = <<>> THEN Refuse("error")
              ELSE Accept(r, Nil, r.o.listen_infos, Nil)
         [] r.kind = "plain" ->
              IF r.o.listen_info = Nil THEN Refuse("raised")
              ELSE Accept(r, Nil, <<r.o.listen_info>>,
                          IF r.o.rtcp_listen_info = Nil THEN Nil
                          ELSE ListenInfo(r.o.rtcp_listen_info))
         [] r.kind = "pipe" ->
              IF r.o.listen_info = Nil THEN Refuse("raised")
              ELSE Accept(r, Nil, <<r.o.listen_info>>, Nil)
         [] OTHER -> Accept(r, Nil, <<>>, Nil)

-----------------------------------------------------------------------------

Init ==
  /\ stage = "given"
  /\ asked \in Asking
  /\ request = asked
  /\ native = NoNative

NormalizeStep ==
  /\ stage = "given"
  /\ stage' = "normalized"
  /\ request' = Normalize(FromMap(request))
  /\ UNCHANGED <<asked, native>>

NativeStep ==
  /\ stage = "normalized"
  /\ stage' = "answered"
  /\ native' = TryToOption(request)
  /\ UNCHANGED <<asked, request>>

Next == NormalizeStep \/ NativeStep

Spec == Init /\ [][Next]_vars

-----------------------------------------------------------------------------
(* Properties. *)

Elements(s) == {s[i] : i \in DOMAIN s}

Announced(x) == IF x.announcedIp = "absent" THEN x.announcedAddress ELSE x.announcedIp

Place(x, protocol, port) ==
  [ip |-> x.ip, protocol |-> protocol, port |-> port, announced |-> Announced(x)]

Enabled(o) ==
  (IF o.enable_udp = TRUE THEN {"udp"} ELSE {}) \cup (IF o.enable_tcp = TRUE THEN {"tcp"} ELSE {})

\* Both protocols are enabled and none is preferred: the code then listens for
\* TCP alone.
Undecided(o) == Enabled(o) = {"udp", "tcp"} /\ ~o.prefer_udp /\ ~o.prefer_tcp

AskedServer(o) == IF o.listen \in Server THEN o.listen ELSE o.webrtc_server

\* Where the caller asked to listen: in listen before listenIps before
\* listenInfos, and on an ip for each protocol that is enabled.
Places(o, port) ==
  LET given(infos) == {Place(x, x.protocol, x.port) : x \in Elements(infos)} IN
  IF o.listen # Nil /\ o.listen \notin Server THEN given(o.listen)
  ELSE IF o.listen_ips # Nil
       THEN {Place(x, p, port) : x \in Elements(o.listen_ips), p \in Enabled(o)}
  ELSE IF o.listen_infos # Nil THEN given(o.listen_infos) ELSE {}

Answered(k) == stage = "answered" /\ asked.kind = k /\ native.answer # "raised"

\* However old and new fields are combined, a WebRtcTransport listens where it
\* was asked to, with the address it was asked to announce, and is refused only
\* when there is no such place, or the server it is given is gone. (A map's port
\* is not looked at.)
WebRtcListensAsAsked ==
  Answered("webrtc") /\ ~Undecided(asked.o) =>
    LET server == AskedServer(asked.o)
        places == Places(asked.o, IF asked.map THEN Nil ELSE asked.o.port) IN
    IF server # Nil
    THEN IF server \in Disposed THEN native.answer = "error"
         ELSE native.answer = "ok" /\ native.server = server
    ELSE IF places = {} THEN native.answer = "error"
         ELSE native.answer = "ok" /\ Elements(native.infos) = places

\* RTP is at the listen info, or else at the ip and port that were given; RTCP at its
\* own listen info, or else at the ip that was given, on any port. The listen infos of
\* plain and pipe transports are taken as they are: the older name of the address is
\* in no type of theirs, and is not looked at.
PlainListensAsAsked ==
  LET o == asked.o IN
  Answered("plain") =>
    /\ native.answer = "ok"
    /\ native.infos = <<IF o.listen_info = Nil THEN Place(o.listen_ip, "udp", o.port)
                        ELSE ListenInfo(o.listen_info)>>
    /\ native.rtcp = IF o.rtcp_listen_info # Nil THEN ListenInfo(o.rtcp_listen_info)
                     ELSE IF o.listen_ip # Nil THEN Place(o.listen_ip, "udp", Nil) ELSE Nil

\* A PipeTransport is at the ip that was given, or else at the listen info.
PipeListensAsAsked ==
  LET o == asked.o IN
  Answered("pipe") =>
    /\ native.answer = "ok"
    /\ native.infos = <<IF o.listen_ip # Nil THEN Place(o.listen_ip, "udp", o.port)
                        ELSE ListenInfo(o.listen_info)>>

\* A server is at all of its listen infos, in their order.
ServerListensAsAsked ==
  LET infos == asked.o.listen_infos IN
  Answered("webrtc_server") =>
    IF infos = <<>> THEN native.answer = "error"
    ELSE /\ native.answer = "ok"
         /\ native.infos =
              [i \in DOMAIN infos |-> Place(infos[i], infos[i].protocol, infos[i].port)]

\* What has nowhere to listen, and nothing else, is refused for it.
PlacesDecode ==
  stage = "answered" /\ asked.kind \in {"plain", "pipe"} /\ asked.bad = {} =>
    (native.answer = "raised" <=> asked.o.listen_ip = Nil /\ asked.o.listen_info = Nil)

\* Transports and servers listen where they were asked to, and nowhere else, however
\* old and new fields are combined: of an ip and a listen info a PlainTransport takes
\* the info and a PipeTransport the ip, and RTCP that has no place of its own is on
\* the ip that was given, never on the port that RTP was given.
ListensAsAsked ==
  WebRtcListensAsAsked /\ PlainListensAsAsked /\ PipeListensAsAsked /\ ServerListensAsAsked
    /\ PlacesDecode

\* Of two protocols that share an ip the one that is preferred is offered first
\* (UDP, if both are). What comes first when none is, is not said.
PreferredComesFirst ==
  Answered("webrtc") /\ native.infos # <<>> /\ asked.o.listen_ips # Nil /\ asked.o.listen = Nil
    /\ Enabled(asked.o) = {"udp", "tcp"} =>
      LET first == native.infos[1].protocol IN
      /\ asked.o.prefer_udp => first = "udp"
      /\ asked.o.prefer_tcp /\ ~asked.o.prefer_udp => first = "tcp"

\* Options that were normalized before are not changed by it: the caller of
\* create_webrtc_transport may pass them again.
NormalizedForGood == stage # "given" => Normalize(request) = request

\* The documented options that need not arrive: those of data producers and
\* consumers for which the structures of the NIF have no field, and one file of a
\* Worker's certificate without the other.
Dropped(r) ==
  CASE r.kind = "data_producer" -> {"label", "protocol"}
    [] r.kind = "data_consumer" -> Documented["data_consumer"]
    [] r.kind = "worker" /\ ~(Certificate \subseteq r.given) -> Certificate
    [] OTHER -> {}

\* Every other option that is given reaches the library, and none that is not given;
\* a Worker gets its certificate whole or not at all; and no value that does not
\* decode is passed over. Whether the options in Dropped arrive is left open.
GivenOptionsArrive ==
  stage = "answered" =>
    /\ native.answer = "ok" =>
         /\ asked.given \ Dropped(asked) \subseteq native.arrived
         /\ native.arrived \subseteq asked.given
         /\ native.arrived \cap Certificate \in {{}, Certificate}
    /\ asked.bad \ Dropped(asked) # {} => native.answer = "raised"
=============================================================================
