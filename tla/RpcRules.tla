------------------------------ MODULE RpcRules -------------------------------
(***************************************************************************)
(* What RPC computes: frames, a link's preparation, gRPC headers and       *)
(* tables.  Operators only: none of it keeps state.                        *)
(***************************************************************************)
EXTENDS Integers, Sequences, FiniteSets, SequencesExt

-------------------------------------------------------------------------------
(***************************************************************************)
(* The frame grammar of ulo-rpc in its two codecs, an `err` frame's body,  *)
(* what a server checks of its handlers before it binds, and what a client *)
(* refuses before any I/O (ulo-rpc codec.rs, frame.rs, server.rs,          *)
(* client.rs, extract.rs; the details' JSON form is ulo-transport's).      *)
(*                                                                         *)
(* A frame is a record of its members; a payload is [codec, item], the     *)
(* bytes of one item some codec wrote.                                     *)
(***************************************************************************)

Empty == [codec |-> "none", item |-> "empty"]

Payload(c, i) == [codec |-> c, item |-> i]

----------------------------------------------------------------------------
(* The codec. *)

Kinds == {"req", "evt", "res", "err", "item", "end", "open", "in", "in_end", "cancel", "credit", "goaway"}

\* frame_data: the frames that carry `d`.
FrameData(kind) == kind \in {"req", "evt", "res", "item", "in"}

\* The members written after `t`, in order.
Members(kind) ==
    CASE kind \in {"req", "open"} -> <<"id", "p", "h">>
      [] kind = "evt" -> <<"p", "h">>
      [] kind = "err" -> <<"id", "e">>
      [] kind = "credit" -> <<"id", "n">>
      [] kind = "goaway" -> <<>>
      [] OTHER -> <<"id">>


\* The length Wire declares before its entries, counted apart from them.
Declared(kind, d) ==
    1 + (CASE kind \in {"req", "open"} -> 3 + d
           [] kind = "evt" -> 2 + d
           [] kind \in {"res", "item", "in"} -> 1 + d
           [] kind \in {"err", "credit"} -> 2
           [] kind = "goaway" -> 0
           [] OTHER -> 1)

\* The payload read as one item of the codec before it is spliced in. JSON
\* text that is a string opens with the byte 0x22, which CBOR reads as -3 and
\* the rest of the bytes is left unread; an object's text is no CBOR item, and
\* no CBOR item here is JSON text.
ItemOf(codec, data) ==
    CASE data = Empty -> "none"
      [] data.codec = codec -> data.item
      [] codec = "Cbor" /\ data.item = "text" -> "minus3"
      [] OTHER -> "unencodable"

\* write_frame: the declared length and the entries, or FrameUnencodable.
EncodeFrame(codec, f) ==
    LET d == IF FrameData(f.t) THEN ItemOf(codec, f.d) ELSE "none"
        held == IF d = "none" THEN <<>> ELSE <<<<"d", d>>>>
        ms == Members(f.t)
    IN  IF d = "unencodable" THEN [ok |-> FALSE, len |-> 0, entries |-> <<>>]
        ELSE [ok |-> TRUE, len |-> Declared(f.t, Len(held)),
              entries |-> <<<<"t", f.t>>>> \o [i \in DOMAIN ms |-> <<ms[i], f[ms[i]]>>] \o held]

\* The entries a reader sees: CBOR's map ends at its declared length.
Seen(codec, wire) ==
    IF codec = "Cbor" /\ wire.len < Len(wire.entries) THEN SubSeq(wire.entries, 1, wire.len) ELSE wire.entries

Named(entries, name) == SelectSeq(entries, LAMBDA e : e[1] = name)

Has(entries, name) == Named(entries, name) # <<>>

Value(entries, name) == Named(entries, name)[1][2]

\* decode_frame and WireIn::into_frame: a missing member of the kind refuses
\* the frame, missing headers are none, a missing or null `d` is empty.
DecodeFrame(codec, wire) ==
    LET es == Seen(codec, wire)
        t == Value(es, "t")
        ms == {Members(t)[i] : i \in DOMAIN Members(t)}
        data == IF Has(es, "d") /\ Value(es, "d") # "null" THEN Payload(codec, Value(es, "d")) ELSE Empty
        all == [m \in {"t"} \cup ms |->
                  IF m = "h" /\ ~Has(es, "h") THEN <<>> ELSE Value(es, m)]
    IN  IF \E m \in ms \ {"h"} : ~Has(es, m) THEN [t |-> "refused"]
        ELSE IF FrameData(t) THEN [m \in DOMAIN all \cup {"d"} |-> IF m = "d" THEN data ELSE all[m]]
        ELSE all

\* Codec::decode: an empty payload decodes as the codec's null.
DecodedItem(codec, data) == IF data = Empty THEN "null" ELSE ItemOf(codec, data)

----------------------------------------------------------------------------
(* An `err` frame's body. *)

ErrorKinds == {"BadRequest", "Unauthorized", "Forbidden", "NotFound", "Conflict", "Unprocessable",
               "TooManyRequests", "Timeout", "Unavailable", "Unimplemented", "Internal"}

AsStr(kind) ==
    CASE kind = "BadRequest" -> "bad_request" [] kind = "Unauthorized" -> "unauthorized"
      [] kind = "Forbidden" -> "forbidden" [] kind = "NotFound" -> "not_found"
      [] kind = "Conflict" -> "conflict" [] kind = "Unprocessable" -> "unprocessable"
      [] kind = "TooManyRequests" -> "too_many_requests" [] kind = "Timeout" -> "timeout"
      [] kind = "Unavailable" -> "unavailable" [] kind = "Unimplemented" -> "unimplemented"
      [] OTHER -> "internal"

KindFromWire(name) ==
    CASE name = "bad_request" -> "BadRequest" [] name = "unauthorized" -> "Unauthorized"
      [] name = "forbidden" -> "Forbidden" [] name = "not_found" -> "NotFound"
      [] name = "conflict" -> "Conflict" [] name = "unprocessable" -> "Unprocessable"
      [] name = "too_many_requests" -> "TooManyRequests" [] name = "timeout" -> "Timeout"
      [] name = "unavailable" -> "Unavailable" [] name = "unimplemented" -> "Unimplemented"
      [] OTHER -> "Internal"

\* whole_seconds of an amount in half seconds.
WholeSeconds(halves) == (halves + 1) \div 2

\* A detail is [type, value, halves]; `halves` is RetryAfter's duration.
\* TaggedDetail, and detail_from: an entry of an unknown type is kept whole.
TaggedDetail(d) ==
    IF d.type = "retry_after" THEN [type |-> "retry_after", seconds |-> WholeSeconds(d.halves)]
    ELSE [type |-> d.type, value |-> d.value]

DetailFrom(entry) ==
    CASE entry.type = "retry_after" -> [type |-> "retry_after", value |-> "", halves |-> 2 * entry.seconds]
      [] entry.type \in {"field_violations", "error_info", "help", "json"} ->
           [type |-> entry.type, value |-> entry.value, halves |-> 0]
      [] OTHER -> [type |-> "json", value |-> entry.value, halves |-> 0]

----------------------------------------------------------------------------
(* A server's checks before it binds, a client's before any I/O, and which *)
(* frames a route takes.                                                   *)

\* A link's Capabilities: every ability held that is not in `absent`.
AllShapes == {"Unary", "ServerStreaming", "ClientStreaming", "Bidi"}

Capabilities(delivery, codec, shapes, absent) ==
    [delivery |-> delivery, binary |-> codec = "Cbor", shapes |-> shapes, absent |-> absent]

TcpCapabilities(codec) ==
    Capabilities("Addressed", codec, AllShapes, {"native_backpressure", "unserved_hold", "durable_replies"})

UdpCapabilities(codec) ==
    Capabilities("Addressed", codec, {"Unary"},
                 {"native_backpressure", "unserved_hold", "durable_replies", "confirmed_drain", "ordered_control"})

RedisCapabilities(codec) ==
    Capabilities("FanOut", codec, AllShapes,
                 {"native_backpressure", "unserved_hold", "durable_replies", "single_delivery"})

NatsCapabilities(codec) ==
    Capabilities("Competing", codec, AllShapes,
                 {"native_backpressure", "unserved_hold", "durable_replies", "confirmed_drain", "ordered_control"})

RabbitCapabilities(codec) == Capabilities("Competing", codec, AllShapes, {"durable_replies", "ordered_control"})

KafkaCapabilities(codec) == Capabilities("Competing", codec, AllShapes, {"miss_signal", "ordered_control"})

MqttCapabilities(codec, qos) ==
    Capabilities("Competing", codec, AllShapes,
                 {"native_backpressure", "unserved_hold", "durable_replies", "ordered_control"}
                   \cup (IF qos = 0 THEN {"miss_signal"} ELSE {}))

LinkCapabilities(codec) ==
    {TcpCapabilities(codec), UdpCapabilities(codec), RedisCapabilities(codec), NatsCapabilities(codec),
     RabbitCapabilities(codec), KafkaCapabilities(codec)} \cup {MqttCapabilities(codec, q) : q \in 0..1}

\* __private::shape, from the probes over a handler's signature.
ShapeOf(streamsRequest, streamsReply) ==
    CASE ~streamsRequest /\ ~streamsReply -> "Unary"
      [] ~streamsRequest -> "ServerStreaming"
      [] ~streamsReply -> "ClientStreaming"
      [] OTHER -> "Bidi"

\* InboundProbe, ReplyShapeProbe and PayloadKindProbe, over the types a handler
\* is written with: a stream counts bare and on a Result's Ok side.
InboundProbe(params) == "Inbound" \in params

ReplyShapeProbe(output) == output \in {"Stream", "Result<Stream>"}

PayloadKindProbe(params) == IF params \cap {"Bytes", "Payload<Bytes>"} # {} THEN "Binary"
                            ELSE IF "Payload<T>" \in params THEN "Serde" ELSE "none"

\* Answer: a handler's output as a reply, its Result unwrapped.
AnswerOf(output) ==
    CASE output \in {"Stream", "Result<Stream>"} -> "Many" [] output = "unit" -> "None" [] OTHER -> "One"

\* What the attribute mounts of a handler's signature; an event's streamed
\* output does not compile (StreamedReplyOnEvent).
Mounted(sig) ==
    [value |-> sig.value, pattern |-> sig.pattern, kind |-> sig.kind,
     shape |-> ShapeOf(InboundProbe(sig.params), ReplyShapeProbe(sig.output)),
     binary |-> PayloadKindProbe(sig.params) = "Binary"]

StreamsRequest(shape) == shape \in {"ClientStreaming", "Bidi"}

\* check_pattern.
CheckPattern(pattern) == pattern \notin {"", "has space", "has control"}

\* zero_count and zero_bound, which `prepare` reports of a server's settings.
Zeroes(settings) == {s \in DOMAIN settings : settings[s] = "zero"}

\* The reports one handler draws, before its route is taken. The first three
\* end its checks.
Stops(h) == ~h.value \/ h.pattern = "none" \/ ~CheckPattern(h.pattern)

Reports(link, h) ==
    (IF h.kind = "Event" /\ h.shape # "Unary" THEN {"event_shape"} ELSE {})
      \cup (IF h.shape \notin link.shapes THEN {"shape"} ELSE {})
      \cup (IF h.binary /\ ~link.binary THEN {"binary"} ELSE {})

\* The handlers that take their pattern's route: the first to name it, its
\* other reports aside.
Routes(link, handlers) ==
    {i \in DOMAIN handlers : /\ ~Stops(handlers[i])
                             /\ \A j \in 1..(i - 1) : Stops(handlers[j]) \/ handlers[j].pattern # handlers[i].pattern}

\* Server::prepare's failures: <<handler, report>>, the link's and settings'
\* own under handler 0.
Failures(link, prepares, settings, handlers) ==
    (IF prepares THEN {} ELSE {<<0, "link">>})
      \cup {<<0, s>> : s \in Zeroes(settings)}
      \cup {<<i, "stops">> : i \in {j \in DOMAIN handlers : Stops(handlers[j])}}
      \cup UNION {{<<i, r>> : r \in Reports(link, handlers[i])} : i \in {j \in DOMAIN handlers : ~Stops(handlers[j])}}
      \cup {<<i, "duplicate">> : i \in {j \in DOMAIN handlers : ~Stops(handlers[j])} \ Routes(link, handlers)}

\* `prepare`'s warning that each instance runs a request.
WarnsFanned(link, handlers) ==
    "single_delivery" \in link.absent /\ \E i \in Routes(link, handlers) : handlers[i].kind = "Message"

\* Spec::carried and client.rs's encode.
Carried(link, shape) == shape \in link.shapes

Encodes(link, binary) == ~binary \/ link.binary

\* The frame a client's call of a shape opens with, and dispatch's mismatch.
OpenedWith(shape) == IF StreamsRequest(shape) THEN "open" ELSE "req"

Mismatch(arrived, kind, shape) ==
    IF arrived = "open" THEN ~StreamsRequest(shape) \/ kind = "Event" ELSE StreamsRequest(shape)

\* shape_mismatch: a stream answering a shape of one reply.
ShapeMismatch(shape, streams) == streams /\ shape \notin {"ServerStreaming", "Bidi"}

\* take_data and Inbound::from_call over the body accept() made of a frame.
BodyOf(arrived) == IF arrived = "open" THEN "Stream" ELSE "Data"

Extracts(param, body) ==
    CASE param \in {"Payload<T>", "Payload<Bytes>", "Bytes"} -> body = "Data"
      [] param = "Inbound" -> body = "Stream"
      [] OTHER -> TRUE

----------------------------------------------------------------------------
\* What one side writes the other reads back: in either codec, a frame of any
\* kind whose payload is an item of that codec is read with every member it
\* was written with, a payload decoding to the same value, and an `err` keeps
\* its kind and its details, a retry never sooner than it said.
\* Codec::encode_frame and decode_frame (codec.rs) with Wire's declared length.
FramesReadBack(codec, f, kind, detail) ==
    LET wire == EncodeFrame(codec, f)
        read == DecodeFrame(codec, wire)
        back == DetailFrom(TaggedDetail(detail))
    IN  /\ (FrameData(f.t) => f.d = Empty \/ f.d.codec = codec) =>
             /\ wire.ok
             /\ DOMAIN read = DOMAIN f
             /\ \A m \in DOMAIN f \ {"d"} : read[m] = f[m]
             /\ FrameData(f.t) => DecodedItem(codec, read.d) = DecodedItem(codec, f.d)
        /\ KindFromWire(AsStr(kind)) = kind
        /\ back.type = detail.type
        /\ back.value = detail.value
        /\ back.halves >= detail.halves

\* The two sides agree on what a link carries: where `prepare` passes, every
\* handler has its pattern to itself, a client's call of its shape and payload
\* is refused by neither side and its frame opens the body the handler's
\* parameter reads; and `prepare` refuses nothing the client would carry of
\* well-named handlers with patterns of their own. A pattern is reported as
\* taken once for every handler after its first, and the warning that every
\* instance runs each request is given on a fanned-out link alone.
SidesAgree(link, prepares, settings, sigs) ==
    LET handlers == [i \in DOMAIN sigs |-> Mounted(sigs[i])]
        failures == Failures(link, prepares, settings, handlers)
        named == {i \in DOMAIN handlers : ~Stops(handlers[i])}
        fits(i) == LET h == handlers[i] IN
                   /\ Carried(link, h.shape) /\ Encodes(link, h.binary)
                   /\ ~Mismatch(OpenedWith(h.shape), h.kind, h.shape)
                   /\ ~ShapeMismatch(h.shape, AnswerOf(sigs[i].output) = "Many")
                   /\ \A p \in sigs[i].params : Extracts(p, BodyOf(OpenedWith(h.shape)))
    IN  /\ failures = {} =>
             /\ \A i \in DOMAIN handlers : fits(i)
             /\ \A i, j \in DOMAIN handlers : i # j => handlers[i].pattern # handlers[j].pattern
        /\ \A i \in named : fits(i) /\ (handlers[i].kind = "Event" => handlers[i].shape = "Unary") =>
             \A r \in {"event_shape", "shape", "binary"} : <<i, r>> \notin failures
        /\ \A i \in named :
             <<i, "duplicate">> \in failures <=> \E j \in named : j < i /\ handlers[j].pattern = handlers[i].pattern
        /\ WarnsFanned(link, handlers) <=>
             link.delivery = "FanOut" /\ \E i \in Routes(link, handlers) : handlers[i].kind = "Message"

-------------------------------------------------------------------------------
(***************************************************************************)
(* What each RPC link refuses before a socket: `usable`, where a client    *)
(* takes the link, and `prepare`, a server's, with the urls, broker lists  *)
(* and group names they read (link.rs of ulo-rpc-tcp, -tcp-core, -udp,     *)
(* -redis, -rabbitmq, -nats, -mqtt and -kafka).                            *)
(*                                                                         *)
(* A link is the record its builder makes, of the settings the refusals    *)
(* read. A refusal is [why, permanent]; an accepted link has none. Text is *)
(* a sequence of tokens, one per character the parsers tell apart.         *)
(***************************************************************************)

Told(why) == <<[why |-> why, permanent |-> FALSE]>>
Permanent(why) == <<[why |-> why, permanent |-> TRUE]>>
Fine == <<>>

\* `a?; b`: b is read only where a refuses nothing.
Then(a, b) == IF a # Fine THEN a ELSE b

(***************************************************************************)
(* The runtime a link holds: [given, up, io, probed]. require_io answers   *)
(* what it probed before; a runtime that has shut down answers nothing of  *)
(* its driver, which reads as a driver that is there.                      *)
(***************************************************************************)
Runtimes == [given : BOOLEAN, up : BOOLEAN, io : BOOLEAN, probed : BOOLEAN]

HasRuntime(rt) == IF rt.given THEN Fine ELSE Told("no runtime")

RequireIo(rt) == IF (rt.probed \/ rt.up) /\ ~rt.io THEN <<"no io">> ELSE <<>>

UsableRuntime(rt) == Then(HasRuntime(rt), IF RequireIo(rt) # <<>> THEN Told("no io") ELSE Fine)

\* The opening of `prepare`: the shutdown is asked first.
PrepareRuntime(rt) ==
    Then(HasRuntime(rt), Then(IF ~rt.up THEN Permanent("shut down") ELSE Fine,
                              IF RequireIo(rt) # <<>> THEN Permanent("no io") ELSE Fine))

(***************************************************************************)
(* UDP and TCP: the endpoint is an address, a host name, or a socket the   *)
(* process inherits, which the activation may not hold.                    *)
(***************************************************************************)
Endpoints == {"address", "host", "inherited", "missing"}

UdpLinks == [kind : {"udp"}, runtime : Runtimes, endpoint : Endpoints]

UdpAddress(l) == CASE l.endpoint = "address" -> Fine
                   [] l.endpoint = "host"    -> Told("host name")
                   [] OTHER                  -> Told("not an address")

UdpUsable(l) == Then(UsableRuntime(l.runtime), UdpAddress(l))
UdpPrepare(l) == Then(PrepareRuntime(l.runtime), UdpAddress(l))

TcpLinks == [kind : {"tcp"}, runtime : Runtimes, endpoint : Endpoints, tls : {"none", "good", "bad"}, maxFrame : {0, 1}]

ClientAddr(l) == CASE l.endpoint = "host"                  -> Told("host name")
                   [] l.endpoint \in {"inherited", "missing"} -> Told("not an address")
                   [] l.tls # "none"                       -> Told("tls")
                   [] OTHER                                -> Fine

TcpUsable(l) == Then(UsableRuntime(l.runtime), ClientAddr(l))

\* Core::prepare: every problem, reported together.
CorePrepare(l, usable) ==
    usable \o (IF l.endpoint = "host" THEN Told("host name") ELSE Fine)
           \o (IF l.endpoint = "missing" THEN Told("missing socket") ELSE Fine)
           \o (IF l.tls = "bad" THEN Told("tls") ELSE Fine)
           \o (IF l.maxFrame = 0 THEN Told("max_frame") ELSE Fine)

TcpPrepare(l) ==
    Then(IF l.runtime.given THEN PrepareRuntime(l.runtime) ELSE Fine, CorePrepare(l, HasRuntime(l.runtime)))

(***************************************************************************)
(* The brokers. A url is parsed by the client library but for MQTT's and   *)
(* Kafka's, which the link parses.                                         *)
(***************************************************************************)
RedisLinks == [kind : {"redis"}, runtime : Runtimes, url : {"good", "bad"}]
ParsedUrl(url) == IF url = "good" THEN Fine ELSE Told("url")
RedisUsable(l) == UsableRuntime(l.runtime)
RedisPrepare(l) == Then(PrepareRuntime(l.runtime), Then(RedisUsable(l), ParsedUrl(l.url)))

RabbitLinks == [kind : {"rabbitmq"}, runtime : Runtimes, url : {"good", "bad"}, within : {0, 1}]
ConnectWithin(within) == IF within = 0 THEN Told("connect_within") ELSE Fine
RabbitUsable(l) == Then(UsableRuntime(l.runtime), ConnectWithin(l.within))
RabbitPrepare(l) == Then(PrepareRuntime(l.runtime), Then(RabbitUsable(l), ParsedUrl(l.url)))

Blank == " "
QueueGroup(text) == [i \in DOMAIN text |-> IF text[i] \in {Blank, "*", ">"} THEN "_" ELSE text[i]]
NatsGroup(group) == IF group = <<>> \/ ToSet(group) \cap {Blank, "*", ">"} # {} THEN Told("group") ELSE Fine
ShareName(text) == [i \in DOMAIN text |-> IF text[i] \in {Blank, "/", "+", "#"} THEN "_" ELSE text[i]]
MqttGroup(group) == IF group = <<>> \/ ToSet(group) \cap {"/", "+", "#"} # {} THEN Told("group") ELSE Fine

\* A group as written, or <<"unset">> for the root module's path.
Unset == <<"unset">>
Groups == {Unset, <<>>, <<"g">>, <<"g", "*">>, <<"/", "g">>, <<"g", Blank>>}

\* servers: the url's comma-separated servers, an empty one passed over.
NatsServers(url) ==
    LET named == SelectSeq(url, LAMBDA s : s # "empty")
    IN  IF \E i \in DOMAIN named : named[i] = "bad" THEN Told("url") ELSE IF named = <<>> THEN Told("no server") ELSE Fine

NatsLinks == [kind : {"nats"}, runtime : Runtimes, url : {<<"good">>, <<"bad", "good">>, <<"empty">>, <<"good", "empty">>},
              group : Groups, within : {0, 1}, rootsTimeout : {0, 1}]

\* usable: the two zero bounds are reported together.
NatsUsable(l) ==
    Then(UsableRuntime(l.runtime), (IF l.rootsTimeout = 0 THEN Told("roots_timeout") ELSE Fine) \o ConnectWithin(l.within))

NatsPrepare(l) ==
    Then(PrepareRuntime(l.runtime),
    Then(NatsUsable(l),
    Then(NatsServers(l.url), IF l.group = Unset THEN Fine ELSE NatsGroup(l.group))))

\* Roots: what a load of the platform's roots yields, as prepare tells it.
\* A panic is raised again by prepare.
RootsLoads == {"roots", "some", "none", "unparsable", "panic", "shut down"}
Configured(load) == load \in {"roots", "some"}
AtStartup(load) == CASE Configured(load)    -> Fine
                     [] load = "panic"      -> Told("panic")
                     [] load = "shut down"  -> Permanent("shut down")
                     [] OTHER               -> Told("roots")

MqttLinks == [kind : {"mqtt"}, runtime : Runtimes, scheme : {"mqtt", "mqtts", "http"}, group : Groups, load : RootsLoads]

MqttTls(l) == IF l.scheme = "mqtts" THEN AtStartup(l.load) ELSE Fine
MqttUsable(l) == UsableRuntime(l.runtime)
MqttPrepare(l) ==
    Then(PrepareRuntime(l.runtime),
    Then(MqttUsable(l),
    Then(IF l.scheme = "http" THEN Told("url") ELSE Fine,
    Then(IF l.group = Unset THEN Fine ELSE MqttGroup(l.group), MqttTls(l)))))

\* Brokers::parse: an entry is [secure, port], "empty" entries passed over.
BrokerEntries == [secure : BOOLEAN, port : BOOLEAN]
Brokers(entries) ==
    IF \E i \in DOMAIN entries : LET mixed == entries[i].secure # entries[1].secure IN
           mixed /\ \A j \in 1..(i - 1) : entries[j].port THEN Told("mixed")
    ELSE IF \E i \in DOMAIN entries : ~entries[i].port THEN Told("not host:port")
    ELSE IF entries = <<>> THEN Told("no broker")
    ELSE Fine

KafkaLinks == [kind : {"kafka"}, runtime : Runtimes, brokers : BoundedSeq(BrokerEntries, 2), partitions : {0, 1},
               group : {Unset, <<>>, <<"g">>}, tlsBuilt : BOOLEAN]

KafkaUsable(l) == HasRuntime(l.runtime)
KafkaPrepare(l) ==
    Then(KafkaUsable(l),
    Then(Brokers(l.brokers),
    Then(IF l.brokers[1].secure /\ ~l.tlsBuilt THEN Told("tls feature") ELSE Fine,
    Then(IF l.partitions < 1 THEN Told("partitions") ELSE Fine,
    Then(IF l.group = <<>> THEN Told("group") ELSE Fine,
         IF ~l.runtime.up THEN Permanent("shut down") ELSE Fine)))))

Links == UdpLinks \cup TcpLinks \cup RedisLinks \cup RabbitLinks \cup NatsLinks \cup MqttLinks \cup KafkaLinks

Usable(l) ==
    CASE l.kind = "udp"  -> UdpUsable(l)   [] l.kind = "tcp"      -> TcpUsable(l)
      [] l.kind = "redis" -> RedisUsable(l) [] l.kind = "rabbitmq" -> RabbitUsable(l)
      [] l.kind = "nats" -> NatsUsable(l)  [] l.kind = "mqtt"     -> MqttUsable(l)
      [] OTHER           -> KafkaUsable(l)

Prepare(l) ==
    CASE l.kind = "udp"  -> UdpPrepare(l)   [] l.kind = "tcp"      -> TcpPrepare(l)
      [] l.kind = "redis" -> RedisPrepare(l) [] l.kind = "rabbitmq" -> RabbitPrepare(l)
      [] l.kind = "nats" -> NatsPrepare(l)  [] l.kind = "mqtt"     -> MqttPrepare(l)
      [] OTHER           -> KafkaPrepare(l)

(***************************************************************************)
(* Target::parse over the text after `mqtt://`. Tokens: letters and digits *)
(* one per token, ":" "@" "/" "[" "]".                                     *)
(***************************************************************************)
Before(text, marks) == LET at == SelectInSeq(text, LAMBDA t : t \in marks) IN IF at = 0 THEN text ELSE SubSeq(text, 1, at - 1)
After(text, at) == SubSeq(text, at + 1, Len(text))
Digits == {"1", "2"}
PortOf(text) == IF text # <<>> /\ ToSet(text) \subseteq Digits THEN text ELSE <<"bad">>

LastAt(authority) == SelectLastInSeq(authority, LAMBDA t : t = "@")

Credentials(text) ==
    LET at == SelectInSeq(text, LAMBDA t : t = ":")
    IN  IF at = 0 THEN <<text, <<>>>> ELSE <<SubSeq(text, 1, at - 1), After(text, at)>>

\* [host, port]; the port <<>> is the scheme's own.
HostPort(address) ==
    IF address # <<>> /\ Head(address) = "["
    THEN LET close == SelectInSeq(address, LAMBDA t : t = "]")
             after == After(address, close)
         IN  IF close = 0 \/ (after # <<>> /\ Head(after) # ":") THEN [host |-> <<>>, port |-> <<"bad">>]
             ELSE [host |-> SubSeq(address, 2, close - 1), port |-> IF after = <<>> THEN <<>> ELSE PortOf(Tail(after))]
    ELSE LET at == SelectLastInSeq(address, LAMBDA t : t = ":")
         IN  IF at = 0 THEN [host |-> address, port |-> <<>>]
             ELSE [host |-> SubSeq(address, 1, at - 1), port |-> PortOf(After(address, at))]

Target(rest) ==
    LET authority == Before(rest, {"/", "?", "#"})
        at        == LastAt(authority)
        address   == After(authority, at)
        read      == HostPort(address)
    IN  IF read.port = <<"bad">> \/ read.host = <<>> THEN [ok |-> FALSE]
        ELSE [ok |-> TRUE, host |-> read.host, port |-> read.port,
              credentials |-> IF at = 0 THEN <<>> ELSE Credentials(SubSeq(authority, 1, at - 1))]

(***************************************************************************)
(* What the refusals promise.                                              *)
(***************************************************************************)

\* The url an operator writes for these parts.
Written(user, password, host, port, tail) ==
    (IF user = <<>> THEN <<>> ELSE user \o (IF password = <<>> THEN <<>> ELSE <<":">> \o password) \o <<"@">>)
      \o (IF ":" \in ToSet(host) THEN <<"[">> \o host \o <<"]">> ELSE host)
      \o (IF port = <<>> THEN <<>> ELSE <<":">> \o port) \o tail

\* An MQTT url reads back as the user, password, host and port it was written
\* with, whatever colons and @ the password holds and for a bracketed host.
TargetReadBack(user, password, host, port, tail) ==
    LET read == Target(Written(user, password, host, port, tail))
    IN  /\ read.ok /\ read.host = host /\ read.port = port
        /\ read.credentials = IF user = <<>> THEN <<>> ELSE <<user, password>>

\* The group a link makes of the root module's path passes the check a written
\* group must pass, so leaving the group out is never refused.
DefaultGroupPasses(path) == NatsGroup(QueueGroup(path)) = Fine /\ MqttGroup(ShareName(path)) = Fine

WhyOf(refusals) == {refusals[i].why : i \in DOMAIN refusals}

\* A server's `prepare` refuses a runtime that has shut down as permanent, for
\* itself and alone, and never as a runtime without a driver, whatever was
\* probed before (on Kafka once nothing else is refused). What a client is
\* refused for the runtime or a bound, a server is refused too; only a TCP
\* link's endpoint and certificate are read differently on the two sides.
RefusalsTrue(l) ==
    /\ l.runtime.given /\ ~l.runtime.up =>
        IF l.kind = "kafka" THEN Prepare(l) # Fine ELSE Prepare(l) = Permanent("shut down")
    /\ \A i \in DOMAIN Prepare(l) : Prepare(l)[i].permanent => Len(Prepare(l)) = 1 /\ Prepare(l)[i].why \in {"shut down", "no io"}
    /\ Prepare(l) = Fine => Usable(l) = Fine \/ (l.kind = "tcp" /\ WhyOf(Usable(l)) \subseteq {"not an address", "tls"})
    /\ Prepare(l) = Fine => l.runtime.given /\ l.runtime.up /\ (l.kind = "kafka" \/ l.runtime.io)

-------------------------------------------------------------------------------
(***************************************************************************)
(* What a gRPC reply and call carry in their headers                       *)
(* (ulo-grpc/src/dispatch.rs, client.rs, status.rs): the reply's metadata, *)
(* the protocol's own headers kept from the interceptors and pre-dispatch  *)
(* entries that see the reply (screened), an entry's HTTP status made a    *)
(* gRPC one, the record of names restored, the grpc-timeout a client       *)
(* writes and the server parses, and the retry hint of a shed call.        *)
(* A header map gives each name its value or "absent"; a duration is a     *)
(* count of the smallest unit.                                             *)
(***************************************************************************)

CONSTANT UnitsOf           \* the units of grpc-timeout, finest first, as counts of the finest
CONSTANT MaxAmount         \* 99999999, what eight digits hold
CONSTANT PerMilli, MaxMillis   \* the counts in a millisecond; i32::MAX
CONSTANT RestoredLogged    \* 64
HeaderNames == {"grpc-status", "grpc-x", "content-type", "x-own"}
IsProtocol(name) == name \in {"grpc-status", "grpc-x"}
Reserved(name) == IsProtocol(name) \/ name = "content-type"

\* with_metadata: a reply's metadata never sets a reserved name; the message's reply has no grpc- one.
WithMetadata(metadata) == [n \in HeaderNames |-> IF n = "content-type" THEN "grpc" ELSE IF Reserved(n) THEN "absent" ELSE metadata[n]]
\* status_reply: the trailers-only reply of `code`.
StatusHeaders(code) == [n \in HeaderNames |-> CASE n = "grpc-status" -> code [] n = "content-type" -> "grpc" [] OTHER -> "absent"]

\* written: the framework's reply with the grpc- headers it has, recorded; one built by hand has none.
WrittenBy(headers) == [status |-> "200", headers |-> headers, recorded |-> TRUE, protocol |-> [n \in HeaderNames |-> IF IsProtocol(n) THEN headers[n] ELSE "absent"]]
ByHand(headers) == [WrittenBy(headers) EXCEPT !.recorded = FALSE]

\* The names whose values are no longer those recorded.
Touched(reply) == {n \in HeaderNames : IsProtocol(n) /\ reply.headers[n] # reply.protocol[n]}

\* screened: each touched name as the framework wrote it.
Screened(reply) ==
    IF ~reply.recorded THEN reply
    ELSE [reply EXCEPT !.headers = [n \in HeaderNames |-> IF n \in Touched(reply) THEN reply.protocol[n] ELSE @[n]]]

CodeForHttp(status) ==
    CASE status = "400" -> "INTERNAL" [] status = "401" -> "UNAUTHENTICATED" [] status = "403" -> "PERMISSION_DENIED"
      [] status = "404" -> "UNIMPLEMENTED" [] status \in {"429", "502", "503", "504"} -> "UNAVAILABLE" [] OTHER -> "UNKNOWN"

\* as_grpc: any status but 200 becomes a trailers-only reply, the entry's own headers beside it.
AsGrpc(reply) ==
    IF reply.status = "200" THEN reply
    ELSE WrittenBy([n \in HeaderNames |-> IF Reserved(n) THEN StatusHeaders(CodeForHttp(reply.status))[n] ELSE reply.headers[n]])

\* What a writer leaves of a reply's headers, a name it does not name kept; an entry may set the status.
Edited(reply, edits) == [reply EXCEPT !.headers = [n \in HeaderNames |-> IF edits[n] = "kept" THEN @[n] ELSE edits[n]]]
OnTheWire(reply, interceptor, entry, status) ==
    AsGrpc(Screened([Edited(Screened(Edited(reply, interceptor)), entry) EXCEPT !.status = status]))

-----------------------------------------------------------------------------
\* Restored::record over the writers and names restored: each once, and the record bounded.
Record(sightings) ==
    LET after[i \in 0..Len(sightings)] ==
            IF i = 0 THEN [names |-> {}, full |-> FALSE, said |-> <<>>]
            ELSE LET r == after[i - 1] IN
                 IF sightings[i] \in r.names THEN [r EXCEPT !.said = Append(@, "Again")]
                 ELSE IF Len(SelectSeq(r.said, LAMBDA s : s = "First")) < RestoredLogged
                 THEN [r EXCEPT !.names = @ \cup {sightings[i]}, !.said = Append(@, "First")]
                 ELSE IF r.full THEN [r EXCEPT !.said = Append(@, "Again")]
                 ELSE [r EXCEPT !.full = TRUE, !.said = Append(@, "Full")] IN
    after[Len(sightings)].said

-----------------------------------------------------------------------------
Longest == MaxAmount * UnitsOf[Len(UnitsOf)]

\* tonic's set_timeout: the finest unit whose amount fits, truncated (external).
SetTimeout(remaining) ==
    LET fits == {u \in DOMAIN UnitsOf : remaining \div UnitsOf[u] <= MaxAmount}
        unit == CHOOSE u \in fits : \A v \in fits : u <= v IN
    [amount |-> remaining \div UnitsOf[unit], unit |-> unit]

\* timed: the remaining time held to what the grammar can say.
Timed(remaining) == SetTimeout(IF remaining = 0 THEN 1 ELSE IF remaining > Longest THEN Longest ELSE remaining)

\* grpc_timeout and parse_timeout: the digits by their count, and the unit.
ParseTimeout(text) == IF text.amount \in 0..MaxAmount /\ text.unit \in DOMAIN UnitsOf THEN text.amount * UnitsOf[text.unit] ELSE -1

\* outgoing: a deadline already passed makes no call.
Outgoing(remaining) == IF remaining = 0 THEN "DEADLINE_EXCEEDED" ELSE "sent"

\* shed and pushback_ms.
PushbackMs(after) ==
    LET millis == after \div PerMilli + (IF after % PerMilli > 0 THEN 1 ELSE 0) IN
    IF millis > MaxMillis THEN MaxMillis ELSE millis

-----------------------------------------------------------------------------
\* screened and as_grpc: whatever interceptors and pre-dispatch entries do to a reply the framework
\* built, the client reads the status it was built with, or the one the entry's HTTP status stands
\* for, and no other grpc- header, while every other header is as they left it.
StatusNotForged(built, interceptor, entry, status) ==
    LET wire == OnTheWire(WrittenBy(built), interceptor, entry, status).headers IN
    /\ \A n \in HeaderNames : IsProtocol(n) =>
        wire[n] = IF status = "200" THEN built[n] ELSE StatusHeaders(CodeForHttp(status))[n]
    /\ wire["x-own"] = IF entry["x-own"] # "kept" THEN entry["x-own"]
                       ELSE IF interceptor["x-own"] # "kept" THEN interceptor["x-own"] ELSE built["x-own"]
    /\ OnTheWire(ByHand(built), interceptor, entry, "200").headers = Edited(Edited(ByHand(built), interceptor), entry).headers

\* outgoing's deadline: the callee is given no more than the caller has left and less by under one
\* unit, never zero, which the server refuses, and never text off the grammar; past the longest it
\* is that.
TimeoutCarried(remaining) ==
    Outgoing(remaining) = "sent" =>
        LET read == ParseTimeout(Timed(remaining)) IN
        /\ read > 0 /\ read <= remaining
        /\ remaining <= Longest => remaining - read < UnitsOf[Timed(remaining).unit]
        /\ remaining > Longest => read = Longest

\* The hint of a shed call is never shorter than the setting unless it is the largest there is.
PushbackNotEarly(after) == LET ms == PushbackMs(after) IN ms <= MaxMillis /\ (ms * PerMilli >= after \/ ms = MaxMillis)

\* The record of restored names warns once for each writer and name, of no more than its bound, and
\* once that it is full.
RestoredWarnedOnce(sightings) ==
    LET said == Record(sightings)
        firsts == {i \in DOMAIN said : said[i] = "First"} IN
    /\ \A i, j \in firsts : sightings[i] = sightings[j] => i = j
    /\ \A i \in firsts : i <= RestoredLogged \/ \E j \in 1..(i - 1) : said[j] = "Again"
    /\ \A i, j \in DOMAIN said : said[i] = "Full" /\ said[j] = "Full" => i = j
    /\ (\E i \in DOMAIN said : said[i] = "Full") <=> (\E i \in DOMAIN said : \A j \in firsts : sightings[j] # sightings[i])

-------------------------------------------------------------------------------
(***************************************************************************)
(* The gRPC server's prepare (ulo-grpc/src/server.rs): the settings that   *)
(* would refuse everything, the path table of the mounted handlers, the    *)
(* scopes no route reaches, and the failures collected into one error      *)
(* (ulo-transport/src/prepare.rs). A scope is the set of paths it shares   *)
(* with the methods; the stage marks a scope once a route it shares a path *)
(* with has taken its scoped stage.                                        *)
(***************************************************************************)

HealthPath == "/health"
ReflectionPath == "/reflection"

\* A mounted handler: its marker's path, whether the value mounted is a GrpcHandler, and whether its
\* spec reports the marker's route and shape.
Mountable(h) == h.ours /\ h.agrees

\* routes: one route per path; a handler it refuses took no scoped stage.
RoutesAfter(handlers) ==
    LET after[i \in 0..Len(handlers)] ==
            IF i = 0 THEN [table |-> <<>>, failures |-> <<>>]
            ELSE LET r == after[i - 1]
                     h == handlers[i]
                     other == SelectInSeq(r.table, LAMBDA t : handlers[t].path = h.path) IN
                 IF ~h.ours THEN [r EXCEPT !.failures = Append(@, [what |-> "foreign", names |-> {i}])]
                 ELSE IF ~h.agrees THEN [r EXCEPT !.failures = Append(@, [what |-> "marker", names |-> {i}])]
                 ELSE IF other # 0 THEN [r EXCEPT !.failures = Append(@, [what |-> "path", names |-> {r.table[other], i}])]
                 ELSE [r EXCEPT !.table = Append(@, i)] IN
    after[Len(handlers)]

\* Stage::unreached, after the routes and reflection have taken their stages.
UnreachedScopes(server, table) ==
    LET reached == {server.handlers[t].path : t \in Range(table)} \cup (IF server.reflection THEN {ReflectionPath} ELSE {}) IN
    {s \in server.scopes : s \cap reached = {}}

\* health_only.
ReasonOf(scope) == IF HealthPath \in scope THEN "HealthOnly" ELSE "NoRoute"

\* A route the table could not hold would leave its scopes unreached beside its own failure.
ScopesRead(server, routes) == IF routes.failures = <<>> THEN UnreachedScopes(server, routes.table) ELSE {}

\* check_zeros, zero_count and zero_bound: one failure for each setting that refuses everything.
ZeroSettings(server) == [s \in 1..Len(server.zeros) |-> [what |-> "zero", names |-> {}]]

\* prepare's failures in the order found; a TLS failure that is the only one is answered as itself.
GrpcPrepare(server) ==
    LET routes == RoutesAfter(server.handlers)
        scopes == SetToSeq(ScopesRead(server, routes))
        failures == ZeroSettings(server) \o routes.failures
                    \o [i \in DOMAIN scopes |-> [what |-> ReasonOf(scopes[i]), names |-> {}, scope |-> scopes[i]]]
                    \o [i \in 1..server.endpoints |-> [what |-> "endpoint", names |-> {}]]
                    \o (IF server.badTls THEN <<[what |-> "tls", names |-> {}]>> ELSE <<>>) IN
    [failures |-> failures, table |-> routes.table,
     answer |-> IF failures = <<>> THEN "ok" ELSE IF Len(failures) = 1 /\ server.badTls THEN "TlsError" ELSE "PrepareError"]

-----------------------------------------------------------------------------
\* The gRPC table answers each mounted method with its one handler or refuses the startup, naming
\* every handler it could not hold; and a scope is refused as unreached only when it is: no mounted
\* method and no built-in that runs scoped entries shares a path with it.
GrpcTableSound(server) ==
    LET prepared == GrpcPrepare(server) IN
    /\ prepared.answer = "ok" => \A i \in DOMAIN server.handlers : \E t \in Range(prepared.table) : t = i
    /\ \A i \in DOMAIN server.handlers :
        i \notin Range(prepared.table) => \E f \in Range(prepared.failures) : i \in f.names
    /\ \A a, b \in Range(prepared.table) : server.handlers[a].path = server.handlers[b].path => a = b
    /\ \A f \in Range(prepared.failures) : f.what \in {"NoRoute", "HealthOnly"} =>
        /\ \A i \in DOMAIN server.handlers : server.handlers[i].path \notin f.scope
        /\ (f.what = "HealthOnly") <=> (HealthPath \in f.scope)
===============================================================================
