------------------------------- MODULE WsRules -------------------------------
(***************************************************************************)
(* What WebSocket computes: gateways, envelopes and the Redis settings.    *)
(* Operators only: none of it keeps state.                                 *)
(***************************************************************************)
EXTENDS Naturals, Sequences, FiniteSets, SequencesExt

-------------------------------------------------------------------------------
(***************************************************************************)
(* The gateways one WebSocket server serves (ulo-ws/src/gateway.rs,        *)
(* table.rs): the table built from the mounted connect and message         *)
(* handlers, each gateway's limits, the paths an upgrade is matched by,    *)
(* the handshake's checks, and the close code and reason of a refusal.     *)
(* Pure operators: a path is a sequence of characters, a reason a sequence *)
(* of characters each given by its width in bytes.                         *)
(***************************************************************************)

CONSTANT ReasonLimit   \* REASON_LIMIT, the bytes of a close reason

-----------------------------------------------------------------------------
(* Limits.  Each is [set, n, none]: unset (Count::Default, Bound::Default), *)
(* none (Count::Unlimited, Bound::Unbounded) or a number.                   *)

Counts == {"max_connections", "max_inflight", "max_outbound"}
Bounds == {"ping_interval", "pong_timeout"}
LimitNames == Counts \cup Bounds \cup {"message_limit"}

Unlimited == 2147483647

\* What each limit is when neither the gateway nor the server sets it.
Builtin(name) ==
    CASE name = "max_connections" -> Unlimited
      [] name = "max_inflight"    -> 64
      [] name = "max_outbound"    -> 1024
      [] name = "message_limit"   -> 67108864
      [] OTHER                    -> 30

\* GatewaySettings::at: every limit at its default.
SettingsAt == [name \in LimitNames |-> [set |-> FALSE, n |-> 0, none |-> FALSE]]

\* A limit the gateway leaves unset is the server's, and one neither sets the
\* built-in.
Resolve(settings, defaults, name) ==
    LET chosen == IF settings[name].set THEN settings[name] ELSE defaults[name]
    IN IF ~chosen.set THEN Builtin(name) ELSE IF chosen.none THEN Unlimited ELSE chosen.n

\* FRAME_LIMIT, lowered to the message limit when that is smaller.
FrameLimit(settings, defaults) ==
    LET message == Resolve(settings, defaults, "message_limit")
    IN IF message < 16777216 THEN message ELSE 16777216

\* zero_settings and check_defaults: the limits that would refuse everything.
ZeroSettings(settings) ==
    {name \in LimitNames : settings[name].set /\ ~settings[name].none /\ settings[name].n = 0}
CheckDefaults(defaults) == ZeroSettings(defaults)

-----------------------------------------------------------------------------
(* Paths.                                                                  *)

TrimEnd(path) ==
    SubSeq(path, 1, CHOOSE n \in 0..Len(path) :
                        /\ \A i \in n+1..Len(path) : path[i] = "/"
                        /\ n > 0 => path[n] # "/")
TrimStart(path) == Reverse(TrimEnd(Reverse(path)))

\* join_path: one `/` between the controller's prefix and the gateway's path.
JoinPath(prefix, path) ==
    IF prefix = <<"none">> THEN path
    ELSE LET kept == TrimEnd(prefix)
             rooted == IF kept # <<>> /\ Head(kept) = "/" THEN kept ELSE <<"/">> \o kept
             route == TrimStart(path)
         IN IF route = <<>> THEN rooted
            ELSE IF Last(rooted) = "/" THEN rooted \o route ELSE rooted \o <<"/">> \o route

\* normalized, same_path: one trailing slash is insignificant.
Normalized(path) ==
    IF Len(path) > 1 /\ Last(path) = "/" THEN Front(path) ELSE path
SamePath(a, b) == Normalized(a) = Normalized(b)

-----------------------------------------------------------------------------
(* The table.  A connect is [controller, port, prefix, path, event, limits, *)
(* raw], a message [controller, event, kind] with kind "ws", "other" for a  *)
(* handler value that is not a WsHandler, or "unrouted".                    *)

Reserved == {"id", "data"}

MessagesOf(connect, messages) ==
    SelectSeq(messages, LAMBDA msg : msg.controller = connect.controller)

\* Why a message handler of the gateway is refused, "" when it is not.
MessageRefusal(connect, own, i) ==
    CASE own[i].kind = "other"    -> "not a WsHandler"
      [] own[i].kind = "unrouted" -> "no event"
      [] connect.raw              -> "raw gateway"
      [] own[i].event = "cancel"  -> "reserved event"
      [] \E j \in 1..i-1 : own[j].kind = "ws" /\ own[j].event = own[i].event -> "two handlers"
      [] OTHER                    -> ""

GatewayRefusals(connect) ==
    LET path == JoinPath(connect.prefix, connect.path)
    IN {why \in {"no slash", "param", "event field", "zero"} :
          CASE why = "no slash"    -> path = <<>> \/ Head(path) # "/"
            [] why = "param"       -> "{" \in Range(path)
            [] why = "event field" -> connect.event \in Reserved
            [] OTHER               -> ZeroSettings(connect.limits) # {}}

Taken(table, path) == \E i \in DOMAIN table : SamePath(table[i].path, path)

\* A message handler whose controller mounted no gateway, on either port.
Lost(connects, messages) ==
    \E i \in DOMAIN messages :
        \A j \in DOMAIN connects : connects[j].controller # messages[i].controller

\* build_table: each connect of the port in turn; a path an earlier gateway has
\* is a failure and is not pushed.
BuildTable(connects, messages, port) ==
    LET Step(built, connect) ==
          IF connect.port # port THEN built
          ELSE LET own == MessagesOf(connect, messages)
                   path == JoinPath(connect.prefix, connect.path)
                   refused == {i \in DOMAIN own : MessageRefusal(connect, own, i) # ""}
                   taken == Taken(built.table, path)
               IN [table |-> IF taken THEN built.table
                             ELSE Append(built.table,
                                    [path |-> path, connect |-> connect,
                                     events |-> {own[i].event : i \in DOMAIN own \ refused}]),
                   failed |-> built.failed \/ taken \/ refused # {} \/ GatewayRefusals(connect) # {}]
        built == FoldLeft(Step, [table |-> <<>>, failed |-> FALSE], connects)
    IN [built EXCEPT !.failed = @ \/ Lost(connects, messages)]

\* GatewayTable::own_port: a server of own-port gateways needs one.
OwnPort(connects, messages, defaults) ==
    LET built == BuildTable(connects, messages, "own")
    IN [built EXCEPT !.failed = @ \/ built.table = <<>> \/ CheckDefaults(defaults) # {}]

\* gateway_for: the first gateway at the path, 0 for none.
GatewayFor(table, path) ==
    IF \E i \in DOMAIN table : SamePath(table[i].path, path)
      THEN CHOOSE i \in DOMAIN table :
             /\ SamePath(table[i].path, path)
             /\ \A j \in 1..i-1 : ~SamePath(table[j].path, path)
      ELSE 0

-----------------------------------------------------------------------------
(* The handshake.                                                          *)

\* has_token: a comma-separated header lists the token, in any case.
HasToken(values, token) == \E i \in DOMAIN values : token \in values[i]

\* check_handshake, then the drain: the status answered, 101 to switch.
CheckHandshake(head, draining) ==
    CASE head.method # "GET"                    -> 405
      [] head.version < 11                      -> 400
      [] ~HasToken(head.connection, "upgrade")  -> 400
      [] ~HasToken(head.upgrade, "websocket")   -> 400
      [] head.wsVersion # 13                    -> 426
      [] head.key = ""                          -> 400
      [] draining                               -> 503
      [] OTHER                                  -> 101

\* GatewayTable::handshake: 404 without a gateway at the path.
Handshake(table, path, head, draining) ==
    IF GatewayFor(table, path) = 0 THEN 404 ELSE CheckHandshake(head, draining)

\* The first of the gateway's subprotocols the client offered, "" for none.
Subprotocol(listed, offered) ==
    IF \E i \in DOMAIN listed : listed[i] \in offered
      THEN listed[CHOOSE i \in DOMAIN listed :
                    listed[i] \in offered /\ \A j \in 1..i-1 : listed[j] \notin offered]
      ELSE ""

-----------------------------------------------------------------------------
(* Refusals.                                                               *)

Bytes(reason) == FoldLeft(LAMBDA sum, width : sum + width, 0, reason)

\* check_close: a code a Close frame may carry, and a reason it has room for.
CheckClose(code, reason) ==
    /\ code \in 1000..4999
    /\ code \notin {1004, 1005, 1006, 1015}
    /\ Bytes(reason) <= ReasonLimit

CloseCodeFor(kind) ==
    CASE kind \in {"Unauthorized", "Forbidden", "BadRequest", "NotFound", "Conflict", "Unprocessable"} -> 1008
      [] kind \in {"TooManyRequests", "Unavailable"} -> 1013
      [] OTHER -> 1011

\* truncated: the whole characters within the limit.
Truncated(reason) ==
    IF Bytes(reason) <= ReasonLimit THEN reason
    ELSE LET n == CHOOSE n \in 0..Len(reason) :
                    /\ Bytes(SubSeq(reason, 1, n)) <= ReasonLimit
                    /\ Bytes(SubSeq(reason, 1, n + 1)) > ReasonLimit
         IN SubSeq(reason, 1, n)

\* ConnectRefused::kind and ::code, the latter refused for a bad code or reason.
RefusedKind(kind, reason) ==
    [code |-> CloseCodeFor(kind), reason |-> Truncated(reason), kind |-> kind]
RefusedStatus(refused) == IF refused.kind = "Unauthorized" THEN 401 ELSE 403

\* read_failure: what a read error closes the connection with, 0 for nothing.
ReadFailure(error) ==
    CASE error = "protocol" -> 1002
      [] error = "utf8"     -> 1007
      [] error = "capacity" -> 1009
      [] OTHER              -> 0

-----------------------------------------------------------------------------
\* A server that starts serves what was mounted: when neither port's table
\* reports a failure, an upgrade at a gateway's path, with or without a
\* trailing slash, reaches that gateway; each message handler is an event of
\* its controller's gateway; and no gateway has a limit of zero.
GatewaysServed(connects, messages, defaults) ==
    LET http == BuildTable(connects, messages, "http")
        own == IF \E j \in DOMAIN connects : connects[j].port = "own"
                 THEN OwnPort(connects, messages, defaults)
                 ELSE BuildTable(connects, messages, "own")
    IN (~http.failed /\ ~own.failed) =>
         \A j \in DOMAIN connects :
           LET table == IF connects[j].port = "http" THEN http.table ELSE own.table
               path == JoinPath(connects[j].prefix, connects[j].path)
               at == GatewayFor(table, path)
           IN /\ at # 0 /\ table[at].connect = connects[j]
              /\ Len(path) > 1 => GatewayFor(table, Append(Normalized(path), "/")) = at
              /\ ~\E a, b \in Range(table) : a # b /\ Normalized(a.path) = Normalized(b.path) /\ a.path # b.path
              /\ table[at].events = {messages[i].event : i \in
                    {i \in DOMAIN messages : messages[i].controller = connects[j].controller}}
              /\ "cancel" \notin table[at].events
              /\ \A name \in LimitNames :
                   connects[j].port = "own" => Resolve(connects[j].limits, defaults, name) # 0

\* A gateway's own limit stands whatever the server's default, and one it
\* leaves unset is the server's; a frame is never allowed more than a message.
LimitsLayered(settings, defaults) ==
    /\ \A name \in LimitNames \ {"message_limit"} :
         /\ Resolve(settings, SettingsAt, name) = Resolve(settings, defaults, name)
              \/ ~settings[name].set
         /\ Resolve(SettingsAt, defaults, name) = Resolve(settings, defaults, name)
              \/ settings[name].set
    /\ FrameLimit(settings, defaults) <= Resolve(settings, defaults, "message_limit")

\* A refusal can always be sent: the code its kind maps to and its reason pass
\* the checks of a Close frame, the reason the longest run of whole characters
\* of the message that does.
RefusalSendable(kind, reason) ==
    LET refused == RefusedKind(kind, reason)
    IN /\ CheckClose(refused.code, refused.reason)
       /\ IsPrefix(refused.reason, reason)
       /\ \A n \in Len(refused.reason)+1..Len(reason) :
            ~CheckClose(refused.code, SubSeq(reason, 1, n))

-------------------------------------------------------------------------------
(***************************************************************************)
(* The WebSocket message envelope in both codecs (ulo-ws/src/envelope.rs,  *)
(* codec.rs): a received message's routing keys, its payload, the answers  *)
(* written for it and a broadcast re-encoded per gateway.  Pure operators: *)
(* a message is the sequence of its fields [key, kind, value] as they are  *)
(* written, kind one of "string", "number", "bool", "null" and "list" (an  *)
(* array or an object); an encoded answer is a set of fields.              *)
(***************************************************************************)

Codecs == {"json", "msgpack"}
Frames == {"text", "binary"}

\* Codec::encode and Codec::reads: text for JSON, binary for MessagePack.
FrameOf(codec) == IF codec = "json" THEN "text" ELSE "binary"
Reads(codec, frame) == frame = FrameOf(codec)

NoId == [kind |-> "none", value |-> 0]
Scalar(field) == [kind |-> field.kind, value |-> field.value]

\* The field of a key, the last of several; a map keyed by strings.
Last1(fields, key) ==
    LET at == {i \in DOMAIN fields : fields[i].key = key}
    IN IF at = {} THEN [key |-> key, kind |-> "absent", value |-> 0]
       ELSE fields[CHOOSE i \in at : \A j \in at : j <= i]

BadMessage(id) == [ok |-> FALSE, event |-> 0, id |-> id, data |-> FALSE]
HeadRead(event, id, data) == [ok |-> TRUE, event |-> event, id |-> id, data |-> data]

\* json_id: a scalar's text, `null` for none.
JsonId(field) == IF field.kind \in {"absent", "null"} THEN NoId ELSE Scalar(field)

\* parse_json: the id is read first, so a message without an event still names it.
ParseJson(fields) ==
    LET id == Last1(fields, "id")  event == Last1(fields, "event")
    IN IF id.kind = "list" THEN BadMessage(NoId)
       ELSE IF event.kind # "string" THEN BadMessage(JsonId(id))
       ELSE HeadRead(event.value, JsonId(id), Last1(fields, "data").kind # "absent")

\* HeadSeed: one pass, ended by the first field of the wrong kind.
VisitMap(fields) ==
    LET Wrong(field) ==
          \/ field.key = "event" /\ field.kind # "string"
          \/ field.key = "id" /\ field.kind = "list"
    IN \A i \in DOMAIN fields : ~Wrong(fields[i])

\* IdScalar: nil is no id.
IdScalar(field) == IF field.kind \in {"absent", "null"} THEN NoId ELSE Scalar(field)

ParseMsgpack(fields) ==
    LET event == Last1(fields, "event")
        id == IdScalar(Last1(fields, "id"))
    IN IF ~VisitMap(fields) THEN BadMessage(NoId)
       ELSE IF event.kind = "absent" THEN BadMessage(id)
       ELSE HeadRead(event.value, id, Last1(fields, "data").kind # "absent")

Parse(codec, frame, fields) ==
    IF ~Reads(codec, frame) THEN BadMessage(NoId)
    ELSE IF codec = "json" THEN ParseJson(fields) ELSE ParseMsgpack(fields)

\* Payload: absent, present or malformed, as the type expects `kind`; the
\* MessagePack message is decoded again, and refuses a key given twice.
Payload(codec, fields, kind) ==
    LET given == {i \in DOMAIN fields : fields[i].key = "data"}
        field == Last1(fields, "data")
    IN IF given = {} THEN "missing"
       ELSE IF codec = "msgpack" /\ \E i, j \in given : i # j THEN "malformed"
       ELSE IF field.kind = kind THEN "payload" ELSE "malformed"

\* An answer's fields: the id when there is one, and what it carries.
WriteId(id) == IF id = NoId THEN {} ELSE {<<"id", id>>}
\* data: refused for a frame the codec does not write.
DataAnswer(codec, id, frame) ==
    IF Reads(codec, frame) THEN WriteId(id) \cup {<<"data", NoId>>} ELSE {}
CompleteAnswer(id) == WriteId(id) \cup {<<"complete", NoId>>}
\* error: whatever the details, a body is written.
ErrorAnswer(id) == WriteId(id) \cup {<<"error", NoId>>}

\* A broadcast travels as JSON under "event"; each gateway writes it under its
\* own event field, in its own codec.
Carry(event, data) == [event |-> event, data |-> data]
EventMessage(codec, field, carried) ==
    [frame |-> FrameOf(codec),
     fields |-> <<[key |-> field, kind |-> "string", value |-> carried.event],
                  [key |-> "data", kind |-> carried.data.kind, value |-> carried.data.value]>>]

-----------------------------------------------------------------------------
Keys(fields) == {fields[i].key : i \in DOMAIN fields}
Distinct(fields) == \A i, j \in DOMAIN fields : fields[i].key = fields[j].key => i = j

\* A client may change codec and nothing else: a message naming each key once
\* is routed alike under JSON and MessagePack, its event, id and data the same,
\* and a payload read from it is the same; each refuses what the other refuses.
CodecsAgree(fields) ==
    Distinct(fields) =>
        LET json == ParseJson(fields)  msgpack == ParseMsgpack(fields)
        IN /\ json.ok = msgpack.ok
           /\ json.ok => json = msgpack
           /\ \A kind \in {"string", "number"} :
                json.ok => /\ Payload("json", fields, kind) = Payload("msgpack", fields, kind)
                           /\ (Payload("json", fields, kind) = "missing") = ~json.data

\* An answer finds its message: whatever a message's handler answers, the
\* frame is of the gateway's codec and carries the id the message gave, when
\* it gave one, beside exactly one of data, complete and error; and a message
\* refused for its event alone is answered under its id (JSON).
AnswersNamed(codec, fields) ==
    LET head == Parse(codec, FrameOf(codec), fields)
        given == Last1(fields, "id")
        named == {<<"id", Scalar(given)>>}
        answers == {DataAnswer(codec, head.id, FrameOf(codec)),
                    CompleteAnswer(head.id), ErrorAnswer(head.id)}
    IN \A answer \in (IF head.ok THEN answers ELSE {ErrorAnswer(head.id)}) :
         /\ \E what \in {"data", "complete", "error"} :
              answer \ named = {<<what, NoId>>}
         /\ (head.ok \/ codec = "json") =>
              (named \subseteq answer) = (given.kind \notin {"absent", "null", "list"})

\* A broadcast reaches every gateway whole: the message each writes, read as a
\* client of that gateway reads it, has the event and the data published.
BroadcastRead(codec, field, event, data) ==
    LET written == EventMessage(codec, field, Carry(event, data))
    IN /\ Reads(codec, written.frame)
       /\ Last1(written.fields, field).value = event
       /\ Scalar(Last1(written.fields, "data")) = data

-------------------------------------------------------------------------------
(***************************************************************************)
(* The Redis broadcast adapter's pure parts (ulo-ws-redis/src/lib.rs): the *)
(* settings it reports of its URL, what `prepare` refuses, and the log of  *)
(* messages of other builds, bounded by KindsLogged kinds of KindShown     *)
(* characters.  A URL is the record of what it spells; a kind is a         *)
(* sequence of characters.  The redis client's reading of a URL is         *)
(* external, modelled from how `reading` uses it.                          *)
(***************************************************************************)

CONSTANTS KindsLogged,   \* KINDS_LOGGED
          KindShown      \* KIND_SHOWN

Unread == "[unreadable]"

\* A port not written is 6379, a database not written 0, a protocol not written resp2.
ReadsUrl(u) == u.database # "word" /\ u.protocol # "resp9"

Canonical(u) ==
  IF u.scheme = "unix" THEN <<"redis+unix", u.host>>
  ELSE <<IF u.scheme = "rediss" THEN "rediss" ELSE "redis", u.host, IF u.port = "" THEN "6379" ELSE u.port>>

\* What the client reads: where it connects, the database, the protocol, and, for TLS alone,
\* whether the certificate is verified.  No userinfo.
Reading(u) ==
  [url |-> Canonical(u),
   database |-> IF u.database = "" THEN "0" ELSE u.database,
   protocol |-> IF u.protocol = "" THEN "resp2" ELSE u.protocol,
   verify |-> IF u.scheme = "rediss" THEN <<~u.insecure>> ELSE <<>>]

\* `settings`: an unreadable URL is reported by its scheme, host and port as written.
Settings(u, within) ==
  [read |-> IF ReadsUrl(u) THEN Reading(u)
            ELSE [url |-> <<u.scheme, u.host, u.port>>, database |-> Unread, protocol |-> Unread, verify |-> <<>>],
   within |-> within]

\* `prepare`, in its order: the runtime, its IO driver, the URL, the bound.
Refusal(u, within, runtime) ==
  CASE runtime = "none"   -> "runtime"
    [] runtime = "no_io"  -> "io"
    [] ~ReadsUrl(u)       -> "url"
    [] within = 0         -> "within"
    [] OTHER              -> "ok"

\* Where the redis client connects and how, from the text alone.
Connects(u) ==
  [at |-> Canonical(u),
   database |-> IF u.database = "" THEN "0" ELSE u.database,
   protocol |-> IF u.protocol = "" THEN "resp2" ELSE u.protocol,
   unverified |-> u.scheme = "rediss" /\ u.insecure]

(***************************************************************************)
(* Two adapters that both pass `prepare` report equal settings exactly     *)
(* where their connections do the same: the same endpoint, database and    *)
(* protocol, and the same verification of the server's certificate, so a   *)
(* second registration is taken for the first only when it is the first.   *)
(* Credentials never tell two apart.                                       *)
(***************************************************************************)
SettingsTellConnections(u, v, within) ==
  Refusal(u, within, "io") = "ok" /\ Refusal(v, within, "io") = "ok" =>
    (Settings(u, within) = Settings(v, within) <=> Connects(u) = Connects(v))

Shown(kind) == IF Len(kind) <= KindShown THEN kind ELSE SubSeq(kind, 1, KindShown) \o <<"...">>

\* `Sightings::sight`.
Sight(s, kind) ==
  CASE Contains(s.kinds, kind)       -> [s EXCEPT !.told = "again"]
    [] Len(s.kinds) < KindsLogged    -> [s EXCEPT !.kinds = Append(@, kind), !.told = "first"]
    [] s.full                        -> [s EXCEPT !.told = "again"]
    [] OTHER                         -> [s EXCEPT !.full = TRUE, !.told = "full"]

\* `dropped`: the level a message is logged at, the malformed one's sighting left alone.
Dropped(s, message) ==
  IF message.malformed THEN [s EXCEPT !.told = "malformed"]
  ELSE Sight(s, <<message.of>> \o Shown(message.kind))

NoSightings == [kinds |-> <<>>, full |-> FALSE, told |-> "none"]

\* The states of the log after each of the messages.
Log(messages) ==
  LET log[n \in 0..Len(messages)] == IF n = 0 THEN NoSightings ELSE Dropped(log[n - 1], messages[n])
  IN [n \in 1..Len(messages) |-> log[n]]

WarnsOf(messages) == {n \in 1..Len(messages) : Log(messages)[n].told \in {"first", "full"}}

(***************************************************************************)
(* However many messages of other builds arrive, and whatever kinds they   *)
(* name, a process warns of each remembered kind once and once more to say *)
(* that it stopped, keeps at most KindsLogged kinds of bounded length, and *)
(* is silent about no kind before it said so.  A malformed message is      *)
(* logged each time.                                                       *)
(***************************************************************************)
WarnsBounded(messages) ==
  LET log == Log(messages) IN
    /\ Cardinality(WarnsOf(messages)) <= KindsLogged + 1
    /\ \A n \in 1..Len(messages) :
         /\ Len(log[n].kinds) <= KindsLogged
         /\ \A i \in 1..Len(log[n].kinds) : Len(log[n].kinds[i]) <= KindShown + 2
         /\ messages[n].malformed <=> log[n].told = "malformed"
         /\ log[n].told = "again" =>
              \/ \E k \in 1..(n - 1) : log[k].told = "full"
              \/ \E k \in 1..(n - 1) : ~messages[k].malformed /\ messages[k].of = messages[n].of
                                       /\ Shown(messages[k].kind) = Shown(messages[n].kind)
===============================================================================
