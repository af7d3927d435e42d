----------------------------- MODULE SocketLinks -----------------------------
(***************************************************************************)
(* UDP and TCP, the links over a socket, and the relay the link tests cut. *)
(* Each part below has its own constants, variables, Init and Next, and    *)
(* shares no state with the others.                                        *)
(***************************************************************************)
EXTENDS Integers, Sequences, FiniteSets

-------------------------------------------------------------------------------
(***************************************************************************)
(* The server side of the UDP link (ulo-rpc-udp/src/link.rs): the network  *)
(* loses, duplicates and reorders datagrams, the receive task maps each    *)
(* sender's id to the server's, reply paths and close share the call table *)
(* under one lock, and the socket's writer outlives the link by its queue. *)
(*                                                                         *)
(* The receive task's poll (recv_from to the delivery) is one action: its  *)
(* only await inside is the send of a delivery whose call is already in    *)
(* the table, or of a refusal already queued. Of the frames the server     *)
(* replies with, only the last changes the table; of those it receives,    *)
(* only requests and cancels do.                                           *)
(***************************************************************************)

CONSTANTS
    Senders,    \* (address, id) pairs a caller names its calls by
    MaxSends    \* bound: datagrams on the network, copies included

VARIABLES
    air,        \* datagrams sent and not yet received or lost
    sends,      \* how many were
    buffer,     \* datagrams in the socket's receive buffer
    byCaller,   \* Ids::by_caller: each sender's call, 0 for none
    byServer,   \* Ids::by_server: [state, from]
    nextId,     \* the calls opened
    udp,        \* [draining, closed, receiving, inbound, writer, dropped]
    queued,     \* the last frames in the writer's queue
    replied,    \* the calls whose handler has replied
    answers,    \* history: the calls whose last frame was queued
    ledger      \* history: requests [arrived, read, refused, cancelled, replaced], frames [sent]

udpVars == <<air, sends, buffer, byCaller, byServer, nextId, udp, queued, replied, answers, ledger>>
networkVars == <<air, sends>>
tableVars == <<byCaller, byServer, nextId>>

UdpIds == 1..MaxSends
Nobody == [state |-> "none", from |-> "nobody"]

UdpInit ==
    /\ air = {} /\ sends = 0 /\ buffer = {}
    /\ byCaller = [s \in Senders |-> 0]
    /\ byServer = [c \in UdpIds |-> Nobody]
    /\ nextId = 0
    /\ udp = [draining |-> FALSE, closed |-> "no", receiving |-> TRUE, inbound |-> "open",
              writer |-> "writing", dropped |-> FALSE]
    /\ queued = 0 /\ replied = {} /\ answers = {}
    /\ ledger = [arrived |-> 0, read |-> 0, refused |-> 0, cancelled |-> 0, replaced |-> 0, sent |-> 0]

UdpLive == {c \in UdpIds : byServer[c].state = "live"}
UdpHeld == {c \in UdpIds : byServer[c].state # "none"}

(***************************************************************************)
(* The network.                                                            *)
(***************************************************************************)
\* A sender's datagram, or a copy of one: a copy may arrive after the first.
Send(s, kind) ==
    /\ sends < MaxSends /\ sends' = sends + 1
    /\ air' = air \cup {[kind |-> kind, from |-> s]}
    /\ UNCHANGED <<buffer, tableVars, udp, queued, replied, answers, ledger>>

Arrive(d) ==
    /\ d \notin buffer
    /\ air' = air \ {d} /\ buffer' = buffer \cup {d}
    /\ ledger' = [ledger EXCEPT !.arrived = @ + IF d.kind = "req" /\ udp.closed # "done" THEN 1 ELSE 0]
    /\ UNCHANGED <<sends, tableVars, udp, queued, replied, answers>>

Lose(d) ==
    /\ air' = air \ {d}
    /\ UNCHANGED <<sends, buffer, tableVars, udp, queued, replied, answers, ledger>>

(***************************************************************************)
(* The receive task.                                                       *)
(***************************************************************************)
\* Ids::open: a second request under one id forgets the first.
UdpOpen(s) ==
    /\ nextId' = nextId + 1
    /\ byCaller' = [byCaller EXCEPT ![s] = nextId']
    /\ byServer' = [c \in UdpIds |-> IF c = nextId' THEN [state |-> "live", from |-> s]
                                     ELSE IF c = byCaller[s] THEN Nobody ELSE byServer[c]]
    /\ ledger' = [ledger EXCEPT !.read = @ + 1, !.replaced = @ + IF byCaller[s] = 0 THEN 0 ELSE 1]
    /\ UNCHANGED queued


\* Ids::cancel: the sender names the call no more; the table keeps it.
UdpCancel(s) ==
    /\ byCaller' = [byCaller EXCEPT ![s] = 0]
    /\ byServer' = [byServer EXCEPT ![byCaller[s]] = [state |-> "cancelled", from |-> s]]
    /\ ledger' = [ledger EXCEPT !.cancelled = @ + 1]
    /\ UNCHANGED <<nextId, queued>>

\* refuse and refuse_after_close: only a request is answered, under its own id.
Refuse(d) ==
    /\ queued' = IF d.kind = "req" THEN queued + 1 ELSE queued
    /\ ledger' = IF d.kind = "req" THEN [ledger EXCEPT !.read = @ + 1, !.refused = @ + 1] ELSE ledger
    /\ UNCHANGED tableVars

\* inward, in one hold of the table's lock.
Inward(d) ==
    \/ d.kind = "req" /\ udp.closed = "no" /\ UdpOpen(d.from)
    \/ d.kind = "req" /\ udp.closed # "no" /\ Refuse(d)
    \/ d.kind = "cancel" /\ byCaller[d.from] # 0 /\ UdpCancel(d.from)
    \/ d.kind = "cancel" /\ byCaller[d.from] = 0 /\ UNCHANGED <<tableVars, queued, ledger>>

Receive(d) ==
    /\ udp.receiving
    /\ buffer' = buffer \ {d}
    /\ IF udp.inbound = "open" THEN Inward(d) ELSE Refuse(d)
    /\ UNCHANGED <<networkVars, udp, replied, answers>>

\* idle, looked at only with nothing to read: the select is biased.
EndInbound ==
    /\ udp.receiving /\ udp.inbound = "open" /\ buffer = {}
    /\ udp.draining /\ UdpHeld = {}
    /\ udp' = [udp EXCEPT !.inbound = "ended"]
    /\ UNCHANGED <<networkVars, buffer, tableVars, queued, replied, answers, ledger>>

(***************************************************************************)
(* The server: its last frames, and the cancels it took.                   *)
(***************************************************************************)
\* queue_reply: the call looked up, its frame queued and Ids::finish, in one
\* hold. The reply to a cancelled call is dropped, that to no call refused.
QueueReply(c) ==
    /\ c <= nextId /\ c \notin replied
    /\ replied' = replied \cup {c}
    /\ IF byServer[c].state = "live"
       THEN /\ queued' = queued + 1 /\ answers' = answers \cup {c}
            /\ byServer' = [byServer EXCEPT ![c] = Nobody]
            /\ byCaller' = [byCaller EXCEPT ![byServer[c].from] = 0]
       ELSE UNCHANGED <<queued, answers, byServer, byCaller>>
    /\ UNCHANGED <<networkVars, buffer, nextId, udp, ledger>>

\* The cancel's Ack settles or drops: Ids::release.
Taken(c) ==
    /\ byServer[c].state = "cancelled"
    /\ byServer' = [byServer EXCEPT ![c] = Nobody]
    /\ UNCHANGED <<networkVars, buffer, byCaller, nextId, udp, queued, replied, answers, ledger>>

(***************************************************************************)
(* drain, close and the link's drop.                                       *)
(***************************************************************************)
UdpDrain ==
    /\ udp.closed = "no" /\ ~udp.draining
    /\ udp' = [udp EXCEPT !.draining = TRUE]
    /\ UNCHANGED <<networkVars, buffer, tableVars, queued, replied, answers, ledger>>

\* answer_held: Ids::forget_all and its answers, in one hold of the lock.
AnswerHeld ==
    /\ udp.closed = "no"
    /\ udp' = [udp EXCEPT !.closed = "swept"]
    /\ queued' = queued + Cardinality(UdpLive) /\ answers' = answers \cup UdpLive
    /\ byCaller' = [s \in Senders |-> 0]
    /\ byServer' = [c \in UdpIds |-> Nobody]
    /\ UNCHANGED <<networkVars, buffer, nextId, replied, ledger>>

\* close ends the receive task and waits for it.
StopReceiving ==
    /\ udp.closed = "swept" /\ ~udp.dropped
    /\ udp' = [udp EXCEPT !.closed = "reading", !.receiving = FALSE]
    /\ UNCHANGED <<networkVars, buffer, tableVars, queued, replied, answers, ledger>>

\* final_read answers what the buffer holds, then close returns.
FinalRead ==
    /\ udp.closed = "reading" /\ ~udp.dropped
    /\ \/ \E d \in buffer : buffer' = buffer \ {d} /\ Refuse(d) /\ UNCHANGED udp
       \/ buffer = {} /\ udp' = [udp EXCEPT !.closed = "done"] /\ UNCHANGED <<buffer, tableVars, queued, ledger>>
    /\ UNCHANGED <<networkVars, replied, answers>>

\* The link drops after close, or with it cut: Owned aborts the receive task.
DropLink ==
    /\ udp.closed # "no" /\ ~udp.dropped
    /\ udp' = [udp EXCEPT !.dropped = TRUE, !.receiving = FALSE]
    /\ UNCHANGED <<networkVars, buffer, tableVars, queued, replied, answers, ledger>>

(***************************************************************************)
(* The writer.                                                             *)
(***************************************************************************)
WriteDatagram ==
    /\ udp.writer = "writing" /\ queued > 0
    /\ queued' = queued - 1
    /\ ledger' = [ledger EXCEPT !.sent = @ + 1]
    /\ UNCHANGED <<networkVars, buffer, tableVars, udp, replied, answers>>

\* drain_queued found the queue empty, or gave up at CUT_GRACE or at a refusal.
WriterEnds(cut) ==
    /\ udp.writer = "writing" /\ udp.dropped
    /\ cut \/ queued = 0
    /\ udp' = [udp EXCEPT !.writer = IF cut THEN "cut" ELSE "ended"]
    /\ UNCHANGED <<networkVars, buffer, tableVars, queued, replied, answers, ledger>>

UdpNext ==
    \/ \E s \in Senders, kind \in {"req", "cancel"} : Send(s, kind)
    \/ \E d \in air : Lose(d) \/ Arrive(d)
    \/ \E d \in buffer : Receive(d)
    \/ EndInbound
    \/ \E c \in UdpIds : Taken(c) \/ QueueReply(c)
    \/ UdpDrain \/ AnswerHeld \/ StopReceiving \/ FinalRead \/ DropLink
    \/ WriteDatagram \/ \E cut \in BOOLEAN : WriterEnds(cut)

UdpSpec == UdpInit /\ [][UdpNext]_udpVars

(***************************************************************************)
(* Properties.                                                             *)
(***************************************************************************)
UdpInflight ==
    [c \in UdpIds |-> IF c > nextId THEN "unborn"
                      ELSE IF byServer[c].state = "none" THEN "gone" ELSE byServer[c].state]
UdpAnswered == answers
UdpHanded == 1..nextId
UdpStream == udp.inbound
UdpClosed == udp.closed # "no"

\* Every request read was answered by its handler, by close or by a refusal,
\* or was cancelled or replaced by its sender; none stays in a table that
\* nothing answers once close has swept it.
UdpRequestsAccounted ==
    /\ ledger.read = Cardinality(answers) + ledger.refused + ledger.cancelled + ledger.replaced + Cardinality(UdpLive)
    /\ udp.closed # "no" => UdpHeld = {}

\* A close that ran to its end has read every request that arrived before it, and
\* the writer sends every answer queued before the link dropped unless its
\* grace ran out.
UdpCloseAnswers ==
    /\ udp.writer = "ended" => ledger.sent = Cardinality(answers) + ledger.refused
    /\ udp.closed = "done" => ledger.read = ledger.arrived

-------------------------------------------------------------------------------
(***************************************************************************)
(* The server side of the TCP links (ulo-rpc-tcp-core/src/link.rs): the    *)
(* accept loop, the connection tasks with a call table each, the forward   *)
(* task that hands their deliveries to the server, and drain and close.    *)
(*                                                                         *)
(* Every step that takes a lock, sends on a channel or waits is an action; *)
(* a reply takes its table's lock twice, so a cancel can come between.     *)
(* Each connection's caller names its calls by one id, which it may use    *)
(* again once it knows its call ended, or before.                          *)
(***************************************************************************)

CONSTANTS
    Peers,      \* the connections callers open
    MaxReqs     \* bound: requests read over all connections

VARIABLES
    tcp,        \* [phase, accept, goaways, stream]: the link's phase and its tasks
    conn,       \* each connection's task: "away", "opening", "reading", "ended", "gone"
    registered, \* State::connections
    goaway,     \* the connections whose queue was given a goaway
    calls,      \* each call: [state, conn, answered, orphan], by server id
    lastId,     \* the calls opened
    held,       \* State::held
    received,   \* deliveries the connections queued: [frame, call]
    server      \* what the server has of each call: "none", "running", "told", "over", or "refused"

tcpVars == <<tcp, conn, registered, goaway, calls, lastId, held, received, server>>
connVars == <<conn, registered, goaway>>
callVars == <<calls, lastId, held>>

TcpIds == 1..MaxReqs
Unopened == [state |-> "unborn", conn |-> "none", answered |-> FALSE, orphan |-> FALSE]

TcpInit ==
    /\ tcp = [phase |-> "running", accept |-> "accepting", goaways |-> "none", stream |-> "open"]
    /\ conn = [p \in Peers |-> "away"] /\ registered = {} /\ goaway = {}
    /\ calls = [c \in TcpIds |-> Unopened] /\ lastId = 0 /\ held = 0
    /\ received = <<>>
    /\ server = [c \in TcpIds |-> "none"]

Live(p) == {c \in TcpIds : calls[c].conn = p /\ calls[c].state = "live"}

(***************************************************************************)
(* The accept loop and the connections.                                    *)
(***************************************************************************)
Accept(p) ==
    /\ tcp.accept = "accepting" /\ tcp.phase = "running" /\ conn[p] = "away"
    /\ conn' = [conn EXCEPT ![p] = "opening"]
    /\ UNCHANGED <<tcp, registered, goaway, callVars, received, server>>

\* The drain ends the loop, or the runtime that refuses its backoff does.
StopAccepting ==
    /\ tcp.accept = "accepting"
    /\ tcp' = [tcp EXCEPT !.accept = "joining"]
    /\ UNCHANGED <<connVars, callVars, received, server>>

\* A handshake fails: nothing was registered.
HandshakeFails(p) ==
    /\ conn[p] = "opening"
    /\ conn' = [conn EXCEPT ![p] = "gone"]
    /\ UNCHANGED <<tcp, registered, goaway, callVars, received, server>>

\* serve registers the connection's queue, then reads the phase.
RegisterConn(p) ==
    /\ conn[p] = "opening"
    /\ conn' = [conn EXCEPT ![p] = "registered"]
    /\ registered' = registered \cup {p}
    /\ UNCHANGED <<tcp, goaway, callVars, received, server>>

ReadPhase(p) ==
    /\ conn[p] = "registered"
    /\ conn' = [conn EXCEPT ![p] = "reading"]
    /\ goaway' = IF tcp.phase = "running" THEN goaway ELSE goaway \cup {p}
    /\ UNCHANGED <<tcp, registered, callVars, received, server>>

Deliver(frame, c) == received' = Append(received, [frame |-> frame, call |-> c])

\* A request: Ids::open, counted, then queued. A stale call is forgotten.
ReadRequest(p) ==
    /\ conn[p] = "reading" /\ lastId < MaxReqs
    /\ lastId' = lastId + 1
    /\ LET stale == Live(p) IN
       /\ calls' = [c \in TcpIds |-> IF c = lastId' THEN [Unopened EXCEPT !.state = "live", !.conn = p]
                                     ELSE IF c \in stale THEN [calls[c] EXCEPT !.state = "gone"] ELSE calls[c]]
       /\ held' = held + 1 - Cardinality(stale)
    /\ Deliver("req", lastId')
    /\ UNCHANGED <<tcp, connVars, server>>

\* A cancel: Ids::cancel, which leaves the count, then queued.
ReadCancel(p) ==
    /\ conn[p] = "reading"
    /\ \E c \in Live(p) :
       /\ calls' = [calls EXCEPT ![c].state = "cancelled"]
       /\ Deliver("cancel", c)
    /\ UNCHANGED <<tcp, connVars, lastId, held, server>>

\* The connection ends: unregistered, its live calls orphaned by Ids::drain.
ReadEnd(p) ==
    /\ conn[p] = "reading"
    /\ conn' = [conn EXCEPT ![p] = "ended"]
    /\ registered' = registered \ {p}
    /\ calls' = [c \in TcpIds |-> IF c \in Live(p) THEN [calls[c] EXCEPT !.state = "cancelled", !.orphan = TRUE] ELSE calls[c]]
    /\ UNCHANGED <<tcp, goaway, lastId, held, received, server>>

\* Its orphans' cancels are queued one by one, with no reply path ...
CancelOrphan(p, c) ==
    /\ conn[p] = "ended" /\ calls[c].conn = p /\ calls[c].orphan /\ calls[c].state = "cancelled"
    /\ calls' = [calls EXCEPT ![c].state = "queued"]
    /\ Deliver("cancel", c)
    /\ UNCHANGED <<tcp, connVars, lastId, held, server>>

\* ... and released together.
ReleaseOrphans(p) ==
    LET orphans == {c \in TcpIds : calls[c].conn = p /\ calls[c].orphan} IN
    /\ conn[p] = "ended" /\ \A c \in orphans : calls[c].state # "cancelled"
    /\ conn' = [conn EXCEPT ![p] = "gone"]
    /\ held' = IF held < Cardinality(orphans) THEN 0 ELSE held - Cardinality(orphans)
    /\ UNCHANGED <<tcp, registered, goaway, calls, lastId, received, server>>

(***************************************************************************)
(* The forward task.                                                       *)
(***************************************************************************)
\* Reads the queue before it looks at the count. Once it ended the stream it
\* answers a request itself; the answer is the reply path's.
Forward ==
    /\ received # <<>>
    /\ received' = Tail(received)
    /\ LET d == Head(received) IN
       IF d.frame = "req"
       THEN /\ server' = [server EXCEPT ![d.call] = IF tcp.stream = "open" THEN "running" ELSE "refused"]
            /\ UNCHANGED <<calls, held>>
       ELSE IF tcp.stream = "open"
       THEN /\ server' = [server EXCEPT ![d.call] = "told"]
            /\ UNCHANGED <<calls, held>>
       \* The delivery is dropped, and with it the Ack that releases the call.
       ELSE /\ UNCHANGED server
            /\ IF calls[d.call].state = "cancelled"
               THEN calls' = [calls EXCEPT ![d.call].state = "gone"] /\ held' = held - 1
               ELSE UNCHANGED <<calls, held>>
    /\ UNCHANGED <<tcp, connVars, lastId>>

EndStream ==
    /\ tcp.stream = "open" /\ received = <<>>
    /\ tcp.phase # "running" /\ held = 0
    /\ tcp' = [tcp EXCEPT !.stream = "ended"]
    /\ UNCHANGED <<connVars, callVars, received, server>>

\* Every connection task and the accept loop dropped their senders.
SendersGone ==
    /\ tcp.stream = "open" /\ received = <<>>
    /\ tcp.accept # "accepting" /\ \A p \in Peers : conn[p] \in {"away", "gone"}
    /\ tcp' = [tcp EXCEPT !.stream = "ended"]
    /\ UNCHANGED <<connVars, callVars, received, server>>

(***************************************************************************)
(* The server, and the refusals' tasks, which reply the same way.          *)
(***************************************************************************)
\* queue_reply looks the call up and queues its last frame ...
Reply(c) ==
    /\ server[c] \in {"running", "refused"}
    /\ calls[c].state = "live" /\ ~calls[c].answered
    /\ calls' = [calls EXCEPT ![c].answered = TRUE]
    /\ UNCHANGED <<tcp, connVars, lastId, held, received, server>>

\* ... then Ids::finish under a second hold, unless the caller cancelled since.
ReplyDone(c) ==
    /\ calls[c].answered /\ calls[c].state = "live"
    /\ calls' = [calls EXCEPT ![c].state = "gone"] /\ held' = held - 1
    /\ UNCHANGED <<tcp, connVars, lastId, received, server>>

\* The server took a cancel and settles its Ack: Ids::release. An orphan's
\* cancel carries none.
TakeCancel(c) ==
    /\ server[c] = "told"
    /\ server' = [server EXCEPT ![c] = "over"]
    /\ IF calls[c].state = "cancelled" /\ ~calls[c].orphan
       THEN calls' = [calls EXCEPT ![c].state = "gone"] /\ held' = held - 1
       ELSE UNCHANGED <<calls, held>>
    /\ UNCHANGED <<tcp, connVars, lastId, received>>

(***************************************************************************)
(* drain and close.                                                        *)
(***************************************************************************)
\* drain advances the phase, then reads the connections.
TcpDrain ==
    /\ tcp.phase = "running"
    /\ tcp' = [tcp EXCEPT !.phase = "draining", !.goaways = "due"]
    /\ UNCHANGED <<connVars, callVars, received, server>>

SendGoaways ==
    /\ tcp.goaways = "due"
    /\ tcp' = [tcp EXCEPT !.goaways = "sent"]
    /\ goaway' = goaway \cup registered
    /\ UNCHANGED <<conn, registered, callVars, received, server>>

\* close ends the accept loop, which aborts the connection tasks where they wait.
TcpClose ==
    /\ tcp.goaways = "sent" /\ tcp.phase = "draining"
    /\ tcp' = [tcp EXCEPT !.phase = "closed", !.accept = "ended"]
    /\ conn' = [p \in Peers |-> "gone"]
    /\ registered' = {}
    /\ UNCHANGED <<goaway, callVars, received, server>>

TcpNext ==
    \/ \E p \in Peers :
          \/ Accept(p) \/ HandshakeFails(p) \/ RegisterConn(p) \/ ReadPhase(p)
          \/ ReadRequest(p) \/ ReadCancel(p) \/ ReadEnd(p)
          \/ ReleaseOrphans(p) \/ \E c \in TcpIds : CancelOrphan(p, c)
    \/ \E c \in TcpIds : Reply(c) \/ ReplyDone(c) \/ TakeCancel(c)
    \/ StopAccepting \/ Forward \/ EndStream \/ SendersGone \/ TcpDrain \/ SendGoaways \/ TcpClose

TcpSpec == TcpInit /\ [][TcpNext]_tcpVars

(***************************************************************************)
(* Properties.                                                             *)
(***************************************************************************)
\* A call as the server sees it: over once its cancel is handed on.
TcpInflight ==
    [c \in TcpIds |-> IF calls[c].state \in {"cancelled", "queued"}
                      THEN IF server[c] \in {"told", "over"} THEN "gone" ELSE "cancelled"
                      ELSE calls[c].state]
TcpAnswered == {c \in TcpIds : calls[c].answered}
TcpHanded == {c \in TcpIds : server[c] \in {"running", "told", "over"}}
TcpStream == tcp.stream
TcpClosed == tcp.phase = "closed"

\* Once drain has sent its goaways, every connection still reading was given
\* one, whichever of the drain and the registration came first.
GoawayReaches ==
    tcp.goaways = "sent" => \A p \in Peers : conn[p] = "reading" => p \in goaway

-------------------------------------------------------------------------------
(***************************************************************************)
(* How a TCP link's connections end (ulo-rpc-tcp-core/src/link.rs): the    *)
(* reading half, which the reply lane's reader or the server's connection  *)
(* task hands to the connection's writer task, the writing half, and the   *)
(* grace both run under once close has ended. A half dropped with the      *)
(* peer's bytes unread resets the connection under the peer.               *)
(***************************************************************************)

CONSTANTS
    Clients,    \* connections opened by the link's client side
    Accepted,   \* connections its server accepted
    MaxCloses,  \* bound: calls of close
    MaxFrames   \* bound: frames queued on a connection

VARIABLES
    epoch,      \* client_epoch, which close and the drop advance
    ended,      \* the highest epoch of a close that ended
    closing,    \* [step, at, waits]: the close under way, and the writers it waits for
    link,       \* "up" or "dropped"
    half,       \* each connection: [at, reader, writer, queued, grace, lane]
    peer        \* each peer: [sends, open]: bytes unread, and its half

connectionVars == <<epoch, ended, closing, link, half, peer>>

Endless == MaxCloses + 2
Connections == Clients \cup Accepted
Unconnected == [at |-> 0, reader |-> "none", writer |-> "none", queued |-> 0, grace |-> "none", lane |-> "open"]
Idle == [step |-> "idle", at |-> 0, waits |-> {}]

TcpConnInit ==
    /\ epoch = 0 /\ ended = 0 /\ closing = Idle /\ link = "up"
    /\ half = [c \in Connections |-> Unconnected]
    /\ peer = [c \in Connections |-> [sends |-> FALSE, open |-> TRUE]]

\* Core::connect and Server::serve: both halves, the writer's end at the epoch.
OpenConnection(c) ==
    /\ link = "up" /\ half[c].reader = "none"
    /\ c \in Accepted => epoch = 0
    /\ half' = [half EXCEPT ![c] = [Unconnected EXCEPT !.at = epoch, !.reader = "lane", !.writer = "writing"]]
    /\ UNCHANGED <<epoch, ended, closing, link, peer>>

Queue(c) ==
    /\ half[c].writer = "writing" /\ half[c].queued < MaxFrames /\ half[c].reader = "lane"
    /\ half' = [half EXCEPT ![c].queued = @ + 1]
    /\ UNCHANGED <<epoch, ended, closing, link, peer>>

(***************************************************************************)
(* The peer.                                                               *)
(***************************************************************************)
PeerSends(c) ==
    /\ peer[c].open /\ ~peer[c].sends /\ half[c].reader # "none"
    /\ peer' = [peer EXCEPT ![c].sends = TRUE]
    /\ UNCHANGED <<epoch, ended, closing, link, half>>

PeerShuts(c) ==
    /\ peer[c].open /\ half[c].reader # "none"
    /\ peer' = [peer EXCEPT ![c].open = FALSE]
    /\ UNCHANGED <<epoch, ended, closing, link, half>>

(***************************************************************************)
(* The reading half.                                                       *)
(***************************************************************************)
\* read_replies and serve read a frame; Reading::discard reads it away.
Read(c) ==
    /\ half[c].reader \in {"lane", "lingering"} /\ peer[c].sends
    /\ peer' = [peer EXCEPT ![c].sends = FALSE]
    /\ UNCHANGED <<epoch, ended, closing, link, half>>

\* The peer's half is closed: LaneEnd::Lost, release, or the end of the linger.
ReadToEnd(c) ==
    /\ half[c].reader \in {"lane", "lingering"} /\ ~peer[c].sends /\ ~peer[c].open
    /\ half' = [half EXCEPT ![c].reader = "done"]
    /\ UNCHANGED <<epoch, ended, closing, link, peer>>

Over(c) == IF c \in Clients THEN epoch # half[c].at ELSE epoch # 0

\* LaneEnd::Closed, and the abort that drops Lingering: the reader is handed over,
\* and dropped if the connection's task is gone.
LaneEnded(c) ==
    /\ half[c].reader = "lane" /\ Over(c)
    /\ half' = [half EXCEPT ![c].reader = IF half[c].grace = "over" THEN "done" ELSE "lingering"]
    /\ UNCHANGED <<epoch, ended, closing, link, peer>>

\* LaneEnd::Dropped: handed over, and the grace begins.
LaneDropped(c) ==
    /\ c \in Clients /\ half[c].reader = "lane"
    /\ half' = [half EXCEPT ![c].reader = IF half[c].grace = "over" THEN "done" ELSE "lingering",
                             ![c].lane = "dropped", ![c].grace = IF @ = "none" THEN "running" ELSE @]
    /\ UNCHANGED <<epoch, ended, closing, link, peer>>

(***************************************************************************)
(* run_connection: the writing half and the grace.                         *)
(***************************************************************************)
WriteFrame(c) ==
    /\ half[c].writer = "writing" /\ half[c].queued > 0
    /\ half' = [half EXCEPT ![c].queued = @ - 1]
    /\ UNCHANGED <<epoch, ended, closing, link, peer>>

WriteFails(c) ==
    /\ half[c].writer = "writing" /\ half[c].queued > 0 /\ ~peer[c].open
    /\ half' = [half EXCEPT ![c].writer = "failed"]
    /\ UNCHANGED <<epoch, ended, closing, link, peer>>

\* What is queued is written first; then close, or the last sender's drop, shuts it.
ShutWriter(c) ==
    /\ half[c].writer = "writing" /\ half[c].queued = 0
    /\ IF c \in Clients THEN epoch # half[c].at \/ half[c].lane = "dropped" ELSE half[c].reader # "lane"
    /\ half' = [half EXCEPT ![c].writer = "shut"]
    /\ UNCHANGED <<epoch, ended, closing, link, peer>>

\* close_ended: a close begun after the connection opened has ended.
GraceBegins(c) ==
    /\ half[c].reader \in {"lane", "lingering"} \/ half[c].writer = "writing"
    /\ half[c].grace = "none" /\ ended > (IF c \in Clients THEN half[c].at ELSE 0)
    /\ half' = [half EXCEPT ![c].grace = "running"]
    /\ UNCHANGED <<epoch, ended, closing, link, peer>>

\* CUT_GRACE passed, or the timer refused it: both halves drop where they are.
GraceEnds(c) ==
    /\ half[c].grace = "running"
    /\ half' = [half EXCEPT ![c] = [@ EXCEPT !.grace = "over",
          !.reader = IF @ = "lingering" THEN "done" ELSE @,
          !.writer = IF @ = "writing" THEN "cut" ELSE @]]
    /\ UNCHANGED <<epoch, ended, closing, link, peer>>

(***************************************************************************)
(* close and the link's drop.                                              *)
(***************************************************************************)
CloseBegins ==
    /\ closing.step = "idle" /\ link = "up" /\ epoch < MaxCloses
    /\ epoch' = epoch + 1
    /\ closing' = [step |-> "aborting", at |-> epoch + 1, waits |-> {}]
    /\ UNCHANGED <<ended, link, half, peer>>

\* The accept loop joined its aborted tasks; the client writers are taken.
CloseWaitsWriters ==
    /\ closing.step = "aborting" /\ \A c \in Accepted : half[c].reader # "lane"
    /\ closing' = [closing EXCEPT !.step = "writers", !.waits = {c \in Clients : half[c].writer = "writing"}]
    /\ UNCHANGED <<epoch, ended, link, half, peer>>

\* Every writer dropped its shut; the guard records the end.
CloseDone ==
    /\ closing.step = "writers" /\ \A c \in closing.waits : half[c].writer # "writing"
    /\ closing' = [closing EXCEPT !.step = "done"]
    /\ ended' = IF ended < closing.at THEN closing.at ELSE ended
    /\ UNCHANGED <<epoch, link, half, peer>>

CloseReturned ==
    /\ closing.step \in {"done", "cut"} /\ closing' = Idle
    /\ UNCHANGED <<epoch, ended, link, half, peer>>

\* The shutdown's cap drops the future.
CloseCut ==
    /\ closing.step \in {"aborting", "writers"}
    /\ closing' = [closing EXCEPT !.step = "cut"]
    /\ ended' = IF ended < closing.at THEN closing.at ELSE ended
    /\ UNCHANGED <<epoch, link, half, peer>>

DropCore ==
    /\ closing.step = "idle" /\ link = "up"
    /\ link' = "dropped" /\ epoch' = epoch + 1 /\ ended' = Endless
    /\ UNCHANGED <<closing, half, peer>>

TcpConnNext ==
    \/ \E c \in Connections :
          \/ OpenConnection(c) \/ Queue(c) \/ PeerSends(c) \/ PeerShuts(c)
          \/ Read(c) \/ ReadToEnd(c) \/ LaneEnded(c) \/ LaneDropped(c)
          \/ WriteFrame(c) \/ WriteFails(c) \/ ShutWriter(c) \/ GraceBegins(c) \/ GraceEnds(c)
    \/ CloseBegins \/ CloseWaitsWriters \/ CloseDone \/ CloseReturned \/ CloseCut \/ DropCore

\* Tasks that can run do; timers fire. The peer owes nothing.
TcpConnFairness ==
    /\ \A c \in Connections : WF_connectionVars(LaneEnded(c)) /\ WF_connectionVars(GraceBegins(c)) /\ WF_connectionVars(GraceEnds(c))
    /\ WF_connectionVars(CloseWaitsWriters) /\ WF_connectionVars(CloseDone)

TcpConnSpec == TcpConnInit /\ [][TcpConnNext]_connectionVars /\ TcpConnFairness

(***************************************************************************)
(* Properties.                                                             *)
(***************************************************************************)
\* The link never closes a reading half over bytes its peer sent, nor a
\* writing half over frames queued, before the connection's grace is over:
\* the peer reads what was written and an end, not a reset. A close that was
\* not cut returns with every client connection it found written out and shut.
ConnectionEndsWhole ==
    /\ \A c \in Connections : half[c].grace # "over" =>
          /\ half[c].reader = "done" => ~peer[c].open
          /\ half[c].writer = "shut" => half[c].queued = 0
    /\ closing.step = "done" => \A c \in Clients : half[c].at < closing.at => half[c].writer # "writing"

\* A close ended, completed or cut, after the connection opened; and the
\* connection lets go of its socket.
ClosedOver(c) == half[c].reader # "none" /\ ended > half[c].at
SocketLetGo(c) == half[c].reader = "done" /\ half[c].writer # "writing"

-------------------------------------------------------------------------------
(***************************************************************************)
(* The TCP relay the suites put between a client and what it reaches       *)
(* (ulo-conformance-support/src/relay.rs): an accepting thread, a thread   *)
(* per relayed connection and one more for its inward direction, and       *)
(* `cut_for`, which severs the connections and holds the client out for an *)
(* outage.  Sockets are external: a socket shut with `Shutdown::Both` ends *)
(* every read and write of it.                                             *)
(***************************************************************************)

CONSTANTS RelayConns,    \* connections clients make to the relay
          MaxCuts        \* calls of `cut_for`

VARIABLES acceptor,      \* what the accepting thread does: [pc, conn]
          stage,         \* RelayConns -> where its thread is
          listed,        \* `Shared::connections`
          slot,          \* RelayConns -> `Upstream`: [socket, cut]
          shut,          \* RelayConns -> sides whose socket was shut both ways
          eof,           \* RelayConns -> sides whose peer closed
          dirs,          \* RelayConns -> directions still copying
          window,        \* `Window`: [outage, shut, reopened]
          cutter,        \* `cut_for`: [pc, severed, calls]
          dropping       \* the relay's drop: "no" | "stopped" | "done"

relayVars == <<acceptor, stage, listed, slot, shut, eof, dirs, window, cutter, dropping>>

Sides == {"client", "server"}

RelayInit ==
  /\ acceptor = [pc |-> "accept", conn |-> {}]
  /\ stage = [c \in RelayConns |-> "new"]
  /\ listed = {}
  /\ slot = [c \in RelayConns |-> [socket |-> FALSE, cut |-> FALSE]]
  /\ shut = [c \in RelayConns |-> {}]
  /\ eof = [c \in RelayConns |-> {}]
  /\ dirs = [c \in RelayConns |-> {}]
  /\ window = [outage |-> FALSE, shut |-> FALSE, reopened |-> FALSE]
  /\ cutter = [pc |-> "idle", severed |-> {}, calls |-> 0]
  /\ dropping = "no"

HasEnded(c) == stage[c] = "ended"

\* One accepted connection, against `stopped` and the outage.
RelayAccept(c) ==
  /\ acceptor.pc = "accept" /\ stage[c] = "new"
  /\ \/ /\ dropping # "no"
        /\ acceptor' = [pc |-> "stopped", conn |-> {}]
        /\ stage' = [stage EXCEPT ![c] = "closed"]
        /\ UNCHANGED window
     \/ /\ dropping = "no" /\ window.outage
        /\ stage' = [stage EXCEPT ![c] = "closed"]
        /\ UNCHANGED <<acceptor, window>>
     \/ /\ dropping = "no" /\ ~window.outage
        /\ window' = [window EXCEPT !.reopened = @ \/ window.shut]
        /\ acceptor' = [pc |-> "push", conn |-> {c}]
        /\ stage' = [stage EXCEPT ![c] = "admitted"]
  /\ UNCHANGED <<listed, slot, shut, eof, dirs, cutter, dropping>>

\* Listed under the lock of `connections`, then its thread started.
Push ==
  /\ acceptor.pc = "push"
  /\ listed' = {c \in listed : ~HasEnded(c)} \cup acceptor.conn
  /\ stage' = [c \in RelayConns |-> IF c \in acceptor.conn THEN "connecting" ELSE stage[c]]
  /\ acceptor' = [pc |-> "accept", conn |-> {}]
  /\ UNCHANGED <<slot, shut, eof, dirs, window, cutter, dropping>>

\* Every way out of `relay` shuts the client's socket (`Closer`).
RelayEnds(c) ==
  /\ stage' = [stage EXCEPT ![c] = "ended"]
  /\ shut' = [shut EXCEPT ![c] = @ \cup {"client"}]

\* The connect fails, or is answered: the socket is kept in the slot unless a cut came first.
RelayConnects(c) ==
  /\ stage[c] = "connecting"
  /\ \/ RelayEnds(c) /\ UNCHANGED <<slot, dirs>>
     \/ /\ ~slot[c].cut
        /\ slot' = [slot EXCEPT ![c].socket = TRUE]
        /\ stage' = [stage EXCEPT ![c] = "copying"]
        /\ dirs' = [dirs EXCEPT ![c] = {"inward", "outward"}]
        /\ UNCHANGED shut
  /\ UNCHANGED <<acceptor, listed, eof, window, cutter, dropping>>

From(d) == IF d = "inward" THEN "client" ELSE "server"

\* A direction reads its source's end.
Copy(c, d) ==
  /\ d \in dirs[c] /\ From(d) \in shut[c] \cup eof[c]
  /\ dirs' = [dirs EXCEPT ![c] = @ \ {d}]
  /\ UNCHANGED <<acceptor, stage, listed, slot, shut, eof, window, cutter, dropping>>

\* A direction with something to write finds the other socket shut, and shuts both.
CopyFails(c, d) ==
  /\ d \in dirs[c] /\ shut[c] \ {From(d)} # {}
  /\ dirs' = [dirs EXCEPT ![c] = @ \ {d}]
  /\ shut' = [shut EXCEPT ![c] = Sides]
  /\ UNCHANGED <<acceptor, stage, listed, slot, eof, window, cutter, dropping>>

\* Both directions over.
RelayJoins(c) ==
  /\ stage[c] = "copying" /\ dirs[c] = {}
  /\ RelayEnds(c)
  /\ UNCHANGED <<acceptor, listed, slot, eof, dirs, window, cutter, dropping>>

PeerCloses(c, side) ==
  /\ stage[c] = "copying" /\ side \notin eof[c]
  /\ eof' = [eof EXCEPT ![c] = @ \cup {side}]
  /\ UNCHANGED <<acceptor, stage, listed, slot, shut, dirs, window, cutter, dropping>>

\* `Relayed::shut` of every connection in `cs`.
Shut(cs) ==
  /\ slot' = [c \in RelayConns |-> IF c \in cs THEN [slot[c] EXCEPT !.cut = TRUE] ELSE slot[c]]
  /\ shut' = [c \in RelayConns |->
                IF c \in cs THEN shut[c] \cup {"client"} \cup (IF slot[c].socket THEN {"server"} ELSE {})
                            ELSE shut[c]]

CutBegins ==
  /\ cutter.pc = "idle" /\ cutter.calls < MaxCuts /\ dropping = "no"
  /\ \E outage \in BOOLEAN :
       window' = [outage |-> outage, shut |-> FALSE, reopened |-> FALSE]
  /\ cutter' = [pc |-> "take", severed |-> {}, calls |-> cutter.calls + 1]
  /\ UNCHANGED <<acceptor, stage, listed, slot, shut, eof, dirs, dropping>>

CutTakes ==
  /\ cutter.pc = "take"
  /\ cutter' = [cutter EXCEPT !.pc = "shut", !.severed = {c \in listed : ~HasEnded(c)}]
  /\ listed' = {}
  /\ UNCHANGED <<acceptor, stage, slot, shut, eof, dirs, window, dropping>>

CutShuts(c) ==
  /\ cutter.pc = "shut" /\ c \in cutter.severed /\ ~slot[c].cut
  /\ Shut({c})
  /\ UNCHANGED <<acceptor, stage, listed, eof, dirs, window, cutter, dropping>>

\* Every severed connection's end awaited, and the moment written for `last_outage`.
CutReturns ==
  /\ cutter.pc = "shut"
  /\ \A c \in cutter.severed : slot[c].cut /\ HasEnded(c)
  /\ window' = [window EXCEPT !.shut = TRUE]
  /\ cutter' = [cutter EXCEPT !.pc = "idle"]
  /\ UNCHANGED <<acceptor, stage, listed, slot, shut, eof, dirs, dropping>>

OutageEnds ==
  /\ window.outage
  /\ window' = [window EXCEPT !.outage = FALSE]
  /\ UNCHANGED <<acceptor, stage, listed, slot, shut, eof, dirs, cutter, dropping>>

\* The relay's drop: `stopped` first, then every listed connection shut under the lock.
DropRelay ==
  \/ /\ dropping = "no" /\ cutter.pc = "idle"
     /\ dropping' = "stopped"
     /\ UNCHANGED <<acceptor, stage, listed, slot, shut, eof, dirs, window, cutter>>
  \/ /\ dropping = "stopped"
     /\ dropping' = "done"
     /\ Shut(listed)
     /\ listed' = {}
     /\ UNCHANGED <<acceptor, stage, eof, dirs, window, cutter>>

RelayThread(c) == RelayConnects(c) \/ RelayJoins(c) \/ \E d \in {"inward", "outward"} : Copy(c, d)

Cutter == CutTakes \/ CutReturns \/ \E c \in RelayConns : CutShuts(c)

RelayNext ==
  \/ \E c \in RelayConns :
       \/ RelayAccept(c) \/ RelayThread(c)
       \/ \E side \in Sides : PeerCloses(c, side)
       \/ \E d \in {"inward", "outward"} : CopyFails(c, d)
  \/ Push
  \/ CutBegins \/ Cutter
  \/ OutageEnds
  \/ DropRelay

\* A thread that can run does, and so does the task polling `cut_for`.
RelaySpec ==
  /\ RelayInit /\ [][RelayNext]_relayVars
  /\ WF_relayVars(Cutter)
  /\ \A c \in RelayConns : WF_relayVars(RelayThread(c))

(***************************************************************************)
(* The outage `last_outage` reports begins when every connection the cut   *)
(* took has ended, its client's socket shut and its thread over, whatever  *)
(* the thread was doing as the cut came: connecting upstream, copying, or  *)
(* already ending.                                                         *)
(***************************************************************************)
OutageReported ==
  window.shut => \A c \in cutter.severed : HasEnded(c) /\ "client" \in shut[c]

\* A cut is under way.
Cutting == cutter.pc # "idle"
===============================================================================
