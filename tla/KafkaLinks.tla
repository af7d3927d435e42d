----------------------------- MODULE KafkaLinks ------------------------------
(***************************************************************************)
(* The Kafka link: the server's consumer and the client's call table.      *)
(* Each part below has its own constants, variables, Init and Next, and    *)
(* shares no state with the others.                                        *)
(***************************************************************************)
EXTENDS Integers, Sequences, FiniteSets, SequencesExt, FiniteSetsExt

-------------------------------------------------------------------------------
(***************************************************************************)
(* The server side of the Kafka link (ulo-rpc-kafka/src/link.rs): what a   *)
(* group reads, pauses, settles and commits over its instances' lives.     *)
(*                                                                         *)
(* A partition is its count of records; a record is [at, offset]. The log, *)
(* the group's committed offsets and librdkafka's consumer are external,   *)
(* as the link uses them: a stored offset is the last one stored, a commit *)
(* only advances. One instance runs at a time.                             *)
(***************************************************************************)

CONSTANTS
    Partitions,
    MaxRecords,    \* records produced to each partition, at most
    InflightLimit, \* Link::max_inflight's bound
    MaxLives       \* instances that serve one after another, at most

VARIABLES
    produced,      \* records in each partition
    committed,     \* the group's committed offset, -1 with none
    owed,          \* records handed to a handler and completed by none
    life,          \* which instance serves, 0 before the first
    instance       \* the serving instance, see KafkaInstance

kafkaVars == <<produced, committed, owed, life, instance>>

\* phase: "down" | "serving" | "draining" | "closed"
\* lane: "reading" | "bounded" (in at_bound) | "ended"
\* read: the next offset to read; stored: the last offset stored
\* inflight: records handed over and not settled; calls: calls held
KafkaInstance(phase, start) ==
    [phase |-> phase, lane |-> "reading", assigned |-> {}, paused |-> {}, read |-> start, stored |-> start,
     kept |-> <<>>, inflight |-> {}, calls |-> {}, deliveries |-> "open", handed |-> {}, start |-> start]

KafkaRecord(p, o) == [at |-> p, offset |-> o]

KafkaInit ==
    /\ produced \in [Partitions -> 0..1]
    /\ committed = [p \in Partitions |-> -1]
    /\ owed = {} /\ life = 0
    /\ instance = KafkaInstance("down", [p \in Partitions |-> 0])

Produce(p) ==
    /\ produced[p] < MaxRecords
    /\ produced' = [produced EXCEPT ![p] = @ + 1]
    /\ UNCHANGED <<committed, owed, life, instance>>

\* anchor: each partition the group has never committed on starts at its end.
Anchor == [p \in Partitions |-> IF committed[p] = -1 THEN produced[p] ELSE committed[p]]

\* listen, after the first bind or a restart: reading starts at the committed
\* offset, or at the end where there is none.
Bind ==
    /\ instance.phase = "down" /\ life < MaxLives
    /\ life' = life + 1
    /\ committed' = Anchor
    /\ instance' = KafkaInstance("serving", [p \in Partitions |-> IF Anchor[p] = -1 THEN produced[p] ELSE Anchor[p]])
    /\ UNCHANGED <<produced, owed>>

\* A rebalance assigns a partition, not paused.
Assign(p) ==
    /\ instance.phase = "serving" /\ p \notin instance.assigned
    /\ instance' = [instance EXCEPT !.assigned = @ \cup {p}]
    /\ UNCHANGED <<produced, committed, owed, life>>

\* on_request: counted, held, delivered; past the stream's end it is dropped.
HandOver(i, r) ==
    IF i.deliveries = "open"
    THEN [i EXCEPT !.inflight = @ \cup {r}, !.calls = @ \cup {r}, !.handed = @ \cup {r}]
    ELSE [i EXCEPT !.calls = @ \cup {r}]

\* at_bound, entered: the assignment paused.
Bounded(i) ==
    IF Cardinality(i.inflight) < InflightLimit THEN i ELSE [i EXCEPT !.lane = "bounded", !.paused = i.assigned]

Readable(p) ==
    /\ instance.phase \in {"serving", "draining"}
    /\ p \in instance.assigned \ instance.paused
    /\ instance.read[p] < produced[p]

\* request_lane reads and hands over.
RequestLane(p) ==
    /\ instance.lane = "reading" /\ Readable(p)
    /\ instance' = Bounded(HandOver([instance EXCEPT !.read[p] = @ + 1], KafkaRecord(p, instance.read[p])))
    /\ owed' = owed \cup (instance'.inflight \ instance.inflight)
    /\ UNCHANGED <<produced, committed, life>>

\* at_bound: a record of a partition assigned since is kept, and it paused.
Keep(p) ==
    /\ instance.lane = "bounded" /\ Readable(p)
    /\ instance' = [instance EXCEPT !.read[p] = @ + 1, !.paused = instance.assigned,
                                    !.kept = Append(@, KafkaRecord(p, instance.read[p]))]
    /\ UNCHANGED <<produced, committed, owed, life>>


\* at_bound, with room: what it kept goes first, then the assignment resumes.
Room ==
    /\ instance.lane = "bounded" /\ Cardinality(instance.inflight) < InflightLimit
    /\ instance' = IF instance.kept # <<>>
                   THEN HandOver([instance EXCEPT !.kept = Tail(@)], Head(instance.kept))
                   ELSE [instance EXCEPT !.lane = "reading",
                                         !.paused = IF instance.phase = "serving" THEN {} ELSE @]
    /\ owed' = owed \cup (instance'.inflight \ instance.inflight)
    /\ UNCHANGED <<produced, committed, life>>

\* The lane sees the phase change.
LaneEnds ==
    /\ instance.phase \in {"draining", "closed"} /\ instance.lane # "ended"
    /\ instance' = [instance EXCEPT !.lane = "ended"]
    /\ UNCHANGED <<produced, committed, owed, life>>

\* The handler's last frame releases the call.
KafkaAnswer(r) ==
    /\ instance.phase # "down" /\ r \in instance.inflight /\ r \in instance.calls
    /\ instance' = [instance EXCEPT !.calls = @ \ {r}]
    /\ UNCHANGED <<produced, committed, owed, life>>

\* Its Ack stores the record's offset and leaves the count.
KafkaSettle(r) ==
    /\ instance.phase # "down" /\ r \in instance.inflight
    /\ r \notin instance.calls
    /\ instance' = [instance EXCEPT !.inflight = @ \ {r}, !.stored[r.at] = r.offset + 1]
    /\ owed' = owed \ {r}
    /\ UNCHANGED <<produced, committed, life>>

Commit == [p \in Partitions |-> Max({committed[p], instance.stored[p]})]

AutoCommit ==
    /\ instance.phase # "down" /\ Commit # committed
    /\ committed' = Commit
    /\ UNCHANGED <<produced, owed, life, instance>>

KafkaDrain ==
    /\ instance.phase = "serving"
    /\ instance' = [instance EXCEPT !.phase = "draining", !.paused = instance.assigned]
    /\ UNCHANGED <<produced, committed, owed, life>>

\* The drain's watcher saw no call held.
KafkaDrained ==
    /\ instance.phase = "draining" /\ instance.calls = {} /\ instance.deliveries = "open"
    /\ instance' = [instance EXCEPT !.deliveries = "ended"]
    /\ UNCHANGED <<produced, committed, owed, life>>

\* close: the calls cleared, the stream taken, the offsets committed.
KafkaClose ==
    /\ instance.phase \in {"serving", "draining"}
    /\ instance' = [instance EXCEPT !.phase = "closed", !.calls = {}, !.deliveries = "ended"]
    /\ committed' = Commit
    /\ UNCHANGED <<produced, owed, life>>

\* The process ends, closed or not.
Gone ==
    /\ instance.phase # "down"
    /\ instance' = KafkaInstance("down", instance.start)
    /\ UNCHANGED <<produced, committed, owed, life>>

KafkaNext ==
    \/ \E p \in Partitions : Produce(p) \/ Assign(p) \/ RequestLane(p) \/ Keep(p)
    \/ \E r \in instance.inflight : KafkaAnswer(r) \/ KafkaSettle(r)
    \/ Bind \/ Room \/ LaneEnds \/ AutoCommit \/ KafkaDrain \/ KafkaDrained \/ KafkaClose \/ Gone

KafkaSpec == KafkaInit /\ [][KafkaNext]_kafkaVars

(***************************************************************************)
(* Properties.                                                             *)
(***************************************************************************)
\* The records in flight never pass the server's bound, across pauses,
\* rebalances and the records kept while paused.
KafkaBounded == Cardinality(instance.inflight) <= InflightLimit

\* An instance hands over each partition's records without a gap, from where
\* it started to where it has read but for what it still keeps; a restarted
\* group starts where an earlier instance committed, never later, so a record
\* produced while none ran is read.
KafkaNoGap ==
    instance.phase = "serving" =>
        /\ \A p \in Partitions, o \in 0..MaxRecords - 1 :
              o \in instance.start[p]..instance.read[p] - 1 =>
                  KafkaRecord(p, o) \in instance.handed \cup {instance.kept[i] : i \in DOMAIN instance.kept}
        /\ \A p \in Partitions : committed[p] # -1 /\ instance.start[p] <= committed[p]

-------------------------------------------------------------------------------
(***************************************************************************)
(* The writers of the Kafka link (ulo-rpc-kafka/src/link.rs): the client's *)
(* writer and reply router over the table of calls, and the server's       *)
(* writer of replies. A writer queues one record at a time with            *)
(* librdkafka, waits for the delivery reports beside the records that      *)
(* follow, and answers each send.                                          *)
(*                                                                         *)
(* A send is [call, kind, n, big]; `big` is a body over MAX_MESSAGE.       *)
(* librdkafka, the topics and the server that replies are external.        *)
(***************************************************************************)

CONSTANTS
    OneShot,   \* calls that are one request or one event
    Streamed,  \* calls that open a stream
    MaxIns,    \* `in` frames of a streamed request, at most
    Replies    \* records the server's writer is given

VARIABLES
    side,        \* whose sends the writer takes: "unary" | "stream" of a client, "server"
    sends,       \* every send called so far
    queue,       \* the writer's ordered queue
    entries,     \* ClientSide::calls: "none" | "unary" | "holding" | "opened" | "cancelled"
    held,        \* the frames of a streamed request not acknowledged yet
    holds,       \* calls whose held `cancel` has its timer
    writing,     \* what the writer is producing, first first
    stage,       \* "take" | "grab" (live_producer) | "room" (enqueue) | "cancelling"
    delivering,  \* records queued whose report is awaited
    log,         \* records in the order librdkafka queued them
    arrived,     \* records the broker holds
    answers,     \* sends answered, with the answer
    replies,     \* the reply topic, unread
    replied,     \* what the server wrote to the reply topic
    routed,      \* calls whose terminal frame reached the client
    router,      \* "reading" | "ended"
    closing,     \* close was called
    producer     \* "live" | "gone"

kcVars == <<side, sends, queue, entries, held, holds, writing, stage, delivering, log, arrived, answers, replies,
            replied, routed, router, closing, producer>>
writerVars == <<queue, writing, stage, delivering, log>>
callVars == <<entries, held, holds>>
replyVars == <<replies, replied, routed, router, closing, producer>>

KafkaIds == OneShot \cup Streamed \cup Replies
Send(c, kind, n, big) == [call |-> c, kind |-> kind, n |-> n, big |-> big]
Opened(c) == Send(c, "opened", 0, FALSE)
Starts == {"req", "evt", "open"}

\* Delivering: a record and how its outcome is told: "call" forgets the call
\* that failed, "none" only answers, "held" answers nothing more.
Record(s, tells) == [send |-> s, tells |-> tells]

KafkaCallsInit ==
    /\ side \in {"unary", "stream", "server"}
    /\ sends = <<>> /\ queue = <<>> /\ writing = <<>> /\ stage = "take" /\ delivering = {} /\ log = <<>>
    /\ entries = [c \in KafkaIds |-> "none"] /\ held = [c \in KafkaIds |-> <<>>] /\ holds = {}
    /\ arrived = {} /\ answers = {} /\ replies = <<>> /\ replied = {} /\ routed = {}
    /\ router = "reading" /\ closing = FALSE /\ producer = "live"

SentOf(c) == SelectSeq(sends, LAMBDA s : s.call = c)
KindsOf(c) == {SentOf(c)[i].kind : i \in DOMAIN SentOf(c)}

\* What a caller may send next for a call (external: RpcClient's sends; for the
\* server's writer, the handler's replies).
Callable(c) ==
    IF side = "server" THEN {Send(c, "reply", 0, b) : b \in {x \in BOOLEAN : c \in Replies /\ SentOf(c) = <<>>}}
    ELSE IF side = "unary" /\ c \in OneShot
    THEN {Send(c, k, 0, b) : k \in {k \in {"req", "evt"} : SentOf(c) = <<>>}, b \in BOOLEAN}
           \cup {Send(c, "cancel", 0, FALSE) : k \in {k \in {"req"} : KindsOf(c) = {k}}}
    ELSE IF side = "stream" /\ c \in Streamed
    THEN {Send(c, "open", 0, FALSE) : x \in {x \in {0} : SentOf(c) = <<>>}}
           \cup {Send(c, k, Len(SentOf(c)), b /\ k = "in") :
                    k \in {k \in {"in", "in_end"} : SentOf(c) # <<>> /\ KindsOf(c) \cap {"in_end", "cancel"} = {}
                                                      /\ (k = "in" => Len(SentOf(c)) <= MaxIns)},
                    b \in {FALSE, Len(SentOf(c)) = MaxIns}}
           \cup {Send(c, "cancel", 9, FALSE) : x \in {x \in {0} : SentOf(c) # <<>> /\ "cancel" \notin KindsOf(c)}}
    ELSE {}

\* Sender::send and write: queued at the call, in the order of the calls.
Call(c) ==
    \E s \in Callable(c) :
        /\ sends' = Append(sends, s)
        /\ queue' = Append(queue, s)
        /\ UNCHANGED <<side, writing, stage, delivering, log, callVars, arrived, answers, replyVars>>

Answered(s, outcome) == answers' = answers \cup {[send |-> s, outcome |-> outcome]}

\* The writer goes on to the records `rs`.
Producing(rs) == writing' = rs /\ stage' = IF rs = <<>> THEN "take" ELSE "grab"

\* Frame::Req, Frame::Evt and Frame::Open, and a reply of the server's writer:
\* the entry is there before the record is.
TakeStart(s) ==
    /\ s.kind \in Starts \cup {"reply"}
    /\ entries' = CASE s.kind = "req"  -> [entries EXCEPT ![s.call] = "unary"]
                    [] s.kind = "open" -> [entries EXCEPT ![s.call] = "holding"]
                    [] OTHER           -> entries
    /\ Producing(<<Record(s, IF s.kind \in {"req", "open"} THEN "call" ELSE "none")>>)
    /\ UNCHANGED <<held, holds, answers>>

\* ClientSide::control: held until the server's `opened`, produced after it,
\* dropped for a call that has ended.
Control(s) ==
    CASE entries[s.call] = "holding" -> /\ held' = [held EXCEPT ![s.call] = Append(@, s)]
                                        /\ Producing(<<>>) /\ Answered(s, "ok")
      [] entries[s.call] = "opened"  -> Producing(<<Record(s, "held")>>) /\ UNCHANGED <<held, answers>>
      [] OTHER                       -> Producing(<<>>) /\ Answered(s, "ok") /\ UNCHANGED held

\* Frame::In and Frame::InEnd; an `in` too large is refused.
TakeControl(s) ==
    /\ s.kind \in {"in", "in_end"}
    /\ IF s.big THEN Producing(<<>>) /\ Answered(s, "err") /\ UNCHANGED held ELSE Control(s)
    /\ UNCHANGED <<entries, holds>>

\* Frame::Cancel: the entry is taken out; a call still unacknowledged is put
\* back as Cancelled under a second lock (CancelHeld).
TakeCancel(s) ==
    /\ s.kind = "cancel"
    /\ entries' = [entries EXCEPT ![s.call] = "none"]
    /\ held' = [held EXCEPT ![s.call] = <<>>]
    /\ CASE entries[s.call] = "unary"   -> Producing(<<Record(s, "none")>>) /\ UNCHANGED answers
         [] entries[s.call] = "opened"  -> Producing(<<Record(s, "held")>>) /\ UNCHANGED answers
         [] entries[s.call] = "holding" -> writing' = <<Record(s, "held")>> /\ stage' = "cancelling" /\ UNCHANGED answers
         [] OTHER                       -> Producing(<<>>) /\ Answered(s, "ok")
    /\ UNCHANGED holds

CancelHeld ==
    /\ stage = "cancelling"
    /\ LET s == Head(writing).send IN
       /\ entries' = [entries EXCEPT ![s.call] = "cancelled"]
       /\ holds' = holds \cup {s.call}
       /\ Answered(s, "ok")
    /\ Producing(<<>>)
    /\ UNCHANGED <<side, sends, queue, held, delivering, log, arrived, replyVars>>

\* Job::Opened: the frames held go out before anything queued behind it.
TakeOpened(s) ==
    /\ s.kind = "opened"
    /\ LET c == s.call IN
       /\ entries' = CASE entries[c] = "holding"   -> [entries EXCEPT ![c] = "opened"]
                       [] entries[c] = "cancelled" -> [entries EXCEPT ![c] = "none"]
                       [] OTHER                    -> entries
       /\ Producing(CASE entries[c] = "holding"   -> [i \in DOMAIN held[c] |-> Record(held[c][i], "held")]
                      [] entries[c] = "cancelled" -> <<Record(Send(c, "cancel", 9, FALSE), "held")>>
                      [] OTHER                    -> <<>>)
       /\ held' = IF entries[c] = "holding" THEN [held EXCEPT ![c] = <<>>] ELSE held
    /\ UNCHANGED <<holds, answers>>

\* client_writer and server_writer take the next job.
Take ==
    /\ stage = "take" /\ queue # <<>>
    /\ queue' = Tail(queue)
    /\ TakeStart(Head(queue)) \/ TakeControl(Head(queue)) \/ TakeCancel(Head(queue)) \/ TakeOpened(Head(queue))
    /\ UNCHANGED <<side, sends, delivering, log, arrived, replyVars>>

\* settle, for a record that was not queued; produce_held logs it.
Unqueued(r) ==
    /\ entries' = IF r.tells = "call" THEN [entries EXCEPT ![r.send.call] = "none"] ELSE entries
    /\ Answered(r.send, IF r.tells = "held" THEN "ok" ELSE "err")
    /\ Producing(Tail(writing))
    /\ UNCHANGED <<side, sends, queue, held, holds, delivering, log, arrived, replyVars>>

\* live_producer, then enqueue's check of the size.
Grab ==
    /\ stage = "grab"
    /\ IF producer = "gone" \/ Head(writing).send.big THEN Unqueued(Head(writing))
       ELSE stage' = "room" /\ UNCHANGED <<side, sends, queue, callVars, writing, delivering, log, arrived, answers, replyVars>>

\* librdkafka queues the i-th record the writer has to produce.
EnqueueAt(i) ==
    /\ stage = "room"
    /\ LET r == writing[i] IN
       /\ log' = Append(log, r.send)
       /\ delivering' = delivering \cup {r}
       /\ IF r.tells = "held" THEN Answered(r.send, "ok") ELSE UNCHANGED answers
    /\ Producing(RemoveAt(writing, i))
    /\ UNCHANGED <<side, sends, queue, callVars, arrived, replyVars>>

\* enqueue: one that finds no room is offered again, nothing going past it.
Enqueue == EnqueueAt(1)

\* enqueue: refused, or without room for QUEUE_TIMEOUT.
EnqueueRefused == stage = "room" /\ Unqueued(Head(writing))

\* The broker takes a queued record.
Deliver(r) ==
    /\ r.send \notin arrived
    /\ arrived' = arrived \cup {r.send}
    /\ UNCHANGED <<side, sends, writerVars, callVars, answers, replyVars>>

\* settle: the delivery report. A failed one says nothing of the broker.
Report(r, outcome) ==
    /\ outcome = "ok" => r.send \in arrived
    /\ delivering' = delivering \ {r}
    /\ entries' = IF outcome = "err" /\ r.tells = "call" THEN [entries EXCEPT ![r.send.call] = "none"] ELSE entries
    /\ IF r.tells = "held" THEN UNCHANGED answers ELSE Answered(r.send, outcome)
    /\ UNCHANGED <<side, sends, queue, writing, stage, log, held, holds, arrived, replyVars>>

\* expire_cancelled's timer.
Expire(c) ==
    /\ c \in holds
    /\ holds' = holds \ {c}
    /\ entries' = IF entries[c] = "cancelled" THEN [entries EXCEPT ![c] = "none"] ELSE entries
    /\ UNCHANGED <<side, sends, writerVars, held, arrived, answers, replyVars>>

\* The server: `opened` for an `open`, then the call's last reply.
ServerReplies(c) ==
    \E k \in {"opened", "last"} :
        /\ <<c, k>> \notin replied
        /\ \E s \in arrived : s.call = c /\ s.kind = IF k = "opened" THEN "open" ELSE IF c \in Streamed THEN "open" ELSE "req"
        /\ k = "last" /\ c \in Streamed => <<c, "opened">> \in replied
        /\ replied' = replied \cup {<<c, k>>}
        /\ replies' = Append(replies, <<c, k>>)
        /\ UNCHANGED <<side, sends, writerVars, callVars, arrived, answers, routed, router, closing, producer>>

\* route_replies: `opened` goes to the writer behind what is queued; a terminal
\* frame ends the entry, then reaches the client.
Route ==
    /\ router = "reading" /\ replies # <<>>
    /\ replies' = Tail(replies)
    /\ LET c == Head(replies)[1] IN
       IF Head(replies)[2] = "opened"
       THEN queue' = Append(queue, Opened(c)) /\ UNCHANGED <<entries, routed>>
       ELSE entries' = [entries EXCEPT ![c] = "none"] /\ routed' = routed \cup {c} /\ UNCHANGED queue
    /\ UNCHANGED <<side, sends, held, holds, writing, stage, delivering, log, arrived, answers, replied, router, closing, producer>>

\* close: the router is stopped and awaited, then the producer is taken out.
CloseBegins == ~closing /\ closing' = TRUE /\ UNCHANGED <<side, sends, writerVars, callVars, arrived, answers, replies, replied, routed, router, producer>>

RouterEnds ==
    /\ closing /\ router = "reading" /\ router' = "ended"
    /\ UNCHANGED <<side, sends, writerVars, callVars, arrived, answers, replies, replied, routed, closing, producer>>

ProducerTaken ==
    /\ router = "ended" /\ producer = "live" /\ producer' = "gone"
    /\ UNCHANGED <<side, sends, writerVars, callVars, arrived, answers, replies, replied, routed, router, closing>>

KafkaCallsNext ==
    \/ \E c \in KafkaIds : Call(c) \/ Expire(c) \/ ServerReplies(c)
    \/ Take \/ CancelHeld \/ Grab \/ Enqueue \/ EnqueueRefused \/ Route \/ CloseBegins \/ RouterEnds \/ ProducerTaken
    \/ \E r \in delivering : Deliver(r) \/ Report(r, "ok") \/ Report(r, "err")

KafkaCallsSpec == KafkaCallsInit /\ [][KafkaCallsNext]_kcVars

AnsweredOk(s) == [send |-> s, outcome |-> "ok"] \in answers
AnsweredErr(s) == [send |-> s, outcome |-> "err"] \in answers

\* A call's records are queued with librdkafka in the order its frames were
\* sent, a `cancel` is its last record and goes out alone when the call was
\* still held, and no upload frame precedes the server's `opened`, whatever
\* was refused for want of room in between.
KafkaRecordsInOrder ==
    \A i, j \in DOMAIN log : i < j /\ log[i].call = log[j].call =>
        /\ log[i].n < log[j].n \/ (log[i].kind = "req" /\ log[j].kind = "cancel")
        /\ log[j].kind \in {"in", "in_end"} => <<log[j].call, "opened">> \in replied

\* The table of calls follows the calls: no entry outlives the failed send or
\* the last reply of its call, but a `cancel` put back in the table as the
\* last reply was routed, and that one has its timer. A send is answered once,
\* and one that starts a call is told it went out only when the broker has it.
KafkaTableFollows ==
    /\ \A c \in KafkaIds :
        /\ entries[c] \in {"unary", "holding", "opened"} => c \notin routed
        /\ entries[c] = "cancelled" => c \in holds
        /\ \A i \in DOMAIN sends : sends[i].call = c /\ AnsweredErr(sends[i]) /\ sends[i].kind \in Starts
              => entries[c] \in {"none", "cancelled"}
    /\ \A a, b \in answers : a.send = b.send => a = b
    /\ \A i \in DOMAIN sends : AnsweredOk(sends[i]) /\ sends[i].kind \in Starts \cup {"reply"} => sends[i] \in arrived
===============================================================================
