----------------------------- MODULE HttpStages ------------------------------
(***************************************************************************)
(* HTTP stages: pre-dispatch, embedding in a host, and an SSE body.  Each  *)
(* part below has its own constants, variables, Init and Next, and shares  *)
(* no state with the others.                                               *)
(***************************************************************************)
EXTENDS Integers, Sequences, FiniteSets, SequencesExt

-------------------------------------------------------------------------------
(***************************************************************************)
(* The pre-dispatch stage (crates/ulo-http/src/pre_dispatch.rs): the entries *)
(* a module's metadata declares, the stage `prepare` builds of them, and one *)
(* request running it: the unscoped entries around routing, then the scoped  *)
(* ones of the path the router matched, each entry around those after it.    *)
(*                                                                          *)
(* A pattern is a path, "*" for every path, "bad" for one that does not      *)
(* parse or "back" for one no request reaches; Routes compares patterns.     *)
(* `wrote`, `ran`, `offered` and `passed` remember what happened; no code     *)
(* reads them.                                                              *)
(***************************************************************************)

CONSTANTS Declares,  \* the declaration calls tried
          MaxCalls,  \* how many of them a module makes
          Paths,     \* the request paths
          Routed     \* those a route matches

VARIABLES entries,   \* PreDispatch::entries
          stray,     \* the excludes and supplies reported by `prepare`
          built,     \* "no", "failed" or "ok": Stage::build
          req,       \* the request: [path, matched, has], `has` its extension's supplier
          sub,       \* "none", "refused", "unscoped", "scoped", "handler", "done"
          steps,     \* the entries the sub-step runs
          from,      \* the next of them
          stack,     \* the entries awaiting `next`
          adopted,   \* what each `adopt` copied into the execution
          wrote, ran, offered, passed

preVars == <<entries, stray, built, req, sub, steps, from, stack, adopted, wrote, ran, offered, passed>>
declVars == <<entries, stray, wrote>>
ghosts == <<ran, offered, passed>>

NoRequest == [path |-> "none", matched |-> "none", has |-> 0]

-----------------------------------------------------------------------------
(* The declaration *)

NewEntry(call) ==
  [step |-> call.step, scoped |-> call.scoped, scope |-> call.patterns, exclude |-> {},
   supplies |-> 0, cors |-> call.step = "cors", check |-> call.fault]

Push(entry) == entries' = Append(entries, entry) /\ UNCHANGED stray

(* apply, apply_value, apply_for, layer, layer_for, adopt.                  *)
DeclareEntry(call) == Push(NewEntry(call))

(* An exclude or supplies belongs to the entry before it: one before any     *)
(* entry, and a supplies after an `adopt`, is kept for `prepare`.            *)

Exclude(call) ==
  IF entries = <<>> THEN stray' = Append(stray, "exclude") /\ UNCHANGED entries
  ELSE /\ entries' = [entries EXCEPT ![Len(entries)].exclude = @ \cup call.patterns]
       /\ UNCHANGED stray

Supplies ==
  IF entries = <<>> THEN stray' = Append(stray, "supplies") /\ UNCHANGED entries
  ELSE IF Last(entries).step = "adopt"
  THEN stray' = Append(stray, "adopt supplies") /\ UNCHANGED entries
  ELSE entries' = [entries EXCEPT ![Len(entries)].supplies = @ + 1] /\ UNCHANGED stray

Declare(call) ==
  /\ built = "no"
  /\ Len(wrote) < MaxCalls
  /\ CASE call.step = "exclude" -> Exclude(call)
       [] call.step = "supplies" -> Supplies
       [] OTHER -> DeclareEntry(call)
  /\ wrote' = Append(wrote, call)
  /\ UNCHANGED <<built, req, sub, steps, from, stack, adopted, ran, offered, passed>>

(* The patterns `scopes` refuses.                                           *)
Refused(patterns) == patterns \cap {"bad", "back"}

EntryFails(e) == e.check \/ Refused(e.exclude \cup e.scope) # {} \/ (e.scoped /\ e.scope = {})

Build ==
  /\ built = "no"
  /\ built' = IF stray # <<>> \/ \E i \in DOMAIN entries : EntryFails(entries[i]) THEN "failed" ELSE "ok"
  /\ UNCHANGED <<req, sub, steps, from, stack, adopted, declVars, ghosts>>

-----------------------------------------------------------------------------
(* A request *)

CoversPath(patterns, path) == path \in patterns \/ "*" \in patterns

(* Filter::admits                                                           *)
Admits(e, path) == CoversPath(e.scope, path) /\ ~CoversPath(e.exclude, path)

(* The stage's lists: the unscoped entries in order, and the scoped ones a   *)
(* path runs, whether a route matched it or not.                            *)
UnscopedSteps == SelectSeq([i \in DOMAIN entries |-> i], LAMBDA i : ~entries[i].scoped)
RunnableFor(path) ==
  SelectSeq([i \in DOMAIN entries |-> i], LAMBDA i : entries[i].scoped /\ Admits(entries[i], path))

(* Runnable::skips: only an unscoped entry still has its exclusions.        *)
Skips(i) == ~entries[i].scoped /\ CoversPath(entries[i].exclude, req.path)

(* Stage::decorate_refusal: the Cors values a response would pass, last      *)
(* written first.                                                           *)
Decoration(path) ==
  SelectSeq(Reverse(UnscopedSteps), LAMBDA i : entries[i].cors /\ ~CoversPath(entries[i].exclude, path))

Arrive(path) ==
  /\ built = "ok" /\ sub = "none"
  /\ req' = [path |-> path, matched |-> path, has |-> 0]
  /\ sub' = "unscoped"
  /\ steps' = UnscopedSteps
  /\ from' = 1
  /\ UNCHANGED <<built, stack, adopted, declVars, ghosts>>

(* A path refused before the stage runs no entry.                           *)
ArriveRefused(path) ==
  /\ built = "ok" /\ sub = "none"
  /\ req' = [path |-> path, matched |-> path, has |-> 0]
  /\ sub' = "refused"
  /\ passed' = Decoration(path)
  /\ UNCHANGED <<built, steps, from, stack, adopted, declVars, ran, offered>>

(* run: the next entry that does not skip the path.                         *)
NextStep == {k \in from..Len(steps) : ~Skips(steps[k]) /\ \A j \in from..k - 1 : Skips(steps[j])}

Running == sub \in {"unscoped", "scoped"}

(* The end of a sub-step: the route is matched and its scoped entries run,    *)
(* then the handler, or the miss, answers.                                  *)
Route ==
  /\ sub = "unscoped" /\ NextStep = {}
  /\ sub' = "scoped"
  /\ req' = [req EXCEPT !.matched = req.path]
  /\ steps' = RunnableFor(req.path)
  /\ from' = 1
  /\ UNCHANGED <<built, stack, adopted, declVars, ghosts>>

Answer ==
  /\ sub = "scoped" /\ NextStep = {}
  /\ sub' = "handler"
  /\ UNCHANGED <<built, req, steps, from, stack, adopted, declVars, ghosts>>

Started(i) == ran' = Append(ran, [entry |-> i, path |-> req.path, sub |-> sub])

(* The entry calls `next`, perhaps with the path rewritten or a value         *)
(* inserted; an `adopt` copies what it finds and always goes on.             *)
Starts(path, inserts) ==
  \E k \in NextStep :
    LET i == steps[k] IN
    /\ Running
    /\ (path # req.path \/ inserts) => entries[i].step # "adopt"
    /\ Started(i)
    /\ req' = [req EXCEPT !.path = path, !.has = IF inserts THEN i ELSE @]
    /\ adopted' = IF entries[i].step = "adopt" THEN Append(adopted, [entry |-> i, from |-> req.has]) ELSE adopted
    /\ stack' = Append(stack, [entry |-> i, sub |-> sub])
    /\ from' = k + 1
    /\ UNCHANGED <<built, sub, steps, declVars, offered, passed>>

(* StageCx::fail: the matched handler's tiers only once a route is known.    *)
Offer(i, at) == offered' = Append(offered, [entry |-> i, tiers |-> at = "scoped" /\ req.matched \in Routed])

(* It answers without `next`.                                               *)
Answers ==
  \E k \in NextStep :
    /\ Running
    /\ entries[steps[k]].step # "adopt"
    /\ Started(steps[k])
    /\ sub' = "handler"
    /\ UNCHANGED <<built, req, steps, from, stack, adopted, declVars, offered, passed>>

(* It fails or panics before `next`, or cannot be resolved.                  *)
FailsFirst ==
  \E k \in NextStep :
    /\ Running
    /\ entries[steps[k]].step # "adopt"
    /\ Started(steps[k])
    /\ Offer(steps[k], sub)
    /\ sub' = "handler"
    /\ UNCHANGED <<built, req, steps, from, stack, adopted, declVars, passed>>

(* A response reaches the entry around it, which passes it or fails.         *)
Return(fails) ==
  /\ IF fails THEN Offer(Last(stack).entry, Last(stack).sub) ELSE UNCHANGED offered
  /\ passed' = IF fails THEN passed ELSE Append(passed, Last(stack).entry)

Passes(fails) ==
  /\ sub = "handler" /\ stack # <<>>
  /\ fails => entries[Last(stack).entry].step # "adopt"
  /\ Return(fails)
  /\ stack' = Front(stack)
  /\ UNCHANGED <<built, req, sub, steps, from, adopted, declVars, ran>>

Responds ==
  /\ sub = "handler" /\ stack = <<>>
  /\ sub' = "done"
  /\ UNCHANGED <<built, req, steps, from, stack, adopted, declVars, ghosts>>

-----------------------------------------------------------------------------
PreInit ==
  /\ entries = <<>> /\ stray = <<>> /\ wrote = <<>>
  /\ built = "no" /\ req = NoRequest /\ sub = "none"
  /\ steps = <<>> /\ from = 1 /\ stack = <<>> /\ adopted = <<>>
  /\ ran = <<>> /\ offered = <<>> /\ passed = <<>>

PreNext ==
  \/ \E call \in Declares : Declare(call)
  \/ Build \/ Route \/ Answer \/ Answers \/ FailsFirst \/ Responds
  \/ \E path \in Paths : Arrive(path) \/ ArriveRefused(path)
  \/ \E path \in Paths, inserts \in BOOLEAN : Starts(path, inserts)
  \/ \E fails \in BOOLEAN : Passes(fails)

PreSpec == PreInit /\ [][PreNext]_preVars

-----------------------------------------------------------------------------
(* Properties *)

(* The entry a call of the declaration was written after, 0 for none.       *)
EntryBefore(c) == Cardinality({d \in 1..c : wrote[d].step \notin {"exclude", "supplies"}})

(* The stage that is built is the one that was written: each `exclude` and    *)
(* `supplies` belongs to the one entry before it, and a call that belongs to  *)
(* none, or a pattern no request reaches, fails the build (PreDispatch::push, *)
(* exclude, supplies, Stage::build).                                         *)
StageAsWritten ==
  /\ \A i \in DOMAIN entries :
       LET mine == {c \in DOMAIN wrote : EntryBefore(c) = i} IN
       /\ entries[i].exclude = UNION {wrote[c].patterns : c \in {d \in mine : wrote[d].step = "exclude"}}
       /\ entries[i].step # "adopt" =>
            entries[i].supplies = Cardinality({c \in mine : wrote[c].step = "supplies"})
  /\ built = "ok" =>
       \A c \in DOMAIN wrote :
         /\ wrote[c].patterns \cap {"bad", "back"} = {}
         /\ wrote[c].step \in {"exclude", "supplies"} => EntryBefore(c) # 0

(* Every entry that had to run ran once, in order: an unscoped entry not run   *)
(* by the time the route is matched excludes the path as it would have        *)
(* received it, and the scoped entries run are those admitting the path the   *)
(* router matched, whatever an entry rewrote it to since (run, Runnable::skips, *)
(* ScopedStage::runnable).                                                   *)
EntriesRunExactly ==
  LET kind(s) == SelectSeq([k \in DOMAIN ran |-> k], LAMBDA k : ran[k].sub = s)
      outer == kind("unscoped")
      inner == [k \in DOMAIN kind("scoped") |-> ran[kind("scoped")[k]].entry]
  IN /\ \A j, k \in DOMAIN ran : j < k /\ ran[j].sub = ran[k].sub => ran[j].entry < ran[k].entry
     /\ \A k \in DOMAIN outer : ~CoversPath(entries[ran[outer[k]].entry].exclude, ran[outer[k]].path)
     /\ sub = "scoped" =>
          \A i \in ToSet(UnscopedSteps) :
            \/ \E k \in DOMAIN outer : ran[outer[k]].entry = i
            \/ LET last == Cardinality({k \in DOMAIN outer : ran[outer[k]].entry < i})
                   path == IF last < Len(outer) THEN ran[last + 1].path ELSE req.matched
               IN CoversPath(entries[i].exclude, path)
     /\ IsPrefix(inner, RunnableFor(req.matched))

(* A failing entry is offered once, in its own place: to the matched route's   *)
(* error handlers exactly when it is a scoped entry of a routed path, and      *)
(* what it answers still passes every entry around it, in the reverse of the   *)
(* order they ran, as the headers of a refused path are added (run,            *)
(* StageCx::render, Stage::decorate_refusal).                                 *)
FailuresInPlace ==
  /\ \A k \in DOMAIN offered :
       offered[k].tiers = (entries[offered[k].entry].scoped /\ req.matched \in Routed)
  /\ \A j, k \in DOMAIN offered : offered[j].entry = offered[k].entry => j = k
  /\ \A j, k \in DOMAIN passed : j < k =>
       \/ passed[j] > passed[k] \/ (entries[passed[j]].scoped /\ ~entries[passed[k]].scoped)
  /\ \A k \in DOMAIN adopted :
       \/ adopted[k].from = 0
       \/ \E j \in DOMAIN ran : ran[j].entry = adopted[k].from /\ adopted[k].from < adopted[k].entry

-------------------------------------------------------------------------------
(***************************************************************************)
(* An app inside a host framework (crates/ulo-http/src/embed.rs): the        *)
(* settings of `Embedded`, what `prepare` refuses of them against what the   *)
(* host is declared to do, and the requests the host hands over through      *)
(* handles it may have cloned at any time.                                   *)
(*                                                                          *)
(* A path is the sequence of its characters.  HttpServers models the host's  *)
(* future, the drain and `close`; Routes the check of host values.           *)
(***************************************************************************)

CONSTANTS Hosts,        \* what each host lacks: sets of capabilities
          Apps,         \* what each app asks of its host
          NestedPrefixes,     \* the `.nested_at` arguments
          RequestPaths, \* the paths the client sends
          MaxRequests, MaxSettings

VARIABLES lacks,      \* EmbedLimits: the capabilities declared absent
          app,        \* [upgrading, readsPeer, readsHost]: what its handlers need
          config,     \* the last settings written
          nestedAt, peerAddr, onMiss, forwards,
          shared,     \* [state, config]
          copies,     \* "unset" or "set"
          prefix,     \* the prefix installed: <<"unset">> or the path
          prepared,   \* "no", "failed", "yes", "taken"
          answers     \* each answer: [path, saw, by, config, marked, copied]

embedVars == <<lacks, app, config, nestedAt, peerAddr, onMiss, forwards, shared, copies, prefix,
               prepared, answers>>
fixedVars == <<lacks, app>>
settingVars == <<config, nestedAt, peerAddr, onMiss, forwards>>

Capabilities == {"peer_addr", "upgrades", "forward_miss", "host_extensions", "tls_info", "strips_prefix"}

(* The `why_not_` accessors.                                                *)
Lacks(capability) == capability \in lacks

-----------------------------------------------------------------------------
(* The settings *)

EmbedInit ==
  /\ lacks \in Hosts
  /\ app \in Apps
  /\ config = 0
  /\ nestedAt = <<"none">> /\ peerAddr = FALSE /\ onMiss = "final" /\ forwards = FALSE
  /\ shared = [state |-> "unbound", config |-> 0]
  /\ copies = "unset" /\ prefix = <<"unset">>
  /\ prepared = "no"
  /\ answers = <<>>

Setting == prepared = "no" /\ UNCHANGED <<fixedVars, copies, prefix, prepared, answers>>

(* `configure`: a handle taken before already answers under the new settings. *)
Configure ==
  /\ Setting
  /\ config < MaxSettings
  /\ config' = config + 1
  /\ shared' = [state |-> "unbound", config |-> config']
  /\ UNCHANGED <<nestedAt, peerAddr, onMiss, forwards>>

NestedAt(p) == Setting /\ nestedAt' = p /\ UNCHANGED <<config, peerAddr, onMiss, forwards, shared>>
PeerAddr == Setting /\ peerAddr' = TRUE /\ UNCHANGED <<config, nestedAt, onMiss, forwards, shared>>
OnMiss == Setting /\ onMiss' = "forward" /\ UNCHANGED <<config, nestedAt, peerAddr, forwards, shared>>
Forward == Setting /\ forwards' = TRUE /\ UNCHANGED <<config, nestedAt, peerAddr, onMiss, shared>>

-----------------------------------------------------------------------------
(* prepare and bind *)

(* Pattern::join(prefix, ""): one leading slash, no trailing one.            *)
Joined(p) ==
  LET cut == SubSeq(p, 1, SelectLastInSeq(p, LAMBDA c : c # "/"))
  IN IF cut # <<>> /\ cut[1] = "/" THEN cut ELSE <<"/">> \o cut

(* mount: the prefix, empty for none or "/"; a parameter is a failure.       *)
MountFails == nestedAt # <<"none">> /\ "{" \in ToSet(nestedAt)
Mount == IF nestedAt = <<"none">> \/ MountFails \/ Joined(nestedAt) = <<"/">> THEN <<>>
         ELSE Joined(nestedAt)

(* check_limits                                                             *)
LimitFailures ==
  (IF Lacks("upgrades") /\ app.upgrading THEN {"upgrades"} ELSE {})
    \cup (IF Lacks("peer_addr") /\ ~peerAddr /\ app.readsPeer THEN {"peer_addr"} ELSE {})
    \cup (IF Lacks("host_extensions") /\ app.readsHost /\ ~forwards THEN {"host_extensions"} ELSE {})
    \cup (IF Lacks("forward_miss") /\ onMiss = "forward" THEN {"forward_miss"} ELSE {})

(* The route table may fail of itself.                                      *)
Prepare(tableOk) ==
  /\ prepared = "no"
  /\ IF tableOk /\ ~MountFails /\ LimitFailures = {}
     THEN copies' = "set" /\ prefix' = Mount /\ prepared' = "yes"
     ELSE prepared' = "failed" /\ UNCHANGED <<copies, prefix>>
  /\ UNCHANGED <<fixedVars, settingVars, shared, answers>>

Bind(upgradesOk) ==
  /\ prepared = "yes"
  /\ prepared' = "taken"
  /\ shared' = IF upgradesOk THEN [shared EXCEPT !.state = "bound"] ELSE shared
  /\ UNCHANGED <<fixedVars, settingVars, copies, prefix, answers>>

Close ==
  /\ prepared = "taken" /\ shared.state = "bound"
  /\ shared' = [shared EXCEPT !.state = "closed"]
  /\ UNCHANGED <<fixedVars, settingVars, copies, prefix, prepared, answers>>

-----------------------------------------------------------------------------
(* A request *)

(* Service::strip_prefix, where a prefix is installed.                      *)
StripPrefix(path) ==
  IF path = prefix THEN [marked |-> FALSE, path |-> <<"/">>]
  ELSE IF IsPrefix(Append(prefix, "/"), path)
  THEN [marked |-> FALSE, path |-> SubSeq(path, Len(prefix) + 1, Len(path))]
  ELSE [marked |-> TRUE, path |-> path]

(* What a host that strips the prefix hands over of a path it routes to the   *)
(* app: one in its mount.                                                   *)
HostHands(path) ==
  IF nestedAt = <<"none">> \/ Joined(nestedAt) = <<"/">> THEN {path}
  ELSE IF path = Joined(nestedAt) THEN {<<"/">>}
  ELSE IF IsPrefix(Append(Joined(nestedAt), "/"), path)
  THEN {SubSeq(path, Len(Joined(nestedAt)) + 1, Len(path))}
  ELSE {}

Answered(sent, got) ==
  answers' = Append(answers, [sent |-> sent, path |-> got.path, marked |-> got.marked,
                              by |-> shared.state, config |-> shared.config, last |-> config,
                              copied |-> copies = "set"])

Handed(path) == IF Lacks("strips_prefix") THEN {path} ELSE HostHands(path)

(* Service::respond, and the app's answer or the refusal of the state it      *)
(* finds.                                                                   *)
Respond(sent) ==
  \E path \in Handed(sent) :
    LET strips == Lacks("strips_prefix") /\ prefix \notin {<<"unset">>, <<>>}
        got == IF strips THEN StripPrefix(path) ELSE [marked |-> FALSE, path |-> path]
    IN /\ Len(answers) < MaxRequests
       /\ Answered(sent, got)
       /\ UNCHANGED <<fixedVars, settingVars, shared, copies, prefix, prepared>>

EmbedNext ==
  \/ Configure \/ PeerAddr \/ OnMiss \/ Forward \/ Close
  \/ \E p \in NestedPrefixes : NestedAt(p)
  \/ \E ok \in BOOLEAN : Prepare(ok) \/ Bind(ok)
  \/ \E path \in RequestPaths : Respond(path)

EmbedSpec == EmbedInit /\ [][EmbedNext]_embedVars

-----------------------------------------------------------------------------
(* Properties *)

(* The app routes on the same path whether its host strips the mount prefix    *)
(* or leaves it on, and a path outside the mount is marked a miss, never       *)
(* matched by accident; it has then run every copy of a host value, through    *)
(* whichever handle the request came (Service::respond, strip_prefix, copy).   *)
PrefixEitherWay ==
  \A k \in DOMAIN answers :
    answers[k].by = "bound" =>
      /\ answers[k].copied
      /\ IF HostHands(answers[k].sent) = {} THEN answers[k].marked
         ELSE ~answers[k].marked /\ {answers[k].path} = HostHands(answers[k].sent)

(* A request refused because the app is not yet bound, or closed, is refused   *)
(* under the settings last written, however early its handle was taken         *)
(* (Embedded::configure, State::config).                                      *)
RefusedUnderSettings == \A k \in DOMAIN answers : answers[k].config = answers[k].last

(* An app that serves asks its host for nothing the host is declared without   *)
(* (check_limits): an upgrade, a peer address a handler cannot do without, a   *)
(* host value nothing supplies, or a second routing of its misses.             *)
HostSupplies ==
  shared.state = "bound" =>
    /\ app.upgrading => "upgrades" \notin lacks
    /\ app.readsPeer => "peer_addr" \notin lacks \/ peerAddr
    /\ app.readsHost => "host_extensions" \notin lacks \/ forwards
    /\ onMiss = "forward" => "forward_miss" \notin lacks

-------------------------------------------------------------------------------
(***************************************************************************)
(* A Server-Sent Events body (ulo-http/src/sse.rs), one step per poll: the *)
(* stream's events, the keep-alive comments between them, the error item   *)
(* that goes through the error handlers and ends the stream as an `error`  *)
(* event, and the end event of a clean end. The service's Tracked reports  *)
(* Completed at the stream's None unless a report came first. `lines` and  *)
(* `field` are here as the operator the encoding rests on.                 *)
(***************************************************************************)

CONSTANTS SseConfigs,  \* [keepAlive, endEvent, handler]
          Every,       \* the keep-alive period, in ticks
          MaxTicks,    \* how long the clock runs
          MaxWritten   \* frames written

VARIABLES
    sse,      \* the configuration
    state,    \* "streaming", "late", "ending", "done", "ended"
    now,      \* the clock
    sleep,    \* when the running period ends; -1 with none running
    refused,  \* the timer refused a period
    frames,   \* [kind, at] written
    told      \* what on_stream_end was told first

sseVars == <<sse, state, now, sleep, refused, frames, told>>

SseInit ==
    /\ sse \in SseConfigs /\ state = "streaming" /\ now = 0 /\ sleep = -1 /\ refused = FALSE
    /\ frames = <<>> /\ told = "none"

\* written: the frame goes out and the period starts again at the next pending poll.
Written(kind) == frames' = Append(frames, [kind |-> kind, at |-> now]) /\ sleep' = -1
Room == Len(frames) < MaxWritten

\* late: the error event, its report ahead of the wrap's.
Late(next) == Written("error") /\ state' = next /\ told' = IF told = "none" THEN "CutOff" ELSE told

PollItem ==
    /\ state = "streaming" /\ Room /\ Written("event")
    /\ UNCHANGED <<sse, state, now, refused, told>>

\* An Err item, through the matched handler's error handlers where there is one.
PollError ==
    /\ state = "streaming" /\ Room
    /\ IF sse.handler THEN state' = "late" /\ UNCHANGED <<frames, sleep, told>> ELSE Late("done")
    /\ UNCHANGED <<sse, now, refused>>

PollNone ==
    /\ state = "streaming" /\ state' = "ending"
    /\ UNCHANGED <<sse, now, sleep, refused, frames, told>>

\* dispatch_late's outcome: EndStream ends it cleanly, anything else is written.
LateOutcome ==
    /\ state = "late" /\ Room
    /\ \/ state' = "ending" /\ UNCHANGED <<frames, sleep, told>>
       \/ Late("done")
    /\ UNCHANGED <<sse, now, refused>>

Ending ==
    /\ state = "ending" /\ state' = "done"
    /\ IF sse.endEvent THEN Written("end") ELSE UNCHANGED <<frames, sleep>>
    /\ UNCHANGED <<sse, now, refused, told>>

\* The stream's None, which the service's Tracked reports as it is dropped.
Done ==
    /\ state = "done" /\ state' = "ended"
    /\ told' = IF told = "none" THEN "Completed" ELSE told
    /\ UNCHANGED <<sse, now, sleep, refused, frames>>

\* The peer leaves: the wrap is dropped before the stream's end.
Left ==
    /\ state \notin {"done", "ended"} /\ state' = "ended"
    /\ told' = IF told = "none" THEN "CutOff" ELSE told
    /\ UNCHANGED <<sse, now, sleep, refused, frames>>

\* poll_due, in a poll that finds the stream pending: a period asked for, or the one running polled.
PendingPolled ==
    /\ state = "streaming" /\ sse.keepAlive /\ Room /\ ~refused
    /\ LET due == IF sleep = -1 THEN now + Every ELSE sleep
       IN IF now >= due
          THEN frames' = Append(frames, [kind |-> "comment", at |-> now]) /\ sleep' = -1
          ELSE sleep' = due /\ UNCHANGED frames
    /\ UNCHANGED <<sse, state, now, refused, told>>

\* The timer's runtime has shut down: its period is refused, and no other is asked for.
PeriodRefused ==
    /\ state = "streaming" /\ sse.keepAlive /\ ~refused
    /\ refused' = TRUE /\ sleep' = -1
    /\ UNCHANGED <<sse, state, now, frames, told>>

Tick == now < MaxTicks /\ now' = now + 1 /\ UNCHANGED <<sse, state, sleep, refused, frames, told>>

SseNext ==
    PollItem \/ PollError \/ PollNone \/ LateOutcome \/ Ending \/ Done \/ Left \/ PendingPolled \/ PeriodRefused \/ Tick
SseSpec == SseInit /\ [][SseNext]_sseVars

-----------------------------------------------------------------------------
\* Sse: what a client can trust. An error event is the last frame and its stream reports CutOff; the
\* end event is last too, and only a stream that ended cleanly writes it; and Completed is reported
\* only of a stream that wrote no error.
SseEndsTold ==
    /\ \A i \in DOMAIN frames : frames[i].kind \in {"error", "end"} => i = Len(frames)
    /\ (\E i \in DOMAIN frames : frames[i].kind = "error") => told = "CutOff"
    /\ told = "Completed" /\ sse.endEvent => frames # <<>> /\ Last(frames).kind = "end"

\* KeepAlive: a comment comes at least the period after whatever was written before it.
CommentsSpaced ==
    \A i \in DOMAIN frames :
        frames[i].kind = "comment" => frames[i].at >= Every + (IF i = 1 THEN 0 ELSE frames[i - 1].at)
===============================================================================
