------------------------------ MODULE HttpRules ------------------------------
(***************************************************************************)
(* What HTTP computes: routes, CORS, extraction, SSE lines and GraphQL     *)
(* requests.  Operators only: none of it keeps state.                      *)
(***************************************************************************)
EXTENDS Integers, Sequences, FiniteSets, SequencesExt

-------------------------------------------------------------------------------
(***************************************************************************)
(* The HTTP route table and the scopes of pre-dispatch entries             *)
(* (ulo-http/src/router and pre_dispatch.rs): patterns parsed and matched, *)
(* the table built and asked, and the comparisons of a scope with a route  *)
(* pattern that prepare makes once so that no request makes them again.    *)
(* A request path is the sequence of pieces between its slashes; a pattern *)
(* as written is a sequence of tokens [form, name]; a segment has a kind   *)
(* and a text, and a shape is the paths a pattern or a scope stands for.   *)
(***************************************************************************)

-----------------------------------------------------------------------------
\* normalize and split: one trailing slash is insignificant, "/" has no pieces.
Normalize(raw) ==
    LET cut == IF Len(raw) > 1 /\ Last(raw) = "" THEN Front(raw) ELSE raw
    IN IF cut = <<"">> THEN <<>> ELSE cut

\* decode, on the escapes the instances use: one level of percent-decoding, an encoded slash kept.
Decode(piece) == CASE piece = "%61" -> "a" [] piece = "%2561" -> "%61" [] OTHER -> piece

NameFault(name) ==
    CASE name = "" -> "empty name" [] name = "9" -> "name starts" [] name = "a-b" -> "name holds" [] OTHER -> "ok"

Repeated(pieces, i) == \E j \in 1..(i - 1) : pieces[j].form \in {"param", "rest"} /\ pieces[j].name = pieces[i].name

FirstFault(Fault(_), n) ==
    IF \A i \in 1..n : Fault(i) = "ok" THEN "ok"
    ELSE Fault(CHOOSE i \in 1..n : Fault(i) # "ok" /\ \A j \in 1..(i - 1) : Fault(j) = "ok")

\* parse_segments: the first piece refused, a scope's final `*` taken as its wildcard.
ParseFault(pieces, scope) ==
    LET last == Len(pieces)
        Fault(i) ==
            LET piece == pieces[i] IN
            CASE piece.form = "empty" -> "empty segment"
              [] piece.form = "star" -> IF scope /\ i # last THEN "star last" ELSE "ok"
              [] piece.form = "unclosed" -> "unclosed"
              [] piece.form = "rest" ->
                    IF NameFault(piece.name) # "ok" THEN NameFault(piece.name)
                    ELSE IF i # last THEN "rest last" ELSE IF Repeated(pieces, i) THEN "twice" ELSE "ok"
              [] piece.form = "param" ->
                    IF NameFault(piece.name) # "ok" THEN NameFault(piece.name)
                    ELSE IF Repeated(pieces, i) THEN "twice" ELSE "ok"
              [] piece.form = "brace" -> "brace"
              [] OTHER -> "ok"
    IN FirstFault(Fault, last)

\* ulo-http-macros' check of the same literal, kept in step by hand.
MacroFault(pieces) ==
    LET last == Len(pieces)
        Named(i) ==
            IF NameFault(pieces[i].name) # "ok" THEN NameFault(pieces[i].name)
            ELSE IF pieces[i].form = "rest" /\ i # last THEN "rest last"
            ELSE IF Repeated(pieces, i) THEN "twice" ELSE "ok"
        Fault(i) ==
            CASE pieces[i].form = "empty" -> "empty segment"
              [] pieces[i].form = "unclosed" -> "unclosed"
              [] pieces[i].form \in {"param", "rest"} -> Named(i)
              [] pieces[i].form = "brace" -> "brace"
              [] OTHER -> "ok"
    IN FirstFault(Fault, last)

\* The segments of a pattern that parses; a static one holds its text decoded.
Segments(pieces, scope) ==
    [i \in DOMAIN pieces |->
        LET piece == pieces[i] IN
        CASE piece.form = "param" -> [kind |-> "param", text |-> piece.name]
          [] piece.form = "rest" \/ (scope /\ piece.form = "star") -> [kind |-> "rest", text |-> piece.name]
          [] OTHER -> [kind |-> "static", text |-> Decode(piece.name)]]

-----------------------------------------------------------------------------
\* static_matches: equal as sent, or equal once decoded.
StaticMatches(text, piece) == text = piece \/ text = Decode(piece)

SegmentTakes(segment, piece) == IF segment.kind = "static" THEN StaticMatches(segment.text, piece) ELSE piece # ""

IsOpen(segments) == segments # <<>> /\ Last(segments).kind = "rest"
Shape(segments) == [fixed |-> IF IsOpen(segments) THEN Front(segments) ELSE segments, open |-> IsOpen(segments)]

\* match_split: a rest takes one piece that is not empty, and whatever follows it.
Matches(segments, pieces) ==
    /\ IF IsOpen(segments) THEN Len(pieces) >= Len(segments) ELSE Len(pieces) = Len(segments)
    /\ \A i \in DOMAIN segments : SegmentTakes(segments[i], pieces[i])

\* ScopePattern::covers_path: a wildcard takes one or more pieces, empty or not.
CoversPath(scope, pieces) ==
    /\ IF scope.open THEN Len(pieces) > Len(scope.fixed) ELSE Len(pieces) = Len(scope.fixed)
    /\ \A i \in DOMAIN scope.fixed : SegmentTakes(scope.fixed[i], pieces[i])

Pairs(a, b) == DOMAIN a.fixed \cap DOMAIN b.fixed

\* Shape::contains
Covers(a, b) ==
    /\ CASE a.open /\ b.open -> Len(b.fixed) >= Len(a.fixed)
         [] a.open /\ ~b.open -> Len(b.fixed) > Len(a.fixed)
         [] OTHER -> ~a.open /\ ~b.open /\ Len(a.fixed) = Len(b.fixed)
    /\ \A i \in Pairs(a, b) : a.fixed[i].kind = "param" \/ (b.fixed[i].kind = "static" /\ a.fixed[i].text = b.fixed[i].text)

\* Shape::overlaps
Overlaps(a, b) ==
    /\ CASE a.open /\ b.open -> TRUE
         [] a.open /\ ~b.open -> Len(b.fixed) > Len(a.fixed)
         [] ~a.open /\ b.open -> Len(a.fixed) > Len(b.fixed)
         [] OTHER -> Len(a.fixed) = Len(b.fixed)
    /\ \A i \in Pairs(a, b) : a.fixed[i].kind = "static" /\ b.fixed[i].kind = "static" => a.fixed[i].text = b.fixed[i].text

\* Shape::intersection, of shapes that overlap: the narrower segment of each pair.
Intersection(a, b) ==
    LET long == IF Len(a.fixed) >= Len(b.fixed) THEN a.fixed ELSE b.fixed
        short == IF Len(a.fixed) >= Len(b.fixed) THEN b.fixed ELSE a.fixed
    IN [fixed |-> [i \in DOMAIN long |-> IF i \in DOMAIN short /\ short[i].kind = "static" THEN short[i] ELSE long[i]],
        open |-> a.open /\ b.open]

-----------------------------------------------------------------------------
\* A table is a sequence of routes [segments, methods], each pattern once: Router::build refuses a
\* pattern conflicting with another's, and a method answered twice.
Conflicts(a, b) ==
    /\ Len(a) = Len(b)
    /\ \A i \in DOMAIN a : a[i].kind = b[i].kind /\ (a[i].kind = "static" => a[i].text = b[i].text)

TableAccepted(table) == \A i, j \in DOMAIN table : i # j => ~Conflicts(table[i].segments, table[j].segments)

Rank(segment) == CASE segment.kind = "static" -> 0 [] segment.kind = "param" -> 1 [] OTHER -> 2

\* Pattern::precedence, compared as the sort compares the keys.
Precedes(a, b) ==
    \/ \E i \in DOMAIN a \cap DOMAIN b :
        Rank(a[i]) < Rank(b[i]) /\ \A j \in 1..(i - 1) : Rank(a[j]) = Rank(b[j])
    \/ Len(a) < Len(b) /\ \A i \in DOMAIN a : Rank(a[i]) = Rank(b[i])

SameRank(a, b) == Len(a) = Len(b) /\ \A i \in DOMAIN a : Rank(a[i]) = Rank(b[i])

\* mutant: the routes tried in the order they were declared.
TriesDeclared(table, i, j) == i < j

\* The order Router::build leaves the routes in: by precedence, a stable sort.
TriesBefore(table, i, j) ==
    \/ Precedes(table[i].segments, table[j].segments)
    \/ SameRank(table[i].segments, table[j].segments) /\ i < j

Matching(table, pieces) == {i \in DOMAIN table : Matches(table[i].segments, pieces)}
FirstMatch(table, pieces) ==
    CHOOSE i \in Matching(table, pieces) : \A j \in Matching(table, pieces) \ {i} : TriesBefore(table, i, j)

\* allow_of
AllowOf(methods) == methods \cup {"OPTIONS"} \cup (IF "GET" \in methods THEN {"HEAD"} ELSE {})

\* Router::route: the first pattern that matches decides, whatever its methods.
RouteOf(table, method, pieces) ==
    IF Matching(table, pieces) = {} THEN [answer |-> "404", route |-> <<>>, allow |-> {}]
    ELSE LET entry == table[FirstMatch(table, pieces)]
             Answered(answer) == [answer |-> answer, route |-> entry.segments, allow |-> AllowOf(entry.methods)]
         IN CASE method \in entry.methods -> Answered("found")
              [] method = "HEAD" /\ "GET" \in entry.methods -> Answered("headFromGet")
              [] method = "OPTIONS" -> Answered("204")
              [] OTHER -> Answered("405")

-----------------------------------------------------------------------------
\* An entry is [scope, exclude], sets of shapes. Filter::admits.
Admits(entry, pieces) ==
    (\E s \in entry.scope : CoversPath(s, pieces)) /\ ~\E x \in entry.exclude : CoversPath(x, pieces)

\* Stage::scoped_for: whether the route's stage holds the entry, and whether a request checks it.
ScopedFor(entry, route) ==
    CASE \E x \in entry.exclude : Covers(x, route) -> "absent"
      [] ~\E s \in entry.scope : Overlaps(s, route) -> "absent"
      [] (\E s \in entry.scope : Covers(s, route)) /\ ~\E x \in entry.exclude : Overlaps(x, route) -> "unchecked"
      [] OTHER -> "checked"

\* ScopedStage::runnable_for
RunsOn(entry, route, pieces) ==
    CASE ScopedFor(entry, route) = "unchecked" -> TRUE
      [] ScopedFor(entry, route) = "checked" -> Admits(entry, pieces)
      [] OTHER -> FALSE

\* Stage::scoped_for's marks, which Stage::unreached reads.
Reached(entry, scope, routes) ==
    \E r \in routes :
        /\ ~\E x \in entry.exclude : Covers(x, r)
        /\ Overlaps(scope, r) /\ ~\E x \in entry.exclude : Covers(x, scope)

\* Stage::runs_on_every_request
RunsOnEveryRequest(entry, table, i) ==
    LET route == Shape(table[i].segments)
        before == {Shape(table[j].segments) : j \in {k \in DOMAIN table : k # i /\ TriesBefore(table, k, i)}}
    IN /\ \E s \in entry.scope : Covers(s, route)
       /\ \A x \in entry.exclude : Overlaps(x, route) => \E b \in before : Covers(b, Intersection(x, route))

-----------------------------------------------------------------------------
\* The two parsers of a route literal, the router's and the attribute's, refuse the same literals
\* for the same reason.
ParsersAgree(pieces) == ParseFault(pieces, FALSE) = MacroFault(pieces)

\* Router: which route answers a path does not depend on the order handlers were declared in, the
\* one chosen is matched by the path and by no other pattern that ranks before it, and a method is
\* listed in Allow exactly when the path does not answer it 405.
TableAnswersAlike(table, paths, methods) ==
    TableAccepted(table) =>
        \A pieces \in paths, method \in methods :
            LET answer == RouteOf(table, method, pieces) IN
            /\ answer = RouteOf(Reverse(table), method, pieces)
            /\ answer.answer # "404" =>
                /\ Matches(answer.route, pieces)
                /\ ~\E i \in Matching(table, pieces) : Precedes(table[i].segments, answer.route)
                /\ (method \in answer.allow) = (answer.answer # "405")

\* ScopePattern::covers, overlaps: the comparisons made once in prepare decide what comparing
\* every path would.
ShapesExact(scope, route, paths) ==
    /\ Overlaps(scope, Shape(route)) = (\E pieces \in paths : CoversPath(scope, pieces) /\ Matches(route, pieces))
    /\ Covers(scope, Shape(route)) = (\A pieces \in paths : Matches(route, pieces) => CoversPath(scope, pieces))

\* The pre-dispatch stage: whether an entry runs never depends on the route table, so a request
\* runs through its route's stage exactly the entries it would have run unrouted.
StagesAgree(entry, route, paths) ==
    \A pieces \in paths : Matches(route, pieces) => RunsOn(entry, Shape(route), pieces) = Admits(entry, pieces)

\* Embedded::check_host_values, for one Host<V> a handler reads: copied in by a forward, supplied by
\* an unscoped entry, or by a scoped one that runs on every request reaching the route.
HostReadAccepted(entries, forwarded, table, i) ==
    \/ forwarded
    \/ \E e \in entries :
        e.supplies /\ (~e.scoped \/ ScopedFor(e, Shape(table[i].segments)) = "unchecked" \/ RunsOnEveryRequest(e, table, i))

\* Stage::runs_on_every_request, which an embedding's check of Host<V> trusts: a read it accepts is
\* supplied on every request the router answers with that route.
HostReadSupplied(entries, forwarded, table, i, paths) ==
    HostReadAccepted(entries, forwarded, table, i) =>
        forwarded \/ \A pieces \in paths :
            (Matching(table, pieces) # {} /\ FirstMatch(table, pieces) = i) =>
                \E e \in entries : e.supplies /\ (e.scoped => Admits(e, pieces))

-------------------------------------------------------------------------------
(***************************************************************************)
(* The CORS middleware (ulo-http/src/cors.rs): the origins, methods and    *)
(* headers allowed, a preflight answered without reaching routing, and the *)
(* headers decorate adds to every other response.                          *)
(***************************************************************************)

Absent == "absent"

\* What the builder's calls leave: no origin until one is set, the last of allow_headers and
\* allow_any_header, the rest added up.
CorsSettings(origins) ==
    [origins : {"none", "any", "list"}, list : SUBSET origins, credentials : BOOLEAN,
     headers : {"none", "list", "any"}, expose : BOOLEAN]

\* Cors::check, in prepare: the configuration the specification forbids.
CorsAccepted(cors) == ~(cors.credentials /\ cors.origins = "any")

\* allowed_origin: what Access-Control-Allow-Origin answers an origin.
AllowedOrigin(cors, origin) ==
    CASE origin = Absent \/ cors.origins = "none" -> Absent
      [] cors.origins = "any" -> IF cors.credentials THEN Absent ELSE "*"
      [] OTHER -> IF origin \in cors.list THEN origin ELSE Absent

\* vary: unless a value lists the name or is `*`.
Vary(vary, name) == IF name \in Range(vary) \/ "*" \in Range(vary) THEN vary ELSE Append(vary, name)

\* preflight: 204, its own Vary, and the allow headers of an origin that is allowed.
Preflight(cors, request) ==
    LET origin == AllowedOrigin(cors, request.origin)
    IN [status |-> 204, origin |-> origin, routed |-> FALSE,
        credentials |-> cors.credentials /\ origin # Absent,
        headers |-> IF origin = Absent \/ cors.headers = "none" THEN Absent
                    ELSE IF cors.headers = "any" THEN request.asked ELSE "list",
        expose |-> FALSE, vary |-> Vary(Vary(Vary(<<>>, "origin"), "method"), "headers")]

\* decorate: Vary on every response, the allow headers for an origin that is allowed.
Decorate(cors, request, response) ==
    LET origin == AllowedOrigin(cors, request.origin)
        varied == [response EXCEPT !.vary = Vary(@, "origin")]
    IN IF origin = Absent THEN varied
       ELSE [varied EXCEPT !.origin = origin, !.credentials = @ \/ cors.credentials, !.expose = @ \/ cors.expose]

IsPreflight(request) == request.method = "OPTIONS" /\ request.origin # Absent /\ request.asksMethod

\* Middleware::handle; `response` is what the rest of the stage answers.
Handle(cors, request, response) ==
    IF IsPreflight(request) THEN Preflight(cors, request) ELSE Decorate(cors, request, response)

-----------------------------------------------------------------------------
\* Cors: what the Fetch protocol needs of it. `*` never goes with credentials; a cross-origin request
\* is allowed as its preflight was; and a shared cache can tell two origins apart, since every
\* response it passes names Origin in Vary, once, whatever the handler wrote there.
CorsKept(cors, request, response) ==
    LET answer == Handle(cors, request, response)
        preflight == Preflight(cors, request)
        Listed(name) == {i \in DOMAIN answer.vary : answer.vary[i] = name}
    IN CorsAccepted(cors) =>
        /\ ~(answer.origin = "*" /\ answer.credentials)
        /\ ~IsPreflight(request) =>
            /\ answer.origin = preflight.origin /\ answer.credentials = preflight.credentials
            /\ \A a, b \in Listed("origin") : a = b
        /\ Listed("origin") # {} \/ Listed("*") # {}

-------------------------------------------------------------------------------
(***************************************************************************)
(* The HTTP extractors (ulo-http/src/extract): the body read whole or as a *)
(* stream within the route's limit, the deserializer behind Path, Query    *)
(* and Form, its startup check against the route, and form decoding.       *)
(***************************************************************************)

-----------------------------------------------------------------------------
\* A body: the length it declares ("none" undeclared as -1), whether it has ended before it is read,
\* and its frames, each [kind, size] with kind "data", "trailers" or "error".
Undeclared == -1

\* take and take_present: the slot's state, and for an extractor that requires one, a body.
TakeFault(slot, body, requires) ==
    IF slot # "unread" THEN (IF slot = "taken" THEN "BodyTaken" ELSE "Missing")
    ELSE IF requires /\ (body.frames = <<>> \/ body.declared = 0) THEN "Missing" ELSE "none"

\* What arrives before the first data frame past the limit or the first failed read.
Read(frames, i) == FoldLeft(LAMBDA n, f : n + f.size, 0, SelectSeq(SubSeq(frames, 1, i), LAMBDA f : f.kind = "data"))
Passes(frames, limit) == {i \in DOMAIN frames : frames[i].kind = "data" /\ Read(frames, i) > limit}
Fails(frames) == {i \in DOMAIN frames : frames[i].kind = "error"}
First(indices) == CHOOSE i \in indices : \A j \in indices : i <= j

\* collect: the declared length first, then each frame as it arrives.
Collect(body, limit) ==
    LET stops == Passes(body.frames, limit) \cup Fails(body.frames)
    IN IF body.declared > limit THEN [end |-> "TooLarge", bytes |-> 0]
       ELSE IF stops = {} THEN [end |-> "whole", bytes |-> Read(body.frames, Len(body.frames))]
       ELSE [end |-> IF First(stops) \in Fails(body.frames) THEN "Malformed" ELSE "TooLarge", bytes |-> 0]

\* BodyStream::poll_next, by a reader that stops at the first error: the chunks it was handed.
Stream(body, limit) ==
    LET Step(state, frame) ==
            IF state.end # "whole" \/ frame.kind = "trailers" THEN state
            ELSE IF frame.kind = "error" THEN [state EXCEPT !.end = "Malformed"]
            ELSE IF state.bytes + frame.size > limit THEN [state EXCEPT !.end = "TooLarge"]
            ELSE [state EXCEPT !.bytes = @ + frame.size]
    IN IF body.declared > limit THEN [end |-> "TooLarge", bytes |-> 0]
       ELSE FoldLeft(Step, [end |-> "whole", bytes |-> 0], body.frames)

-----------------------------------------------------------------------------

\* check_path, with Recorder: the names exactly, the tuple's length, the one parameter.
\* What a Deserialize impl asks for: newtypes and options seen through, then a struct's fields, a
\* tuple's length, one value, or nothing that can be checked.
\* The type is [via, shape, fields, len]; a field is [name, optional].
CheckPath(type, params) ==
    CASE type.shape = "struct" -> {f.name : f \in type.fields} = Range(params)
      [] type.shape = "tuple" -> type.len = Len(params)
      [] type.shape = "single" -> Len(params) = 1
      [] OTHER -> TRUE

\* Pairs: a Deserialize impl answered from the pairs, whose values are "ok" or do not parse.
FromPairs(type, pairs, source) ==
    LET named(name) == {i \in DOMAIN pairs : pairs[i].name = name}
        Bad(i) == pairs[i].value = "bad"
    IN CASE type.shape = "struct" ->
               IF \E f \in type.fields : Cardinality(named(f.name)) > 1 THEN "duplicate"
               ELSE IF \E f \in type.fields : \E i \in named(f.name) : Bad(i) THEN "malformed"
               ELSE IF \E f \in type.fields : named(f.name) = {} /\ ~f.optional THEN "missing" ELSE "ok"
         [] type.shape = "tuple" ->
               IF source = "path" /\ type.len # Len(pairs) THEN "shape"
               ELSE IF source = "form" /\ type.len > Len(pairs) THEN "shape"
               ELSE IF \E i \in DOMAIN pairs : Bad(i) THEN "malformed" ELSE "ok"
         [] type.shape = "single" ->
               IF source = "form" \/ Len(pairs) # 1 THEN "shape" ELSE IF Bad(1) THEN "malformed" ELSE "ok"
         [] OTHER -> IF \E i \in DOMAIN pairs : Bad(i) THEN "malformed" ELSE "ok"

\* into_extract, for a path and a query, and into_mismatch, for a form body.
ExtractFault(fault, content) ==
    IF fault = "ok" THEN "none" ELSE IF content THEN "Mismatched" ELSE IF fault = "missing" THEN "Missing" ELSE "Malformed"

-----------------------------------------------------------------------------
\* A form's text is a sequence of marks: "&", "=", "+", a percent escape of one mark, or a letter.
Escapes == [e26 |-> "&", e3D |-> "=", e2B |-> "+", e20 |-> " "]

\* form_decode: `+` is a space, then the escapes.
FormDecode(text) ==
    [i \in DOMAIN text |-> IF text[i] = "+" THEN " " ELSE IF text[i] \in DOMAIN Escapes THEN Escapes[text[i]] ELSE text[i]]

SplitPiece(piece) ==
    LET at == {i \in DOMAIN piece : piece[i] = "="}
    IN IF at = {} THEN <<piece, <<>>>> ELSE <<SubSeq(piece, 1, First(at) - 1), SubSeq(piece, First(at) + 1, Len(piece))>>

Pieces(text) ==
    LET Step(pieces, mark) ==
            IF mark = "&" THEN Append(pieces, <<>>) ELSE Front(pieces) \o <<Append(Last(pieces), mark)>>
    IN FoldLeft(Step, <<<<>>>>, text)

\* parse_form: split at `&`, empty pieces skipped, each at its first `=`, then decoded.
ParseForm(text) ==
    LET pieces == SelectSeq(Pieces(text), LAMBDA p : p # <<>>)
    IN [i \in DOMAIN pieces |-> [j \in 1..2 |-> FormDecode(SplitPiece(pieces[i])[j])]]

\* The WHATWG serializer a client writes a form with: a name may hold `=` only escaped, a value may
\* hold it bare, and a space is `+` or its escape.
Written(pairs, bare, plus) ==
    LET Mark(m, inValue) ==
            CASE m = "&" -> "e26" [] m = "+" -> "e2B" [] m = " " -> (IF plus THEN "+" ELSE "e20")
              [] m = "=" -> (IF inValue /\ bare THEN "=" ELSE "e3D") [] OTHER -> m
        Text(text, inValue) == [i \in DOMAIN text |-> Mark(text[i], inValue)]
        Pair(p) == Text(p[1], FALSE) \o <<"=">> \o Text(p[2], TRUE)
    IN FoldLeft(LAMBDA out, p : (IF out = <<>> THEN <<>> ELSE Append(out, "&")) \o Pair(p), <<>>, pairs)

-----------------------------------------------------------------------------
\* A body read whole and a body streamed are held to one limit: both refuse, and for the same reason,
\* exactly the same bodies, and neither hands over more than the limit whatever length was declared.
LimitHeldAlike(body, limit) ==
    /\ Stream(body, limit).end = Collect(body, limit).end
    /\ Stream(body, limit).bytes <= limit /\ Collect(body, limit).bytes <= limit
    /\ Collect(body, limit).end = "whole" => Stream(body, limit).bytes = Collect(body, limit).bytes

\* Path<T>'s startup check: a type it accepts fails no request of its route but for a value that does
\* not parse, and one it refuses for a tuple or a single value would have failed them all.
PathCheckedAtStartup(type, params, pairs) ==
    (Len(pairs) = Len(params) /\ \A i \in DOMAIN pairs : pairs[i].name = params[i]) =>
        /\ CheckPath(type, params) => FromPairs(type, pairs, "path") \in {"ok", "malformed"}
        /\ (type.shape \in {"tuple", "single"} /\ ~CheckPath(type, params)) => FromPairs(type, pairs, "path") = "shape"

\* parse_form says it reads a form as the URL standard defines: what a client's serializer writes is
\* read back pair for pair, a value's own `=` and empty names and values included.
FormReadBack(pairs) ==
    \A bare, plus \in BOOLEAN : ParseForm(Written(pairs, bare, plus)) = pairs

-------------------------------------------------------------------------------
(***************************************************************************)
(* GraphQL over HTTP: the endpoint's GET and POST                          *)
(* (ulo-graphql-http/src/controller.rs, playground.rs, module.rs), the     *)
(* negotiation of the response's media type, the scan that tells which     *)
(* operation a document selects before it executes, and the two engines'   *)
(* answers (ulo-graphql-async-graphql, ulo-graphql-juniper) in the terms   *)
(* of ulo-graphql's Outcome and RequestFault.  Operators only: each is a   *)
(* function of its arguments.                                              *)
(***************************************************************************)

-----------------------------------------------------------------------------
(* GqlResponse.                                                            *)

Executed == [outcome |-> "Executed", fault |-> ""]
Failed == [outcome |-> "Failed", fault |-> ""]
RequestFault(fault) == [outcome |-> "RequestError", fault |-> fault]

\* The status is the same under every media type.
Status(response) ==
    CASE response.outcome = "Executed" -> 200
      [] response.outcome = "Failed" -> 500
      [] response.outcome = "RequestError" -> IF response.fault \in {"Encoding", "Syntax"} THEN 400 ELSE 422

-----------------------------------------------------------------------------
(* Accept.  A range names a type (or "*"), a subtype (or "*") and a        *)
(* qvalue, written as its whole part and the digits after the point.       *)

\* Anything that is not 0 to 1 with at most three decimals reads as 0; 10 stands for a non-digit.
ParseQuality(q) ==
    LET d == [i \in 1..3 |-> IF i <= Len(q.digits) THEN q.digits[i] ELSE 0]
        thousandths == d[1] * 100 + d[2] * 10 + d[3] IN
    IF Len(q.digits) > 3 \/ \E i \in DOMAIN q.digits : q.digits[i] = 10 THEN 0
    ELSE CASE q.whole = 0 -> thousandths
           [] q.whole = 1 /\ thousandths = 0 -> 1000
           [] OTHER -> 0

AcceptRanges(accept) == [i \in DOMAIN accept |-> [accept[i] EXCEPT !.q = ParseQuality(accept[i].q)]]

Specificity(range, kind, subtype) ==
    CASE range.kind = kind /\ range.subtype = subtype -> 3
      [] range.kind = kind /\ range.subtype = "*" -> 2
      [] range.kind = "*" /\ range.subtype = "*" -> 1
      [] OTHER -> 0

\* The quality of the first of the most specific ranges that match.
Quality(ranges, kind, subtype) ==
    FoldLeft(LAMBDA best, r : IF Specificity(r, kind, subtype) > best[1]
                              THEN <<Specificity(r, kind, subtype), r.q>> ELSE best,
             <<0, 0>>, ranges)[2]

Negotiate(accept) ==
    LET ranges == AcceptRanges(accept)
        graphql == Quality(ranges, "application", "graphql-response+json")
        json == Quality(ranges, "application", "json") IN
    CASE ranges = <<>> -> "GraphqlResponse"
      [] ranges # <<>> /\ graphql = 0 /\ json = 0 -> "NotAcceptable"
      [] ranges # <<>> /\ graphql = 0 /\ json > 0 -> "Legacy"
      [] OTHER -> IF graphql >= json THEN "GraphqlResponse" ELSE "Json"

ContentType(media, status) ==
    IF media = "Json" \/ (media = "Legacy" /\ status = 200) THEN "json" ELSE "graphql-response+json"

\* The playground wants text/html by name: a wildcard does not count.
AcceptsHtml(accept) ==
    \E i \in DOMAIN accept : /\ accept[i].kind = "text"
                             /\ accept[i].subtype = "html"
                             /\ AcceptRanges(accept)[i].q > 0

-----------------------------------------------------------------------------
(* The scan of a document, a sequence of tokens: keywords and names,       *)
(* punctuation, "str" for a string or comment, "open" for a string that    *)
(* never ends.                                                             *)

Keywords == {"query", "mutation", "subscription"}
Names == Keywords \cup {"fragment", "A", "B"}

\* skip_string, over characters: a quote, a backslash, a line end or anything else.
Quotes(text, i) == i + 2 <= Len(text) /\ \A j \in i..(i + 2) : text[j] = "quote"

BlockEnd(t) ==
    LET end[i \in 1..(Len(t) + 4)] ==
            CASE i > Len(t) -> 0
              [] i <= Len(t) /\ t[i] = "back" /\ Quotes(t, i + 1) -> end[i + 4]
              [] i <= Len(t) /\ Quotes(t, i) -> i + 3
              [] OTHER -> end[i + 1]
    IN end[4]

LineEnd(t) ==
    LET end[i \in 1..(Len(t) + 4)] ==
            CASE i > Len(t) -> 0
              [] i <= Len(t) /\ t[i] = "back" -> end[i + 2]
              [] i <= Len(t) /\ t[i] = "quote" -> i + 1
              [] i <= Len(t) /\ t[i] = "line" -> 0
              [] OTHER -> end[i + 1]
    IN end[2]

\* The index just past the string that starts the text, 0 for one left open.
SkipString(text) == IF Quotes(text, 1) THEN BlockEnd(text) ELSE LineEnd(text)

ScanStart == [state |-> "Start", found |-> <<>>, pending |-> <<>>, braces |-> 0, parens |-> 0, ok |-> TRUE]

OpenBrace(st) ==
    LET found == CASE st.state = "Start" -> <<[kind |-> "query", name |-> ""]>>
                   [] OTHER -> st.pending IN
    CASE st.braces > 0 -> [st EXCEPT !.braces = @ + 1]
      [] st.braces = 0 /\ st.state = "Body" -> [st EXCEPT !.ok = FALSE]
      [] OTHER -> [st EXCEPT !.found = @ \o found, !.braces = 1, !.state = "Body",
                             !.pending = IF st.state = "Start" THEN @ ELSE <<>>]

CloseBrace(st) ==
    IF st.braces = 0 THEN [st EXCEPT !.ok = FALSE]
    ELSE [st EXCEPT !.braces = @ - 1, !.state = IF st.braces = 1 THEN "Start" ELSE @]

\* A name counts between definitions and in an operation's header alone.
NameAt(st, name) ==
    CASE st.braces > 0 \/ st.parens > 0 -> st
      [] st.braces = 0 /\ st.parens = 0 /\ st.state = "Start" ->
            CASE name \in Keywords -> [st EXCEPT !.pending = <<[kind |-> name, name |-> ""]>>, !.state = "Keyword"]
              [] name = "fragment" -> [st EXCEPT !.pending = <<>>, !.state = "Header"]
              [] OTHER -> [st EXCEPT !.ok = FALSE]
      [] st.braces = 0 /\ st.parens = 0 /\ st.state = "Keyword" ->
            [st EXCEPT !.pending[1].name = name, !.state = "Header"]
      [] OTHER -> st

\* A variable list or a directive ends the place where an operation's name may stand.
EndsNaming(st) == st.braces = 0 /\ st.state = "Keyword"

ScanToken(st, t) ==
    CASE ~st.ok \/ t = "str" -> st
      [] st.ok /\ t = "open" -> [st EXCEPT !.ok = FALSE]
      [] st.ok /\ t = "(" -> [st EXCEPT !.parens = @ + 1, !.state = IF EndsNaming(st) THEN "Header" ELSE @]
      [] st.ok /\ t = ")" -> IF st.parens = 0 THEN [st EXCEPT !.ok = FALSE] ELSE [st EXCEPT !.parens = @ - 1]
      [] st.ok /\ t = "{" -> IF st.parens = 0 THEN OpenBrace(st) ELSE st
      [] st.ok /\ t = "}" -> IF st.parens = 0 THEN CloseBrace(st) ELSE st
      [] st.ok /\ t \in Names -> NameAt(st, t)
      [] st.ok /\ t \in {"@", "$"} /\ st.parens = 0 -> [st EXCEPT !.state = IF EndsNaming(st) THEN "Header" ELSE @]
      [] OTHER -> st

\* The kind of the operation named `wanted` ("" for none), "" when that cannot be told.
OperationKind(tokens, wanted) ==
    LET end == FoldLeft(ScanToken, ScanStart, tokens)
        named == SelectSeq(end.found, LAMBDA o : o.name = wanted) IN
    CASE ~end.ok \/ end.braces # 0 \/ end.parens # 0 -> ""
      [] end.ok /\ end.braces = 0 /\ end.parens = 0 /\ wanted # "" -> IF named = <<>> THEN "" ELSE named[1].kind
      [] OTHER -> IF Len(end.found) = 1 THEN end.found[1].kind ELSE ""
-----------------------------------------------------------------------------
(* The endpoint.  An answer is a status, the response's content type, what *)
(* executed and the paths a playground page names.                         *)

Answer(status, type) == [status |-> status, type |-> type, executed |-> FALSE, paths |-> <<>>]
Rendered(response, media) == Answer(Status(response), ContentType(media, Status(response)))

\* An object, `null` or nothing is taken; any other text is a request that is not well formed.
JsonObject(text) == text \in {"absent", "null", "object"}

\* The path with one leading slash and no trailing one.
NormalizeQuery(path) ==
    LET kept == {i \in DOMAIN path : path[i] # "/"} IN
    <<"/">> \o (IF kept = {} THEN <<>>
                ELSE SubSeq(path, CHOOSE i \in kept : \A j \in kept : i <= j,
                                  CHOOSE i \in kept : \A j \in kept : i >= j))

\* GraphqlModule::register: where the endpoint and the gateway are mounted, <<>> for no gateway,
\* and whether a zero init timeout refuses the application.
Register(config) ==
    LET gateway == IF config.subscriptions = <<>> THEN <<>> ELSE NormalizeQuery(config.subscriptions) IN
    [path |-> NormalizeQuery(config.path), gateway |-> gateway,
     refused |-> gateway # <<>> /\ config.init = 0]

\* The page's paths are the ones a browser reaches, the embedding host's prefix before each.
Page(mounts, prefix) ==
    [Answer(200, "html") EXCEPT !.paths = <<prefix \o mounts.path,
                                            IF mounts.gateway = <<>> THEN <<>> ELSE prefix \o mounts.gateway>>]

\* `wants` says whether the endpoint serves a page and the engine has one.
Get(call, mounts, wants, answer) ==
    LET media == Negotiate(call.accept) IN
    CASE call.query = <<>> /\ wants /\ AcceptsHtml(call.accept) -> Page(mounts, call.prefix)
      [] ~(call.query = <<>> /\ wants /\ AcceptsHtml(call.accept)) ->
            CASE media = "NotAcceptable" -> Answer(406, "problem")
              [] media # "NotAcceptable" /\ (call.query = <<>> \/ ~JsonObject(call.variables) \/ ~JsonObject(call.extensions)) ->
                    Rendered(RequestFault("NotWellFormed"), media)
              [] OTHER -> IF OperationKind(call.query, call.name) = "mutation" THEN Answer(405, "problem")
                          ELSE [Rendered(answer, media) EXCEPT !.executed = TRUE]

\* JSON that the server refuses is not well formed, whatever category the parser files it under.
BodyFault(body) ==
    IF body.category = "Data" \/ (body.category = "Syntax" /\ body.utf8 /\ body.json)
    THEN "NotWellFormed" ELSE "Encoding"

IsJson(type) == type = "application/json"

Post(call, answer) ==
    LET media == Negotiate(call.accept) IN
    CASE ~IsJson(call.type) -> Answer(415, "problem")
      [] IsJson(call.type) /\ media = "NotAcceptable" -> Answer(406, "problem")
      [] IsJson(call.type) /\ media # "NotAcceptable" /\ call.body.category = "Over" -> Answer(413, "problem")
      [] IsJson(call.type) /\ media # "NotAcceptable" /\ call.body.category \in {"Data", "Syntax", "Eof"} ->
            Rendered(RequestFault(BodyFault(call.body)), media)
      [] OTHER -> [Rendered(answer, media) EXCEPT !.executed = TRUE]
-----------------------------------------------------------------------------
(* The engines, over what is true of a request: whether its context        *)
(* builds, its document parses, validates and selects an operation, which  *)
(* kind that is, how its variables stand and whether its extensions        *)
(* convert.                                                                *)

\* The fault async-graphql's schema answers for, told from the document.
FaultBeforeExecution(r) ==
    CASE ~r.parses -> "Syntax"
      [] r.parses /\ ~r.selects -> "Operation"
      [] OTHER -> "Validation"

MissingVariables(r) == r.parses /\ r.selects /\ r.variables = "missing"

\* The schema's own answer (external): no data and errors without a path before execution; a
\* variable of the wrong type is met by the field that reads it.
SchemaResponse(r) ==
    CASE ~r.parses \/ ~r.validates \/ ~r.selects \/ r.kind = "subscription" -> [data |-> FALSE, errors |-> TRUE, pathed |-> FALSE]
      [] OTHER -> [data |-> r.variables # "wrong", errors |-> r.variables = "wrong", pathed |-> r.variables = "wrong"]

AsyncResponse(response, fault) ==
    IF ~response.data /\ response.errors /\ ~response.pathed THEN RequestFault(fault) ELSE Executed

AsyncExecute(r) ==
    CASE ~r.context -> Failed
      [] r.context /\ MissingVariables(r) -> RequestFault("Coercion")
      [] r.context /\ ~MissingVariables(r) /\ ~r.extensions -> RequestFault("NotWellFormed")
      [] OTHER -> AsyncResponse(SchemaResponse(r), FaultBeforeExecution(r))

\* A subscription's stream, one response per event; anything else answers once.
AsyncSubscribe(r, events) ==
    LET whole == AsyncExecute([r EXCEPT !.kind = "query"]) IN
    IF r.kind = "subscription" /\ whole.outcome = "Executed" THEN [i \in 1..events |-> Executed] ELSE <<whole>>

\* juniper's error before execution (external), "" when the request executes.
JuniperError(r) ==
    CASE ~r.parses -> "ParseError"
      [] r.parses /\ (~r.validates \/ (r.selects /\ r.variables \in {"missing", "wrong"})) -> "ValidationError"
      [] r.parses /\ r.validates /\ ~r.selects -> "UnknownOperationName"
      [] OTHER -> IF r.kind = "subscription" THEN "IsSubscription" ELSE ""

FaultOf(error) ==
    CASE error = "ParseError" -> "Syntax"
      [] error = "ValidationError" -> "Validation"
      [] OTHER -> "Operation"

JuniperExecute(r) ==
    CASE ~r.context -> Failed
      [] OTHER -> IF JuniperError(r) = "" THEN Executed ELSE RequestFault(FaultOf(JuniperError(r)))

\* drive: an operation that is not a subscription executes once and its response is sent.
JuniperDrive(r, events) ==
    LET error == JuniperError([r EXCEPT !.kind = "query"]) IN
    CASE ~r.context -> <<Failed>>
      [] r.context /\ error # "" -> <<RequestFault(FaultOf(error))>>
      [] OTHER -> IF r.kind = "subscription" THEN [i \in 1..events |-> Executed] ELSE <<JuniperExecute(r)>>
-----------------------------------------------------------------------------
(* Properties.                                                             *)

\* A definition of a document, written as the grammar writes it: variables with an object as a
\* default, a directive with arguments, and a selection set whose fields are named like keywords.
DefTokens(def) ==
    LET vars == IF def.vars THEN <<"(", "$", "{", "str", "}", ")">> ELSE <<>>
        dirs == IF def.directive THEN <<"@", "A", "(", ")">> ELSE <<>>
        body == <<"{", "mutation", "{", "}", "}">> IN
    (CASE def.kind = "shorthand" -> <<>>
       [] def.kind = "fragment" -> <<"fragment", "A", "B">> \o dirs
       [] OTHER -> <<def.kind>> \o (IF def.name = "" THEN <<>> ELSE <<def.name>>) \o vars \o dirs) \o body

DocTokens(defs) == FlattenSeq([i \in DOMAIN defs |-> DefTokens(defs[i])])

\* The operation a document selects, by the specification's GetOperation.
Selected(defs, wanted) ==
    LET operations == SelectSeq(defs, LAMBDA d : d.kind # "fragment")
        chosen == IF wanted = "" THEN operations ELSE SelectSeq(operations, LAMBDA d : d.name = wanted) IN
    IF chosen = <<>> \/ (wanted = "" /\ Len(chosen) > 1) THEN ""
    ELSE IF chosen[1].kind = "shorthand" THEN "query" ELSE chosen[1].kind

\* controller.rs get, operation_kind: a GET executes nothing when the operation the document
\* selects is a mutation, whatever stands in its variable defaults, its directives, its other
\* definitions and its selection sets; and the scan finds every document's selected operation.
GetRunsNoMutation(defs, wanted, accept, variables) ==
    LET call == [accept |-> accept, query |-> DocTokens(defs), name |-> wanted, variables |-> variables,
                 extensions |-> "absent", prefix |-> <<>>]
        mounts == Register([path |-> <<"a">>, subscriptions |-> <<>>, init |-> 1])
        got == Get(call, mounts, TRUE, Executed) IN
    /\ OperationKind(DocTokens(defs), wanted) = Selected(defs, wanted)
    /\ got.executed => Selected(defs, wanted) # "mutation"

\* controller.rs Media::negotiate, content_type: a GraphQL response is sent in a type the client
\* accepts, and in the one it prefers of the two; only an error under the legacy rule may be
\* sent in the GraphQL type although the client named JSON alone.  Nothing is executed for a
\* client that accepts neither.
MediaAccepted(accept, answer) ==
    LET post == Post([accept |-> accept, type |-> "application/json", body |-> [category |-> "Request"]], answer)
        q(sub) == LET r == AcceptRanges(accept)
                      best == {i \in DOMAIN r : Specificity(r[i], "application", sub) > 0
                                 /\ \A j \in DOMAIN r : Specificity(r[j], "application", sub) <= Specificity(r[i], "application", sub)} IN
                  IF best = {} THEN 0 ELSE r[CHOOSE i \in best : \A j \in best : i <= j].q
        json == q("json") graphql == q("graphql-response+json") IN
    accept # <<>> =>
        IF post.executed
        THEN CASE post.type = "json" -> json > 0 /\ (graphql = 0 \/ json > graphql)
               [] OTHER -> (graphql > 0 /\ graphql >= json) \/ (graphql = 0 /\ json > 0 /\ post.status # 200)
        ELSE json = 0 /\ graphql = 0 /\ post.status = 406

\* ulo-graphql-async-graphql response_of and ulo-graphql-juniper fault_of: the two engines answer
\* the same request with the same HTTP status, but for a variable of the wrong type, which
\* async-graphql executes; and a request that fails before execution answers a subscription with
\* that one response.
EnginesAnswerAlike(r, events) ==
    /\ (r.variables # "wrong" /\ r.extensions) => Status(AsyncExecute(r)) = Status(JuniperExecute(r))
    /\ (r.variables # "wrong" /\ r.extensions) => [i \in DOMAIN AsyncSubscribe(r, events) |-> Status(AsyncSubscribe(r, events)[i])]
            = [i \in DOMAIN JuniperDrive(r, events) |-> Status(JuniperDrive(r, events)[i])]
    /\ (r.context /\ r.parses /\ r.validates /\ r.selects /\ r.kind # "subscription" /\ r.extensions /\ r.variables # "missing")
            => AsyncExecute(r) = Executed

\* controller.rs skip_string: a string written with the escapes the grammar has ends exactly
\* where it was closed, whatever follows it.
StringSkipped(body, block, rest) ==
    LET Item(i) == CASE i = "esc" -> IF block THEN <<"back", "quote", "quote", "quote">> ELSE <<"back", "quote">>
                     [] i = "back" -> IF block THEN <<"back">> ELSE <<"back", "back">>
                     [] OTHER -> <<i>>
        mark == IF block THEN <<"quote", "quote", "quote">> ELSE <<"quote">>
        text == mark \o FlattenSeq([i \in DOMAIN body |-> Item(body[i])]) \o mark
        clean == /\ \A i \in DOMAIN body : ~block => body[i] # "line"
                 /\ ~block => (body # <<>> \/ rest = <<>> \/ rest[1] # "quote")
                 /\ block => (body = <<>> \/ Last(body) # "back") IN
    clean => SkipString(text \o rest) = Len(text) + 1

-------------------------------------------------------------------------------
\* Server-Sent Events (ulo-http/src/sse.rs): the lines of a field.

\* lines: split at CR, LF and CRLF alike, the piece after a trailing terminator kept.
LinesOf(text) ==
    LET ends == {i \in DOMAIN text : text[i] = "LF" \/ (text[i] = "CR" /\ (i = Len(text) \/ text[i + 1] # "LF"))}
        Start(e) == IF \E f \in ends : f < e THEN 1 + CHOOSE f \in ends : f < e /\ \A g \in ends : g < e => g <= f ELSE 1
        Upto(e) == IF text[e] = "LF" /\ e > 1 /\ text[e - 1] = "CR" THEN e - 2 ELSE e - 1
        pieces == [e \in ends |-> SubSeq(text, Start(e), Upto(e))]
        ordered == SetToSortSeq(ends, <)
        tail == IF ends = {} THEN text ELSE SubSeq(text, Last(ordered) + 1, Len(text))
    IN Append([i \in DOMAIN ordered |-> pieces[ordered[i]]], tail)

-----------------------------------------------------------------------------

\* Event::encode's data lines: a reader that joins them with LF reads the text back with every
\* terminator as one LF, so no terminator of any of the three forms ends an event early.
LinesRejoin(text) ==
    LET lines == LinesOf(text)
        Joined[i \in 0..Len(lines)] ==
            IF i = 0 THEN <<>> ELSE (IF i = 1 THEN <<>> ELSE Append(Joined[i - 1], "LF")) \o lines[i]
        Kept[i \in 0..Len(text)] ==
            IF i = 0 THEN <<>>
            ELSE IF text[i] = "LF" /\ i > 1 /\ text[i - 1] = "CR" THEN Kept[i - 1]
            ELSE Append(Kept[i - 1], IF text[i] = "CR" THEN "LF" ELSE text[i])
    IN Joined[Len(lines)] = Kept[Len(text)]
===============================================================================
