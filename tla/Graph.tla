-------------------------------- MODULE Graph --------------------------------
(***************************************************************************)
(* The graph: what a module registers, and the five passes over the        *)
(* modules.  Each part below has its own constants, variables, Init and    *)
(* Next, and shares no state with the others.                              *)
(***************************************************************************)
EXTENDS Integers, Sequences, FiniteSets, SequencesExt, FiniteSetsExt

-------------------------------------------------------------------------------
(***************************************************************************)
(* The registration walk (ulo/src/graph/register.rs) and collection order  *)
(* (order.rs): modules reached depth first from a root, each identity      *)
(* registered once, import cycles followed to the node that claimed the    *)
(* identity, then a post-order over what was linked. A lazy load walks     *)
(* against the identities a frozen graph holds.                            *)
(***************************************************************************)

CONSTANTS
    Apps           \* the apps walked: [root, imports, keyed, frozen]; imports[m] is a sequence of
                   \*   [to, setting], keyed the modules registered under a key, frozen those of a base graph

VARIABLES
    app,           \* the app this walk registers
    stage,         \* "idle", "walk", "order", "done"
    nodes,         \* the registered modules, first reached first: [id, setting, inherited, links]
    path,          \* the frames of the walk: [node, next]
    selfImports,   \* the nodes that import their own identity
    differing,     \* the later imports whose setting is not the claiming one's: [to, setting]
    placed         \* collection order: node indices

importVars == <<app, stage, nodes, path, selfImports, differing, placed>>

\* A frozen module was registered with this setting.
FrozenSetting == 0

ImportsIdle ==
    /\ app \in Apps /\ stage = "idle"
    /\ nodes = <<>> /\ path = <<>> /\ selfImports = {} /\ differing = {} /\ placed = <<>>

NodeOf(id) == {n \in DOMAIN nodes : nodes[n].id = id}

\* enter: the nearest keyed module of the path a new node is reached by.
Nearest(frames) ==
    LET keyed == {i \in DOMAIN frames : nodes[frames[i].node].id \in app.keyed} IN
    {nodes[frames[i].node].id : i \in {j \in keyed : \A k \in keyed : k <= j}}

\* enter, for an identity met first: registered, its imports to be followed.
Enter(id, setting) ==
    /\ nodes' = Append(nodes, [id |-> id, setting |-> setting, inherited |-> Nearest(path), links |-> <<>>])
    /\ path' = Append(path, [node |-> Len(nodes) + 1, next |-> 1])

StartWalk ==
    /\ stage = "idle" /\ stage' = "walk"
    /\ Enter(app.root, 1)
    /\ UNCHANGED <<app, selfImports, differing, placed>>

Top == Last(path)
Above == [path EXCEPT ![Len(path)].next = @ + 1]
NextImport == app.imports[nodes[Top.node].id][Top.next]
HasImport == Top.next <= Len(app.imports[nodes[Top.node].id])

\* reach: an identity the frozen graph holds is linked, its setting compared.
ReachFrozen ==
    /\ stage = "walk" /\ path # <<>> /\ HasImport /\ NextImport.to \in app.frozen
    /\ differing' = differing \cup (IF NextImport.setting # FrozenSetting THEN {NextImport} ELSE {})
    /\ path' = Above
    /\ UNCHANGED <<app, stage, nodes, selfImports, placed>>

\* enter, for an identity claimed: linked; importing itself is a mistake of its own.
Differs(claimed) == claimed # Top.node /\ nodes[claimed].setting # NextImport.setting

ReachClaimed ==
    /\ stage = "walk" /\ path # <<>> /\ HasImport /\ NextImport.to \notin app.frozen
    /\ \E claimed \in NodeOf(NextImport.to) :
         /\ nodes' = [nodes EXCEPT ![Top.node].links = Append(@, claimed)]
         /\ selfImports' = selfImports \cup ({claimed} \cap {Top.node})
         /\ differing' = differing \cup (IF Differs(claimed) THEN {NextImport} ELSE {})
         /\ path' = Above
    /\ UNCHANGED <<app, stage, placed>>

ReachNew ==
    /\ stage = "walk" /\ path # <<>> /\ HasImport
    /\ NextImport.to \notin app.frozen /\ NodeOf(NextImport.to) = {}
    /\ nodes' = Append([nodes EXCEPT ![Top.node].links = Append(@, Len(nodes) + 1)],
                       [id |-> NextImport.to, setting |-> NextImport.setting, inherited |-> Nearest(path), links |-> <<>>])
    /\ path' = Append(Above, [node |-> Len(nodes) + 1, next |-> 1])
    /\ UNCHANGED <<app, stage, selfImports, differing, placed>>

Return ==
    /\ stage = "walk" /\ path # <<>> /\ ~HasImport
    /\ path' = Front(path)
    /\ UNCHANGED <<app, stage, nodes, selfImports, differing, placed>>

\* finish: the post-order starts at the first node.
StartOrder ==
    /\ stage = "walk" /\ path = <<>>
    /\ stage' = "order" /\ path' = <<[node |-> 1, next |-> 1]>>
    /\ UNCHANGED <<app, nodes, selfImports, differing, placed>>

\* collection_order: visited once pushed, placed when its imports are done.
Visited(frames, n) == n \in ToSet(placed) \/ \E i \in DOMAIN frames : frames[i].node = n

OrderStep ==
    /\ stage = "order" /\ path # <<>>
    /\ IF Top.next <= Len(nodes[Top.node].links)
       THEN /\ LET child == nodes[Top.node].links[Top.next] IN
               path' = IF Visited(path, child) THEN Above ELSE Append(Above, [node |-> child, next |-> 1])
            /\ UNCHANGED placed
       ELSE path' = Front(path) /\ placed' = Append(placed, Top.node)
    /\ UNCHANGED <<app, stage, nodes, selfImports, differing>>

FinishOrder ==
    /\ stage = "order" /\ path = <<>> /\ stage' = "done"
    /\ UNCHANGED <<app, nodes, path, selfImports, differing, placed>>

ImportsNext ==
    StartWalk \/ ReachFrozen \/ ReachClaimed \/ ReachNew \/ Return \/ StartOrder \/ OrderStep \/ FinishOrder

ImportsSpec == ImportsIdle /\ [][ImportsNext]_importVars

(***************************************************************************)
(* Properties.                                                             *)
(***************************************************************************)
\* The identities an app reaches from a module without entering a frozen one.
Direct(id) == {app.imports[id][i].to : i \in DOMAIN app.imports[id]} \ app.frozen
Reach(id) ==
    LET Step(S) == S \cup UNION {Direct(m) : m \in S} IN Step(Step(Step(Step(Direct(id)))))

\* Every reachable identity is registered once, whatever cycles the imports
\* make, and each is placed once, after every module it imports that does not
\* import it back.
PlacedOnce ==
    stage = "done" =>
      /\ {nodes[n].id : n \in DOMAIN nodes} = {app.root} \cup Reach(app.root)
      /\ \A m, n \in DOMAIN nodes : nodes[m].id = nodes[n].id => m = n
      /\ Len(placed) = Len(nodes) /\ ToSet(placed) = DOMAIN nodes
      /\ \A m, n \in DOMAIN nodes :
           nodes[n].id \in Direct(nodes[m].id) /\ nodes[m].id \notin Reach(nodes[n].id) =>
             \E i, j \in DOMAIN placed : placed[i] = n /\ placed[j] = m /\ i < j

\* Import `import` of node n brought a setting other than the one registered.
Lost(n, import) ==
    IF import.to \in app.frozen THEN import.setting # FrozenSetting
    ELSE import.to # nodes[n].id /\ \E m \in NodeOf(import.to) : nodes[m].setting # import.setting

\* The settings reported are those of the imports that lost the identity to a
\* differing registration, a module importing itself reported as that alone.
SettingsCompared ==
    stage = "done" =>
      /\ selfImports = {n \in DOMAIN nodes : nodes[n].id \in Direct(nodes[n].id)}
      /\ differing = UNION {{app.imports[nodes[n].id][i] : i \in {k \in DOMAIN app.imports[nodes[n].id] : Lost(n, app.imports[nodes[n].id][k])}} :
                             n \in DOMAIN nodes}

\* A module reads the key of the nearest keyed module of the path that reached
\* it first.
InheritedNearest ==
    \A n \in DOMAIN nodes : n > 1 =>
      LET linking == {m \in 1..n - 1 : n \in ToSet(nodes[m].links)}
          first == CHOOSE m \in linking : \A k \in linking : k <= m
      IN nodes[n].inherited = IF nodes[first].id \in app.keyed THEN {nodes[first].id} ELSE nodes[first].inherited

-------------------------------------------------------------------------------
(***************************************************************************)
(* Step 3 of the wiring pass (ulo/src/graph/visibility.rs) and the checks  *)
(* of steps 1 to 3 that read its tables (wire.rs): which binding each key  *)
(* names from each module, through exports, re-exports resolved round by   *)
(* round, keyed boundaries and global modules. A module has at most one    *)
(* single binding here, named by the module; a second is an error of its   *)
(* own that the tables do not depend on.                                   *)
(***************************************************************************)

CONSTANTS
    Keys,          \* the keys, each a record [type, qualified]
    Graphs         \* the frozen graphs: [modules, root, imports, own, exports, reexports, reads, global, keyed, inputs]

VARIABLES
    graph,         \* the graph wired
    wiringStage,   \* "idle", "rounds", "tables", "checked"
    pending,       \* the re-exports not resolved: <<module, key>>
    exported,      \* what importers see of each module: <<key, binding>>
    visible,       \* the tables: [module -> [key -> bindings]]
    wiringErrors   \* the errors collected: <<what, module, key>>

visibilityVars == <<graph, wiringStage, pending, exported, visible, wiringErrors>>

VisibilityIdle ==
    /\ graph \in Graphs /\ wiringStage = "idle"
    /\ pending = {} /\ exported = <<>> /\ visible = <<>> /\ wiringErrors = {}

\* boundary_key: an unqualified key leaving a keyed module takes its qualifier.
Boundary(m, k) == IF m \in graph.keyed THEN [k EXCEPT !.qualified = TRUE] ELSE k

\* exporters: the direct imports, then every global module.
Exporters(m) == graph.imports[m] \cup graph.global

\* sources: a module's own binding and the exports it sees, one per binding.
Sources(m, k) ==
    (IF k \in graph.own[m] THEN {m} ELSE {}) \cup
    {b \in graph.modules : \E e \in Exporters(m) : <<k, b>> \in exported[e]}

\* build_tables: the exports of own bindings, before any re-export.
ExportOwn ==
    /\ wiringStage = "idle" /\ wiringStage' = "rounds"
    /\ exported' = [m \in graph.modules |-> {<<Boundary(m, k), m>> : k \in graph.exports[m] \cap graph.own[m]}]
    /\ pending' = UNION {{<<m, k>> : k \in graph.reexports[m]} : m \in graph.modules}
    /\ UNCHANGED <<graph, visible, wiringErrors>>

\* A re-export resolves in a round that gives it one source.
Resolves(m, k) == Cardinality(Sources(m, k)) = 1

Resolvable == {r \in pending : Resolves(r[1], r[2])}

ReexportRound ==
    /\ wiringStage = "rounds" /\ Resolvable # {}
    /\ exported' = [m \in graph.modules |-> exported[m] \cup
                      {<<Boundary(m, r[2]), CHOOSE b \in Sources(m, r[2]) : TRUE>> : r \in {s \in Resolvable : s[1] = m}}]
    /\ pending' = pending \ Resolvable
    /\ UNCHANGED <<graph, wiringStage, visible, wiringErrors>>

\* A round that resolved nothing is the last.
RoundsOver == Resolvable = {}

\* table_for.
BuildTables ==
    /\ wiringStage = "rounds" /\ RoundsOver
    /\ visible' = [m \in graph.modules |-> [k \in Keys |-> Sources(m, k)]]
    /\ wiringStage' = "tables"
    /\ UNCHANGED <<graph, pending, exported, wiringErrors>>

\* check_modules: re-exports a module does not see as one binding, exports it does not bind.
ModuleErrors ==
    UNION {{<<"ReexportNotVisible", m, k>> : k \in {j \in graph.reexports[m] : visible[m][j] = {}}} \cup
           {<<"ReexportAmbiguous", m, k>> : k \in {j \in graph.reexports[m] : Cardinality(visible[m][j]) > 1}} \cup
           {<<"ExportNotBound", m, k>> : k \in graph.exports[m] \ graph.own[m]} : m \in graph.modules}

\* check_key, for each injection point, an input below any binding of its key;
\* then the root's table, swept for ambiguous keys nothing reads.
ReadErrors ==
    UNION {{<<"Missing", m, k>> : k \in {j \in graph.reads[m] : visible[m][j] = {} /\ j \notin graph.inputs}} \cup
           {<<"Ambiguous", m, k>> : k \in {j \in graph.reads[m] : Cardinality(visible[m][j]) > 1}} : m \in graph.modules} \cup
    {<<"Ambiguous", graph.root, k>> : k \in {j \in Keys : Cardinality(visible[graph.root][j]) > 1}}

CheckTables ==
    /\ wiringStage = "tables" /\ wiringStage' = "checked"
    /\ wiringErrors' = ModuleErrors \cup ReadErrors
    /\ UNCHANGED <<graph, pending, exported, visible>>

VisibilityNext == ExportOwn \/ ReexportRound \/ BuildTables \/ CheckTables

VisibilitySpec == VisibilityIdle /\ [][VisibilityNext]_visibilityVars

(***************************************************************************)
(* Properties.                                                             *)
(***************************************************************************)
\* What m sees of k when every export and re-export is followed to the binding
\* it starts from, whatever order they resolve in: the least such relation.
Offered(sees, e, k) ==
    UNION {IF j \in graph.reexports[e] THEN sees[e][j] ELSE {} : j \in {i \in Keys : Boundary(e, i) = k}} \cup
    (IF \E j \in graph.exports[e] \cap graph.own[e] : Boundary(e, j) = k THEN {e} ELSE {})
Follow(sees) ==
    [m \in graph.modules |-> [k \in Keys |-> sees[m][k] \cup UNION {Offered(sees, e, k) : e \in Exporters(m)}]]
OwnSeen == [m \in graph.modules |-> [k \in Keys |-> IF k \in graph.own[m] THEN {m} ELSE {}]]
Seen == LET n == Cardinality(graph.modules) * Cardinality(Keys)
            f[i \in 0..n] == IF i = 0 THEN OwnSeen ELSE Follow(f[i - 1])
        IN f[n]

\* A wiring with no error left no source out: each module sees of each key
\* exactly the bindings its imports' exports lead to, through re-exports of
\* re-exports and import cycles, and a key that leads to two is ambiguous there.
VisibleExact == wiringStage = "checked" /\ wiringErrors = {} => visible = Seen

\* A wiring with no error left no table disagreeing with what importers were
\* given: a re-export names the binding its own module reads under the key,
\* though a later round may have brought that key a second source; and a lookup
\* that names no module, which reads the root's table, meets no ambiguity.
ReexportsAgree ==
    wiringStage = "checked" /\ wiringErrors = {} =>
      /\ \A m \in graph.modules : \A k \in graph.reexports[m] :
           \E b \in graph.modules : visible[m][k] = {b} /\ <<Boundary(m, k), b>> \in exported[m]
      /\ \A k \in Keys : Cardinality(visible[graph.root][k]) <= 1

-------------------------------------------------------------------------------
(***************************************************************************)
(* Step 4 of the wiring pass and the connect order (ulo/src/graph/         *)
(* cycles.rs, order.rs, and wire_lazy in wire.rs): Tarjan's walk over what *)
(* building and checking each binding reads, one cycle reported for each   *)
(* tangle, and the stable topological sort `connect` builds the singletons *)
(* in, then the sort of the same graph extended by a lazy load.            *)
(***************************************************************************)

CONSTANTS
    Wirings        \* [count, base, reads, transient]: reads[b], what building and checking b
                   \*   reads, in order; transient, the bindings built at the read; base, how
                   \*   many bindings the graph a load extends has

VARIABLES
    wiring,        \* the graph ordered
    buildStage,    \* "idle", "tarjan", "sort", "sorted"
    index, low,    \* Tarjan's numbers, 0 where unvisited
    stack,         \* the members not yet in a component
    frames,        \* the walk: [node, position]
    components,    \* the components found
    waiting,       \* how many singletons each singleton waits for
    order          \* the connect order so far

buildVars == <<wiring, buildStage, index, low, stack, frames, components, waiting, order>>

Bindings == 1..wiring.count

BuildOrderIdle ==
    /\ wiring \in Wirings /\ buildStage = "idle"
    /\ index = <<>> /\ low = <<>> /\ stack = <<>> /\ frames = <<>> /\ components = {} /\ waiting = <<>> /\ order = <<>>

StartTarjan ==
    /\ buildStage = "idle" /\ buildStage' = "tarjan"
    /\ index' = [b \in Bindings |-> 0] /\ low' = [b \in Bindings |-> 0]
    /\ UNCHANGED <<wiring, stack, frames, components, waiting, order>>

Unvisited == {b \in Bindings : index[b] = 0}
Fresh == wiring.count - Cardinality(Unvisited) + 1

Visit(b, walk) ==
    /\ index' = [index EXCEPT ![b] = Fresh] /\ low' = [low EXCEPT ![b] = Fresh]
    /\ stack' = Append(stack, b) /\ frames' = Append(walk, [node |-> b, position |-> 1])
    /\ UNCHANGED components

VisitRoot ==
    /\ buildStage = "tarjan" /\ frames = <<>> /\ Unvisited # {}
    /\ Visit(Min(Unvisited), <<>>)
    /\ UNCHANGED <<wiring, buildStage, waiting, order>>

Frame == Last(frames)
Advanced == [frames EXCEPT ![Len(frames)].position = @ + 1]

\* A visited successor lowers its reader while it is on the stack.
LowOf(b, to) == IF to \in ToSet(stack) THEN Min({low[b], index[to]}) ELSE low[b]

FollowRead ==
    /\ buildStage = "tarjan" /\ frames # <<>> /\ Frame.position <= Len(wiring.reads[Frame.node])
    /\ LET to == wiring.reads[Frame.node][Frame.position] IN
       \/ index[to] = 0 /\ Visit(to, Advanced)
       \/ /\ index[to] # 0 /\ frames' = Advanced
          /\ low' = [low EXCEPT ![Frame.node] = LowOf(Frame.node, to)]
          /\ UNCHANGED <<index, stack, components>>
    /\ UNCHANGED <<wiring, buildStage, waiting, order>>

\* A node whose reads are done hands its number to its parent, and closes a
\* component when nothing below it reached above it.
LeaveNode ==
    /\ buildStage = "tarjan" /\ frames # <<>> /\ Frame.position > Len(wiring.reads[Frame.node])
    /\ frames' = Front(frames)
    /\ low' = IF Len(frames) = 1 THEN low
              ELSE LET parent == frames[Len(frames) - 1].node IN [low EXCEPT ![parent] = Min({low[parent], low[Frame.node]})]
    /\ IF low[Frame.node] = index[Frame.node]
       THEN LET at == CHOOSE i \in DOMAIN stack : stack[i] = Frame.node IN
            /\ components' = components \cup {ToSet(SubSeq(stack, at, Len(stack)))}
            /\ stack' = SubSeq(stack, 1, at - 1)
       ELSE UNCHANGED <<components, stack>>
    /\ UNCHANGED <<wiring, buildStage, index, waiting, order>>

Reads(b) == ToSet(wiring.reads[b])

\* dependency_cycles: a component of several members, or one that reads itself.
Cyclic == {c \in components : Cardinality(c) > 1 \/ \E b \in c : b \in Reads(b)}

\* singleton_deps: the singletons b waits for, what a transient reads waited for in its place.
SingletonDeps(b) ==
    LET through(S) == S \cup UNION {IF d \in wiring.transient /\ d # b THEN Reads(d) ELSE {} : d \in S}
        reach[i \in 0..wiring.count] == IF i = 0 THEN Reads(b) ELSE through(reach[i - 1])
    IN reach[wiring.count] \ (wiring.transient \cup {b})

Singletons == Bindings \ wiring.transient

\* A wiring with no cycle is sorted: connect_order begins with what waits for nothing.
StartSort ==
    /\ buildStage = "tarjan" /\ frames = <<>> /\ Unvisited = {} /\ Cyclic = {}
    /\ buildStage' = "sort"
    /\ waiting' = [b \in Singletons |-> Cardinality(SingletonDeps(b))]
    /\ UNCHANGED <<wiring, index, low, stack, frames, components, order>>

Ready == {b \in Singletons : waiting[b] = 0} \ ToSet(order)

\* The smallest binding that waits for none is built next.
NextReady == Min(Ready)

PlaceNext ==
    /\ buildStage = "sort" /\ Ready # {}
    /\ order' = Append(order, NextReady)
    /\ waiting' = [b \in Singletons |-> IF NextReady \in SingletonDeps(b) THEN waiting[b] - 1 ELSE waiting[b]]
    /\ UNCHANGED <<wiring, buildStage, index, low, stack, frames, components>>

FinishSort ==
    /\ buildStage = "sort" /\ Ready = {} /\ buildStage' = "sorted"
    /\ UNCHANGED <<wiring, index, low, stack, frames, components, waiting, order>>

BuildOrderNext == StartTarjan \/ VisitRoot \/ FollowRead \/ LeaveNode \/ StartSort \/ PlaceNext \/ FinishSort

BuildOrderSpec == BuildOrderIdle /\ [][BuildOrderNext]_buildVars

(***************************************************************************)
(* Properties.                                                             *)
(***************************************************************************)
ReachesFrom(b) ==
    LET step(S) == S \cup UNION {Reads(d) : d \in S}
        reach[i \in 0..wiring.count] == IF i = 0 THEN Reads(b) ELSE step(reach[i - 1])
    IN reach[wiring.count]

\* The walk's components are the sets of bindings that read each other, so one
\* cycle is reported for each tangle, and none where there is none.
TanglesFound ==
    buildStage = "tarjan" /\ frames = <<>> /\ Unvisited = {} =>
      components = {{b} \cup {d \in ReachesFrom(b) : b \in ReachesFrom(d)} : b \in Bindings}

\* Every singleton is built once, after every singleton its construction and
\* its readiness check read, through transients; and "the base order is a
\* prefix of the new one", the bindings a load brought following.
ConnectOrderSound ==
    buildStage = "sorted" =>
      /\ Len(order) = Cardinality(Singletons) /\ ToSet(order) = Singletons
      /\ \A i, j \in DOMAIN order : order[i] \in SingletonDeps(order[j]) => i < j
      /\ \A i, j \in DOMAIN order : order[i] <= wiring.base /\ order[j] > wiring.base => i < j

-------------------------------------------------------------------------------
(***************************************************************************)
(* Step 5 of the wiring pass (ulo/src/graph/scopes.rs): which bindings     *)
(* need an execution, the scope an `Auto` binding ends with, and what is   *)
(* refused: a singleton that needs one, a hook or a closure that runs      *)
(* where there is none, and an input a handler's transport does not seed.  *)
(***************************************************************************)

CONSTANTS
    ScopeGraphs    \* [count, scope, role, direct, deps, hook, handler]: direct[b] is "none", "execution",
                   \*   "input" or "optional" (an optional input), deps[b] what building b reads, hook the
                   \*   bindings with a hook or readiness check and what each reads; handler
                   \*   [controller, enhancers, closure, seeds], closure [scope, reads, direct]

VARIABLES
    scoped,        \* the graph the pass runs over
    scopeStage,    \* "idle", "spread", "checked"
    effective,     \* each binding's scope as decided
    needs,         \* the bindings that need an execution
    toSpread,      \* the worklist
    closureScope,  \* the scope of the handler's enhancer closure
    scopeErrors    \* <<what, binding>>, 0 for the handler's closure or parameters

scopeVars == <<scoped, scopeStage, effective, needs, toSpread, closureScope, scopeErrors>>

Nodes == 1..scoped.count

ScopesIdle ==
    /\ scoped \in ScopeGraphs /\ scopeStage = "idle"
    /\ effective = <<>> /\ needs = {} /\ toSpread = <<>> /\ closureScope = "none" /\ scopeErrors = {}

\* assign_roles, mark_role_contributions: what a handler names as an enhancer, or
\* its transport reads under a role key, takes the role; a controller keeps its own.
RoleOf(b) == IF scoped.role[b] = "provider" /\ b \in scoped.handler.enhancers THEN "enhancer" ELSE scoped.role[b]

\* promote: an Auto controller or enhancer that needs an execution is built per call.
Promoted(b) == scoped.scope[b] = "auto" /\ RoleOf(b) # "provider"
Declared(b) == IF scoped.scope[b] = "auto" THEN "singleton" ELSE scoped.scope[b]
Scope(b, needing) == IF b \in needing /\ Promoted(b) THEN "execution" ELSE Declared(b)

\* passes_execution: does reading b hand its reader a need.
Passes(b, needing) ==
    \/ Scope(b, needing) = "execution"
    \/ Scope(b, needing) = "transient" /\ b \in needing

\* needs_execution: what each binding reads itself.
StartSpread ==
    /\ scopeStage = "idle" /\ scopeStage' = "spread"
    /\ LET own == {b \in Nodes : scoped.scope[b] = "execution" \/ scoped.direct[b] # "none"} IN
       /\ needs' = own
       /\ effective' = [b \in Nodes |-> Scope(b, own)]
       /\ toSpread' = SetToSortSeq({b \in Nodes : Passes(b, own)}, LAMBDA x, y : x < y)
    /\ UNCHANGED <<scoped, closureScope, scopeErrors>>

\* mutant: a reader that comes to need one is not looked at again
SpreadsOn(found, needing) == <<>>

\* The readers that pass their new need on follow in the worklist.
Spreads(found, needing) == SetToSortSeq({b \in found : Passes(b, needing)}, LAMBDA x, y : x < y)

SpreadNeed ==
    /\ scopeStage = "spread" /\ toSpread # <<>>
    /\ LET found == {b \in Nodes : Head(toSpread) \in scoped.deps[b]} \ needs IN
       /\ needs' = needs \cup found
       /\ effective' = [b \in Nodes |-> Scope(b, needs \cup found)]
       /\ toSpread' = Tail(toSpread) \o Spreads(found, needs \cup found)
    /\ UNCHANGED <<scoped, scopeStage, closureScope, scopeErrors>>

\* check_scopes.
Refused(b) == b \in needs /\ (scoped.scope[b] = "singleton" \/ (scoped.scope[b] = "auto" /\ RoleOf(b) = "provider"))
BindingErrors ==
    {<<"ScopeViolation", b>> : b \in {d \in Nodes : Refused(d)}} \cup
    {<<"HooksOnPerExecution", b>> : b \in {d \in DOMAIN scoped.hook : ~Refused(d) /\ effective[d] = "execution"}}

\* execution_read: does what a closure reads take execution data, its own binding left out.
ExecutionRead(reads, owner) == \E b \in reads \ owner : Passes(b, needs)

\* check_closures: a hook or readiness check runs where there is no execution.
HookErrors == {<<"ClosureNeedsExecution", b>> : b \in {d \in DOMAIN scoped.hook : ExecutionRead(scoped.hook[d], {d})}}

\* closure_scopes: an enhancer closure follows the bindings' table.
Closure == scoped.handler.closure
ClosureReads == Closure.direct # "none" \/ ExecutionRead(Closure.reads, {})
DecidedClosure == CASE Closure.scope = "auto" -> IF ClosureReads THEN "execution" ELSE "singleton"
                    [] OTHER -> Closure.scope
ClosureErrors == {<<"ClosureScopeViolation", 0>> : x \in {y \in {0} : Closure.scope = "singleton" /\ ClosureReads}}

InExecution(b) == effective[b] \in {"execution", "transient"}

\* input_reads: what the handler's execution builds, from its controller,
\* enhancers and the closures not built once.
Roots(closure) == {scoped.handler.controller} \cup scoped.handler.enhancers \cup
    (IF closure = "singleton" THEN {} ELSE Closure.reads)

Walked(closure) ==
    LET enter(S) == {b \in S : InExecution(b)}
        walk[i \in 0..scoped.count] == IF i = 0 THEN enter(Roots(closure))
                                       ELSE walk[i - 1] \cup enter(UNION {scoped.deps[b] : b \in walk[i - 1]})
    IN walk[scoped.count]

\* check_inputs.
InputErrors(closure) ==
    {<<"InputNotSeeded", b>> : b \in {d \in Walked(closure) : scoped.direct[d] = "input" /\ ~scoped.handler.seeds}} \cup
    {<<"InputNotSeeded", 0>> : x \in {y \in {0} : closure # "singleton" /\ Closure.direct = "input" /\ ~scoped.handler.seeds}}

CheckScopes ==
    /\ scopeStage = "spread" /\ toSpread = <<>> /\ scopeStage' = "checked"
    /\ closureScope' = DecidedClosure
    /\ scopeErrors' = BindingErrors \cup HookErrors \cup ClosureErrors \cup InputErrors(DecidedClosure)
    /\ UNCHANGED <<scoped, effective, needs, toSpread>>

ScopesNext == StartSpread \/ SpreadNeed \/ CheckScopes

ScopesSpec == ScopesIdle /\ [][ScopesNext]_scopeVars

(***************************************************************************)
(* Properties.                                                             *)
(***************************************************************************)
\* What is built when b is built with no execution in hand: what it reads, and
\* what a transient it reads reads in turn; a singleton is in the store already.
BuiltWith(reads) ==
    LET step(S) == S \cup UNION {IF effective[b] = "transient" THEN scoped.deps[b] ELSE {} : b \in S}
        built[i \in 0..scoped.count] == IF i = 0 THEN reads ELSE step(built[i - 1])
    IN built[scoped.count]
ReadsNoExecution(S) ==
    \A b \in S : effective[b] # "execution" /\ ~(effective[b] = "transient" /\ scoped.direct[b] # "none")

\* A graph the pass accepts never needs an execution where there is none:
\* building a singleton at `connect`, running a hook or a readiness check, or
\* building a closure once, reads no execution data at any remove.
NoExecutionAtConnect ==
    scopeStage = "checked" /\ scopeErrors = {} =>
      /\ \A b \in Nodes : effective[b] = "singleton" => scoped.direct[b] = "none" /\ ReadsNoExecution(BuiltWith(scoped.deps[b]))
      /\ \A b \in DOMAIN scoped.hook : effective[b] # "execution" /\ ReadsNoExecution(BuiltWith(scoped.hook[b]) \ {b})
      /\ closureScope = "singleton" => Closure.direct = "none" /\ ReadsNoExecution(BuiltWith(Closure.reads))

\* What a call builds from what it reads: everything but the singletons.
BuiltInCall(reads) ==
    LET step(S) == S \cup UNION {IF effective[b] = "singleton" THEN {} ELSE scoped.deps[b] : b \in S}
        built[i \in 0..scoped.count] == IF i = 0 THEN reads ELSE step(built[i - 1])
    IN built[scoped.count]

\* A graph the pass accepts seeds what it reads: whatever a handler's call
\* builds, at any remove, reads a required input only where the handler's
\* transport seeds it.
InputsSeeded ==
    scopeStage = "checked" /\ scopeErrors = {} /\ ~scoped.handler.seeds =>
      \A b \in BuiltInCall({scoped.handler.controller} \cup scoped.handler.enhancers \cup Closure.reads) : scoped.direct[b] # "input"

\* A binding refused stays a singleton for its readers, so a violation is
\* reported where the need is introduced and not again above it.
ReportedOnce ==
    scopeStage = "checked" => \A b \in Nodes : Refused(b) =>
      scoped.direct[b] # "none" \/ \E d \in scoped.deps[b] : ~Refused(d) /\ Passes(d, needs)

-------------------------------------------------------------------------------
(***************************************************************************)
(* Freezing a registered app (freeze in ulo/src/graph/wire.rs) under a     *)
(* test plan: `try_value` failures paired with their records, single       *)
(* bindings overridden and split, collections replaced, and the records    *)
(* numbered in collection order with the role each one's mark gives it.    *)
(* Marks and failures refer to records by position, which overrides and    *)
(* removals move.                                                          *)
(***************************************************************************)

CONSTANTS
    Plans          \* [nodes, overrides, collections]: nodes[n] the records module n wrote, each
                   \*   [is, key, also, kind, failed, mark]; overrides [key, to, target, among], target
                   \*   "one" (unscoped), "all" or "module"; collections [key, items]

VARIABLES
    plan,          \* the app and its test plan
    freezeStage,   \* "idle", "override", "report", "collect", "number", "frozen"
    records,       \* each node's records: [is, key, also, kind, recipe]
    controllers,   \* each node's controllers: positions into its records
    enhancers,     \* each node's enhancer marks: positions
    paired,        \* the failures: [node, position]
    applied,       \* how many overrides, then collection overrides, are done
    frozenBindings,\* the bindings, in id order: [is, role, recipe, node]
    freezeErrors   \* <<what, which>>

freezeVars == <<plan, freezeStage, records, controllers, enhancers, paired, applied, frozenBindings, freezeErrors>>

FreezeNodes == DOMAIN plan.nodes
\* The root is the first node registered and the last collected.
PostOrder == [i \in FreezeNodes |-> Len(plan.nodes) + 1 - i]

Marked(n, mark) == {i \in DOMAIN plan.nodes[n] : plan.nodes[n][i].mark = mark}
RecordOf(r) == [is |-> r.is, key |-> r.key, also |-> r.also, kind |-> r.kind, recipe |-> IF r.failed THEN "failed" ELSE "own"]

FreezeIdle ==
    /\ plan \in Plans /\ freezeStage = "idle"
    /\ records = [n \in DOMAIN plan.nodes |-> [i \in DOMAIN plan.nodes[n] |-> RecordOf(plan.nodes[n][i])]]
    /\ controllers = [n \in DOMAIN plan.nodes |-> Marked(n, "controller")]
    /\ enhancers = [n \in DOMAIN plan.nodes |-> Marked(n, "enhancer")]
    /\ paired = {} /\ applied = 0 /\ frozenBindings = <<>> /\ freezeErrors = {}

\* Only a `try_value` writes a failed record, so failures pair with them by order.
PairFailures ==
    /\ freezeStage = "idle" /\ freezeStage' = "override"
    /\ paired' = UNION {{[node |-> n, position |-> i] : i \in {j \in DOMAIN records[n] : records[n][j].recipe = "failed"}} : n \in FreezeNodes}
    /\ UNCHANGED <<plan, records, controllers, enhancers, applied, frozenBindings, freezeErrors>>

KeysOf(r) == {r.key} \cup r.also
Override == plan.overrides[applied + 1]
ScopedTo == IF Override.target = "module" THEN Override.among ELSE FreezeNodes
Matches == UNION {{<<n, i>> : i \in {j \in DOMAIN records[n] : records[n][j].kind = "single" /\ Override.key \in KeysOf(records[n][j])}} : n \in ScopedTo}

\* apply_overrides, one_instance: what stops an override.
OverrideErrors ==
    CASE Override.target = "module" /\ Override.among = {} -> {<<"OverrideUnmatched", Override.key>>}
      [] Override.target = "module" /\ Cardinality(Override.among) > 1 -> {<<"OverrideModuleAmbiguous", Override.key>>}
      [] Matches = {} /\ (\E n \in ScopedTo : \E i \in DOMAIN records[n] : records[n][i].kind = "collection" /\ records[n][i].key = Override.key)
           -> {<<"OverrideKind", Override.key>>}
      [] Matches = {} -> {<<"OverrideUnmatched", Override.key>>}
      [] Cardinality(Matches) > 1 /\ Override.target = "one" -> {<<"OverrideAmbiguous", Override.key>>}
      [] OTHER -> {}

\* replace_recipe: an `also_as` key is split off into a record of its own.
Replaced(seq, at) ==
    IF seq[at].key = Override.key THEN [seq EXCEPT ![at].recipe = Override.to]
    ELSE Append([seq EXCEPT ![at].also = @ \ {Override.key}],
                [is |-> Override.to, key |-> Override.key, also |-> {}, kind |-> "single", recipe |-> Override.to])

ApplyOverride ==
    /\ freezeStage = "override" /\ applied < Len(plan.overrides)
    /\ freezeErrors' = freezeErrors \cup OverrideErrors
    /\ records' = IF OverrideErrors # {} THEN records
                  ELSE [n \in FreezeNodes |-> FoldLeft(LAMBDA seq, i : Replaced(seq, i), records[n],
                          SetToSortSeq({i \in DOMAIN records[n] : <<n, i>> \in Matches}, LAMBDA x, y : x < y))]
    /\ applied' = applied + 1
    /\ UNCHANGED <<plan, freezeStage, controllers, enhancers, paired, frozenBindings>>

\* A failure whose record an override replaced, or override_many will remove, is not reported.
ReportFailures ==
    /\ freezeStage = "override" /\ applied = Len(plan.overrides)
    /\ freezeStage' = "collect" /\ applied' = 0
    /\ LET still == {f \in paired : LET r == records[f.node][f.position] IN
                       r.recipe = "failed" /\ ~(r.kind = "collection" /\ \E i \in DOMAIN plan.collections : plan.collections[i].key = r.key)} IN
       freezeErrors' = freezeErrors \cup {<<"ValueFailed", records[f.node][f.position].is>> : f \in still}
    /\ UNCHANGED <<plan, records, controllers, enhancers, paired, frozenBindings>>

Collection == plan.collections[applied + 1]
Contributes(r) == r.kind = "collection" /\ r.key = Collection.key
Gone(n) == {i \in DOMAIN records[n] : Contributes(records[n][i])}

\* remove_contributions: a mark on a kept record follows it.
Shifted(n, marks) == {i - Cardinality({g \in Gone(n) : g < i}) : i \in marks \ Gone(n)}

\* apply_collections: the items are contributed by the root in their place.
ApplyCollection ==
    /\ freezeStage = "collect" /\ applied < Len(plan.collections)
    /\ applied' = applied + 1
    /\ IF \A n \in FreezeNodes : Gone(n) = {}
       THEN /\ freezeErrors' = freezeErrors \cup
                 (IF \E n \in FreezeNodes : \E i \in DOMAIN records[n] : records[n][i].kind = "single" /\ Collection.key \in KeysOf(records[n][i])
                  THEN {<<"CollectionKind", Collection.key>>} ELSE {<<"CollectionUnmatched", Collection.key>>})
            /\ UNCHANGED <<records, controllers, enhancers>>
       ELSE /\ records' = [n \in FreezeNodes |->
                 SelectSeq(records[n], LAMBDA r : ~Contributes(r)) \o
                 (IF n = 1 THEN [i \in DOMAIN Collection.items |->
                    [is |-> Collection.items[i], key |-> Collection.key, also |-> {}, kind |-> "collection", recipe |-> Collection.items[i]]] ELSE <<>>)]
            /\ controllers' = [n \in FreezeNodes |-> Shifted(n, controllers[n])]
            /\ enhancers' = [n \in FreezeNodes |-> Shifted(n, enhancers[n])]
            /\ UNCHANGED freezeErrors
    /\ UNCHANGED <<plan, freezeStage, paired, frozenBindings>>

\* The modules in collection order, each module's records in theirs.
NumberBindings ==
    /\ freezeStage = "collect" /\ applied = Len(plan.collections)
    /\ freezeStage' = "frozen"
    /\ frozenBindings' = FlattenSeq([p \in FreezeNodes |-> LET n == PostOrder[p] IN
         [i \in DOMAIN records[n] |->
            [is |-> records[n][i].is, node |-> n, recipe |-> records[n][i].recipe, key |-> records[n][i].key, also |-> records[n][i].also,
             role |-> IF i \in controllers[n] THEN "controller" ELSE IF i \in enhancers[n] THEN "enhancer" ELSE "provider"]]])
    /\ UNCHANGED <<plan, records, controllers, enhancers, paired, applied, freezeErrors>>

FreezeNext == PairFailures \/ ApplyOverride \/ ReportFailures \/ ApplyCollection \/ NumberBindings

FreezeSpec == FreezeIdle /\ [][FreezeNext]_freezeVars

(***************************************************************************)
(* Properties.                                                             *)
(***************************************************************************)
Written == UNION {{plan.nodes[n][i] : i \in DOMAIN plan.nodes[n]} : n \in FreezeNodes}

\* Whatever a test plan splits off or removes, each controller and each
\* enhancer mark ends on the record it was written on.
MarksFollow ==
    freezeStage = "frozen" => \A b \in DOMAIN frozenBindings :
      LET wrote == {r \in Written : r.is = frozenBindings[b].is} IN
      frozenBindings[b].role = IF \E r \in wrote : r.mark # "none" THEN (CHOOSE r \in wrote : TRUE).mark ELSE "provider"

\* A failed `try_value` is reported exactly when its record is still there to
\* fail: `connect` builds nothing for one, so an app frozen without an error
\* holds none.
FailuresReported ==
    freezeStage = "frozen" =>
      {frozenBindings[b].is : b \in {i \in DOMAIN frozenBindings : frozenBindings[i].recipe = "failed"}} =
      {e[2] : e \in {x \in freezeErrors : x[1] = "ValueFailed"}}

\* The overrides that match key k in module n, as indices.
Over(n, k) == {o \in DOMAIN plan.overrides : plan.overrides[o].key = k /\ (plan.overrides[o].target = "module" => n \in plan.overrides[o].among)}

\* An override an app was frozen with serves its key in every module it was
\* scoped to: each key a record was written under is still bound in its module,
\* once, and by the last override of that very key, else by the last of the
\* record's primary key, whose value every other key of it is cast from, else by
\* the record's own recipe. Overriding an `also_as` key leaves the others alone.
OverridesServe ==
    freezeStage = "frozen" /\ freezeErrors = {} =>
      \A n \in FreezeNodes : \A i \in DOMAIN plan.nodes[n] : plan.nodes[n][i].kind = "single" =>
        \A k \in KeysOf(plan.nodes[n][i]) :
          LET serving == {b \in DOMAIN frozenBindings : frozenBindings[b].node = n /\ k \in KeysOf(frozenBindings[b])}
              over == IF Over(n, k) = {} THEN Over(n, plan.nodes[n][i].key) ELSE Over(n, k)
          IN /\ Cardinality(serving) = 1
             /\ \A b \in serving : frozenBindings[b].recipe = IF over = {} THEN "own" ELSE plan.overrides[Max(over)].to

-------------------------------------------------------------------------------
(***************************************************************************)
(* A module's `register`: the ModuleDef calls, the handle each returns and  *)
(* the records they leave for wire()                                        *)
(* (crates/ulo/src/module/def.rs, binding/handle.rs, binding/contribute.rs, *)
(* binding/mod.rs, hooks.rs), with wire()'s check of the written waits      *)
(* (graph/wire.rs, check_environment).                                      *)
(*                                                                          *)
(* A call's source location is its number.  `written` and `marked` remember *)
(* what the module's author wrote; no code reads them.                      *)
(***************************************************************************)

CONSTANTS MaxCalls,      \* the calls one `register` makes
          MaxBindings    \* the bindings among them

VARIABLES node,      \* the ModuleNode being written
          handle,    \* the handle the last call returned
          calls,     \* the calls made
          written,   \* each wait written: [item, of, bound, at]
          marked     \* [enhancers, controllers, failures, checks]: where each was written

regVars == <<node, handle, calls, written, marked>>

Bounds == {"zero", "after"}

HookCapable == {"singleton", "auto"}

NoAt == 0

NoHandle == [k |-> "none", open |-> FALSE, attempt |-> FALSE, c |-> FALSE, single |-> FALSE, host |-> FALSE]

(* A BindingRecord as BindingRecord::new leaves it.                         *)
NewRecord(kind, scope, recipe, at) ==
  [kind |-> kind, scope |-> scope, recipe |-> recipe, bound |-> "default", boundAt |-> NoAt,
   ready |-> <<>>, replaced |-> <<>>, hooks |-> <<>>, also |-> 0, qualified |-> FALSE,
   controller |-> FALSE, at |-> at]

NewReady(at) ==
  [whole |-> "default", wholeAt |-> NoAt, attempt |-> "default", attemptAt |-> NoAt,
   backoff |-> "zero", backoffAt |-> NoAt, at |-> at]

NewHook(bound, at) == [bound |-> bound, boundAt |-> NoAt, at |-> at]

(* erase_trait_hook: the trait's TIMEOUT, at the registration.              *)
TraitHook(timeout, at) == NewHook(timeout, at)

NewNode == [bindings |-> <<>>, enhancers |-> <<>>, controllers |-> <<>>, hooks |-> <<>>,
            failures |-> <<>>]

-----------------------------------------------------------------------------
(* The call being made, and the records it writes *)

Here == calls + 1

TopCall == Len(node.bindings)

Wait(item, of, bound) == [item |-> item, of |-> of, bound |-> bound, at |-> Here]

(* What a trait const bounds has no call of its own: the registration's.    *)
Consts(item, of, bound) == IF bound = "default" THEN {} ELSE {Wait(item, of, bound)}

CallMade == calls < MaxCalls /\ calls' = Here

OnBinding(kind, scope, open) ==
  [k |-> "binding", open |-> open, attempt |-> FALSE, c |-> open, single |-> kind = "single",
   host |-> scope \in HookCapable]

(* ModuleDef::push and Contribute::push.                                    *)
Push(record, enhancer) ==
  [node EXCEPT !.bindings = Append(@, record),
               !.enhancers = IF enhancer THEN Append(@, TopCall + 1) ELSE @]

Marks(enhancer) == [marked EXCEPT !.enhancers = IF enhancer THEN Append(@, Here) ELSE @]

(* The type's CONSTRUCT_TIMEOUT and its hook traits come with it.           *)
Provide(kind, scope, enhancer, const, hook) ==
  /\ CallMade /\ TopCall < MaxBindings
  /\ node' = Push([NewRecord(kind, scope, "construct", Here) EXCEPT
                     !.bound = const, !.hooks = << TraitHook(hook, Here) >>], enhancer)
  /\ handle' = OnBinding(kind, scope, FALSE)
  /\ written' = written \cup Consts("construct", <<TopCall + 1>>, const)
                        \cup Consts("hook", <<TopCall + 1, 1>>, hook)
  /\ marked' = Marks(enhancer)

(* ModuleDef's and Contribute's `provide`.                                  *)
DefProvide(scope, const, hook) == Provide("single", scope, FALSE, const, hook)

ContributeProvide(scope, enhancer, const, hook) ==
  Provide("collection", scope, enhancer, const, hook)

(* `provide_with` and `try_provide_with`: a factory builds the type, whose   *)
(* hook traits still apply.                                                 *)
ProvideWith(scope, hook) ==
  /\ CallMade /\ TopCall < MaxBindings
  /\ node' = Push([NewRecord("single", scope, "factory", Here) EXCEPT
                     !.hooks = << TraitHook(hook, Here) >>], FALSE)
  /\ handle' = OnBinding("single", scope, TRUE)
  /\ written' = written \cup Consts("hook", <<TopCall + 1, 1>>, hook)
  /\ UNCHANGED marked

(* A record by a closure, its dependencies the closure's parameters.        *)
FactoryCall(kind, scope, enhancer) ==
  /\ CallMade /\ TopCall < MaxBindings
  /\ node' = Push(NewRecord(kind, scope, "factory", Here), enhancer)
  /\ handle' = OnBinding(kind, scope, TRUE)
  /\ marked' = Marks(enhancer)
  /\ UNCHANGED written

(* ModuleDef's and Contribute's `with`, `singleton`, `execution`,            *)
(* `transient` and their `try_` forms.                                      *)
DefFactory(scope) == FactoryCall("single", scope, FALSE)

ContributeFactory(scope, enhancer) == FactoryCall("collection", scope, enhancer)

(* An `Err` is kept for wire(), and its record holds no value.              *)
ValueCall(kind, enhancer, ok) ==
  /\ CallMade /\ TopCall < MaxBindings
  /\ node' = [Push(NewRecord(kind, "singleton", IF ok THEN "value" ELSE "failed", Here), enhancer)
                EXCEPT !.failures = IF ok THEN @ ELSE Append(@, Here)]
  /\ handle' = OnBinding(kind, "singleton", FALSE)
  /\ marked' = [Marks(enhancer) EXCEPT !.failures = IF ok THEN @ ELSE Append(@, Here)]
  /\ UNCHANGED written

(* ModuleDef's and Contribute's `value` and `try_value`.                    *)
DefValue(ok) == ValueCall("single", FALSE, ok)

ContributeValue(enhancer, ok) == ValueCall("collection", enhancer, ok)

(* `controller`: a record, and a ControllerRecord naming it.                *)
ControllerCall(const) ==
  /\ CallMade /\ TopCall < MaxBindings
  /\ node' = [node EXCEPT
       !.bindings = Append(@, [NewRecord("single", "singleton", "construct", Here) EXCEPT
                                 !.bound = const, !.hooks = << TraitHook("default", Here) >>,
                                 !.controller = TRUE]),
       !.controllers = Append(@, [binding |-> TopCall + 1, prefix |-> NoAt])]
  /\ handle' = [NoHandle EXCEPT !.k = "controller"]
  /\ written' = written \cup Consts("construct", <<TopCall + 1>>, const)
  /\ marked' = [marked EXCEPT !.controllers = Append(@, [at |-> Here, prefix |-> NoAt])]

(* `ControllerHandle::at`                                                   *)
PrefixCall ==
  /\ CallMade
  /\ handle.k = "controller"
  /\ node' = [node EXCEPT !.controllers[Len(node.controllers)].prefix = Here]
  /\ marked' = [marked EXCEPT !.controllers[Len(marked.controllers)].prefix = Here]
  /\ handle' = NoHandle
  /\ UNCHANGED written

(* `alias::<T, Q>().to::<U>()`: a transient record reading its target.      *)
AliasCall ==
  /\ CallMade /\ TopCall < MaxBindings
  /\ node' = Push(NewRecord("single", "transient", "alias", Here), FALSE)
  /\ handle' = NoHandle
  /\ UNCHANGED <<written, marked>>

(* The module's own `on_init`, `on_destroy`, `before_shutdown`,              *)
(* `on_shutdown`.                                                           *)
ModuleHookCall ==
  /\ CallMade
  /\ node' = [node EXCEPT !.hooks = Append(@, NewHook("default", Here))]
  /\ handle' = [NoHandle EXCEPT !.k = "module hook", !.open = TRUE]
  /\ UNCHANGED <<written, marked>>

-----------------------------------------------------------------------------
(* The handle's methods: each exists only in some of its states *)

Record(change) == node' = [node EXCEPT !.bindings[TopCall] = change]

Rec == node.bindings[TopCall]

(* `also_as` and `qualified` return to the binding as it was left.          *)
AlsoAs ==
  /\ CallMade
  /\ handle.k # "none" /\ handle.single
  /\ Record([Rec EXCEPT !.also = @ + 1])
  /\ handle' = [handle EXCEPT !.k = "binding", !.open = handle.c, !.attempt = FALSE]
  /\ UNCHANGED <<written, marked>>

Qualified ==
  /\ CallMade
  /\ handle.k # "none" /\ handle.single
  /\ Record([Rec EXCEPT !.qualified = TRUE])
  /\ handle' = [handle EXCEPT !.k = "binding", !.open = handle.c, !.attempt = FALSE]
  /\ UNCHANGED <<written, marked>>

(* A second check replaces the first, and where the first was is kept for    *)
(* wire() to refuse.                                                        *)
CallReady ==
  /\ CallMade
  /\ handle.k # "none" /\ handle.host
  /\ Record([Rec EXCEPT !.ready = << NewReady(Here) >>,
                        !.replaced = @ \o [i \in DOMAIN Rec.ready |-> Rec.ready[i].at]])
  /\ handle' = [handle EXCEPT !.k = "ready", !.open = TRUE, !.attempt = TRUE]
  /\ written' = {w \in written : w.of # <<TopCall>> \/ w.item \notin {"whole", "attempt", "backoff"}}
  /\ marked' = [marked EXCEPT !.checks = Append(@, <<TopCall, Here>>)]

(* `on_init`, `on_destroy`, `before_shutdown`, `on_shutdown` on a binding.  *)
HookCall ==
  /\ CallMade
  /\ handle.k # "none" /\ handle.host
  /\ Record([Rec EXCEPT !.hooks = Append(@, NewHook("default", Here))])
  /\ handle' = [handle EXCEPT !.k = "hook", !.open = TRUE, !.attempt = FALSE]
  /\ UNCHANGED <<written, marked>>

(* ReadyItem::write: an attempt bound not yet written stops taking the       *)
(* default.                                                                 *)
WholeBound(ready, bound) ==
  [ready EXCEPT !.whole = bound, !.wholeAt = Here,
                !.attempt = IF @ = "default" THEN "unbounded" ELSE @]

(* State::write: the item the handle is on.                                 *)
ItemBound(bound) ==
  CASE handle.k = "binding" -> Record([Rec EXCEPT !.bound = bound, !.boundAt = Here])
    [] handle.k = "ready" -> Record([Rec EXCEPT !.ready = << WholeBound(@[1], bound) >>])
    [] handle.k = "hook" ->
         Record([Rec EXCEPT !.hooks[Len(Rec.hooks)].bound = bound,
                            !.hooks[Len(Rec.hooks)].boundAt = Here])
    [] handle.k = "module hook" ->
         node' = [node EXCEPT !.hooks[Len(node.hooks)].bound = bound,
                              !.hooks[Len(node.hooks)].boundAt = Here]

ItemWait(bound) ==
  CASE handle.k = "binding" -> Wait("construct", <<TopCall>>, bound)
    [] handle.k = "ready" -> Wait("whole", <<TopCall>>, bound)
    [] handle.k = "hook" -> Wait("hook", <<TopCall, Len(Rec.hooks)>>, bound)
    [] handle.k = "module hook" -> Wait("module hook", <<Len(node.hooks)>>, bound)

(* Writing a bound closes it; the binding's own is closed for good.         *)
Closed == [handle EXCEPT !.open = FALSE, !.c = @ /\ handle.k # "binding"]

Timeout(bound) ==
  /\ CallMade
  /\ handle.open
  /\ ItemBound(bound)
  /\ handle' = Closed
  /\ written' = written \cup {ItemWait(bound)}
  /\ UNCHANGED marked

(* On a readiness check it exists while both bounds are open, and closes    *)
(* both.                                                                    *)
Unbounded ==
  /\ CallMade
  /\ handle.open
  /\ handle.k = "ready" => handle.attempt
  /\ IF handle.k = "ready"
     THEN Record([Rec EXCEPT !.ready = << [@[1] EXCEPT !.whole = "unbounded", !.wholeAt = Here,
                                             !.attempt = "unbounded", !.attemptAt = Here] >>])
     ELSE ItemBound("unbounded")
  /\ handle' = [Closed EXCEPT !.attempt = FALSE]
  /\ written' = written \cup {ItemWait("unbounded")}
                  \cup IF handle.k = "ready" THEN {Wait("attempt", <<TopCall>>, "unbounded")} ELSE {}
  /\ UNCHANGED marked

AttemptTimeout(bound) ==
  /\ CallMade
  /\ handle.k = "ready" /\ handle.attempt
  /\ Record([Rec EXCEPT !.ready = << [@[1] EXCEPT !.attempt = bound, !.attemptAt = Here] >>])
  /\ handle' = [handle EXCEPT !.attempt = FALSE]
  /\ written' = written \cup {Wait("attempt", <<TopCall>>, bound)}
  /\ UNCHANGED marked

(* `.backoff(..)`: the last call wins.                                      *)
Backoff(wait) ==
  /\ CallMade
  /\ handle.k = "ready"
  /\ Record([Rec EXCEPT !.ready = << [@[1] EXCEPT !.backoff = wait, !.backoffAt = Here] >>])
  /\ written' = {w \in written : w.of # <<TopCall>> \/ w.item # "backoff"}
                  \cup {Wait("backoff", <<TopCall>>, wait)}
  /\ UNCHANGED <<handle, marked>>

-----------------------------------------------------------------------------
RegInit ==
  /\ node = NewNode
  /\ handle = NoHandle
  /\ calls = 0
  /\ written = {}
  /\ marked = [enhancers |-> <<>>, controllers |-> <<>>, failures |-> <<>>,
               checks |-> <<>>]

DefCall ==
  \/ \E scope \in HookCapable \cup {"execution"}, const \in {"default"} \cup Bounds,
        hook \in {"default", "zero"} :
       \/ DefProvide(scope, const, hook)
       \/ \E e \in BOOLEAN : ContributeProvide(scope, e, const, hook)
  \/ \E scope \in HookCapable \cup {"execution"} :
       DefFactory(scope) \/ \E e \in BOOLEAN : ContributeFactory(scope, e)
  \/ \E ok \in BOOLEAN : DefValue(ok) \/ \E e \in BOOLEAN : ContributeValue(e, ok)
  \/ \E hook \in {"default", "zero"} : ProvideWith("singleton", hook)
  \/ \E const \in {"default", "after"} : ControllerCall(const)
  \/ AliasCall
  \/ ModuleHookCall

HandleCall ==
  \/ AlsoAs \/ Qualified \/ CallReady \/ HookCall \/ Unbounded \/ PrefixCall
  \/ \E bound \in Bounds : Timeout(bound) \/ AttemptTimeout(bound) \/ Backoff(bound)

RegNext == DefCall \/ HandleCall

RegSpec == RegInit /\ [][RegNext]_regVars

-----------------------------------------------------------------------------
(* check_environment *)

(* written_bound: a zero bound whatever the clock, another without one.     *)
WrittenBound(item, of, bound, at, timed) ==
  IF bound = "zero" THEN << [item |-> item, of |-> of, kind |-> "zero", at |-> at] >>
  ELSE IF bound = "after" /\ ~timed
  THEN << [item |-> item, of |-> of, kind |-> "untimed", at |-> at] >>
  ELSE <<>>

At(call, registration) == IF call = NoAt THEN registration ELSE call

ReadyReports(b, ready, timed) ==
  (IF ready.backoff # "zero" /\ ~timed
   THEN << [item |-> "backoff", of |-> <<b>>, kind |-> "untimed",
            at |-> At(ready.backoffAt, ready.at)] >>
   ELSE <<>>)
    \o WrittenBound("whole", <<b>>, ready.whole, At(ready.wholeAt, ready.at), timed)
    \o WrittenBound("attempt", <<b>>, ready.attempt, At(ready.attemptAt, ready.at), timed)

HookReports(item, prefix, hooks, timed) ==
  FlattenSeq([h \in DOMAIN hooks |->
    WrittenBound(item, Append(prefix, h), hooks[h].bound, At(hooks[h].boundAt, hooks[h].at), timed)])

CheckEnvironment(timed) ==
  FlattenSeq([b \in DOMAIN node.bindings |->
    LET rec == node.bindings[b] IN
    WrittenBound("construct", <<b>>, rec.bound, At(rec.boundAt, rec.at), timed)
      \o FlattenSeq([r \in DOMAIN rec.ready |-> ReadyReports(b, rec.ready[r], timed)])
      \o HookReports("hook", <<b>>, rec.hooks, timed)])
    \o HookReports("module hook", <<>>, node.hooks, timed)

-----------------------------------------------------------------------------
(* Properties *)

(* Every wait the module's author wrote that is zero, or that no Timer can   *)
(* time, is refused exactly once, and the report names the call that wrote   *)
(* it, or the registration for a trait const: no later call on the handle    *)
(* changes, hides or repeats it (check_environment, State::write).          *)
WaitsReported ==
  \A timed \in BOOLEAN :
    LET reports == CheckEnvironment(timed)
        refused == {w \in written : \/ w.bound = "zero" /\ w.item # "backoff"
                                    \/ w.bound = "after" /\ ~timed}
    IN /\ Len(reports) = Cardinality(ToSet(reports))
       /\ ToSet(reports) =
            {[item |-> w.item, of |-> w.of, at |-> w.at,
              kind |-> IF w.bound = "zero" THEN "zero" ELSE "untimed"] : w \in refused}

(* The marks wire() reads beside the bindings name the bindings they were    *)
(* written for: each enhancer a contribution of that call, each controller   *)
(* its own record with the prefix written on it, each recorded failure the   *)
(* record that holds no value, in order, and every readiness check replaced  *)
(* by a later one (Contribute::push, ModuleDef::controller, try_value,       *)
(* Handle::ready).                                                          *)
MarksNameTheirRecords ==
  /\ [i \in DOMAIN node.enhancers |->
        IF node.enhancers[i] \in DOMAIN node.bindings THEN node.bindings[node.enhancers[i]].at ELSE 0]
       = marked.enhancers
  /\ \A i \in DOMAIN node.enhancers : node.bindings[node.enhancers[i]].kind = "collection"
  /\ [i \in DOMAIN node.controllers |->
        [at |-> node.bindings[node.controllers[i].binding].at, prefix |-> node.controllers[i].prefix]]
       = marked.controllers
  /\ LET failed == SelectSeq(node.bindings, LAMBDA r : r.recipe = "failed")
     IN [i \in DOMAIN failed |-> failed[i].at] = node.failures
  /\ node.failures = marked.failures
  /\ \A b \in DOMAIN node.bindings :
       LET rec == node.bindings[b] IN
       [i \in DOMAIN rec.replaced |-> <<b, rec.replaced[i]>>]
         \o [i \in DOMAIN rec.ready |-> <<b, rec.ready[i].at>>]
         = SelectSeq(marked.checks, LAMBDA c : c[1] = b)
===============================================================================
