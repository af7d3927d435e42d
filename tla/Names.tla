-------------------------------- MODULE Names --------------------------------
(***************************************************************************)
(* What wiring prints and refuses: names, reports, declarations, failures. *)
(* Operators only: none of it keeps state.                                 *)
(***************************************************************************)
EXTENDS Integers, Sequences, FiniteSets, SequencesExt

-------------------------------------------------------------------------------
(***************************************************************************)
(* How ulo's reports name types, keys and modules                          *)
(* (crates/ulo/src/type_name.rs, key.rs, module/mod.rs, graph/register.rs).*)
(*                                                                         *)
(* A `type_name` is a sequence of tokens.  A token is a path, the sequence *)
(* of its segments, or one piece of punctuation.  Texts are sequences of   *)
(* strings: two texts are equal when the printed names are.                *)
(***************************************************************************)

Punctuation == {"<", ">", "&", "(", ")", ",", "dyn "}

Closure == "{{closure}}"

(* The type a qualifier of `()` is: no qualifier.                          *)
Unqualified == << <<"(">>, <<")">> >>

NoLabel == "no label"

-----------------------------------------------------------------------------
(* TypeName *)

IsPath(token) == token[1] \notin Punctuation

(* The last segment of a path; a closure keeps the item that encloses it.  *)
LastSegment(path) ==
  IF Last(path) = Closure /\ Len(path) > 1
  THEN << path[Len(path) - 1], "::", Closure >>
  ELSE << Last(path) >>

ShortTypeName(name) ==
  FlattenSeq([i \in DOMAIN name |-> IF IsPath(name[i]) THEN LastSegment(name[i]) ELSE name[i]])

(* `{:#}`: the whole `type_name`.                                          *)
Separated(path) == Tail(FlattenSeq([i \in DOMAIN path |-> <<"::", path[i]>>]))

FullTypeName(name) == FlattenSeq([i \in DOMAIN name |-> Separated(name[i])])

(* The names whose short form another type among `names` shares.           *)
Colliding(names) ==
  {a \in names : \E b \in names : a # b /\ ShortTypeName(a) = ShortTypeName(b)}

WrittenName(name, full) == IF name \in full THEN FullTypeName(name) ELSE ShortTypeName(name)

-----------------------------------------------------------------------------
(* Key and KeyName: [ty, qualifier, kind] *)

IsUnqualified(key) == key.qualifier = Unqualified

TypeNamesOf(key) == {key.ty} \cup IF IsUnqualified(key) THEN {} ELSE {key.qualifier}

RoleAlias == [ErasedGuard |-> "AnyGuard", ErasedInterceptor |-> "AnyInterceptor",
              ErasedErrorHandler |-> "AnyErrorHandler"]

(* `dyn ErasedGuard<Http>` is printed as the `AnyGuard<Http>` a user wrote. *)
RoleSpelling(text) ==
  LET angle == SelectInSeq(text, LAMBDA t : t = "<")
      last  == IF angle = 0 THEN Len(text) ELSE angle - 1
  IN IF text[1] = "dyn " /\ last > 1 /\ text[last] \in DOMAIN RoleAlias
     THEN Tail([text EXCEPT ![last] = RoleAlias[@]])
     ELSE text

TextIn(key, full) ==
  RoleSpelling(WrittenName(key.ty, full))
    \o (IF IsUnqualified(key) THEN <<>> ELSE <<" @ ">> \o WrittenName(key.qualifier, full))
    \o (IF key.kind = "collection" THEN <<" (collection)">> ELSE <<>>)

(* A report over `keys`: every name it prints decides which are full.      *)
KeyReport(keys) ==
  LET full == Colliding(UNION {TypeNamesOf(key) : key \in keys})
  IN [key \in keys |-> TextIn(key, full)]

-----------------------------------------------------------------------------
(* ModuleName: an identity is [ty, qualifier, config, label]; equality      *)
(* leaves the label out.                                                   *)

SameIdentity(a, b) == a.ty = b.ty /\ a.qualifier = b.qualifier /\ a.config = b.config

Render(identity, instance, full) ==
  LET path(name) == IF full THEN FullTypeName(name) ELSE ShortTypeName(name)
      own == IF identity.label = NoLabel THEN path(identity.ty)
             ELSE <<identity.label>>
                    \o IF full THEN <<" (">> \o FullTypeName(identity.ty) \o <<")">> ELSE <<>>
  IN own \o (IF identity.qualifier = Unqualified THEN <<>> ELSE <<" @ ">> \o path(identity.qualifier))
         \o (IF instance > 0 THEN <<" #", ToString(instance + 1)>> ELSE <<>>)

ModuleNameOf(identity, instance) ==
  [text |-> Render(identity, instance, FALSE), full |-> Render(identity, instance, TRUE)]

(* A module's position among the earlier ones of its type and qualifier,   *)
(* the frozen graph's modules first.                                       *)
InstanceOf(modules, n) ==
  Cardinality({m \in 1 .. (n - 1) : /\ modules[m].ty = modules[n].ty
                                    /\ modules[m].qualifier = modules[n].qualifier})

ModuleNames(base, loaded) ==
  LET modules == base \o loaded
  IN [n \in DOMAIN modules |-> ModuleNameOf(modules[n], InstanceOf(modules, n))]

CollidingNames(names) ==
  {a \in names : \E b \in names : a # b /\ a.text = b.text}

PrintedModules(base, loaded) ==
  LET names == ModuleNames(base, loaded)
      full  == CollidingNames(ToSet(names))
  IN [n \in DOMAIN names |-> IF names[n] \in full THEN names[n].full ELSE names[n].text]

-----------------------------------------------------------------------------
(* ModuleSettings: [entries, repeats]; a call is [name, value, at].         *)

NoSettings == [entries |-> <<>>, repeats |-> <<>>]

ValueOf(settings, name) ==
  LET found == SelectSeq(settings.entries, LAMBDA e : e.name = name)
  IN IF found = <<>> THEN <<>> ELSE << found[1] >>

With(settings, call) ==
  IF ValueOf(settings, call.name) = <<>>
  THEN [settings EXCEPT !.entries = Append(@, call)]
  ELSE [settings EXCEPT !.repeats =
          Append(@, [name |-> call.name, first |-> ValueOf(settings, call.name)[1].at,
                     second |-> call.at])]

SettingsOf(calls) == FoldLeft(With, NoSettings, calls)

Values(found) == [i \in DOMAIN found |-> found[i].value]

(* Each name whose value the two do not share: `a`'s order, then `b`'s own. *)
Differences(a, b) ==
  LET named(s) == [i \in DOMAIN s.entries |-> s.entries[i].name]
      names == named(a) \o SelectSeq(named(b), LAMBDA n : ValueOf(a, n) = <<>>)
      told(n) == <<n, Values(ValueOf(a, n)), Values(ValueOf(b, n))>>
  IN [i \in DOMAIN SelectSeq(names, LAMBDA n : Values(ValueOf(a, n)) # Values(ValueOf(b, n)))
        |-> told(SelectSeq(names, LAMBDA n : Values(ValueOf(a, n)) # Values(ValueOf(b, n)))[i])]

(* The repeats of the later registrations of one identity, in order.       *)
LaterRepeats(claimed, later) ==
  FoldLeft(LAMBDA repeats, settings :
             FoldLeft(LAMBDA kept, repeat :
                        IF repeat \in ToSet(claimed.repeats) \cup ToSet(kept) THEN kept
                        ELSE Append(kept, repeat),
                      repeats, settings.repeats),
           <<>>, later)

-----------------------------------------------------------------------------
(* Properties *)

(* Two keys of one report are never printed alike: the names that would     *)
(* collide are the ones written with their full paths, a type's arguments   *)
(* and a key's qualifier included (TypeName::colliding, Key::text_in).      *)
KeysPrintApart(keys) ==
  \A a, b \in keys : a # b => KeyReport(keys)[a] # KeyReport(keys)[b]

(* Two modules of one app are never printed alike, whatever their labels,   *)
(* types, qualifiers and configurations, and a load into a frozen graph     *)
(* numbers its modules after the graph's own and renames none of those      *)
(* (Registry::names, ModuleName::render, colliding_names).                  *)
ModulesPrintApart(base, loaded) ==
  LET all == base \o loaded IN
  (\A i, j \in DOMAIN all : i # j => ~SameIdentity(all[i], all[j]))
    => /\ \A i, j \in DOMAIN all :
            i # j => PrintedModules(base, loaded)[i] # PrintedModules(base, loaded)[j]
       /\ \A i \in DOMAIN base : ModuleNames(base, loaded)[i] = ModuleNames(base, <<>>)[i]

(* A second import is refused exactly when some setting's value differs    *)
(* from the registered one, naming each such setting once; and each name    *)
(* written twice is reported once however often the module is imported      *)
(* (ModuleSettings::differences, later_repeats).                            *)
SettingsTold(first, later) ==
  LET a == SettingsOf(first)
      all == [i \in DOMAIN later |-> SettingsOf(later[i])]
      firstValue(calls, name) ==
        Values(SubSeq(SelectSeq(calls, LAMBDA c : c.name = name), 1,
                      IF \E i \in DOMAIN calls : calls[i].name = name THEN 1 ELSE 0))
      names(calls) == {calls[i].name : i \in DOMAIN calls}
      repeats == a.repeats \o LaterRepeats(a, all)
  IN /\ \A i \in DOMAIN later :
          LET told == Differences(a, all[i])
              differ == {n \in names(first) \cup names(later[i]) :
                           firstValue(first, n) # firstValue(later[i], n)}
          IN /\ Len(told) = Cardinality(differ)
             /\ ToSet(told) = {<<n, firstValue(first, n), firstValue(later[i], n)>> : n \in differ}
     /\ ToSet(repeats) = ToSet(a.repeats) \cup UNION {ToSet(all[i].repeats) : i \in DOMAIN all}
     /\ Cardinality(ToSet(repeats)) = Len(repeats)

-------------------------------------------------------------------------------
(***************************************************************************)
(* The reports of wire(), of the servers' prepare and of a shutdown         *)
(* (crates/ulo/src/error/wiring.rs, configure.rs, mod.rs).                  *)
(*                                                                          *)
(* An entry is [variant, of]: of[f] is the set of keys, type names or       *)
(* modules its field f holds, empty for an absent Option.  A report first   *)
(* asks every entry for the names it prints (KeyFields, TypeFields,         *)
(* ModuleFields), decides from all of them which are written with their     *)
(* full paths, and then renders each entry (ShownKeys, ShownTypes,          *)
(* ShownModules).  Wording is left out.                                     *)
(***************************************************************************)

(* WiringError's variants.                                                  *)
ModuleVariants ==
  {"ImportCycle", "ReexportNotVisible", "ReexportAmbiguous", "KeyedInput", "ExportNotBound"}

OtherVariants == {"NestedKeyed", "DifferingSettings", "DuplicateSetting", "ControllerRead"}

BindingVariants ==
  {"DuplicateBinding", "KindMix", "DanglingAlias", "ControllerProvided", "ValueFailed",
   "QualifiedRoleContribution", "SingleRoleBinding", "DuplicateReadiness", "InputConflict"}

TestVariants ==
  {"OverrideUnmatched", "OverrideAmbiguous", "OverrideModuleAmbiguous", "OverrideKind",
   "TimerOverride", "RuntimeOverride", "ReplacementMissingExports", "ReplacementUnmatched",
   "DuplicateReplacement"}

GraphVariants ==
  {"UnreadPrefix", "Missing", "Ambiguous", "Cycle", "ScopeViolation", "HooksOnPerExecution",
   "ClosureScopeViolation", "ClosureNeedsExecution", "InputNotSeeded"}

TimerVariants ==
  {"BoundWithoutTimer", "BackoffWithoutTimer", "KnobWithoutTimer", "ZeroBound", "ZeroDefault"}

(* ConfigureError, with a PrepareError or another error inside.             *)
ConfigureVariants == {"Prepare", "OtherPrepare"}

(* ShutdownFailure's variants.                                              *)
ShutdownVariants == {"Hook", "Close", "Dropped", "Serve"}

WiringVariants ==
  ModuleVariants \cup BindingVariants \cup TestVariants \cup GraphVariants \cup TimerVariants
    \cup OtherVariants

(* The two sources of an InputConflict: transports, or a module's seeders.  *)
OriginTypes == {"first transport", "first seeders", "second transport", "second seeders"}

(* The sites of two differing registrations, each with its importer.        *)
SiteImporters == {"first importer", "second importer"}

-----------------------------------------------------------------------------
(* What an entry says it prints *)

(* WiringError::key_names *)
KeyFields(variant) ==
  CASE variant \in {"ReexportNotVisible", "ReexportAmbiguous", "KeyedInput", "DuplicateBinding",
                    "KindMix", "ValueFailed", "QualifiedRoleContribution", "SingleRoleBinding",
                    "DuplicateReadiness", "InputConflict", "OverrideUnmatched",
                    "OverrideAmbiguous", "OverrideKind", "ControllerProvided", "Ambiguous"}
         -> {"key"}
    [] variant \in {"ExportNotBound", "Missing"} -> {"key", "near"}
    [] variant = "DanglingAlias" -> {"alias", "target"}
    [] variant = "ReplacementMissingExports" -> {"missing"}
    [] variant = "Cycle" -> {"path"}
    [] variant \in {"ScopeViolation", "HooksOnPerExecution", "ZeroBound"} -> {"binding"}
    [] variant = "InputNotSeeded" -> {"input"}
    [] variant \in {"UnreadPrefix", "ControllerRead"} -> {"controller"}
    [] variant = "Hook" -> {"key"}
    [] OTHER -> {}

(* WiringError::type_names beyond its keys, InputOrigin::type_names,         *)
(* ConfigureErrors::collect, ShutdownFailure::type_names                    *)
TypeFields(variant) ==
  CASE variant = "InputNotSeeded" -> {"transport", "seeder"}
    [] variant = "ClosureScopeViolation" -> {"transport"}
    [] variant = "UnreadPrefix" -> {"transports"}
    [] variant = "InputConflict" -> OriginTypes
    [] variant = "NestedKeyed" -> {"outer", "inner"}
    [] variant = "ControllerProvided" -> {"provided"}
    [] variant = "Prepare" -> {"transport", "names"}
    [] variant \in {"OtherPrepare", "Close", "Serve"} -> {"transport"}
    [] OTHER -> {}

(* WiringError::module_names *)
ModuleFields(variant) ==
  CASE variant \in {"ImportCycle", "Cycle"} -> {"modules"}
    [] variant \in {"ReexportNotVisible", "KeyedInput", "ExportNotBound", "DuplicateBinding",
                    "KindMix", "DanglingAlias", "ControllerProvided", "ValueFailed",
                    "QualifiedRoleContribution", "SingleRoleBinding", "DuplicateReadiness",
                    "ScopeViolation", "HooksOnPerExecution", "UnreadPrefix", "NestedKeyed",
                    "DuplicateSetting", "ZeroBound"} -> {"module"}
    [] variant = "ControllerRead" -> {"module", "controller module"}
    [] variant = "DifferingSettings" -> {"module"} \cup SiteImporters
    [] variant \in {"ReexportAmbiguous", "Ambiguous"} -> {"module", "sources"}
    [] variant = "OverrideUnmatched" -> {"keyed"}
    [] variant = "OverrideAmbiguous" -> {"matches"}
    [] variant = "OverrideModuleAmbiguous" -> {"candidates"}
    [] variant = "ReplacementMissingExports" -> {"original", "replacement"}
    [] variant \in {"ReplacementUnmatched", "DuplicateReplacement"} -> {"original"}
    [] variant = "Missing" -> {"module", "exporter"}
    [] variant = "InputConflict" -> {"first module", "second module"}
    [] OTHER -> {}

-----------------------------------------------------------------------------
(* What render writes: [keys, types, modules], each a set of fields *)

ModuleShown(variant) ==
  CASE variant = "ImportCycle" -> [keys |-> {}, types |-> {}, modules |-> {"modules"}]
    [] variant \in {"ReexportNotVisible", "KeyedInput"} ->
         [keys |-> {"key"}, types |-> {}, modules |-> {"module"}]
    [] variant = "ReexportAmbiguous" ->
         [keys |-> {"key"}, types |-> {}, modules |-> {"module", "sources"}]
    [] variant = "ExportNotBound" ->
         [keys |-> {"key", "near"}, types |-> {}, modules |-> {"module"}]

BindingShown(variant) ==
  CASE variant \in {"DuplicateBinding", "KindMix", "ValueFailed", "DuplicateReadiness",
                    "QualifiedRoleContribution", "SingleRoleBinding"} ->
         [keys |-> {"key"}, types |-> {}, modules |-> {"module"}]
    [] variant = "DanglingAlias" ->
         [keys |-> {"alias", "target"}, types |-> {}, modules |-> {"module"}]
    [] variant = "ControllerProvided" ->
         [keys |-> {"key"}, types |-> {"provided"}, modules |-> {"module"}]
    [] variant = "InputConflict" ->
         [keys |-> {"key"}, modules |-> {"first module", "second module"},
          types |-> OriginTypes]

TestShown(variant) ==
  CASE variant = "OverrideUnmatched" -> [keys |-> {"key"}, types |-> {}, modules |-> {"keyed"}]
    [] variant = "OverrideAmbiguous" -> [keys |-> {"key"}, types |-> {}, modules |-> {"matches"}]
    [] variant = "OverrideModuleAmbiguous" ->
         [keys |-> {}, types |-> {}, modules |-> {"candidates"}]
    [] variant = "OverrideKind" -> [keys |-> {"key"}, types |-> {}, modules |-> {}]
    [] variant = "ReplacementMissingExports" ->
         [keys |-> {"missing"}, types |-> {}, modules |-> {"original", "replacement"}]
    [] variant \in {"ReplacementUnmatched", "DuplicateReplacement"} ->
         [keys |-> {}, types |-> {}, modules |-> {"original"}]
    [] variant \in {"TimerOverride", "RuntimeOverride"} ->
         [keys |-> {}, types |-> {}, modules |-> {}]

GraphShown(variant) ==
  CASE variant = "Missing" ->
         [keys |-> {"key", "near"}, types |-> {}, modules |-> {"module", "exporter"}]
    [] variant = "Ambiguous" -> [keys |-> {"key"}, types |-> {}, modules |-> {"module", "sources"}]
    [] variant = "Cycle" -> [keys |-> {"path"}, types |-> {}, modules |-> {"modules"}]
    [] variant \in {"ScopeViolation", "HooksOnPerExecution"} ->
         [keys |-> {"binding"}, types |-> {}, modules |-> {"module"}]
    [] variant = "ClosureScopeViolation" -> [keys |-> {}, types |-> {"transport"}, modules |-> {}]
    [] variant = "UnreadPrefix" ->
         [keys |-> {"controller"}, types |-> {"transports"}, modules |-> {"module"}]
    [] variant = "ClosureNeedsExecution" -> [keys |-> {}, types |-> {}, modules |-> {}]
    [] variant = "InputNotSeeded" ->
         [keys |-> {"input"}, types |-> {"transport", "seeder"}, modules |-> {}]

TimerShown(variant) ==
  IF variant = "ZeroBound" THEN [keys |-> {"binding"}, types |-> {}, modules |-> {"module"}]
  ELSE [keys |-> {}, types |-> {}, modules |-> {}]

OtherShown(variant) ==
  CASE variant = "NestedKeyed" ->
         [keys |-> {}, types |-> {"outer", "inner"}, modules |-> {"module"}]
    [] variant = "DuplicateSetting" -> [keys |-> {}, types |-> {}, modules |-> {"module"}]
    [] variant = "DifferingSettings" ->
         [keys |-> {}, types |-> {}, modules |-> {"module"} \cup SiteImporters]
    [] variant = "ControllerRead" ->
         [keys |-> {"controller"}, types |-> {}, modules |-> {"module", "controller module"}]

ConfigureShown(variant) ==
  [keys |-> {}, modules |-> {},
   types |-> {"transport"} \cup IF variant = "Prepare" THEN {"names"} ELSE {}]

ShutdownShown(variant) ==
  [keys |-> IF variant = "Hook" THEN {"key"} ELSE {}, modules |-> {},
   types |-> IF variant \in {"Close", "Serve"} THEN {"transport"} ELSE {}]

Shown(variant) ==
  CASE variant \in ModuleVariants    -> ModuleShown(variant)
    [] variant \in BindingVariants   -> BindingShown(variant)
    [] variant \in TestVariants      -> TestShown(variant)
    [] variant \in GraphVariants     -> GraphShown(variant)
    [] variant \in TimerVariants     -> TimerShown(variant)
    [] variant \in OtherVariants     -> OtherShown(variant)
    [] variant \in ConfigureVariants -> ConfigureShown(variant)
    [] variant \in ShutdownVariants  -> ShutdownShown(variant)

-----------------------------------------------------------------------------
Held(entry, fields) == UNION {entry.of[f] : f \in fields}

Typed(entry, keys, types) ==
  UNION {TypeNamesOf(key) : key \in Held(entry, keys)} \cup Held(entry, types)

(* Collisions: what one report writes in full.                              *)
FullTypes(report) ==
  Colliding(UNION {Typed(e, KeyFields(e.variant), TypeFields(e.variant)) : e \in report})

FullModules(report) == CollidingNames(UNION {Held(e, ModuleFields(e.variant)) : e \in report})

WrittenModule(name, full) == IF name \in full THEN name.full ELSE name.text

(* What the rendered report tells a reader: its types and its modules.      *)
PrintedTypes(report) ==
  UNION {Typed(e, Shown(e.variant).keys, Shown(e.variant).types) : e \in report}

PrintedModulesOf(report) == UNION {Held(e, Shown(e.variant).modules) : e \in report}

(* Two different types, or two different modules, are never printed alike   *)
(* in one report, whichever entries and fields name them: every name an     *)
(* entry renders is among those it entered into the report's collision      *)
(* check (WiringErrors, ConfigureErrors and ShutdownError's Display).       *)
ReportPrintsApart(report) ==
  /\ \A a, b \in PrintedTypes(report) :
       a # b => WrittenName(a, FullTypes(report)) # WrittenName(b, FullTypes(report))
  /\ \A a, b \in PrintedModulesOf(report) :
       a # b => WrittenModule(a, FullModules(report)) # WrittenModule(b, FullModules(report))

-------------------------------------------------------------------------------
(***************************************************************************)
(* What the modules of an app declare beside each other, and what wire()    *)
(* refuses of it (crates/ulo/src/graph/wire.rs): execution inputs, which     *)
(* transports and modules both declare; bindings, single and collected,      *)
(* under one key; and the modules of a lazy load beside the frozen graph.    *)
(*                                                                          *)
(* An input event is a handler mounting, or a module's own `input`, in       *)
(* freeze's order.  `inputsOf[t]` is Transport::inputs: the keys a transport  *)
(* declares, each with the transports it says also seed it.                  *)
(***************************************************************************)

(* An InputDecl: its seeders and where it came from.                        *)
InputDecl(key, seeders, origin) == [key |-> key, seeders |-> seeders, origin |-> origin]

NoDeclared == [entries |-> <<>>, seen |-> {}, transports |-> <<>>, modules |-> <<>>]

EntryAt(entries, key) == SelectInSeq(entries, LAMBDA d : d.key = key)

\* mutant: a module's earlier declaration keeps its one seeder
MergedAsWritten(entries, decl) == IF EntryAt(entries, decl.key) = 0 THEN Append(entries, decl) ELSE entries

(* One transport's declaration into the graph: an earlier module's naming    *)
(* only its seeders takes them all.                                          *)
Merged(entries, decl) ==
  LET at == EntryAt(entries, decl.key) IN
  IF at = 0 THEN Append(entries, decl)
  ELSE IF entries[at].origin = "module" /\ entries[at].seeders \subseteq decl.seeders
  THEN [entries EXCEPT ![at].seeders = decl.seeders]
  ELSE entries

(* declare_transport_inputs: the first handler of a transport declares its   *)
(* inputs.                                                                  *)
DeclareTransportInputs(d, t, inputsOf) ==
  IF t \in d.seen THEN d
  ELSE LET decls == [i \in DOMAIN inputsOf[t] |->
                       InputDecl(inputsOf[t][i].key, {t} \cup inputsOf[t][i].also, t)]
       IN [d EXCEPT !.seen = @ \cup {t}, !.transports = @ \o decls,
                    !.entries = FoldLeft(Merged, @, decls)]

(* freeze, a module's own inputs.                                           *)
DeclareModuleInput(d, key, seeder) ==
  [d EXCEPT !.modules = Append(@, [key |-> key, seeder |-> seeder]),
            !.entries = IF EntryAt(@, key) # 0 THEN @
                        ELSE Append(@, InputDecl(key, {seeder}, "module"))]

DeclareInputs(events, inputsOf) ==
  FoldLeft(LAMBDA d, e : IF e.e = "mount" THEN DeclareTransportInputs(d, e.t, inputsOf)
                         ELSE DeclareModuleInput(d, e.key, e.t),
           NoDeclared, events)

(* check_bindings, the module inputs: a second declaration, and a binding    *)
(* under the key.                                                           *)
ModuleInputErrors(d, bound) ==
  {<<"duplicate", i>> : i \in {j \in DOMAIN d.modules :
                                 \E k \in 1..j - 1 : d.modules[k].key = d.modules[j].key}}
    \cup {<<"bound", i>> : i \in {j \in DOMAIN d.modules : d.modules[j].key \in bound}}

(* check_bindings, the transport inputs.                                    *)
TransportInputErrors(d, bound) ==
  LET T == d.transports
      reported(i) == \/ \E m \in ToSet(d.modules) : m.key = T[i].key
                     \/ \E k \in 1..i - 1 : T[k].key = T[i].key
  IN UNION {{<<"seeder", i, m>> : m \in {j \in DOMAIN d.modules :
                /\ d.modules[j].key = T[i].key
                /\ d.modules[j].seeder \notin T[i].seeders}} : i \in DOMAIN T}
       \cup UNION {{<<"set", i, k>> : k \in {j \in 1..i - 1 :
                T[j].key = T[i].key /\ T[j].seeders # T[i].seeders}} : i \in DOMAIN T}
       \cup {<<"both", i>> : i \in {j \in DOMAIN T : ~reported(j) /\ T[j].key \in bound}}

-----------------------------------------------------------------------------
(* Bindings.  A record has its keys, its kind and its module; the first      *)
(* `old` of them are the frozen graph's.                                    *)

Single(b) == b.kind = "single"

(* The first binding of its module under the key.                           *)
FirstUnder(bindings, module, key) ==
  SelectInSeq(bindings, LAMBDA b : Single(b) /\ b.module = module /\ key \in ToSet(b.keys))

(* A pair of bindings of one module is reported once, whatever keys they     *)
(* share.                                                                   *)
DuplicatePairs(bindings, new) ==
  UNION {{<<FirstUnder(bindings, bindings[i].module, k), i>> : k \in
            {key \in ToSet(bindings[i].keys) : FirstUnder(bindings, bindings[i].module, key) # i}} :
         i \in {j \in DOMAIN bindings : Single(bindings[j]) /\ bindings[j].module \in new}}

Contributions(bindings, key) ==
  {i \in DOMAIN bindings : ~Single(bindings[i]) /\ key \in ToSet(bindings[i].keys)}

(* A key is mixed where either side is new; a role's key is freeze's to      *)
(* report.                                                                  *)
KindMixes(bindings, old, roles) ==
  UNION {{k \in ToSet(bindings[i].keys) \ roles :
            LET all == Contributions(bindings, k)
            IN all # {} /\ (i > old \/ \E c \in all : c > old)} :
         i \in {j \in DOMAIN bindings : Single(bindings[j])}}

-----------------------------------------------------------------------------
(* A lazy load *)

(* Where the frozen graph reads a collection.                               *)
ReadSites == {"edge", "ready", "hook", "module hook", "handler", "role", "closure"}

ReadsCollection(base, key) == \E site \in ReadSites : key \in base.reads[site]

(* The first thing a node is refused for, in the code's order.              *)
NodeRefusal(base, node) ==
  IF node.controllers THEN "controllers"
  ELSE IF node.meta THEN "middleware"
  ELSE IF node.inputs # {} THEN "input"
  ELSE IF node.global /\ node.exports # {} THEN "global"
  ELSE IF \E k \in node.contributes : k \in base.collections \/ ReadsCollection(base, k)
  THEN "contribution" ELSE "none"

Refusal(base, nodes) ==
  LET at == SelectInSeq(nodes, LAMBDA n : NodeRefusal(base, n) # "none")
  IN IF at = 0 THEN "none" ELSE NodeRefusal(base, nodes[at])

-----------------------------------------------------------------------------
(* Properties *)

(* An app whose inputs pass has one source for each: every transport and     *)
(* module declaring a key agrees on who seeds it, the graph's entry holds     *)
(* exactly those seeders whichever declaration came first, and nothing binds  *)
(* the key; an app that fails has a key that breaks this                     *)
(* (declare_transport_inputs, check_bindings).                               *)
InputsOneSource(events, inputsOf, bound) ==
  LET d == DeclareInputs(events, inputsOf)
      errors == ModuleInputErrors(d, bound) \cup TransportInputErrors(d, bound)
      mounted == {e.t : e \in {x \in ToSet(events) : x.e = "mount"}}
      said(key) == UNION {{{t} \cup i.also : i \in {j \in ToSet(inputsOf[t]) : j.key = key}} : t \in mounted}
      own(key) == {i \in DOMAIN events : events[i].e = "input" /\ events[i].key = key}
      keys == {e.key : e \in ToSet(d.entries)}
      agreed(key) == /\ Cardinality(said(key)) <= 1
                     /\ Cardinality(own(key)) <= 1
                     /\ \A i \in own(key), s \in said(key) : events[i].t \in s
                     /\ key \notin bound
  IN /\ (errors = {}) <=> \A key \in keys : agreed(key)
     /\ errors = {} =>
          \A e \in ToSet(d.entries) :
            e.seeders = IF said(e.key) # {} THEN CHOOSE s \in said(e.key) : TRUE
                        ELSE {events[i].t : i \in own(e.key)}

(* Bindings that pass leave every key, outside the roles, either single or    *)
(* collected in the whole app, and one binding for it in each new module: a   *)
(* load whose contribution meets a frozen single binding is caught as one     *)
(* whose single binding meets a frozen collection is (check_bindings).       *)
KindsApart(bindings, old, roles) ==
  LET new == {bindings[i].module : i \in old + 1..Len(bindings)}
      frozen == SubSeq(bindings, 1, old)
      mixes(b, k) == Contributions(b, k) # {} /\ \E x \in ToSet(b) : Single(x) /\ k \in ToSet(x.keys)
      keys == UNION {ToSet(b.keys) : b \in ToSet(bindings)} \ roles
  IN (\A k \in keys : ~mixes(frozen, k)) /\ DuplicatePairs(bindings, new) = {}
       /\ KindMixes(bindings, old, roles) = {}
       => /\ \A k \in keys : ~mixes(bindings, k)
          /\ \A i, j \in old + 1..Len(bindings) :
               i # j /\ Single(bindings[i]) /\ Single(bindings[j])
                 /\ bindings[i].module = bindings[j].module
                 => ToSet(bindings[i].keys) \cap ToSet(bindings[j].keys) = {}

(* A load that is not refused changes nothing the frozen graph sees: no       *)
(* collection it holds or reads anywhere grows, no key becomes visible        *)
(* everywhere, and no handler, input or metadata is added (refusal,           *)
(* reads_collection).                                                        *)
LoadLeavesBase(base, nodes) ==
  Refusal(base, nodes) = "none" =>
    \A n \in ToSet(nodes) :
      /\ n.contributes \cap (base.collections \cup UNION {base.reads[s] : s \in ReadSites}) = {}
      /\ ~n.global \/ n.exports = {}
      /\ ~n.controllers /\ ~n.meta /\ n.inputs = {}

-------------------------------------------------------------------------------
(***************************************************************************)
(* How a `prepare` failure is built and carried (ulo-transport/prepare.rs, *)
(* PrepareError and PrepareEntry of ulo/src/error/configure.rs): a link or *)
(* an upgrade handler answers a PrepareError or any other error, its       *)
(* server pushes it among its own failures, and the startup report reads   *)
(* the names, the entries, the text and whether a retry can mend it.       *)
(*                                                                         *)
(* Text is the sequence of the findings it writes, each with the links     *)
(* written before it.                                                      *)
(***************************************************************************)

CONSTANT WalkBound   \* errors carries_permanent reads down a source() chain

NoSubject == "none"

Entry(names, subject, scopes, reason) == [names |-> names, subject |-> subject, scopes |-> scopes, reason |-> reason]

PrepareError(names, entries, text, permanent) ==
    [prepared |-> TRUE, names |-> names, entries |-> entries, text |-> text, permanent |-> permanent]

\* Any other error: `permanentAt` is where in its chain a Permanent is, 0 for
\* nowhere.
PlainError(id, permanentAt) == [prepared |-> FALSE, id |-> id, permanentAt |-> permanentAt]

CarriesPermanent(error) == error.permanentAt \in 1..WalkBound

\* Failure::of with its setters.
Failure(names, text, subject, scopes, reason) ==
    [names |-> names, text |-> text, subject |-> subject, scopes |-> scopes, reason |-> reason,
     nested |-> <<>>, permanent |-> FALSE, link |-> NoSubject]

\* Failure::from_error.
FromError(error) ==
    IF error.prepared
    THEN [Failure(error.names, error.text, NoSubject, <<>>, NoSubject) EXCEPT !.nested = error.entries, !.permanent = error.permanent]
    ELSE [Failure({}, <<[id |-> error.id, links |-> <<>>]>>, NoSubject, <<>>, NoSubject)
            EXCEPT !.permanent = CarriesPermanent(error)]

InLink(failure, link) == [failure EXCEPT !.link = link]

\* Failure::entries: the nested ones whole, each without a subject taking the
\* link's name, or one of its own.
Entries(f) ==
    IF f.nested # <<>>
    THEN [i \in DOMAIN f.nested |->
            IF f.nested[i].subject = NoSubject /\ f.link # NoSubject THEN [f.nested[i] EXCEPT !.subject = f.link] ELSE f.nested[i]]
    ELSE <<Entry(f.names, IF f.subject # NoSubject THEN f.subject ELSE f.link, f.scopes, f.reason)>>

\* Failure::text.
Text(f) ==
    IF f.link = NoSubject THEN f.text ELSE [i \in DOMAIN f.text |-> [f.text[i] EXCEPT !.links = <<f.link>> \o @]]

\* Failures::into_error.
IntoError(failures) ==
    PrepareError(UNION {failures[i].names : i \in DOMAIN failures},
                 FlattenSeq([i \in DOMAIN failures |-> Entries(failures[i])]),
                 FlattenSeq([i \in DOMAIN failures |-> Text(failures[i])]),
                 \E i \in DOMAIN failures : failures[i].permanent)

\* push_link_error, or push_error for a component that is not a link.
PushError(error, link) == IF link = NoSubject THEN FromError(error) ELSE InLink(FromError(error), link)

(***************************************************************************)
(* A finding is [id, names, subject, scopes, reason] of a component, or    *)
(* [id, permanentAt] of a library below it. A component is                 *)
(* [findings, link].                                                       *)
(***************************************************************************)
IsLibrary(finding) == "permanentAt" \in DOMAIN finding

FailureOf(finding) ==
    IF IsLibrary(finding) THEN FromError(PlainError(finding.id, finding.permanentAt))
    ELSE Failure(finding.names, <<[id |-> finding.id, links |-> <<>>]>>, finding.subject, finding.scopes, finding.reason)

Answered(component) == IntoError([i \in DOMAIN component.findings |-> FailureOf(component.findings[i])])

ServerError(components) ==
    IntoError([i \in DOMAIN components |-> PushError(Answered(components[i]), components[i].link)])

\* A startup failure keeps what each component under the server found, however
\* deep: every finding is written once, in the order found, behind the link
\* that found it, and listed as one entry with its own subject, scopes and
\* reason, or the link's name for want of a subject; every type any of them
\* names enters the report's naming pass; and a retry is called pointless
\* exactly when one of the findings is permanent.
FindingsKept(components) ==
    LET error    == ServerError(components)
        pairs    == FlattenSeq([i \in DOMAIN components |->
                        [j \in DOMAIN components[i].findings |-> [link |-> components[i].link, found |-> components[i].findings[j]]]])
        named(p) == IF IsLibrary(p.found) THEN {} ELSE p.found.names
    IN  /\ Len(error.entries) = Len(pairs) /\ Len(error.text) = Len(pairs)
        /\ \A i \in DOMAIN pairs :
            /\ error.text[i] = [id |-> pairs[i].found.id, links |-> IF pairs[i].link = NoSubject THEN <<>> ELSE <<pairs[i].link>>]
            /\ error.entries[i].names = named(pairs[i])
            /\ error.entries[i].subject = IF IsLibrary(pairs[i].found) \/ pairs[i].found.subject = NoSubject THEN pairs[i].link
                                          ELSE pairs[i].found.subject
            /\ ~IsLibrary(pairs[i].found) =>
                  error.entries[i].scopes = pairs[i].found.scopes /\ error.entries[i].reason = pairs[i].found.reason
        /\ error.names = UNION {named(pairs[i]) : i \in DOMAIN pairs}
        /\ error.permanent <=> \E i \in DOMAIN pairs : IsLibrary(pairs[i].found) /\ pairs[i].found.permanentAt \in 1..WalkBound
===============================================================================
