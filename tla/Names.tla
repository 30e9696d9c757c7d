--------------------------------- MODULE Names ---------------------------------
(***************************************************************************)
(* What a name means: Resolver::resolve_name of hir/resolver.rs, on the    *)
(* map of definitions (DefCollector), the body of the function at hand     *)
(* (BodyScopes) and what Solidity itself declares (Builtins).              *)
(*                                                                         *)
(* A resolver r is [file, container], the container being the owner of a   *)
(* scope.  A resolution is one of                                          *)
(*   [typ], [tk], [var], [local], [callables], [called], [object],         *)
(*   [field, owner, fieldType], [builtin, fieldType], [variant, enum],     *)
(*   [meta], [super], [importedFile]                                       *)
(* where [callables] of length one is Resolution::Callable and a callable  *)
(* is [def, bound] or a builtin function with `bound`.                     *)
(*                                                                         *)
(* The linearization of a contract after itself, which is the subject of   *)
(* C3Linearize, is given with its node (`linear`), as names.               *)
(***************************************************************************)
EXTENDS DefCollector, BodyScopes, Builtins

Nothing == [nothing |-> TRUE]

Or(first, second) == IF first = Nothing THEN second ELSE first

(* Resolver::build: names are looked up from the scope the definition is in. *)
ResolverFor(def) == [file |-> def.file, container |-> scopes[defs[def].scope].owner]

-----------------------------------------------------------------------------
(* Definitions *)

DefCallable(def, bound) == [def |-> def, bound |-> bound]
BuiltinCallable(f, bound) ==
    [builtin |-> f.builtin, params |-> f.params, ret |-> f.ret, bound |-> bound]

(* Resolver::resolution: all overloads of a name, or the type or variable. *)
Meaning(entry) ==
    CASE entry.namespace = "type" -> [typ |-> DefType(entry.defs[1])]
      [] entry.namespace = "variable" -> [var |-> entry.defs[1]]
      [] OTHER -> [callables |-> [k \in DOMAIN entry.defs |-> DefCallable(entry.defs[k], 0)]]

InScope(scope, name) ==
    LET byName == scopes[scope].byName
    IN IF name \in DOMAIN byName THEN Meaning(byName[name]) ELSE Nothing

(* The first of a list of scopes that has the name *)
FirstIn(found, name) == IF found = <<>> THEN Nothing ELSE InScope(found[1], name)
InScopes(list, name) ==
    FirstIn(SelectSeq(list, LAMBDA s : name \in DOMAIN scopes[s].byName), name)

InImports(f, name) == InScopes(files[f].imported, name)

(* lookup_type in a file, as resolve_base uses it for the bases *)
TypeOr(res, other) == IF Has(res, "typ") THEN res ELSE other
TypeInFile(f, name) == TypeOr(InScope(files[f].scope, name), InImports(f, name))

WithBases == {"contract", "interface"}
DefsOf(resolutions) ==
    LET types == SelectSeq(resolutions, LAMBDA res : Has(res, "typ"))
    IN [k \in DOMAIN types |-> types[k].typ.def]
Bases(def) == <<def>> \o DefsOf([k \in DOMAIN NodeAt(def).linear |->
                                   TypeInFile(def.file, NodeAt(def).linear[k])])
Inherits == UNION {{<<d, b>> : b \in ToSet(Bases(d))} :
                     d \in {e \in DOMAIN defs : e.kind \in WithBases}}

ChildScopes(list) ==
    LET known == SelectSeq(list, LAMBDA def : def \in DOMAIN defs)
    IN [k \in DOMAIN known |-> defs[known[k]].child]
InBases(def, name) == InScopes(ChildScopes(Tail(Bases(def))), name)

(* resolve_def: outwards from the container, with its bases or imports *)
BeyondScope(place, name) ==
    CASE place.kind \in WithBases ->
           (CASE name = "this" -> [typ |-> DefType(place)]
              [] name = "super" -> [super |-> place]
              [] OTHER -> InBases(place, name))
      [] place.kind = "file" -> InImports(place.file, name)
      [] OTHER -> Nothing

(* The scopes around a scope are numbered before it, and those numbered in   *)
(* between are inside of them.                                              *)
MapScopesAround(scope) ==
    {s \in 1 .. scope : \A k \in s + 1 .. scope : scopes[k].parent >= s}
FromScope(s, name) == Or(InScope(s, name), BeyondScope(scopes[s].owner, name))
OutwardsFrom(scope, name) ==
    LET found == {s \in MapScopesAround(scope) : FromScope(s, name) # Nothing}
    IN IF found = {} THEN Nothing ELSE FromScope(Max(found), name)

(* Nothing is found from inside a container that is not in the map. *)
ResolveDef(r, name) ==
    IF r.container \in DOMAIN defs THEN OutwardsFrom(defs[r.container].child, name) ELSE Nothing

(* resolve_name: primitive types and globals hide what a program declares. *)
CallablesOf(fns) ==
    IF fns = <<>> THEN Nothing
    ELSE [callables |-> [k \in DOMAIN fns |-> BuiltinCallable(fns[k], 0)]]
GlobalMeaning(name) ==
    IF name \in GlobalObjects THEN [object |-> name] ELSE CallablesOf(GlobalsNamed(name))

LocalMeaning(name, scope, offset) ==
    LET l == LocalFrom(name, scope, offset)
    IN IF l = None THEN Nothing ELSE [local |-> l]

ResolveName(r, name, scope, offset) ==
    IF IsPrimitiveName(name) THEN [typ |-> PrimitiveNamed(name)]
    ELSE Or(GlobalMeaning(name), Or(LocalMeaning(name, scope, offset), ResolveDef(r, name)))
=============================================================================
