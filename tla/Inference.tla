------------------------------ MODULE Inference ------------------------------
(***************************************************************************)
(* Members, functions attached by `using` (salsa/hir_db.rs), and what the  *)
(* expressions of a body mean: the rest of Resolver of hir/resolver.rs.    *)
(***************************************************************************)
EXTENDS NameResolution

-----------------------------------------------------------------------------
(* using: what it attaches, as [name, def] with the target it is for.  One  *)
(* whose target is `*`, or does not resolve, attaches to every type.        *)

Attachable(def) == def.kind = "function" /\ ParamNodes(def) # <<>>

FunctionsIn(library) ==
    LET byName == scopes[defs[library].child].byName
    IN FlattenSeq(SetToSeq({byName[n].defs : n \in {m \in DOMAIN byName :
                                                      byName[m].namespace = "function"}}))

(* A source is a function, its overloads, or a library. *)
SourceDefs(res) ==
    CASE Has(res, "callables") ->
           LET named == SelectSeq(res.callables, LAMBDA c : Has(c, "def"))
           IN [k \in DOMAIN named |-> named[k].def]
      [] Has(res, "typ") ->
           IF Has(res.typ, "def") /\ res.typ.def.kind = "library"
           THEN FunctionsIn(res.typ.def) ELSE <<>>
      [] OTHER -> <<>>

(* resolve_using *)
TargetOf(r, node) == IF Has(node, "target") THEN Lower(r, node.target) ELSE NoType
SourcesOf(r, node) ==
    FlattenSeq([k \in DOMAIN node.sources |->
                  SourceDefs(ResolveName(r, node.sources[k], NoBodyScope, 0))])
ForTarget(target, fns) ==
    [k \in DOMAIN fns |-> [target |-> target, name |-> defs[fns[k]].name[1], fn |-> fns[k]]]
Attached(using) ==
    ForTarget(TargetOf(ResolverFor(using), NodeAt(using)),
              SelectSeq(SourcesOf(ResolverFor(using), NodeAt(using)), Attachable))

(* collect_using: those of the file, and in a contract those of its bases   *)
(* as well; in a library or an interface there are none.                    *)
UsingsOf(scopeList) == FlattenSeq([k \in DOMAIN scopeList |-> scopes[scopeList[k]].usings])
UsingScopes(place) ==
    CASE place.kind = "file" -> <<files[place.file].scope>>
      [] place.kind = "contract" -> <<files[place.file].scope>> \o ChildScopes(Bases(place))
      [] OTHER -> <<>>
AttachedBy(usings) == FlattenSeq([k \in DOMAIN usings |-> Attached(usings[k])])
UsingIndex(place) == AttachedBy(UsingsOf(UsingScopes(place)))

TakesFirst(params, key) == params # <<>> /\ Converts(key, params[1], Inherits)
Takes(fn, key) == TakesFirst(ParamTypes(DefCallable(fn, 1)), key)

(* using_defs: those for exactly this type before those for any *)
ForType(index, target) == SelectSeq(index, LAMBDA u : u.target = target)
ForTypeThenAny(index, key) == ForType(index, key.typ) \o ForType(index, NoType)
FunctionsOf(list) == PushAll(<<>>, [k \in DOMAIN list |-> list[k].fn])
UsingDefs(r, key, name) ==
    FunctionsOf(ForTypeThenAny(SelectSeq(UsingIndex(r.container),
                                        LAMBDA u : u.name = name /\ Takes(u.fn, key)), key))

BoundTo(fns) ==
    IF fns = <<>> THEN Nothing ELSE [callables |-> [k \in DOMAIN fns |-> DefCallable(fns[k], 1)]]
InUsing(r, key, name) == BoundTo(UsingDefs(r, key, name))

(* append_using: each name is looked up again. *)
(* Mutant: what is attached to any type is offered for every value. *)
AttachedToAny(r, key) ==
    {[callables |-> <<DefCallable(u.fn, 1)>>] : u \in ToSet(UsingIndex(r.container))}

AttachedTo(r, key) ==
    {InUsing(r, key, u.name) : u \in ToSet(UsingIndex(r.container))} \ {Nothing}

-----------------------------------------------------------------------------
(* Members *)

BuiltinMeaning(m) ==
    IF Has(m, "fieldType") THEN m ELSE [callables |-> <<BuiltinCallable(m, 0)>>]

(* find_member: the first of the name *)
FirstBuiltin(found) == IF found = <<>> THEN Nothing ELSE BuiltinMeaning(found[1])
BuiltinNamed(list, name) == FirstBuiltin(SelectSeq(list, LAMBDA m : m.builtin = name))
BuiltinMeanings(list) == {BuiltinMeaning(list[k]) : k \in DOMAIN list}

Variants(enum) == NodesUnder(enum, "variant")
Fields(struct) == Typed(struct, NodesUnder(struct, "field"))

(* The type of a field is looked up where the field is used. *)
FieldOf(struct, m, t, loc) ==
    IF t = NoType THEN Nothing
    ELSE [field |-> m, owner |-> struct, fieldType |-> UpcastFrom(t, loc)]
FieldMeaning(r, struct, m, loc) == FieldOf(struct, m, Lower(r, NodeIn(struct, m).type), loc)

NamedIn(def, list, name) == SelectSeq(list, LAMBDA m : NodeIn(def, m).name = name)

(* lookup_in_type *)
InDef(r, def, loc, name) ==
    CASE def.kind = "enum" ->
           LET found == NamedIn(def, Variants(def), name)
           IN IF found = <<>> THEN Nothing ELSE [variant |-> found[1], enum |-> def]
      [] def.kind = "struct" ->
           LET found == NamedIn(def, Fields(def), name)
           IN IF found = <<>> THEN Nothing ELSE FieldMeaning(r, def, found[1], loc)
      [] def.kind = "udvt" -> BuiltinNamed(ValueTypeMembers(def, NodeAt(def).type), name)
      [] def.kind \in WithBases -> InBases(def, name)
      [] OTHER -> Nothing

InType(r, key, name) ==
    IF Has(key.typ, "def")
    THEN LET def == key.typ.def
         IN Or(IF defs[def].child = NoScope THEN Nothing ELSE InScope(defs[def].child, name),
               InDef(r, def, key.loc, name))
    ELSE BuiltinNamed(BuiltinMembers(key.typ), name)

(* lookup_in_resolution: a value has the members of its type and what is    *)
(* attached to it; a type name and super have members only.                 *)
InKeyed(r, key, isType, name) ==
    IF key = NoKey THEN Nothing
    ELSE Or(InType(r, key, name), IF isType THEN Nothing ELSE InUsing(r, key, name))

InResolution(r, res, name) ==
    CASE Has(res, "object") -> BuiltinNamed(ObjectMembers(res.object), name)
      [] Has(res, "meta") -> BuiltinNamed(MetaMembers(res.meta), name)
      [] Has(res, "super") -> InBases(res.super, name)
      [] OTHER -> InKeyed(r, Infer(r, res), Has(res, "typ"), name)

(* members: all of them, for completion *)
ScopeMembers(scope) == {InScope(scope, n) : n \in DOMAIN scopes[scope].byName}
AllMembers(list) == UNION {ScopeMembers(list[k]) : k \in DOMAIN list}
FileMembers(f) == AllMembers(<<files[f].scope>> \o files[f].imported)
BaseMembers(def) == AllMembers(ChildScopes(Tail(Bases(def))))

DefMembers(r, def, loc) ==
    CASE def.kind = "enum" -> {[variant |-> m, enum |-> def] : m \in ToSet(Variants(def))}
      [] def.kind = "struct" ->
           {FieldMeaning(r, def, m, loc) : m \in ToSet(Fields(def))} \ {Nothing}
      [] def.kind = "udvt" -> BuiltinMeanings(ValueTypeMembers(def, NodeAt(def).type))
      [] def.kind \in WithBases -> BaseMembers(def)
      [] OTHER -> {}

OwnMembers(child) == IF child = NoScope THEN {} ELSE ScopeMembers(child)
TypeMembers(r, key) ==
    IF key = NoKey THEN {}
    ELSE AttachedTo(r, key) \cup
         IF Has(key.typ, "def")
         THEN OwnMembers(defs[key.typ.def].child) \cup DefMembers(r, key.typ.def, key.loc)
         ELSE BuiltinMeanings(BuiltinMembers(key.typ))

Members(r, res) ==
    CASE Has(res, "importedFile") -> FileMembers(res.importedFile)
      [] Has(res, "object") -> BuiltinMeanings(ObjectMembers(res.object))
      [] Has(res, "meta") -> BuiltinMeanings(MetaMembers(res.meta))
      [] Has(res, "super") -> BaseMembers(res.super)
      [] OTHER -> TypeMembers(r, Infer(r, res))

-----------------------------------------------------------------------------
(* resolve_expr *)

(* What is indexed hands its location on to the elements. *)
ElementOf(key) ==
    CASE key = NoKey -> Nothing
      [] Has(key.typ, "elem") -> [tk |-> UpcastFrom(key.typ.elem, key.loc)]
      [] Has(key.typ, "key") -> [tk |-> UpcastFrom(key.typ.mapped, "storage")]
      [] key.typ = BytesType -> [tk |-> Upcast(Prim("fixed", 1))]
      [] OTHER -> Nothing

MetaOf(res) ==
    CASE Has(res, "typ") -> [meta |-> res.typ]
      [] Has(res, "tk") -> [meta |-> res.tk.typ]
      [] OTHER -> Nothing

(* A call: of a type, of a single function the arguments convert to, or of  *)
(* the overload that is chosen.  All arguments need a type.                 *)
Candidates(callables) ==
    [k \in DOMAIN callables |-> [params |-> ParamTypes(callables[k]), bound |-> callables[k].bound]]

Chosen(callables, k) == IF k = 0 THEN Nothing ELSE [called |-> callables[k]]
CallOf(res, args) ==
    CASE NoKey \in ToSet(args) -> Nothing
      [] Has(res, "typ") -> [tk |-> Upcast(res.typ)]
      [] Has(res, "callables") ->
           Chosen(res.callables, Overload(Candidates(res.callables), args, Inherits))
      [] OTHER -> Nothing

RECURSIVE ResolveExpr(_, _)
ResolveExpr(r, n) ==
    LET first == ResolveExpr(r, ExprOf[Part(n, 1)])
    IN CASE Kind(n) = "name" ->
              ResolveName(r, tree[n].name,
                          IF n \in DOMAIN exprScope THEN exprScope[n] ELSE NoBodyScope, n)
         [] Kind(n) = "literal" -> [tk |-> Upcast(tree[n].value)]
         [] Kind(n) = "source" -> [importedFile |-> tree[Up(n)].imports]
         [] Kind(n) = "binary" ->
              IF tree[n].op = "compare" THEN [tk |-> Upcast(Boolean)] ELSE first
         [] Kind(n) = "access" -> ElementOf(Infer(r, first))
         [] Kind(n) = "metatype" -> MetaOf(first)
         [] Kind(n) = "member" ->
              IF first = Nothing THEN Nothing
              ELSE InResolution(r, first, tree[Property(n)].name)
         [] Kind(n) \in CallKinds ->
              CallOf(first, [k \in DOMAIN Args(n) |-> Infer(r, ResolveExpr(r, ExprOf[Args(n)[k]]))])
=============================================================================
