---------------------------- MODULE NameResolution ----------------------------
(***************************************************************************)
(* What types and declarations mean: the rest of Resolver of               *)
(* hir/resolver.rs up to infer_type.  Resolutions are those of Names.      *)
(*                                                                         *)
(* Type names are written like types with [path], a sequence of names, for *)
(* a definition and an expression for the size of an array: [num],         *)
(* [constant] or [op, left, right].                                        *)
(***************************************************************************)
EXTENDS Names, TypeConversion

NoType == [noType |-> TRUE]
NoKey == [noKey |-> TRUE]
NoSignature == [noSignature |-> TRUE]

(* The nodes under the node of a definition, in document order *)
NodesUnder(def, kind) ==
    LET nodes == program[def.file]
    IN SetToSortSeq({m \in DOMAIN nodes : nodes[m].up = TheNode(def) /\ nodes[m].kind = kind}, <)
Typed(def, list) == SelectSeq(list, LAMBDA m : "type" \in DOMAIN program[def.file][m])
NodeIn(def, m) == program[def.file][m]

-----------------------------------------------------------------------------
(* Types *)

(* lookup_type: a type declared in another *)
TypeIn(t, name) ==
    IF ~Has(t, "def") \/ defs[t.def].child = NoScope THEN Nothing
    ELSE TypeOr(InScope(defs[t.def].child, name),
                IF t.def.kind \in WithBases THEN InBases(t.def, name) ELSE Nothing)

(* resolve_path *)
ResolvePath(r, path) ==
    LET first == IF IsPrimitiveName(path[1]) THEN [typ |-> PrimitiveNamed(path[1])]
                 ELSE ResolveDef(r, path[1])
        Step(res, name) == IF Has(res, "typ") THEN TypeIn(res.typ, name) ELSE Nothing
    IN FoldLeft(Step, first, Tail(path))

(* eval_array_size: literals, constants and arithmetic on them; what is     *)
(* below zero or divides by zero has no value.                              *)
RECURSIVE ArraySize(_, _)
ConstantValue(r, res) ==
    IF Has(res, "var") /\ NodeAt(res.var).var = "const" /\ Has(NodeAt(res.var), "init")
    THEN ArraySize(r, NodeAt(res.var).init) ELSE NoSize
Arith(op, a, b) ==
    CASE a = NoSize \/ b = NoSize -> NoSize
      [] op = "+" -> a + b
      [] op = "-" -> IF a >= b THEN a - b ELSE NoSize
      [] op = "*" -> a * b
      [] op = "/" -> IF b # 0 THEN a \div b ELSE NoSize
      [] op = "%" -> IF b # 0 THEN a % b ELSE NoSize
      [] op = "**" -> a ^ b
      [] OTHER -> NoSize
ArraySize(r, e) ==
    CASE Has(e, "num") -> e.num
      [] Has(e, "constant") -> ConstantValue(r, ResolveName(r, e.constant, NoBodyScope, 0))
      [] Has(e, "op") -> Arith(e.op, ArraySize(r, e.left), ArraySize(r, e.right))
      [] OTHER -> NoSize

(* lower_type_name: an array or mapping needs its parts, a function type    *)
(* leaves out what does not resolve.                                        *)
RECURSIVE Lower(_, _)
LowerAll(r, names) ==
    SelectSeq([k \in DOMAIN names |-> Lower(r, names[k])], LAMBDA t : t # NoType)
TypeMeant(res) == IF Has(res, "typ") THEN res.typ ELSE NoType
ArrayOf(elem, size) == IF elem = NoType THEN NoType ELSE ArrayType(elem, size)
MappingOf(key, mapped) == IF NoType \in {key, mapped} THEN NoType ELSE MappingType(key, mapped)
Lower(r, name) ==
    CASE Has(name, "path") -> TypeMeant(ResolvePath(r, name.path))
      [] Has(name, "elem") -> ArrayOf(Lower(r, name.elem), ArraySize(r, name.size))
      [] Has(name, "key") -> MappingOf(Lower(r, name.key), Lower(r, name.mapped))
      [] Has(name, "params") -> FnType(LowerAll(r, name.params), LowerAll(r, name.ret))
      [] OTHER -> name

(* signatures: the parameters and what is returned, in the scope of the     *)
(* declaration, those that have a type; one type that is unknown, and there *)
(* is no signature.                                                         *)
KeyFrom(t, loc) == IF t = NoType THEN NoKey ELSE UpcastFrom(t, loc)
KeysOf(def, list) ==
    [k \in DOMAIN list |-> KeyFrom(Lower(ResolverFor(def), NodeIn(def, list[k]).type),
                                   NodeIn(def, list[k]).loc)]
ParamNodes(def) == Typed(def, NodesUnder(def, "parameter"))
ReturnNodes(def) ==
    LET nodes == program[def.file]
        returns == {m \in DOMAIN nodes : nodes[m].kind = "parameter" /\ nodes[m].up # 0 /\
                      nodes[nodes[m].up].kind = "returns" /\ nodes[nodes[m].up].up = TheNode(def)}
    IN Typed(def, SetToSortSeq(returns, <))
SignatureOf(keys, n) ==
    IF NoKey \in ToSet(keys) THEN NoSignature
    ELSE [params |-> SubSeq(keys, 1, n), ret |-> SubSeq(keys, n + 1, Len(keys))]
Signature(def) ==
    SignatureOf(KeysOf(def, ParamNodes(def) \o ReturnNodes(def)), Len(ParamNodes(def)))

(* param_types: no signature is as good as one without parameters. *)
WithParameters == {"function", "modifier", "event", "error"}
ParamsOf(signature) == IF signature = NoSignature THEN <<>> ELSE signature.params
ParamTypes(c) ==
    CASE Has(c, "builtin") -> [k \in DOMAIN c.params |-> Upcast(c.params[k])]
      [] c.def.kind \in WithParameters -> ParamsOf(Signature(c.def))
      [] OTHER -> <<>>

(* callable_type and callable_result_type *)
KeyTypes(keys) == [k \in DOMAIN keys |-> keys[k].typ]
FunctionKey(signature) ==
    IF signature = NoSignature THEN NoKey
    ELSE Upcast(FnType(KeyTypes(signature.params), KeyTypes(signature.ret)))
CallableKey(c) ==
    CASE Has(c, "builtin") -> Upcast(FnType(c.params, c.ret))
      [] c.def.kind = "function" -> FunctionKey(Signature(c.def))
      [] c.def.kind = "error" -> Upcast(ErrorType)
      [] OTHER -> NoKey

ReturnedKey(signature) ==
    CASE signature = NoSignature \/ signature.ret = <<>> -> NoKey
      [] Len(signature.ret) = 1 -> signature.ret[1]
      [] OTHER -> TypeKey(TupleType(KeyTypes(signature.ret)), "stack")
BuiltinKey(ret) ==
    IF ret = <<>> THEN NoKey
    ELSE TypeKey(ret[1], IF IsPrim(ret[1]) THEN PrimLoc(ret[1]) ELSE "memory")
ResultKey(c) ==
    CASE Has(c, "builtin") -> BuiltinKey(c.ret)
      [] c.def.kind = "function" -> ReturnedKey(Signature(c.def))
      [] c.def.kind = "error" -> Upcast(ErrorType)
      [] OTHER -> NoKey

(* infer_type *)
Declaration(res) == IF Has(res, "local") THEN tree[locals[res.local].node] ELSE NodeAt(res.var)
DeclaredKey(t, node) ==
    CASE t = NoType -> NoKey
      [] node.kind = "var" -> UpcastFromKind(t, node.var)
      [] OTHER -> TypeKey(t, node.loc)
Infer(r, res) ==
    CASE Has(res, "local") \/ Has(res, "var") ->
           DeclaredKey(Lower(r, Declaration(res).type), Declaration(res))
      [] Has(res, "callables") ->
           IF Len(res.callables) = 1 THEN CallableKey(res.callables[1]) ELSE NoKey
      [] Has(res, "called") -> ResultKey(res.called)
      [] Has(res, "tk") -> res.tk
      [] Has(res, "typ") -> Upcast(res.typ)
      [] Has(res, "variant") -> TypeKey(DefType(res.enum), "stack")
      [] Has(res, "fieldType") -> res.fieldType
      [] OTHER -> NoKey
=============================================================================
