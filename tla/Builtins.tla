------------------------------- MODULE Builtins -------------------------------
(***************************************************************************)
(* What Solidity itself declares: BuiltinDB of hir/builtins.rs and the     *)
(* names of primitive types.  A function is [builtin, params, ret], where  *)
(* ret is empty or the type it returns; a field [builtin, fieldType].      *)
(***************************************************************************)
EXTENDS Types, SequencesExt

Address == Prim("address", 0)
Uint == Prim("uint", 256)
Word == Prim("fixed", 32)
Selector == Prim("fixed", 4)

BuiltinFn(name, params, ret) == [builtin |-> name, params |-> params, ret |-> ret]
BuiltinField(name, type) == [builtin |-> name, fieldType |-> Upcast(type)]

(* Primitive::parse *)
SizedName(kind) == IF kind = "fixed" THEN "bytes" ELSE kind
Widths(kind) == IF kind = "fixed" THEN 1 .. 32 ELSE {8 * k : k \in 1 .. 32}
PrimitiveNames ==
    {<<"address", Address>>, <<"address payable", Prim("payable", 0)>>, <<"bool", Boolean>>,
     <<"bytes", BytesType>>, <<"string", StringType>>, <<"uint", Uint>>,
     <<"int", Prim("int", 256)>>} \cup
    UNION {{<<SizedName(kind) \o ToString(w), Prim(kind, w)>> : w \in Widths(kind)} : kind \in Sized}
IsPrimitiveName(name) == \E p \in PrimitiveNames : p[1] = name
PrimitiveNamed(name) == (CHOOSE p \in PrimitiveNames : p[1] = name)[2]

-----------------------------------------------------------------------------
(* Globals: objects, and functions with their overloads in order *)

GlobalObjects == {"msg", "block", "abi", "tx"}

GlobalFunctions ==
    <<BuiltinFn("assert", <<Boolean>>, <<>>),
      BuiltinFn("require", <<Boolean>>, <<>>), BuiltinFn("require", <<Boolean, StringType>>, <<>>),
      BuiltinFn("require", <<Boolean, BytesType>>, <<>>),
      BuiltinFn("require", <<Boolean, ErrorType>>, <<>>),
      BuiltinFn("keccak256", <<BytesType>>, <<Word>>), BuiltinFn("sha256", <<BytesType>>, <<Word>>),
      BuiltinFn("ripemd160", <<BytesType>>, <<Prim("fixed", 20)>>),
      BuiltinFn("ecrecover", <<Word, Prim("uint", 8), Word, Word>>, <<Address>>),
      BuiltinFn("addmod", <<Uint, Uint, Uint>>, <<Uint>>),
      BuiltinFn("mulmod", <<Uint, Uint, Uint>>, <<Uint>>),
      BuiltinFn("gasleft", <<>>, <<Uint>>), BuiltinFn("blockhash", <<Uint>>, <<Word>>),
      BuiltinFn("selfdestruct", <<Prim("payable", 0)>>, <<>>), BuiltinFn("now", <<>>, <<Uint>>)>>

GlobalsNamed(name) == SelectSeq(GlobalFunctions, LAMBDA g : g.builtin = name)

(* Members of the global objects.  Functions with any number of arguments   *)
(* are looked up and called with the parameters listed.                     *)
ObjectMembers(object) ==
    CASE object = "msg" -> <<BuiltinField("sender", Address), BuiltinField("value", Uint),
                             BuiltinField("sig", Selector), BuiltinField("data", BytesType)>>
      [] object = "block" ->
           <<BuiltinField("number", Uint), BuiltinField("timestamp", Uint),
             BuiltinField("coinbase", Address), BuiltinField("gaslimit", Uint),
             BuiltinField("difficulty", Uint), BuiltinField("prevrandao", Uint),
             BuiltinField("chainid", Uint), BuiltinField("basefee", Uint)>>
      [] object = "tx" -> <<BuiltinField("origin", Address), BuiltinField("gasprice", Uint)>>
      [] object = "abi" ->
           <<BuiltinFn("encode", <<>>, <<BytesType>>), BuiltinFn("encodePacked", <<>>, <<BytesType>>),
             BuiltinFn("encodeWithSelector", <<Selector>>, <<BytesType>>),
             BuiltinFn("encodeWithSignature", <<StringType>>, <<BytesType>>),
             BuiltinFn("encodeCall", <<>>, <<BytesType>>), BuiltinFn("decode", <<BytesType>>, <<>>)>>

-----------------------------------------------------------------------------
(* Members of values of a type *)

LowLevelCalls ==
    [k \in 1 .. 3 |-> BuiltinFn(<<"call", "delegatecall", "staticcall">>[k], <<BytesType>>,
                                <<TupleType(<<Boolean, BytesType>>)>>)]

BuiltinMembers(t) ==
    CASE IsPrim(t) /\ t.prim \in {"address", "payable"} ->
           <<BuiltinField("balance", Uint), BuiltinField("code", BytesType),
             BuiltinField("codehash", Word), BuiltinFn("transfer", <<Uint>>, <<>>),
             BuiltinFn("send", <<Uint>>, <<Boolean>>)>> \o LowLevelCalls
      [] t \in {BytesType, StringType} -> <<BuiltinFn("concat", <<t>>, <<t>>)>>
      [] Has(t, "elem") ->
           <<BuiltinField("length", Uint), BuiltinFn("push", <<t.elem>>, <<>>),
             BuiltinFn("push", <<>>, <<t.elem>>), BuiltinFn("pop", <<>>, <<>>)>>
      [] Has(t, "params") -> <<BuiltinField("selector", Selector), BuiltinField("address", Address)>>
      [] t = ErrorType -> <<BuiltinField("selector", Selector)>>
      [] OTHER -> <<>>

ValueTypeMembers(def, underlying) ==
    <<BuiltinFn("wrap", <<underlying>>, <<DefType(def)>>),
      BuiltinFn("unwrap", <<DefType(def)>>, <<underlying>>)>>

(* Members of type(T) *)
Bounds(t) == <<BuiltinField("min", t), BuiltinField("max", t)>>
CodeMembers == <<BuiltinField("creationCode", BytesType), BuiltinField("runtimeCode", BytesType)>>

MetaMembers(t) ==
    CASE IsPrim(t) /\ t.prim \in {"uint", "int"} -> Bounds(t)
      [] Has(t, "def") /\ t.def.kind = "enum" -> Bounds(Uint)
      [] Has(t, "def") /\ t.def.kind \in {"contract", "library"} ->
           <<BuiltinField("name", StringType)>> \o CodeMembers
      [] Has(t, "def") /\ t.def.kind = "interface" ->
           <<BuiltinField("name", StringType), BuiltinField("interfaceId", BytesType)>> \o CodeMembers
      [] OTHER -> <<>>
=============================================================================
