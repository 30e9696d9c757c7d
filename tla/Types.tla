--------------------------------- MODULE Types ---------------------------------
(***************************************************************************)
(* Types and where their values are: Type and TypeKey of hir/types.rs.     *)
(*                                                                         *)
(* A type is a primitive or literal one (Primitives) or one of             *)
(*   [def], [error], [elem, size], [key, mapped], [params, ret], [parts]   *)
(* the size of an array being NoSize if it has none that can be computed.  *)
(* A type key is a type with its data location.                            *)
(***************************************************************************)
EXTENDS Primitives

NoSize == -1
ErrorType == [error |-> TRUE]
DefType(def) == [def |-> def]
ArrayType(elem, size) == [elem |-> elem, size |-> size]
MappingType(key, mapped) == [key |-> key, mapped |-> mapped]
FnType(params, ret) == [params |-> params, ret |-> ret]
TupleType(parts) == [parts |-> parts]

Has(t, field) == field \in DOMAIN t
BothHave(a, b, field) == Has(a, field) /\ Has(b, field)

-----------------------------------------------------------------------------
(* Where a value of a type is: Type::upcast, upcast_from, upcast_from_kind *)

DefaultLoc(t) ==
    CASE IsPrim(t) -> PrimLoc(t)
      [] IsLiteral(t) -> LiteralLoc(t)
      [] Has(t, "def") /\ t.def.kind = "struct" -> "memory"
      [] Has(t, "elem") \/ Has(t, "parts") -> "memory"
      [] Has(t, "key") -> "storage"
      [] OTHER -> "stack"

TypeKey(typ, loc) == [typ |-> typ, loc |-> loc]
Upcast(t) == TypeKey(t, DefaultLoc(t))
UpcastFrom(t, loc) == IF DefaultLoc(t) = "stack" THEN Upcast(t) ELSE TypeKey(t, loc)
UpcastFromKind(t, kind) == IF kind = "state" THEN UpcastFrom(t, "storage") ELSE Upcast(t)
=============================================================================
