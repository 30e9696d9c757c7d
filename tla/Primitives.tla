------------------------------ MODULE Primitives ------------------------------
(***************************************************************************)
(* Primitive types, the types of literals and data locations: the leaves   *)
(* of Type::converts_to of hir/types.rs.  The cost of a conversion is how  *)
(* much it loses; an overload is chosen by the sum of the costs.           *)
(*                                                                         *)
(* Numbers stay below 2^30, since TLC counts in 32 bits: a type of at      *)
(* least as many bits holds them all.                                      *)
(***************************************************************************)
EXTENDS Integers

NoCost == -1

Prim(kind, bits) == [prim |-> kind, bits |-> bits]
Boolean == Prim("bool", 0)
BytesType == Prim("bytes", 0)
StringType == Prim("string", 0)

Sized == {"uint", "int", "fixed"}
IsPrim(t) == "prim" \in DOMAIN t

(* Primitive::converts_to: to a wider type of the same kind, an unsigned    *)
(* type to a wider signed one, and a payable address to any.                *)
PrimCost(a, b) ==
    CASE a = b -> 0
      [] a.prim = b.prim /\ a.prim \in Sized /\ b.bits > a.bits -> 1
      [] a.prim = "uint" /\ b.prim = "int" /\ b.bits > a.bits -> 1
      [] a.prim = "payable" /\ b.prim = "address" -> 1
      [] OTHER -> NoCost

-----------------------------------------------------------------------------
(* Literals: a number is the fraction num/den, a string has a length.       *)

IsLiteral(t) == "literal" \in DOMAIN t
NumberType(num, den) == [literal |-> "number", num |-> num, den |-> den]
TextType(kind, len) == [literal |-> kind, len |-> len]
BoolLiteral == [literal |-> "bool"]

Pow2(bits) == 2 ^ (IF bits < 30 THEN bits ELSE 30)
FitsUnsigned(value, bits) == 0 <= value /\ value < Pow2(bits)
FitsSigned(value, bits) == bits > 0 /\ -Pow2(bits - 1) <= value /\ value < Pow2(bits - 1)

IsInteger(l) == l.num % l.den = 0
Holds(b, value) == \/ b.prim = "uint" /\ FitsUnsigned(value, b.bits)
                   \/ b.prim = "int" /\ FitsSigned(value, b.bits)

(* LiteralType::converts_to: a literal only ever becomes a primitive type. *)
LiteralCost(l, b) ==
    IF ~IsPrim(b) THEN NoCost
    ELSE CASE l.literal = "bool" -> IF b = Boolean THEN 0 ELSE NoCost
           [] l.literal = "number" ->
                IF IsInteger(l) /\ Holds(b, l.num \div l.den) THEN 1 ELSE NoCost
           [] l.literal = "string" /\ b = StringType -> 0
           [] OTHER -> IF b = BytesType \/ (b.prim = "fixed" /\ l.len <= b.bits)
                       THEN 1 ELSE NoCost

(* inferred_type: what a literal is said to be, if it converts to anything. *)
Unsized == [unsized |-> TRUE]

Smallest(kind, value) ==
    LET widths == {bits \in {8 * k : k \in 1 .. 32} : Holds(Prim(kind, bits), value)}
    IN IF widths = {} THEN Unsized ELSE Prim(kind, CHOOSE w \in widths : \A v \in widths : w <= v)

InferredType(l) ==
    CASE l.literal = "bool" -> Boolean
      [] l.literal = "string" -> StringType
      [] l.literal = "hex" -> IF l.len \in 1 .. 32 THEN Prim("fixed", l.len) ELSE BytesType
      [] OTHER -> IF ~IsInteger(l) THEN Unsized
                  ELSE Smallest(IF l.num < 0 THEN "int" ELSE "uint", l.num \div l.den)

-----------------------------------------------------------------------------
(* Data locations *)

Locations == {"stack", "memory", "calldata", "storage"}

LocConverts(a, b) == a = b \/ <<a, b>> \in {<<"memory", "calldata">>, <<"storage", "memory">>,
                                            <<"storage", "calldata">>}

PrimLoc(p) == IF p \in {BytesType, StringType} THEN "memory" ELSE "stack"
LiteralLoc(l) == IF l.literal \in {"string", "hex"} THEN "memory" ELSE "stack"
=============================================================================
