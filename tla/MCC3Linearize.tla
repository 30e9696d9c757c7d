---------------------------- MODULE MCC3Linearize ----------------------------
(* An instance of C3Linearize: diamonds, conflicting orders, a library and a *)
(* name that resolves to nothing among the bases, inheritance cycles.        *)
EXTENDS C3Linearize, TLC

CONSTANTS A, B, C, D, X, Lib

MCHierarchies ==
    {(A :> <<>>) @@ (B :> b) @@ (C :> c) @@ (D :> d) @@ (X :> x) :
        b \in {<<>>, <<A>>, <<X>>},
        c \in {<<>>, <<A>>, <<B, A>>, <<Lib, A>>},
        d \in {<<A, B>>, <<Unresolved, C>>},
        x \in UNION {{s \in [1 .. n -> {A, B, C, D}] : Distinct(s)} : n \in 0 .. 3}
              \cup {<<Lib>>, <<A, A>>, <<X>>}}
=============================================================================
