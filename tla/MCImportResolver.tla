--------------------------- MODULE MCImportResolver ---------------------------
(* Instances of ImportResolver: up to four files of the root and one of      *)
(* another.                                                                  *)
EXTENDS ImportResolver, TLC

CONSTANTS f1, f2, f3, f4, foreign

Full(g) == [kind |-> "full", dep |-> g]
Named(g, s) == [kind |-> "named", dep |-> g, symbol |-> s]

(* Up to two imports of everything among the three files, self-imports      *)
(* included, or an import that finds nothing or leads out of the root.      *)
FullLists == {<<>>} \cup {<<Full(g)>> : g \in {f1, f2, f3}}
             \cup {<<Full(g), Full(h)>> : g, h \in {f1, f2, f3}}
             \cup {<<Full(Missing)>>, <<Full(foreign), Full(f1)>>}
Repeated == {<<Full(g), Full(g)>> : g \in {f1, f2, f3}}

(* Two of the files also import by name; one of them also from itself, and  *)
(* one file twice.                                                          *)
NamedLists(f) == {<<Named(g, f3)>> : g \in {f1, f2, f3} \ {f}}
                 \cup {<<Named(f3, foreign), Full(f3)>>}
OfThree == {(f1 :> l1) @@ (f2 :> l2) @@ (f3 :> l3) @@ (f4 :> <<>>) :
                l1 \in FullLists \cup NamedLists(f1)
                       \cup {<<Named(g, foreign)>> : g \in {f2, f3}}
                       \cup {<<Named(f1, f3), Full(f3)>>},
                l2 \in (FullLists \ Repeated) \cup NamedLists(f2),
                l3 \in FullLists \ Repeated}

(* One file has two ways to go on, among four files. *)
Single == {<<>>} \cup {<<Full(g)>> : g \in File}
OfFour == {(f1 :> <<Full(f2), Full(f3)>>) @@ (f2 :> l2) @@ (f3 :> l3) @@ (f4 :> l4) :
                l2 \in Single, l3 \in Single, l4 \in Single}

MCGraphs == OfThree \cup OfFour
=============================================================================
