------------------------------- MODULE MCAnalysis -------------------------------
(***************************************************************************)
(* Small programs for Analysis: pairs of definitions whose names clash,    *)
(* bodies with nested scopes, and programs of one or two files around      *)
(* inheritance, overloads, using and members.                              *)
(***************************************************************************)
EXTENDS Analysis, TLC

-----------------------------------------------------------------------------
(* Trees are put together from subtrees, whose tops have the parent 0. *)
Shift(t, up, by) == [k \in DOMAIN t |-> [t[k] EXCEPT !.up = IF @ = 0 THEN up ELSE @ + by]]
Join(ts) == FoldLeft(LAMBDA all, t : all \o Shift(t, 0, Len(all)), <<>>, ts)
Under(node, ts) == <<node>> \o Shift(Join(ts), 1, 1)

Node(kind, name) == [kind |-> kind, name |-> name, up |-> 0]
Leaf(kind, name) == <<Node(kind, name)>>

(* Types *)
U8 == Prim("uint", 8)
U256 == Prim("uint", 256)
I256 == Prim("int", 256)
Path(p) == [path |-> p]
Num(n) == [num |-> n]
PathNode(p) == Under([path |-> p] @@ Node("path", ""), [k \in DOMAIN p |-> Leaf("segment", p[k])])

(* Declarations *)
Typed2(kind, name, type, loc) == <<[type |-> type, loc |-> loc] @@ Node(kind, name)>>
Param(name, type, loc) == Typed2("parameter", name, type, loc)
Simple(name, type) == Param(name, type, "stack")
Field(name, type) == <<[type |-> type] @@ Node("field", name)>>
Returns(params) == Under(Node("returns", ""), params)
Code(stmts) == Under(Node("fnbody", ""), stmts)
Proto(name, signature) == Under(Node("function", name), <<Leaf("name", name)>> \o signature)
Fn(name, signature, stmts) == Proto(name, signature \o <<Code(stmts)>>)
VarOf(name, type, var) == <<[type |-> type, var |-> var] @@ Node("var", name)>>
State(name, type) == VarOf(name, type, "state")
Constant(name, init) == <<[init |-> init, type |-> U256, var |-> "const"] @@ Node("var", name)>>
Body(items) == Under(Node("body", ""), items)
Contract(name, linear, items) ==
    Under([linear |-> linear] @@ Node("contract", name), <<Body(items)>>)
Interface(name, linear, items) ==
    Under([linear |-> linear] @@ Node("interface", name), <<Body(items)>>)
Library(name, items) == Under(Node("library", name), <<Body(items)>>)
ValueType(name, type) == <<[type |-> type] @@ Node("udvt", name)>>
Struct(name, fields) == Under(Node("struct", name), fields)
Enum(name, variants) == Under(Node("enum", name), [k \in DOMAIN variants |-> Leaf("variant", variants[k])])
Import(f) == Under([imports |-> f] @@ Node("import", ""), <<Leaf("comment", ""), Leaf("source", "")>>)
UsingFor(sources, target, global) ==
    <<[sources |-> sources, target |-> target, global |-> global] @@ Node("using", "")>>
UsingForAll(sources) == <<[sources |-> sources, global |-> FALSE] @@ Node("using", "")>>

(* Expressions and statements *)
Name(x) == Leaf("name", x)
Lit(v) == <<[value |-> v] @@ Node("literal", "")>>
Whole(n) == Lit(NumberType(n, 1))
Call(callee, args) == Under(Node("call", ""), <<callee>> \o args)
Member(obj, p) == Under(Node("member", ""), <<obj, Leaf("property", p)>>)
Dot(obj) == Under(Node("incomplete", ""), <<obj, Leaf("missing", "")>>)
Index(obj, i) == Under(Node("access", ""), <<obj, i>>)
Meta(t) == Under(Node("metatype", ""), <<t>>)
Binary(op, a, b) == Under([op |-> op] @@ Node("binary", ""), <<a, b>>)
Stmt(e) == Under(Node("statement", ""), <<e>>)
Decl(x) == Under(Node("declaration", ""), <<Typed2("variable", x, U256, "stack")>>)
DeclInit(x, e) == Under(Node("declaration", ""), <<Typed2("variable", x, U256, "stack"), e>>)
Block(stmts) == Under(Node("block", ""), stmts)

-----------------------------------------------------------------------------
(* Two definitions side by side, in a file and in a contract *)
Ident == Name("x")
Bare(kind) == Under(Node(kind, "x"), <<Ident>>)
Small ==
    {Fn("x", <<>>, <<>>), Under(Constant("x", Num(1))[1], <<Ident>>),
     Bare("enum"), Bare("udvt"), Bare("struct"), Bare("event"), Bare("error")}
InContracts == Small \cup {Bare("modifier"), Contract("y", <<>>, <<>>),
                           Under(Node("ERROR", ""), <<Bare("struct")>>)}
AtTops == {t \in Small : t[1].kind \in {"function", "udvt", "struct"}} \cup
          {Contract("x", <<>>, <<Fn("x", <<>>, <<>>)>>), Library("x", <<>>), Import(1),
           UsingForAll(<<"x">>), Under(Node("ERROR", ""), <<Contract("x", <<>>, <<Bare("event")>>)>>)}
Clashes == {Contract("x", <<>>, <<a, b>>) : a, b \in InContracts} \cup
           {Join(<<a, b>>) : a, b \in AtTops \ {Import(1)}}
InTwo == {Join(<<Contract("x", <<>>, <<a>>), Contract("y", <<>>, <<b>>)>>) :
            a, b \in {Fn("x", <<>>, <<>>), Bare("enum"), Bare("event")}}

-----------------------------------------------------------------------------
(* Bodies *)
UseX == Stmt(Name("x"))
Statements ==
    {Decl("x"), UseX, DeclInit("x", Name("x")), Block(<<UseX, Decl("x"), UseX>>),
     Under(Node("for", ""), <<Decl("x"), Name("x"), Block(<<UseX>>)>>),
     Under(Node("try", ""), <<Call(Name("x"), <<>>),
                              Under(Node("clause", ""), <<Simple("x", U256), Block(<<UseX>>)>>)>>),
     Under(Node("declaration", ""),
           <<Under(Node("tuple", ""), <<Typed2("variable", "x", U256, "stack"), Leaf("variable", "x")>>),
             Leaf("location", ""), Name("x")>>)}
Signature2 ==
    <<Simple("x", U256), Leaf("visibility", ""), Under(Node("invocation", ""), <<Name("x")>>),
      Returns(<<Simple("", U256)>>)>>
Nested == Block(<<UseX, Decl("x"), UseX>>)
Bodies == {Fn("f", <<>>, <<s, t, UseX>>) : s \in Statements, t \in {Decl("x"), Nested}} \cup
          {Fn("f", Signature2, <<s, Nested, UseX>>) : s \in Statements}
MethodBodies == {Contract("c", <<>>, <<State("x", U256), Fn("f", <<>>, <<Block(<<s, Block(<<t>>), UseX>>), UseX>>)>>) :
                   s, t \in {Decl("x"), UseX}}

-----------------------------------------------------------------------------
(* Overloads: two functions of a name in either order, and a call *)
AddressType == Prim("address", 0)
Payable == Prim("payable", 0)
ArgTypes == {U8, U256, I256, Payable, StringType}
Overloaded ==
    {Contract("c", <<>>,
        <<Proto("o", <<Simple("a", p)>>), Proto("o", <<Simple("a", q)>>),
          Fn("f", <<Param("v", t, IF t = StringType THEN "memory" ELSE "stack")>>,
             <<Stmt(Call(Name("o"), <<Name("v")>>))>>)>>) :
        p \in {U256, AddressType}, q \in {U8, I256}, t \in ArgTypes}
OnLiterals ==
    {Contract("c", <<>>,
        <<Proto("o", <<Simple("a", p)>>), Proto("o", <<Param("a", q, "memory")>>),
          Fn("f", <<>>, <<Stmt(Call(Name("o"), <<Lit(l)>>))>>)>>) :
        p \in {U8, Prim("fixed", 2)}, q \in {I256, BytesType},
        l \in {NumberType(-1, 1), NumberType(256, 1), NumberType(1, 2), TextType("string", 2),
               TextType("hex", 3), BoolLiteral}}

(* Inheritance, members and using *)
Calls(callee, arg) == Stmt(Call(callee, <<arg>>))
Hierarchy ==
    <<Join(<<Interface("i", <<>>, <<Proto("g", <<Simple("", U8)>>)>>),
             Contract("b", <<"i">>, <<Leaf("event", "ev"), State("s", U256), Fn("h", <<>>, <<>>),
                                      Struct("t", <<Field("a", U256), Field("z", Path(<<"none">>))>>)>>),
             Contract("c", <<"b", "i">>,
                <<PathNode(<<"b", "t">>), Proto("o", <<Simple("a", Path(<<"i">>))>>),
                  Proto("o", <<Simple("a", Path(<<"b">>))>>),
                  Fn("f", <<Param("v", Path(<<"c">>), "stack"), Param("m", Path(<<"b", "t">>), "memory")>>,
                     <<Calls(Name("o"), Name("v")), Stmt(Dot(Name("v"))), Stmt(Dot(Name("super"))),
                       Stmt(Member(Name("m"), "a")), Stmt(Call(Member(Name("super"), "h"), <<>>)),
                       Stmt(Name("s")), Stmt(Name("o"))>>)>>)>>)>>

Attaching ==
    {<<Join(<<u,
         Library("l", <<Fn("inc", <<Simple("a", U256)>>, <<>>), Fn("pay", <<Simple("a", AddressType)>>, <<>>),
                        Proto("none", <<>>)>>),
         Contract("c", <<>>,
             <<UsingFor(<<"l">>, U256, FALSE),
               Fn("f", <<Simple("v", U256), Simple("w", AddressType)>>,
                  <<Stmt(Dot(Name("v"))), Stmt(Dot(Name("w"))), Stmt(Dot(Name("l"))),
                    Stmt(Call(Member(Name("v"), "inc"), <<>>))>>)>>)>>)>> :
       u \in {UsingForAll(<<"l">>), UsingFor(<<"l">>, Path(<<"none">>), FALSE)}}

(* Two files, the second imported by the first *)
Shared ==
    Join(<<UsingFor(<<"free">>, U256, TRUE), Fn("free", <<Simple("a", U256), Returns(<<Simple("", U8)>>)>>, <<>>),
           Struct("s", <<Field("a", [elem |-> U256, size |-> [constant |-> "n"]]),
                         Field("m", [key |-> AddressType, mapped |-> Path(<<"e">>)])>>),
           Enum("e", <<"one">>), ValueType("u", U8),
           Constant("n", [op |-> "+", left |-> Num(1), right |-> [constant |-> "k"]]), Constant("k", Num(2)),
           Fn("two", <<Returns(<<Simple("", U8), Simple("", U256)>>)>>, <<>>)>>)
Importing(stmts) ==
    <<Join(<<Import(2),
             Contract("c", <<>>, <<State("q", Path(<<"s">>)), State("x", U256), Fn("f", <<>>, stmts)>>)>>), Shared>>
Across ==
    {Importing(<<Stmt(Dot(Name("q"))), Stmt(Dot(Member(Name("q"), "a"))),
                 Stmt(Index(Member(Name("q"), "m"), Name("x"))), Stmt(Dot(Name("e")))>>),
     Importing(<<Stmt(Member(Name("e"), "one")), Stmt(Dot(Name("u"))), Stmt(Dot(Meta(Name("c")))),
                 Stmt(Dot(Meta(Binary("compare", Name("x"), Whole(1)))))>>),
     Importing(<<Stmt(Call(Member(Name("x"), "free"), <<>>)), Stmt(Dot(Name("msg"))),
                 Calls(Name("require"), Binary("compare", Name("x"), Whole(1))),
                 Calls(Name("free"), Call(Name("two"), <<>>)), Calls(Name("uint8"), Name("x"))>>)}

One(set) == {<<t>> : t \in set}
MCPrograms == One(Clashes) \cup One(InTwo) \cup One(Bodies) \cup One(MethodBodies) \cup One(Overloaded)
              \cup One(OnLiterals) \cup {Hierarchy} \cup Attaching \cup Across
MCTrees == UNION {{p[f] : f \in DOMAIN p} : p \in MCPrograms}
=============================================================================
