------------------------------ MODULE BodyScopes ------------------------------
(***************************************************************************)
(* The scopes and locals of a function or modifier: BodyBuilder of         *)
(* hir/body_map.rs and lower_expr of hir/exprs.rs.                         *)
(*                                                                         *)
(* The recursion over the syntax tree is a cursor that goes through it in  *)
(* document order and passes over what the code does not descend into.     *)
(* The parameters, which the code collects first, come first in the text.  *)
(* An expression is the node it was made for.  Wrapper nodes with a single *)
(* child and the same range, which hand the expression of the child up,    *)
(* are left out of the trees.                                              *)
(***************************************************************************)
EXTENDS AstIds, SequencesExt

ScopeKinds == {"block", "for", "try"}
Bodied == Functions \cup {"modifier"}

(* What tree-sitter gives below a function or modifier o: where parameters,  *)
(* declarations and statements are, which may be below an ERROR among the    *)
(* statements of a block.                                                    *)
Blocks == ScopeKinds \cup {"fnbody", "statement", "clause"}
Within(t, o, n) == o < n /\ \A k \in o + 1 .. n : t[k].up >= o
ParentKind(t, n) == t[t[n].up].kind
InStatements(t, n) ==
    \/ ParentKind(t, n) \in Blocks
    \/ ParentKind(t, n) = "ERROR" /\ ParentKind(t, t[n].up) \in Blocks
BodyNode(t, o, n) ==
    /\ t[n].kind = "variable" => ParentKind(t, n) \in {"declaration", "tuple"}
    /\ t[n].kind = "tuple" => ParentKind(t, n) = "declaration"
    /\ t[n].kind = "parameter" => t[n].up = o \/ ParentKind(t, n) = "returns" \/ InStatements(t, n)
    /\ t[n].kind \in {"returns", "fnbody"} => t[n].up = o
    /\ t[n].kind \in ScopeKinds \cup {"declaration", "statement", "clause"} => InStatements(t, n)
ASSUME BodyAssumption ==
    \A t \in Trees : \A o \in DOMAIN t : t[o].kind \in Bodied =>
        \A n \in DOMAIN t : Within(t, o, n) => BodyNode(t, o, n)

VARIABLES
    owner,      \* the function or modifier whose body is built, or None
    at,         \* the cursor
    current,    \* BodyBuilder::current_scope
    bodyScopes, \* [parent, node, byName]
    locals,     \* [name, node, offset]
    exprScope   \* BodySourceMap::expr_scopes

bodyVars == <<owner, at, current, bodyScopes, locals, exprScope>>

NoBodyScope == 0
RootScope == 1

(* Ranges: node n covers the positions n .. End(n) - 1. *)
End(n) == Min({m \in n + 1 .. Len(tree) : Up(m) < n} \cup {Len(tree) + 1})
Covers(n, m) == n <= m /\ m < End(n)
ChildrenOf(n) == SetToSortSeq(Child(n), <)
Kind(n) == tree[n].kind

-----------------------------------------------------------------------------
(* lower_expr: which nodes of an expression become an expression *)

CallKinds == {"call", "emit", "revert", "invocation", "typecast"}
LeafKinds == {"name", "literal", "source"}

Part(n, k) == ChildrenOf(n)[k]
Parts(n) == Cardinality(Child(n))

(* The expression that stands for a node, or None: a member access needs   *)
(* its object and its property, an incomplete one is its object, and a     *)
(* node of another kind hands up the expression of a single child.         *)
ExprOf[n \in Nat] ==
    LET first == IF Parts(n) = 0 THEN None ELSE ExprOf[Part(n, 1)]
        second == IF Parts(n) < 2 THEN None ELSE ExprOf[Part(n, 2)]
    IN CASE Kind(n) \in LeafKinds -> n
         [] Kind(n) \in CallKinds \cup {"metatype", "access"} -> IF first = None THEN None ELSE n
         [] Kind(n) = "member" ->
              IF first = None \/ ~\E p \in Child(n) : Kind(p) = "property" THEN None ELSE n
         [] Kind(n) = "binary" -> IF first = None \/ second = None THEN None ELSE n
         [] Kind(n) = "incomplete" -> first
         [] OTHER -> IF Parts(n) = 1 THEN first ELSE None

Property(n) == CHOOSE p \in Child(n) : Kind(p) = "property"

(* call_identifier: the range under which a call is found as well *)
CallIdentifier(callee) ==
    CASE Kind(callee) = "name" -> {callee}
      [] Kind(callee) = "member" -> {p \in Child(callee) : Kind(p) = "property"}
      [] OTHER -> {}

Args(n) == SelectSeq(Tail(ChildrenOf(n)), LAMBDA a : ExprOf[a] # None)

(* range_to_semantic for expressions: what was entered last stays, so that  *)
(* the identifier of a call means the call, and a property its member       *)
(* access if it is not called.                                              *)
SemanticExpr(n) ==
    LET calls == {c \in DOMAIN tree : /\ Kind(c) \in CallKinds /\ Parts(c) > 0
                                      /\ n \in CallIdentifier(Part(c, 1))
                                      /\ ExprOf[c] = c}
        member == IF n \in DOMAIN tree /\ Kind(n) = "property" THEN {Up(n)} ELSE {}
    IN IF calls # {} THEN Min(calls)
       ELSE IF member # {} THEN ExprOf[Up(n)]
       ELSE IF ExprOf[n] = n THEN n ELSE None

ExprNodes(n) == {m \in DOMAIN tree : Covers(n, m) /\ ExprOf[m] = m}

-----------------------------------------------------------------------------
(* BodyBuilder::build *)

BodyStart(n) ==
    /\ owner' = n /\ at' = n + 1 /\ current' = RootScope
    /\ bodyScopes' = <<[parent |-> NoBodyScope, node |-> n, byName |-> Empty]>>
    /\ locals' = <<>> /\ exprScope' = Empty

NoBody == /\ owner = None /\ at = 0 /\ current = NoBodyScope
          /\ bodyScopes = <<>> /\ locals = <<>> /\ exprScope = Empty

Walking == owner # None /\ at < End(owner)
ScopeEnds == current # RootScope /\ at >= End(bodyScopes[current].node)
AtNode == Walking /\ ~ScopeEnds

BodyDone == owner # None /\ at >= End(owner) /\ ~ScopeEnds

(* Where the cursor is: among what collect_parameters looks at, among what  *)
(* collect_declaration looks at, or in walk_block.                          *)
InSignature == Up(at) = owner \/ Kind(Up(at)) = "returns"
InDeclaration == Kind(Up(at)) \in {"declaration", "tuple"}
InBlock == ~InSignature /\ ~InDeclaration

ExprKinds == LeafKinds \cup CallKinds \cup {"member", "incomplete", "access", "binary",
                                            "metatype", "expression"}

IsLocal == \/ Kind(at) = "parameter"
           \/ InDeclaration /\ Kind(at) = "variable"
IsExpr == \/ InSignature /\ Kind(at) \in {"name", "invocation"}
          \/ ~InSignature /\ Kind(at) \in ExprKinds
IsScope == InBlock /\ Kind(at) \in ScopeKinds
IsEntered == \/ InSignature /\ Kind(at) \in {"returns", "fnbody"}
             \/ InDeclaration /\ Kind(at) = "tuple"
             \/ InBlock /\ ~IsLocal /\ ~IsExpr /\ ~IsScope

(* add_local: nothing without a name or a type.  A second local of the same *)
(* name in the scope takes the name.                                        *)
Named(n) == tree[n].name # "" /\ "type" \in DOMAIN tree[n]

Offset(n) == IF Kind(n) = "parameter" THEN n ELSE End(n)

AddLocal ==
    /\ AtNode /\ IsLocal
    /\ IF Named(at)
       THEN /\ locals' = Append(locals, [name |-> tree[at].name, node |-> at,
                                         offset |-> Offset(at)])
            /\ bodyScopes' = [bodyScopes EXCEPT
                                ![current].byName = Put(@, tree[at].name, Len(locals) + 1)]
       ELSE UNCHANGED <<locals, bodyScopes>>
    /\ at' = End(at)
    /\ UNCHANGED <<owner, current, exprScope>>

LowerExpr ==
    /\ AtNode /\ IsExpr
    /\ exprScope' = [n \in DOMAIN exprScope \cup ExprNodes(at) |->
                       IF n \in DOMAIN exprScope THEN exprScope[n] ELSE current]
    /\ at' = End(at)
    /\ UNCHANGED <<owner, current, bodyScopes, locals>>

PushScope ==
    /\ AtNode /\ IsScope
    /\ bodyScopes' = Append(bodyScopes, [parent |-> current, node |-> at, byName |-> Empty])
    /\ current' = Len(bodyScopes) + 1
    /\ at' = at + 1
    /\ UNCHANGED <<owner, locals, exprScope>>

(* Mutant: leaving a block goes back to the scope of the whole body. *)
EnclosingRoot == RootScope

Enclosing == bodyScopes[current].parent

PopScope ==
    /\ owner # None /\ ScopeEnds
    /\ current' = Enclosing
    /\ UNCHANGED <<owner, at, bodyScopes, locals, exprScope>>

(* Statements, errors and the clauses of a try are descended into. *)
Descend ==
    /\ AtNode /\ IsEntered
    /\ at' = at + 1
    /\ UNCHANGED <<owner, current, bodyScopes, locals, exprScope>>

PassBy ==
    /\ AtNode /\ ~IsLocal /\ ~IsExpr /\ ~IsScope /\ ~IsEntered
    /\ at' = End(at)
    /\ UNCHANGED <<owner, current, bodyScopes, locals, exprScope>>

BodyNext == AddLocal \/ LowerExpr \/ PushScope \/ PopScope \/ Descend \/ PassBy

-----------------------------------------------------------------------------
(* Resolver::resolve_local: outwards from the scope of the use, past a      *)
(* local that is declared later.  Scopes are numbered as they are entered:  *)
(* those around a scope come before it, and those in between are inside of  *)
(* them.                                                                    *)
ScopesAround(scope) ==
    {s \in 1 .. scope : \A k \in s + 1 .. scope : bodyScopes[k].parent >= s}
Offers(s, name, offset) ==
    LET byName == bodyScopes[s].byName
    IN name \in DOMAIN byName /\ locals[byName[name]].offset <= offset
LocalFrom(name, scope, offset) ==
    LET found == {s \in ScopesAround(scope) : Offers(s, name, offset)}
    IN IF found = {} THEN None ELSE bodyScopes[Max(found)].byName[name]

-----------------------------------------------------------------------------
(* Properties *)

(* The declarations a use of a name can mean, by the text alone: those of a *)
(* scope around it that precede it.                                         *)
Declared(n) == Covers(owner, n) /\ Kind(n) \in {"parameter", "variable"} /\ Named(n)
ScopeOf(n) ==
    Max({owner} \cup {m \in DOMAIN tree : owner < m /\ m < n /\ Kind(m) \in ScopeKinds /\ Covers(m, n)})
Visible(d, n) ==
    Declared(d) /\ tree[d].name = tree[n].name /\ Covers(ScopeOf(d), n) /\ d < n /\ ~Covers(d, n)

OncePerScope ==
    \A d, e \in DOMAIN tree :
        (Declared(d) /\ Declared(e) /\ tree[d].name = tree[e].name /\ ScopeOf(d) = ScopeOf(e))
            => d = e

(* A name means the local declared before it in the innermost scope around  *)
(* it, and none if there is no such declaration - in every body no scope of *)
(* which declares a name twice.  (The parameters of all clauses of a try    *)
(* are in one scope, and those of the function in that of its body.)        *)
LocalsLexical ==
    (BodyDone /\ OncePerScope) =>
        \A n \in DOMAIN exprScope : Kind(n) = "name" =>
            LET l == LocalFrom(tree[n].name, exprScope[n], n)
                seen == {d \in DOMAIN tree : Visible(d, n)}
            IN IF l = None THEN seen = {}
               ELSE /\ locals[l].node \in seen
                    /\ \A d \in seen : ScopeOf(d) <= ScopeOf(locals[l].node)
=============================================================================
