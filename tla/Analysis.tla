------------------------------- MODULE Analysis -------------------------------
(***************************************************************************)
(* Hover, definition and completion after a dot (src/capabilities): the    *)
(* answers to the requests of `Requests` that need types.                  *)
(***************************************************************************)
EXTENDS Inference, Requests

-----------------------------------------------------------------------------
(* range_to_semantic of the container: what the node at the cursor stands   *)
(* for, as the node of an expression, a path or a declaration.              *)

DeclarationKinds == {"parameter", "variable", "field", "variant"}
Declares(n) == /\ Kind(n) \in DeclarationKinds
               /\ IF InBody THEN \E l \in DOMAIN locals : locals[l].node = n
                  ELSE Kind(n) = "variant" \/ "type" \in DOMAIN tree[n]
Expression(n) ==
    LET e == SemanticExpr(n)
    IN IF Holder.kind = "file" \/ (InBody /\ e \notin DOMAIN exprScope) THEN None ELSE e

(* The names up to the segment of a path *)
Segments(n) ==
    CASE Kind(n) = "path" -> tree[n].path
      [] Kind(n) = "segment" -> SubSeq(tree[Up(n)].path, 1, n - Up(n))
      [] OTHER -> <<>>

Resolved(n) ==
    CASE Expression(n) # None -> ResolveExpr(R, Expression(n))
      [] Holder.kind # "file" /\ Segments(n) # <<>> -> ResolvePath(R, Segments(n))
      [] OTHER -> Nothing

Site(f, n) == [file |-> f, node |-> n]
SiteOf(def) == Site(def.file, TheNode(def))
SitesOf(callables) ==
    LET known == SelectSeq(callables, LAMBDA c : Has(c, "def"))
    IN [k \in DOMAIN known |-> SiteOf(known[k].def)]
SiteOfType(t) == IF Has(t, "def") THEN <<SiteOf(t.def)>> ELSE <<>>

-----------------------------------------------------------------------------
(* definition.rs: resolution_targets and resolve_semantic *)

Targets(res) ==
    CASE Has(res, "local") -> <<Site(request.file, locals[res.local].node)>>
      [] Has(res, "var") -> <<SiteOf(res.var)>>
      [] Has(res, "importedFile") -> <<Site(res.importedFile, 0)>>
      [] Has(res, "callables") -> SitesOf(res.callables)
      [] Has(res, "called") -> SitesOf(<<res.called>>)
      [] Has(res, "typ") -> SiteOfType(res.typ)
      [] Has(res, "meta") -> SiteOfType(res.meta)
      [] Has(res, "tk") -> SiteOfType(res.tk.typ)
      [] Has(res, "field") -> <<Site(res.owner.file, res.field)>>
      [] Has(res, "variant") -> <<Site(res.enum.file, res.variant)>>
      [] Has(res, "super") -> LET bases == Tail(Bases(res.super))
                              IN IF bases = <<>> THEN <<>> ELSE <<SiteOf(bases[1])>>
      [] OTHER -> <<>>

DefinitionAt(n) == IF Declares(n) THEN <<Site(request.file, n)>> ELSE Targets(Resolved(n))

-----------------------------------------------------------------------------
(* hover.rs: hover_semantic and hover_resolution, as the declarations shown *)
(* or linked; nothing at all falls back to the container.                   *)

(* Mutant: of overloads the first is shown. *)
FirstOverload(callables) == SitesOf(SubSeq(callables, 1, 1))

(* hover_callable of each overload *)
Overloads(callables) == SitesOf(callables)

Shown(res) ==
    CASE Has(res, "local") -> <<Site(request.file, locals[res.local].node)>>
      [] Has(res, "var") -> <<SiteOf(res.var)>>
      [] Has(res, "importedFile") -> <<Site(res.importedFile, 0)>>
      [] Has(res, "callables") -> Overloads(res.callables)
      [] Has(res, "called") -> SitesOf(<<res.called>>)
      [] Has(res, "typ") -> SiteOfType(res.typ)
      [] Has(res, "tk") -> SiteOfType(res.tk.typ)
      [] Has(res, "field") -> <<Site(res.owner.file, res.field)>>
      [] Has(res, "variant") -> <<Site(res.enum.file, res.variant)>>
      [] Has(res, "super") -> <<SiteOf(res.super)>>
      [] OTHER -> <<>>

(* A number that is no integer has no type to show. *)
Untyped(res) == Has(res, "tk") /\ IsLiteral(res.tk.typ) /\ InferredType(res.tk.typ) = Unsized
IsLiteralAt(n) == Expression(n) # None /\ Kind(Expression(n)) = "literal"
Finds(n, res) == Declares(n) \/ IsLiteralAt(n) \/ (res # Nothing /\ ~Untyped(res))

(* With nothing at the cursor the container is shown; an import or a using  *)
(* has nothing to show.                                                     *)
HoverSites(n, res) ==
    CASE Declares(n) -> <<Site(request.file, n)>>
      [] Finds(n, res) /\ ~Declares(n) -> Shown(res)
      [] ~Finds(n, res) /\ Holder.kind = "file" -> <<>>
      [] OTHER -> <<SiteOf(Holder)>>
HoverFails(n, res) == ~Finds(n, res) /\ Holder.kind \in {"import", "using"}

-----------------------------------------------------------------------------
(* completion.rs *)

(* infer_receiver: known in a body only *)
Receiver(n) ==
    LET object == Part(AccessAt(n), 1)
    IN IF InBody /\ Expression(object) # None THEN ResolveExpr(R, Expression(object)) ELSE Nothing

(* completion_item_for_resolution: a type or variable gives no item, nor    *)
(* does an event or an error.                                               *)
CallableItem(c) ==
    CASE Has(c, "builtin") -> {ItemOf(c.builtin, Unowned)}
      [] c.def.kind \in {"function", "modifier"} -> {ItemOf(defs[c.def].name[1], c.def)}
      [] OTHER -> {}
MemberItem(res) ==
    CASE Has(res, "callables") -> CallableItem(res.callables[1])
      [] Has(res, "field") -> {ItemOf(NodeIn(res.owner, res.field).name, res.owner)}
      [] Has(res, "builtin") -> {ItemOf(res.builtin, Unowned)}
      [] Has(res, "variant") -> {ItemOf(NodeIn(res.enum, res.variant).name, res.enum)}
      [] OTHER -> {}
MemberItems(receiver) ==
    IF receiver = Nothing THEN {} ELSE UNION {MemberItem(m) : m \in Members(R, receiver)}
DotItems(n) == MemberItems(Receiver(n))

-----------------------------------------------------------------------------
(* Actions *)

(* Mutant: a container with nothing to show is unwrapped. *)
HoverReplyUnwrapped(res) ==
    IF HoverFails(Cursor, res) THEN stage' = "panicked" /\ UNCHANGED <<defVars, bodyVars, request, answer>>
    ELSE Answer([sites |-> HoverSites(Cursor, res), items |-> {}])

HoverReply(res) ==
    IF HoverFails(Cursor, res) THEN Fail
    ELSE Answer([sites |-> HoverSites(Cursor, res), items |-> {}])

Hover ==
    /\ stage = "ready" /\ request.method = "hover"
    /\ HoverReply(Resolved(Cursor))

Definition ==
    /\ stage = "ready" /\ request.method = "definition"
    /\ Answer([sites |-> DefinitionAt(Cursor), items |-> {}])

(* After a dot there must be a receiver. *)
CompleteMember ==
    /\ stage = "ready" /\ request.method \in {"completion", "dot"} /\ ~CompletesName
    /\ IF AccessAt(Cursor) # None THEN Answer([sites |-> <<>>, items |-> DotItems(Cursor)])
       ELSE Fail

AnalysisNext == \/ Collect \/ Ask \/ BuildBody \/ BuildResolver
                \/ Hover \/ Definition \/ CompleteName \/ CompleteMember

AnalysisSpec == RequestInit /\ [][AnalysisNext]_requestVars

-----------------------------------------------------------------------------
(* Properties *)

(* A call whose arguments have types means the overload they convert to at  *)
(* the least cost, the first of those that cost the same, and nothing just  *)
(* when they convert to the parameters of none (resolver.rs:813).           *)
Cheapest(callables, cost, meant) ==
    LET fit == {k \in DOMAIN callables : cost[k] # NoCost}
    IN IF fit = {} THEN meant = Nothing
       ELSE \E k \in fit : /\ meant = [called |-> callables[k]]
                           /\ \A j \in fit : cost[k] <= cost[j] /\ (cost[k] = cost[j] => k <= j)
CostsLeast(callee, args, meant) ==
    (Has(callee, "callables") /\ NoKey \notin ToSet(args)) =>
        Cheapest(callee.callables,
                 [k \in DOMAIN callee.callables |->
                    CallCost(Candidates(callee.callables)[k], args, Inherits)],
                 meant)
CallCheapest(n) ==
    (n # None /\ Kind(n) \in CallKinds) =>
        CostsLeast(ResolveExpr(R, ExprOf[Part(n, 1)]),
                   [k \in DOMAIN Args(n) |-> Infer(R, ResolveExpr(R, ExprOf[Args(n)[k]]))],
                   ResolveExpr(R, n))
OverloadCheapest == (stage = "ready" /\ InBody) => CallCheapest(Expression(Cursor))

(* Whatever is offered after a dot resolves once it is written there: the   *)
(* members that are listed are those that are looked up.  Only the         *)
(* functions attached to a type are offered on the name of the type too,    *)
(* where they are not found (resolver.rs:609), and nothing is looked up in  *)
(* a file.                                                                  *)
AttachedNames == {u.name : u \in ToSet(UsingIndex(R.container))}
ItemsResolve(receiver) ==
    \/ Has(receiver, "importedFile")
    \/ \A i \in answer.items :
          \/ InResolution(R, receiver, i.name) # Nothing
          \/ Has(receiver, "typ") /\ i.name \in AttachedNames
DotItemsResolve ==
    (Answered({"completion", "dot"}) /\ AccessAt(Cursor) # None) => ItemsResolve(Receiver(Cursor))

(* Hover shows the declarations that go-to-definition goes to.  (Of super,  *)
(* the one shows the contract and the other goes to its base; of type(T),   *)
(* the one shows nothing of T.)                                             *)
SameSites(n, res) ==
    \/ ~Finds(n, res) \/ Has(res, "super") \/ Has(res, "meta")
    \/ answer.sites = DefinitionAt(n)
HoverAgrees == Answered({"hover"}) => SameSites(Cursor, Resolved(Cursor))
=============================================================================
