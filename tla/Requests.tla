------------------------------- MODULE Requests -------------------------------
(***************************************************************************)
(* Requests at a node, over the map of definitions of the program: from    *)
(* Context::new to the resolver for the container, and completion of a     *)
(* name.  `Analysis` adds the answers that need types.                     *)
(*                                                                         *)
(* A request is made when the map is complete, and is answered before the  *)
(* next: the salsa queries it needs are computed on demand in one thread.  *)
(* The body of the function last asked about is kept.  A panic ends the    *)
(* server.  The cursor is at the start of a node, which is the smallest    *)
(* named node there.                                                       *)
(***************************************************************************)
EXTENDS Names

VARIABLES
    request,    \* [method, file, node], or NoRequest
    stage,      \* idle, building, ready, answered, failed or panicked
    answer      \* what the client is sent

requestVars == <<defVars, bodyVars, request, stage, answer>>

Methods == {"hover", "definition", "completion", "dot"}
NoRequest == [method |-> "none", file |-> 1, node |-> 0]
NoAnswer == [sites |-> <<>>, items |-> {}]

-----------------------------------------------------------------------------
(* Context::new: the containers a node is in *)

Ancestors(nodes, n) == {m \in 1 .. n - 1 : \A k \in m + 1 .. n : nodes[k].up >= m}
ItemsAround(f, n) == {m \in Ancestors(program[f], n) : program[f][m].kind \in Items}

(* enclosing_containers goes down to the first item that is no container. *)
Outermost(f, n) ==
    LET leaves == {m \in ItemsAround(f, n) : program[f][m].kind \notin Containers}
    IN IF leaves = {} THEN ItemsAround(f, n)
       ELSE {m \in ItemsAround(f, n) : m <= Min(leaves)}
ContainerNode(f, n) == IF Outermost(f, n) = {} THEN 0 ELSE Max(Outermost(f, n))
Identified(f, n) == Outermost(f, n) \subseteq DOMAIN astIds[f]

ContainerAt(f, n) ==
    LET m == ContainerNode(f, n)
    IN IF m = 0 THEN FileDef(f)
       ELSE [file |-> f, kind |-> DefKind(program[f][m].kind), id |-> astIds[f][m]]

HasBody(f, m) == m # 0 /\ program[f][m].kind \in Bodied

(* The request at hand *)
Cursor == request.node
Holder == ContainerAt(request.file, Cursor)
R == ResolverFor(Holder)
InBody == owner # None /\ ContainerNode(request.file, Cursor) = owner

-----------------------------------------------------------------------------
(* completion.rs *)

(* extract_receiver: the object of the member access whose property is      *)
(* missing below the node, or that the node or its parent is.               *)
IsAccess(n) == n # 0 /\ Kind(n) \in {"member", "incomplete"}
Gaps(n) == {m \in DOMAIN tree : Covers(n, m) /\ Kind(m) = "missing"}
AccessAt(n) ==
    CASE Gaps(n) # {} /\ IsAccess(Up(Min(Gaps(n)))) -> Up(Min(Gaps(n)))
      [] IsAccess(n) -> n
      [] IsAccess(Up(n)) -> Up(n)
      [] OTHER -> None

ItemOf(name, def) == [name |-> name, def |-> def]
Unowned == FileDef(0)

(* iterate_scope: the first definition of each name, inner scopes first *)
(* Mutant: a name is offered again for each scope that declares it. *)
ScopeItemsRepeated(start) ==
    UNION {{ItemOf(name, scopes[s].byName[name].defs[1]) : name \in DOMAIN scopes[s].byName} :
             s \in {start, scopes[start].parent} \ {NoScope}}

ScopeItems(start) ==
    LET outer == scopes[start].parent
        Own(s) == {ItemOf(name, scopes[s].byName[name].defs[1]) : name \in DOMAIN scopes[s].byName}
        Seen(name) == name \in DOMAIN scopes[start].byName
    IN Own(start) \cup IF outer = NoScope THEN {} ELSE {i \in Own(outer) : ~Seen(i.name)}

(* complete_expr: locals of every scope of the body, then the scopes around *)
(* the container; builtins and keywords are the same everywhere.            *)
LocalItems(n) ==
    IF ~InBody THEN {}
    ELSE {ItemOf(locals[l].name, Unowned) : l \in {k \in DOMAIN locals : locals[k].offset <= n}}
StartScope == IF defs[Holder].child # NoScope THEN defs[Holder].child ELSE defs[Holder].scope
ExprItems(n) == LocalItems(n) \cup ScopeItems(StartScope)

-----------------------------------------------------------------------------
(* Actions *)

RequestInit == DefInit /\ NoBody /\ request = NoRequest /\ stage = "idle" /\ answer = NoAnswer

Collect == ~Mapped /\ DefNext /\ UNCHANGED <<bodyVars, request, stage, answer>>

ForgetBody ==
    /\ owner' = None /\ at' = 0 /\ current' = NoBodyScope
    /\ bodyScopes' = <<>> /\ locals' = <<>> /\ exprScope' = Empty

(* Context::new panics if one of the containers has no id. *)
Enter(f, m) ==
    CASE HasBody(f, m) /\ (owner # m \/ request.file # f) -> BodyStart(m)
      [] ~HasBody(f, m) /\ request.file # f -> ForgetBody
      [] OTHER -> UNCHANGED bodyVars
Ask ==
    /\ Mapped /\ stage \in {"idle", "answered", "failed"}
    /\ \E f \in DOMAIN program : \E n \in DOMAIN program[f] :
        /\ \E method \in Methods : request' = [method |-> method, file |-> f, node |-> n]
        /\ stage' = IF Identified(f, n) THEN "building" ELSE "panicked"
        /\ tree' = program[f]
        /\ Enter(f, ContainerNode(f, n))
    /\ answer' = NoAnswer
    /\ UNCHANGED <<queue, visiting, lastChild, ids, parentMap, ptrId, itemVars, mapVars, collectVars>>

BuildBody ==
    /\ stage = "building" /\ BodyNext
    /\ UNCHANGED <<defVars, request, stage, answer>>

(* Resolver::build unwraps the container of the request. *)
BuildResolver ==
    /\ stage = "building" /\ (owner = None \/ BodyDone)
    /\ stage' = IF Holder \in DOMAIN defs THEN "ready" ELSE "panicked"
    /\ UNCHANGED <<defVars, bodyVars, request, answer>>

Answer(reply) ==
    /\ stage' = "answered" /\ answer' = reply
    /\ UNCHANGED <<defVars, bodyVars, request>>

(* A request that fails gets no answer at all. *)
Fail == stage' = "failed" /\ UNCHANGED <<defVars, bodyVars, request, answer>>

(* When invoked at a name, everything in scope is offered. *)
CompletesName == request.method = "completion" /\ AccessAt(Cursor) = None
CompleteName ==
    /\ stage = "ready" /\ CompletesName
    /\ Answer([sites |-> <<>>, items |-> ExprItems(Cursor)])

(* Any other request is answered in some way, or fails. *)
Reply ==
    /\ stage = "ready" /\ ~CompletesName
    /\ stage' \in {"answered", "failed"}
    /\ UNCHANGED <<defVars, bodyVars, request>>

RequestNext == Collect \/ Ask \/ BuildBody \/ BuildResolver \/ CompleteName \/ Reply

RequestSpec == RequestInit /\ [][RequestNext]_requestVars

-----------------------------------------------------------------------------
(* Properties *)

Answered(methods) == stage = "answered" /\ request.method \in methods

(* Which definitions of a program the map leaves out, by the text alone: an *)
(* item below something that is no item (a syntax error) or in a body of no *)
(* container, an enum in a container, a container in a container with all   *)
(* that is in it, a value type without an underlying type, and a definition *)
(* whose name was taken by one it cannot overload.                          *)
Misplaced(f, m) == \E k \in Ancestors(program[f], m) : program[f][k].kind \notin Items \cup {"body"}
InnerContainer(f, m) == program[f][m].kind \in Containers /\ program[f][m].up # 0
LooseBody(f, m) == program[f][m].kind = "body" /\ program[f][m].up = 0
Omitted(f, m) ==
    \/ Misplaced(f, m)
    \/ \E k \in Ancestors(program[f], m) \cup {m} : InnerContainer(f, k) \/ LooseBody(f, k)
    \/ program[f][m].kind = "enum" /\ program[f][m].up # 0
    \/ program[f][m].kind = "udvt" /\ "type" \notin DOMAIN program[f][m]
Nameless == {"import", "using"}
NamespaceOf(f, m) == Namespace([kind |-> DefKind(program[f][m].kind)])
Rivals(f, m) ==
    {k \in 1 .. m - 1 : /\ program[f][k].up = program[f][m].up
                        /\ program[f][k].name = program[f][m].name
                        /\ program[f][k].kind \in Items \ Nameless /\ ~Omitted(f, k)}
Taken(f, m) ==
    /\ program[f][m].kind \notin Nameless /\ Rivals(f, m) # {}
    /\ \/ NamespaceOf(f, Min(Rivals(f, m))) # NamespaceOf(f, m)
       \/ NamespaceOf(f, m) \in {"type", "variable"}

(* A request panics just when the cursor is in a definition that is left    *)
(* out: each that is in the text otherwise can be asked about               *)
(* (resolver.rs:182, db.rs:33).                                             *)
BuildPanicsNarrow ==
    stage \in {"ready", "answered", "failed", "panicked"} =>
        LET f == request.file
            n == ContainerNode(f, Cursor)
        IN stage = "panicked" <=>
              \/ \E m \in Outermost(f, Cursor) : Misplaced(f, m)
              \/ n # 0 /\ (Omitted(f, n) \/ Taken(f, n))

(* What completion offers from the scopes around the cursor is what the     *)
(* name means there, so that no definition is offered that another hides -  *)
(* but for one hidden by a builtin, `this` and `super` among them, or by a  *)
(* member of a base, which completion does not look at (completion.rs:337). *)
Here == IF defs[Holder].child # NoScope THEN [file |-> Holder.file, container |-> Holder] ELSE R
Hidden(i) ==
    \/ IsPrimitiveName(i.name) \/ GlobalMeaning(i.name) # Nothing
    \/ /\ Here.container.kind \in WithBases /\ defs[i.def].scope # defs[Here.container].child
       /\ i.name \in {"this", "super"} \/ InBases(Here.container, i.name) # Nothing
MeansDef(res, def) ==
    \/ Has(res, "typ") /\ res.typ = DefType(def)
    \/ Has(res, "var") /\ res.var = def
    \/ Has(res, "callables") /\ \E k \in DOMAIN res.callables : res.callables[k] = DefCallable(def, 0)
OfferedIsMeant ==
    (Answered({"completion"}) /\ AccessAt(Cursor) = None /\ Here.container \in DOMAIN defs) =>
        \A i \in answer.items :
            i.def = Unowned \/ Hidden(i)
            \/ MeansDef(ResolveName(Here, i.name, NoBodyScope, 0), i.def)
=============================================================================
