----------------------------- MODULE DefCollector -----------------------------
(***************************************************************************)
(* The map of definitions of a source root: the item tree of each file     *)
(* (ir/item_tree.rs and HasMembers of ast/ast_nodes.rs), FileCollector and *)
(* Collector of ir/def_map.rs, after the ids of its nodes (AstIds).        *)
(*                                                                         *)
(* Imports are of whole files that come later in the program, so that      *)
(* resolving them in post-order is what any order gives; the order, cycles *)
(* and the other forms of an import are the subject of ImportResolver.     *)
(* The source root is one: all files belong to it.                         *)
(***************************************************************************)
EXTENDS AstIds, SequencesExt

CONSTANT
    Programs    \* the sequences of syntax trees the files of the root may have

ASSUME ProgramsAssumption ==
    \A p \in Programs : p \in Seq(Trees) /\ p # <<>>

VARIABLES
    program,    \* the syntax trees of the files
    file,       \* the file being collected
    cursor,     \* the next node to lower into the item tree
    topLevel,   \* ItemTree::top_level
    data,       \* ItemTree::data: id -> [kind, name, members]
    begun,      \* whether collect_file was called for the file
    todo,       \* the items of collect_top still to collect
    members,    \* the items of collect_members still to collect
    inner,      \* the scope those go to
    scopes,     \* [owner, parent, byName, usings]
    defs,       \* DefId -> [name, scope, child]
    files,      \* file -> [scope, imported]
    unresolved, \* file -> the files it imports and whose scopes it has not yet
    astIds      \* the ids of the nodes of the files collected so far

itemVars == <<cursor, topLevel, data>>
mapVars == <<scopes, defs, files, unresolved>>
collectVars == <<program, file, begun, todo, members, inner, astIds>>
defVars == <<idVars, itemVars, mapVars, collectVars>>

NoScope == 0
NoId == [id |-> None, parent |-> None]

(* DefId and ItemId: the three kinds of functions are all functions. *)
DefKind(kind) == IF kind \in Functions THEN "function" ELSE kind
FileDef(f) == [file |-> f, kind |-> "file", id |-> NoId]
DefOf(f, item) == [file |-> f, kind |-> item.kind, id |-> item.id]
ItemId(n) == [kind |-> DefKind(tree[n].kind), id |-> ids[n]]

Namespace(def) ==
    CASE def.kind \in {"function", "modifier"} -> "function"
      [] def.kind \in {"event", "error"} -> def.kind
      [] def.kind = "var" -> "variable"
      [] OTHER -> "type"

NoOverloads == {"type", "variable"}

DefInit ==
    /\ program \in Programs /\ IdsStart(program[1])
    /\ file = 1 /\ cursor = 1 /\ topLevel = <<>> /\ data = Empty
    /\ begun = FALSE /\ todo = <<>> /\ members = <<>> /\ inner = NoScope
    /\ scopes = <<>> /\ defs = Empty /\ files = <<>>
    /\ unresolved = [f \in DOMAIN program |-> <<>>] /\ astIds = <<>>

MakeIds == (Visit \/ Enqueue \/ Leave) /\ UNCHANGED <<itemVars, mapVars, collectVars>>

-----------------------------------------------------------------------------
(* Lowerer: one item at a time, a container before its members             *)

(* HasMembers: what it finds in the body of a container, no enum among it. *)
(* Mutant: modifiers are not looked for. *)
MemberKindsFew == Items \ (Containers \cup {"import", "enum", "modifier"})

MemberKinds == Items \ (Containers \cup {"import", "enum"})
ContainerOf(n) == IF Up(n) # 0 /\ tree[Up(n)].kind = "body" THEN Up(Up(n)) ELSE 0

AtTop(n) == Up(n) = 0 /\ tree[n].kind \in Items
InContainer(n) ==
    /\ tree[n].kind \in MemberKinds /\ ContainerOf(n) # 0
    /\ Up(ContainerOf(n)) = 0 /\ tree[ContainerOf(n)].kind \in Containers

(* An item without an id, or a value type without an underlying type, is   *)
(* passed over.                                                            *)
Keeps(n) == n \in DOMAIN ids /\ (tree[n].kind = "udvt" => "type" \in DOMAIN tree[n])

Lowering == IdsDone /\ cursor \in DOMAIN tree
Datum(n) == [kind |-> DefKind(tree[n].kind), name |-> tree[n].name, members |-> <<>>]

LowerTop ==
    /\ Lowering /\ AtTop(cursor) /\ Keeps(cursor)
    /\ data' = Put(data, ids[cursor], Datum(cursor))
    /\ topLevel' = Append(topLevel, ItemId(cursor))
    /\ cursor' = cursor + 1
    /\ UNCHANGED <<idVars, mapVars, collectVars>>

LowerMember ==
    /\ Lowering /\ InContainer(cursor) /\ Keeps(cursor)
    /\ LET container == ids[ContainerOf(cursor)]
       IN data' = [Put(data, ids[cursor], Datum(cursor)) EXCEPT
                     ![container].members = Append(@, ItemId(cursor))]
    /\ cursor' = cursor + 1
    /\ UNCHANGED <<topLevel, idVars, mapVars, collectVars>>

PassOver ==
    /\ Lowering /\ ~(Keeps(cursor) /\ (AtTop(cursor) \/ InContainer(cursor)))
    /\ cursor' = cursor + 1
    /\ UNCHANGED <<topLevel, data, idVars, mapVars, collectVars>>

-----------------------------------------------------------------------------
(* FileCollector *)

NewScope(owner, parent) ==
    [owner |-> owner, parent |-> parent, byName |-> Empty, usings |-> <<>>]
FileScope == files[file].scope

CollectFile ==
    /\ IdsDone /\ cursor \notin DOMAIN tree /\ ~begun
    /\ LET scope == Len(scopes) + 1
       IN /\ scopes' = Append(scopes, NewScope(FileDef(file), NoScope))
          /\ files' = Append(files, [scope |-> scope, imported |-> <<>>])
          /\ defs' = Put(defs, FileDef(file), [name |-> <<>>, scope |-> scope, child |-> scope])
    /\ begun' = TRUE /\ todo' = topLevel
    /\ UNCHANGED <<idVars, itemVars, unresolved, program, file, members, inner, astIds>>

(* The item at hand: of a container if one is open, or else of the file. *)
Collecting == begun /\ (members # <<>> \/ todo # <<>>)
Inside == members # <<>>
Item == IF Inside THEN Head(members) ELSE Head(todo)
Def == DefOf(file, Item)
Into == IF Inside THEN inner ELSE FileScope
Consume == /\ members' = IF Inside THEN Tail(members) ELSE members
           /\ todo' = IF Inside THEN todo ELSE Tail(todo)

(* collect_def keeps the first definition of a name, and then those of its *)
(* namespace if that has overloads.                                        *)
Fits(byName, name, def) ==
    name \in DOMAIN byName => /\ byName[name].namespace = Namespace(def)
                              /\ Namespace(def) \notin NoOverloads

Entered(byName, name, def) ==
    IF ~Fits(byName, name, def) THEN byName
    ELSE Put(byName, name,
             [namespace |-> Namespace(def),
              defs |-> IF name \in DOMAIN byName THEN Append(byName[name].defs, def)
                       ELSE <<def>>])

(* Mutant: the definition is kept whether its name is taken or not. *)
CollectDefAlways(def, scope, child, name) ==
    defs' = Put(defs, def, [name |-> <<name>>, scope |-> scope, child |-> child])

CollectDef(def, scope, child, name) ==
    defs' = IF Fits(scopes[scope].byName, name, def)
            THEN Put(defs, def, [name |-> <<name>>, scope |-> scope, child |-> child])
            ELSE defs

(* Nothing but what collect_top and collect_members name is left. *)
CollectSimple ==
    /\ Collecting /\ Item.kind \notin Containers \cup {"import", "using"}
    /\ LET name == data[Item.id].name
       IN /\ CollectDef(Def, Into, NoScope, name)
          /\ scopes' = [scopes EXCEPT ![Into].byName = Entered(@, name, Def)]
    /\ Consume
    /\ UNCHANGED <<idVars, itemVars, files, unresolved, program, file, begun, inner, astIds>>

CollectUsing ==
    /\ Collecting /\ Item.kind = "using"
    /\ defs' = Put(defs, Def, [name |-> <<>>, scope |-> Into, child |-> NoScope])
    /\ scopes' = [scopes EXCEPT ![Into].usings = Append(@, Def)]
    /\ Consume
    /\ UNCHANGED <<idVars, itemVars, files, unresolved, program, file, begun, inner, astIds>>

NodeOf(item) == CHOOSE n \in DOMAIN ids : ids[n] = item.id

CollectImport ==
    /\ Collecting /\ ~Inside /\ Item.kind = "import"
    /\ defs' = Put(defs, Def, [name |-> <<>>, scope |-> FileScope, child |-> NoScope])
    /\ unresolved' = [unresolved EXCEPT ![file] = Append(@, tree[NodeOf(Item)].imports)]
    /\ Consume
    /\ UNCHANGED <<idVars, itemVars, scopes, files, program, file, begun, inner, astIds>>

(* The scope of a container is made, and its members are collected, even    *)
(* if the name of the container is taken.                                   *)
CollectContainer ==
    /\ Collecting /\ ~Inside /\ Item.kind \in Containers
    /\ LET name == data[Item.id].name
           sub == Len(scopes) + 1
       IN /\ CollectDef(Def, FileScope, sub, name)
          /\ scopes' = Append([scopes EXCEPT ![FileScope].byName = Entered(@, name, Def)],
                              NewScope(Def, FileScope))
          /\ inner' = sub
    /\ todo' = Tail(todo) /\ members' = data[Item.id].members
    /\ UNCHANGED <<idVars, itemVars, files, unresolved, program, file, begun, astIds>>

NextFile ==
    /\ begun /\ ~Collecting /\ file \in DOMAIN program
    /\ file' = file + 1 /\ astIds' = Append(astIds, ids)
    /\ IF file < Len(program)
       THEN /\ IdsBegin(program[file + 1])
            /\ cursor' = 1 /\ topLevel' = <<>> /\ data' = Empty /\ begun' = FALSE
       ELSE UNCHANGED <<idVars, itemVars, begun>>
    /\ UNCHANGED <<program, todo, members, inner, mapVars>>

-----------------------------------------------------------------------------
(* resolve_imports: extend_scope and extend_global_usings *)

AllCollected == file > Len(program)
Pending == {f \in DOMAIN program : unresolved[f] # <<>>}

PushUnique(list, x) == IF \E k \in DOMAIN list : list[k] = x THEN list ELSE Append(list, x)
PushAll(list, more) == FoldLeft(PushUnique, list, more)

TheNode(def) == CHOOSE n \in DOMAIN astIds[def.file] : astIds[def.file][n] = def.id
NodeAt(def) == program[def.file][TheNode(def)]
GlobalUsings(scope) == SelectSeq(scopes[scope].usings, LAMBDA using : NodeAt(using).global)

ResolveImport ==
    /\ AllCollected
    /\ \E f \in Pending :
        /\ \A g \in Pending : g <= f
        /\ LET dep == files[Head(unresolved[f])]
           IN /\ files' = [files EXCEPT ![f].imported =
                             PushAll(PushUnique(@, dep.scope), dep.imported)]
              /\ scopes' = [scopes EXCEPT ![files[f].scope].usings =
                              PushAll(@, GlobalUsings(dep.scope))]
        /\ unresolved' = [unresolved EXCEPT ![f] = Tail(@)]
    /\ UNCHANGED <<idVars, itemVars, defs, collectVars>>

Mapped == AllCollected /\ Pending = {}

DefNext ==
    \/ MakeIds \/ LowerTop \/ LowerMember \/ PassOver
    \/ CollectFile \/ CollectSimple \/ CollectUsing \/ CollectImport \/ CollectContainer
    \/ NextFile \/ ResolveImport

DefSpec == DefInit /\ [][DefNext]_defVars

-----------------------------------------------------------------------------
(* Properties *)

Listed(scope, name) ==
    LET byName == scopes[scope].byName
    IN IF name \in DOMAIN byName THEN ToSet(byName[name].defs) ELSE {}

(* The two halves of the map agree: a definition with a name is listed      *)
(* under it, among those of its namespace, in the scope it says it is in    *)
(* and in no other; and the scope of a container or file says it is that    *)
(* one's, and nests in the scope the container is defined in.  Whatever a   *)
(* name resolves to is looked up in the map of definitions and unwrapped.   *)
DefsMatchScopes ==
    /\ \A def \in DOMAIN defs :
        LET d == defs[def]
        IN /\ d.name # <<>> =>
                /\ def \in Listed(d.scope, d.name[1])
                /\ scopes[d.scope].byName[d.name[1]].namespace = Namespace(def)
           /\ d.child # NoScope =>
                /\ scopes[d.child].owner = def
                /\ scopes[d.child].parent = IF def.kind = "file" THEN NoScope ELSE d.scope
    /\ \A s \in DOMAIN scopes : \A name \in DOMAIN scopes[s].byName :
        \A def \in Listed(s, name) :
            def \in DOMAIN defs /\ defs[def].scope = s /\ defs[def].name = <<name>>
=============================================================================
