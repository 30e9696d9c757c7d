-------------------------------- MODULE AstIds --------------------------------
(***************************************************************************)
(* The ids of the items of a file: AstIdMap::new and generate_id of        *)
(* ast/ast_id.rs.                                                          *)
(*                                                                         *)
(* A syntax tree is the sequence of its named nodes in document order.     *)
(* Node n has the parent tree[n].up, which comes before it; 0 is the root, *)
(* the source file.  A node stands for its kind and range, so that a node  *)
(* number serves as a NodePtr and as a position in the text.               *)
(***************************************************************************)
EXTENDS Integers, Sequences, FiniteSets

CONSTANT
    Trees       \* the syntax trees the files may have

(* Document order: a node comes after its parent, with nothing but          *)
(* descendants of the parent in between.                                    *)
ASSUME TreesAssumption ==
    \A t \in Trees :
        /\ Len(t) \in Nat /\ DOMAIN t = 1 .. Len(t)
        /\ \A n \in DOMAIN t : t[n].up \in 0 .. n - 1
        /\ \A n \in DOMAIN t : \A m \in t[n].up + 1 .. n - 1 : t[m].up >= t[n].up

VARIABLES
    tree,       \* the syntax tree of the file
    queue,      \* the nodes found and not visited, each with the parent of its id
    visiting,   \* the node whose children are put in the queue, or None
    lastChild,  \* the last child of that node that was looked at
    ids,        \* ptr_to_id: the ids given so far
    parentMap,  \* how many ids were given under each parent
    ptrId       \* how many ids were given

idVars == <<tree, queue, visiting, lastChild, ids, parentMap, ptrId>>

None == -1
NoParent == -1

(* Maps are functions whose domain grows. *)
Put(f, x, v) == [y \in DOMAIN f \cup {x} |-> IF y = x THEN v ELSE f[y]]
Count(f, x) == IF x \in DOMAIN f THEN f[x] ELSE 0
Empty == [x \in {} |-> x]

(* is_supported_node *)
Containers == {"contract", "interface", "library"}
Functions == {"function", "constructor", "fallback"}
Items == Containers \cup Functions \cup
         {"import", "using", "udvt", "struct", "enum", "event", "error",
          "modifier", "var"}
Supported == Items \cup {"body"}

(* The grammar, but for nodes below one that is no item (an ERROR node):    *)
(* an item is at the top or in a body, and no import is in a body; a body   *)
(* is of a container, which has no other.                                   *)
ASSUME GrammarAssumption ==
    \A t \in Trees : \A n \in DOMAIN t :
        (t[n].up # 0 /\ t[t[n].up].kind \in Supported) =>
            /\ t[n].kind \in Items => t[t[n].up].kind = "body" /\ t[n].kind # "import"
            /\ t[n].kind = "body" =>
                /\ t[t[n].up].kind \in Containers
                /\ \A m \in DOMAIN t : (t[m].kind = "body" /\ t[m].up = t[n].up) => m = n

(* The tree as a graph *)
Up(n) == tree[n].up
Child(n) == {m \in DOMAIN tree : Up(m) = n}

(* Mutant: an id does not hold the number of its parent. *)
GenerateIdFlat(parent) ==
    [id |-> IF parent = NoParent THEN ptrId ELSE Count(parentMap, parent),
     parent |-> NoParent]

(* generate_id: the parent counts by its number alone. *)
GenerateId(parent) ==
    IF parent = NoParent THEN [id |-> ptrId, parent |-> NoParent]
    ELSE [id |-> Count(parentMap, parent), parent |-> parent]

IdsBegin(t) ==
    /\ tree' = t
    /\ queue' = <<[node |-> 0, parent |-> NoParent]>>
    /\ visiting' = None /\ lastChild' = 0
    /\ ids' = Empty /\ parentMap' = Empty /\ ptrId' = 0

IdsStart(t) ==
    /\ tree = t
    /\ queue = <<[node |-> 0, parent |-> NoParent]>>
    /\ visiting = None /\ lastChild = 0
    /\ ids = Empty /\ parentMap = Empty /\ ptrId = 0

IdsInit == \E t \in Trees : IdsStart(t)

IdsDone == queue = <<>> /\ visiting = None

(* A node is taken from the queue and given its id. *)
Visit ==
    /\ visiting = None /\ queue # <<>>
    /\ LET n == Head(queue).node
           parent == Head(queue).parent
       IN /\ ids' = Put(ids, n, GenerateId(parent))
          /\ parentMap' = IF parent = NoParent THEN parentMap
                          ELSE Put(parentMap, parent, Count(parentMap, parent) + 1)
          /\ visiting' = n /\ lastChild' = n
    /\ ptrId' = ptrId + 1
    /\ queue' = Tail(queue)
    /\ UNCHANGED tree

(* Its supported children join the queue in document order; those of the   *)
(* source file have no parent.                                             *)
LaterChildren == {m \in Child(visiting) : m > lastChild /\ tree[m].kind \in Supported}

Enqueue ==
    /\ visiting # None
    /\ \E m \in LaterChildren :
        /\ \A k \in LaterChildren : m <= k
        /\ queue' = Append(queue, [node |-> m, parent |-> IF visiting = 0 THEN NoParent
                                                          ELSE ids[visiting].id])
        /\ lastChild' = m
    /\ UNCHANGED <<tree, visiting, ids, parentMap, ptrId>>

Leave ==
    /\ visiting # None /\ LaterChildren = {}
    /\ visiting' = None
    /\ UNCHANGED <<tree, queue, lastChild, ids, parentMap, ptrId>>

IdsNext == Visit \/ Enqueue \/ Leave \/ (IdsDone /\ \E t \in Trees : IdsBegin(t))

IdsSpec == IdsInit /\ [][IdsNext]_idVars

-----------------------------------------------------------------------------
(* Properties *)

(* ptr_to_id and id_to_ptr are inverses: two nodes of a file never have the *)
(* same id.  The id of a member holds the number of its parent only, and    *)
(* the bodies of all contracts have the number 0, so that this rests on one *)
(* counter being shared by the members of all of them (ast_id.rs:113).      *)
IdsUnique == \A m, n \in DOMAIN ids : ids[m] = ids[n] => m = n
=============================================================================
