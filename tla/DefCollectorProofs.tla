------------------------- MODULE DefCollectorProofs -------------------------
(***************************************************************************)
(* Proofs about AstIds and DefCollector, for whatever trees and programs:  *)
(* no two nodes of a file have the same id, the collector gives ids as     *)
(* AstIds says, the definitions it makes agree with its scopes, and those  *)
(* of a file are those its text says, none left out.                       *)
(***************************************************************************)
EXTENDS DefCollector, TLAPS

Parents == Nat \cup {NoParent}

(* Every id given so far is below the counter the next one of its kind is   *)
(* taken from: the number of all ids for an item of the file, the number of *)
(* ids under that parent for any other.                                     *)
Below ==
    \A n \in DOMAIN ids :
        IF ids[n].parent = NoParent THEN ids[n].id < ptrId
        ELSE ids[n].id < Count(parentMap, ids[n].parent)

IInv ==
    /\ ptrId \in Nat
    /\ parentMap \in [DOMAIN parentMap -> Nat]
    /\ queue \in Seq([node : {0} \cup DOMAIN tree, parent : Parents])
    /\ ids \in [DOMAIN ids -> [id : Nat, parent : Parents]]
    /\ visiting # None => visiting \in DOMAIN ids
    /\ Below
    /\ IdsUnique

LEMMA StartsInIInv ==
    ASSUME NEW t, IdsStart(t)
    PROVE  IInv
  BY DEF IdsStart, IInv, Below, IdsUnique, Empty, Parents, NoParent, None

LEMMA BeginsInIInv ==
    ASSUME NEW t, IdsBegin(t)
    PROVE  IInv'
  BY DEF IdsBegin, IInv, Below, IdsUnique, Empty, Parents, NoParent, None

(* A count of a map of counts is a number, and Put changes one entry. *)
LEMMA CountIsNat ==
    ASSUME NEW f, f \in [DOMAIN f -> Nat], NEW x
    PROVE  Count(f, x) \in Nat
  BY DEF Count

LEMMA CountPut ==
    ASSUME NEW f, NEW x, NEW v, NEW y
    PROVE  Count(Put(f, x, v), y) = IF y = x THEN v ELSE Count(f, y)
  BY DEF Count, Put

LEMMA VisitKeepsIInv ==
    ASSUME IInv, Visit
    PROVE  IInv'
  <1> DEFINE n == Head(queue).node
             parent == Head(queue).parent
  <1>1. Head(queue) \in [node : {0} \cup DOMAIN tree, parent : Parents]
        /\ Tail(queue) \in Seq([node : {0} \cup DOMAIN tree, parent : Parents])
    <2> DEFINE S == [node : {0} \cup DOMAIN tree, parent : Parents]
    <2>1. queue \in Seq(S) /\ queue # <<>>
      BY DEF IInv, Visit
    <2> HIDE DEF S
    <2>2. Head(queue) \in S /\ Tail(queue) \in Seq(S)
      BY <2>1
    <2> QED BY <2>2 DEF S
  <1>2. parent \in Parents
    BY <1>1
  <1>3. /\ ids' = Put(ids, n, GenerateId(parent))
        /\ parentMap' = IF parent = NoParent THEN parentMap
                        ELSE Put(parentMap, parent, Count(parentMap, parent) + 1)
        /\ visiting' = n /\ ptrId' = ptrId + 1 /\ queue' = Tail(queue) /\ tree' = tree
    BY DEF Visit
  <1> HIDE DEF n, parent
  <1>4. Count(parentMap, parent) \in Nat
    BY CountIsNat DEF IInv
  <1>5. GenerateId(parent) \in [id : Nat, parent : Parents]
    BY <1>2, <1>4 DEF GenerateId, IInv, Parents
  <1>6. /\ DOMAIN ids' = DOMAIN ids \cup {n}
        /\ \A m \in DOMAIN ids' : ids'[m] = IF m = n THEN GenerateId(parent) ELSE ids[m]
    BY <1>3 DEF Put
  <1>7. ids' \in [DOMAIN ids' -> [id : Nat, parent : Parents]]
    <2>1. ids' = [m \in DOMAIN ids \cup {n} |-> IF m = n THEN GenerateId(parent) ELSE ids[m]]
      BY <1>3 DEF Put
    <2> QED BY <2>1, <1>5, <1>6 DEF IInv
  <1>8. parentMap' \in [DOMAIN parentMap' -> Nat]
    <2>1. CASE parent = NoParent
      BY <2>1, <1>3 DEF IInv
    <2>2. CASE parent # NoParent
      <3>1. parentMap' = [q \in DOMAIN parentMap \cup {parent} |->
                            IF q = parent THEN Count(parentMap, parent) + 1 ELSE parentMap[q]]
        BY <2>2, <1>3 DEF Put
      <3> QED BY <3>1, <1>4 DEF IInv
    <2> QED BY <2>1, <2>2
  <1>9. \A p : Count(parentMap', p) =
                 IF parent # NoParent /\ p = parent THEN Count(parentMap, p) + 1
                 ELSE Count(parentMap, p)
    BY <1>3, CountPut
  (* The new id is none of those given before, all of which are below. *)
  <1>10. \A m \in DOMAIN ids : ids[m] # GenerateId(parent)
    <2> SUFFICES ASSUME NEW m \in DOMAIN ids, ids[m] = GenerateId(parent)
                 PROVE  FALSE
      OBVIOUS
    <2>1. ids[m] \in [id : Nat, parent : Parents]
      BY DEF IInv
    <2>2. CASE parent = NoParent
      <3>1. ids[m].id = ptrId /\ ids[m].parent = NoParent
        BY <2>2 DEF GenerateId
      <3> QED BY <3>1, <2>1 DEF IInv, Below
    <2>3. CASE parent # NoParent
      <3>1. ids[m].id = Count(parentMap, parent) /\ ids[m].parent = parent
        BY <2>3 DEF GenerateId
      <3> QED BY <3>1, <2>1, <2>3, <1>4 DEF IInv, Below
    <2> QED BY <2>2, <2>3
  <1>11. IdsUnique'
    BY <1>6, <1>10 DEF IInv, IdsUnique
  <1>12. Below'
    <2> SUFFICES ASSUME NEW m \in DOMAIN ids'
                 PROVE  IF ids'[m].parent = NoParent THEN ids'[m].id < ptrId'
                        ELSE ids'[m].id < Count(parentMap', ids'[m].parent)
      BY DEF Below
    <2>1. CASE m = n
      <3>1. ids'[m] = GenerateId(parent)
        BY <2>1, <1>6
      <3> QED BY <3>1, <1>3, <1>4, <1>9 DEF GenerateId, IInv
    <2>2. CASE m # n
      <3>1. m \in DOMAIN ids /\ ids'[m] = ids[m]
        BY <2>2, <1>6
      <3>2. ids[m] \in [id : Nat, parent : Parents]
        BY <3>1 DEF IInv
      <3>3. Count(parentMap, ids[m].parent) \in Nat
        BY CountIsNat DEF IInv
      <3>4. Count(parentMap', ids[m].parent) >= Count(parentMap, ids[m].parent)
        BY <1>9, <3>3
      <3>5. Count(parentMap', ids[m].parent) \in Nat
        BY <1>9, <3>3
      <3>6. IF ids[m].parent = NoParent THEN ids[m].id < ptrId
            ELSE ids[m].id < Count(parentMap, ids[m].parent)
        BY <3>1 DEF IInv, Below
      <3> QED BY <3>1, <3>2, <3>3, <3>4, <3>5, <3>6, <1>3 DEF IInv
    <2> QED BY <2>1, <2>2
  <1> QED
    BY <1>1, <1>3, <1>6, <1>7, <1>8, <1>11, <1>12 DEF IInv

LEMMA EnqueueKeepsIInv ==
    ASSUME IInv, Enqueue
    PROVE  IInv'
  <1>1. PICK m \in LaterChildren :
           queue' = Append(queue, [node |-> m, parent |-> IF visiting = 0 THEN NoParent
                                                          ELSE ids[visiting].id])
    BY DEF Enqueue
  <1>2. m \in DOMAIN tree
    BY DEF LaterChildren, Child
  <1>3. ids[visiting].id \in Nat
    BY DEF IInv, Enqueue
  <1>4. queue' \in Seq([node : {0} \cup DOMAIN tree, parent : Parents])
    BY <1>1, <1>2, <1>3 DEF IInv, Parents
  <1> QED
    BY <1>4 DEF IInv, Enqueue, Below, IdsUnique

LEMMA LeaveKeepsIInv ==
    ASSUME IInv, Leave
    PROVE  IInv'
  BY DEF IInv, Leave, Below, IdsUnique

LEMMA IInvInductive == IInv /\ [IdsNext]_idVars => IInv'
  <1> SUFFICES ASSUME IInv, [IdsNext]_idVars
               PROVE  IInv'
    OBVIOUS
  <1>1. CASE Visit
    BY <1>1, VisitKeepsIInv
  <1>2. CASE Enqueue
    BY <1>2, EnqueueKeepsIInv
  <1>3. CASE Leave
    BY <1>3, LeaveKeepsIInv
  <1>4. CASE \E t \in Trees : IdsBegin(t)
    BY <1>4, BeginsInIInv
  <1>5. CASE UNCHANGED idVars
    BY <1>5 DEF idVars, IInv, Below, IdsUnique
  <1> QED
    BY <1>1, <1>2, <1>3, <1>4, <1>5 DEF IdsNext

(* No two nodes of a file are given the same id, in whatever tree: the map  *)
(* from ids to nodes that AstIdMap keeps beside the other is its inverse.   *)
THEOREM NodesHaveOwnIds == IdsSpec => []IdsUnique
  <1>1. IdsInit => IInv
    BY StartsInIInv DEF IdsInit
  <1>2. IInv => IdsUnique
    BY DEF IInv
  <1> QED
    BY <1>1, <1>2, IInvInductive, PTL DEF IdsSpec

-----------------------------------------------------------------------------
(* Where the collector is: a file is collected once its ids are given. *)
Collected ==
    /\ program \in Programs /\ file \in Nat
    /\ begun => IdsDone

LEMMA StartsCollected == DefInit => IdsInit /\ Collected
  <1> SUFFICES ASSUME DefInit
               PROVE  IdsInit /\ Collected
    OBVIOUS
  <1>1. program \in Seq(Trees) /\ program # <<>>
    BY ProgramsAssumption DEF DefInit
  <1>2. program[1] \in Trees
    BY <1>1
  <1> QED
    BY <1>2 DEF DefInit, IdsInit, Collected

LEMMA StepImplementsIds ==
    ASSUME Collected, [DefNext]_defVars
    PROVE  Collected' /\ [IdsNext]_idVars
  <1>1. CASE MakeIds
    <2>1. Visit \/ Enqueue \/ Leave
      BY <1>1 DEF MakeIds
    <2>2. ~begun
      BY <2>1 DEF Collected, IdsDone, Visit, Enqueue, Leave
    <2> QED
      BY <1>1, <2>1, <2>2 DEF MakeIds, IdsNext, Collected, collectVars
  <1>2. CASE NextFile
    <2>1. program \in Seq(Trees) /\ file \in Nat /\ IdsDone
      BY <1>2, ProgramsAssumption DEF Collected, NextFile
    <2>2. CASE file < Len(program)
      <3>1. program[file + 1] \in Trees
        BY <2>1, <2>2
      <3> QED
        BY <1>2, <2>1, <2>2, <3>1 DEF NextFile, IdsNext, Collected
    <2>3. CASE ~(file < Len(program))
      BY <1>2, <2>1, <2>3 DEF NextFile, Collected, idVars, IdsDone
    <2> QED
      BY <2>2, <2>3
  <1>3. CASE CollectFile
    BY <1>3 DEF CollectFile, Collected, idVars, IdsDone
  <1>4. CASE CollectSimple \/ CollectUsing \/ CollectImport \/ CollectContainer
    BY <1>4 DEF CollectSimple, CollectUsing, CollectImport, CollectContainer,
                Collected, idVars, IdsDone
  <1>5. CASE LowerTop \/ LowerMember \/ PassOver \/ ResolveImport \/ UNCHANGED defVars
    BY <1>5 DEF LowerTop, LowerMember, PassOver, ResolveImport, defVars, collectVars,
                Collected, idVars, IdsDone
  <1> QED
    BY <1>1, <1>2, <1>3, <1>4, <1>5 DEF DefNext

(* The collector gives ids as AstIds says, one file after another: it is    *)
(* done with a file before it takes the items of it.                        *)
THEOREM CollectorGivesIds == DefSpec => IdsSpec
  BY StartsCollected, StepImplementsIds, PTL DEF DefSpec, IdsSpec

(* The definitions of every file are collected under ids of their own. *)
THEOREM DefinitionsHaveOwnIds == DefSpec => []IdsUnique
  BY NodesHaveOwnIds, CollectorGivesIds, PTL

-----------------------------------------------------------------------------
(* Sequences whose elements have no set of their own in the model *)
IsSeq(s) == s \in Seq(ToSet(s))

LEMMA SeqIsSeq ==
    ASSUME NEW S, NEW s \in Seq(S)
    PROVE  IsSeq(s) /\ Len(s) \in Nat /\ DOMAIN s = 1 .. Len(s)
  <1>1. \A i \in 1 .. Len(s) : s[i] \in ToSet(s)
    BY DEF ToSet
  <1> QED
    BY <1>1 DEF IsSeq

LEMMA IsSeqBounds ==
    ASSUME NEW s, IsSeq(s)
    PROVE  Len(s) \in Nat /\ DOMAIN s = 1 .. Len(s) /\ (s = <<>> <=> Len(s) = 0)
  <1> DEFINE S == ToSet(s)
  <1>1. s \in Seq(S)
    BY DEF IsSeq
  <1> HIDE DEF S
  <1> QED
    BY <1>1

LEMMA EmptyIsSeq == IsSeq(<<>>) /\ Len(<<>>) = 0
  <1>1. <<>> \in Seq({}) /\ Len(<<>>) = 0
    OBVIOUS
  <1> QED
    BY ONLY <1>1, SeqIsSeq

LEMMA AppendIsSeq ==
    ASSUME NEW s, IsSeq(s), NEW e
    PROVE  /\ IsSeq(Append(s, e)) /\ Len(Append(s, e)) = Len(s) + 1
           /\ \A i \in 1 .. Len(s) : Append(s, e)[i] = s[i]
           /\ Append(s, e)[Len(s) + 1] = e
  <1> DEFINE S == ToSet(s) \cup {e}
  <1>1. s \in Seq(S) /\ e \in S
    <2>1. s \in Seq(ToSet(s))
      BY DEF IsSeq
    <2>2. \A i \in 1 .. Len(s) : s[i] \in ToSet(s)
      BY <2>1
    <2> QED
      BY <2>1, <2>2
  <1> HIDE DEF S
  <1>2. Append(s, e) \in Seq(S)
    BY <1>1
  <1>3. IsSeq(Append(s, e))
    BY ONLY <1>2, SeqIsSeq
  <1> QED
    BY <1>1, <1>3

LEMMA TailIsSeq ==
    ASSUME NEW s, IsSeq(s), s # <<>>
    PROVE  /\ IsSeq(Tail(s)) /\ Len(s) \in Nat \ {0} /\ Len(Tail(s)) = Len(s) - 1
           /\ Head(s) = s[1]
           /\ \A i \in 1 .. Len(Tail(s)) : Tail(s)[i] = s[i + 1] /\ i + 1 \in 1 .. Len(s)
  <1> DEFINE S == ToSet(s)
  <1>1. s \in Seq(S)
    BY DEF IsSeq
  <1> HIDE DEF S
  <1>2. Tail(s) \in Seq(S) /\ Len(s) \in Nat \ {0}
    BY <1>1
  <1>3. IsSeq(Tail(s))
    BY ONLY <1>2, SeqIsSeq
  <1> QED
    BY <1>1, <1>3

LEMMA MappedIsSeq ==
    ASSUME NEW s, IsSeq(s), NEW t, t = [k \in DOMAIN s |-> t[k]]
    PROVE  IsSeq(t) /\ Len(t) = Len(s)
  <1>1. DOMAIN s = 1 .. Len(s) /\ Len(s) \in Nat
    BY IsSeqBounds
  <1>2. t = [k \in 1 .. Len(s) |-> t[k]]
    BY <1>1
  <1>3. DOMAIN t = 1 .. Len(s)
    BY <1>2
  <1> DEFINE S == {t[k] : k \in 1 .. Len(s)}
  <1>4. \A k \in 1 .. Len(s) : t[k] \in S
    OBVIOUS
  <1> HIDE DEF S
  <1>5. t \in [1 .. Len(s) -> S]
    BY <1>2, <1>4
  <1>6. t \in Seq(S) /\ Len(t) = Len(s)
    BY <1>1, <1>5
  <1> QED
    BY ONLY <1>6, SeqIsSeq

-----------------------------------------------------------------------------
(* The items of a file.  A list of the item tree or of the collector names  *)
(* nodes of the set N, none of them twice.                                  *)
Listing(s, N) ==
    /\ IsSeq(s)
    /\ \A k \in 1 .. Len(s) : \E n \in N : s[k] = ItemId(n)
    /\ \A k, l \in 1 .. Len(s) : s[k].id = s[l].id => k = l

Lowered == {n \in Nat : n \in DOMAIN tree /\ Keeps(n) /\ n < cursor}
TopNodes == {n \in Lowered : AtTop(n)}
MemberNodes(id) == {n \in Lowered : InContainer(n) /\ ids[ContainerOf(n)] = id}

ItemsListed ==
    /\ Listing(topLevel, TopNodes)
    /\ \A k \in 1 .. Len(topLevel) : topLevel[k].id \in DOMAIN data
    /\ \A id \in DOMAIN data :
        /\ data[id] = [kind |-> data[id].kind, name |-> data[id].name, members |-> data[id].members]
        /\ Listing(data[id].members, MemberNodes(id))

(* Where the collector is: a file is lowered once it has ids, and collected *)
(* once it is lowered.                                                      *)
Progress ==
    /\ file \in 1 .. Len(program) + 1 /\ cursor \in Nat \ {0}
    /\ ~IdsDone => cursor = 1 /\ topLevel = <<>> /\ data = Empty
    /\ begun => IdsDone /\ cursor \notin DOMAIN tree
    /\ ~begun => todo = <<>> /\ members = <<>>
    /\ file > Len(program) => begun /\ todo = <<>> /\ members = <<>>

(* What is still to collect, the members of containers to come included, is *)
(* not defined yet, and owns no scope.                                      *)
Known == DOMAIN defs \cup {scopes[s].owner : s \in 1 .. Len(scopes)}
Unused(K, f, id) == \A def \in K : def.file = f => def.id # id

ToCollect ==
    /\ Listing(todo, TopNodes) /\ IsSeq(members)
    /\ \A k \in 1 .. Len(todo) :
        /\ todo[k].id \in DOMAIN data /\ Unused(Known, file, todo[k].id)
        /\ \A j \in 1 .. Len(data[todo[k].id].members) : Unused(Known, file, data[todo[k].id].members[j].id)
    /\ members # <<>> => \E id \in DOMAIN data :
        Listing(members, MemberNodes(id)) /\ \A k \in 1 .. Len(todo) : todo[k].id # id
    /\ \A k \in 1 .. Len(members) : Unused(Known, file, members[k].id)

(* The scopes the collector speaks of exist, those made since the scope of  *)
(* the file nest in it, and the definitions so far are of the files so far. *)
Scoped ==
    /\ IsSeq(files)
    /\ begun /\ file <= Len(program) =>
         /\ Len(files) = file /\ FileScope \in 1 .. Len(scopes)
         /\ \A s \in FileScope + 1 .. Len(scopes) : scopes[s].parent = FileScope
    /\ ~begun => Len(files) = file - 1
    /\ members # <<>> => inner \in 1 .. Len(scopes)
    /\ \A def \in Known :
        def.file \in Nat /\ def.file <= file /\ (def.file = file => begun)

(* DefsMatchScopes of the scopes S and the definitions D, in parts. *)
IsMapScope(x) ==
    /\ x = [owner |-> x.owner, parent |-> x.parent, byName |-> x.byName, usings |-> x.usings]
    /\ \A name \in DOMAIN x.byName : IsSeq(x.byName[name].defs) /\ x.byName[name].defs # <<>>

ScopesTyped(S) == IsSeq(S) /\ \A s \in 1 .. Len(S) : IsMapScope(S[s])

IsListed(S, def, d) ==
    d.name # <<>> =>
        /\ d.scope \in 1 .. Len(S) /\ d.name[1] \in DOMAIN S[d.scope].byName
        /\ def \in ToSet(S[d.scope].byName[d.name[1]].defs)
        /\ S[d.scope].byName[d.name[1]].namespace = Namespace(def)

OwnsChild(S, def, d) ==
    d.child # NoScope =>
        /\ d.child \in 1 .. Len(S) /\ S[d.child].owner = def
        /\ S[d.child].parent = IF def.kind = "file" THEN NoScope ELSE d.scope

ListsDefined(S, D) ==
    \A s \in 1 .. Len(S) : \A name \in DOMAIN S[s].byName :
        \A def \in ToSet(S[s].byName[name].defs) :
            def \in DOMAIN D /\ D[def].scope = s /\ D[def].name = <<name>>

(* A scope comes after the one around it, with nothing but what is inside   *)
(* of that in between; and its owner, if it is in the map, has that scope   *)
(* for a child.                                                             *)
Nested(S) ==
    \A s \in 1 .. Len(S) :
        /\ S[s].parent \in 0 .. s - 1
        /\ S[s].parent # NoScope => \A k \in S[s].parent + 1 .. s : S[k].parent >= S[s].parent
SameFrames(S, T) ==
    Len(T) = Len(S) /\ \A s \in 1 .. Len(S) : T[s].owner = S[s].owner /\ T[s].parent = S[s].parent
OwnersHave(S, D) ==
    \A s \in 1 .. Len(S) : S[s].owner \in DOMAIN D => D[S[s].owner].child = s

MapInv(S, D) ==
    /\ ScopesTyped(S)
    /\ \A def \in DOMAIN D :
        D[def].scope \in 1 .. Len(S) /\ IsListed(S, def, D[def]) /\ OwnsChild(S, def, D[def])
    /\ ListsDefined(S, D) /\ Nested(S) /\ OwnersHave(S, D)

DInv == Progress /\ ItemsListed /\ ToCollect /\ Scoped /\ MapInv(scopes, defs)

LEMMA MapInvMatches == MapInv(scopes, defs) => DefsMatchScopes
  <1> SUFFICES ASSUME MapInv(scopes, defs)
               PROVE  DefsMatchScopes
    OBVIOUS
  <1>1. DOMAIN scopes = 1 .. Len(scopes)
    BY IsSeqBounds DEF MapInv, ScopesTyped
  <1>2. ASSUME NEW def \in DOMAIN defs
        PROVE  LET d == defs[def]
               IN /\ d.name # <<>> =>
                       /\ def \in Listed(d.scope, d.name[1])
                       /\ scopes[d.scope].byName[d.name[1]].namespace = Namespace(def)
                  /\ d.child # NoScope =>
                       /\ scopes[d.child].owner = def
                       /\ scopes[d.child].parent = IF def.kind = "file" THEN NoScope ELSE d.scope
    BY DEF MapInv, IsListed, OwnsChild, Listed
  <1>3. ASSUME NEW s \in DOMAIN scopes, NEW name \in DOMAIN scopes[s].byName,
               NEW def \in Listed(s, name)
        PROVE  def \in DOMAIN defs /\ defs[def].scope = s /\ defs[def].name = <<name>>
    BY <1>1 DEF MapInv, ListsDefined, Listed
  <1> QED
    BY <1>2, <1>3 DEF DefsMatchScopes

LEMMA NothingListed ==
    ASSUME NEW N
    PROVE  Listing(<<>>, N)
  BY EmptyIsSeq DEF Listing

LEMMA ListedInMore ==
    ASSUME NEW s, NEW N, NEW M, Listing(s, N), N \subseteq M
    PROVE  Listing(s, M)
  BY DEF Listing

LEMMA OneMoreListed ==
    ASSUME IdsUnique, NEW N, NEW M, N \subseteq M, M \subseteq DOMAIN ids,
           NEW s, Listing(s, N), NEW n \in M \ N
    PROVE  Listing(Append(s, ItemId(n)), M)
  <1> DEFINE t == Append(s, ItemId(n))
  <1>1. IsSeq(s) /\ Len(s) \in Nat
    BY IsSeqBounds DEF Listing
  <1>2. /\ IsSeq(t) /\ Len(t) = Len(s) + 1
        /\ \A i \in 1 .. Len(s) : t[i] = s[i]
        /\ t[Len(s) + 1] = ItemId(n)
    BY <1>1, AppendIsSeq
  <1> HIDE DEF t
  <1>3. \A k \in 1 .. Len(t) : k \in 1 .. Len(s) \/ k = Len(s) + 1
    BY <1>1, <1>2
  <1>4. \A k \in 1 .. Len(t) : \E m \in M : t[k] = ItemId(m)
    BY <1>2, <1>3 DEF Listing
  <1>5. \A k \in 1 .. Len(s) : s[k].id # ids[n]
    <2> SUFFICES ASSUME NEW k \in 1 .. Len(s), s[k].id = ids[n]
                 PROVE  FALSE
      OBVIOUS
    <2>1. PICK m \in N : s[k] = ItemId(m)
      BY DEF Listing
    <2>2. ids[m] = ids[n]
      BY <2>1 DEF ItemId
    <2> QED
      BY <2>2 DEF IdsUnique
  <1>6. t[Len(s) + 1].id = ids[n]
    BY <1>2 DEF ItemId
  <1>7. \A k, l \in 1 .. Len(t) : t[k].id = t[l].id => k = l
    BY <1>2, <1>3, <1>5, <1>6 DEF Listing
  <1> QED
    BY <1>2, <1>4, <1>7 DEF Listing, t

LEMMA OneLessListed ==
    ASSUME NEW s, NEW N, Listing(s, N), s # <<>>
    PROVE  /\ Listing(Tail(s), N) /\ \E n \in N : Head(s) = ItemId(n)
           /\ \A k \in 1 .. Len(Tail(s)) :
                \E l \in 1 .. Len(s) : Tail(s)[k] = s[l] /\ s[l].id # Head(s).id
  <1>1. /\ IsSeq(Tail(s)) /\ Len(s) \in Nat \ {0} /\ Len(Tail(s)) = Len(s) - 1
        /\ Head(s) = s[1]
        /\ \A i \in 1 .. Len(Tail(s)) : Tail(s)[i] = s[i + 1] /\ i + 1 \in 1 .. Len(s)
    BY TailIsSeq DEF Listing
  <1>2. 1 \in 1 .. Len(s) /\ \A i \in 1 .. Len(Tail(s)) : i + 1 # 1
    BY <1>1
  <1>3. \A k \in 1 .. Len(Tail(s)) : \E n \in N : Tail(s)[k] = ItemId(n)
    BY <1>1 DEF Listing
  <1>4. \A k, l \in 1 .. Len(Tail(s)) : Tail(s)[k].id = Tail(s)[l].id => k = l
    <2> SUFFICES ASSUME NEW k \in 1 .. Len(Tail(s)), NEW l \in 1 .. Len(Tail(s)),
                        Tail(s)[k].id = Tail(s)[l].id
                 PROVE  k = l
      OBVIOUS
    <2>1. k + 1 = l + 1
      BY <1>1 DEF Listing
    <2> QED
      BY <1>1, <2>1
  <1>5. \A k \in 1 .. Len(Tail(s)) :
          \E l \in 1 .. Len(s) : Tail(s)[k] = s[l] /\ s[l].id # Head(s).id
    BY <1>1, <1>2 DEF Listing
  <1> QED
    BY <1>1, <1>2, <1>3, <1>4, <1>5 DEF Listing

(* A node is at the top of the file or a member of one container. *)
LEMMA ApartFromTop ==
    ASSUME IdsUnique, NEW s, NEW t, NEW id,
           Listing(s, TopNodes), Listing(t, MemberNodes(id)),
           NEW k \in 1 .. Len(s), NEW l \in 1 .. Len(t)
    PROVE  s[k].id # t[l].id
  <1>1. PICK m \in TopNodes : s[k] = ItemId(m)
    BY DEF Listing
  <1>2. PICK n \in MemberNodes(id) : t[l] = ItemId(n)
    BY DEF Listing
  <1>3. m # n
    BY DEF TopNodes, MemberNodes, AtTop, InContainer, ContainerOf
  <1> QED
    BY <1>1, <1>2, <1>3 DEF IdsUnique, ItemId, TopNodes, MemberNodes, Lowered, Keeps

LEMMA ApartInContainers ==
    ASSUME IdsUnique, NEW s, NEW t, NEW a, NEW b, a # b,
           Listing(s, MemberNodes(a)), Listing(t, MemberNodes(b)),
           NEW k \in 1 .. Len(s), NEW l \in 1 .. Len(t)
    PROVE  s[k].id # t[l].id
  <1>1. PICK m \in MemberNodes(a) : s[k] = ItemId(m)
    BY DEF Listing
  <1>2. PICK n \in MemberNodes(b) : t[l] = ItemId(n)
    BY DEF Listing
  <1>3. m # n
    BY DEF MemberNodes
  <1> QED
    BY <1>1, <1>2, <1>3 DEF IdsUnique, ItemId, MemberNodes, Lowered, Keeps

-----------------------------------------------------------------------------
(* Lowering: the cursor passes one node, which is listed or not. *)
LEMMA CursorPasses ==
    ASSUME DInv, cursor' = cursor + 1, UNCHANGED <<tree, ids>>
    PROVE  /\ cursor \notin Lowered /\ Lowered \subseteq Lowered'
           /\ TopNodes \subseteq TopNodes' /\ \A id : MemberNodes(id) \subseteq MemberNodes(id)'
           /\ \A n : ItemId(n)' = ItemId(n)
           /\ TopNodes' \subseteq DOMAIN ids /\ \A id : MemberNodes(id)' \subseteq DOMAIN ids
  <1>1. cursor \in Nat
    BY DEF DInv, Progress
  <1>2. ASSUME NEW n \in Lowered
        PROVE  n \in Lowered'
    BY <1>1 DEF Lowered, Keeps
  <1>3. cursor \notin Lowered
    BY <1>1 DEF Lowered
  <1> QED
    BY <1>2, <1>3 DEF TopNodes, MemberNodes, Lowered, Keeps, AtTop, InContainer, ContainerOf, Up, ItemId

LEMMA LoweringKeepsRest ==
    ASSUME DInv, IdsDone, ~begun, cursor' = cursor + 1, UNCHANGED <<idVars, mapVars, collectVars>>
    PROVE  Progress' /\ ToCollect' /\ Scoped' /\ MapInv(scopes, defs)'
  <1>1. UNCHANGED <<idVars, scopes, defs, files, program, file, begun, todo, members, inner>>
    BY DEF mapVars, collectVars
  <1>2. todo' = <<>> /\ members' = <<>> /\ ~begun'
    BY <1>1 DEF DInv, Progress
  <1>3. Progress'
    BY <1>1, <1>2 DEF DInv, Progress, IdsDone, idVars
  <1>4. ToCollect'
    <2>1. \A N : Listing(todo, N)' /\ Len(todo)' = 0 /\ Len(members)' = 0
      BY <1>2, EmptyIsSeq DEF Listing
    <2>2. IsSeq(members)'
      BY <1>2, EmptyIsSeq
    <2> QED
      BY <1>2, <2>1, <2>2 DEF ToCollect
  <1>5. Scoped'
    BY <1>1, <1>2 DEF DInv, Scoped, FileScope, Known, IsSeq, ToSet
  <1>6. MapInv(scopes', defs')
    BY <1>1 DEF DInv
  <1> QED
    BY <1>3, <1>4, <1>5, <1>6

LEMMA LowerTopKeepsDInv ==
    ASSUME DInv, IInv, LowerTop
    PROVE  DInv'
  <1>1. /\ cursor \in DOMAIN tree /\ Keeps(cursor) /\ AtTop(cursor) /\ cursor \in Nat
        /\ cursor' = cursor + 1 /\ ~begun /\ IdsDone
    BY DEF LowerTop, Lowering, DInv, Progress
  <1>2. UNCHANGED <<idVars, mapVars, collectVars>>
    BY DEF LowerTop
  <1>3. UNCHANGED <<tree, ids>>
    BY <1>2 DEF idVars
  <1>4. /\ Lowered \subseteq Lowered' /\ cursor \notin Lowered
        /\ TopNodes \subseteq TopNodes' /\ \A id : MemberNodes(id) \subseteq MemberNodes(id)'
        /\ \A n : ItemId(n)' = ItemId(n)
        /\ TopNodes' \subseteq DOMAIN ids /\ \A id : MemberNodes(id)' \subseteq DOMAIN ids
    BY <1>1, <1>3, CursorPasses
  <1>5. ItemsListed'
    <2>1. cursor \in TopNodes' \ TopNodes
      BY <1>1, <1>3, <1>4 DEF TopNodes, Lowered, Keeps, AtTop, Up
    <2>2. Listing(topLevel', TopNodes')
      BY <1>4, <2>1, OneMoreListed DEF LowerTop, DInv, ItemsListed, IInv
    <2>3. DOMAIN data' = DOMAIN data \cup {ids[cursor]}
          /\ \A id \in DOMAIN data' : data'[id] = IF id = ids[cursor] THEN Datum(cursor) ELSE data[id]
      BY DEF LowerTop, Put
    <2>4. \A k \in 1 .. Len(topLevel') : topLevel'[k].id \in DOMAIN data'
      <3>1. IsSeq(topLevel)
        BY DEF DInv, ItemsListed, Listing
      <3>2. /\ Len(topLevel') = Len(topLevel) + 1 /\ Len(topLevel) \in Nat
            /\ \A i \in 1 .. Len(topLevel) : topLevel'[i] = topLevel[i]
            /\ topLevel'[Len(topLevel) + 1] = ItemId(cursor)
        BY <3>1, AppendIsSeq, IsSeqBounds DEF LowerTop
      <3>3. \A k \in 1 .. Len(topLevel') : k \in 1 .. Len(topLevel) \/ k = Len(topLevel) + 1
        BY <3>2
      <3> QED
        BY <2>3, <3>2, <3>3 DEF ItemId, DInv, ItemsListed
    <2>5. ASSUME NEW id \in DOMAIN data'
          PROVE  /\ data'[id] = [kind |-> data'[id].kind, name |-> data'[id].name,
                                 members |-> data'[id].members]
                 /\ Listing(data'[id].members, MemberNodes(id)')
      <3>1. CASE id = ids[cursor]
        BY <3>1, <2>3, NothingListed DEF Datum
      <3>2. CASE id # ids[cursor]
        <4>1. id \in DOMAIN data /\ data'[id] = data[id]
          BY <2>3, <3>2
        <4>2. Listing(data[id].members, MemberNodes(id)')
          BY <4>1, <1>4, ListedInMore DEF DInv, ItemsListed
        <4> QED
          BY <4>1, <4>2 DEF DInv, ItemsListed
      <3> QED
        BY <3>1, <3>2
    <2>6. \A s, N : Listing(s, N)' <=> Listing(s, N)
      BY <1>4 DEF Listing
    <2> QED
      BY <2>2, <2>4, <2>5, <2>6 DEF ItemsListed
  <1> QED
    BY <1>1, <1>2, <1>5, LoweringKeepsRest DEF DInv

LEMMA LowerMemberKeepsDInv ==
    ASSUME DInv, IInv, LowerMember
    PROVE  DInv'
  <1> DEFINE c == ids[ContainerOf(cursor)]
             d == Put(data, ids[cursor], Datum(cursor))
  <1>1. /\ cursor \in DOMAIN tree /\ Keeps(cursor) /\ InContainer(cursor) /\ cursor \in Nat
        /\ cursor' = cursor + 1 /\ ~begun /\ IdsDone
    BY DEF LowerMember, Lowering, DInv, Progress
  <1>2. UNCHANGED <<idVars, mapVars, collectVars, topLevel>>
    BY DEF LowerMember
  <1>3. UNCHANGED <<tree, ids>>
    BY <1>2 DEF idVars
  <1>4. /\ Lowered \subseteq Lowered' /\ cursor \notin Lowered
        /\ TopNodes \subseteq TopNodes' /\ \A id : MemberNodes(id) \subseteq MemberNodes(id)'
        /\ \A n : ItemId(n)' = ItemId(n)
        /\ TopNodes' \subseteq DOMAIN ids /\ \A id : MemberNodes(id)' \subseteq DOMAIN ids
    BY <1>1, <1>3, CursorPasses
  <1>5. ItemsListed'
    <2>1. data' = [d EXCEPT ![c].members = Append(@, ItemId(cursor))]
      BY DEF LowerMember
    <2>2. DOMAIN d = DOMAIN data \cup {ids[cursor]}
          /\ \A id \in DOMAIN d : d[id] = IF id = ids[cursor] THEN Datum(cursor) ELSE data[id]
      BY DEF Put
    <2>3. \A id \in DOMAIN d : /\ d[id] = [kind |-> d[id].kind, name |-> d[id].name,
                                           members |-> d[id].members]
                               /\ Listing(d[id].members, MemberNodes(id))
      BY <2>2, NothingListed DEF Datum, DInv, ItemsListed
    <2> HIDE DEF d
    <2>4. DOMAIN data' = DOMAIN d /\ \A id \in DOMAIN d : id # c => data'[id] = d[id]
      BY <2>1
    <2>5. c \in DOMAIN d => data'[c] = [d[c] EXCEPT !.members = Append(@, ItemId(cursor))]
      BY <2>1
    <2>6. \A s, N : Listing(s, N)' <=> Listing(s, N)
      BY <1>4 DEF Listing
    <2>7. Listing(topLevel', TopNodes')
      BY <1>2, <1>4, ListedInMore DEF DInv, ItemsListed
    <2>8. \A k \in 1 .. Len(topLevel') : topLevel'[k].id \in DOMAIN data'
      BY <1>2, <2>2, <2>4 DEF DInv, ItemsListed
    <2>9. ASSUME NEW id \in DOMAIN data'
          PROVE  /\ data'[id] = [kind |-> data'[id].kind, name |-> data'[id].name,
                                 members |-> data'[id].members]
                 /\ Listing(data'[id].members, MemberNodes(id)')
      <3>1. CASE id # c
        <4>1. id \in DOMAIN d /\ data'[id] = d[id]
          BY <2>4, <3>1
        <4>2. Listing(d[id].members, MemberNodes(id)')
          BY <4>1, <2>3, <1>4, ListedInMore
        <4> QED
          BY <4>1, <4>2, <2>3
      <3>2. CASE id = c
        <4>1. c \in DOMAIN d /\ data'[c] = [d[c] EXCEPT !.members = Append(@, ItemId(cursor))]
          BY <2>4, <2>5, <3>2
        <4>2. data'[c] = [kind |-> d[c].kind, name |-> d[c].name,
                          members |-> Append(d[c].members, ItemId(cursor))]
          BY <4>1, <2>3
        <4>3. cursor \in MemberNodes(id)' \ MemberNodes(id)
          <5>1. cursor \in Lowered' /\ cursor \notin MemberNodes(id)
            BY <1>1, <1>3, <1>4 DEF MemberNodes, Lowered, Keeps
          <5>2. \A n : (InContainer(n)' <=> InContainer(n)) /\ ContainerOf(n)' = ContainerOf(n)
            BY <1>3 DEF InContainer, ContainerOf, Up
          <5>3. InContainer(cursor) /\ ids[ContainerOf(cursor)] = id
            BY <1>1, <3>2
          <5> QED
            BY <1>3, <5>1, <5>2, <5>3 DEF MemberNodes
        <4>4. Listing(Append(d[id].members, ItemId(cursor)), MemberNodes(id)')
          BY <1>4, <2>3, <3>2, <4>1, <4>3, OneMoreListed DEF IInv
        <4> QED
          BY <3>2, <4>2, <4>4
      <3> QED
        BY <3>1, <3>2
    <2> QED
      BY <2>6, <2>7, <2>8, <2>9 DEF ItemsListed
  <1> QED
    BY <1>1, <1>2, <1>5, LoweringKeepsRest DEF DInv

LEMMA PassOverKeepsDInv ==
    ASSUME DInv, PassOver
    PROVE  DInv'
  <1>1. /\ cursor' = cursor + 1 /\ ~begun /\ IdsDone
        /\ UNCHANGED <<idVars, mapVars, collectVars, topLevel, data>>
    BY DEF PassOver, Lowering, DInv, Progress
  <1>2. UNCHANGED <<tree, ids>>
    BY <1>1 DEF idVars
  <1>3. /\ TopNodes \subseteq TopNodes' /\ \A id : MemberNodes(id) \subseteq MemberNodes(id)'
        /\ \A n : ItemId(n)' = ItemId(n)
    BY <1>1, <1>2, CursorPasses
  <1>4. \A s, N : Listing(s, N)' <=> Listing(s, N)
    BY <1>3 DEF Listing
  <1>5. Listing(topLevel', TopNodes')
    BY <1>1, <1>3, ListedInMore DEF DInv, ItemsListed
  <1>6. \A id \in DOMAIN data : Listing(data[id].members, MemberNodes(id)')
    BY <1>3, ListedInMore DEF DInv, ItemsListed
  <1>7. ItemsListed'
    BY <1>1, <1>4, <1>5, <1>6 DEF DInv, ItemsListed
  <1> QED
    BY <1>1, <1>7, LoweringKeepsRest DEF DInv

-----------------------------------------------------------------------------
(* The map of definitions: a scope is added, a definition is added. *)
LEMMA SeqsEqual ==
    ASSUME NEW s, NEW t, IsSeq(s), IsSeq(t), Len(s) = Len(t),
           \A k \in 1 .. Len(s) : s[k] = t[k]
    PROVE  s = t
  <1> DEFINE S == ToSet(s)
             T == ToSet(t)
  <1>1. s \in Seq(S) /\ t \in Seq(T)
    BY DEF IsSeq
  <1> HIDE DEF S, T
  <1>2. s = [k \in 1 .. Len(s) |-> s[k]] /\ t = [k \in 1 .. Len(t) |-> t[k]]
    BY <1>1
  <1> QED
    BY <1>2

LEMMA MapGetsScope ==
    ASSUME NEW S, NEW D, MapInv(S, D), NEW owner, NEW parent, owner \notin DOMAIN D,
           parent \in 0 .. Len(S),
           parent # NoScope => \A k \in parent + 1 .. Len(S) : S[k].parent >= parent
    PROVE  /\ MapInv(Append(S, NewScope(owner, parent)), D)
           /\ Len(Append(S, NewScope(owner, parent))) = Len(S) + 1 /\ Len(S) \in Nat
           /\ \A s \in 1 .. Len(S) : Append(S, NewScope(owner, parent))[s] = S[s]
           /\ Append(S, NewScope(owner, parent))[Len(S) + 1] = NewScope(owner, parent)
  <1> DEFINE new == NewScope(owner, parent)
             T == Append(S, new)
  <1>1. /\ IsSeq(T) /\ Len(T) = Len(S) + 1 /\ Len(S) \in Nat
        /\ \A s \in 1 .. Len(S) : T[s] = S[s]
        /\ T[Len(S) + 1] = new
    BY AppendIsSeq, IsSeqBounds DEF MapInv, ScopesTyped
  <1> HIDE DEF T
  <1>2. \A s \in 1 .. Len(T) : s \in 1 .. Len(S) \/ s = Len(S) + 1
    BY <1>1
  <1>3. \A s \in 1 .. Len(S) : s \in 1 .. Len(T)
    BY <1>1
  <1>4. DOMAIN new.byName = {} /\ IsMapScope(new) /\ new.owner = owner /\ new.parent = parent
    BY DEF NewScope, Empty, IsMapScope
  <1> HIDE DEF new
  <1>5. ScopesTyped(T)
    BY <1>1, <1>2, <1>4 DEF MapInv, ScopesTyped
  <1>6. ListsDefined(T, D)
    BY <1>1, <1>2, <1>4 DEF MapInv, ListsDefined
  <1>7. \A def \in DOMAIN D :
          D[def].scope \in 1 .. Len(T) /\ IsListed(T, def, D[def]) /\ OwnsChild(T, def, D[def])
    BY <1>1, <1>3 DEF MapInv, IsListed, OwnsChild
  <1>8. Nested(T)
    <2> SUFFICES ASSUME NEW s \in 1 .. Len(T)
                 PROVE  /\ T[s].parent \in 0 .. s - 1
                        /\ T[s].parent # NoScope =>
                             \A k \in T[s].parent + 1 .. s : T[k].parent >= T[s].parent
      BY DEF Nested
    <2>1. CASE s \in 1 .. Len(S)
      <3>1. T[s].parent = S[s].parent /\ S[s].parent \in 0 .. s - 1
        BY <1>1, <2>1 DEF MapInv, Nested
      <3>2. S[s].parent # NoScope => \A k \in S[s].parent + 1 .. s : S[k].parent >= S[s].parent
        BY <2>1 DEF MapInv, Nested
      <3>3. \A k \in S[s].parent + 1 .. s : T[k] = S[k]
        BY <1>1, <2>1, <3>1
      <3> QED
        BY <3>1, <3>2, <3>3
    <2>2. CASE s = Len(S) + 1
      <3>1. T[s].parent = parent /\ parent \in 0 .. s - 1
        BY <1>1, <1>4, <2>2
      <3>2. ASSUME parent # NoScope, NEW k \in parent + 1 .. s
            PROVE  T[k].parent >= parent
        <4>1. CASE k = s
          BY <3>1, <4>1
        <4>2. CASE k # s
          <5>1. k \in parent + 1 .. Len(S) /\ k \in 1 .. Len(S)
            BY <1>1, <2>2, <4>2
          <5> QED
            BY <1>1, <3>2, <5>1
        <4> QED
          BY <4>1, <4>2
      <3> QED
        BY <3>1, <3>2
    <2> QED
      BY <1>2, <2>1, <2>2
  <1>9. OwnersHave(T, D)
    BY <1>1, <1>2, <1>4 DEF MapInv, OwnersHave
  <1> QED
    BY <1>1, <1>5, <1>6, <1>7, <1>8, <1>9 DEF MapInv, T, new

LEMMA SameNesting ==
    ASSUME NEW S, NEW T, IsSeq(S), Nested(S), SameFrames(S, T)
    PROVE  Nested(T)
  <1> SUFFICES ASSUME NEW s \in 1 .. Len(S)
               PROVE  /\ T[s].parent \in 0 .. s - 1
                      /\ T[s].parent # NoScope =>
                           \A k \in T[s].parent + 1 .. s : T[k].parent >= T[s].parent
    BY DEF Nested, SameFrames
  <1>1. T[s].parent = S[s].parent /\ S[s].parent \in 0 .. s - 1 /\ Len(S) \in Nat
    BY IsSeqBounds DEF Nested, SameFrames
  <1>2. \A k \in S[s].parent + 1 .. s : T[k].parent = S[k].parent
    BY <1>1 DEF SameFrames
  <1> QED
    BY <1>1, <1>2 DEF Nested

LEMMA MapGetsUsings ==
    ASSUME NEW S, NEW D, MapInv(S, D), NEW scope, NEW usings
    PROVE  /\ MapInv([S EXCEPT ![scope].usings = usings], D)
           /\ SameFrames(S, [S EXCEPT ![scope].usings = usings])
  <1> DEFINE v == [S[scope] EXCEPT !.usings = usings]
             T == [S EXCEPT ![scope] = v]
  <1>1. T = [S EXCEPT ![scope].usings = usings]
    OBVIOUS
  <1>2. ASSUME scope \in 1 .. Len(S)
        PROVE  IsMapScope(v) /\ v.owner = S[scope].owner /\ v.parent = S[scope].parent
               /\ v.byName = S[scope].byName
    <2>1. IsMapScope(S[scope])
      BY <1>2 DEF MapInv, ScopesTyped
    <2>2. v = [owner |-> S[scope].owner, parent |-> S[scope].parent,
               byName |-> S[scope].byName, usings |-> usings]
      BY <2>1 DEF IsMapScope
    <2> QED
      BY <2>1, <2>2 DEF IsMapScope
  <1> HIDE DEF v
  <1>3. IsSeq(S)
    BY DEF MapInv, ScopesTyped
  <1>4. /\ IsSeq(T) /\ Len(T) = Len(S)
        /\ \A s \in 1 .. Len(S) : T[s] = IF s = scope THEN v ELSE S[s]
    <2>1. DOMAIN S = 1 .. Len(S)
      BY <1>3, IsSeqBounds
    <2>2. T = [s \in DOMAIN S |-> T[s]]
      OBVIOUS
    <2> QED
      BY <1>3, <2>1, <2>2, MappedIsSeq
  <1> HIDE DEF T
  <1>5. \A s \in 1 .. Len(S) :
          IsMapScope(T[s]) /\ T[s].owner = S[s].owner /\ T[s].parent = S[s].parent
          /\ T[s].byName = S[s].byName
    BY <1>4, <1>2 DEF MapInv, ScopesTyped
  <1>6. ScopesTyped(T)
    BY <1>4, <1>5 DEF ScopesTyped
  <1>7. ListsDefined(T, D)
    <2> SUFFICES ASSUME NEW s \in 1 .. Len(S), NEW name \in DOMAIN T[s].byName,
                        NEW def \in ToSet(T[s].byName[name].defs)
                 PROVE  def \in DOMAIN D /\ D[def].scope = s /\ D[def].name = <<name>>
      BY <1>4 DEF ListsDefined
    <2>1. T[s].byName = S[s].byName
      BY <1>5
    <2> QED
      BY <2>1 DEF MapInv, ListsDefined
  <1>8. \A def \in DOMAIN D :
          D[def].scope \in 1 .. Len(T) /\ IsListed(T, def, D[def]) /\ OwnsChild(T, def, D[def])
    BY <1>4, <1>5 DEF MapInv, IsListed, OwnsChild
  <1>9. SameFrames(S, T)
    BY <1>4, <1>5 DEF SameFrames
  <1>10. Nested(T) /\ OwnersHave(T, D)
    BY <1>3, <1>4, <1>5, <1>9, SameNesting DEF MapInv, OwnersHave
  <1> QED
    BY <1>1, <1>6, <1>7, <1>8, <1>9, <1>10 DEF MapInv

(* A definition without a name is in no list. *)
LEMMA MapGetsNameless ==
    ASSUME NEW S, NEW D, MapInv(S, D), NEW def, def \notin DOMAIN D, NEW d,
           d.name = <<>>, OwnsChild(S, def, d), d.scope \in 1 .. Len(S),
           \A s \in 1 .. Len(S) : S[s].owner = def => d.child = s
    PROVE  MapInv(S, Put(D, def, d))
  <1> DEFINE E == Put(D, def, d)
  <1>1. DOMAIN E = DOMAIN D \cup {def}
        /\ \A x \in DOMAIN E : E[x] = IF x = def THEN d ELSE D[x]
    BY DEF Put
  <1> HIDE DEF E
  <1>2. ListsDefined(S, E)
    BY <1>1 DEF MapInv, ListsDefined
  <1>3. \A x \in DOMAIN E :
          E[x].scope \in 1 .. Len(S) /\ IsListed(S, x, E[x]) /\ OwnsChild(S, x, E[x])
    BY <1>1 DEF MapInv, IsListed
  <1>4. OwnersHave(S, E)
    BY <1>1 DEF MapInv, OwnersHave
  <1> QED
    BY <1>2, <1>3, <1>4 DEF MapInv, E

(* A definition with a name is entered in its scope, or left out. *)
LEMMA MapGetsNamed ==
    ASSUME NEW S, NEW D, MapInv(S, D), NEW def, def \notin DOMAIN D,
           NEW scope \in 1 .. Len(S), NEW name, NEW child,
           OwnsChild(S, def, [name |-> <<name>>, scope |-> scope, child |-> child]),
           \A s \in 1 .. Len(S) : S[s].owner = def => child = s
    PROVE  /\ MapInv([S EXCEPT ![scope].byName = Entered(@, name, def)],
                     IF Fits(S[scope].byName, name, def)
                     THEN Put(D, def, [name |-> <<name>>, scope |-> scope, child |-> child])
                     ELSE D)
           /\ SameFrames(S, [S EXCEPT ![scope].byName = Entered(@, name, def)])
  <1> DEFINE old == S[scope].byName
             d == [name |-> <<name>>, scope |-> scope, child |-> child]
             E == IF Fits(old, name, def) THEN Put(D, def, d) ELSE D
             v == [S[scope] EXCEPT !.byName = Entered(old, name, def)]
             T == [S EXCEPT ![scope] = v]
  <1>1. T = [S EXCEPT ![scope].byName = Entered(@, name, def)]
    OBVIOUS
  <1>2. /\ v = [owner |-> S[scope].owner, parent |-> S[scope].parent,
                byName |-> v.byName, usings |-> v.usings]
        /\ v.byName = Entered(old, name, def)
    <2>1. IsMapScope(S[scope])
      BY DEF MapInv, ScopesTyped
    <2> QED
      BY <2>1 DEF IsMapScope
  <1> HIDE DEF v
  <1>3. /\ IsSeq(T) /\ Len(T) = Len(S)
        /\ \A s \in 1 .. Len(S) : T[s] = IF s = scope THEN v ELSE S[s]
    <2>1. IsSeq(S)
      BY DEF MapInv, ScopesTyped
    <2>2. DOMAIN S = 1 .. Len(S)
      BY <2>1, IsSeqBounds
    <2>3. T = [s \in DOMAIN S |-> T[s]]
      OBVIOUS
    <2> QED
      BY <2>1, <2>2, <2>3, MappedIsSeq
  <1> HIDE DEF T
  <1>4. \A s \in 1 .. Len(S) :
          /\ T[s].owner = S[s].owner /\ T[s].parent = S[s].parent
          /\ T[s].byName = IF s = scope THEN Entered(old, name, def) ELSE S[s].byName
    BY <1>3, <1>2
  <1>5. \A n \in DOMAIN old : IsSeq(old[n].defs) /\ old[n].defs # <<>>
    BY DEF MapInv, ScopesTyped, IsMapScope
  <1>8. SameFrames(S, T)
    BY <1>3, <1>4 DEF SameFrames
  <1>6. CASE ~Fits(old, name, def)
    <2>1. E = D /\ Entered(old, name, def) = old
      BY <1>6 DEF Entered
    <2> HIDE DEF E
    <2>2. v = S[scope]
      <3>1. IsMapScope(S[scope])
        BY DEF MapInv, ScopesTyped
      <3> QED
        BY <3>1, <2>1 DEF v, IsMapScope
    <2>3. T = S
      BY <2>2, <1>3, SeqsEqual DEF MapInv, ScopesTyped
    <2> QED
      BY <2>1, <2>3, <1>1, <1>8 DEF E
  <1>7. CASE Fits(old, name, def)
    <2> DEFINE list == IF name \in DOMAIN old THEN Append(old[name].defs, def) ELSE <<def>>
               entry == [namespace |-> Namespace(def), defs |-> list]
               by == Put(old, name, entry)
    <2>1. E = Put(D, def, d) /\ Entered(old, name, def) = by
      BY <1>7 DEF Entered
    <2>2. DOMAIN E = DOMAIN D \cup {def}
          /\ \A x \in DOMAIN E : E[x] = IF x = def THEN d ELSE D[x]
      BY <2>1 DEF Put
    <2>3. DOMAIN by = DOMAIN old \cup {name}
          /\ \A n \in DOMAIN by : by[n] = IF n = name THEN entry ELSE old[n]
      BY DEF Put
    <2>4. IsSeq(list) /\ list # <<>>
          /\ ToSet(list) = (IF name \in DOMAIN old THEN ToSet(old[name].defs) ELSE {}) \cup {def}
      <3>1. CASE name \in DOMAIN old
        <4>1. IsSeq(old[name].defs)
          BY <3>1, <1>5
        <4>2. /\ IsSeq(list) /\ Len(list) = Len(old[name].defs) + 1
              /\ \A i \in 1 .. Len(old[name].defs) : list[i] = old[name].defs[i]
              /\ list[Len(old[name].defs) + 1] = def
          BY <3>1, <4>1, AppendIsSeq
        <4>3. DOMAIN list = 1 .. Len(list) /\ DOMAIN old[name].defs = 1 .. Len(old[name].defs)
              /\ Len(old[name].defs) \in Nat
          BY <4>1, <4>2, IsSeqBounds
        <4> HIDE DEF list
        <4>4. ToSet(list) = ToSet(old[name].defs) \cup {def}
          <5>1. DOMAIN list = DOMAIN old[name].defs \cup {Len(old[name].defs) + 1}
            <6>1. \A m \in Nat : 1 .. m + 1 = (1 .. m) \cup {m + 1}
              OBVIOUS
            <6> QED
              BY ONLY <4>2, <4>3, <6>1
          <5>2. \A i \in DOMAIN old[name].defs : list[i] = old[name].defs[i]
            BY <4>2, <4>3
          <5> QED
            BY <4>2, <5>1, <5>2 DEF ToSet
        <4>5. list # <<>>
          BY <4>2, <4>3, EmptyIsSeq
        <4> QED
          BY <3>1, <4>2, <4>4, <4>5
      <3>2. CASE name \notin DOMAIN old
        <4>1. list = <<def>>
          BY <3>2
        <4>2. <<def>> \in Seq({def}) /\ ToSet(<<def>>) = {def}
          BY DEF ToSet
        <4>3. IsSeq(<<def>>) /\ <<def>> # <<>>
          BY <4>2, SeqIsSeq
        <4> QED
          BY <3>2, <4>1, <4>2, <4>3
      <3> QED
        BY <3>1, <3>2
    <2>5. name \in DOMAIN old => old[name].namespace = Namespace(def)
      BY <1>7 DEF Fits
    <2>6. entry.defs = list /\ entry.namespace = Namespace(def) /\ d.name = <<name>>
          /\ d.scope = scope /\ d.name # <<>> /\ d.name[1] = name /\ d.child = child
      OBVIOUS
    <2>7. OwnsChild(S, def, d)
      OBVIOUS
    <2> HIDE DEF E, by, entry, list, d, old
    <2>8. ScopesTyped(T)
      <3>1. \A n \in DOMAIN by : IsSeq(by[n].defs) /\ by[n].defs # <<>>
        BY <1>5, <2>3, <2>4, <2>6
      <3>2. IsMapScope(v)
        BY <3>1, <1>2, <2>1 DEF IsMapScope
      <3> QED
        BY <1>3, <3>2 DEF MapInv, ScopesTyped
    <2>9. ListsDefined(T, E)
      <3> SUFFICES ASSUME NEW s \in 1 .. Len(S), NEW n \in DOMAIN T[s].byName,
                          NEW x \in ToSet(T[s].byName[n].defs)
                   PROVE  x \in DOMAIN E /\ E[x].scope = s /\ E[x].name = <<n>>
        BY <1>3 DEF ListsDefined
      <3>1. CASE s = scope /\ x = def /\ n = name
        BY <3>1, <2>2, <2>6
      <3>2. CASE ~(s = scope /\ x = def /\ n = name)
        <4>1. n \in DOMAIN S[s].byName /\ x \in ToSet(S[s].byName[n].defs)
          <5>1. CASE s # scope
            BY <5>1, <1>4
          <5>2. CASE s = scope /\ n # name
            BY <5>2, <1>4, <2>1, <2>3 DEF old
          <5>3. CASE s = scope /\ n = name
            <6>1. x \in ToSet(list)
              BY <5>3, <1>4, <2>1, <2>3, <2>6
            <6>2. name \in DOMAIN old /\ x \in ToSet(old[name].defs)
              BY <5>3, <3>2, <6>1, <2>4
            <6> QED
              BY <5>3, <6>2 DEF old
          <5> QED
            BY <5>1, <5>2, <5>3
        <4>2. x \in DOMAIN D /\ D[x].scope = s /\ D[x].name = <<n>>
          BY <4>1 DEF MapInv, ListsDefined
        <4> QED
          BY <4>2, <2>2
      <3> QED
        BY <3>1, <3>2
    <2>10. ASSUME NEW x \in DOMAIN E
           PROVE  IsListed(T, x, E[x])
      <3>1. CASE x = def
        <4>1. E[x] = d
          BY <3>1, <2>2
        <4>2. T[scope].byName = by /\ by[name] = entry /\ name \in DOMAIN by
          BY <1>4, <2>1, <2>3
        <4> QED
          BY <4>1, <4>2, <3>1, <1>3, <2>4, <2>6 DEF IsListed
      <3>2. CASE x # def
        <4>1. x \in DOMAIN D /\ E[x] = D[x] /\ IsListed(S, x, D[x])
          BY <3>2, <2>2 DEF MapInv
        <4>2. \A s \in 1 .. Len(S) : \A n \in DOMAIN S[s].byName :
                /\ n \in DOMAIN T[s].byName
                /\ ToSet(S[s].byName[n].defs) \subseteq ToSet(T[s].byName[n].defs)
                /\ T[s].byName[n].namespace = S[s].byName[n].namespace
          <5> SUFFICES ASSUME NEW s \in 1 .. Len(S), NEW n \in DOMAIN S[s].byName
                       PROVE  /\ n \in DOMAIN T[s].byName
                              /\ ToSet(S[s].byName[n].defs) \subseteq ToSet(T[s].byName[n].defs)
                              /\ T[s].byName[n].namespace = S[s].byName[n].namespace
            OBVIOUS
          <5>1. CASE s # scope
            BY <5>1, <1>4
          <5>2. CASE s = scope
            <6>1. n \in DOMAIN old /\ S[s].byName = old /\ T[s].byName = by
              BY <5>2, <1>4, <2>1 DEF old
            <6> QED
              BY <6>1, <2>3, <2>4, <2>5, <2>6
          <5> QED
            BY <5>1, <5>2
        <4> DEFINE dx == E[x]
        <4>3. ASSUME dx.name # <<>>
              PROVE  /\ dx.scope \in 1 .. Len(T) /\ dx.name[1] \in DOMAIN T[dx.scope].byName
                     /\ x \in ToSet(T[dx.scope].byName[dx.name[1]].defs)
                     /\ T[dx.scope].byName[dx.name[1]].namespace = Namespace(x)
          <5>1. Len(T) = Len(S)
            BY <1>3
          <5>2. /\ dx.scope \in 1 .. Len(S) /\ dx.name[1] \in DOMAIN S[dx.scope].byName
                /\ x \in ToSet(S[dx.scope].byName[dx.name[1]].defs)
                /\ S[dx.scope].byName[dx.name[1]].namespace = Namespace(x)
            BY <4>1, <4>3 DEF IsListed
          <5> HIDE DEF dx
          <5> QED
            BY <4>2, <5>1, <5>2
        <4> QED
          BY <4>3 DEF IsListed
      <3> QED
        BY <3>1, <3>2
    <2>11. ASSUME NEW x \in DOMAIN E
           PROVE  OwnsChild(T, x, E[x])
      <3>1. OwnsChild(S, x, E[x])
        BY <2>2, <2>7 DEF MapInv
      <3> QED
        BY <3>1, <1>3, <1>4 DEF OwnsChild
    <2>12. \A x \in DOMAIN E : E[x].scope \in 1 .. Len(T)
      BY <1>3, <2>2, <2>6 DEF MapInv
    <2>13. Nested(T)
      BY <1>8, SameNesting DEF MapInv, ScopesTyped
    <2>14. OwnersHave(T, E)
      BY <1>3, <1>4, <2>2, <2>6 DEF MapInv, OwnersHave
    <2>15. MapInv(T, E)
      BY <2>8, <2>9, <2>10, <2>11, <2>12, <2>13, <2>14 DEF MapInv
    <2> QED
      BY <2>15, <1>1, <1>8 DEF E, d, old
  <1> QED
    BY <1>6, <1>7

-----------------------------------------------------------------------------
(* Collecting: one item is taken, and at most its own definition is made. *)
LEMMA ListsStay ==
    ASSUME UNCHANGED <<tree, ids, cursor>>
    PROVE  /\ TopNodes' = TopNodes /\ \A id : MemberNodes(id)' = MemberNodes(id)
           /\ \A s, N : Listing(s, N)' <=> Listing(s, N)
  <1>1. Lowered' = Lowered
    BY DEF Lowered, Keeps
  <1>2. \A n : (AtTop(n)' <=> AtTop(n)) /\ (InContainer(n)' <=> InContainer(n))
               /\ ContainerOf(n)' = ContainerOf(n) /\ ItemId(n)' = ItemId(n)
    BY DEF AtTop, InContainer, ContainerOf, Up, ItemId
  <1> QED
    BY <1>1, <1>2 DEF TopNodes, MemberNodes, Listing

LEMMA ItemAtHand ==
    ASSUME DInv, Collected, Collecting
    PROVE  /\ begun /\ file \in Nat /\ file <= Len(program)
           /\ Len(files) = file /\ FileScope \in 1 .. Len(scopes) /\ Into \in 1 .. Len(scopes)
           /\ Unused(Known, file, Item.id) /\ Def \notin Known
           /\ IF Inside THEN Item = members[1] /\ Len(members) \in Nat \ {0}
              ELSE todo # <<>> /\ Item = todo[1] /\ Len(todo) \in Nat \ {0}
  <1>1. IsSeq(members) /\ IsSeq(todo)
    BY DEF DInv, ToCollect, Listing
  <1>2. /\ members # <<>> => Head(members) = members[1] /\ Len(members) \in Nat \ {0}
        /\ todo # <<>> => Head(todo) = todo[1] /\ Len(todo) \in Nat \ {0}
    BY <1>1, TailIsSeq
  <1>3. IF Inside THEN Item = members[1] /\ Len(members) \in Nat \ {0}
        ELSE todo # <<>> /\ Item = todo[1] /\ Len(todo) \in Nat \ {0}
    BY <1>2 DEF Collecting, Inside, Item
  <1>4. Unused(Known, file, Item.id)
    BY <1>3 DEF DInv, ToCollect
  <1>5. Def.file = file /\ Def.id = Item.id
    BY DEF Def, DefOf
  <1>6. Def \notin Known
    BY <1>4, <1>5 DEF Unused
  <1>7. Len(program) \in Nat
    BY ProgramsAssumption DEF Collected
  <1>8. begun /\ file \in Nat /\ file <= Len(program)
    BY <1>7 DEF Collecting, DInv, Progress
  <1>9. Len(files) = file /\ FileScope \in 1 .. Len(scopes)
    BY <1>8 DEF DInv, Scoped
  <1>10. Into \in 1 .. Len(scopes)
    BY <1>9 DEF Into, Inside, DInv, Scoped
  <1> QED
    BY <1>3, <1>4, <1>6, <1>8, <1>9, <1>10

(* What is left is of other ids than the item taken. *)
LEMMA RestIsApart ==
    ASSUME DInv, IInv, Collected, Collecting
    PROVE  /\ \A k \in 1 .. Len(members) : ~Inside \/ k # 1 => members[k].id # Item.id
           /\ \A k \in 1 .. Len(todo) : Inside \/ k # 1 =>
                /\ todo[k].id # Item.id
                /\ \A j \in 1 .. Len(data[todo[k].id].members) :
                     data[todo[k].id].members[j].id # Item.id
           /\ ~Inside => \A j \in 1 .. Len(data[Item.id].members) :
                           data[Item.id].members[j].id # Item.id
  <1>1. IdsUnique
    BY DEF IInv
  <1>2. Listing(todo, TopNodes) /\ \A k \in 1 .. Len(todo) : todo[k].id \in DOMAIN data
    BY DEF DInv, ToCollect
  <1>3. \A id \in DOMAIN data : Listing(data[id].members, MemberNodes(id))
    BY DEF DInv, ItemsListed
  <1>4. \A k \in 1 .. Len(todo) : Listing(data[todo[k].id].members, MemberNodes(todo[k].id))
    BY <1>2, <1>3
  <1>5. CASE Inside
    <2>1. PICK id \in DOMAIN data :
             Listing(members, MemberNodes(id)) /\ \A k \in 1 .. Len(todo) : todo[k].id # id
      BY <1>5 DEF Inside, DInv, ToCollect
    <2>2. Item = members[1] /\ 1 \in 1 .. Len(members)
      BY <1>5, ItemAtHand
    <2>3. \A k \in 1 .. Len(members) : k # 1 => members[k].id # Item.id
      BY <2>1, <2>2 DEF Listing
    <2>4. \A k \in 1 .. Len(todo) : todo[k].id # Item.id
      BY <1>1, <1>2, <2>1, <2>2, ApartFromTop
    <2>5. ASSUME NEW k \in 1 .. Len(todo), NEW j \in 1 .. Len(data[todo[k].id].members)
          PROVE  data[todo[k].id].members[j].id # Item.id
      BY <1>1, <1>4, <2>1, <2>2, ApartInContainers
    <2> QED
      BY <1>5, <2>3, <2>4, <2>5
  <1>6. CASE ~Inside
    <2>1. Item = todo[1] /\ 1 \in 1 .. Len(todo)
      BY <1>6, ItemAtHand
    <2>2. \A k \in 1 .. Len(todo) : k # 1 => todo[k].id # Item.id
      BY <1>2, <2>1 DEF Listing
    <2>3. ASSUME NEW k \in 1 .. Len(todo), NEW j \in 1 .. Len(data[todo[k].id].members)
          PROVE  data[todo[k].id].members[j].id # Item.id
      BY <1>1, <1>2, <1>4, <2>1, ApartFromTop
    <2>4. members = <<>> /\ Len(members) = 0
      BY <1>6, EmptyIsSeq DEF Inside
    <2> QED
      BY <1>6, <2>1, <2>2, <2>3, <2>4
  <1> QED
    BY <1>5, <1>6

Opens == ~Inside /\ todo' = Tail(todo) /\ members' = data[Item.id].members

LEMMA TakeKeepsToCollect ==
    ASSUME DInv, IInv, Collected, Collecting, Consume \/ Opens,
           UNCHANGED <<tree, ids, cursor, data, file>>,
           Known' \subseteq Known \cup {Def}
    PROVE  ToCollect'
  <1>1. /\ TopNodes' = TopNodes /\ \A id : MemberNodes(id)' = MemberNodes(id)
        /\ \A s, N : Listing(s, N)' <=> Listing(s, N)
    BY ListsStay
  <1>2. \A id : Unused(Known, file, id) /\ id # Item.id => Unused(Known', file', id)
    BY DEF Unused, Def, DefOf
  <1>3. Listing(todo, TopNodes) /\ IsSeq(members)
    BY DEF DInv, ToCollect
  <1>4. ASSUME NEW k \in 1 .. Len(todo), Inside \/ k # 1
        PROVE  /\ todo[k].id \in DOMAIN data /\ Unused(Known', file', todo[k].id)
               /\ \A j \in 1 .. Len(data[todo[k].id].members) :
                    Unused(Known', file', data[todo[k].id].members[j].id)
    BY <1>2, <1>4, RestIsApart DEF DInv, ToCollect
  <1>5. /\ Listing(todo', TopNodes)
        /\ \A k \in 1 .. Len(todo') : \E l \in 1 .. Len(todo) :
             todo'[k] = todo[l] /\ (Inside \/ l # 1)
    <2>1. CASE Inside
      BY <2>1, <1>3 DEF Consume, Opens
    <2>2. CASE ~Inside
      <3>1. todo' = Tail(todo) /\ todo # <<>> /\ IsSeq(todo)
        BY <2>2, <1>3 DEF Consume, Opens, Collecting, Inside, Listing
      <3>2. \A i \in 1 .. Len(Tail(todo)) : Tail(todo)[i] = todo[i + 1] /\ i + 1 \in 1 .. Len(todo)
        BY <3>1, TailIsSeq
      <3> QED
        BY <3>1, <3>2, <1>3, OneLessListed
    <2> QED
      BY <2>1, <2>2
  <1>6. \A k \in 1 .. Len(todo') :
          /\ todo'[k].id \in DOMAIN data' /\ Unused(Known', file', todo'[k].id)
          /\ \A j \in 1 .. Len(data'[todo'[k].id].members) :
               Unused(Known', file', data'[todo'[k].id].members[j].id)
    BY <1>4, <1>5
  <1>7. CASE Consume
    <2>1. ASSUME NEW k \in 1 .. Len(members), ~Inside \/ k # 1
          PROVE  Unused(Known', file', members[k].id)
      BY <1>2, <2>1, RestIsApart DEF DInv, ToCollect
    <2>2. CASE Inside
      <3>1. PICK id \in DOMAIN data :
               Listing(members, MemberNodes(id)) /\ \A k \in 1 .. Len(todo) : todo[k].id # id
        BY <2>2 DEF Inside, DInv, ToCollect
      <3>2. members' = Tail(members) /\ members # <<>> /\ todo' = todo
        BY <1>7, <2>2 DEF Consume, Inside
      <3>3. /\ IsSeq(Tail(members))
            /\ \A i \in 1 .. Len(Tail(members)) :
                 Tail(members)[i] = members[i + 1] /\ i + 1 \in 1 .. Len(members) /\ i + 1 # 1
        BY <1>3, <3>2, TailIsSeq
      <3>4. \A k \in 1 .. Len(members') : Unused(Known', file', members'[k].id)
        BY <2>1, <3>2, <3>3
      <3>5. Listing(Tail(members), MemberNodes(id))
        BY <3>1, <3>2, OneLessListed
      <3>6. Listing(members, MemberNodes(id))' /\ \A k \in 1 .. Len(todo') : todo'[k].id # id
        BY <1>1, <3>1, <3>2, <3>5
      <3>7. IsSeq(members)' /\ Listing(todo, TopNodes)'
        BY <1>1, <1>5, <3>2, <3>3 DEF IsSeq, ToSet
      <3> QED
        BY <1>6, <3>4, <3>6, <3>7 DEF ToCollect
    <2>3. CASE ~Inside
      <3>1. members' = <<>> /\ Len(members') = 0
        BY <1>7, <2>3, EmptyIsSeq DEF Consume, Inside
      <3> QED
        BY <1>1, <1>5, <1>6, <3>1, EmptyIsSeq DEF ToCollect, IsSeq, ToSet
    <2> QED
      BY <2>2, <2>3
  <1>8. CASE Opens
    <2>1. Item = todo[1] /\ 1 \in 1 .. Len(todo)
      BY <1>8, ItemAtHand DEF Opens
    <2>2. /\ Item.id \in DOMAIN data
          /\ \A j \in 1 .. Len(data[Item.id].members) : Unused(Known, file, data[Item.id].members[j].id)
      BY <2>1 DEF DInv, ToCollect
    <2>3. Listing(data[Item.id].members, MemberNodes(Item.id))
      BY <2>2 DEF DInv, ItemsListed
    <2>4. members' = data[Item.id].members /\ IsSeq(data[Item.id].members)
      BY <1>8, <2>3 DEF Opens, Listing
    <2>5. \A k \in 1 .. Len(members') : Unused(Known', file', members'[k].id)
      BY <1>2, <1>8, <2>2, <2>4, RestIsApart DEF Opens
    <2>6. \A k \in 1 .. Len(todo') : todo'[k].id # Item.id
      BY <1>5, <1>8, RestIsApart DEF Opens
    <2> QED
      BY <1>1, <1>5, <1>6, <2>2, <2>3, <2>4, <2>5, <2>6 DEF ToCollect, IsSeq, ToSet
  <1> QED
    BY <1>7, <1>8

LEMMA TakeKeepsRest ==
    ASSUME DInv, IInv, Collected, Collecting,
           \/ Consume /\ inner' = inner
           \/ Opens /\ inner' \in 1 .. Len(scopes'),
           UNCHANGED <<idVars, itemVars, files, program, file, begun>>,
           Known' \subseteq Known \cup {Def},
           Len(scopes') \in Nat, Len(scopes) <= Len(scopes'),
           \A s \in FileScope + 1 .. Len(scopes') : scopes'[s].parent = FileScope
    PROVE  Progress' /\ ItemsListed' /\ ToCollect' /\ Scoped'
  <1>1. UNCHANGED <<tree, queue, visiting, ids, cursor, topLevel, data>>
    BY DEF idVars, itemVars
  <1>2. /\ TopNodes' = TopNodes /\ \A id : MemberNodes(id)' = MemberNodes(id)
        /\ \A s, N : Listing(s, N)' <=> Listing(s, N)
    BY <1>1, ListsStay
  <1>3. begun /\ file \in Nat /\ file <= Len(program) /\ FileScope \in 1 .. Len(scopes)
    BY ItemAtHand
  <1>4. Progress'
    <2>1. Len(program) \in Nat
      BY ProgramsAssumption DEF Collected
    <2> QED
      BY <1>1, <1>3, <2>1 DEF DInv, Progress, IdsDone
  <1>5. ItemsListed'
    BY <1>1, <1>2 DEF DInv, ItemsListed
  <1>6. ToCollect'
    BY <1>1, TakeKeepsToCollect
  <1>7. Scoped'
    <2>1. IsSeq(files)' /\ FileScope' = FileScope
      BY DEF DInv, Scoped, IsSeq, ToSet, FileScope
    <2>2. members' # <<>> => inner' \in 1 .. Len(scopes')
      <3>1. CASE Consume /\ inner' = inner
        <4>1. members' # <<>> => members # <<>>
          BY <3>1 DEF Consume, Inside
        <4> QED
          BY <3>1, <4>1 DEF DInv, Scoped
      <3> QED
        BY <3>1
    <2>3. Def.file = file
      BY DEF Def, DefOf
    <2> QED
      BY <1>3, <2>1, <2>2, <2>3 DEF DInv, Scoped
  <1> QED
    BY <1>4, <1>5, <1>6, <1>7

LEMMA KnownGrows ==
    ASSUME NEW def, DOMAIN defs' \subseteq DOMAIN defs \cup {def}, SameFrames(scopes, scopes')
    PROVE  Known' \subseteq Known \cup {def}
  BY DEF Known, SameFrames

LEMMA FileScopesStay ==
    ASSUME DInv, Collected, Collecting, SameFrames(scopes, scopes')
    PROVE  /\ Len(scopes') = Len(scopes) /\ Len(scopes) \in Nat
           /\ \A s \in FileScope + 1 .. Len(scopes') : scopes'[s].parent = FileScope
  <1>1. FileScope \in 1 .. Len(scopes) /\ begun /\ file <= Len(program)
    BY ItemAtHand
  <1>2. Len(scopes') = Len(scopes) /\ Len(scopes) \in Nat
    BY IsSeqBounds DEF SameFrames, DInv, MapInv, ScopesTyped
  <1>3. \A s \in FileScope + 1 .. Len(scopes) : s \in 1 .. Len(scopes)
    BY <1>1, <1>2
  <1> QED
    BY <1>1, <1>2, <1>3 DEF SameFrames, DInv, Scoped

LEMMA CollectSimpleKeepsDInv ==
    ASSUME DInv, IInv, Collected, CollectSimple
    PROVE  DInv'
  <1> DEFINE name == data[Item.id].name
  <1>1. /\ Collecting /\ Consume /\ inner' = inner
        /\ UNCHANGED <<idVars, itemVars, files, program, file, begun>>
        /\ CollectDef(Def, Into, NoScope, name)
        /\ scopes' = [scopes EXCEPT ![Into].byName = Entered(@, name, Def)]
    BY DEF CollectSimple
  <1> HIDE DEF name
  <1>2. Into \in 1 .. Len(scopes) /\ Def \notin Known
    BY <1>1, ItemAtHand
  <1>3. OwnsChild(scopes, Def, [name |-> <<name>>, scope |-> Into, child |-> NoScope])
    BY DEF OwnsChild
  <1>4. MapInv(scopes', defs') /\ SameFrames(scopes, scopes')
    <2>1. MapInv(scopes, defs)
      BY DEF DInv
    <2>2. Def \notin DOMAIN defs /\ \A s \in 1 .. Len(scopes) : scopes[s].owner # Def
      BY <1>2 DEF Known
    <2> QED
      BY <1>1, <1>2, <1>3, <2>1, <2>2, MapGetsNamed DEF CollectDef
  <1>5. Known' \subseteq Known \cup {Def}
    <2>1. DOMAIN defs' \subseteq DOMAIN defs \cup {Def}
      BY <1>1 DEF CollectDef, Put
    <2> QED
      BY <1>4, <2>1, KnownGrows
  <1>6. Len(scopes') \in Nat /\ Len(scopes) <= Len(scopes')
        /\ \A s \in FileScope + 1 .. Len(scopes') : scopes'[s].parent = FileScope
    BY <1>1, <1>4, FileScopesStay
  <1>7. Progress' /\ ItemsListed' /\ ToCollect' /\ Scoped'
    BY <1>1, <1>5, <1>6, TakeKeepsRest
  <1> QED
    BY <1>4, <1>7 DEF DInv

LEMMA CollectUsingKeepsDInv ==
    ASSUME DInv, IInv, Collected, CollectUsing
    PROVE  DInv'
  <1> DEFINE d == [name |-> <<>>, scope |-> Into, child |-> NoScope]
             usings == Append(scopes[Into].usings, Def)
  <1>1. /\ Collecting /\ Consume /\ inner' = inner
        /\ UNCHANGED <<idVars, itemVars, files, program, file, begun>>
        /\ defs' = Put(defs, Def, d) /\ scopes' = [scopes EXCEPT ![Into].usings = usings]
    BY DEF CollectUsing
  <1>2. Into \in 1 .. Len(scopes) /\ Def \notin DOMAIN defs /\ \A s \in 1 .. Len(scopes) : scopes[s].owner # Def
    BY <1>1, ItemAtHand DEF Known
  <1>3. d.name = <<>> /\ d.scope = Into /\ OwnsChild(scopes, Def, d)
    BY DEF OwnsChild
  <1> HIDE DEF d, usings
  <1>4. MapInv(scopes, defs)
    BY DEF DInv
  <1>5. MapInv(scopes, defs')
    BY <1>1, <1>2, <1>3, <1>4, MapGetsNameless
  <1>6. MapInv(scopes', defs') /\ SameFrames(scopes, scopes')
    BY <1>1, <1>5, MapGetsUsings
  <1>7. Known' \subseteq Known \cup {Def}
    <2>1. DOMAIN defs' \subseteq DOMAIN defs \cup {Def}
      BY <1>1 DEF Put
    <2> QED
      BY <1>6, <2>1, KnownGrows
  <1>8. Len(scopes') \in Nat /\ Len(scopes) <= Len(scopes')
        /\ \A s \in FileScope + 1 .. Len(scopes') : scopes'[s].parent = FileScope
    BY <1>1, <1>6, FileScopesStay
  <1>9. Progress' /\ ItemsListed' /\ ToCollect' /\ Scoped'
    BY <1>1, <1>7, <1>8, TakeKeepsRest
  <1> QED
    BY <1>6, <1>9 DEF DInv

LEMMA CollectImportKeepsDInv ==
    ASSUME DInv, IInv, Collected, CollectImport
    PROVE  DInv'
  <1> DEFINE d == [name |-> <<>>, scope |-> FileScope, child |-> NoScope]
  <1>1. /\ Collecting /\ Consume /\ inner' = inner /\ scopes' = scopes
        /\ UNCHANGED <<idVars, itemVars, files, program, file, begun>>
        /\ defs' = Put(defs, Def, d)
    BY DEF CollectImport
  <1>2. FileScope \in 1 .. Len(scopes) /\ Def \notin DOMAIN defs
        /\ \A s \in 1 .. Len(scopes) : scopes[s].owner # Def
    BY <1>1, ItemAtHand DEF Known
  <1>3. d.name = <<>> /\ d.scope = FileScope /\ OwnsChild(scopes, Def, d)
    BY DEF OwnsChild
  <1> HIDE DEF d
  <1>4. MapInv(scopes, defs)
    BY DEF DInv
  <1>5. MapInv(scopes', defs')
    BY <1>1, <1>2, <1>3, <1>4, MapGetsNameless
  <1>6. Known' \subseteq Known \cup {Def} /\ SameFrames(scopes, scopes')
    <2>1. DOMAIN defs' \subseteq DOMAIN defs \cup {Def}
      BY <1>1 DEF Put
    <2>2. SameFrames(scopes, scopes')
      BY <1>1 DEF SameFrames
    <2> QED
      BY <2>1, <2>2, KnownGrows
  <1>7. Len(scopes') \in Nat /\ Len(scopes) <= Len(scopes')
        /\ \A s \in FileScope + 1 .. Len(scopes') : scopes'[s].parent = FileScope
    BY <1>1, <1>6, FileScopesStay
  <1>8. Progress' /\ ItemsListed' /\ ToCollect' /\ Scoped'
    BY <1>1, <1>6, <1>7, TakeKeepsRest
  <1> QED
    BY <1>5, <1>8 DEF DInv

(* The scope of a container can be made first and its name entered then. *)
LEMMA EnterThenAppend ==
    ASSUME NEW S, IsSeq(S), NEW scope \in 1 .. Len(S), NEW v, NEW new,
           IsSeq([S EXCEPT ![scope] = v])
    PROVE  Append([S EXCEPT ![scope] = v], new) = [Append(S, new) EXCEPT ![scope] = v]
  <1> DEFINE T == [S EXCEPT ![scope] = v]
             U == Append(S, new)
             V == [U EXCEPT ![scope] = v]
  <1>1. Len(S) \in Nat /\ DOMAIN S = 1 .. Len(S)
    BY IsSeqBounds
  <1>2. Len(T) = Len(S) /\ \A s \in 1 .. Len(S) : T[s] = IF s = scope THEN v ELSE S[s]
    <2>1. T = [s \in DOMAIN S |-> T[s]]
      OBVIOUS
    <2>2. \A s \in 1 .. Len(S) : T[s] = IF s = scope THEN v ELSE S[s]
      BY <1>1
    <2> HIDE DEF T
    <2> QED
      BY <2>1, <2>2, MappedIsSeq
  <1>3. /\ IsSeq(U) /\ Len(U) = Len(S) + 1 /\ U[Len(S) + 1] = new
        /\ \A s \in 1 .. Len(S) : U[s] = S[s]
    BY AppendIsSeq
  <1>4. /\ IsSeq(V) /\ Len(V) = Len(S) + 1
        /\ \A s \in 1 .. Len(S) + 1 : V[s] = IF s = scope THEN v ELSE U[s]
    <2> HIDE DEF U
    <2>1. V = [s \in DOMAIN U |-> V[s]] /\ DOMAIN U = 1 .. Len(S) + 1
      BY <1>3, IsSeqBounds
    <2>2. \A s \in 1 .. Len(S) + 1 : V[s] = IF s = scope THEN v ELSE U[s]
      BY <2>1
    <2> HIDE DEF V
    <2> QED
      BY <1>3, <2>1, <2>2, MappedIsSeq
  <1> HIDE DEF T, U, V
  <1>5. /\ IsSeq(Append(T, new)) /\ Len(Append(T, new)) = Len(S) + 1
        /\ Append(T, new)[Len(S) + 1] = new
        /\ \A s \in 1 .. Len(S) : Append(T, new)[s] = T[s]
    <2>1. IsSeq(T)
      BY DEF T
    <2> QED
      BY <1>2, <2>1, AppendIsSeq
  <1>6. ASSUME NEW s \in 1 .. Len(S) + 1
        PROVE  Append(T, new)[s] = V[s]
    <2>1. CASE s \in 1 .. Len(S)
      BY <2>1, <1>2, <1>3, <1>4, <1>5
    <2>2. CASE s = Len(S) + 1
      BY <2>2, <1>1, <1>3, <1>4, <1>5
    <2>3. s \in 1 .. Len(S) \/ s = Len(S) + 1
      BY <1>1
    <2> QED
      BY <2>1, <2>2, <2>3
  <1>7. Append(T, new) = V
    BY <1>4, <1>5, <1>6, SeqsEqual
  <1> QED
    BY <1>7 DEF T, U, V

LEMMA CollectContainerKeepsDInv ==
    ASSUME DInv, IInv, Collected, CollectContainer
    PROVE  DInv'
  <1> DEFINE name == data[Item.id].name
             sub == Len(scopes) + 1
             new == NewScope(Def, FileScope)
             more == Append(scopes, new)
  <1>1. /\ Collecting /\ Opens /\ inner' = sub
        /\ UNCHANGED <<idVars, itemVars, files, program, file, begun>>
        /\ CollectDef(Def, FileScope, sub, name)
        /\ scopes' = Append([scopes EXCEPT ![FileScope].byName = Entered(@, name, Def)], new)
    BY DEF CollectContainer, Opens
  <1>2. FileScope \in 1 .. Len(scopes) /\ Def \notin DOMAIN defs
        /\ \A s \in 1 .. Len(scopes) : scopes[s].owner # Def
    BY <1>1, ItemAtHand DEF Known
  <1>13. \A s \in FileScope + 1 .. Len(scopes) : scopes[s].parent = FileScope
    BY <1>1, ItemAtHand DEF DInv, Scoped
  <1>3. MapInv(scopes, defs) /\ IsSeq(scopes)
    BY DEF DInv, MapInv, ScopesTyped
  <1>4. /\ MapInv(more, defs) /\ Len(more) = sub /\ Len(scopes) \in Nat
        /\ more[sub] = new /\ \A s \in 1 .. Len(scopes) : more[s] = scopes[s]
    <2>1. Len(scopes) \in Nat
      BY <1>3, IsSeqBounds
    <2>2. FileScope \in 0 .. Len(scopes)
          /\ \A k \in FileScope + 1 .. Len(scopes) : scopes[k].parent >= FileScope
      BY <1>2, <1>13, <2>1
    <2> QED
      BY <1>2, <1>3, <2>2, MapGetsScope
  <1>5. FileScope \in 1 .. Len(more)
    BY <1>2, <1>4
  <1>6. OwnsChild(more, Def, [name |-> <<name>>, scope |-> FileScope, child |-> sub])
    <2>1. Def.kind # "file"
      BY DEF CollectContainer, Def, DefOf, Containers
    <2>2. sub \in 1 .. Len(more)
      BY <1>4
    <2> HIDE DEF more, sub
    <2> QED
      BY <1>4, <2>1, <2>2 DEF OwnsChild, NewScope
  <1>7. scopes' = [more EXCEPT ![FileScope].byName = Entered(@, name, Def)]
    <2> DEFINE v == [scopes[FileScope] EXCEPT !.byName = Entered(@, name, Def)]
               T == [scopes EXCEPT ![FileScope] = v]
    <2>1. T = [s \in DOMAIN scopes |-> T[s]]
      OBVIOUS
    <2>2. IsSeq(T)
      <3> HIDE DEF T
      <3> QED
        BY <1>3, <2>1, MappedIsSeq
    <2>3. scopes' = Append(T, new)
      BY <1>1
    <2> HIDE DEF v, new
    <2>4. Append(T, new) = [more EXCEPT ![FileScope] = v]
      BY <1>2, <1>3, <2>2, EnterThenAppend
    <2>5. more[FileScope] = scopes[FileScope]
      BY <1>2, <1>4
    <2> QED
      BY <2>3, <2>4, <2>5 DEF v
  <1> HIDE DEF name, sub, new, more
  <1>8. \A s \in 1 .. Len(more) : more[s].owner = Def => sub = s
    <2>1. \A s \in 1 .. Len(more) : s \in 1 .. Len(scopes) \/ s = sub
      BY <1>4 DEF sub
    <2> QED
      BY <1>2, <1>4, <2>1
  <1>9. /\ MapInv([more EXCEPT ![FileScope].byName = Entered(@, name, Def)],
                  IF Fits(more[FileScope].byName, name, Def)
                  THEN Put(defs, Def, [name |-> <<name>>, scope |-> FileScope, child |-> sub])
                  ELSE defs)
        /\ SameFrames(more, [more EXCEPT ![FileScope].byName = Entered(@, name, Def)])
    BY <1>2, <1>4, <1>5, <1>6, <1>8, MapGetsNamed
  <1>10. MapInv(scopes', defs') /\ SameFrames(more, scopes')
    BY <1>1, <1>2, <1>4, <1>7, <1>9 DEF CollectDef
  <1>11. Len(scopes') = sub /\ sub = Len(scopes) + 1 /\ scopes'[sub].owner = Def
         /\ scopes'[sub].parent = FileScope
         /\ \A s \in 1 .. Len(scopes) : scopes'[s].owner = scopes[s].owner
                                        /\ scopes'[s].parent = scopes[s].parent
    <2>1. new.owner = Def /\ new.parent = FileScope /\ sub = Len(scopes) + 1
      BY DEF new, sub, NewScope
    <2>2. sub \in 1 .. Len(more) /\ \A s \in 1 .. Len(scopes) : s \in 1 .. Len(more)
      BY <1>4, <2>1
    <2> QED
      BY <1>4, <1>10, <2>1, <2>2 DEF SameFrames
  <1>12. Known' \subseteq Known \cup {Def}
    <2>1. DOMAIN defs' \subseteq DOMAIN defs \cup {Def}
      BY <1>1 DEF CollectDef, Put
    <2>2. \A s \in 1 .. Len(scopes') : s \in 1 .. Len(scopes) \/ s = sub
      BY <1>4, <1>11
    <2> QED
      BY <1>11, <2>1, <2>2 DEF Known
  <1>14. \A s \in FileScope + 1 .. Len(scopes') : scopes'[s].parent = FileScope
    <2> SUFFICES ASSUME NEW s \in FileScope + 1 .. Len(scopes'), s # sub
                 PROVE  scopes'[s].parent = FileScope
      BY <1>11
    <2>1. s \in FileScope + 1 .. Len(scopes) /\ s \in 1 .. Len(scopes)
      BY <1>2, <1>4, <1>11
    <2> QED
      BY <1>11, <1>13, <2>1
  <1>15. inner' \in 1 .. Len(scopes') /\ Len(scopes') \in Nat /\ Len(scopes) <= Len(scopes')
    BY <1>1, <1>4, <1>11
  <1>16. Progress' /\ ItemsListed' /\ ToCollect' /\ Scoped'
    BY <1>1, <1>12, <1>14, <1>15, TakeKeepsRest
  <1> QED
    BY <1>10, <1>16 DEF DInv

-----------------------------------------------------------------------------
(* The other steps: a file begins, its ids are made, it is collected, and   *)
(* in the end the imports are resolved.                                     *)
LEMMA NoItems ==
    ASSUME topLevel = <<>>, data = Empty, todo = <<>>, members = <<>>
    PROVE  ItemsListed /\ ToCollect
  <1>1. \A N : Listing(<<>>, N)
    BY NothingListed
  <1>2. IsSeq(<<>>) /\ Len(<<>>) = 0
    BY EmptyIsSeq
  <1> QED
    BY <1>1, <1>2 DEF ItemsListed, ToCollect, Empty

LEMMA StartsInDInv == DefInit => DInv
  <1> SUFFICES ASSUME DefInit
               PROVE  DInv
    OBVIOUS
  <1>1. program \in Seq(Trees) /\ program # <<>>
    BY ProgramsAssumption DEF DefInit
  <1>2. Progress
    BY <1>1 DEF DefInit, Progress
  <1>3. ItemsListed /\ ToCollect
    BY NoItems DEF DefInit
  <1>4. files = <<>> /\ scopes = <<>> /\ DOMAIN defs = {} /\ ~begun /\ members = <<>> /\ file = 1
    BY DEF DefInit, Empty
  <1>7. Known = {}
    BY <1>4, EmptyIsSeq DEF Known
  <1>5. Scoped
    BY <1>4, <1>7, EmptyIsSeq DEF Scoped
  <1>6. MapInv(scopes, defs)
    BY <1>4, EmptyIsSeq DEF MapInv, ScopesTyped, ListsDefined, Nested, OwnersHave
  <1> QED
    BY <1>2, <1>3, <1>5, <1>6 DEF DInv

LEMMA MakeIdsKeepsDInv ==
    ASSUME DInv, MakeIds
    PROVE  DInv'
  <1>1. ~IdsDone
    BY DEF MakeIds, IdsDone, Visit, Enqueue, Leave
  <1>2. /\ UNCHANGED <<cursor, topLevel, data, todo, members, scopes, defs, files, inner,
                       program, file, begun>>
        /\ topLevel = <<>> /\ data = Empty /\ todo = <<>> /\ members = <<>> /\ ~begun /\ cursor = 1
    BY <1>1 DEF MakeIds, DInv, Progress, itemVars, mapVars, collectVars
  <1>3. Progress'
    BY <1>2 DEF DInv, Progress
  <1>4. ItemsListed' /\ ToCollect'
    <2>1. topLevel' = <<>> /\ data' = Empty /\ todo' = <<>> /\ members' = <<>>
      BY <1>2
    <2>2. (topLevel = <<>> /\ data = Empty /\ todo = <<>> /\ members = <<>>
            => ItemsListed /\ ToCollect)'
      BY NoItems, PTL
    <2> QED
      BY <2>1, <2>2 DEF Empty
  <1>5. Scoped' /\ MapInv(scopes', defs')
    BY <1>2 DEF DInv, Scoped, Known, IsSeq, ToSet
  <1> QED
    BY <1>3, <1>4, <1>5 DEF DInv

LEMMA CollectFileKeepsDInv ==
    ASSUME DInv, IInv, Collected, CollectFile
    PROVE  DInv'
  <1> DEFINE def == FileDef(file)
             sub == Len(scopes) + 1
             d == [name |-> <<>>, scope |-> sub, child |-> sub]
             new == NewScope(def, NoScope)
  <1>1. /\ IdsDone /\ cursor \notin DOMAIN tree /\ ~begun /\ begun'
        /\ scopes' = Append(scopes, new)
        /\ files' = Append(files, [scope |-> sub, imported |-> <<>>])
        /\ defs' = Put(defs, def, d) /\ todo' = topLevel
        /\ UNCHANGED <<tree, queue, visiting, ids, cursor, topLevel, data, program, file, members>>
    BY DEF CollectFile, idVars, itemVars
  <1>2. members = <<>> /\ Len(members) = 0 /\ Len(program) \in Nat /\ file <= Len(program)
    BY <1>1, EmptyIsSeq, ProgramsAssumption DEF DInv, Progress, Collected
  <1>3. def.file = file /\ def.id = NoId /\ def.kind = "file"
    BY DEF FileDef
  <1>15. def \notin Known
    BY <1>1, <1>3 DEF DInv, Scoped
  <1>4. def \notin DOMAIN defs /\ \A s \in 1 .. Len(scopes) : scopes[s].owner # def
    BY <1>15 DEF Known
  <1>5. MapInv(scopes, defs)
    BY DEF DInv
  <1>6. /\ MapInv(scopes', defs) /\ Len(scopes') = sub /\ Len(scopes) \in Nat /\ scopes'[sub] = new
        /\ \A s \in 1 .. Len(scopes) : scopes'[s] = scopes[s]
    <2>1. NoScope \in 0 .. Len(scopes)
      BY <1>5, IsSeqBounds DEF MapInv, ScopesTyped, NoScope
    <2> QED
      BY <1>1, <1>4, <1>5, <2>1, MapGetsScope
  <1>16. \A s \in 1 .. Len(scopes') : s \in 1 .. Len(scopes) \/ s = sub
    BY <1>6
  <1>7. d.name = <<>> /\ OwnsChild(scopes', def, d)
    <2>1. sub \in 1 .. Len(scopes')
      BY <1>6
    <2>2. d.name = <<>> /\ d.child = sub
      OBVIOUS
    <2> HIDE DEF sub, d, def
    <2> QED
      BY <1>3, <1>6, <2>1, <2>2 DEF OwnsChild, NewScope
  <1>8. MapInv(scopes', defs')
    <2>1. d.scope \in 1 .. Len(scopes') /\ \A s \in 1 .. Len(scopes') : scopes'[s].owner = def => d.child = s
      <3>1. d.scope = sub /\ d.child = sub /\ sub \in 1 .. Len(scopes')
        BY <1>6
      <3> HIDE DEF d, def, sub, new
      <3> QED
        BY <1>4, <1>6, <1>16, <3>1
    <2> HIDE DEF d, def, sub, new
    <2> QED
      BY <1>1, <1>4, <1>6, <1>7, <2>1, MapGetsNameless
  <1>9. Known' = Known \cup {def}
    <2>1. DOMAIN defs' = DOMAIN defs \cup {def}
      BY <1>1 DEF Put
    <2>2. new.owner = def /\ sub \in 1 .. Len(scopes')
          /\ \A s \in 1 .. Len(scopes) : s \in 1 .. Len(scopes')
      BY <1>6 DEF NewScope
    <2> HIDE DEF def, new, sub, d
    <2> QED
      BY <1>6, <1>16, <2>1, <2>2 DEF Known
  <1>10. Progress'
    BY <1>1, <1>2 DEF DInv, Progress, IdsDone
  <1>11. /\ TopNodes' = TopNodes /\ \A id : MemberNodes(id)' = MemberNodes(id)
         /\ \A s, N : Listing(s, N)' <=> Listing(s, N)
    BY <1>1, ListsStay
  <1>12. ItemsListed'
    BY <1>1, <1>11 DEF DInv, ItemsListed
  <1>13. ToCollect'
    <2>1. \A n \in DOMAIN ids : Unused(Known', file', ids[n])
      <3> SUFFICES ASSUME NEW n \in DOMAIN ids, NEW x \in Known', x.file = file', x.id = ids[n]
                   PROVE  FALSE
        BY DEF Unused
      <3>1. x = def
        BY <1>1, <1>9 DEF DInv, Scoped
      <3>2. ids[n].id \in Nat
        BY DEF IInv
      <3> QED
        BY <1>3, <3>1, <3>2 DEF NoId, None
    <2>2. ASSUME NEW s, NEW N, N \subseteq DOMAIN ids, Listing(s, N), NEW k \in 1 .. Len(s)
          PROVE  Unused(Known', file', s[k].id)
      <3>1. PICK n \in N : s[k] = ItemId(n)
        BY <2>2 DEF Listing
      <3> QED
        BY <2>1, <2>2, <3>1 DEF ItemId
    <2>3. TopNodes \subseteq DOMAIN ids /\ \A id : MemberNodes(id) \subseteq DOMAIN ids
      BY DEF TopNodes, MemberNodes, Lowered, Keeps
    <2>4. \A k \in 1 .. Len(topLevel) : topLevel[k].id \in DOMAIN data
          /\ Unused(Known', file', topLevel[k].id)
      BY <2>2, <2>3 DEF DInv, ItemsListed
    <2>5. \A id \in DOMAIN data : \A j \in 1 .. Len(data[id].members) :
            Unused(Known', file', data[id].members[j].id)
      BY <2>2, <2>3 DEF DInv, ItemsListed
    <2>6. Listing(todo, TopNodes)' /\ IsSeq(members)'
      BY <1>1, <1>2, <1>11, EmptyIsSeq DEF DInv, ItemsListed
    <2> QED
      BY <1>1, <1>2, <2>4, <2>5, <2>6 DEF ToCollect
  <1>14. Scoped'
    <2>1. IsSeq(files) /\ Len(files) = file - 1 /\ file \in Nat
      BY <1>1 DEF DInv, Scoped, Progress
    <2>2. /\ IsSeq(files') /\ Len(files') = file
          /\ files'[file] = [scope |-> sub, imported |-> <<>>]
      BY <1>1, <2>1, AppendIsSeq
    <2>3. FileScope' = sub /\ sub \in 1 .. Len(scopes')
      BY <1>1, <1>6, <2>2 DEF FileScope
    <2>4. IsSeq(files)'
      BY <2>2 DEF IsSeq, ToSet
    <2>5. ASSUME NEW x \in Known'
          PROVE  x.file \in Nat /\ x.file <= file' /\ (x.file = file' => begun')
      BY <1>1, <1>3, <1>9, <2>1 DEF DInv, Scoped
    <2>6. \A s \in FileScope' + 1 .. Len(scopes') : scopes'[s].parent = FileScope'
      BY <1>6, <2>3
    <2> QED
      BY <1>1, <1>2, <2>2, <2>3, <2>4, <2>5, <2>6 DEF Scoped
  <1> QED
    BY <1>8, <1>10, <1>12, <1>13, <1>14 DEF DInv

LEMMA NextFileKeepsDInv ==
    ASSUME DInv, Collected, NextFile
    PROVE  DInv'
  <1>1. /\ begun /\ todo = <<>> /\ members = <<>> /\ file' = file + 1
        /\ UNCHANGED <<program, todo, members, inner, scopes, defs, files>>
    BY DEF NextFile, Collecting, mapVars
  <1>2. Len(program) \in Nat /\ file \in 1 .. Len(program)
    BY ProgramsAssumption DEF NextFile, Collected
  <1>3. IsSeq(files)' /\ Len(files) = file
    BY <1>1, <1>2 DEF DInv, Scoped, IsSeq, ToSet
  <1>4. \A def \in Known' : def.file \in Nat /\ def.file < file'
    <2>1. Known' = Known
      BY <1>1 DEF Known
    <2> QED
      BY <1>1, <1>2, <2>1 DEF DInv, Scoped
  <1>5. CASE file < Len(program)
    <2>1. cursor' = 1 /\ topLevel' = <<>> /\ data' = Empty /\ ~begun'
      BY <1>5 DEF NextFile
    <2>2. Progress'
      BY <1>1, <1>2, <1>5, <2>1 DEF Progress
    <2>3. ItemsListed' /\ ToCollect'
      <3>1. topLevel' = <<>> /\ data' = Empty /\ todo' = <<>> /\ members' = <<>>
        BY <1>1, <2>1
      <3>2. (topLevel = <<>> /\ data = Empty /\ todo = <<>> /\ members = <<>>
              => ItemsListed /\ ToCollect)'
        BY NoItems, PTL
      <3> QED
        BY <3>1, <3>2 DEF Empty
    <2>4. Scoped'
      BY <1>1, <1>2, <1>3, <1>4, <2>1 DEF Scoped
    <2> QED
      BY <1>1, <2>2, <2>3, <2>4 DEF DInv
  <1>6. CASE ~(file < Len(program))
    <2>1. UNCHANGED <<tree, queue, visiting, ids, cursor, topLevel, data, begun>>
      BY <1>6 DEF NextFile, idVars, itemVars
    <2>2. /\ TopNodes' = TopNodes /\ \A id : MemberNodes(id)' = MemberNodes(id)
          /\ \A s, N : Listing(s, N)' <=> Listing(s, N)
      BY <2>1, ListsStay
    <2>3. Progress'
      BY <1>1, <1>2, <2>1 DEF DInv, Progress, IdsDone
    <2>4. ItemsListed'
      BY <2>1, <2>2 DEF DInv, ItemsListed
    <2>5. ToCollect'
      <3>1. Listing(todo, TopNodes)' /\ IsSeq(members)' /\ Len(todo') = 0 /\ Len(members') = 0
        BY <1>1, <2>2, NothingListed, EmptyIsSeq
      <3> QED
        BY <1>1, <3>1 DEF ToCollect
    <2>6. Scoped'
      BY <1>1, <1>2, <1>3, <1>4, <1>6, <2>1 DEF Scoped
    <2> QED
      BY <1>1, <2>3, <2>4, <2>5, <2>6 DEF DInv
  <1> QED
    BY <1>5, <1>6

LEMMA RestKeepsDInv ==
    ASSUME DInv, Collected,
           UNCHANGED <<idVars, itemVars, defs, collectVars>>,
           MapInv(scopes', defs), Len(files') = Len(files), IsSeq(files)',
           AllCollected \/ UNCHANGED <<scopes, files>>, SameFrames(scopes, scopes')
    PROVE  DInv'
  <1>1. UNCHANGED <<tree, queue, visiting, ids, cursor, topLevel, data, defs, program, file,
                    begun, todo, members, inner>>
    BY DEF idVars, itemVars, collectVars
  <1>2. /\ TopNodes' = TopNodes /\ \A id : MemberNodes(id)' = MemberNodes(id)
        /\ \A s, N : Listing(s, N)' <=> Listing(s, N)
    BY <1>1, ListsStay
  <1>3. Progress'
    BY <1>1 DEF DInv, Progress, IdsDone
  <1>4. ItemsListed'
    BY <1>1, <1>2 DEF DInv, ItemsListed
  <1>8. Known' = Known
    BY <1>1 DEF Known, SameFrames
  <1>5. ToCollect'
    BY <1>1, <1>2, <1>8 DEF DInv, ToCollect, IsSeq, ToSet
  <1>6. Len(program) \in Nat /\ file \in Nat
    BY ProgramsAssumption DEF Collected
  <1>7. Scoped'
    <2>1. CASE AllCollected
      <3>1. file > Len(program) /\ begun /\ members = <<>>
        BY <2>1 DEF AllCollected, DInv, Progress
      <3> QED
        BY <1>1, <1>6, <1>8, <3>1 DEF DInv, Scoped
    <2>2. CASE UNCHANGED <<scopes, files>>
      BY <1>1, <1>8, <2>2 DEF DInv, Scoped, FileScope
    <2> QED
      BY <2>1, <2>2
  <1> QED
    BY <1>1, <1>3, <1>4, <1>5, <1>7 DEF DInv

LEMMA ResolveImportKeepsDInv ==
    ASSUME DInv, Collected, ResolveImport
    PROVE  DInv'
  <1>1. PICK f \in Pending :
           LET dep == files[Head(unresolved[f])]
           IN /\ files' = [files EXCEPT ![f].imported =
                             PushAll(PushUnique(@, dep.scope), dep.imported)]
              /\ scopes' = [scopes EXCEPT ![files[f].scope].usings =
                              PushAll(@, GlobalUsings(dep.scope))]
    BY DEF ResolveImport
  <1>2. MapInv(scopes, defs) /\ IsSeq(files)
    BY DEF DInv, Scoped
  <1>3. MapInv(scopes', defs) /\ SameFrames(scopes, scopes')
    <2> DEFINE usings == PushAll(scopes[files[f].scope].usings,
                                 GlobalUsings(files[Head(unresolved[f])].scope))
    <2>1. scopes' = [scopes EXCEPT ![files[f].scope].usings = usings]
      BY <1>1
    <2> HIDE DEF usings
    <2> QED
      BY <1>2, <2>1, MapGetsUsings
  <1>4. IsSeq(files') /\ Len(files') = Len(files)
    <2>1. files' = [k \in DOMAIN files |-> files'[k]]
      BY <1>1
    <2> QED
      BY <1>2, <2>1, MappedIsSeq
  <1>5. IsSeq(files)'
    BY <1>4 DEF IsSeq, ToSet
  <1> QED
    BY <1>3, <1>4, <1>5, RestKeepsDInv DEF ResolveImport

LEMMA DInvInductive == DInv /\ IInv /\ Collected /\ [DefNext]_defVars => DInv'
  <1> SUFFICES ASSUME DInv, IInv, Collected, [DefNext]_defVars
               PROVE  DInv'
    OBVIOUS
  <1>1. CASE MakeIds
    BY <1>1, MakeIdsKeepsDInv
  <1>2. CASE LowerTop
    BY <1>2, LowerTopKeepsDInv
  <1>3. CASE LowerMember
    BY <1>3, LowerMemberKeepsDInv
  <1>4. CASE PassOver
    BY <1>4, PassOverKeepsDInv
  <1>5. CASE CollectFile
    BY <1>5, CollectFileKeepsDInv
  <1>6. CASE CollectSimple
    BY <1>6, CollectSimpleKeepsDInv
  <1>7. CASE CollectUsing
    BY <1>7, CollectUsingKeepsDInv
  <1>8. CASE CollectImport
    BY <1>8, CollectImportKeepsDInv
  <1>9. CASE CollectContainer
    BY <1>9, CollectContainerKeepsDInv
  <1>10. CASE NextFile
    BY <1>10, NextFileKeepsDInv
  <1>11. CASE ResolveImport
    BY <1>11, ResolveImportKeepsDInv
  <1>12. CASE UNCHANGED defVars
    <2>1. UNCHANGED <<idVars, itemVars, defs, collectVars, scopes, files>>
      BY <1>12 DEF defVars, mapVars
    <2>2. IsSeq(files)'
      BY <2>1 DEF DInv, Scoped, IsSeq, ToSet
    <2>3. MapInv(scopes', defs) /\ SameFrames(scopes, scopes')
      BY <2>1 DEF DInv, SameFrames
    <2> QED
      BY <2>1, <2>2, <2>3, RestKeepsDInv
  <1> QED
    BY <1>1, <1>2, <1>3, <1>4, <1>5, <1>6, <1>7, <1>8, <1>9, <1>10, <1>11, <1>12 DEF DefNext

(* Whatever the files of the source root hold, and at every moment of their *)
(* collection, the definitions and the scopes agree: a definition that is   *)
(* listed under a name is in the map with that name and scope, a named one  *)
(* in the map is listed, and the scope of a container or file is its own.   *)
THEOREM DefinitionsMatchScopes == DefSpec => []DefsMatchScopes
  <1>1. DefInit => IInv /\ Collected /\ DInv
    BY StartsCollected, StartsInDInv, StartsInIInv DEF IdsInit
  <1>2. IInv /\ Collected /\ DInv /\ [DefNext]_defVars => (IInv /\ Collected /\ DInv)'
    BY StepImplementsIds, IInvInductive, DInvInductive
  <1>3. DInv => DefsMatchScopes
    BY MapInvMatches DEF DInv
  <1> QED
    BY <1>1, <1>2, <1>3, PTL DEF DefSpec

-----------------------------------------------------------------------------
(* Every node that is due an id gets one: a supported child of a node with  *)
(* an id has one, or is in the queue, or is still to be looked at.          *)
Queued(n) == \E k \in 1 .. Len(queue) : queue[k].node = n

Reached ==
    /\ tree \in Trees /\ DOMAIN ids \subseteq {0} \cup DOMAIN tree /\ lastChild \in Nat
    /\ 0 \in DOMAIN ids \/ Queued(0)
    /\ \A n \in DOMAIN tree : n \in DOMAIN ids \/ Queued(n) =>
         tree[n].kind \in Supported /\ Up(n) \in DOMAIN ids
    /\ \A n \in DOMAIN tree : tree[n].kind \in Supported /\ Up(n) \in DOMAIN ids =>
         n \in DOMAIN ids \/ Queued(n) \/ (Up(n) = visiting /\ n > lastChild)

(* The nodes N of a tree t that have an id when all are visited *)
Closed(t, N) ==
    /\ 0 \in N /\ N \subseteq {0} \cup DOMAIN t
    /\ \A n \in DOMAIN t : n \in N <=> t[n].kind \in Supported /\ t[n].up \in N

-----------------------------------------------------------------------------
(* Every node that is to be lowered is in the lists, in document order. *)
In(s, n) == \E k \in 1 .. Len(s) : s[k].id = ids[n]
InOrder(s) ==
    \A k, l \in 1 .. Len(s) : \A m, n \in DOMAIN ids :
        k < l /\ s[k].id = ids[m] /\ s[l].id = ids[n] => m < n
Lists(s, N) == (\A n \in N : In(s, n)) /\ InOrder(s)

ItemsHeld ==
    /\ Lists(topLevel, TopNodes)
    /\ \A n \in Lowered : AtTop(n) \/ InContainer(n) =>
         ids[n] \in DOMAIN data /\ data[ids[n]].name = tree[n].name
    /\ \A id \in DOMAIN data : Lists(data[id].members, MemberNodes(id))

-----------------------------------------------------------------------------
(* The items of a tree t whose nodes N have ids, as they are to be mapped:  *)
(* which are lowered, which of them come before another under its name in   *)
(* the same place, and which are entered under theirs.                      *)
Unnamed == {"import", "using"}
PlaceIn(t, n) == IF t[n].up # 0 /\ t[t[n].up].kind = "body" THEN t[t[n].up].up ELSE 0
KeptIn(t, N, n) ==
    /\ n \in N /\ (t[n].kind = "udvt" => "type" \in DOMAIN t[n])
    /\ \/ t[n].up = 0 /\ t[n].kind \in Items
       \/ /\ t[n].kind \in MemberKinds /\ PlaceIn(t, n) # 0
          /\ t[PlaceIn(t, n)].up = 0 /\ t[PlaceIn(t, n)].kind \in Containers
SpaceIn(t, n) == Namespace([kind |-> DefKind(t[n].kind)])
SameNameIn(t, N, k, n) ==
    /\ KeptIn(t, N, k) /\ t[k].kind \notin Unnamed
    /\ PlaceIn(t, k) = PlaceIn(t, n) /\ t[k].name = t[n].name
RivalsIn(t, N, n) == {k \in DOMAIN t : k < n /\ SameNameIn(t, N, k, n)}
TakenIn(t, N, n) ==
    /\ t[n].kind \notin Unnamed
    /\ \E k \in RivalsIn(t, N, n) :
        /\ \A m \in RivalsIn(t, N, n) : k <= m
        /\ SpaceIn(t, k) # SpaceIn(t, n) \/ SpaceIn(t, n) \in NoOverloads
DefIn(f, t, I, n) == [file |-> f, kind |-> DefKind(t[n].kind), id |-> I[n]]

(* A file that is collected has the definitions of those nodes. *)
FileMapped(f, t, I) ==
    /\ FileDef(f) \in DOMAIN defs /\ Closed(t, DOMAIN I)
    /\ \A n \in DOMAIN t : (n \in DOMAIN I /\ t[n].kind \in Items) =>
         (DefIn(f, t, I, n) \in DOMAIN defs <=>
            KeptIn(t, DOMAIN I, n) /\ ~TakenIn(t, DOMAIN I, n))

FilesMapped ==
    /\ IsSeq(astIds) /\ Len(astIds) = file - 1
    /\ \A f \in 1 .. file - 1 : FileMapped(f, program[f], astIds[f])

(* The file at hand *)
Kept(n) == n \in DOMAIN tree /\ KeptIn(tree, DOMAIN ids, n)
Place(n) == PlaceIn(tree, n)
IsNamed(n) == tree[n].kind \notin Unnamed
DefAt(n) == DefIn(file, tree, ids, n)
Waiting(n) ==
    \/ In(todo, n) \/ In(members, n)
    \/ Place(n) # 0 /\ In(todo, Place(n))
Done(n) == Kept(n) /\ ~Waiting(n)

(* The names of a scope are those of the nodes collected for it, each with  *)
(* the namespace of the first.                                              *)
Like(k, c, name) == Done(k) /\ IsNamed(k) /\ Place(k) = c /\ tree[k].name = name
NamesOf(byName, c) ==
    /\ \A n \in DOMAIN tree : Done(n) /\ IsNamed(n) /\ Place(n) = c => tree[n].name \in DOMAIN byName
    /\ \A name \in DOMAIN byName : \E k \in DOMAIN tree :
         /\ Like(k, c, name) /\ byName[name].namespace = SpaceIn(tree, k)
         /\ \A m \in DOMAIN tree : Like(m, c, name) => k <= m

Mapping ==
    /\ InOrder(todo) /\ InOrder(members)
    /\ \A m, n \in DOMAIN tree : Done(m) /\ Kept(n) /\ Waiting(n) /\ Place(m) = Place(n) => m < n
    /\ NamesOf(scopes[FileScope].byName, 0)
    /\ \A n \in DOMAIN tree : Kept(n) /\ In(members, n) => NamesOf(scopes[inner].byName, Place(n))
    /\ members # <<>> => inner # FileScope
    /\ FileDef(file) \in DOMAIN defs
    /\ \A n \in DOMAIN tree : Done(n) => (DefAt(n) \in DOMAIN defs <=> ~TakenIn(tree, DOMAIN ids, n))
    /\ \A def \in DOMAIN defs : def.file = file =>
         def = FileDef(file) \/ \E n \in DOMAIN tree : Done(n) /\ def = DefAt(n)

MapsFiles ==
    /\ Reached /\ ItemsHeld /\ FilesMapped
    /\ file <= Len(program) => tree = program[file]
    /\ begun /\ file <= Len(program) => Mapping

-----------------------------------------------------------------------------
LEMMA UpIsBefore ==
    ASSUME Reached, NEW n \in DOMAIN tree
    PROVE  n \in Nat \ {0} /\ Up(n) \in 0 .. n - 1
  BY TreesAssumption DEF Reached, Up

LEMMA StartsReached ==
    ASSUME NEW t \in Trees, IdsStart(t)
    PROVE  Reached
  <1>1. queue = <<[node |-> 0, parent |-> NoParent]>> /\ tree = t /\ DOMAIN ids = {} /\ lastChild = 0
    BY DEF IdsStart, Empty
  <1>2. Len(queue) = 1 /\ queue[1].node = 0
    BY <1>1
  <1>3. \A n : Queued(n) <=> n = 0
    BY <1>2 DEF Queued
  <1>4. \A n \in DOMAIN tree : n # 0
    BY <1>1, TreesAssumption
  <1> QED
    BY <1>1, <1>3, <1>4 DEF Reached

LEMMA BeginsReached ==
    ASSUME NEW t \in Trees, IdsBegin(t)
    PROVE  Reached'
  <1>1. /\ queue' = <<[node |-> 0, parent |-> NoParent]>> /\ tree' = t /\ DOMAIN ids' = {} /\ lastChild' = 0
    BY DEF IdsBegin, Empty
  <1>2. Len(queue') = 1 /\ queue'[1].node = 0
    BY <1>1
  <1>3. \A n : Queued(n)' <=> n = 0
    BY <1>2 DEF Queued
  <1>4. \A n \in DOMAIN tree' : n # 0
    BY <1>1, TreesAssumption
  <1> QED
    BY <1>1, <1>3, <1>4 DEF Reached

LEMMA VisitKeepsReached ==
    ASSUME IInv, Reached, Visit
    PROVE  Reached'
  <1> DEFINE n == Head(queue).node
  <1>1. /\ visiting = None /\ queue # <<>> /\ queue' = Tail(queue) /\ tree' = tree
        /\ DOMAIN ids' = DOMAIN ids \cup {n} /\ visiting' = n /\ lastChild' = n
    BY DEF Visit, Put
  <1> DEFINE S == [node : {0} \cup DOMAIN tree, parent : Parents]
  <1>2. queue \in Seq(S)
    BY DEF IInv
  <1>3. Head(queue) \in S
    <2> HIDE DEF S
    <2> QED
      BY <1>1, <1>2
  <1>4. n \in {0} \cup DOMAIN tree /\ n \in Nat
    BY <1>3, UpIsBefore
  <1>5. /\ Len(queue) \in Nat \ {0} /\ Head(queue) = queue[1] /\ Len(Tail(queue)) = Len(queue) - 1
        /\ \A k \in 1 .. Len(Tail(queue)) : Tail(queue)[k] = queue[k + 1]
    <2> HIDE DEF S, n
    <2> QED
      BY <1>1, <1>2
  <1> HIDE DEF S
  <1>6. Queued(n)
    BY <1>5 DEF Queued
  <1>7. \A m : Queued(m)' => Queued(m)
    <2> SUFFICES ASSUME NEW m, NEW k \in 1 .. Len(Tail(queue)), Tail(queue)[k].node = m
                 PROVE  Queued(m)
      BY <1>1 DEF Queued
    <2>1. k + 1 \in 1 .. Len(queue) /\ queue[k + 1].node = m
      BY <1>5
    <2> QED
      BY <2>1 DEF Queued
  <1>8. \A m : Queued(m) => m = n \/ Queued(m)'
    <2> SUFFICES ASSUME NEW m, NEW k \in 1 .. Len(queue), queue[k].node = m, k # 1
                 PROVE  Queued(m)'
      BY <1>5 DEF Queued
    <2>1. k - 1 \in 1 .. Len(Tail(queue)) /\ Tail(queue)[k - 1] = queue[k]
      BY <1>5
    <2> QED
      BY <1>1, <2>1 DEF Queued
  <1> HIDE DEF n
  <1>9. ASSUME NEW m \in DOMAIN tree, m \in DOMAIN ids' \/ Queued(m)'
        PROVE  tree[m].kind \in Supported /\ Up(m) \in DOMAIN ids'
    BY <1>1, <1>6, <1>7, <1>9 DEF Reached
  <1>10. ASSUME NEW m \in DOMAIN tree, tree[m].kind \in Supported, Up(m) \in DOMAIN ids'
         PROVE  m \in DOMAIN ids' \/ Queued(m)' \/ (Up(m) = visiting' /\ m > lastChild')
    <2>1. m \in Nat /\ Up(m) \in Nat /\ Up(m) < m
      BY UpIsBefore
    <2>2. CASE Up(m) = n
      BY <1>1, <2>1, <2>2
    <2>3. CASE Up(m) # n
      BY <1>1, <1>8, <1>10, <2>1, <2>3 DEF Reached, None
    <2> QED
      BY <2>2, <2>3
  <1>11. Up(0)' = Up(0) /\ \A m : Up(m)' = Up(m)
    BY <1>1 DEF Up
  <1>12. DOMAIN ids' \subseteq {0} \cup DOMAIN tree' /\ (0 \in DOMAIN ids' \/ Queued(0)')
    BY <1>1, <1>4, <1>8 DEF Reached
  <1> QED
    BY <1>1, <1>4, <1>9, <1>10, <1>11, <1>12 DEF Reached

LEMMA EnqueueKeepsReached ==
    ASSUME IInv, Reached, Enqueue
    PROVE  Reached'
  <1>1. PICK m \in LaterChildren :
          /\ \A k \in LaterChildren : m <= k
          /\ queue' = Append(queue, [node |-> m, parent |-> IF visiting = 0 THEN NoParent
                                                            ELSE ids[visiting].id])
          /\ lastChild' = m
    BY DEF Enqueue
  <1>2. UNCHANGED <<tree, visiting, ids>> /\ visiting # None /\ visiting \in DOMAIN ids
    BY DEF Enqueue, IInv
  <1>3. m \in DOMAIN tree /\ m \in Nat /\ Up(m) = visiting /\ tree[m].kind \in Supported
    BY UpIsBefore DEF LaterChildren, Child
  <1> DEFINE e == [node |-> m, parent |-> IF visiting = 0 THEN NoParent ELSE ids[visiting].id]
             S == [node : {0} \cup DOMAIN tree, parent : Parents]
  <1>4. queue \in Seq(S) /\ e.node = m /\ queue' = Append(queue, e)
    BY <1>1 DEF IInv
  <1> HIDE DEF e, S
  <1>5. /\ Len(queue) \in Nat /\ Len(queue') = Len(queue) + 1 /\ queue'[Len(queue) + 1] = e
        /\ \A k \in 1 .. Len(queue) : queue'[k] = queue[k]
    BY <1>4
  <1>6. \A n : Queued(n)' <=> Queued(n) \/ n = m
    <2>1. \A k \in 1 .. Len(queue') : k \in 1 .. Len(queue) \/ k = Len(queue) + 1
      BY <1>5
    <2>2. \A k \in 1 .. Len(queue) : k \in 1 .. Len(queue')
      BY <1>5
    <2>3. Len(queue) + 1 \in 1 .. Len(queue')
      BY <1>5
    <2> QED
      BY <1>4, <1>5, <2>1, <2>2, <2>3 DEF Queued
  <1>7. ASSUME NEW n \in DOMAIN tree, tree[n].kind \in Supported, Up(n) \in DOMAIN ids
        PROVE  n \in DOMAIN ids \/ Queued(n)' \/ (Up(n) = visiting /\ n > m)
    <2>1. n \in Nat
      BY UpIsBefore
    <2>2. CASE Up(n) = visiting /\ n > lastChild
      <3>1. n \in LaterChildren
        BY <1>7, <2>2 DEF LaterChildren, Child
      <3> QED
        BY <1>1, <1>3, <1>6, <2>1, <2>2, <3>1
    <2>3. CASE ~(Up(n) = visiting /\ n > lastChild)
      BY <1>6, <1>7, <2>3 DEF Reached
    <2> QED
      BY <2>2, <2>3
  <1>8. \A n : Up(n)' = Up(n)
    BY <1>2 DEF Up
  <1> QED
    BY <1>1, <1>2, <1>3, <1>6, <1>7, <1>8 DEF Reached

LEMMA LeaveKeepsReached ==
    ASSUME Reached, Leave
    PROVE  Reached'
  <1>1. UNCHANGED <<tree, queue, lastChild, ids>> /\ LaterChildren = {}
    BY DEF Leave
  <1>2. \A n \in DOMAIN tree : ~(tree[n].kind \in Supported /\ Up(n) = visiting /\ n > lastChild)
    BY <1>1 DEF LaterChildren, Child
  <1>3. \A n : (Queued(n)' <=> Queued(n)) /\ Up(n)' = Up(n)
    BY <1>1 DEF Queued, Up
  <1> QED
    BY <1>1, <1>2, <1>3 DEF Reached

LEMMA ReachedInductive == Reached /\ IInv /\ [IdsNext]_idVars => Reached'
  <1> SUFFICES ASSUME Reached, IInv, [IdsNext]_idVars
               PROVE  Reached'
    OBVIOUS
  <1>1. CASE Visit
    BY <1>1, VisitKeepsReached
  <1>2. CASE Enqueue
    BY <1>2, EnqueueKeepsReached
  <1>3. CASE Leave
    BY <1>3, LeaveKeepsReached
  <1>4. CASE \E t \in Trees : IdsBegin(t)
    BY <1>4, BeginsReached
  <1>5. CASE UNCHANGED idVars
    BY <1>5 DEF idVars, Reached, Queued, Up
  <1> QED
    BY <1>1, <1>2, <1>3, <1>4, <1>5 DEF IdsNext

LEMMA ReachedAll == Reached /\ IInv /\ IdsDone => Closed(tree, DOMAIN ids)
  <1> SUFFICES ASSUME Reached, IInv, IdsDone
               PROVE  Closed(tree, DOMAIN ids)
    OBVIOUS
  <1>1. Len(queue) = 0 /\ visiting = None
    BY DEF IdsDone
  <1>2. \A n : ~Queued(n)
    BY <1>1 DEF Queued
  <1>3. \A n \in DOMAIN tree : Up(n) # visiting
    BY <1>1, UpIsBefore DEF None
  <1> QED
    BY <1>2, <1>3 DEF Reached, Closed, Up

(* Every node of the file that is due an id gets one, however the items     *)
(* nest: those that are supported and below none that is not (ast_id.rs).   *)
THEOREM ItemsHaveIds == IdsSpec => [](IdsDone => Closed(tree, DOMAIN ids))
  <1>1. IdsInit => IInv /\ Reached
    BY StartsInIInv, StartsReached DEF IdsInit
  <1> QED
    BY <1>1, IInvInductive, ReachedInductive, ReachedAll, PTL DEF IdsSpec

-----------------------------------------------------------------------------
(* Lowering lists the nodes in document order and leaves none out. *)
LEMMA OneMoreInOrder ==
    ASSUME IdsUnique, NEW N \in SUBSET DOMAIN ids, NEW s, Listing(s, N), Lists(s, N),
           NEW n \in DOMAIN ids, \A m \in N : m < n
    PROVE  Lists(Append(s, ItemId(n)), N \cup {n})
  <1> DEFINE t == Append(s, ItemId(n))
  <1>1. IsSeq(s) /\ Len(s) \in Nat
    BY IsSeqBounds DEF Listing
  <1>2. /\ Len(t) = Len(s) + 1 /\ t[Len(s) + 1] = ItemId(n)
        /\ \A i \in 1 .. Len(s) : t[i] = s[i]
    BY <1>1, AppendIsSeq
  <1> HIDE DEF t
  <1>3. /\ \A k \in 1 .. Len(t) : k \in 1 .. Len(s) \/ k = Len(s) + 1
        /\ \A k \in 1 .. Len(s) : k \in 1 .. Len(t)
        /\ Len(s) + 1 \in 1 .. Len(t)
    BY <1>1, <1>2
  <1>4. \A m \in N \cup {n} : In(t, m)
    <2>1. \A m \in N : In(s, m)
      BY DEF Lists
    <2>2. t[Len(s) + 1].id = ids[n]
      BY <1>2 DEF ItemId
    <2> QED
      BY <1>2, <1>3, <2>1, <2>2 DEF In
  <1>5. InOrder(t)
    <2> SUFFICES ASSUME NEW k \in 1 .. Len(t), NEW l \in 1 .. Len(t),
                        NEW a \in DOMAIN ids, NEW b \in DOMAIN ids,
                        k < l, t[k].id = ids[a], t[l].id = ids[b]
                 PROVE  a < b
      BY DEF InOrder
    <2>1. k \in 1 .. Len(s)
      BY <1>1, <1>2, <1>3
    <2>2. CASE l \in 1 .. Len(s)
      BY <1>2, <2>1, <2>2 DEF Lists, InOrder
    <2>3. CASE l = Len(s) + 1
      <3>1. b = n
        BY <1>2, <2>3 DEF ItemId, IdsUnique
      <3>2. PICK m \in N : s[k] = ItemId(m)
        BY <2>1 DEF Listing
      <3>3. a = m
        BY <1>2, <2>1, <3>2 DEF ItemId, IdsUnique
      <3> QED
        BY <3>1, <3>2, <3>3
    <2> QED
      BY <1>3, <2>2, <2>3
  <1> QED
    BY <1>4, <1>5 DEF Lists, t

LEMMA NothingLeftOut == Lists(<<>>, {})
  BY EmptyIsSeq DEF Lists, In, InOrder

LEMMA LoweredGrows ==
    ASSUME DInv, cursor \in DOMAIN tree, cursor' = cursor + 1, UNCHANGED <<tree, ids>>
    PROVE  /\ \A n \in Lowered : n < cursor /\ n \in DOMAIN ids
           /\ Lowered' = IF Keeps(cursor) THEN Lowered \cup {cursor} ELSE Lowered
           /\ \A n : /\ AtTop(n)' <=> AtTop(n)
                     /\ InContainer(n)' <=> InContainer(n)
                     /\ ContainerOf(n)' = ContainerOf(n)
           /\ TopNodes' = IF Keeps(cursor) /\ AtTop(cursor) THEN TopNodes \cup {cursor} ELSE TopNodes
           /\ \A id : MemberNodes(id)' =
                IF Keeps(cursor) /\ InContainer(cursor) /\ ids[ContainerOf(cursor)] = id
                THEN MemberNodes(id) \cup {cursor} ELSE MemberNodes(id)
           /\ \A s, N : Lists(s, N)' <=> Lists(s, N)
  <1>1. cursor \in Nat
    BY DEF DInv, Progress
  <1>2. \A n : /\ AtTop(n)' <=> AtTop(n)
               /\ InContainer(n)' <=> InContainer(n)
               /\ ContainerOf(n)' = ContainerOf(n)
               /\ Keeps(n)' <=> Keeps(n)
    BY DEF AtTop, InContainer, ContainerOf, Up, Keeps
  <1>3. \A n \in Lowered : n < cursor /\ n \in DOMAIN ids
    BY DEF Lowered, Keeps
  <1>4. \A n : n \in Lowered' <=> n \in Lowered \/ (n = cursor /\ Keeps(cursor))
    <2>1. \A n \in Nat : n < cursor' <=> n < cursor \/ n = cursor
      BY <1>1
    <2> QED
      BY <1>1, <1>2, <2>1 DEF Lowered
  <1>5. Lowered' = IF Keeps(cursor) THEN Lowered \cup {cursor} ELSE Lowered
    BY <1>4
  <1>6. TopNodes' = IF Keeps(cursor) /\ AtTop(cursor) THEN TopNodes \cup {cursor} ELSE TopNodes
    BY <1>2, <1>4 DEF TopNodes
  <1>7. ASSUME NEW id
        PROVE  MemberNodes(id)' =
                 IF Keeps(cursor) /\ InContainer(cursor) /\ ids[ContainerOf(cursor)] = id
                 THEN MemberNodes(id) \cup {cursor} ELSE MemberNodes(id)
    BY <1>2, <1>4 DEF MemberNodes
  <1>8. \A s, N : Lists(s, N)' <=> Lists(s, N)
    BY DEF Lists, In, InOrder
  <1> QED
    BY <1>2, <1>3, <1>5, <1>6, <1>7, <1>8

(* The container of a member is at the top, has an id, and is lowered       *)
(* before the member.                                                       *)
LEMMA ContainerIsKept ==
    ASSUME Reached, NEW n \in DOMAIN tree, n \in DOMAIN ids, InContainer(n)
    PROVE  /\ ContainerOf(n) \in DOMAIN tree /\ ContainerOf(n) \in Nat /\ ContainerOf(n) < n
           /\ AtTop(ContainerOf(n)) /\ Keeps(ContainerOf(n))
           /\ tree[ContainerOf(n)].kind \in Containers
  <1>1. Up(n) # 0 /\ ContainerOf(n) = Up(Up(n)) /\ Up(Up(n)) # 0
    BY DEF InContainer, ContainerOf
  <1>2. Up(n) \in DOMAIN ids /\ Up(n) \in DOMAIN tree
    BY <1>1 DEF Reached
  <1>3. Up(Up(n)) \in DOMAIN ids /\ Up(Up(n)) \in DOMAIN tree
    BY <1>1, <1>2 DEF Reached
  <1>4. Up(Up(n)) \in Nat /\ Up(Up(n)) < n
    BY <1>1, <1>2, <1>3, UpIsBefore
  <1> QED
    BY <1>1, <1>3, <1>4 DEF InContainer, AtTop, Keeps, Containers, Items

LEMMA LowerTopKeepsItemsHeld ==
    ASSUME DInv, IInv, Reached, ItemsHeld, LowerTop
    PROVE  ItemsHeld'
  <1>1. /\ cursor \in DOMAIN tree /\ AtTop(cursor) /\ Keeps(cursor) /\ cursor \in DOMAIN ids
        /\ cursor' = cursor + 1 /\ UNCHANGED <<tree, ids>> /\ IdsUnique
        /\ topLevel' = Append(topLevel, ItemId(cursor))
        /\ data' = Put(data, ids[cursor], Datum(cursor))
    BY DEF LowerTop, Lowering, Keeps, idVars, IInv
  <1>2. ~InContainer(cursor)
    BY <1>1 DEF AtTop, InContainer, ContainerOf
  <1>3. /\ \A n \in Lowered : n < cursor /\ n \in DOMAIN ids
        /\ Lowered' = Lowered \cup {cursor} /\ TopNodes' = TopNodes \cup {cursor}
        /\ \A id : MemberNodes(id)' = MemberNodes(id)
        /\ \A n : (AtTop(n)' <=> AtTop(n)) /\ (InContainer(n)' <=> InContainer(n))
        /\ \A s, N : Lists(s, N)' <=> Lists(s, N)
    BY <1>1, <1>2, LoweredGrows
  <1>4. Lists(topLevel', TopNodes')
    <2>1. TopNodes \subseteq DOMAIN ids /\ \A m \in TopNodes : m < cursor
      BY <1>3 DEF TopNodes
    <2> QED
      BY <1>1, <1>3, <2>1, OneMoreInOrder DEF DInv, ItemsListed, ItemsHeld
  <1>5. DOMAIN data' = DOMAIN data \cup {ids[cursor]}
        /\ \A id \in DOMAIN data' : data'[id] = IF id = ids[cursor] THEN Datum(cursor) ELSE data[id]
    BY <1>1 DEF Put
  <1>6. ASSUME NEW n \in Lowered', AtTop(n) \/ InContainer(n)
        PROVE  ids[n] \in DOMAIN data' /\ data'[ids[n]].name = tree[n].name
    <2>1. CASE n = cursor
      BY <1>5, <2>1 DEF Datum
    <2>2. CASE n # cursor
      <3>1. n \in Lowered /\ ids[n] # ids[cursor]
        BY <1>1, <1>3, <2>2 DEF IdsUnique
      <3> QED
        BY <1>5, <1>6, <3>1 DEF ItemsHeld
    <2> QED
      BY <2>1, <2>2
  <1>7. ASSUME NEW id \in DOMAIN data'
        PROVE  Lists(data'[id].members, MemberNodes(id))
    <2>1. CASE id = ids[cursor]
      <3>1. data'[id].members = <<>>
        BY <1>5, <2>1 DEF Datum
      <3>2. MemberNodes(id) = {}
        <4> SUFFICES ASSUME NEW n \in MemberNodes(id)
                     PROVE  FALSE
          OBVIOUS
        <4>1. n \in Lowered /\ InContainer(n) /\ ids[ContainerOf(n)] = id
          BY DEF MemberNodes
        <4>2. n \in DOMAIN tree /\ n \in DOMAIN ids /\ n < cursor /\ n \in Nat
          BY <4>1 DEF Lowered, Keeps
        <4>3. ContainerOf(n) < n /\ ContainerOf(n) \in Nat /\ Keeps(ContainerOf(n))
          BY <4>1, <4>2, ContainerIsKept
        <4>4. ContainerOf(n) = cursor
          BY <1>1, <2>1, <4>1, <4>3 DEF IdsUnique, Keeps
        <4> QED
          BY <4>2, <4>3, <4>4
      <3> QED
        BY <3>1, <3>2, NothingLeftOut
    <2>2. CASE id # ids[cursor]
      BY <1>5, <2>2 DEF ItemsHeld
    <2> QED
      BY <2>1, <2>2
  <1> QED
    BY <1>1, <1>3, <1>4, <1>6, <1>7 DEF ItemsHeld

LEMMA LowerMemberKeepsItemsHeld ==
    ASSUME DInv, IInv, Reached, ItemsHeld, LowerMember
    PROVE  ItemsHeld'
  <1> DEFINE c == ids[ContainerOf(cursor)]
             d == Put(data, ids[cursor], Datum(cursor))
  <1>1. /\ cursor \in DOMAIN tree /\ InContainer(cursor) /\ Keeps(cursor) /\ cursor \in DOMAIN ids
        /\ cursor' = cursor + 1 /\ UNCHANGED <<tree, ids, topLevel>> /\ IdsUnique
        /\ data' = [d EXCEPT ![c].members = Append(@, ItemId(cursor))]
    BY DEF LowerMember, Lowering, Keeps, idVars, IInv
  <1>2. ~AtTop(cursor)
    BY <1>1 DEF AtTop, InContainer, ContainerOf
  <1>3. /\ \A n \in Lowered : n < cursor /\ n \in DOMAIN ids
        /\ Lowered' = Lowered \cup {cursor} /\ TopNodes' = TopNodes
        /\ \A id : MemberNodes(id)' = IF c = id THEN MemberNodes(id) \cup {cursor} ELSE MemberNodes(id)
        /\ \A n : (AtTop(n)' <=> AtTop(n)) /\ (InContainer(n)' <=> InContainer(n))
        /\ \A s, N : Lists(s, N)' <=> Lists(s, N)
    BY <1>1, <1>2, LoweredGrows
  <1>4. /\ ContainerOf(cursor) \in Lowered /\ AtTop(ContainerOf(cursor))
        /\ ContainerOf(cursor) # cursor /\ ContainerOf(cursor) \in DOMAIN ids
    BY <1>1, ContainerIsKept DEF Lowered, Keeps
  <1>5. c \in DOMAIN data /\ c # ids[cursor]
    BY <1>1, <1>4 DEF ItemsHeld, IdsUnique
  <1>6. DOMAIN d = DOMAIN data \cup {ids[cursor]}
        /\ \A id \in DOMAIN d : d[id] = IF id = ids[cursor] THEN Datum(cursor) ELSE data[id]
    BY DEF Put
  <1> HIDE DEF c, d
  <1>7. /\ DOMAIN data' = DOMAIN d /\ \A id \in DOMAIN d : id # c => data'[id] = d[id]
        /\ data'[c] = [d[c] EXCEPT !.members = Append(@, ItemId(cursor))]
    BY <1>1, <1>5, <1>6
  <1>8. data'[c] = [kind |-> data[c].kind, name |-> data[c].name,
                    members |-> Append(data[c].members, ItemId(cursor))]
    <2>1. data[c] = [kind |-> data[c].kind, name |-> data[c].name, members |-> data[c].members]
      BY <1>5 DEF DInv, ItemsListed
    <2>2. d[c] = data[c]
      BY <1>5, <1>6
    <2>3. data'[c] = [data[c] EXCEPT !.members = Append(@, ItemId(cursor))]
      BY <1>7, <2>2
    <2> QED
      BY <2>1, <2>3
  <1>9. ASSUME NEW n \in Lowered', AtTop(n) \/ InContainer(n)
        PROVE  ids[n] \in DOMAIN data' /\ data'[ids[n]].name = tree[n].name
    <2>1. CASE n = cursor
      BY <1>5, <1>6, <1>7, <2>1 DEF Datum
    <2>2. CASE n # cursor
      <3>1. n \in Lowered /\ ids[n] # ids[cursor]
        BY <1>1, <1>3, <2>2 DEF IdsUnique
      <3>2. ids[n] \in DOMAIN data /\ data[ids[n]].name = tree[n].name
        BY <1>9, <3>1 DEF ItemsHeld
      <3>3. data'[ids[n]].name = data[ids[n]].name
        BY <1>6, <1>7, <1>8, <3>1, <3>2
      <3> QED
        BY <1>6, <1>7, <3>2, <3>3
    <2> QED
      BY <2>1, <2>2
  <1>10. ASSUME NEW id \in DOMAIN data'
         PROVE  Lists(data'[id].members, MemberNodes(id)')
    <2>1. CASE id = ids[cursor]
      <3>1. data'[id].members = <<>> /\ MemberNodes(id)' = MemberNodes(id)
        BY <1>3, <1>5, <1>6, <1>7, <2>1 DEF Datum
      <3>2. MemberNodes(id) = {}
        <4> SUFFICES ASSUME NEW n \in MemberNodes(id)
                     PROVE  FALSE
          OBVIOUS
        <4>1. n \in Lowered /\ InContainer(n) /\ ids[ContainerOf(n)] = id
          BY DEF MemberNodes
        <4>2. n \in DOMAIN tree /\ n \in DOMAIN ids /\ n < cursor /\ n \in Nat
          BY <4>1 DEF Lowered, Keeps
        <4>3. ContainerOf(n) < n /\ ContainerOf(n) \in Nat /\ Keeps(ContainerOf(n))
          BY <4>1, <4>2, ContainerIsKept
        <4>4. ContainerOf(n) = cursor
          BY <1>1, <2>1, <4>1, <4>3 DEF IdsUnique, Keeps
        <4> QED
          BY <4>2, <4>3, <4>4
      <3> QED
        BY <3>1, <3>2, NothingLeftOut
    <2>2. CASE id = c
      <3>1. Listing(data[c].members, MemberNodes(c)) /\ Lists(data[c].members, MemberNodes(c))
        BY <1>5 DEF DInv, ItemsListed, ItemsHeld
      <3>2. MemberNodes(c) \subseteq DOMAIN ids /\ \A m \in MemberNodes(c) : m < cursor
        BY <1>3 DEF MemberNodes
      <3>3. Lists(Append(data[c].members, ItemId(cursor)), MemberNodes(c) \cup {cursor})
        BY <1>1, <3>1, <3>2, OneMoreInOrder
      <3>4. data'[c].members = Append(data[c].members, ItemId(cursor))
        BY <1>8
      <3>5. MemberNodes(id)' = MemberNodes(c) \cup {cursor}
        BY <1>3, <2>2
      <3> QED
        BY <2>2, <3>3, <3>4, <3>5
    <2>3. CASE id # ids[cursor] /\ id # c
      BY <1>3, <1>6, <1>7, <2>3 DEF ItemsHeld
    <2> QED
      BY <2>1, <2>2, <2>3
  <1> QED
    BY <1>1, <1>3, <1>9, <1>10 DEF ItemsHeld

LEMMA PassOverKeepsItemsHeld ==
    ASSUME DInv, ItemsHeld, PassOver
    PROVE  ItemsHeld'
  <1>1. /\ cursor \in DOMAIN tree /\ ~(Keeps(cursor) /\ (AtTop(cursor) \/ InContainer(cursor)))
        /\ cursor' = cursor + 1 /\ UNCHANGED <<tree, ids, topLevel, data>>
    BY DEF PassOver, Lowering, idVars
  <1>2. /\ Lowered' = IF Keeps(cursor) THEN Lowered \cup {cursor} ELSE Lowered
        /\ TopNodes' = TopNodes /\ \A id : MemberNodes(id)' = MemberNodes(id)
        /\ \A n : (AtTop(n)' <=> AtTop(n)) /\ (InContainer(n)' <=> InContainer(n))
        /\ \A s, N : Lists(s, N)' <=> Lists(s, N)
    BY <1>1, LoweredGrows
  <1>3. \A n \in Lowered' : AtTop(n) \/ InContainer(n) => n \in Lowered
    BY <1>1, <1>2
  <1> QED
    BY <1>1, <1>2, <1>3 DEF ItemsHeld

(* No item is lowered before the ids are given. *)
LEMMA NothingHeldYet ==
    ASSUME topLevel = <<>>, data = Empty, cursor = 1, \A n \in DOMAIN tree : n \in Nat \ {0}
    PROVE  ItemsHeld
  <1>1. Lowered = {}
    BY DEF Lowered
  <1>2. TopNodes = {}
    BY <1>1 DEF TopNodes
  <1> QED
    BY <1>1, <1>2, NothingLeftOut DEF ItemsHeld, Empty

LEMMA ItemsStayHeld ==
    ASSUME ItemsHeld, UNCHANGED <<tree, ids, itemVars>>
    PROVE  ItemsHeld'
  <1>1. UNCHANGED <<tree, ids, topLevel, data, cursor>>
    BY DEF itemVars
  <1>2. /\ TopNodes' = TopNodes /\ \A id : MemberNodes(id)' = MemberNodes(id)
    BY <1>1, ListsStay
  <1>3. Lowered' = Lowered /\ \A n : (AtTop(n)' <=> AtTop(n)) /\ (InContainer(n)' <=> InContainer(n))
    BY <1>1 DEF Lowered, Keeps, AtTop, InContainer, ContainerOf, Up
  <1>4. \A s, N : Lists(s, N)' <=> Lists(s, N)
    BY <1>1 DEF Lists, In, InOrder
  <1> QED
    BY <1>1, <1>2, <1>3, <1>4 DEF ItemsHeld

-----------------------------------------------------------------------------
(* Collecting: the item at hand is the first in its place that is waiting,  *)
(* and the only one that is not waiting any more after it is taken.         *)
LEMMA KeptIs ==
    ASSUME NEW n \in DOMAIN tree
    PROVE  /\ Kept(n) <=> Keeps(n) /\ (AtTop(n) \/ InContainer(n))
           /\ Place(n) = ContainerOf(n)
           /\ AtTop(n) => Place(n) = 0
           /\ InContainer(n) => Place(n) # 0 /\ tree[n].kind \in MemberKinds
           /\ Kept(n) => n \in DOMAIN ids /\ tree[n].kind \in Items
  BY DEF Kept, KeptIn, Keeps, AtTop, InContainer, ContainerOf, Place, PlaceIn, Up, MemberKinds

LEMMA AllLowered ==
    ASSUME DInv, Reached, begun, NEW n \in DOMAIN tree
    PROVE  /\ n \in Lowered <=> Keeps(n)
           /\ n \in TopNodes <=> Kept(n) /\ AtTop(n)
           /\ \A id : n \in MemberNodes(id) <=> Kept(n) /\ InContainer(n) /\ ids[ContainerOf(n)] = id
  <1>1. n < cursor /\ n \in Nat
    <2>1. DOMAIN tree = 1 .. Len(tree) /\ Len(tree) \in Nat
      BY TreesAssumption DEF Reached
    <2> QED
      BY <2>1 DEF DInv, Progress
  <1>2. n \in Lowered <=> Keeps(n)
    BY <1>1 DEF Lowered
  <1> QED
    BY <1>2, KeptIs DEF TopNodes, MemberNodes

LEMMA InTail ==
    ASSUME NEW s, NEW N, Listing(s, N), s # <<>>
    PROVE  /\ \A n : In(Tail(s), n) <=> In(s, n) /\ ids[n] # s[1].id
           /\ InOrder(s) => InOrder(Tail(s))
  <1>1. /\ Len(s) \in Nat \ {0} /\ Len(Tail(s)) = Len(s) - 1
        /\ \A i \in 1 .. Len(Tail(s)) : Tail(s)[i] = s[i + 1] /\ i + 1 \in 1 .. Len(s)
    BY TailIsSeq DEF Listing
  <1>2. \A k, l \in 1 .. Len(s) : s[k].id = s[l].id => k = l
    BY DEF Listing
  <1>3. ASSUME NEW n, In(Tail(s), n)
        PROVE  In(s, n) /\ ids[n] # s[1].id
    <2>1. PICK k \in 1 .. Len(Tail(s)) : Tail(s)[k].id = ids[n]
      BY <1>3 DEF In
    <2>2. k + 1 \in 1 .. Len(s) /\ s[k + 1].id = ids[n] /\ k + 1 # 1 /\ 1 \in 1 .. Len(s)
      BY <1>1, <2>1
    <2> QED
      BY <1>2, <2>2 DEF In
  <1>4. ASSUME NEW n, In(s, n), ids[n] # s[1].id
        PROVE  In(Tail(s), n)
    <2>1. PICK k \in 1 .. Len(s) : s[k].id = ids[n]
      BY <1>4 DEF In
    <2>2. k # 1
      BY <1>4, <2>1
    <2>3. k - 1 \in 1 .. Len(Tail(s)) /\ (k - 1) + 1 = k
      BY <1>1, <2>2
    <2>4. Tail(s)[k - 1] = s[k]
      BY <1>1, <2>3
    <2> QED
      BY <2>1, <2>3, <2>4 DEF In
  <1>5. ASSUME InOrder(s)
        PROVE  InOrder(Tail(s))
    <2> SUFFICES ASSUME NEW k \in 1 .. Len(Tail(s)), NEW l \in 1 .. Len(Tail(s)),
                        NEW m \in DOMAIN ids, NEW n \in DOMAIN ids,
                        k < l, Tail(s)[k].id = ids[m], Tail(s)[l].id = ids[n]
                 PROVE  m < n
      BY DEF InOrder
    <2>1. /\ k + 1 \in 1 .. Len(s) /\ l + 1 \in 1 .. Len(s) /\ k + 1 < l + 1
          /\ s[k + 1].id = ids[m] /\ s[l + 1].id = ids[n]
      BY <1>1
    <2> QED
      BY <1>5, <2>1 DEF InOrder
  <1> QED
    BY <1>3, <1>4, <1>5

(* What the lists of the collector hold *)
LEMMA InLists ==
    ASSUME DInv, IInv, Reached, begun, NEW n \in DOMAIN tree, n \in DOMAIN ids
    PROVE  /\ In(todo, n) => Kept(n) /\ AtTop(n)
           /\ In(members, n) => Kept(n) /\ InContainer(n) /\ ~In(todo, Place(n))
           /\ \A m \in DOMAIN tree : In(members, n) /\ m \in DOMAIN ids /\ In(members, m) => Place(m) = Place(n)
  <1>1. IdsUnique
    BY DEF IInv
  <1>2. ASSUME In(todo, n)
        PROVE  Kept(n) /\ AtTop(n)
    <2>1. PICK k \in 1 .. Len(todo) : todo[k].id = ids[n]
      BY <1>2 DEF In
    <2>2. PICK m \in TopNodes : todo[k] = ItemId(m)
      BY DEF DInv, ToCollect, Listing
    <2>3. m = n
      BY <1>1, <2>1, <2>2 DEF ItemId, IdsUnique, TopNodes, Lowered, Keeps
    <2> QED
      BY <2>2, <2>3, AllLowered
  <1>3. ASSUME members # <<>>
        PROVE  \E id : /\ \A m \in DOMAIN tree : m \in DOMAIN ids /\ In(members, m) => m \in MemberNodes(id)
                       /\ \A k \in 1 .. Len(todo) : todo[k].id # id
    <2>1. PICK id \in DOMAIN data :
             Listing(members, MemberNodes(id)) /\ \A k \in 1 .. Len(todo) : todo[k].id # id
      BY <1>3 DEF DInv, ToCollect
    <2>2. ASSUME NEW m \in DOMAIN ids, In(members, m)
          PROVE  m \in MemberNodes(id)
      <3>1. PICK k \in 1 .. Len(members) : members[k].id = ids[m]
        BY <2>2 DEF In
      <3>2. PICK l \in MemberNodes(id) : members[k] = ItemId(l)
        BY <2>1 DEF Listing
      <3>3. l = m
        BY <1>1, <3>1, <3>2 DEF ItemId, IdsUnique, MemberNodes, Lowered, Keeps
      <3> QED
        BY <3>2, <3>3
    <2> QED
      BY <2>1, <2>2
  <1>4. ASSUME In(members, n)
        PROVE  /\ Kept(n) /\ InContainer(n) /\ ~In(todo, Place(n))
               /\ \A m \in DOMAIN tree : m \in DOMAIN ids /\ In(members, m) => Place(m) = Place(n)
    <2>1. members # <<>>
      BY <1>4, EmptyIsSeq DEF In
    <2>2. PICK id : /\ \A m \in DOMAIN tree : m \in DOMAIN ids /\ In(members, m) => m \in MemberNodes(id)
                    /\ \A k \in 1 .. Len(todo) : todo[k].id # id
      BY <1>3, <2>1
    <2>3. Kept(n) /\ InContainer(n) /\ ids[Place(n)] = id
      BY <1>4, <2>2, AllLowered, KeptIs
    <2>4. ~In(todo, Place(n))
      BY <2>2, <2>3 DEF In
    <2>5. ASSUME NEW m \in DOMAIN tree, m \in DOMAIN ids, In(members, m)
          PROVE  Place(m) = Place(n)
      <3>1. InContainer(m) /\ ids[Place(m)] = id
        BY <2>2, <2>5, AllLowered, KeptIs
      <3>2. Place(m) \in DOMAIN ids /\ Place(n) \in DOMAIN ids
        BY <2>3, <2>5, <3>1, ContainerIsKept, KeptIs DEF Keeps
      <3> QED
        BY <1>1, <2>3, <3>1, <3>2 DEF IdsUnique
    <2> QED
      BY <2>3, <2>4, <2>5
  <1> QED
    BY <1>2, <1>4

AtHand(n) ==
    /\ Kept(n) /\ Item = ItemId(n) /\ Waiting(n)
    /\ IF Inside THEN In(members, n) ELSE In(todo, n)
    /\ data[Item.id].name = tree[n].name
    /\ \A m \in DOMAIN tree : Kept(m) /\ Waiting(m) /\ Place(m) = Place(n) => n <= m
    /\ \A m \in DOMAIN tree : Done(m) /\ Place(m) = Place(n) => m < n

LEMMA OneIsAtHand ==
    ASSUME DInv, IInv, Reached, ItemsHeld, Collected, Collecting, Mapping
    PROVE  \E n \in DOMAIN tree : AtHand(n)
  <1>1. begun /\ IdsUnique
    BY ItemAtHand DEF IInv
  <1>2. \E n \in DOMAIN tree : /\ n \in Lowered /\ Item = ItemId(n)
                               /\ IF Inside THEN In(members, n) ELSE In(todo, n)
    <2>1. CASE Inside
      <3>1. PICK id \in DOMAIN data : Listing(members, MemberNodes(id))
        BY <2>1 DEF Inside, DInv, ToCollect
      <3>2. 1 \in 1 .. Len(members) /\ Item = members[1]
        BY <2>1, ItemAtHand
      <3>3. PICK n \in MemberNodes(id) : members[1] = ItemId(n)
        BY <3>1, <3>2 DEF Listing
      <3> QED
        BY <2>1, <3>2, <3>3 DEF MemberNodes, Lowered, In, ItemId
    <2>2. CASE ~Inside
      <3>1. 1 \in 1 .. Len(todo) /\ Item = todo[1]
        BY <2>2, ItemAtHand
      <3>2. PICK n \in TopNodes : todo[1] = ItemId(n)
        BY <3>1 DEF DInv, ToCollect, Listing
      <3> QED
        BY <2>2, <3>1, <3>2 DEF TopNodes, Lowered, In, ItemId
    <2> QED
      BY <2>1, <2>2
  <1>3. PICK n \in DOMAIN tree : /\ n \in Lowered /\ Item = ItemId(n)
                                 /\ IF Inside THEN In(members, n) ELSE In(todo, n)
    BY <1>2
  <1>4. n \in DOMAIN ids /\ Item.id = ids[n]
    BY <1>3 DEF Lowered, Keeps, ItemId
  <1>5. Kept(n) /\ (Inside => InContainer(n) /\ ~In(todo, Place(n))) /\ (~Inside => AtTop(n))
    BY <1>1, <1>3, <1>4, InLists
  <1>6. Waiting(n)
    BY <1>3 DEF Waiting
  <1>7. data[Item.id].name = tree[n].name
    BY <1>3, <1>4, <1>5 DEF ItemsHeld
  <1>8. ASSUME NEW m \in DOMAIN tree, Kept(m), Waiting(m), Place(m) = Place(n)
        PROVE  n <= m
    <2>1. m \in DOMAIN ids /\ n \in Nat /\ m \in Nat
      BY <1>8, KeptIs, UpIsBefore
    <2>2. CASE Inside
      <3>1. Place(m) # 0 /\ ~In(todo, Place(m)) /\ ~AtTop(m)
        BY <1>5, <1>8, <2>2, KeptIs
      <3>2. In(members, m)
        BY <1>1, <1>8, <2>1, <3>1, InLists DEF Waiting
      <3>3. PICK k \in 1 .. Len(members) : members[k].id = ids[m]
        BY <3>2 DEF In
      <3>4. members[1].id = ids[n] /\ 1 \in 1 .. Len(members)
        BY <1>4, <2>2, ItemAtHand
      <3>5. CASE k = 1
        BY <1>1, <1>4, <2>1, <3>3, <3>4, <3>5 DEF IdsUnique
      <3>6. CASE k # 1
        BY <1>4, <2>1, <3>3, <3>4, <3>6 DEF Mapping, InOrder
      <3> QED
        BY <3>5, <3>6
    <2>3. CASE ~Inside
      <3>1. Place(m) = 0 /\ members = <<>>
        BY <1>5, <1>8, <2>3, KeptIs DEF Inside
      <3>2. In(todo, m)
        BY <1>8, <3>1, EmptyIsSeq DEF Waiting, In
      <3>3. PICK k \in 1 .. Len(todo) : todo[k].id = ids[m]
        BY <3>2 DEF In
      <3>4. todo[1].id = ids[n] /\ 1 \in 1 .. Len(todo)
        BY <1>4, <2>3, ItemAtHand
      <3>5. CASE k = 1
        BY <1>1, <1>4, <2>1, <3>3, <3>4, <3>5 DEF IdsUnique
      <3>6. CASE k # 1
        BY <1>4, <2>1, <3>3, <3>4, <3>6 DEF Mapping, InOrder
      <3> QED
        BY <3>5, <3>6
    <2> QED
      BY <2>2, <2>3
  <1>9. \A m \in DOMAIN tree : Done(m) /\ Place(m) = Place(n) => m < n
    BY <1>5, <1>6 DEF Mapping
  <1> QED
    BY <1>3, <1>5, <1>6, <1>7, <1>8, <1>9 DEF AtHand

LEMMA TakeOne ==
    ASSUME DInv, IInv, Reached, ItemsHeld, Collected, Collecting, Mapping,
           (Consume /\ Item.kind \notin Containers) \/ Opens,
           UNCHANGED <<tree, ids>>, NEW n \in DOMAIN tree, AtHand(n)
    PROVE  /\ InOrder(todo') /\ InOrder(members')
           /\ \A m \in DOMAIN tree : Kept(m) => (Waiting(m)' <=> Waiting(m) /\ m # n)
           /\ \A m \in DOMAIN tree : Kept(m) /\ In(members', m) =>
                IF Opens THEN Place(m) = n ELSE In(members, m) /\ Place(m) = Place(n)
  <1>1. begun /\ IdsUnique /\ n \in DOMAIN ids /\ Item.id = ids[n] /\ Kept(n)
        /\ Item.kind = DefKind(tree[n].kind)
    BY ItemAtHand, KeptIs DEF IInv, AtHand, ItemId
  <1>2. /\ \A s, m : In(s, m)' <=> In(s, m)
        /\ \A m : Place(m)' = Place(m)
    BY DEF In, Place, PlaceIn
  <1>3. \A m \in DOMAIN ids : ids[m] = ids[n] <=> m = n
    BY <1>1 DEF IdsUnique
  <1>4. InOrder(todo) /\ InOrder(members)
    BY DEF Mapping
  <1>5. \A m : Waiting(m)' <=> In(todo', m) \/ In(members', m) \/ (Place(m) # 0 /\ In(todo', Place(m)))
    BY <1>2 DEF Waiting
  <1>6. \A m \in DOMAIN tree : Kept(m) => m \in DOMAIN ids
    BY KeptIs
  <1>7. CASE Inside
    <2>1. members' = Tail(members) /\ todo' = todo /\ members # <<>> /\ ~Opens
      BY <1>7 DEF Consume, Opens, Inside
    <2>2. members[1].id = ids[n]
      BY <1>1, <1>7, ItemAtHand
    <2>3. PICK id \in DOMAIN data : Listing(members, MemberNodes(id))
      BY <2>1 DEF DInv, ToCollect
    <2>4. /\ \A m : In(members', m) <=> In(members, m) /\ ids[m] # ids[n]
          /\ InOrder(members')
      BY <1>4, <2>1, <2>2, <2>3, InTail
    <2>5. InContainer(n) /\ ~In(todo, Place(n)) /\ ~In(todo, n) /\ In(members, n)
      BY <1>1, <1>7, InLists, KeptIs DEF AtHand
    <2>6. ASSUME NEW m \in DOMAIN tree, Kept(m)
          PROVE  Waiting(m)' <=> Waiting(m) /\ m # n
      BY <1>3, <1>5, <1>6, <2>1, <2>4, <2>5, <2>6 DEF Waiting
    <2>7. \A m \in DOMAIN tree : Kept(m) /\ In(members', m) => In(members, m) /\ Place(m) = Place(n)
      BY <1>1, <1>6, <2>4, <2>5, InLists
    <2> QED
      BY <1>4, <2>1, <2>4, <2>6, <2>7
  <1>8. CASE ~Inside
    <2>1. todo' = Tail(todo) /\ todo # <<>> /\ todo[1].id = ids[n] /\ members = <<>>
      BY <1>1, <1>8, ItemAtHand DEF Consume, Opens, Inside
    <2>2. /\ \A m : In(todo', m) <=> In(todo, m) /\ ids[m] # ids[n]
          /\ InOrder(todo')
      BY <1>4, <2>1, InTail DEF DInv, ToCollect
    <2>3. AtTop(n) /\ Place(n) = 0 /\ In(todo, n)
      BY <1>1, <1>8, InLists, KeptIs DEF AtHand
    <2>4. \A m : ~In(members, m)
      BY <2>1, EmptyIsSeq DEF In
    <2>5. ASSUME NEW m \in DOMAIN tree, Kept(m), Place(m) # 0
          PROVE  Place(m) \in DOMAIN ids /\ tree[Place(m)].kind \in Containers
      BY <2>5, ContainerIsKept, KeptIs DEF Keeps
    <2>6. CASE Consume /\ Item.kind \notin Containers
      <3>1. members' = <<>> /\ tree[n].kind \notin Containers
        BY <1>1, <1>8, <2>1, <2>6 DEF Consume, DefKind, Functions, Containers
      <3>2. ~Opens \/ \A m : ~In(members', m)
        BY <3>1, EmptyIsSeq DEF In
      <3>3. InOrder(members') /\ \A m : ~In(members', m)
        BY <3>1, EmptyIsSeq DEF In, InOrder
      <3>4. ASSUME NEW m \in DOMAIN tree, Kept(m)
            PROVE  Waiting(m)' <=> Waiting(m) /\ m # n
        <4>1. Place(m) # 0 => (In(todo', Place(m)) <=> In(todo, Place(m)))
          BY <1>3, <2>2, <2>5, <3>1, <3>4
        <4> QED
          BY <1>3, <1>5, <1>6, <2>2, <2>3, <2>4, <3>3, <3>4, <4>1 DEF Waiting
      <3> QED
        BY <2>2, <3>3, <3>4
    <2>7. CASE Opens
      <3>1. members' = data[ids[n]].members
        BY <1>1, <2>7 DEF Opens
      <3>2. ids[n] \in DOMAIN data
        BY <1>1, <2>3, AllLowered, KeptIs DEF ItemsHeld
      <3>3. Listing(members', MemberNodes(ids[n])) /\ Lists(members', MemberNodes(ids[n]))
        BY <3>1, <3>2 DEF DInv, ItemsListed, ItemsHeld
      <3>4. ASSUME NEW m \in DOMAIN tree, Kept(m)
            PROVE  In(members', m) <=> Place(m) = n
        <4>1. ASSUME In(members', m)
              PROVE  m \in MemberNodes(ids[n])
          <5>1. PICK k \in 1 .. Len(members') : members'[k].id = ids[m]
            BY <4>1 DEF In
          <5>2. PICK l \in MemberNodes(ids[n]) : members'[k] = ItemId(l)
            BY <3>3, <5>1 DEF Listing
          <5>3. l = m
            BY <1>1, <1>6, <3>4, <5>1, <5>2 DEF ItemId, IdsUnique, MemberNodes, Lowered, Keeps
          <5> QED
            BY <5>2, <5>3
        <4>2. m \in MemberNodes(ids[n]) <=> InContainer(m) /\ ids[Place(m)] = ids[n]
          BY <1>1, <3>4, AllLowered, KeptIs
        <4>3. InContainer(m) <=> Place(m) # 0
          BY <3>4, KeptIs
        <4>4. n # 0
          BY UpIsBefore
        <4>5. m \in MemberNodes(ids[n]) <=> Place(m) = n
          BY <1>3, <2>5, <3>4, <4>2, <4>3, <4>4
        <4>6. m \in MemberNodes(ids[n]) => In(members', m)
          BY <3>3 DEF Lists
        <4> QED
          BY <4>1, <4>5, <4>6
      <3>5. ASSUME NEW m \in DOMAIN tree, Kept(m)
            PROVE  Waiting(m)' <=> Waiting(m) /\ m # n
        <4>1. Place(m) # 0 => (In(todo', Place(m)) <=> In(todo, Place(m)) /\ Place(m) # n)
          BY <1>3, <2>2, <2>5, <3>5
        <4>2. n # 0
          BY UpIsBefore
        <4>3. Place(m) = n => m # n
          BY <2>3, <4>2
        <4>4. In(todo', m) <=> In(todo, m) /\ m # n
          BY <1>3, <1>6, <2>2, <3>5
        <4>5. In(members', m) <=> Place(m) = n
          BY <3>4, <3>5
        <4> QED
          BY <1>5, <2>3, <2>4, <4>1, <4>2, <4>3, <4>4, <4>5 DEF Waiting
      <3> QED
        BY <2>2, <2>7, <3>3, <3>4, <3>5 DEF Lists
    <2> QED
      BY <2>6, <2>7
  <1> QED
    BY <1>7, <1>8

-----------------------------------------------------------------------------
(* A name is free for a node if no other was entered under it before, or    *)
(* one it can be an overload of.                                            *)
LEMMA OnlyOneMoreDone ==
    ASSUME NEW n \in DOMAIN tree, Kept(n), Waiting(n), UNCHANGED <<tree, ids>>,
           \A m \in DOMAIN tree : Kept(m) => (Waiting(m)' <=> Waiting(m) /\ m # n)
    PROVE  /\ \A m \in DOMAIN tree : Done(m)' <=> Done(m) \/ m = n
           /\ \A m : (Kept(m)' <=> Kept(m)) /\ Place(m)' = Place(m) /\ (IsNamed(m)' <=> IsNamed(m))
  <1>1. \A m : (Kept(m)' <=> Kept(m)) /\ Place(m)' = Place(m) /\ (IsNamed(m)' <=> IsNamed(m))
    BY DEF Kept, KeptIn, Place, PlaceIn, IsNamed
  <1> QED
    BY <1>1 DEF Done

LEMMA FitsIfFree ==
    ASSUME NEW byName, NEW n \in DOMAIN tree, AtHand(n), IsNamed(n), NamesOf(byName, Place(n)),
           \A m \in DOMAIN tree : m \in Nat
    PROVE  Fits(byName, tree[n].name, Def) <=> ~TakenIn(tree, DOMAIN ids, n)
  <1> DEFINE R == RivalsIn(tree, DOMAIN ids, n)
             name == tree[n].name
  <1>1. Namespace(Def) = SpaceIn(tree, n)
    BY DEF AtHand, ItemId, Def, DefOf, SpaceIn, Namespace
  <1>2. \A k \in DOMAIN tree : k \in R <=> Like(k, Place(n), name)
    <2> SUFFICES ASSUME NEW k \in DOMAIN tree
                 PROVE  k \in R <=> Like(k, Place(n), name)
      OBVIOUS
    <2>1. k \in R <=> k < n /\ Kept(k) /\ IsNamed(k) /\ Place(k) = Place(n) /\ tree[k].name = name
      BY DEF RivalsIn, SameNameIn, Kept, IsNamed, Place
    <2>2. Done(k) /\ Place(k) = Place(n) => k < n
      BY DEF AtHand
    <2>3. k < n /\ Kept(k) /\ Place(k) = Place(n) => Done(k)
      BY DEF AtHand, Done
    <2>4. Done(k) => Kept(k)
      BY DEF Done
    <2> QED
      BY <2>1, <2>2, <2>3, <2>4 DEF Like
  <1>3. R \subseteq DOMAIN tree
    BY DEF RivalsIn
  <1>4. TakenIn(tree, DOMAIN ids, n) <=>
          \E k \in R : (\A m \in R : k <= m) /\ (SpaceIn(tree, k) # SpaceIn(tree, n) \/ SpaceIn(tree, n) \in NoOverloads)
    BY DEF TakenIn, IsNamed
  <1> HIDE DEF R
  <1>5. CASE name \in DOMAIN byName
    <2>1. PICK k \in DOMAIN tree :
            /\ Like(k, Place(n), name) /\ byName[name].namespace = SpaceIn(tree, k)
            /\ \A m \in DOMAIN tree : Like(m, Place(n), name) => k <= m
      BY <1>5 DEF NamesOf
    <2>2. k \in R /\ \A m \in R : k <= m
      BY <1>2, <1>3, <2>1
    <2>3. \A l \in R : (\A m \in R : l <= m) => l = k
      BY <1>3, <2>2
    <2>4. TakenIn(tree, DOMAIN ids, n) <=> SpaceIn(tree, k) # SpaceIn(tree, n) \/ SpaceIn(tree, n) \in NoOverloads
      BY <1>4, <2>2, <2>3
    <2> QED
      BY <1>1, <1>5, <2>1, <2>4 DEF Fits
  <1>6. CASE name \notin DOMAIN byName
    <2>1. R = {}
      BY <1>2, <1>3, <1>6 DEF NamesOf, Like
    <2> QED
      BY <1>4, <1>6, <2>1 DEF Fits
  <1> QED
    BY <1>5, <1>6

LEMMA NamesGrow ==
    ASSUME NEW n \in DOMAIN tree, AtHand(n), NEW c, c = Place(n), NEW byName, NamesOf(byName, c),
           NEW more, more = IF IsNamed(n) THEN Entered(byName, tree[n].name, Def) ELSE byName,
           UNCHANGED <<tree, ids>>, \A m \in DOMAIN tree : m \in Nat,
           \A m \in DOMAIN tree : Kept(m) => (Waiting(m)' <=> Waiting(m) /\ m # n)
    PROVE  NamesOf(more, c)'
  <1> DEFINE name == tree[n].name
  <1>1. /\ \A m \in DOMAIN tree : Done(m)' <=> Done(m) \/ m = n
        /\ \A m : (Kept(m)' <=> Kept(m)) /\ Place(m)' = Place(m) /\ (IsNamed(m)' <=> IsNamed(m))
    BY OnlyOneMoreDone DEF AtHand
  <1>2. Namespace(Def) = SpaceIn(tree, n)
    BY DEF AtHand, ItemId, Def, DefOf, SpaceIn, Namespace
  <1>3. \A m \in DOMAIN tree : \A x :
          Like(m, c, x)' <=> Like(m, c, x) \/ (m = n /\ IsNamed(n) /\ name = x)
    BY <1>1 DEF Like
  <1>4. \A m \in DOMAIN tree : \A x : Like(m, c, x) => m <= n
    BY DEF Like, AtHand
  <1>5. /\ IsNamed(n) => DOMAIN more = DOMAIN byName \cup {name}
        /\ ~IsNamed(n) => DOMAIN more = DOMAIN byName
        /\ \A x \in DOMAIN byName : more[x].namespace = byName[x].namespace
        /\ IsNamed(n) /\ name \notin DOMAIN byName => more[name].namespace = SpaceIn(tree, n)
    <2>1. CASE IsNamed(n)
      BY <1>2, <2>1 DEF Entered, Put, Fits
    <2>2. CASE ~IsNamed(n)
      BY <2>2
    <2> QED
      BY <2>1, <2>2
  <1>6. ASSUME NEW m \in DOMAIN tree, Done(m)', IsNamed(m), Place(m) = c
        PROVE  tree[m].name \in DOMAIN more
    BY <1>1, <1>5, <1>6 DEF NamesOf
  <1>7. ASSUME NEW x \in DOMAIN more
        PROVE  \E k \in DOMAIN tree : /\ Like(k, c, x)' /\ more[x].namespace = SpaceIn(tree, k)
                                      /\ \A m \in DOMAIN tree : Like(m, c, x)' => k <= m
    <2>1. CASE x \in DOMAIN byName
      <3>1. PICK k \in DOMAIN tree :
              /\ Like(k, c, x) /\ byName[x].namespace = SpaceIn(tree, k)
              /\ \A m \in DOMAIN tree : Like(m, c, x) => k <= m
        BY <2>1 DEF NamesOf
      <3>2. k <= n
        BY <1>4, <3>1
      <3>3. \A m \in DOMAIN tree : Like(m, c, x)' => k <= m
        BY <1>1, <1>3, <3>1, <3>2
      <3> QED
        BY <1>1, <1>3, <1>5, <2>1, <3>1, <3>3
    <2>2. CASE x \notin DOMAIN byName
      <3>1. IsNamed(n) /\ x = name
        BY <1>5, <2>2
      <3>2. \A m \in DOMAIN tree : ~Like(m, c, x)
        BY <2>2 DEF NamesOf, Like
      <3>3. Like(n, c, x)' /\ \A m \in DOMAIN tree : Like(m, c, x)' => n <= m
        BY <1>1, <1>3, <3>1, <3>2
      <3> QED
        BY <1>1, <1>5, <2>2, <3>1, <3>3
    <2> QED
      BY <2>1, <2>2
  <1> QED
    BY <1>1, <1>6, <1>7 DEF NamesOf

LEMMA NamesStay ==
    ASSUME NEW byName, NEW n \in DOMAIN tree, Kept(n), Waiting(n), NEW c, c # Place(n), NamesOf(byName, c),
           UNCHANGED <<tree, ids>>,
           \A m \in DOMAIN tree : Kept(m) => (Waiting(m)' <=> Waiting(m) /\ m # n)
    PROVE  NamesOf(byName, c)'
  <1>1. /\ \A m \in DOMAIN tree : Done(m)' <=> Done(m) \/ m = n
        /\ \A m : (Kept(m)' <=> Kept(m)) /\ Place(m)' = Place(m) /\ (IsNamed(m)' <=> IsNamed(m))
    BY OnlyOneMoreDone
  <1>2. \A m \in DOMAIN tree : \A x : Like(m, c, x)' <=> Like(m, c, x)
    BY <1>1 DEF Like
  <1> QED
    BY <1>1, <1>2 DEF NamesOf

LEMMA TakeKeepsMapping ==
    ASSUME DInv, IInv, Reached, ItemsHeld, Collected, Collecting, Mapping,
           NEW n \in DOMAIN tree, AtHand(n), UNCHANGED <<tree, ids, file, files>>,
           \/ Consume /\ Item.kind \notin Containers /\ inner' = inner
           \/ Opens /\ inner' = Len(scopes) + 1 /\ scopes'[inner'].byName = Empty,
           scopes'[Into].byName = IF IsNamed(n) THEN Entered(scopes[Into].byName, tree[n].name, Def)
                                  ELSE scopes[Into].byName,
           \A s \in 1 .. Len(scopes) : s # Into => scopes'[s].byName = scopes[s].byName,
           Def \in DOMAIN defs' <=> (IsNamed(n) => Fits(scopes[Into].byName, tree[n].name, Def)),
           \A def : def # Def => (def \in DOMAIN defs' <=> def \in DOMAIN defs)
    PROVE  Mapping'
  <1>1. /\ begun /\ FileScope \in 1 .. Len(scopes) /\ Into \in 1 .. Len(scopes) /\ FileScope' = FileScope
        /\ Len(scopes) \in Nat
    BY ItemAtHand, IsSeqBounds DEF FileScope, DInv, MapInv, ScopesTyped
  <1>2. Kept(n) /\ Waiting(n) /\ n \in DOMAIN ids /\ IdsUnique /\ \A m \in DOMAIN tree : m \in Nat
    BY KeptIs, UpIsBefore DEF AtHand, IInv
  <1>3. Def = DefAt(n)
    BY DEF AtHand, ItemId, Def, DefOf, DefAt, DefIn
  <1>4. /\ InOrder(todo') /\ InOrder(members')
        /\ \A m \in DOMAIN tree : Kept(m) => (Waiting(m)' <=> Waiting(m) /\ m # n)
        /\ \A m \in DOMAIN tree : Kept(m) /\ In(members', m) =>
             IF Opens THEN Place(m) = n ELSE In(members, m) /\ Place(m) = Place(n)
    BY TakeOne
  <1>5. /\ \A m \in DOMAIN tree : Done(m)' <=> Done(m) \/ m = n
        /\ \A m : (Kept(m)' <=> Kept(m)) /\ Place(m)' = Place(m) /\ (IsNamed(m)' <=> IsNamed(m))
    BY <1>2, <1>4, OnlyOneMoreDone
  <1>6. \A s, m : In(s, m)' <=> In(s, m)
    BY DEF In
  <1>7. InOrder(todo)' /\ InOrder(members)'
    BY <1>4 DEF InOrder
  <1>8. ASSUME NEW a \in DOMAIN tree, NEW b \in DOMAIN tree, Done(a)', Kept(b), Waiting(b)', Place(a) = Place(b)
        PROVE  a < b
    <2>1. Waiting(b) /\ b # n
      BY <1>4, <1>8
    <2>2. CASE a = n
      <3>1. n <= b
        BY <1>8, <2>1, <2>2 DEF AtHand
      <3> QED
        BY <1>2, <2>1, <2>2, <3>1
    <2>3. CASE a # n
      BY <1>5, <1>8, <2>1, <2>3 DEF Mapping
    <2> QED
      BY <2>2, <2>3
  <1>9. /\ NamesOf(scopes[Into].byName, Place(n))
        /\ IF Inside THEN Into = inner /\ Place(n) # 0 ELSE Into = FileScope /\ Place(n) = 0
    <2>1. CASE Inside
      <3>1. InContainer(n) /\ In(members, n)
        BY <1>1, <1>2, <2>1, InLists DEF AtHand
      <3> QED
        BY <1>2, <2>1, <3>1, KeptIs DEF Into, Mapping
    <2>2. CASE ~Inside
      <3>1. AtTop(n)
        BY <1>1, <1>2, <2>2, InLists DEF AtHand
      <3>2. Place(n) = 0
        BY <3>1, KeptIs
      <3> QED
        BY <2>2, <3>2 DEF Into, Mapping
    <2> QED
      BY <2>1, <2>2
  <1>10. \A b, c : b = scopes'[Into].byName /\ c = Place(n) => NamesOf(b, c)'
    <2> SUFFICES ASSUME NEW b, b = scopes'[Into].byName, NEW c, c = Place(n)
                 PROVE  NamesOf(b, c)'
      OBVIOUS
    <2>1. PICK a : a = scopes[Into].byName
      OBVIOUS
    <2>2. NamesOf(a, c) /\ b = IF IsNamed(n) THEN Entered(a, tree[n].name, Def) ELSE a
      BY <1>9, <2>1
    <2> QED
      BY <1>2, <1>4, <2>2, NamesGrow
  <1>11. \A b, c : b = scopes'[FileScope].byName /\ c = 0 => NamesOf(b, c)'
    <2> SUFFICES ASSUME NEW b, b = scopes'[FileScope].byName, NEW c, c = 0
                 PROVE  NamesOf(b, c)'
      OBVIOUS
    <2>1. CASE Inside
      <3>1. Into # FileScope /\ c # Place(n)
        BY <1>9, <2>1 DEF Inside, Mapping
      <3>2. b = scopes[FileScope].byName /\ NamesOf(b, c)
        BY <1>1, <3>1 DEF Mapping
      <3> QED
        BY <1>2, <1>4, <3>1, <3>2, NamesStay
    <2>2. CASE ~Inside
      BY <1>9, <1>10, <2>2
    <2> QED
      BY <2>1, <2>2
  <1>12. ASSUME NEW m \in DOMAIN tree, Kept(m), In(members', m)
         PROVE  \A b, c : b = scopes'[inner'].byName /\ c = Place(m) => NamesOf(b, c)'
    <2> SUFFICES ASSUME NEW b, b = scopes'[inner'].byName, NEW c, c = Place(m)
                 PROVE  NamesOf(b, c)'
      OBVIOUS
    <2>1. CASE Opens
      <3>1. b = Empty /\ c = n /\ Place(n) = 0 /\ n # 0 /\ In(todo, n)
        <4>1. ~Inside
          BY <2>1 DEF Opens
        <4>2. c = n /\ Place(n) = 0 /\ n # 0 /\ In(todo, n)
          BY <1>4, <1>9, <1>12, <2>1, <4>1, UpIsBefore DEF AtHand
        <4> QED
          BY <1>12, <2>1, <4>2, EmptyIsSeq DEF In, Consume, Inside, Opens
      <3>2. \A k \in DOMAIN tree : Place(k) = c => ~Done(k) /\ k # n
        BY <3>1 DEF Done, Waiting
      <3>3. \A k \in DOMAIN tree : Place(k)' = c => ~Done(k)'
        BY <1>5, <3>2
      <3> QED
        BY <3>1, <3>3 DEF NamesOf, Empty
    <2>2. CASE ~Opens
      <3>1. In(members, m) /\ c = Place(n) /\ inner' = inner
        BY <1>4, <1>12, <2>2
      <3>2. Inside
        BY <3>1, EmptyIsSeq DEF In, Inside
      <3> QED
        BY <1>9, <1>10, <3>1, <3>2
    <2> QED
      BY <2>1, <2>2
  <1>13. members' # <<>> => inner' # FileScope
    <2>1. CASE Opens /\ inner' = Len(scopes) + 1
      BY <1>1, <2>1
    <2>2. CASE Consume /\ inner' = inner
      BY <2>2 DEF Consume, Inside, Mapping
    <2> QED
      BY <2>1, <2>2
  <1>14. FileDef(file) \in DOMAIN defs'
    <2>1. FileDef(file) # Def
      <3>1. ids[n].id \in Nat
        BY <1>2 DEF IInv
      <3> QED
        BY <1>3, <3>1 DEF FileDef, DefAt, DefIn, NoId, None
    <2> QED
      BY <2>1 DEF Mapping
  <1>15. \A m \in DOMAIN tree : Kept(m) /\ m # n => DefAt(m) # Def
    <2>1. \A m \in DOMAIN tree : Kept(m) /\ m # n => ids[m] # ids[n]
      BY <1>2, KeptIs DEF IdsUnique
    <2> QED
      BY <1>3, <2>1 DEF DefAt, DefIn
  <1>16. Def \in DOMAIN defs' <=> ~TakenIn(tree, DOMAIN ids, n)
    <2>1. CASE IsNamed(n)
      <3>1. PICK a : a = scopes[Into].byName
        OBVIOUS
      <3>2. Fits(a, tree[n].name, Def) <=> ~TakenIn(tree, DOMAIN ids, n)
        BY <1>2, <1>9, <2>1, <3>1, FitsIfFree
      <3> QED
        BY <2>1, <3>1, <3>2
    <2>2. CASE ~IsNamed(n)
      BY <2>2 DEF TakenIn, IsNamed
    <2> QED
      BY <2>1, <2>2
  <1>17. ASSUME NEW m \in DOMAIN tree, Done(m)'
         PROVE  DefAt(m) \in DOMAIN defs' <=> ~TakenIn(tree, DOMAIN ids, m)
    <2>1. CASE m = n
      BY <1>3, <1>16, <2>1
    <2>2. CASE m # n
      <3>1. Done(m) /\ Kept(m)
        BY <1>5, <1>17, <2>2 DEF Done
      <3> QED
        BY <1>15, <2>2, <3>1 DEF Mapping
    <2> QED
      BY <2>1, <2>2
  <1>18. ASSUME NEW def \in DOMAIN defs', def.file = file
         PROVE  def = FileDef(file) \/ \E m \in DOMAIN tree : Done(m)' /\ def = DefAt(m)
    <2>1. CASE def = Def
      BY <1>3, <1>5, <2>1
    <2>2. CASE def # Def
      BY <1>5, <1>18, <2>2 DEF Mapping
    <2> QED
      BY <2>1, <2>2
  <1>19. \A m : DefAt(m)' = DefAt(m)
    BY DEF DefAt, DefIn
  <1>20. \A m \in DOMAIN tree : TakenIn(tree, DOMAIN ids, m)' <=> TakenIn(tree, DOMAIN ids, m)
    OBVIOUS
  <1>21. \A a, b \in DOMAIN tree' : Done(a)' /\ Kept(b)' /\ Waiting(b)' /\ Place(a)' = Place(b)' => a < b
    BY <1>5, <1>8
  <1>22. /\ NamesOf(scopes[FileScope].byName, 0)'
         /\ \A m \in DOMAIN tree' : Kept(m)' /\ In(members, m)' => NamesOf(scopes[inner].byName, Place(m))'
    BY <1>1, <1>5, <1>6, <1>11, <1>12
  <1>23. /\ FileDef(file') \in DOMAIN defs'
         /\ \A m \in DOMAIN tree' : Done(m)' => (DefAt(m)' \in DOMAIN defs' <=> ~TakenIn(tree, DOMAIN ids, m)')
         /\ \A def \in DOMAIN defs' : def.file = file' =>
              def = FileDef(file') \/ \E m \in DOMAIN tree' : Done(m)' /\ def = DefAt(m)'
    BY <1>14, <1>17, <1>18, <1>19, <1>20
  <1> QED
    BY <1>1, <1>7, <1>13, <1>21, <1>22, <1>23 DEF Mapping

-----------------------------------------------------------------------------
(* The steps of the collector *)
LEMMA KindAtHand ==
    ASSUME NEW n \in DOMAIN tree, AtHand(n)
    PROVE  /\ IsNamed(n) <=> Item.kind \notin Unnamed
           /\ tree[n].name = data[Item.id].name
  BY DEF AtHand, ItemId, DefKind, IsNamed, Unnamed, Functions

LEMMA CollectSimpleKeepsMapping ==
    ASSUME DInv, IInv, Reached, ItemsHeld, Collected, Mapping, CollectSimple
    PROVE  Mapping' /\ \A def : def # Def => (def \in DOMAIN defs' <=> def \in DOMAIN defs)
  <1> DEFINE name == data[Item.id].name
             d == [name |-> <<name>>, scope |-> Into, child |-> NoScope]
  <1>1. /\ Collecting /\ Item.kind \notin Containers \cup Unnamed /\ Consume /\ inner' = inner
        /\ UNCHANGED <<tree, ids, file, files>>
        /\ defs' = IF Fits(scopes[Into].byName, name, Def) THEN Put(defs, Def, d) ELSE defs
        /\ scopes' = [scopes EXCEPT ![Into].byName = Entered(@, name, Def)]
    BY DEF CollectSimple, CollectDef, idVars, Unnamed
  <1>2. PICK n \in DOMAIN tree : AtHand(n)
    BY <1>1, OneIsAtHand
  <1>3. IsNamed(n) /\ tree[n].name = name
    BY <1>1, <1>2, KindAtHand
  <1> HIDE DEF name, d
  <1>4. /\ Into \in 1 .. Len(scopes) /\ Def \notin DOMAIN defs
        /\ DOMAIN scopes = 1 .. Len(scopes) /\ IsMapScope(scopes[Into])
    BY <1>1, ItemAtHand, IsSeqBounds DEF Known, DInv, MapInv, ScopesTyped
  <1>5. /\ scopes'[Into].byName = Entered(scopes[Into].byName, tree[n].name, Def)
        /\ \A s \in 1 .. Len(scopes) : s # Into => scopes'[s].byName = scopes[s].byName
    BY <1>1, <1>3, <1>4 DEF IsMapScope
  <1>6. /\ Def \in DOMAIN defs' <=> Fits(scopes[Into].byName, tree[n].name, Def)
        /\ \A def : def # Def => (def \in DOMAIN defs' <=> def \in DOMAIN defs)
    BY <1>1, <1>3, <1>4 DEF Put
  <1> QED
    BY <1>1, <1>2, <1>3, <1>5, <1>6, TakeKeepsMapping

LEMMA CollectUnnamedKeepsMapping ==
    ASSUME DInv, IInv, Reached, ItemsHeld, Collected, Mapping, CollectUsing \/ CollectImport
    PROVE  Mapping' /\ \A def : def # Def => (def \in DOMAIN defs' <=> def \in DOMAIN defs)
  <1>1. /\ Collecting /\ Item.kind \in Unnamed /\ Item.kind \notin Containers /\ Consume /\ inner' = inner
        /\ UNCHANGED <<tree, ids, file, files>>
        /\ DOMAIN defs' = DOMAIN defs \cup {Def}
        /\ scopes' = scopes \/ scopes' = [scopes EXCEPT ![Into].usings = Append(@, Def)]
    BY DEF CollectUsing, CollectImport, idVars, Unnamed, Put, Containers
  <1>2. PICK n \in DOMAIN tree : AtHand(n)
    BY <1>1, OneIsAtHand
  <1>3. ~IsNamed(n)
    BY <1>1, <1>2, KindAtHand
  <1>4. /\ Into \in 1 .. Len(scopes)
        /\ DOMAIN scopes = 1 .. Len(scopes) /\ IsMapScope(scopes[Into])
    BY <1>1, ItemAtHand, IsSeqBounds DEF DInv, MapInv, ScopesTyped
  <1>5. \A s \in 1 .. Len(scopes) : scopes'[s].byName = scopes[s].byName
    BY <1>1, <1>4 DEF IsMapScope
  <1>6. scopes'[Into].byName = scopes[Into].byName
    BY <1>4, <1>5
  <1>7. Def \in DOMAIN defs' /\ \A def : def # Def => (def \in DOMAIN defs' <=> def \in DOMAIN defs)
    BY <1>1
  <1> QED
    BY <1>1, <1>2, <1>3, <1>5, <1>6, <1>7, TakeKeepsMapping

LEMMA CollectContainerKeepsMapping ==
    ASSUME DInv, IInv, Reached, ItemsHeld, Collected, Mapping, CollectContainer
    PROVE  Mapping' /\ \A def : def # Def => (def \in DOMAIN defs' <=> def \in DOMAIN defs)
  <1> DEFINE name == data[Item.id].name
             sub == Len(scopes) + 1
             d == [name |-> <<name>>, scope |-> FileScope, child |-> sub]
             T == [scopes EXCEPT ![FileScope].byName = Entered(@, name, Def)]
             new == NewScope(Def, FileScope)
  <1>1. /\ Collecting /\ Item.kind \in Containers /\ Opens /\ inner' = sub
        /\ UNCHANGED <<tree, ids, file, files>>
        /\ defs' = IF Fits(scopes[FileScope].byName, name, Def) THEN Put(defs, Def, d) ELSE defs
        /\ scopes' = Append(T, new) /\ Into = FileScope
    BY DEF CollectContainer, CollectDef, idVars, Opens, Into
  <1>2. PICK n \in DOMAIN tree : AtHand(n)
    BY <1>1, OneIsAtHand
  <1>3. IsNamed(n) /\ tree[n].name = name
    BY <1>1, <1>2, KindAtHand DEF Containers, Unnamed
  <1>4. /\ FileScope \in 1 .. Len(scopes) /\ Def \notin DOMAIN defs
        /\ IsSeq(scopes) /\ DOMAIN scopes = 1 .. Len(scopes) /\ IsMapScope(scopes[FileScope])
        /\ Len(scopes) \in Nat
    BY <1>1, ItemAtHand, IsSeqBounds DEF Known, DInv, MapInv, ScopesTyped
  <1>5. /\ T[FileScope].byName = Entered(scopes[FileScope].byName, name, Def)
        /\ \A s \in 1 .. Len(scopes) : s # FileScope => T[s].byName = scopes[s].byName
    <2> HIDE DEF name
    <2> QED
      BY <1>4 DEF IsMapScope
  <1>6. IsSeq(T) /\ Len(T) = Len(scopes)
    <2>1. T = [s \in DOMAIN scopes |-> T[s]]
      OBVIOUS
    <2> HIDE DEF T
    <2> QED
      BY <1>4, <2>1, MappedIsSeq
  <1>7. new.byName = Empty
    BY DEF NewScope
  <1> HIDE DEF name, d, T, new
  <1>8. /\ \A s \in 1 .. Len(scopes) : scopes'[s] = T[s]
        /\ scopes'[sub] = new
    <2>1. /\ \A s \in 1 .. Len(T) : Append(T, new)[s] = T[s]
          /\ Append(T, new)[Len(T) + 1] = new
      BY <1>6, AppendIsSeq
    <2> QED
      BY <1>1, <1>6, <2>1
  <1>9. /\ scopes'[Into].byName = Entered(scopes[Into].byName, tree[n].name, Def)
        /\ \A s \in 1 .. Len(scopes) : s # Into => scopes'[s].byName = scopes[s].byName
        /\ scopes'[inner'].byName = Empty
    BY <1>1, <1>3, <1>4, <1>5, <1>7, <1>8
  <1>10. /\ Def \in DOMAIN defs' <=> Fits(scopes[Into].byName, tree[n].name, Def)
         /\ \A def : def # Def => (def \in DOMAIN defs' <=> def \in DOMAIN defs)
    BY <1>1, <1>3, <1>4 DEF Put
  <1> QED
    BY <1>1, <1>2, <1>3, <1>9, <1>10, TakeKeepsMapping

LEMMA CollectFileStartsMapping ==
    ASSUME DInv, IInv, Reached, ItemsHeld, Collected, CollectFile
    PROVE  Mapping' /\ \A def : def # FileDef(file) => (def \in DOMAIN defs' <=> def \in DOMAIN defs)
  <1>1. /\ cursor \notin DOMAIN tree /\ ~begun /\ todo' = topLevel /\ members = <<>>
        /\ UNCHANGED <<tree, ids, file, members, inner>>
        /\ DOMAIN defs' = DOMAIN defs \cup {FileDef(file)}
        /\ scopes' = Append(scopes, NewScope(FileDef(file), NoScope))
        /\ files' = Append(files, [scope |-> Len(scopes) + 1, imported |-> <<>>])
    BY DEF CollectFile, idVars, itemVars, Put, DInv, Progress
  <1>2. scopes'[FileScope'].byName = Empty
    <2>1. IsSeq(files) /\ Len(files) = file - 1 /\ file \in Nat /\ IsSeq(scopes)
      BY <1>1 DEF DInv, Scoped, Progress, MapInv, ScopesTyped
    <2>2. files'[file].scope = Len(scopes) + 1
      BY <1>1, <2>1, AppendIsSeq
    <2>3. scopes'[Len(scopes) + 1] = NewScope(FileDef(file), NoScope)
      BY <1>1, <2>1, AppendIsSeq
    <2>4. FileScope' = Len(scopes) + 1
      BY <1>1, <2>2 DEF FileScope
    <2>5. NewScope(FileDef(file), NoScope).byName = Empty
      BY DEF NewScope
    <2> QED
      BY <2>3, <2>4, <2>5
  <1>3. \A n \in DOMAIN tree : n < cursor
    <2>1. DOMAIN tree = 1 .. Len(tree) /\ Len(tree) \in Nat
      BY TreesAssumption DEF Reached
    <2> QED
      BY <1>1, <2>1 DEF DInv, Progress
  <1>4. \A n \in DOMAIN tree : Kept(n) => n \in Lowered
    BY <1>3, KeptIs, UpIsBefore DEF Lowered
  <1>5. ASSUME NEW n \in DOMAIN tree, Kept(n)
        PROVE  In(topLevel, n) \/ (Place(n) # 0 /\ In(topLevel, Place(n)))
    <2>1. CASE AtTop(n)
      BY <1>4, <1>5, <2>1 DEF ItemsHeld, Lists, TopNodes
    <2>2. CASE InContainer(n)
      <3>1. /\ Place(n) \in DOMAIN tree /\ AtTop(Place(n)) /\ Keeps(Place(n)) /\ Place(n) # 0
        BY <1>5, <2>2, ContainerIsKept, KeptIs
      <3>2. Place(n) \in TopNodes
        BY <1>4, <3>1, KeptIs DEF TopNodes
      <3> QED
        BY <3>1, <3>2 DEF ItemsHeld, Lists
    <2> QED
      BY <1>5, <2>1, <2>2, KeptIs
  <1>6. /\ \A s, m : In(s, m)' <=> In(s, m)
        /\ \A s : InOrder(s)' <=> InOrder(s)
        /\ \A m : (Kept(m)' <=> Kept(m)) /\ Place(m)' = Place(m)
    BY <1>1 DEF In, InOrder, Kept, KeptIn, Place, PlaceIn
  <1>7. \A n \in DOMAIN tree : ~Done(n)'
    BY <1>1, <1>5, <1>6 DEF Done, Waiting
  <1>8. \A b, c : b = Empty => NamesOf(b, c)'
    BY <1>1, <1>7 DEF NamesOf, Empty
  <1>9. /\ InOrder(todo)' /\ InOrder(members)' /\ members' = <<>> /\ \A n : ~In(members, n)'
    BY <1>1, <1>6, EmptyIsSeq DEF ItemsHeld, Lists, InOrder, In
  <1>10. \A def \in DOMAIN defs' : def.file = file' => def = FileDef(file')
    BY <1>1 DEF DInv, Scoped, Known
  <1> QED
    BY <1>1, <1>2, <1>7, <1>8, <1>9, <1>10 DEF Mapping

-----------------------------------------------------------------------------
(* The files collected keep their definitions, and the one that is finished *)
(* joins them.                                                              *)
LEMMA FilesStayMapped ==
    ASSUME FilesMapped, file \in Nat, UNCHANGED <<program, file, astIds>>,
           \A def : def.file # file => (def \in DOMAIN defs' <=> def \in DOMAIN defs)
    PROVE  FilesMapped'
  <1>1. \A f \in 1 .. file - 1 : \A t, I : FileMapped(f, t, I) => FileMapped(f, t, I)'
    <2> SUFFICES ASSUME NEW f \in 1 .. file - 1, NEW t, NEW I, FileMapped(f, t, I)
                 PROVE  FileMapped(f, t, I)'
      OBVIOUS
    <2>1. f # file
      OBVIOUS
    <2>2. FileDef(f).file = f /\ \A n : DefIn(f, t, I, n).file = f
      BY DEF FileDef, DefIn
    <2> QED
      BY <2>1, <2>2 DEF FileMapped
  <1> QED
    BY <1>1 DEF FilesMapped, IsSeq, ToSet

LEMMA FileIsMapped ==
    ASSUME DInv, IInv, Reached, Mapping, begun, ~Collecting
    PROVE  FileMapped(file, tree, ids)
  <1>1. todo = <<>> /\ members = <<>> /\ IdsDone /\ IdsUnique
    BY DEF Collecting, DInv, Progress, IInv
  <1>2. \A n : ~Waiting(n)
    BY <1>1, EmptyIsSeq DEF Waiting, In
  <1>3. Closed(tree, DOMAIN ids)
    BY <1>1, ReachedAll
  <1>4. ASSUME NEW n \in DOMAIN tree, n \in DOMAIN ids
        PROVE  DefAt(n) \in DOMAIN defs <=> Kept(n) /\ ~TakenIn(tree, DOMAIN ids, n)
    <2>1. CASE Kept(n)
      BY <1>2, <2>1 DEF Done, Mapping
    <2>2. CASE DefAt(n) \in DOMAIN defs
      <3>1. DefAt(n) # FileDef(file)
        <4>1. ids[n].id \in Nat
          BY <1>4 DEF IInv
        <4> QED
          BY <4>1 DEF FileDef, DefAt, DefIn, NoId, None
      <3>2. DefAt(n).file = file
        BY DEF DefAt, DefIn
      <3>3. PICK m \in DOMAIN tree : Done(m) /\ DefAt(n) = DefAt(m)
        BY <2>2, <3>1, <3>2 DEF Mapping
      <3>4. Kept(m) /\ m \in DOMAIN ids
        BY <3>3, KeptIs DEF Done
      <3>5. m = n
        BY <1>1, <1>4, <3>3, <3>4 DEF DefAt, DefIn, IdsUnique
      <3> QED
        BY <2>1, <3>4, <3>5
    <2> QED
      BY <2>1, <2>2
  <1> QED
    BY <1>3, <1>4 DEF FileMapped, Mapping, DefAt, Kept

LEMMA StartsInMapsFiles == DefInit => MapsFiles
  <1> SUFFICES ASSUME DefInit
               PROVE  MapsFiles
    OBVIOUS
  <1>1. program \in Seq(Trees) /\ program # <<>> /\ file = 1 /\ ~begun /\ IdsStart(program[1])
    BY ProgramsAssumption DEF DefInit
  <1>2. program[1] \in Trees
    BY <1>1
  <1>3. Reached /\ tree = program[1]
    BY <1>1, <1>2, StartsReached DEF IdsStart
  <1>4. ItemsHeld
    BY <1>3, NothingHeldYet, UpIsBefore DEF DefInit
  <1>5. FilesMapped
    BY EmptyIsSeq DEF DefInit, FilesMapped
  <1> QED
    BY <1>1, <1>3, <1>4, <1>5 DEF MapsFiles

LEMMA NextFileKeepsMapsFiles ==
    ASSUME DInv, IInv, Collected, MapsFiles, Reached', NextFile
    PROVE  MapsFiles'
  <1>1. /\ begun /\ ~Collecting /\ file' = file + 1 /\ astIds' = Append(astIds, ids)
        /\ UNCHANGED <<program, defs>>
    BY DEF NextFile, mapVars
  <1>2. Len(program) \in Nat /\ file \in 1 .. Len(program)
    BY ProgramsAssumption DEF NextFile, Collected
  <1>3. FileMapped(file, program[file], ids)
    BY <1>1, <1>2, FileIsMapped DEF MapsFiles
  <1>4. /\ IsSeq(astIds') /\ Len(astIds') = file /\ astIds'[file] = ids
        /\ \A f \in 1 .. file - 1 : astIds'[f] = astIds[f]
    BY <1>1, <1>2, AppendIsSeq DEF MapsFiles, FilesMapped
  <1>5. FilesMapped'
    <2>1. \A f, t, I : FileMapped(f, t, I)' <=> FileMapped(f, t, I)
      BY <1>1 DEF FileMapped
    <2>2. ASSUME NEW f \in 1 .. file' - 1
          PROVE  FileMapped(f, program[f], astIds'[f])
      BY <1>1, <1>2, <1>3, <1>4, <2>2 DEF MapsFiles, FilesMapped
    <2>3. IsSeq(astIds)'
      BY <1>4 DEF IsSeq, ToSet
    <2> QED
      BY <1>1, <1>2, <1>4, <2>1, <2>2, <2>3 DEF FilesMapped
  <1>6. CASE file < Len(program)
    <2>1. /\ tree' = program[file + 1] /\ cursor' = 1 /\ topLevel' = <<>> /\ data' = Empty /\ ~begun'
      BY <1>6 DEF NextFile, IdsBegin
    <2>2. ItemsHeld'
      <3>1. \A n \in DOMAIN tree' : n \in Nat \ {0}
        BY TreesAssumption DEF Reached
      <3>2. (topLevel = <<>> /\ data = Empty /\ cursor = 1 /\ (\A n \in DOMAIN tree : n \in Nat \ {0})
              => ItemsHeld)'
        BY NothingHeldYet, PTL
      <3> QED
        BY <2>1, <3>1, <3>2 DEF Empty
    <2> QED
      BY <1>1, <1>5, <2>1, <2>2 DEF MapsFiles
  <1>7. CASE ~(file < Len(program))
    <2>1. UNCHANGED <<tree, ids, itemVars>>
      BY <1>7 DEF NextFile, idVars
    <2>2. ItemsHeld'
      BY <2>1, ItemsStayHeld DEF MapsFiles
    <2> QED
      BY <1>1, <1>2, <1>5, <1>7, <2>2 DEF MapsFiles
  <1> QED
    BY <1>6, <1>7

LEMMA LoweringKeepsMapsFiles ==
    ASSUME DInv, IInv, Collected, MapsFiles, Reached',
           MakeIds \/ LowerTop \/ LowerMember \/ PassOver
    PROVE  MapsFiles'
  <1>1. ~begun /\ UNCHANGED <<tree, program, file, begun, astIds, defs>>
    BY DEF MakeIds, LowerTop, LowerMember, PassOver, Visit, Enqueue, Leave, Lowering, IdsDone,
           idVars, mapVars, collectVars, Collected, DInv, Progress
  <1>2. FilesMapped'
    BY <1>1, FilesStayMapped DEF MapsFiles, Collected
  <1>3. ItemsHeld'
    <2>1. CASE MakeIds
      <3>1. ~IdsDone
        BY <2>1 DEF MakeIds, Visit, Enqueue, Leave, IdsDone
      <3>2. topLevel' = <<>> /\ data' = Empty /\ cursor' = 1
        BY <2>1, <3>1 DEF DInv, Progress, MakeIds, itemVars
      <3>3. \A n \in DOMAIN tree' : n \in Nat \ {0}
        BY TreesAssumption DEF Reached
      <3>4. (topLevel = <<>> /\ data = Empty /\ cursor = 1 /\ (\A n \in DOMAIN tree : n \in Nat \ {0})
              => ItemsHeld)'
        BY NothingHeldYet, PTL
      <3> QED
        BY <3>2, <3>3, <3>4 DEF Empty
    <2>2. CASE LowerTop
      BY <2>2, LowerTopKeepsItemsHeld DEF MapsFiles
    <2>3. CASE LowerMember
      BY <2>3, LowerMemberKeepsItemsHeld DEF MapsFiles
    <2>4. CASE PassOver
      BY <2>4, PassOverKeepsItemsHeld DEF MapsFiles
    <2> QED
      BY <2>1, <2>2, <2>3, <2>4
  <1> QED
    BY <1>1, <1>2, <1>3 DEF MapsFiles

LEMMA CollectingKeepsMapsFiles ==
    ASSUME DInv, IInv, Collected, MapsFiles, Reached',
           \/ CollectFile \/ CollectSimple \/ CollectUsing \/ CollectImport \/ CollectContainer
    PROVE  MapsFiles'
  <1>1. UNCHANGED <<tree, ids, itemVars, program, file, astIds>>
    BY DEF CollectFile, CollectSimple, CollectUsing, CollectImport, CollectContainer, idVars
  <1>2. file <= Len(program)
    <2>1. CASE CollectFile
      BY <2>1, ProgramsAssumption DEF CollectFile, DInv, Progress, Collected
    <2>2. CASE Collecting
      BY <2>2, ItemAtHand
    <2> QED
      BY <2>1, <2>2 DEF CollectSimple, CollectUsing, CollectImport, CollectContainer
  <1>3. CASE CollectFile
    <2>1. /\ Mapping' /\ \A def : def # FileDef(file) => (def \in DOMAIN defs' <=> def \in DOMAIN defs)
      BY <1>3, CollectFileStartsMapping DEF MapsFiles
    <2>2. FilesMapped'
      BY <1>1, <2>1, FilesStayMapped DEF MapsFiles, FileDef, Collected
    <2> QED
      BY <1>1, <1>2, <2>1, <2>2, ItemsStayHeld DEF MapsFiles
  <1>4. CASE CollectSimple \/ CollectUsing \/ CollectImport \/ CollectContainer
    <2>1. Mapping
      BY <1>2, <1>4 DEF MapsFiles, CollectSimple, CollectUsing, CollectImport, CollectContainer, Collecting
    <2>2. /\ Mapping' /\ \A def : def # Def => (def \in DOMAIN defs' <=> def \in DOMAIN defs)
      BY <1>4, <2>1, CollectSimpleKeepsMapping, CollectUnnamedKeepsMapping, CollectContainerKeepsMapping
         DEF MapsFiles
    <2>3. FilesMapped'
      BY <1>1, <2>2, FilesStayMapped DEF MapsFiles, Def, DefOf, Collected
    <2> QED
      BY <1>1, <1>2, <2>2, <2>3, ItemsStayHeld DEF MapsFiles
  <1> QED
    BY <1>3, <1>4

LEMMA RestKeepsMapsFiles ==
    ASSUME DInv, Collected, MapsFiles, Reached',
           UNCHANGED <<idVars, itemVars, defs, collectVars>>,
           AllCollected \/ UNCHANGED <<scopes, files>>
    PROVE  MapsFiles'
  <1>1. UNCHANGED <<tree, ids, itemVars, program, file, astIds, begun, defs, todo, members, inner>>
    BY DEF idVars, collectVars
  <1>2. FilesMapped' /\ ItemsHeld'
    BY <1>1, FilesStayMapped, ItemsStayHeld DEF MapsFiles, Collected
  <1>3. ASSUME begun, file <= Len(program)
        PROVE  Mapping'
    <2>1. UNCHANGED <<scopes, files>>
      BY <1>3, ProgramsAssumption DEF AllCollected, Collected
    <2>2. Mapping
      BY <1>3 DEF MapsFiles
    <2> QED
      BY <1>1, <2>1, <2>2 DEF Mapping, InOrder, Done, Kept, Waiting, In, Place, IsNamed, DefAt, NamesOf, Like,
           FileScope
  <1> QED
    BY <1>1, <1>2, <1>3 DEF MapsFiles

LEMMA MapsFilesInductive == MapsFiles /\ DInv /\ IInv /\ Collected /\ [DefNext]_defVars => MapsFiles'
  <1> SUFFICES ASSUME MapsFiles, DInv, IInv, Collected, [DefNext]_defVars
               PROVE  MapsFiles'
    OBVIOUS
  <1>1. Reached'
    BY StepImplementsIds, ReachedInductive DEF MapsFiles
  <1>2. CASE MakeIds \/ LowerTop \/ LowerMember \/ PassOver
    BY <1>1, <1>2, LoweringKeepsMapsFiles
  <1>3. CASE CollectFile \/ CollectSimple \/ CollectUsing \/ CollectImport \/ CollectContainer
    BY <1>1, <1>3, CollectingKeepsMapsFiles
  <1>4. CASE NextFile
    BY <1>1, <1>4, NextFileKeepsMapsFiles
  <1>5. CASE ResolveImport \/ UNCHANGED defVars
    <2>1. UNCHANGED <<idVars, itemVars, defs, collectVars>> /\ (AllCollected \/ UNCHANGED <<scopes, files>>)
      BY <1>5 DEF ResolveImport, defVars, mapVars
    <2> QED
      BY <1>1, <2>1, RestKeepsMapsFiles
  <1> QED
    BY <1>2, <1>3, <1>4, <1>5 DEF DefNext

(* The definitions of a file that is collected are those of its items that  *)
(* are where FileCollector looks for them and whose names are not taken in  *)
(* their place: no other item has one, and none of those is left out,       *)
(* whatever is collected after it.                                          *)
THEOREM FilesAreMapped ==
    DefSpec => [](\A f \in 1 .. file - 1 : FileMapped(f, program[f], astIds[f]))
  <1>1. DefInit => IInv /\ Collected /\ DInv /\ MapsFiles
    BY StartsCollected, StartsInDInv, StartsInIInv, StartsInMapsFiles DEF IdsInit
  <1>2. /\ IInv /\ Collected /\ DInv /\ MapsFiles /\ [DefNext]_defVars
        => (IInv /\ Collected /\ DInv /\ MapsFiles)'
    BY StepImplementsIds, IInvInductive, DInvInductive, MapsFilesInductive
  <1>3. MapsFiles => \A f \in 1 .. file - 1 : FileMapped(f, program[f], astIds[f])
    BY DEF MapsFiles, FilesMapped
  <1> QED
    BY <1>1, <1>2, <1>3, PTL DEF DefSpec
=============================================================================
