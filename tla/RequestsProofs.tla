---------------------------- MODULE RequestsProofs ----------------------------
(***************************************************************************)
(* Proofs about Requests, for whatever trees and programs: what a name in  *)
(* a body means, what completion offers, and when a request panics.        *)
(***************************************************************************)
EXTENDS Requests, DefCollectorProofs, FiniteSetTheorems

(* Every set of numbers that is not empty has a least one, and a greatest   *)
(* one if it is bounded.                                                    *)
LEMMA LeastOf ==
    ASSUME NEW T \in SUBSET Nat, T # {}
    PROVE  \E n \in T : \A m \in T : n <= m
  <1> DEFINE F == {1 .. n : n \in T}
             Order == StrictSubsetOrdering(Nat)
  <1>1. F \subseteq FiniteSubsetsOf(Nat) /\ F # {}
    <2> SUFFICES ASSUME NEW n \in T
                 PROVE  IsFiniteSet(1 .. n) /\ 1 .. n \in SUBSET Nat
      BY DEF FiniteSubsetsOf
    <2> QED
      BY FS_Interval
  <1>2. IsWellFoundedOn(Order, FiniteSubsetsOf(Nat))
    BY FS_StrictSubsetOrderingWellFounded
  <1>3. \E x \in F : \A y \in F : <<y, x>> \notin Order
    <2> HIDE DEF F, Order
    <2> QED
      BY <1>1, <1>2, WFMin
  <1>4. PICK n \in T : \A y \in F : <<y, 1 .. n>> \notin Order
    BY <1>3
  <1>5. ASSUME NEW m \in T, m < n
        PROVE  FALSE
    <2>1. 1 .. m \in F /\ 1 .. m \in SUBSET Nat /\ 1 .. n \in SUBSET Nat
      <3>1. 1 .. m \in F
        OBVIOUS
      <3>2. m \in Nat /\ n \in Nat
        OBVIOUS
      <3> HIDE DEF F, Order
      <3>3. 1 .. m \in SUBSET Nat /\ 1 .. n \in SUBSET Nat
        BY <3>2
      <3> QED
        BY <3>1, <3>3
    <2>2. 1 .. m \subseteq 1 .. n /\ n \in 1 .. n /\ n \notin 1 .. m
      BY <1>5
    <2>3. <<1 .. m, 1 .. n>> \in Order
      BY <2>1, <2>2 DEF StrictSubsetOrdering
    <2> QED
      BY <1>4, <2>1, <2>3
  <1> QED
    BY <1>5

LEMMA GreatestOf ==
    ASSUME NEW b \in Nat, NEW T \in SUBSET (0 .. b), T # {}
    PROVE  \E n \in T : \A m \in T : m <= n
  <1> DEFINE U == {b - n : n \in T}
  <1>1. U \in SUBSET Nat /\ U # {}
    <2>1. \A n \in T : n \in 0 .. b /\ b - n \in Nat
      OBVIOUS
    <2>2. PICK n \in T : TRUE
      OBVIOUS
    <2>3. b - n \in U
      OBVIOUS
    <2> QED
      BY <2>1, <2>3
  <1>2. PICK u \in U : \A v \in U : u <= v
    <2> HIDE DEF U
    <2> QED
      BY <1>1, LeastOf
  <1>3. PICK n \in T : u = b - n
    OBVIOUS
  <1>4. \A m \in T : b - m \in U
    OBVIOUS
  <1>5. \A m \in T : m \in 0 .. b
    OBVIOUS
  <1> HIDE DEF U
  <1> QED
    BY <1>2, <1>3, <1>4, <1>5

LEMMA MinIs ==
    ASSUME NEW T \in SUBSET Nat, T # {}
    PROVE  Min(T) \in T /\ \A m \in T : Min(T) <= m
  BY LeastOf DEF Min

LEMMA MaxIs ==
    ASSUME NEW b \in Nat, NEW T \in SUBSET (0 .. b), T # {}
    PROVE  Max(T) \in T /\ \A m \in T : m <= Max(T)
  <1>1. PICK n \in T : \A m \in T : m <= n
    BY GreatestOf
  <1>2. \A m \in T : m \in Int
    OBVIOUS
  <1>3. \A m \in T : n >= m
    BY <1>1, <1>2
  <1>4. Max(T) \in T /\ \A m \in T : Max(T) >= m
    BY <1>3 DEF Max
  <1> QED
    BY <1>2, <1>4

-----------------------------------------------------------------------------
(* Trees.  What depends on the tree at hand is stated for a tree t. *)
Tree(t) ==
    /\ Len(t) \in Nat /\ DOMAIN t = 1 .. Len(t)
    /\ \A n \in DOMAIN t : t[n].up \in 0 .. n - 1
    /\ \A n \in DOMAIN t : \A m \in t[n].up + 1 .. n - 1 : t[m].up >= t[n].up

EndIn(t, n) == Min({m \in n + 1 .. Len(t) : t[m].up < n} \cup {Len(t) + 1})
CoversIn(t, n, m) == n <= m /\ m < EndIn(t, n)

LEMMA TreesAreTrees == \A t \in Trees : Tree(t)
  BY TreesAssumption DEF Tree

LEMMA SameRanges ==
    /\ \A n : End(n) = EndIn(tree, n)
    /\ \A n, m : Covers(n, m) <=> CoversIn(tree, n, m)
  BY DEF End, EndIn, Covers, CoversIn, Up

LEMMA EndIs ==
    ASSUME NEW t, Tree(t), NEW n \in DOMAIN t
    PROVE  /\ EndIn(t, n) \in n + 1 .. Len(t) + 1
           /\ \A m \in n + 1 .. EndIn(t, n) - 1 : m \in DOMAIN t /\ t[m].up >= n
           /\ \A m \in n + 1 .. Len(t) : t[m].up < n => EndIn(t, n) <= m
           /\ EndIn(t, n) <= Len(t) => t[EndIn(t, n)].up < n
  <1> DEFINE T == {m \in n + 1 .. Len(t) : t[m].up < n} \cup {Len(t) + 1}
  <1>1. n \in 1 .. Len(t) /\ Len(t) \in Nat
    BY DEF Tree
  <1>2. T \in SUBSET Nat /\ T # {}
    BY <1>1
  <1>3. Min(T) \in T /\ \A m \in T : Min(T) <= m
    <2> HIDE DEF T
    <2> QED
      BY <1>2, MinIs
  <1>4. EndIn(t, n) = Min(T)
    BY DEF EndIn
  <1> DEFINE e == EndIn(t, n)
  <1>5. e \in T /\ \A m \in T : e <= m
    BY <1>3, <1>4
  <1> HIDE DEF e
  <1>6. e \in n + 1 .. Len(t) + 1
    BY <1>1, <1>5
  <1>7. ASSUME NEW m \in n + 1 .. e - 1
        PROVE  m \in DOMAIN t /\ t[m].up >= n
    <2>1. m \in n + 1 .. Len(t) /\ m \in DOMAIN t
      BY <1>1, <1>6 DEF Tree
    <2>2. t[m].up \in Int
      BY <2>1 DEF Tree
    <2>3. ~(t[m].up < n)
      BY <1>1, <1>5, <1>6, <2>1
    <2> QED
      BY <1>1, <2>1, <2>2, <2>3
  <1>8. e <= Len(t) => t[e].up < n
    BY <1>1, <1>5, <1>6
  <1>9. \A m \in n + 1 .. Len(t) : t[m].up < n => e <= m
    BY <1>5
  <1> QED
    BY <1>6, <1>7, <1>8, <1>9 DEF e

LEMMA EndIsNat ==
    ASSUME NEW t, Tree(t), NEW n \in DOMAIN t
    PROVE  EndIn(t, n) \in Nat
  <1>1. n \in 1 .. Len(t) /\ Len(t) \in Nat
    BY DEF Tree
  <1>2. EndIn(t, n) \in n + 1 .. Len(t) + 1
    BY EndIs
  <1> QED
    BY <1>1, <1>2

(* Of two nodes of which one covers the start of the other, that one ends   *)
(* no earlier.                                                              *)
LEMMA EndNests ==
    ASSUME NEW t, Tree(t), NEW n \in DOMAIN t, NEW m, CoversIn(t, n, m), m \in Nat
    PROVE  m \in DOMAIN t /\ EndIn(t, m) <= EndIn(t, n)
  <1>1. /\ EndIn(t, n) \in n + 1 .. Len(t) + 1 /\ n \in 1 .. Len(t) /\ Len(t) \in Nat
        /\ EndIn(t, n) <= Len(t) => t[EndIn(t, n)].up < n
    BY EndIs DEF Tree
  <1>2. m \in DOMAIN t /\ m \in 1 .. Len(t) /\ n <= m /\ m < EndIn(t, n)
    BY <1>1 DEF CoversIn, Tree
  <1>3. /\ EndIn(t, m) \in m + 1 .. Len(t) + 1
        /\ \A k \in m + 1 .. Len(t) : t[k].up < m => EndIn(t, m) <= k
    BY <1>2, EndIs
  <1>4. CASE EndIn(t, n) <= Len(t)
    <2>1. EndIn(t, n) \in m + 1 .. Len(t) /\ EndIn(t, n) \in DOMAIN t
      BY <1>1, <1>2, <1>4 DEF Tree
    <2>2. t[EndIn(t, n)].up \in Int
      BY <2>1 DEF Tree
    <2>3. t[EndIn(t, n)].up < m
      BY <1>1, <1>2, <1>4, <2>2
    <2> QED
      BY <1>2, <1>3, <2>1, <2>3
  <1>5. CASE ~(EndIn(t, n) <= Len(t))
    BY <1>1, <1>2, <1>3, <1>5
  <1> QED
    BY <1>4, <1>5

LEMMA ParentCovers ==
    ASSUME NEW t, Tree(t), NEW n \in DOMAIN t, t[n].up # 0
    PROVE  t[n].up \in DOMAIN t /\ t[n].up < n /\ CoversIn(t, t[n].up, n)
  <1> DEFINE u == t[n].up
  <1>1. n \in 1 .. Len(t) /\ Len(t) \in Nat /\ u \in 1 .. n - 1
    BY DEF Tree
  <1>2. u \in DOMAIN t
    BY <1>1 DEF Tree
  <1>3. \A m \in u + 1 .. n - 1 : t[m].up >= u
    BY DEF Tree
  <1>4. t[n].up = u
    OBVIOUS
  <1> HIDE DEF u
  <1>5. EndIn(t, u) \in u + 1 .. Len(t) + 1 /\ (EndIn(t, u) <= Len(t) => t[EndIn(t, u)].up < u)
    BY <1>2, EndIs
  <1>6. n < EndIn(t, u)
    <2> SUFFICES ASSUME ~(n < EndIn(t, u))
                 PROVE  FALSE
      OBVIOUS
    <2>1. EndIn(t, u) \in u + 1 .. n /\ EndIn(t, u) <= Len(t)
      BY <1>1, <1>5
    <2>2. t[EndIn(t, u)].up >= u
      BY <1>1, <1>3, <1>4, <2>1
    <2>3. t[EndIn(t, u)].up \in Int
      BY <1>1, <2>1 DEF Tree
    <2> QED
      BY <1>1, <1>5, <2>1, <2>2, <2>3
  <1> QED
    BY <1>1, <1>2, <1>4, <1>6 DEF CoversIn

(* Within says the same of what is inside a node. *)
LEMMA WithinIsCovered ==
    ASSUME NEW t, Tree(t), NEW o \in DOMAIN t, NEW n \in DOMAIN t
    PROVE  Within(t, o, n) <=> (o < n /\ CoversIn(t, o, n))
  <1>1. /\ EndIn(t, o) \in o + 1 .. Len(t) + 1
        /\ \A m \in o + 1 .. EndIn(t, o) - 1 : m \in DOMAIN t /\ t[m].up >= o
        /\ EndIn(t, o) <= Len(t) => t[EndIn(t, o)].up < o
    BY EndIs
  <1>2. n \in 1 .. Len(t) /\ o \in 1 .. Len(t) /\ Len(t) \in Nat
    BY DEF Tree
  <1>3. ASSUME Within(t, o, n), ~(n < EndIn(t, o))
        PROVE  FALSE
    <2>1. EndIn(t, o) \in o + 1 .. n /\ EndIn(t, o) <= Len(t) /\ EndIn(t, o) \in DOMAIN t
      BY <1>1, <1>2, <1>3 DEF Tree
    <2>2. t[EndIn(t, o)].up >= o
      BY <2>1, <1>3 DEF Within
    <2>3. t[EndIn(t, o)].up \in Int
      BY <2>1 DEF Tree
    <2> QED
      BY <1>1, <1>2, <2>1, <2>2, <2>3
  <1>4. ASSUME o < n, n < EndIn(t, o)
        PROVE  Within(t, o, n)
    <2>1. o + 1 .. n \subseteq o + 1 .. EndIn(t, o) - 1
      BY <1>1, <1>2, <1>4
    <2> QED
      BY <1>1, <1>4, <2>1 DEF Within
  <1>5. Within(t, o, n) => o < n
    BY DEF Within
  <1> QED
    BY <1>2, <1>3, <1>4, <1>5 DEF CoversIn

-----------------------------------------------------------------------------
(* Bodies: where in them the walk finds locals and scopes *)
LocalKinds == {"parameter", "variable"}
Entering(t, n) ==
    \/ t[n].kind \in Blocks \cup {"returns", "declaration", "tuple"}
    \/ t[n].kind = "ERROR" /\ ParentKind(t, n) \in Blocks
Walked(t, n) == Entering(t, n) \/ t[n].kind \in LocalKinds

Body(t, o) ==
    /\ Tree(t) /\ o \in DOMAIN t /\ t[o].kind \in Bodied
    /\ \A n \in DOMAIN t : Within(t, o, n) => BodyNode(t, o, n)
InBodyOf(t, o, n) == n \in DOMAIN t /\ o < n /\ n < EndIn(t, o)

LEMMA BodiesAreBodies ==
    ASSUME NEW t \in Trees, NEW o \in DOMAIN t, t[o].kind \in Bodied
    PROVE  Body(t, o)
  BY TreesAreTrees, BodyAssumption DEF Body

LEMMA BodyNodes ==
    ASSUME NEW t, NEW o, Body(t, o), NEW n, InBodyOf(t, o, n)
    PROVE  /\ BodyNode(t, o, n) /\ t[n].up \in o .. n - 1 /\ n \in Nat /\ o \in Nat
           /\ t[n].up # o => InBodyOf(t, o, t[n].up)
  <1>1. /\ Tree(t) /\ o \in DOMAIN t /\ n \in DOMAIN t /\ o < n /\ n < EndIn(t, o)
        /\ o \in 1 .. Len(t) /\ n \in 1 .. Len(t) /\ Len(t) \in Nat
    BY DEF Body, InBodyOf, Tree
  <1>2. Within(t, o, n)
    BY <1>1, WithinIsCovered DEF CoversIn
  <1>3. EndIn(t, o) \in o + 1 .. Len(t) + 1
        /\ \A m \in o + 1 .. EndIn(t, o) - 1 : m \in DOMAIN t /\ t[m].up >= o
    BY <1>1, EndIs
  <1>4. t[n].up \in o .. n - 1
    <2>1. t[n].up \in 0 .. n - 1 /\ t[n].up >= o
      BY <1>1, <1>3 DEF Tree
    <2> QED
      BY <1>1, <2>1
  <1>5. t[n].up # o => InBodyOf(t, o, t[n].up)
    <2>1. t[n].up # o => t[n].up \in o + 1 .. EndIn(t, o) - 1
      BY <1>1, <1>3, <1>4
    <2> QED
      BY <1>1, <1>3, <1>4, <2>1 DEF InBodyOf
  <1> QED
    BY <1>1, <1>2, <1>4, <1>5 DEF Body

LEMMA ParentEntered ==
    ASSUME NEW t, NEW o, Body(t, o), NEW n, InBodyOf(t, o, n), Walked(t, n), t[n].up # o
    PROVE  Entering(t, t[n].up)
  <1>1. BodyNode(t, o, n)
    BY BodyNodes
  <1> QED
    BY <1>1 DEF Walked, Entering, BodyNode, InStatements, ParentKind, Blocks, LocalKinds

(* Below what the walk does not enter there is nothing it looks for. *)
LEMMA NothingSkipped ==
    ASSUME NEW t, NEW o, Body(t, o), NEW a, InBodyOf(t, o, a), ~Entering(t, a),
           NEW n \in a + 1 .. EndIn(t, a) - 1
    PROVE  InBodyOf(t, o, n) /\ ~Walked(t, n)
  <1> DEFINE below == a + 1 .. EndIn(t, a) - 1
             T == {m \in below : Walked(t, m)}
  <1>1. /\ Tree(t) /\ o \in DOMAIN t /\ a \in DOMAIN t /\ o < a /\ a < EndIn(t, o)
        /\ o \in 1 .. Len(t) /\ a \in 1 .. Len(t) /\ Len(t) \in Nat
    BY DEF Body, InBodyOf, Tree
  <1>2. /\ EndIn(t, a) \in a + 1 .. Len(t) + 1
        /\ \A m \in below : m \in DOMAIN t /\ t[m].up >= a
    BY <1>1, EndIs
  <1>3. EndIn(t, a) <= EndIn(t, o) /\ EndIn(t, o) \in Nat
    <2>1. CoversIn(t, o, a) /\ a \in Nat
      BY <1>1 DEF CoversIn
    <2> QED
      BY <1>1, <2>1, EndNests, EndIs
  <1>4. \A m \in below : InBodyOf(t, o, m) /\ m \in Nat
    <2> SUFFICES ASSUME NEW m \in below
                 PROVE  InBodyOf(t, o, m) /\ m \in Nat
      OBVIOUS
    <2>1. o < m /\ m < EndIn(t, o) /\ m \in Nat
      BY <1>1, <1>2, <1>3
    <2> QED
      BY <1>2, <2>1 DEF InBodyOf
  <1>5. ASSUME T # {}
        PROVE  FALSE
    <2>1. T \in SUBSET Nat
      BY <1>4
    <2> HIDE DEF T
    <2>2. PICK m \in T : \A k \in T : m <= k
      BY <1>5, <2>1, LeastOf
    <2>3. m \in below /\ Walked(t, m)
      BY <2>2 DEF T
    <2>4. InBodyOf(t, o, m) /\ t[m].up \in 0 .. m - 1 /\ t[m].up >= a /\ m \in Nat
      BY <1>1, <1>2, <1>4, <2>3 DEF Tree
    <2>5. t[m].up # o
      BY <1>1, <2>4
    <2>6. Entering(t, t[m].up)
      BY <2>3, <2>4, <2>5, ParentEntered
    <2>7. t[m].up # a
      BY <2>6
    <2>8. t[m].up \in below
      BY <1>1, <1>2, <2>3, <2>4, <2>7
    <2>9. t[m].up \in T
      BY <2>6, <2>8 DEF T, Walked
    <2> QED
      BY <2>2, <2>4, <2>9
  <1> QED
    BY <1>4, <1>5

-----------------------------------------------------------------------------
(* The innermost scope around a node *)
ScopesOver(t, o, n) ==
    {o} \cup {m \in DOMAIN t : o < m /\ m < n /\ t[m].kind \in ScopeKinds /\ CoversIn(t, m, n)}
ScopeIn(t, o, n) == Max(ScopesOver(t, o, n))

LEMMA SameScopes == \A n : ScopeOf(n) = ScopeIn(tree, owner, n)
  BY SameRanges DEF ScopeOf, ScopeIn, ScopesOver, Kind

LEMMA ScopeIs ==
    ASSUME NEW t, NEW o, Body(t, o), NEW n, InBodyOf(t, o, n)
    PROVE  /\ ScopeIn(t, o, n) \in ScopesOver(t, o, n)
           /\ \A m \in ScopesOver(t, o, n) : m <= ScopeIn(t, o, n)
           /\ ScopeIn(t, o, n) \in DOMAIN t /\ ScopeIn(t, o, n) \in o .. n - 1
           /\ CoversIn(t, ScopeIn(t, o, n), n)
  <1>1. /\ o \in DOMAIN t /\ n \in DOMAIN t /\ o < n /\ n < EndIn(t, o)
        /\ o \in 1 .. Len(t) /\ n \in 1 .. Len(t) /\ Len(t) \in Nat
    BY DEF Body, InBodyOf, Tree
  <1>2. \A m \in ScopesOver(t, o, n) : m \in o .. n - 1 /\ m \in DOMAIN t /\ CoversIn(t, m, n)
    <2> SUFFICES ASSUME NEW m \in ScopesOver(t, o, n)
                 PROVE  m \in o .. n - 1 /\ m \in DOMAIN t /\ CoversIn(t, m, n)
      OBVIOUS
    <2>1. CASE m = o
      BY <1>1, <2>1 DEF CoversIn
    <2>2. CASE m # o
      <3>1. m \in DOMAIN t /\ o < m /\ m < n /\ CoversIn(t, m, n)
        BY <2>2 DEF ScopesOver
      <3>2. m \in 1 .. Len(t)
        BY <3>1 DEF Body, Tree
      <3> QED
        BY <1>1, <3>1, <3>2
    <2> QED
      BY <2>1, <2>2
  <1>3. ScopesOver(t, o, n) \in SUBSET (0 .. n) /\ n \in Nat
    BY <1>1, <1>2
  <1>4. o \in ScopesOver(t, o, n)
    BY DEF ScopesOver
  <1>5. /\ ScopeIn(t, o, n) \in ScopesOver(t, o, n)
        /\ \A m \in ScopesOver(t, o, n) : m <= ScopeIn(t, o, n)
    BY <1>3, <1>4, MaxIs DEF ScopeIn
  <1> QED
    BY <1>2, <1>5

-----------------------------------------------------------------------------
(* The invariant of the walk: what there is when the cursor is at a in the  *)
(* scope c, with the scopes S, the locals L and the scopes E of expressions *)
IsFrame(x) == x = [parent |-> x.parent, node |-> x.node, byName |-> x.byName]

(* The scopes passed, in the order of the text, each in the innermost one   *)
(* around it.                                                               *)
Framed(t, o, a, S) ==
    /\ IsSeq(S) /\ Len(S) >= 1 /\ S[1].node = o /\ S[1].parent = NoBodyScope
    /\ \A s \in 1 .. Len(S) : IsFrame(S[s])
    /\ \A s \in 2 .. Len(S) :
        /\ S[s].node \in o + 1 .. a - 1 /\ t[S[s].node].kind \in ScopeKinds
        /\ S[s].parent \in 1 .. s - 1
        /\ ScopeIn(t, o, S[s].node) = S[S[s].parent].node
    /\ \A r, s \in 1 .. Len(S) : r < s => S[r].node < S[s].node
    /\ \A m \in o + 1 .. a - 1 : t[m].kind \in ScopeKinds => \E s \in 1 .. Len(S) : S[s].node = m

(* The cursor is in the current scope, and past those that begin later.     *)
Standing(t, o, a, c, S) ==
    /\ a \in o + 1 .. EndIn(t, o) /\ c \in 1 .. Len(S) /\ a <= EndIn(t, S[c].node)
    /\ \A s \in 1 .. Len(S) : S[s].node > S[c].node => EndIn(t, S[s].node) <= a

NamedIn(t, n) == t[n].name # "" /\ "type" \in DOMAIN t[n]
OffsetIn(t, n) == IF t[n].kind = "parameter" THEN n ELSE EndIn(t, n)
LocalAt(t, o, a, x) ==
    /\ x.node \in o + 1 .. a - 1 /\ t[x.node].kind \in LocalKinds /\ NamedIn(t, x.node)
    /\ x.name = t[x.node].name /\ x.offset = OffsetIn(t, x.node)

(* The locals passed, each under its name in the innermost scope around it. *)
Filled(t, o, a, S, L) ==
    /\ IsSeq(L) /\ \A l \in 1 .. Len(L) : LocalAt(t, o, a, L[l])
    /\ \A s \in 1 .. Len(S) : \A name \in DOMAIN S[s].byName :
        /\ S[s].byName[name] \in 1 .. Len(L) /\ L[S[s].byName[name]].name = name
        /\ ScopeIn(t, o, L[S[s].byName[name]].node) = S[s].node
    /\ \A d \in o + 1 .. a - 1 : t[d].kind \in LocalKinds =>
        /\ EndIn(t, d) <= a
        /\ NamedIn(t, d) =>
             \E s \in 1 .. Len(S) : S[s].node = ScopeIn(t, o, d) /\ t[d].name \in DOMAIN S[s].byName

(* The expressions passed, each in the innermost scope around it, and in no *)
(* declaration of a local.                                                  *)
Placed(t, o, a, S, E) ==
    \A n \in DOMAIN E :
        /\ n \in o + 1 .. a - 1 /\ E[n] \in 1 .. Len(S)
        /\ S[E[n]].node = ScopeIn(t, o, n)
        /\ \A d \in o + 1 .. n - 1 : t[d].kind \in LocalKinds => EndIn(t, d) <= n

BodyInv(t, o, a, c, S, L, E) ==
    Body(t, o) /\ Framed(t, o, a, S) /\ Standing(t, o, a, c, S) /\ Filled(t, o, a, S, L)
    /\ Placed(t, o, a, S, E)

StillIn(t, a, c, S) == c = RootScope \/ a < EndIn(t, S[c].node)

LEMMA BodyStarts ==
    ASSUME NEW t, NEW o, Body(t, o)
    PROVE  BodyInv(t, o, o + 1, 1, <<[parent |-> NoBodyScope, node |-> o, byName |-> Empty]>>,
                   <<>>, Empty)
  <1> DEFINE f == [parent |-> NoBodyScope, node |-> o, byName |-> Empty]
             S == <<f>>
  <1>1. S \in Seq({f}) /\ Len(S) = 1 /\ S[1] = f
    OBVIOUS
  <1>2. IsSeq(S)
    BY <1>1, SeqIsSeq
  <1>3. f.node = o /\ f.byName = Empty /\ f.parent = NoBodyScope /\ IsFrame(f) /\ DOMAIN Empty = {}
    BY DEF IsFrame, Empty
  <1> HIDE DEF S, f
  <1>4. o \in Nat /\ EndIn(t, o) \in Nat /\ EndIn(t, o) > o /\ o + 1 .. (o + 1) - 1 = {}
    <2>1. o \in 1 .. Len(t) /\ Len(t) \in Nat /\ Tree(t) /\ o \in DOMAIN t
      BY DEF Body, Tree
    <2>2. EndIn(t, o) \in o + 1 .. Len(t) + 1
      BY <2>1, EndIs
    <2> QED
      BY <2>1, <2>2
  <1>5. Framed(t, o, o + 1, S)
    <2>1. 2 .. Len(S) = {} /\ \A s \in 1 .. Len(S) : s = 1
      BY <1>1
    <2>2. \A s \in 1 .. Len(S) : IsFrame(S[s])
      BY <1>1, <1>3, <2>1
    <2>3. \A r, s \in 1 .. Len(S) : ~(r < s)
      BY <2>1
    <2> QED
      BY <1>1, <1>2, <1>3, <1>4, <2>1, <2>2, <2>3 DEF Framed
  <1>6. Standing(t, o, o + 1, 1, S)
    <2>1. \A s \in 1 .. Len(S) : s = 1
      BY <1>1
    <2> QED
      BY <1>1, <1>3, <1>4, <2>1 DEF Standing
  <1>7. Filled(t, o, o + 1, S, <<>>)
    <2>1. \A s \in 1 .. Len(S) : DOMAIN S[s].byName = {}
      BY <1>1, <1>3
    <2>2. 1 .. Len(<<>>) = {} /\ IsSeq(<<>>)
      BY EmptyIsSeq
    <2> QED
      BY <1>4, <2>1, <2>2 DEF Filled
  <1>8. Placed(t, o, o + 1, S, Empty)
    BY <1>3 DEF Placed
  <1>9. BodyInv(t, o, o + 1, 1, S, <<>>, Empty)
    BY <1>5, <1>6, <1>7, <1>8 DEF BodyInv
  <1> QED
    BY <1>9 DEF S, f

(* The innermost scope around the cursor is the current one. *)
LEMMA CurrentIsInnermost ==
    ASSUME NEW t, NEW o, NEW a, NEW c, NEW S, Body(t, o), Framed(t, o, a, S),
           Standing(t, o, a, c, S), a < EndIn(t, o), StillIn(t, a, c, S)
    PROVE  /\ InBodyOf(t, o, a) /\ S[c].node \in DOMAIN t /\ S[c].node \in o .. a - 1
           /\ CoversIn(t, S[c].node, a) /\ ScopeIn(t, o, a) = S[c].node
  <1>1. /\ Tree(t) /\ o \in DOMAIN t /\ o \in 1 .. Len(t) /\ Len(t) \in Nat
        /\ a \in o + 1 .. EndIn(t, o) /\ c \in 1 .. Len(S) /\ Len(S) \in Nat
        /\ EndIn(t, o) \in o + 1 .. Len(t) + 1
    BY EndIs, IsSeqBounds DEF Body, Tree, Standing, Framed
  <1>2. a \in DOMAIN t /\ InBodyOf(t, o, a) /\ a \in 1 .. Len(t)
    BY <1>1 DEF Tree, InBodyOf
  <1> DEFINE m == S[c].node
  <1>3. m \in DOMAIN t /\ m \in o .. a - 1 /\ CoversIn(t, m, a) /\ m \in ScopesOver(t, o, a)
    <2>1. CASE c = 1
      <3>1. m = o
        BY <2>1 DEF Framed
      <3> QED
        BY <1>1, <3>1 DEF CoversIn, ScopesOver
    <2>2. CASE c # 1
      <3>1. c \in 2 .. Len(S)
        BY <1>1, <2>2
      <3>2. m \in o + 1 .. a - 1 /\ t[m].kind \in ScopeKinds
        BY <3>1 DEF Framed
      <3>3. m \in 1 .. Len(t) /\ m \in DOMAIN t
        BY <1>1, <1>2, <3>2 DEF Tree
      <3>4. a < EndIn(t, m)
        BY <2>2 DEF StillIn, RootScope
      <3> QED
        BY <1>1, <1>2, <3>2, <3>3, <3>4 DEF CoversIn, ScopesOver
    <2> QED
      BY <2>1, <2>2
  <1>4. ASSUME NEW k \in ScopesOver(t, o, a), k > m
        PROVE  FALSE
    <2>1. k # o /\ k \in DOMAIN t /\ o < k /\ k < a /\ t[k].kind \in ScopeKinds /\ CoversIn(t, k, a)
      BY <1>1, <1>3, <1>4 DEF ScopesOver
    <2>2. k \in o + 1 .. a - 1
      <3>1. k \in 1 .. Len(t)
        BY <2>1 DEF Body, Tree
      <3> QED
        BY <1>1, <2>1, <3>1
    <2>3. PICK s \in 1 .. Len(S) : S[s].node = k
      BY <2>1, <2>2 DEF Framed
    <2>4. EndIn(t, k) <= a
      BY <1>4, <2>3 DEF Standing
    <2>5. EndIn(t, k) \in Int
      BY <1>1, <2>1, EndIs
    <2> QED
      BY <1>2, <2>1, <2>4, <2>5 DEF CoversIn
  <1>5. ScopeIn(t, o, a) = m
    <2>1. /\ ScopeIn(t, o, a) \in ScopesOver(t, o, a) /\ m <= ScopeIn(t, o, a)
          /\ ScopeIn(t, o, a) \in o .. a - 1
      BY <1>2, <1>3, ScopeIs
    <2> QED
      BY <1>1, <1>3, <1>4, <2>1
  <1> QED
    BY <1>2, <1>3, <1>5

(* The cursor goes on to b: nothing the walk looks for is between.          *)
Clear(t, a, b) ==
    /\ b \in a + 1 .. EndIn(t, a)
    /\ \A m \in a .. b - 1 : t[m].kind \notin ScopeKinds
    /\ \A m \in a + 1 .. b - 1 : t[m].kind \notin LocalKinds
    /\ t[a].kind \in LocalKinds => b = EndIn(t, a)

LEMMA PassKeepsScopes ==
    ASSUME NEW t, NEW o, NEW a, NEW c, NEW S, Body(t, o), Framed(t, o, a, S),
           Standing(t, o, a, c, S), a < EndIn(t, o), StillIn(t, a, c, S), NEW b, Clear(t, a, b)
    PROVE  Framed(t, o, b, S) /\ Standing(t, o, b, c, S) /\ b \in Nat /\ a \in Nat /\ a < b /\ o < a
  <1>1. /\ InBodyOf(t, o, a) /\ S[c].node \in DOMAIN t /\ CoversIn(t, S[c].node, a)
        /\ Tree(t) /\ o \in DOMAIN t /\ a \in DOMAIN t /\ CoversIn(t, o, a)
    <2>1. Tree(t) /\ o \in DOMAIN t
      BY DEF Body
    <2>2. InBodyOf(t, o, a) /\ S[c].node \in DOMAIN t /\ CoversIn(t, S[c].node, a)
      BY CurrentIsInnermost
    <2> QED
      BY <2>1, <2>2 DEF InBodyOf, CoversIn, Tree
  <1>2. /\ o \in 1 .. Len(t) /\ a \in 1 .. Len(t) /\ Len(t) \in Nat /\ o < a
        /\ EndIn(t, a) \in a + 1 .. Len(t) + 1 /\ EndIn(t, o) \in o + 1 .. Len(t) + 1
        /\ EndIn(t, S[c].node) \in Int
    <2>1. EndIn(t, S[c].node) \in Nat
      BY <1>1, EndIsNat
    <2>2. /\ EndIn(t, a) \in a + 1 .. Len(t) + 1 /\ EndIn(t, o) \in o + 1 .. Len(t) + 1
      BY <1>1, EndIs
    <2> QED
      BY <1>1, <2>1, <2>2 DEF Tree, InBodyOf
  <1>3. EndIn(t, a) <= EndIn(t, o) /\ EndIn(t, a) <= EndIn(t, S[c].node)
    BY <1>1, <1>2, EndNests
  <1>4. b \in Nat /\ a < b /\ b <= EndIn(t, a) /\ b \in a + 1 .. EndIn(t, a)
    BY <1>2 DEF Clear
  <1>5. Standing(t, o, b, c, S)
    <2>1. b \in o + 1 .. EndIn(t, o) /\ b <= EndIn(t, S[c].node)
      BY <1>2, <1>3, <1>4
    <2>2. ASSUME NEW s \in 1 .. Len(S), S[s].node > S[c].node
          PROVE  EndIn(t, S[s].node) <= b
      <3>1. EndIn(t, S[s].node) <= a
        BY <2>2 DEF Standing
      <3>2. EndIn(t, S[s].node) \in Int
        <4>1. S[s].node \in o .. a - 1
          <5>1. Len(S) \in Nat /\ (s = 1 \/ s \in 2 .. Len(S))
            BY IsSeqBounds DEF Framed
          <5> QED
            BY <1>2, <5>1, SMTT(30) DEF Framed
        <4>2. o .. a - 1 \subseteq 1 .. Len(t)
          BY <1>2
        <4>3. S[s].node \in DOMAIN t
          BY <1>1, <4>1, <4>2 DEF Tree
        <4> QED
          BY <1>1, <4>3, EndIsNat
      <3> QED
        BY <1>2, <1>4, <3>1, <3>2
    <2> QED
      BY <2>1, <2>2 DEF Standing
  <1>6. Framed(t, o, b, S)
    <2>1. o + 1 .. a - 1 \subseteq o + 1 .. b - 1
      BY <1>2, <1>4
    <2>2. ASSUME NEW m \in o + 1 .. b - 1, t[m].kind \in ScopeKinds
          PROVE  \E s \in 1 .. Len(S) : S[s].node = m
      <3>1. m \in o + 1 .. a - 1 \/ m \in a .. b - 1
        BY <1>2, <1>4
      <3> QED
        BY <2>2, <3>1 DEF Framed, Clear
    <2>3. \A s \in 2 .. Len(S) :
            /\ S[s].node \in o + 1 .. b - 1 /\ t[S[s].node].kind \in ScopeKinds
            /\ S[s].parent \in 1 .. s - 1
            /\ ScopeIn(t, o, S[s].node) = S[S[s].parent].node
      BY <2>1 DEF Framed
    <2> QED
      BY <2>2, <2>3 DEF Framed
  <1> QED
    BY <1>2, <1>4, <1>5, <1>6

LEMMA PassKeepsPlaced ==
    ASSUME NEW t, NEW o \in Nat, NEW a \in Nat, NEW b \in Nat, a < b, NEW S, NEW E, Placed(t, o, a, S, E)
    PROVE  Placed(t, o, b, S, E)
  <1>1. o + 1 .. a - 1 \subseteq o + 1 .. b - 1
    OBVIOUS
  <1> QED
    BY <1>1 DEF Placed

LEMMA PassKeepsFilled ==
    ASSUME NEW t, NEW o \in Nat, NEW a \in Nat, NEW b \in Nat, a < b, NEW S, NEW L, Tree(t),
           o \in DOMAIN t, a \in DOMAIN t, o < a,
           Filled(t, o, a, S, L), Clear(t, a, b), t[a].kind \in LocalKinds => ~NamedIn(t, a)
    PROVE  Filled(t, o, b, S, L)
  <1>1. o + 1 .. a - 1 \subseteq o + 1 .. b - 1
    OBVIOUS
  <1>2. \A l \in 1 .. Len(L) : LocalAt(t, o, b, L[l])
    BY <1>1 DEF Filled, LocalAt
  <1>3. ASSUME NEW d \in o + 1 .. b - 1, t[d].kind \in LocalKinds
        PROVE  /\ EndIn(t, d) <= b
               /\ NamedIn(t, d) =>
                    \E s \in 1 .. Len(S) : S[s].node = ScopeIn(t, o, d) /\ t[d].name \in DOMAIN S[s].byName
    <2>1. d \in o + 1 .. a - 1 \/ d = a \/ d \in a + 1 .. b - 1
      OBVIOUS
    <2>2. CASE d \in o + 1 .. a - 1
      <3>1. EndIn(t, d) <= a
        BY <1>3, <2>2 DEF Filled
      <3>2. EndIn(t, d) \in Int
        <4>1. d \in DOMAIN t
          BY <2>2 DEF Tree
        <4> QED
          BY <4>1, EndIsNat
      <3>3. EndIn(t, d) <= b
        BY <3>1, <3>2
      <3> QED
        BY <1>3, <2>2, <3>3 DEF Filled
    <2>3. CASE d = a
      BY <1>3, <2>3 DEF Clear
    <2>4. CASE d \in a + 1 .. b - 1
      BY <1>3, <2>4 DEF Clear
    <2> QED
      BY <2>1, <2>2, <2>3, <2>4
  <1> QED
    BY <1>2, <1>3 DEF Filled

(* A local is entered under its name, in the current scope. *)
LEMMA AddKeepsBodyInv ==
    ASSUME NEW t, NEW o, NEW a, NEW c, NEW S, NEW L, NEW E, BodyInv(t, o, a, c, S, L, E),
           a < EndIn(t, o), StillIn(t, a, c, S), t[a].kind \in LocalKinds, NamedIn(t, a),
           Clear(t, a, EndIn(t, a))
    PROVE  BodyInv(t, o, EndIn(t, a), c,
                   [S EXCEPT ![c].byName = Put(@, t[a].name, Len(L) + 1)],
                   Append(L, [name |-> t[a].name, node |-> a, offset |-> OffsetIn(t, a)]), E)
  <1> DEFINE b == EndIn(t, a)
             x == [name |-> t[a].name, node |-> a, offset |-> OffsetIn(t, a)]
             M == Append(L, x)
             v == [S[c] EXCEPT !.byName = Put(S[c].byName, t[a].name, Len(L) + 1)]
             T == [S EXCEPT ![c] = v]
  <1>1. Body(t, o) /\ Framed(t, o, a, S) /\ Standing(t, o, a, c, S) /\ Filled(t, o, a, S, L)
        /\ Placed(t, o, a, S, E)
    BY DEF BodyInv
  <1>2. Framed(t, o, b, S) /\ Standing(t, o, b, c, S) /\ b \in Nat /\ a \in Nat /\ a < b /\ o < a
    BY <1>1, PassKeepsScopes
  <1>3. Tree(t) /\ o \in DOMAIN t /\ o \in Nat /\ a \in DOMAIN t /\ ScopeIn(t, o, a) = S[c].node
    BY <1>1, CurrentIsInnermost DEF Body, Tree, InBodyOf
  <1>4. c \in 1 .. Len(S) /\ IsSeq(S) /\ Len(S) \in Nat /\ DOMAIN S = 1 .. Len(S) /\ IsFrame(S[c])
    BY <1>1, IsSeqBounds DEF Standing, Framed
  <1>5. T = [S EXCEPT ![c].byName = Put(@, t[a].name, Len(L) + 1)]
    OBVIOUS
  <1>6. /\ IsFrame(v) /\ v.parent = S[c].parent /\ v.node = S[c].node
        /\ v.byName = Put(S[c].byName, t[a].name, Len(L) + 1)
    BY <1>4 DEF IsFrame
  <1> HIDE DEF v
  <1>7. /\ IsSeq(T) /\ Len(T) = Len(S)
        /\ \A s \in 1 .. Len(S) : T[s] = IF s = c THEN v ELSE S[s]
    <2>1. T = [s \in DOMAIN S |-> T[s]]
      OBVIOUS
    <2> QED
      BY <1>4, <2>1, MappedIsSeq
  <1> HIDE DEF T
  <1>8. \A s \in 1 .. Len(S) :
          /\ T[s].node = S[s].node /\ T[s].parent = S[s].parent /\ (s # c => T[s].byName = S[s].byName)
    BY <1>6, <1>7
  <1>9. Framed(t, o, b, T)
    <2>1. \A s \in 1 .. Len(S) : IsFrame(T[s])
      BY <1>2, <1>6, <1>7 DEF Framed
    <2>2. ASSUME NEW s \in 2 .. Len(S)
          PROVE  /\ T[s].node \in o + 1 .. b - 1 /\ t[T[s].node].kind \in ScopeKinds
                 /\ T[s].parent \in 1 .. s - 1
                 /\ ScopeIn(t, o, T[s].node) = T[T[s].parent].node
      <3>1. s \in 1 .. Len(S) /\ S[s].parent \in 1 .. s - 1
        BY <1>2, <1>4 DEF Framed
      <3>2. S[s].parent \in 1 .. Len(S)
        BY <1>4, <3>1
      <3>3. T[s].node = S[s].node /\ T[s].parent = S[s].parent
        BY <1>8, <3>1
      <3>4. T[S[s].parent].node = S[S[s].parent].node
        BY <1>8, <3>2
      <3>5. /\ S[s].node \in o + 1 .. b - 1 /\ t[S[s].node].kind \in ScopeKinds
            /\ S[s].parent \in 1 .. s - 1
            /\ ScopeIn(t, o, S[s].node) = S[S[s].parent].node
        BY <1>2 DEF Framed
      <3> QED
        BY <3>3, <3>4, <3>5
    <2>3. ASSUME NEW m \in o + 1 .. b - 1, t[m].kind \in ScopeKinds
          PROVE  \E s \in 1 .. Len(T) : T[s].node = m
      <3>1. PICK s \in 1 .. Len(S) : S[s].node = m
        BY <1>2, <2>3 DEF Framed
      <3> QED
        BY <1>7, <1>8, <3>1
    <2>4. \A r, s \in 1 .. Len(T) : r < s => T[r].node < T[s].node
      BY <1>2, <1>7, <1>8 DEF Framed
    <2>5. Len(T) >= 1 /\ T[1].node = o /\ T[1].parent = NoBodyScope
      BY <1>2, <1>4, <1>7, <1>8 DEF Framed
    <2> QED
      BY <1>7, <2>1, <2>2, <2>3, <2>4, <2>5 DEF Framed
  <1>10. Standing(t, o, b, c, T)
    BY <1>2, <1>4, <1>7, <1>8 DEF Standing
  <1>11. Placed(t, o, b, T, E)
    <2>1. Placed(t, o, b, S, E)
      BY <1>1, <1>2, <1>3, PassKeepsPlaced
    <2> QED
      BY <2>1, <1>7, <1>8 DEF Placed
  <1>12. IsSeq(L) /\ Len(L) \in Nat
    BY <1>1, IsSeqBounds DEF Filled
  <1>13. x.name = t[a].name /\ x.node = a /\ x.offset = OffsetIn(t, a)
    OBVIOUS
  <1> HIDE DEF x
  <1>14. /\ IsSeq(M) /\ Len(M) = Len(L) + 1 /\ M[Len(L) + 1] = x
         /\ \A l \in 1 .. Len(L) : M[l] = L[l]
    BY <1>12, AppendIsSeq
  <1> HIDE DEF M
  <1>15. \A l \in 1 .. Len(M) : LocalAt(t, o, b, M[l])
    <2> SUFFICES ASSUME NEW l \in 1 .. Len(M)
                 PROVE  LocalAt(t, o, b, M[l])
      OBVIOUS
    <2>1. o + 1 .. a - 1 \subseteq o + 1 .. b - 1 /\ a \in o + 1 .. b - 1
      BY <1>2, <1>3
    <2>2. CASE l = Len(L) + 1
      BY <1>13, <1>14, <2>1, <2>2 DEF LocalAt
    <2>3. CASE l # Len(L) + 1
      <3>1. l \in 1 .. Len(L) /\ M[l] = L[l]
        BY <1>12, <1>14, <2>3
      <3>2. LocalAt(t, o, a, L[l])
        BY <3>1, <1>1 DEF Filled
      <3> QED
        BY <3>1, <3>2, <2>1 DEF LocalAt
    <2> QED
      BY <2>2, <2>3
  <1> DEFINE K == Len(L) + 1
             nm == t[a].name
  <1>16. /\ DOMAIN T[c].byName = DOMAIN S[c].byName \cup {nm}
         /\ \A name \in DOMAIN T[c].byName :
              T[c].byName[name] = IF name = nm THEN K ELSE S[c].byName[name]
    <2>1. T[c].byName = Put(S[c].byName, nm, K)
      BY <1>4, <1>6, <1>7
    <2> HIDE DEF K, nm
    <2> QED
      BY <2>1 DEF Put
  <1>17. ASSUME NEW s \in 1 .. Len(T), NEW name \in DOMAIN T[s].byName
         PROVE  /\ T[s].byName[name] \in 1 .. Len(M) /\ M[T[s].byName[name]].name = name
                /\ ScopeIn(t, o, M[T[s].byName[name]].node) = T[s].node
    <2>1. CASE s = c /\ name = nm
      <3>1. T[s].byName[name] = K /\ K \in 1 .. Len(M) /\ M[K] = x
        BY <2>1, <1>12, <1>14, <1>16
      <3> QED
        BY <3>1, <2>1, <1>3, <1>4, <1>8, <1>13
    <2>2. CASE ~(s = c /\ name = nm)
      <3>1. s \in 1 .. Len(S) /\ name \in DOMAIN S[s].byName /\ T[s].byName[name] = S[s].byName[name]
        BY <2>2, <1>7, <1>8, <1>16
      <3>2. /\ S[s].byName[name] \in 1 .. Len(L) /\ L[S[s].byName[name]].name = name
            /\ ScopeIn(t, o, L[S[s].byName[name]].node) = S[s].node
        BY <3>1, <1>1 DEF Filled
      <3>3. S[s].byName[name] \in 1 .. Len(M) /\ M[S[s].byName[name]] = L[S[s].byName[name]]
        BY <3>2, <1>12, <1>14
      <3> QED
        BY <3>1, <3>2, <3>3, <1>8
    <2> QED
      BY <2>1, <2>2
  <1>18. \A s \in 1 .. Len(S) : DOMAIN S[s].byName \subseteq DOMAIN T[s].byName
    <2> SUFFICES ASSUME NEW s \in 1 .. Len(S)
                 PROVE  DOMAIN S[s].byName \subseteq DOMAIN T[s].byName
      OBVIOUS
    <2>1. CASE s = c
      BY <2>1, <1>16
    <2>2. CASE s # c
      BY <2>2, <1>8
    <2> QED
      BY <2>1, <2>2
  <1>19. ASSUME NEW d \in o + 1 .. b - 1, t[d].kind \in LocalKinds
         PROVE  /\ EndIn(t, d) <= b
                /\ NamedIn(t, d) =>
                     \E s \in 1 .. Len(T) : T[s].node = ScopeIn(t, o, d) /\ t[d].name \in DOMAIN T[s].byName
    <2>1. d \in o + 1 .. a - 1 \/ d = a \/ d \in a + 1 .. b - 1
      BY <1>2, <1>3
    <2>2. CASE d \in o + 1 .. a - 1
      <3>1. EndIn(t, d) <= a
        BY <1>1, <1>19, <2>2 DEF Filled
      <3>2. EndIn(t, d) \in Int
        <4>1. d \in DOMAIN t
          BY <1>2, <1>3, <2>2 DEF Tree
        <4> QED
          BY <4>1, <1>3, EndIsNat
      <3>3. EndIn(t, d) <= b
        BY <3>1, <3>2, <1>2
      <3>4. NamedIn(t, d) => \E s \in 1 .. Len(S) : S[s].node = ScopeIn(t, o, d)
                                                   /\ t[d].name \in DOMAIN S[s].byName
        BY <1>1, <1>19, <2>2 DEF Filled
      <3> QED
        BY <3>3, <3>4, <1>7, <1>8, <1>18
    <2>3. CASE d = a
      <3>1. T[c].node = ScopeIn(t, o, a) /\ nm \in DOMAIN T[c].byName
        BY <1>3, <1>4, <1>8, <1>16
      <3> QED
        BY <3>1, <2>3, <1>2, <1>4, <1>7
    <2>4. CASE d \in a + 1 .. b - 1
      BY <2>4, <1>19 DEF Clear
    <2> QED
      BY <2>1, <2>2, <2>3, <2>4
  <1>20. Filled(t, o, b, T, M)
    BY <1>14, <1>15, <1>17, <1>19 DEF Filled
  <1>21. BodyInv(t, o, b, c, T, M, E)
    BY <1>1, <1>9, <1>10, <1>11, <1>20 DEF BodyInv
  <1> QED
    BY <1>21, <1>5 DEF M, x

LEMMA PassKeepsBodyInv ==
    ASSUME NEW t, NEW o, NEW a, NEW c, NEW S, NEW L, NEW E, BodyInv(t, o, a, c, S, L, E),
           a < EndIn(t, o), StillIn(t, a, c, S), NEW b, Clear(t, a, b),
           t[a].kind \in LocalKinds => ~NamedIn(t, a)
    PROVE  BodyInv(t, o, b, c, S, L, E)
  <1>1. Body(t, o) /\ Framed(t, o, a, S) /\ Standing(t, o, a, c, S) /\ Filled(t, o, a, S, L)
        /\ Placed(t, o, a, S, E)
    BY DEF BodyInv
  <1>2. Framed(t, o, b, S) /\ Standing(t, o, b, c, S) /\ b \in Nat /\ a \in Nat /\ a < b /\ o < a
    BY <1>1, PassKeepsScopes
  <1>3. Tree(t) /\ o \in DOMAIN t /\ o \in Nat /\ a \in DOMAIN t
    <2>1. InBodyOf(t, o, a)
      BY <1>1, CurrentIsInnermost
    <2> QED
      BY <1>1, <2>1 DEF Body, Tree, InBodyOf
  <1>4. Filled(t, o, b, S, L)
    BY <1>1, <1>2, <1>3, PassKeepsFilled
  <1>5. Placed(t, o, b, S, E)
    BY <1>1, <1>2, <1>3, PassKeepsPlaced
  <1> QED
    BY <1>1, <1>2, <1>4, <1>5 DEF BodyInv

(* Between the start of a node and a node inside it no scope begins: the    *)
(* two are in the same.                                                     *)
LEMMA SameScopeBelow ==
    ASSUME NEW t, NEW o, Body(t, o), NEW a, InBodyOf(t, o, a), NEW n, CoversIn(t, a, n), n \in DOMAIN t,
           \A m \in a .. n - 1 : t[m].kind \notin ScopeKinds
    PROVE  ScopeIn(t, o, n) = ScopeIn(t, o, a)
  <1>1. /\ Tree(t) /\ o \in DOMAIN t /\ a \in DOMAIN t /\ o < a /\ a <= n /\ n < EndIn(t, a)
        /\ o \in 1 .. Len(t) /\ a \in 1 .. Len(t) /\ n \in 1 .. Len(t) /\ Len(t) \in Nat
        /\ EndIn(t, a) \in Nat
    BY EndIsNat DEF Body, InBodyOf, Tree, CoversIn
  <1>2. ASSUME NEW m \in DOMAIN t, o < m
        PROVE  (m < n /\ t[m].kind \in ScopeKinds /\ CoversIn(t, m, n))
               <=> (m < a /\ t[m].kind \in ScopeKinds /\ CoversIn(t, m, a))
    <2>1. m \in 1 .. Len(t) /\ EndIn(t, m) \in Nat
      BY <1>1, EndIsNat DEF Tree
    <2>2. ASSUME m < n, t[m].kind \in ScopeKinds, CoversIn(t, m, n)
          PROVE  m < a /\ CoversIn(t, m, a)
      <3>1. m \notin a .. n - 1
        BY <2>2
      <3>2. m < a
        BY <1>1, <2>1, <2>2, <3>1
      <3> QED
        BY <1>1, <2>1, <2>2, <3>2 DEF CoversIn
    <2>3. ASSUME m < a, CoversIn(t, m, a)
          PROVE  m < n /\ CoversIn(t, m, n)
      <3>1. EndIn(t, a) <= EndIn(t, m)
        BY <1>1, <2>3, EndNests
      <3> QED
        BY <1>1, <2>1, <2>3, <3>1 DEF CoversIn
    <2> QED
      BY <2>2, <2>3
  <1>3. ScopesOver(t, o, n) = ScopesOver(t, o, a)
    BY <1>2 DEF ScopesOver
  <1> QED
    BY <1>3 DEF ScopeIn

LEMMA LowerKeepsBodyInv ==
    ASSUME NEW t, NEW o, NEW a, NEW c, NEW S, NEW L, NEW E, BodyInv(t, o, a, c, S, L, E),
           a < EndIn(t, o), StillIn(t, a, c, S), Clear(t, a, EndIn(t, a)), t[a].kind \notin LocalKinds,
           NEW X, \A n \in X : n \in DOMAIN t /\ CoversIn(t, a, n)
    PROVE  BodyInv(t, o, EndIn(t, a), c, S, L,
                   [n \in DOMAIN E \cup X |-> IF n \in DOMAIN E THEN E[n] ELSE c])
  <1> DEFINE b == EndIn(t, a)
             F == [n \in DOMAIN E \cup X |-> IF n \in DOMAIN E THEN E[n] ELSE c]
  <1>1. BodyInv(t, o, b, c, S, L, E)
    BY PassKeepsBodyInv
  <1>2. Body(t, o) /\ Framed(t, o, a, S) /\ Standing(t, o, a, c, S) /\ Filled(t, o, a, S, L)
    BY DEF BodyInv
  <1>3. InBodyOf(t, o, a) /\ ScopeIn(t, o, a) = S[c].node
    BY <1>2, CurrentIsInnermost
  <1>4. /\ Tree(t) /\ o \in DOMAIN t /\ a \in DOMAIN t /\ o < a /\ b \in Nat
        /\ o \in 1 .. Len(t) /\ a \in 1 .. Len(t) /\ Len(t) \in Nat
    BY <1>2, <1>3, EndIsNat DEF Body, InBodyOf, Tree
  <1>5. ASSUME NEW n \in DOMAIN F
        PROVE  /\ n \in o + 1 .. b - 1 /\ F[n] \in 1 .. Len(S)
               /\ S[F[n]].node = ScopeIn(t, o, n)
               /\ \A d \in o + 1 .. n - 1 : t[d].kind \in LocalKinds => EndIn(t, d) <= n
    <2>1. CASE n \in DOMAIN E
      <3>1. F[n] = E[n]
        BY <2>1
      <3> HIDE DEF F
      <3> QED
        BY <1>1, <2>1, <3>1 DEF BodyInv, Placed
    <2>2. CASE n \notin DOMAIN E
      <3>1. n \in X /\ F[n] = c
        BY <2>2
      <3> HIDE DEF F
      <3>2. n \in DOMAIN t /\ CoversIn(t, a, n) /\ n \in 1 .. Len(t) /\ n \in a .. b - 1
        BY <1>4, <3>1 DEF CoversIn, Tree
      <3>3. n \in o + 1 .. b - 1
        BY <1>4, <3>2
      <3>4. \A m \in a .. n - 1 : t[m].kind \notin ScopeKinds
        <4>1. a .. n - 1 \subseteq a .. b - 1
          BY <1>4, <3>2
        <4> QED
          BY <4>1 DEF Clear
      <3>5. ScopeIn(t, o, n) = S[c].node
        BY <1>2, <1>3, <3>2, <3>4, SameScopeBelow
      <3>6. ASSUME NEW d \in o + 1 .. n - 1, t[d].kind \in LocalKinds
            PROVE  EndIn(t, d) <= n
        <4>1. d \in o + 1 .. a - 1 \/ d = a \/ d \in a + 1 .. b - 1
          BY <1>4, <3>2
        <4>2. d \in o + 1 .. a - 1
          BY <3>6, <4>1 DEF Clear
        <4>3. EndIn(t, d) <= a
          BY <1>2, <3>6, <4>2 DEF Filled
        <4>4. EndIn(t, d) \in Nat
          <5>1. d \in 1 .. Len(t)
            BY <1>4, <4>2
          <5> QED
            BY <1>4, <5>1, EndIsNat DEF Tree
        <4> QED
          BY <1>4, <3>2, <4>3, <4>4
      <3>7. c \in 1 .. Len(S)
        BY <1>2 DEF Standing
      <3> QED
        BY <3>1, <3>3, <3>5, <3>6, <3>7
    <2> QED
      BY <2>1, <2>2
  <1>6. Placed(t, o, b, S, F)
    <2> HIDE DEF F
    <2> QED
      BY <1>5 DEF Placed
  <1> HIDE DEF F
  <1>7. BodyInv(t, o, b, c, S, L, F)
    BY <1>1, <1>6 DEF BodyInv
  <1> QED
    BY <1>7 DEF F

LEMMA PushKeepsBodyInv ==
    ASSUME NEW t, NEW o, NEW a, NEW c, NEW S, NEW L, NEW E, BodyInv(t, o, a, c, S, L, E),
           a < EndIn(t, o), StillIn(t, a, c, S), t[a].kind \in ScopeKinds
    PROVE  BodyInv(t, o, a + 1, Len(S) + 1,
                   Append(S, [parent |-> c, node |-> a, byName |-> Empty]), L, E)
  <1> DEFINE f == [parent |-> c, node |-> a, byName |-> Empty]
             T == Append(S, f)
  <1>1. Body(t, o) /\ Framed(t, o, a, S) /\ Standing(t, o, a, c, S) /\ Filled(t, o, a, S, L)
        /\ Placed(t, o, a, S, E)
    BY DEF BodyInv
  <1>2. InBodyOf(t, o, a) /\ ScopeIn(t, o, a) = S[c].node
    BY <1>1, CurrentIsInnermost
  <1>3. /\ Tree(t) /\ o \in DOMAIN t /\ a \in DOMAIN t /\ o < a
        /\ o \in 1 .. Len(t) /\ a \in 1 .. Len(t) /\ Len(t) \in Nat
        /\ EndIn(t, a) \in a + 1 .. Len(t) + 1 /\ EndIn(t, o) \in Nat
    BY <1>1, <1>2, EndIs, EndIsNat DEF Body, InBodyOf, Tree
  <1>4. IsSeq(S) /\ Len(S) \in Nat /\ Len(S) >= 1 /\ c \in 1 .. Len(S)
    BY <1>1, IsSeqBounds DEF Framed, Standing
  <1>5. f.node = a /\ f.parent = c /\ f.byName = Empty /\ IsFrame(f) /\ DOMAIN Empty = {}
    BY DEF IsFrame, Empty
  <1> HIDE DEF f
  <1>6. /\ IsSeq(T) /\ Len(T) = Len(S) + 1 /\ T[Len(S) + 1] = f
        /\ \A s \in 1 .. Len(S) : T[s] = S[s]
    BY <1>4, AppendIsSeq
  <1> HIDE DEF T
  <1>7. \A s \in 1 .. Len(T) : s \in 1 .. Len(S) \/ s = Len(S) + 1
    BY <1>4, <1>6
  <1>8. \A s \in 1 .. Len(S) : S[s].node < a /\ S[s].node \in Nat
    <2> SUFFICES ASSUME NEW s \in 1 .. Len(S)
                 PROVE  S[s].node < a /\ S[s].node \in Nat
      OBVIOUS
    <2>1. s = 1 \/ s \in 2 .. Len(S)
      BY <1>4
    <2>2. S[s].node = o \/ S[s].node \in o + 1 .. a - 1
      BY <1>1, <2>1 DEF Framed
    <2> QED
      BY <1>3, <2>2
  <1>9. Framed(t, o, a + 1, T)
    <2>1. \A s \in 1 .. Len(T) : IsFrame(T[s])
      BY <1>1, <1>5, <1>6, <1>7 DEF Framed
    <2>2. ASSUME NEW s \in 2 .. Len(T)
          PROVE  /\ T[s].node \in o + 1 .. (a + 1) - 1 /\ t[T[s].node].kind \in ScopeKinds
                 /\ T[s].parent \in 1 .. s - 1
                 /\ ScopeIn(t, o, T[s].node) = T[T[s].parent].node
      <3>1. CASE s \in 2 .. Len(S)
        <4>1. /\ S[s].node \in o + 1 .. a - 1 /\ t[S[s].node].kind \in ScopeKinds
              /\ S[s].parent \in 1 .. s - 1
              /\ ScopeIn(t, o, S[s].node) = S[S[s].parent].node
          BY <1>1, <3>1 DEF Framed
        <4>2. S[s].parent \in 1 .. Len(S) /\ s \in 1 .. Len(S)
          BY <1>4, <3>1, <4>1
        <4>3. T[s] = S[s] /\ T[S[s].parent] = S[S[s].parent]
          BY <1>6, <4>2
        <4>4. S[s].node \in o + 1 .. (a + 1) - 1
          <5>1. o + 1 .. a - 1 \subseteq o + 1 .. (a + 1) - 1
            BY <1>3
          <5> QED
            BY <4>1, <5>1
        <4> QED
          BY <4>1, <4>3, <4>4
      <3>2. CASE s = Len(S) + 1
        <4>1. T[s] = f /\ T[c] = S[c]
          BY <1>4, <1>6, <3>2
        <4>2. a \in o + 1 .. (a + 1) - 1 /\ c \in 1 .. s - 1
          BY <1>3, <1>4, <3>2
        <4> QED
          BY <1>2, <1>5, <4>1, <4>2
      <3> QED
        BY <1>4, <1>6, <3>1, <3>2
    <2>3. ASSUME NEW r \in 1 .. Len(T), NEW s \in 1 .. Len(T), r < s
          PROVE  T[r].node < T[s].node
      <3>1. r \in 1 .. Len(S)
        BY <1>4, <1>6, <2>3
      <3>2. CASE s \in 1 .. Len(S)
        BY <1>1, <1>6, <2>3, <3>1, <3>2 DEF Framed
      <3>3. CASE s = Len(S) + 1
        BY <1>5, <1>6, <1>8, <3>1, <3>3
      <3> QED
        BY <1>7, <3>2, <3>3
    <2>4. ASSUME NEW m \in o + 1 .. (a + 1) - 1, t[m].kind \in ScopeKinds
          PROVE  \E s \in 1 .. Len(T) : T[s].node = m
      <3>1. CASE m = a
        <4>1. Len(S) + 1 \in 1 .. Len(T)
          BY <1>4, <1>6
        <4> QED
          BY <1>5, <1>6, <3>1, <4>1
      <3>2. CASE m # a
        <4>1. m \in o + 1 .. a - 1
          BY <1>3, <3>2
        <4>2. PICK s \in 1 .. Len(S) : S[s].node = m
          BY <1>1, <2>4, <4>1 DEF Framed
        <4>3. s \in 1 .. Len(T) /\ T[s] = S[s]
          BY <1>4, <1>6
        <4> QED
          BY <4>2, <4>3
      <3> QED
        BY <3>1, <3>2
    <2>5. Len(T) >= 1 /\ T[1].node = o /\ T[1].parent = NoBodyScope
      BY <1>1, <1>4, <1>6 DEF Framed
    <2> QED
      BY <1>6, <2>1, <2>2, <2>3, <2>4, <2>5 DEF Framed
  <1>10. Standing(t, o, a + 1, Len(S) + 1, T)
    <2>1. a + 1 \in o + 1 .. EndIn(t, o) /\ a + 1 <= EndIn(t, a) /\ Len(S) + 1 \in 1 .. Len(T)
      BY <1>3, <1>4, <1>6
    <2>2. \A s \in 1 .. Len(T) : ~(T[s].node > a)
      BY <1>3, <1>5, <1>6, <1>7, <1>8
    <2> QED
      BY <1>5, <1>6, <2>1, <2>2 DEF Standing
  <1>11. o + 1 .. a - 1 \subseteq o + 1 .. (a + 1) - 1
         /\ \A n \in o + 1 .. (a + 1) - 1 : n \in o + 1 .. a - 1 \/ n = a
    BY <1>3
  <1>12. \A s \in 1 .. Len(S) : s \in 1 .. Len(T) /\ T[s] = S[s]
    BY <1>4, <1>6
  <1>13. Filled(t, o, a + 1, T, L)
    <2>1. \A l \in 1 .. Len(L) : LocalAt(t, o, a + 1, L[l])
      BY <1>1, <1>11 DEF Filled, LocalAt
    <2>2. \A s \in 1 .. Len(T) : \A name \in DOMAIN T[s].byName :
            /\ T[s].byName[name] \in 1 .. Len(L) /\ L[T[s].byName[name]].name = name
            /\ ScopeIn(t, o, L[T[s].byName[name]].node) = T[s].node
      <3> SUFFICES ASSUME NEW s \in 1 .. Len(T), NEW name \in DOMAIN T[s].byName
                   PROVE  /\ T[s].byName[name] \in 1 .. Len(L) /\ L[T[s].byName[name]].name = name
                          /\ ScopeIn(t, o, L[T[s].byName[name]].node) = T[s].node
        OBVIOUS
      <3>1. s \in 1 .. Len(S) /\ T[s] = S[s]
        BY <1>5, <1>6, <1>7
      <3> QED
        BY <1>1, <3>1 DEF Filled
    <2>3. ASSUME NEW d \in o + 1 .. (a + 1) - 1, t[d].kind \in LocalKinds
          PROVE  /\ EndIn(t, d) <= a + 1
                 /\ NamedIn(t, d) =>
                      \E s \in 1 .. Len(T) : T[s].node = ScopeIn(t, o, d) /\ t[d].name \in DOMAIN T[s].byName
      <3>1. d # a
        BY <2>3 DEF LocalKinds, ScopeKinds
      <3>2. d \in o + 1 .. a - 1
        BY <1>11, <3>1
      <3>3. EndIn(t, d) <= a /\ EndIn(t, d) \in Nat
        <4>1. d \in 1 .. Len(t)
          BY <1>3, <3>2
        <4>2. EndIn(t, d) \in Nat
          BY <1>3, <4>1, EndIsNat DEF Tree
        <4> QED
          BY <1>1, <2>3, <3>2, <4>2 DEF Filled
      <3>4. EndIn(t, d) <= a + 1
        BY <1>3, <3>3
      <3>5. NamedIn(t, d) => \E s \in 1 .. Len(S) : S[s].node = ScopeIn(t, o, d)
                                                   /\ t[d].name \in DOMAIN S[s].byName
        BY <1>1, <2>3, <3>2 DEF Filled
      <3> QED
        BY <1>12, <3>4, <3>5
    <2>4. IsSeq(L)
      BY <1>1 DEF Filled
    <2> QED
      BY <2>1, <2>2, <2>3, <2>4 DEF Filled
  <1>14. Placed(t, o, a + 1, T, E)
    BY <1>1, <1>11, <1>12 DEF Placed
  <1>15. BodyInv(t, o, a + 1, Len(S) + 1, T, L, E)
    BY <1>1, <1>9, <1>10, <1>13, <1>14 DEF BodyInv
  <1> QED
    BY <1>15 DEF T, f

(* At the end of a scope the cursor is in the scope around it, which ends   *)
(* no earlier.                                                              *)
LEMMA PopKeepsBodyInv ==
    ASSUME NEW t, NEW o, NEW a, NEW c, NEW S, NEW L, NEW E, BodyInv(t, o, a, c, S, L, E),
           c # RootScope, a >= EndIn(t, S[c].node)
    PROVE  BodyInv(t, o, a, S[c].parent, S, L, E)
  <1>1. Body(t, o) /\ Framed(t, o, a, S) /\ Standing(t, o, a, c, S)
    BY DEF BodyInv
  <1>2. IsSeq(S) /\ Len(S) \in Nat /\ c \in 2 .. Len(S)
    BY <1>1, IsSeqBounds DEF Framed, Standing, RootScope
  <1> DEFINE m == S[c].node
             p == S[c].parent
             n == S[p].node
  <1>3. /\ m \in o + 1 .. a - 1 /\ t[m].kind \in ScopeKinds /\ p \in 1 .. c - 1
        /\ ScopeIn(t, o, m) = n
    BY <1>1, <1>2 DEF Framed
  <1>4. /\ Tree(t) /\ o \in DOMAIN t /\ o \in 1 .. Len(t) /\ Len(t) \in Nat
        /\ EndIn(t, o) \in o + 1 .. Len(t) + 1 /\ a \in o + 1 .. EndIn(t, o) /\ a <= EndIn(t, m)
    BY <1>1, EndIs DEF Body, Tree, Standing
  <1> HIDE DEF m, n
  <1>5. \A k \in o .. a - 1 : k \in DOMAIN t /\ k \in Nat /\ (k # o => InBodyOf(t, o, k)) /\ EndIn(t, k) \in Nat
    <2> SUFFICES ASSUME NEW k \in o .. a - 1
                 PROVE  k \in DOMAIN t /\ k \in Nat /\ (k # o => InBodyOf(t, o, k)) /\ EndIn(t, k) \in Nat
      OBVIOUS
    <2>1. k \in 1 .. Len(t) /\ k < EndIn(t, o)
      BY <1>4
    <2>2. k \in DOMAIN t
      BY <1>4, <2>1 DEF Tree
    <2> QED
      BY <1>4, <2>1, <2>2, EndIsNat DEF InBodyOf
  <1>6. InBodyOf(t, o, m) /\ m \in DOMAIN t /\ m \in Nat /\ EndIn(t, m) \in Nat
    BY <1>3, <1>4, <1>5
  <1>7. /\ \A k \in ScopesOver(t, o, m) : k <= n
        /\ n \in DOMAIN t /\ n \in o .. m - 1 /\ CoversIn(t, n, m)
    BY <1>1, <1>3, <1>6, ScopeIs
  <1>8. a = EndIn(t, m) /\ EndIn(t, m) <= EndIn(t, n) /\ a \in Nat
    BY <1>4, <1>6, <1>7, EndNests DEF m
  <1>9. ASSUME NEW s \in 1 .. Len(S), S[s].node > n
        PROVE  EndIn(t, S[s].node) <= a
    <2> DEFINE k == S[s].node
    <2>1. k \in o .. a - 1 /\ (s # 1 => t[k].kind \in ScopeKinds) /\ (s = 1 => k = o)
      <3>1. s = 1 \/ s \in 2 .. Len(S)
        BY <1>2
      <3> QED
        BY <1>1, <1>4, <3>1 DEF Framed
    <2> HIDE DEF k
    <2>2. k \in DOMAIN t /\ k \in Nat /\ EndIn(t, k) \in Nat /\ n \in Nat
      BY <1>4, <1>5, <1>7, <2>1
    <2>3. ASSUME k > m
          PROVE  EndIn(t, k) <= a
      BY <1>1, <2>3 DEF Standing, k, m
    <2>4. ASSUME k = m
          PROVE  EndIn(t, k) <= a
      <3>1. EndIn(t, k) = a
        BY <1>8, <2>4
      <3> QED
        BY <1>8, <3>1
    <2>5. ASSUME k < m
          PROVE  EndIn(t, k) <= a
      <3>1. k # o
        BY <1>4, <1>7, <1>9, <2>2 DEF k
      <3>2. o < k /\ t[k].kind \in ScopeKinds
        BY <1>4, <2>1, <2>2, <3>1
      <3>3. ~CoversIn(t, k, m)
        <4>1. k \in ScopesOver(t, o, m) => k <= n
          BY <1>7
        <4>2. k > n
          BY <1>9 DEF k
        <4> QED
          BY <2>2, <2>5, <3>2, <4>1, <4>2 DEF ScopesOver
      <3>4. EndIn(t, k) <= m
        BY <1>6, <2>2, <2>5, <3>3 DEF CoversIn
      <3>5. m < a
        BY <1>3, <1>4, <1>6
      <3> QED
        BY <1>6, <1>8, <2>2, <3>4, <3>5
    <2>6. EndIn(t, k) <= a
      <3>1. k > m \/ k = m \/ k < m
        BY <1>6, <2>2
      <3> QED
        BY <2>3, <2>4, <2>5, <3>1
    <2> QED
      BY <2>6 DEF k
  <1>10. p \in 1 .. Len(S)
    BY <1>2, <1>3
  <1>11. a <= EndIn(t, n)
    BY <1>8
  <1>12. Standing(t, o, a, p, S)
    BY <1>4, <1>9, <1>10, <1>11 DEF Standing, n
  <1> QED
    BY <1>12 DEF BodyInv

-----------------------------------------------------------------------------
(* What a name means.  The scopes around a scope, which LocalFrom tells by  *)
(* their numbers, are those whose nodes cover its node.                     *)
LEMMA FrameNodes ==
    ASSUME NEW t, NEW o, NEW a, NEW c, NEW S, Body(t, o), Framed(t, o, a, S), Standing(t, o, a, c, S),
           NEW s \in 1 .. Len(S)
    PROVE  /\ S[s].node \in DOMAIN t /\ S[s].node \in o .. a - 1 /\ S[s].node \in Nat
           /\ EndIn(t, S[s].node) \in Nat /\ EndIn(t, S[s].node) > S[s].node
           /\ s = 1 => S[s].node = o
           /\ s # 1 => /\ s \in 2 .. Len(S) /\ S[s].parent \in 1 .. s - 1
                       /\ S[s].parent \in 1 .. Len(S) /\ o < S[s].node
                       /\ InBodyOf(t, o, S[s].node) /\ t[S[s].node].kind \in ScopeKinds
                       /\ ScopeIn(t, o, S[s].node) = S[S[s].parent].node
  <1> DEFINE m == S[s].node
  <1>1. /\ Tree(t) /\ o \in DOMAIN t /\ o \in 1 .. Len(t) /\ Len(t) \in Nat /\ Len(S) \in Nat
        /\ EndIn(t, o) \in o + 1 .. Len(t) + 1 /\ a \in o + 1 .. EndIn(t, o)
    BY EndIs, IsSeqBounds DEF Body, Tree, Standing, Framed
  <1>2. s = 1 \/ s \in 2 .. Len(S)
    BY <1>1
  <1>3. s = 1 => m = o
    BY DEF Framed
  <1>4. s # 1 => /\ m \in o + 1 .. a - 1 /\ S[s].parent \in 1 .. s - 1
                 /\ t[m].kind \in ScopeKinds
                 /\ ScopeIn(t, o, m) = S[S[s].parent].node
    BY <1>2 DEF Framed
  <1> HIDE DEF m
  <1>5. m \in o .. a - 1 /\ m \in 1 .. Len(t) /\ m < EndIn(t, o) /\ m \in Nat
    BY <1>1, <1>2, <1>3, <1>4
  <1>6. m \in DOMAIN t
    BY <1>1, <1>5 DEF Tree
  <1>7. EndIn(t, m) \in Nat /\ EndIn(t, m) > m
    <2>1. EndIn(t, m) \in m + 1 .. Len(t) + 1
      BY <1>1, <1>6, EndIs
    <2> QED
      BY <1>1, <1>5, <2>1
  <1>8. s # 1 => S[s].parent \in 1 .. Len(S) /\ s \in 2 .. Len(S) /\ o < m
    <2>1. o \in Nat /\ a \in Nat
      BY <1>1
    <2> QED
      BY ONLY s \in 1 .. Len(S), <1>1, <1>2, <1>4, <2>1, SMTT(30)
  <1>9. s # 1 => InBodyOf(t, o, m)
    BY <1>5, <1>6, <1>8 DEF InBodyOf
  <1> QED
    BY <1>3, <1>4, <1>5, <1>6, <1>7, <1>8, <1>9 DEF m

LEMMA AroundIsCovering ==
    ASSUME NEW t, NEW o, NEW a, NEW c, NEW S, Body(t, o), Framed(t, o, a, S), Standing(t, o, a, c, S),
           NEW z \in 1 .. Len(S), NEW s \in 1 .. z
    PROVE  (\A k \in s + 1 .. z : S[k].parent >= s) <=> CoversIn(t, S[s].node, S[z].node)
  <1>1. Tree(t) /\ IsSeq(S) /\ Len(S) \in Nat
    BY IsSeqBounds DEF Body, Framed
  <1>2. s \in 1 .. Len(S) /\ \A k \in s .. z : k \in 1 .. Len(S)
    BY <1>1
  <1> DEFINE m == S[s].node
             e == EndIn(t, m)
  <1>3. m \in DOMAIN t /\ m \in Nat /\ e \in Nat /\ e > m /\ (s # 1 => t[m].kind \in ScopeKinds)
        /\ o <= m /\ o \in Nat /\ (s = 1 => m = o)
    <2>1. o \in Nat
      BY DEF Body, Tree
    <2>2. m \in o .. a - 1
      BY <1>2, FrameNodes
    <2> QED
      BY <1>2, <2>1, <2>2, FrameNodes
  <1>4. \A j, k \in 1 .. Len(S) : j < k => S[j].node < S[k].node
    BY DEF Framed
  <1>5. ASSUME CoversIn(t, m, S[z].node), NEW k \in s + 1 .. z
        PROVE  S[k].parent >= s
    <2>1. k \in 1 .. Len(S) /\ k # 1 /\ s < k /\ k <= z
      BY <1>2
    <2>2. /\ S[k].node \in Nat /\ InBodyOf(t, o, S[k].node) /\ S[k].parent \in 1 .. Len(S)
          /\ ScopeIn(t, o, S[k].node) = S[S[k].parent].node /\ S[z].node \in Nat
      <3>1. S[z].node \in Nat
        BY FrameNodes
      <3> QED
        BY <2>1, <3>1, FrameNodes
    <2>3. m < S[k].node /\ S[k].node <= S[z].node
      BY ONLY z \in 1 .. Len(S), <1>2, <1>4, <2>1, <2>2 DEF m
    <2>4. CoversIn(t, m, S[k].node)
      BY <1>3, <1>5, <2>2, <2>3 DEF CoversIn
    <2>5. m \in ScopesOver(t, o, S[k].node)
      BY <1>3, <2>3, <2>4 DEF ScopesOver
    <2>6. m <= S[S[k].parent].node
      BY <2>2, <2>5, ScopeIs
    <2>7. S[S[k].parent].node \in Nat
      BY <2>2, FrameNodes
    <2>8. ~(S[k].parent < s)
      <3>1. S[k].parent < s => S[S[k].parent].node < m
        BY ONLY <1>2, <1>4, <2>2 DEF m
      <3> QED
        BY ONLY <1>3, <2>6, <2>7, <3>1
    <2> QED
      BY <1>2, <2>2, <2>8
  <1>6. ASSUME \A k \in s + 1 .. z : S[k].parent >= s, ~CoversIn(t, m, S[z].node)
        PROVE  FALSE
    <2> DEFINE T == {k \in s .. z : ~CoversIn(t, m, S[k].node)}
    <2>1. T \in SUBSET Nat /\ z \in T
      BY <1>2, <1>6
    <2> HIDE DEF T
    <2>2. PICK k \in T : \A j \in T : k <= j
      BY <2>1, LeastOf
    <2>3. k \in s .. z /\ ~CoversIn(t, m, S[k].node)
      BY <2>2 DEF T
    <2>4. k # s
      BY <1>3, <2>3 DEF CoversIn
    <2>5. k \in s + 1 .. z /\ k \in 1 .. Len(S) /\ k # 1
      BY <1>2, <2>3, <2>4
    <2> DEFINE p == S[k].parent
    <2>6. /\ InBodyOf(t, o, S[k].node) /\ p \in 1 .. k - 1 /\ p \in 1 .. Len(S) /\ S[k].node \in Nat
          /\ ScopeIn(t, o, S[k].node) = S[p].node
      BY <2>5, FrameNodes
    <2>7. p >= s
      BY <1>6, <2>5
    <2> HIDE DEF p
    <2>8. p \in s .. z /\ p < k
      BY <1>2, <2>5, <2>6, <2>7
    <2>9. p \notin T
      BY <2>2, <2>5, <2>8
    <2>10. CoversIn(t, m, S[p].node)
      BY <2>8, <2>9 DEF T
    <2>11. CoversIn(t, S[p].node, S[k].node)
      BY <2>6, ScopeIs
    <2>12. S[p].node \in Nat /\ EndIn(t, S[p].node) \in Nat
      BY <2>6, FrameNodes
    <2>13. EndIn(t, S[p].node) <= e
      BY <1>1, <1>3, <2>10, <2>12, EndNests
    <2>14. CoversIn(t, m, S[k].node)
      <3>1. m <= S[p].node /\ S[p].node <= S[k].node /\ S[k].node < EndIn(t, S[p].node)
        BY ONLY <2>10, <2>11 DEF CoversIn
      <3>2. m <= S[k].node /\ S[k].node < EndIn(t, m)
        <4> HIDE DEF m
        <4> QED
          BY ONLY <1>3, <2>6, <2>12, <2>13, <3>1 DEF e
      <3> QED
        BY ONLY <3>2 DEF CoversIn
    <2> QED
      BY <2>3, <2>14
  <1> QED
    BY <1>5, <1>6

BodyHolds == BodyInv(tree, owner, at, current, bodyScopes, locals, exprScope)

LEMMA AroundScope ==
    ASSUME BodyHolds, NEW z \in 1 .. Len(bodyScopes)
    PROVE  ScopesAround(z) =
             {s \in 1 .. z : CoversIn(tree, bodyScopes[s].node, bodyScopes[z].node)}
  <1>1. Body(tree, owner) /\ Framed(tree, owner, at, bodyScopes)
        /\ Standing(tree, owner, at, current, bodyScopes)
    BY DEF BodyHolds, BodyInv
  <1>2. \A s \in 1 .. z :
          (\A k \in s + 1 .. z : bodyScopes[k].parent >= s)
          <=> CoversIn(tree, bodyScopes[s].node, bodyScopes[z].node)
    BY <1>1, AroundIsCovering
  <1> QED
    BY <1>2 DEF ScopesAround

(* What is found from a scope: the entry of the innermost one that offers.  *)
LEMMA FoundFrom ==
    ASSUME BodyHolds, NEW z \in 1 .. Len(bodyScopes), NEW name, NEW offset
    PROVE  LET found == {s \in ScopesAround(z) : Offers(s, name, offset)}
           IN /\ found = {} => LocalFrom(name, z, offset) = None
              /\ found # {} => /\ Max(found) \in found /\ \A s \in found : s <= Max(found)
                               /\ LocalFrom(name, z, offset) = bodyScopes[Max(found)].byName[name]
                               /\ Max(found) \in 1 .. Len(bodyScopes)
  <1> DEFINE found == {s \in ScopesAround(z) : Offers(s, name, offset)}
  <1>1. IsSeq(bodyScopes) /\ Len(bodyScopes) \in Nat
    BY IsSeqBounds DEF BodyHolds, BodyInv, Framed
  <1>2. found \in SUBSET (0 .. z) /\ z \in Nat /\ \A s \in found : s \in 1 .. Len(bodyScopes)
    BY <1>1 DEF ScopesAround
  <1>3. LocalFrom(name, z, offset) =
          IF found = {} THEN None ELSE bodyScopes[Max(found)].byName[name]
    BY DEF LocalFrom
  <1> HIDE DEF found
  <1>4. found # {} => Max(found) \in found /\ \A s \in found : s <= Max(found)
    BY <1>2, MaxIs
  <1>5. /\ found = {} => LocalFrom(name, z, offset) = None
        /\ found # {} => /\ Max(found) \in found /\ \A s \in found : s <= Max(found)
                         /\ LocalFrom(name, z, offset) = bodyScopes[Max(found)].byName[name]
                         /\ Max(found) \in 1 .. Len(bodyScopes)
    BY <1>2, <1>3, <1>4
  <1> QED
    BY <1>5 DEF found

(* The locals of a scope: each was declared there, under its name, and one  *)
(* that a name can mean is offered.                                         *)
LEMMA LocalsOfScope ==
    ASSUME BodyHolds, NEW s \in 1 .. Len(bodyScopes), NEW name \in DOMAIN bodyScopes[s].byName
    PROVE  LET l == bodyScopes[s].byName[name]
               d == locals[l].node
           IN /\ l \in 1 .. Len(locals) /\ l # None /\ locals[l].offset = Offset(d)
              /\ Declared(d) /\ d \in DOMAIN tree /\ d \in Nat /\ owner < d /\ d < at
              /\ tree[d].name = name /\ ScopeOf(d) = bodyScopes[s].node
              /\ InBodyOf(tree, owner, d)
  <1> DEFINE l == bodyScopes[s].byName[name]
             d == locals[l].node
  <1>1. /\ Body(tree, owner) /\ Standing(tree, owner, at, current, bodyScopes)
        /\ Filled(tree, owner, at, bodyScopes, locals)
    BY DEF BodyHolds, BodyInv
  <1>2. /\ Tree(tree) /\ owner \in DOMAIN tree /\ owner \in 1 .. Len(tree) /\ Len(tree) \in Nat
        /\ EndIn(tree, owner) \in owner + 1 .. Len(tree) + 1 /\ at \in owner + 1 .. EndIn(tree, owner)
    BY <1>1, EndIs DEF Body, Tree, Standing
  <1>3. /\ l \in 1 .. Len(locals) /\ locals[l].name = name
        /\ ScopeIn(tree, owner, d) = bodyScopes[s].node
    BY <1>1 DEF Filled
  <1>4. l # None
    BY <1>3 DEF None
  <1> HIDE DEF l
  <1>5. LocalAt(tree, owner, at, locals[l])
    BY <1>1, <1>3 DEF Filled
  <1>6. /\ d \in owner + 1 .. at - 1 /\ tree[d].kind \in LocalKinds /\ NamedIn(tree, d)
        /\ name = tree[d].name /\ locals[l].offset = OffsetIn(tree, d)
    BY <1>3, <1>5 DEF LocalAt
  <1> HIDE DEF d
  <1>7. d \in Nat /\ owner < d /\ d < at /\ d < EndIn(tree, owner) /\ d \in 1 .. Len(tree)
    BY <1>2, <1>6
  <1>8. d \in DOMAIN tree /\ InBodyOf(tree, owner, d) /\ Covers(owner, d)
    BY <1>2, <1>7, SameRanges DEF Tree, InBodyOf, CoversIn
  <1>9. Declared(d)
    BY <1>6, <1>8 DEF Declared, LocalKinds, NamedIn, Named, Kind
  <1>10. locals[l].offset = Offset(d)
    BY <1>6, SameRanges DEF Offset, OffsetIn, Kind
  <1>11. ScopeOf(d) = bodyScopes[s].node
    BY <1>3, SameScopes DEF d
  <1> QED
    BY <1>3, <1>4, <1>6, <1>7, <1>8, <1>9, <1>10, <1>11, Zenon DEF l, d

LEMMA DeclaredIsEntered ==
    ASSUME BodyHolds, BodyDone, NEW d \in DOMAIN tree, Declared(d)
    PROVE  /\ InBodyOf(tree, owner, d) /\ d \in Nat
           /\ \E s \in 1 .. Len(bodyScopes) :
                bodyScopes[s].node = ScopeOf(d) /\ tree[d].name \in DOMAIN bodyScopes[s].byName
  <1>1. /\ Body(tree, owner) /\ Standing(tree, owner, at, current, bodyScopes)
        /\ Filled(tree, owner, at, bodyScopes, locals)
    BY DEF BodyHolds, BodyInv
  <1>2. /\ Tree(tree) /\ owner \in DOMAIN tree /\ owner \in 1 .. Len(tree) /\ Len(tree) \in Nat
        /\ EndIn(tree, owner) \in owner + 1 .. Len(tree) + 1 /\ at \in owner + 1 .. EndIn(tree, owner)
        /\ d \in 1 .. Len(tree)
    BY <1>1, EndIs DEF Body, Tree, Standing
  <1>3. at = EndIn(tree, owner)
    BY <1>2, SameRanges DEF BodyDone
  <1>4. /\ owner <= d /\ d < EndIn(tree, owner) /\ tree[d].kind \in LocalKinds /\ NamedIn(tree, d)
    BY SameRanges DEF Declared, CoversIn, LocalKinds, Kind, NamedIn, Named
  <1>5. tree[owner].kind \notin LocalKinds
    BY <1>1 DEF Body, Bodied, Functions, LocalKinds
  <1>6. owner # d
    BY <1>4, <1>5
  <1>7. d \in owner + 1 .. at - 1
    BY <1>2, <1>3, <1>4, <1>6
  <1>8. InBodyOf(tree, owner, d)
    BY <1>2, <1>3, <1>7 DEF InBodyOf
  <1> QED
    BY <1>1, <1>2, <1>4, <1>7, <1>8, SameScopes, SMTT(30) DEF Filled

LEMMA LexicalAtEnd ==
    ASSUME BodyHolds, BodyDone, OncePerScope, NEW n \in DOMAIN exprScope, Kind(n) = "name"
    PROVE  LET l == LocalFrom(tree[n].name, exprScope[n], n)
               seen == {d \in DOMAIN tree : Visible(d, n)}
           IN IF l = None THEN seen = {}
              ELSE /\ locals[l].node \in seen
                   /\ \A d \in seen : ScopeOf(d) <= ScopeOf(locals[l].node)
  <1> DEFINE name == tree[n].name
             z == exprScope[n]
             l == LocalFrom(name, z, n)
             seen == {d \in DOMAIN tree : Visible(d, n)}
             found == {s \in ScopesAround(z) : Offers(s, name, n)}
             S == bodyScopes
  <1>1. /\ Body(tree, owner) /\ Framed(tree, owner, at, S) /\ Standing(tree, owner, at, current, S)
        /\ Placed(tree, owner, at, S, exprScope)
    BY DEF BodyHolds, BodyInv
  <1>2. /\ Tree(tree) /\ owner \in DOMAIN tree /\ owner \in 1 .. Len(tree) /\ Len(tree) \in Nat
        /\ EndIn(tree, owner) \in owner + 1 .. Len(tree) + 1 /\ at \in owner + 1 .. EndIn(tree, owner)
    BY <1>1, EndIs DEF Body, Tree, Standing
  <1>3. /\ n \in owner + 1 .. at - 1 /\ z \in 1 .. Len(S)
        /\ S[z].node = ScopeIn(tree, owner, n)
        /\ \A d \in owner + 1 .. n - 1 : tree[d].kind \in LocalKinds => EndIn(tree, d) <= n
    BY <1>1 DEF Placed
  <1>4. n \in DOMAIN tree /\ n \in Nat /\ InBodyOf(tree, owner, n)
    <2>1. n \in 1 .. Len(tree) /\ owner < n /\ n < EndIn(tree, owner)
      BY <1>2, <1>3
    <2> QED
      BY <1>2, <2>1 DEF Tree, InBodyOf
  <1> HIDE DEF z
  <1>5. ScopesAround(z) = {s \in 1 .. z : CoversIn(tree, S[s].node, S[z].node)}
    BY <1>3, AroundScope
  <1>6. /\ found = {} => l = None
        /\ found # {} => /\ Max(found) \in found /\ \A s \in found : s <= Max(found)
                         /\ l = S[Max(found)].byName[name] /\ Max(found) \in 1 .. Len(S)
    BY <1>3, FoundFrom
  (* Any local that can be meant is the one entered in some scope found. *)
  <1>7. ASSUME NEW d \in seen
        PROVE  \E s \in found : S[s].node = ScopeOf(d)
    <2>1. Declared(d) /\ tree[d].name = name /\ Covers(ScopeOf(d), n) /\ d < n /\ ~Covers(d, n)
          /\ d \in DOMAIN tree
      BY DEF Visible
    <2>2. /\ InBodyOf(tree, owner, d) /\ d \in Nat
          /\ \E s \in 1 .. Len(S) : S[s].node = ScopeOf(d) /\ tree[d].name \in DOMAIN S[s].byName
      BY ONLY BodyHolds, BodyDone, <2>1, DeclaredIsEntered
    <2>3. PICK s \in 1 .. Len(S) : S[s].node = ScopeOf(d) /\ name \in DOMAIN S[s].byName
      BY ONLY <2>1, <2>2, SMTT(30)
    <2> DEFINE x == S[s].byName[name]
               e == locals[x].node
    <2>4. /\ locals[x].offset = Offset(e) /\ Declared(e) /\ e \in DOMAIN tree
          /\ tree[e].name = name /\ ScopeOf(e) = S[s].node
      BY <2>3, LocalsOfScope
    <2> HIDE DEF x, e
    <2>5. e = d
      BY <2>1, <2>3, <2>4 DEF OncePerScope
    <2>6. Offset(d) <= n
      <3>1. EndIn(tree, d) \in Nat
        BY <1>2, <2>1, EndIsNat
      <3>2. EndIn(tree, d) <= n
        BY <1>4, <2>1, <2>2, <3>1, SameRanges DEF CoversIn
      <3>3. d <= n
        BY <1>4, <2>1, <2>2
      <3> QED
        BY <3>2, <3>3, SameRanges DEF Offset
    <2>7. Offers(s, name, n)
      BY <2>3, <2>4, <2>5, <2>6 DEF Offers, x
    <2>8. CoversIn(tree, S[s].node, n)
      BY <2>1, <2>3, SameRanges
    <2>9. /\ S[s].node \in Nat /\ EndIn(tree, S[s].node) \in Nat /\ S[s].node \in DOMAIN tree
          /\ s = 1 => S[s].node = owner
          /\ s # 1 => owner < S[s].node /\ tree[S[s].node].kind \in ScopeKinds
      BY <1>1, FrameNodes
    <2>10. S[s].node \in ScopesOver(tree, owner, n)
      <3>1. CASE s = 1
        BY <2>9, <3>1 DEF ScopesOver
      <3>2. CASE s # 1
        <4>1. S[s].node # n
          BY <2>9, <3>2 DEF Kind, ScopeKinds
        <4>2. S[s].node < n
          BY <1>4, <2>8, <2>9, <4>1 DEF CoversIn
        <4> QED
          BY <2>8, <2>9, <3>2, <4>2 DEF ScopesOver
      <3> QED
        BY <3>1, <3>2
    <2>11. S[s].node <= S[z].node /\ S[z].node <= n /\ S[z].node \in Nat
      <3>1. S[z].node \in owner .. n - 1 /\ S[s].node <= S[z].node
        BY <1>1, <1>3, <1>4, <2>10, ScopeIs
      <3>2. S[z].node <= n /\ S[z].node \in Nat
        <4>1. owner \in Nat /\ n \in Nat
          BY ONLY <1>2, <1>4
        <4> QED
          BY ONLY <3>1, <4>1
      <3> QED
        BY <3>1, <3>2, Zenon
    <2>12. s <= z
      <3>1. ~(z < s)
        <4>1. z < s => S[z].node < S[s].node
          BY <1>1, <1>3 DEF Framed
        <4> QED
          BY <2>9, <2>11, <4>1
      <3>2. Len(S) \in Nat
        BY <1>1, IsSeqBounds DEF Framed
      <3> QED
        BY <1>3, <3>1, <3>2
    <2>13. CoversIn(tree, S[s].node, S[z].node)
      BY <1>4, <2>8, <2>9, <2>11 DEF CoversIn
    <2>14. s \in ScopesAround(z)
      <3>1. s \in 1 .. z
        BY <1>3, <2>12
      <3> QED
        BY <1>5, <2>13, <3>1
    <2>15. s \in found
      BY <2>7, <2>14
    <2> QED
      BY <2>3, <2>15
  <1>8. CASE found = {}
    <2>1. seen = {} /\ l = None
      BY <1>6, <1>7, <1>8
    <2> QED
      BY <2>1 DEF z
  <1>9. CASE found # {}
    <2> DEFINE s == Max(found)
    <2>1. s \in found /\ (\A r \in found : r <= s) /\ l = S[s].byName[name] /\ s \in 1 .. Len(S)
      BY <1>6, <1>9
    <2> HIDE DEF s, l
    <2>2. s \in ScopesAround(z) /\ Offers(s, name, n)
      BY ONLY <2>1
    <2> HIDE DEF found
    <2>3. name \in DOMAIN S[s].byName /\ locals[l].offset <= n
      BY ONLY <2>1, <2>2 DEF Offers
    <2> DEFINE d == locals[l].node
    <2>4. /\ l # None /\ locals[l].offset = Offset(d) /\ Declared(d) /\ d \in DOMAIN tree /\ d \in Nat
          /\ owner < d /\ tree[d].name = name /\ ScopeOf(d) = S[s].node
      BY <2>1, <2>3, LocalsOfScope, Zenon
    <2> HIDE DEF d
    <2>5. EndIn(tree, d) \in Nat /\ d < EndIn(tree, d)
      <3>1. EndIn(tree, d) \in d + 1 .. Len(tree) + 1
        BY <1>2, <2>4, EndIs
      <3> QED
        BY <1>2, <2>4, <3>1
    <2>6. d <= n
      <3>1. Offset(d) = d \/ Offset(d) = EndIn(tree, d)
        BY SameRanges DEF Offset
      <3>2. Offset(d) <= n
        BY <2>3, <2>4
      <3> QED
        BY <1>4, <2>4, <2>5, <3>1, <3>2
    <2>7. tree[d].kind \in LocalKinds /\ d # n
      BY <2>4 DEF Declared, Kind, LocalKinds
    <2>8. d < n /\ EndIn(tree, d) <= n
      <3>1. d \in owner + 1 .. n - 1
        BY <1>2, <1>4, <2>4, <2>6, <2>7
      <3> QED
        BY <1>3, <1>4, <2>4, <2>7, <3>1
    <2>9. ~Covers(d, n)
      BY <1>4, <2>5, <2>8, SameRanges DEF CoversIn
    <2>10. Covers(ScopeOf(d), n)
      <3>1. CoversIn(tree, S[s].node, S[z].node)
        BY <1>5, <2>2
      <3>2. CoversIn(tree, S[z].node, n)
        BY <1>1, <1>3, <1>4, ScopeIs
      <3>3. /\ S[s].node \in DOMAIN tree /\ S[s].node \in Nat /\ EndIn(tree, S[s].node) \in Nat
            /\ S[z].node \in Nat /\ EndIn(tree, S[z].node) \in Nat
        BY <1>1, <1>3, <2>1, FrameNodes
      <3>4. EndIn(tree, S[z].node) <= EndIn(tree, S[s].node)
        BY <1>2, <3>1, <3>3, EndNests
      <3>5. CoversIn(tree, S[s].node, n)
        BY <1>4, <3>1, <3>2, <3>3, <3>4 DEF CoversIn
      <3> QED
        BY <2>4, <3>5, SameRanges
    <2>11. d \in seen
      BY <2>4, <2>8, <2>9, <2>10 DEF Visible
    <2>12. ASSUME NEW e \in seen
           PROVE  ScopeOf(e) <= ScopeOf(d)
      <3>1. PICK r \in found : S[r].node = ScopeOf(e)
        BY <1>7
      <3>2. r <= s /\ r \in 1 .. Len(S)
        <4>1. r \in ScopesAround(z)
          BY DEF found
        <4>2. Len(S) \in Nat
          BY <1>1, IsSeqBounds DEF Framed
        <4> QED
          BY <1>3, <1>5, <2>1, <4>1, <4>2
      <3>3. S[r].node \in Nat /\ S[s].node \in Nat
        BY <1>1, <2>1, <3>2, FrameNodes
      <3>4. S[r].node <= S[s].node
        <4>1. r < s => S[r].node < S[s].node
          BY <1>1, <2>1, <3>2 DEF Framed
        <4>2. r < s \/ r = s
          BY <2>1, <3>2
        <4> QED
          BY <3>3, <4>1, <4>2
      <3> QED
        BY <2>4, <3>1, <3>4
    <2> QED
      BY <2>4, <2>11, <2>12 DEF l, d, z
  <1> QED
    BY <1>8, <1>9

-----------------------------------------------------------------------------
(* Each step of the walk keeps the invariant. *)
LEMMA ClearBelow ==
    ASSUME NEW t, NEW o, Body(t, o), NEW a, InBodyOf(t, o, a), ~Entering(t, a)
    PROVE  Clear(t, a, EndIn(t, a))
  <1>1. Tree(t) /\ a \in DOMAIN t /\ a \in 1 .. Len(t) /\ Len(t) \in Nat
    BY DEF Body, InBodyOf, Tree
  <1>2. EndIn(t, a) \in a + 1 .. Len(t) + 1
    BY <1>1, EndIs
  <1>3. EndIn(t, a) \in a + 1 .. EndIn(t, a)
    BY <1>1, <1>2
  <1>4. \A n \in a + 1 .. EndIn(t, a) - 1 : t[n].kind \notin ScopeKinds /\ t[n].kind \notin LocalKinds
    BY NothingSkipped DEF Walked, Entering, Blocks
  <1>5. t[a].kind \notin ScopeKinds
    BY DEF Entering, Blocks
  <1>6. \A n \in a .. EndIn(t, a) - 1 : n = a \/ n \in a + 1 .. EndIn(t, a) - 1
    BY <1>1, <1>2
  <1> QED
    BY <1>3, <1>4, <1>5, <1>6 DEF Clear

LEMMA ClearAlone ==
    ASSUME NEW t, NEW o, Body(t, o), NEW a, InBodyOf(t, o, a), t[a].kind \notin ScopeKinds,
           t[a].kind \notin LocalKinds
    PROVE  Clear(t, a, a + 1)
  <1>1. Tree(t) /\ a \in DOMAIN t /\ a \in 1 .. Len(t) /\ Len(t) \in Nat
    BY DEF Body, InBodyOf, Tree
  <1>2. EndIn(t, a) \in a + 1 .. Len(t) + 1
    BY <1>1, EndIs
  <1>3. a + 1 \in a + 1 .. EndIn(t, a) /\ (a + 1 .. (a + 1) - 1) = {} /\ \A m \in a .. (a + 1) - 1 : m = a
    BY <1>1, <1>2
  <1> QED
    BY <1>3 DEF Clear

LEMMA AtNodeStands ==
    ASSUME BodyHolds, AtNode
    PROVE  /\ Body(tree, owner) /\ InBodyOf(tree, owner, at) /\ BodyNode(tree, owner, at)
           /\ at < EndIn(tree, owner) /\ StillIn(tree, at, current, bodyScopes)
           /\ EndIn(tree, at) = End(at)
  <1>1. /\ Body(tree, owner) /\ Framed(tree, owner, at, bodyScopes)
        /\ Standing(tree, owner, at, current, bodyScopes)
    BY DEF BodyHolds, BodyInv
  <1>2. at < EndIn(tree, owner)
    BY SameRanges DEF AtNode, Walking
  <1>3. current \in 1 .. Len(bodyScopes)
    BY <1>1 DEF Standing
  <1>4. EndIn(tree, bodyScopes[current].node) \in Nat /\ owner \in 1 .. Len(tree) /\ Len(tree) \in Nat
        /\ EndIn(tree, owner) \in Nat
    BY <1>1, <1>3, FrameNodes, EndIsNat DEF Body, Tree
  <1>5. at \in Nat
    BY <1>1, <1>4 DEF Standing
  <1>6. StillIn(tree, at, current, bodyScopes)
    BY <1>4, <1>5, SameRanges DEF AtNode, ScopeEnds, StillIn
  <1>7. InBodyOf(tree, owner, at)
    BY <1>1, <1>2, <1>6, CurrentIsInnermost
  <1> QED
    BY <1>1, <1>2, <1>6, <1>7, BodyNodes, SameRanges

(* What the cursor may be at, by the grammar: what is passed with all that  *)
(* is below it holds no scope and no local, and what is entered is neither. *)
LEMMA KindsAt ==
    ASSUME BodyHolds, AtNode
    PROVE  /\ IsLocal => tree[at].kind \in LocalKinds /\ ~Entering(tree, at)
           /\ IsExpr => tree[at].kind \notin LocalKinds /\ ~Entering(tree, at)
           /\ IsScope => tree[at].kind \in ScopeKinds
           /\ IsEntered => tree[at].kind \notin ScopeKinds /\ tree[at].kind \notin LocalKinds
           /\ (~IsLocal /\ ~IsExpr /\ ~IsScope /\ ~IsEntered) =>
                tree[at].kind \notin LocalKinds /\ ~Entering(tree, at)
  <1>1. BodyNode(tree, owner, at) /\ tree[owner].kind \in Bodied
    BY AtNodeStands DEF Body
  <1>2. Kind(at) = tree[at].kind /\ Kind(Up(at)) = ParentKind(tree, at)
    BY DEF Kind, Up, ParentKind
  <1>3. Up(at) = owner => ParentKind(tree, at) \in Bodied
    BY <1>1 DEF Up, ParentKind
  <1>4. Up(at) = tree[at].up
    BY DEF Up
  <1>5. IsLocal => tree[at].kind \in LocalKinds /\ ~Entering(tree, at)
    BY <1>2 DEF IsLocal, LocalKinds, Entering, Blocks, ScopeKinds
  <1>6. IsExpr => tree[at].kind \notin LocalKinds /\ ~Entering(tree, at)
    BY <1>2 DEF IsExpr, ExprKinds, LeafKinds, CallKinds, LocalKinds, Entering, Blocks, ScopeKinds
  <1>7. IsScope => tree[at].kind \in ScopeKinds
    BY <1>2 DEF IsScope
  <1>8. tree[at].kind \in LocalKinds => IsLocal
    BY <1>1, <1>2 DEF LocalKinds, IsLocal, InDeclaration, BodyNode
  <1>9. IsEntered => tree[at].kind \notin ScopeKinds /\ tree[at].kind \notin LocalKinds
    BY <1>2, <1>8 DEF IsEntered, IsScope, ScopeKinds, LocalKinds
  <1>10. ASSUME ~IsLocal, ~IsExpr, ~IsScope, ~IsEntered, Entering(tree, at)
         PROVE  FALSE
    <2>1. InSignature \/ InDeclaration
      BY <1>10 DEF IsEntered, InBlock
    <2>2. CASE InSignature
      <3>1. ParentKind(tree, at) \in Bodied \cup {"returns"}
        BY <1>2, <1>3, <2>2 DEF InSignature
      <3>2. ~InStatements(tree, at)
        BY <3>1 DEF InStatements, Bodied, Functions, Blocks, ScopeKinds
      <3>3. tree[at].kind \notin {"returns", "fnbody"}
        BY <1>2, <1>10, <2>2 DEF IsEntered
      <3>4. tree[at].kind # "tuple"
        BY <1>1, <3>1 DEF BodyNode, Bodied, Functions
      <3>5. ParentKind(tree, at) \notin Blocks
        BY <3>1 DEF Bodied, Functions, Blocks, ScopeKinds
      <3> QED
        BY <1>1, <1>10, <3>2, <3>3, <3>4, <3>5 DEF BodyNode, Entering, Blocks
    <2>3. CASE InDeclaration
      <3>1. ParentKind(tree, at) \in {"declaration", "tuple"}
        BY <1>2, <2>3 DEF InDeclaration
      <3>2. ~InStatements(tree, at)
        BY <3>1 DEF InStatements, Blocks, ScopeKinds
      <3>3. tree[at].kind # "tuple"
        BY <1>2, <1>10, <2>3 DEF IsEntered
      <3>4. tree[at].kind \notin {"returns", "fnbody"}
        BY <1>1, <1>3, <1>4, <3>1 DEF BodyNode, Bodied, Functions
      <3>5. ParentKind(tree, at) \notin Blocks
        BY <3>1 DEF Blocks, ScopeKinds
      <3> QED
        BY <1>1, <1>10, <3>2, <3>3, <3>4, <3>5 DEF BodyNode, Entering, Blocks
    <2> QED
      BY <2>1, <2>2, <2>3
  <1> QED
    BY <1>5, <1>6, <1>7, <1>8, <1>9, <1>10

LEMMA WalkKeepsBody ==
    ASSUME BodyHolds, BodyNext, UNCHANGED tree
    PROVE  BodyHolds' /\ owner' = owner
  <1> DEFINE Inv(a, c, S, L, E) == BodyInv(tree, owner, a, c, S, L, E)
  <1>1. BodyInv(tree, owner, at, current, bodyScopes, locals, exprScope)
    BY DEF BodyHolds
  <1>2. AtNode => /\ Body(tree, owner) /\ InBodyOf(tree, owner, at)
                  /\ at < EndIn(tree, owner) /\ StillIn(tree, at, current, bodyScopes)
                  /\ EndIn(tree, at) = End(at)
    BY AtNodeStands
  <1>3. NamedIn(tree, at) <=> Named(at)
    BY DEF NamedIn, Named
  <1>4. ASSUME AddLocal
        PROVE  BodyHolds' /\ owner' = owner
    <2>1. AtNode /\ IsLocal /\ at' = End(at) /\ owner' = owner /\ current' = current
          /\ exprScope' = exprScope
      BY <1>4 DEF AddLocal
    <2>2. tree[at].kind \in LocalKinds /\ Clear(tree, at, EndIn(tree, at))
      BY <1>2, <2>1, KindsAt, ClearBelow
    <2>3. CASE Named(at)
      <3>1. /\ locals' = Append(locals, [name |-> tree[at].name, node |-> at, offset |-> OffsetIn(tree, at)])
            /\ bodyScopes' = [bodyScopes EXCEPT
                                ![current].byName = Put(@, tree[at].name, Len(locals) + 1)]
        BY <1>2, <1>4, <2>1, <2>3 DEF AddLocal, Offset, OffsetIn, Kind
      <3>2. BodyInv(tree, owner, EndIn(tree, at), current,
                    [bodyScopes EXCEPT ![current].byName = Put(@, tree[at].name, Len(locals) + 1)],
                    Append(locals, [name |-> tree[at].name, node |-> at, offset |-> OffsetIn(tree, at)]),
                    exprScope)
        BY <1>1, <1>2, <1>3, <2>1, <2>2, <2>3, AddKeepsBodyInv
      <3> QED
        BY <1>2, <2>1, <3>1, <3>2 DEF BodyHolds
    <2>4. CASE ~Named(at)
      <3>1. locals' = locals /\ bodyScopes' = bodyScopes
        BY <1>4, <2>4 DEF AddLocal
      <3>2. BodyInv(tree, owner, EndIn(tree, at), current, bodyScopes, locals, exprScope)
        BY <1>1, <1>2, <1>3, <2>1, <2>2, <2>4, PassKeepsBodyInv
      <3> QED
        BY <1>2, <2>1, <3>1, <3>2 DEF BodyHolds
    <2> QED
      BY <2>3, <2>4
  <1>5. ASSUME LowerExpr
        PROVE  BodyHolds' /\ owner' = owner
    <2>1. /\ AtNode /\ IsExpr /\ at' = End(at) /\ owner' = owner /\ current' = current
          /\ bodyScopes' = bodyScopes /\ locals' = locals
          /\ exprScope' = [n \in DOMAIN exprScope \cup ExprNodes(at) |->
                             IF n \in DOMAIN exprScope THEN exprScope[n] ELSE current]
      BY <1>5 DEF LowerExpr
    <2>2. tree[at].kind \notin LocalKinds /\ Clear(tree, at, EndIn(tree, at))
      BY <1>2, <2>1, KindsAt, ClearBelow
    <2>3. \A n \in ExprNodes(at) : n \in DOMAIN tree /\ CoversIn(tree, at, n)
      BY SameRanges DEF ExprNodes
    <2>4. BodyInv(tree, owner, EndIn(tree, at), current, bodyScopes, locals,
                  [n \in DOMAIN exprScope \cup ExprNodes(at) |->
                             IF n \in DOMAIN exprScope THEN exprScope[n] ELSE current])
      BY <1>1, <1>2, <2>1, <2>2, <2>3, LowerKeepsBodyInv
    <2> QED
      BY <1>2, <2>1, <2>4 DEF BodyHolds
  <1>6. ASSUME PushScope
        PROVE  BodyHolds' /\ owner' = owner
    <2>1. /\ AtNode /\ IsScope /\ at' = at + 1 /\ owner' = owner /\ locals' = locals
          /\ exprScope' = exprScope /\ current' = Len(bodyScopes) + 1
          /\ bodyScopes' = Append(bodyScopes, [parent |-> current, node |-> at, byName |-> Empty])
      BY <1>6 DEF PushScope
    <2>2. tree[at].kind \in ScopeKinds
      BY <2>1, KindsAt
    <2>3. BodyInv(tree, owner, at + 1, Len(bodyScopes) + 1,
                  Append(bodyScopes, [parent |-> current, node |-> at, byName |-> Empty]), locals, exprScope)
      BY <1>1, <1>2, <2>1, <2>2, PushKeepsBodyInv
    <2> QED
      BY <2>1, <2>3 DEF BodyHolds
  <1>7. ASSUME PopScope
        PROVE  BodyHolds' /\ owner' = owner
    <2>1. /\ ScopeEnds /\ current' = bodyScopes[current].parent /\ owner' = owner /\ at' = at
          /\ bodyScopes' = bodyScopes /\ locals' = locals /\ exprScope' = exprScope
      BY <1>7 DEF PopScope, Enclosing
    <2>2. current # RootScope /\ at >= EndIn(tree, bodyScopes[current].node)
      BY <2>1, SameRanges DEF ScopeEnds
    <2>3. BodyInv(tree, owner, at, bodyScopes[current].parent, bodyScopes, locals, exprScope)
      BY <1>1, <2>2, PopKeepsBodyInv
    <2> QED
      BY <2>1, <2>3 DEF BodyHolds
  <1>8. ASSUME Descend
        PROVE  BodyHolds' /\ owner' = owner
    <2>1. /\ AtNode /\ IsEntered /\ at' = at + 1 /\ owner' = owner /\ current' = current
          /\ bodyScopes' = bodyScopes /\ locals' = locals /\ exprScope' = exprScope
      BY <1>8 DEF Descend
    <2>2. tree[at].kind \notin LocalKinds /\ Clear(tree, at, at + 1)
      BY <1>2, <2>1, KindsAt, ClearAlone
    <2>3. BodyInv(tree, owner, at + 1, current, bodyScopes, locals, exprScope)
      BY <1>1, <1>2, <2>1, <2>2, PassKeepsBodyInv
    <2> QED
      BY <2>1, <2>3 DEF BodyHolds
  <1>9. ASSUME PassBy
        PROVE  BodyHolds' /\ owner' = owner
    <2>1. /\ AtNode /\ ~IsLocal /\ ~IsExpr /\ ~IsScope /\ ~IsEntered
          /\ at' = End(at) /\ owner' = owner /\ current' = current
          /\ bodyScopes' = bodyScopes /\ locals' = locals /\ exprScope' = exprScope
      BY <1>9 DEF PassBy
    <2>2. tree[at].kind \notin LocalKinds /\ Clear(tree, at, EndIn(tree, at))
      BY <1>2, <2>1, KindsAt, ClearBelow
    <2>3. BodyInv(tree, owner, EndIn(tree, at), current, bodyScopes, locals, exprScope)
      BY <1>1, <1>2, <2>1, <2>2, PassKeepsBodyInv
    <2> QED
      BY <1>2, <2>1, <2>3 DEF BodyHolds
  <1> QED
    BY <1>4, <1>5, <1>6, <1>7, <1>8, <1>9 DEF BodyNext

-----------------------------------------------------------------------------
(* The body kept is that of a function of the file last asked about: it is  *)
(* built from the tree of that file, or else it is forgotten.               *)
BodyKept ==
    /\ Mapped /\ tree = program[request.file]
    /\ owner \in DOMAIN tree /\ tree[owner].kind \in Bodied /\ BodyHolds
WalkInv ==
    /\ program \in Programs /\ request.file \in DOMAIN program
    /\ owner # None => BodyKept

LEMMA ContainerNodeIs ==
    ASSUME NEW f, NEW n, Tree(program[f]), n \in DOMAIN program[f], ContainerNode(f, n) # 0
    PROVE  /\ ContainerNode(f, n) \in Outermost(f, n)
           /\ \A m \in Outermost(f, n) : m <= ContainerNode(f, n)
           /\ ContainerNode(f, n) \in DOMAIN program[f]
  <1>1. n \in 1 .. Len(program[f]) /\ Len(program[f]) \in Nat /\ DOMAIN program[f] = 1 .. Len(program[f])
    BY DEF Tree
  <1>2. Outermost(f, n) \subseteq Ancestors(program[f], n)
    BY DEF Outermost, ItemsAround
  <1>3. Ancestors(program[f], n) \subseteq 1 .. n - 1
    BY DEF Ancestors
  <1>4. Outermost(f, n) # {} /\ ContainerNode(f, n) = Max(Outermost(f, n))
    BY DEF ContainerNode
  <1>5. n \in Nat /\ Outermost(f, n) \in SUBSET (0 .. n)
    BY <1>1, <1>2, <1>3
  <1>6. /\ ContainerNode(f, n) \in Outermost(f, n)
        /\ \A m \in Outermost(f, n) : m <= ContainerNode(f, n)
    BY <1>4, <1>5, MaxIs
  <1>7. ContainerNode(f, n) \in 1 .. Len(program[f])
    BY <1>1, <1>2, <1>3, <1>6
  <1> QED
    BY <1>1, <1>6, <1>7

LEMMA ProgramStays == DefNext => program' = program
  BY DEF DefNext, MakeIds, LowerTop, LowerMember, PassOver, CollectFile, CollectSimple, CollectUsing,
         CollectImport, CollectContainer, NextFile, ResolveImport, collectVars

LEMMA FilesAreTrees ==
    ASSUME program \in Programs
    PROVE  /\ program \in Seq(Trees) /\ Len(program) \in Nat /\ Len(program) >= 1
           /\ DOMAIN program = 1 .. Len(program)
           /\ \A f \in DOMAIN program : program[f] \in Trees /\ Tree(program[f])
  <1>1. program \in Seq(Trees) /\ program # <<>>
    BY ProgramsAssumption
  <1>2. /\ Len(program) \in Nat /\ DOMAIN program = 1 .. Len(program)
        /\ \A f \in 1 .. Len(program) : program[f] \in Trees
    BY <1>1
  <1>3. Len(program) >= 1
    BY <1>1, <1>2
  <1> QED
    BY <1>1, <1>2, <1>3, TreesAreTrees

LEMMA StartsInWalkInv == RequestInit => WalkInv
  <1> SUFFICES ASSUME RequestInit
               PROVE  WalkInv
    OBVIOUS
  <1>1. program \in Programs /\ owner = None /\ request.file = 1
    BY DEF RequestInit, DefInit, NoBody, NoRequest
  <1> QED
    BY <1>1, FilesAreTrees DEF WalkInv

LEMMA AskKeepsWalkInv ==
    ASSUME WalkInv, Ask
    PROVE  WalkInv'
  <1>0. PICK f \in DOMAIN program : \E n \in DOMAIN program[f] :
          /\ \E method \in Methods : request' = [method |-> method, file |-> f, node |-> n]
          /\ tree' = program[f] /\ Enter(f, ContainerNode(f, n))
    BY DEF Ask
  <1>1. PICK n \in DOMAIN program[f] :
          /\ \E method \in Methods : request' = [method |-> method, file |-> f, node |-> n]
          /\ tree' = program[f] /\ Enter(f, ContainerNode(f, n))
    BY <1>0
  <1>2. /\ program' = program /\ file' = file /\ unresolved' = unresolved
        /\ Mapped
    BY DEF Ask, collectVars, mapVars
  <1>3. Mapped' /\ request'.file = f
    BY <1>1, <1>2 DEF Mapped, AllCollected, Pending
  <1>4. program \in Programs /\ program[f] \in Trees /\ Tree(program[f])
    BY FilesAreTrees DEF WalkInv
  <1> DEFINE m == ContainerNode(f, n)
  <1>5. CASE HasBody(f, m) /\ (owner # m \/ request.file # f)
    <2>1. BodyStart(m) /\ m # 0 /\ program[f][m].kind \in Bodied
      BY <1>1, <1>5 DEF Enter, HasBody
    <2>2. m \in DOMAIN program[f]
      BY <1>4, <2>1, ContainerNodeIs
    <2> HIDE DEF m
    <2>3. Body(program[f], m)
      BY <1>4, <2>1, <2>2, BodiesAreBodies
    <2>4. BodyInv(program[f], m, m + 1, 1, <<[parent |-> NoBodyScope, node |-> m, byName |-> Empty]>>,
                  <<>>, Empty)
      BY <2>3, BodyStarts
    <2>5. BodyHolds' /\ owner' = m
      BY <1>1, <2>1, <2>4 DEF BodyHolds, BodyStart, RootScope
    <2> QED
      BY <1>1, <1>2, <1>3, <1>4, <2>1, <2>2, <2>5 DEF WalkInv, BodyKept
  <1>6. CASE ~HasBody(f, m) /\ request.file # f
    <2>1. ForgetBody
      BY <1>1, <1>6 DEF Enter
    <2> QED
      BY <1>2, <1>3, <1>4, <2>1 DEF WalkInv, ForgetBody
  <1>7. CASE ~(HasBody(f, m) /\ (owner # m \/ request.file # f)) /\ ~(~HasBody(f, m) /\ request.file # f)
    <2>1. UNCHANGED bodyVars /\ request.file = f
      BY <1>1, <1>7 DEF Enter
    <2>2. CASE owner # None
      <3>1. BodyKept
        BY <2>2 DEF WalkInv
      <3>2. tree' = tree
        BY <1>1, <2>1, <3>1 DEF BodyKept
      <3>3. BodyHolds'
        BY <2>1, <3>1, <3>2 DEF BodyKept, BodyHolds, bodyVars
      <3> QED
        BY <1>1, <1>2, <1>3, <1>4, <2>1, <3>1, <3>2, <3>3 DEF WalkInv, BodyKept, bodyVars
    <2>3. CASE owner = None
      BY <1>2, <1>3, <1>4, <2>1, <2>3 DEF WalkInv, bodyVars
    <2> QED
      BY <2>2, <2>3
  <1> QED
    BY <1>5, <1>6, <1>7

LEMMA KeptBodyStays ==
    ASSUME WalkInv, UNCHANGED <<defVars, bodyVars>>, request'.file = request.file
    PROVE  WalkInv'
  <1>1. /\ program' = program /\ file' = file /\ unresolved' = unresolved /\ tree' = tree
        /\ owner' = owner /\ at' = at /\ current' = current /\ bodyScopes' = bodyScopes
        /\ locals' = locals /\ exprScope' = exprScope
    BY DEF defVars, bodyVars, collectVars, mapVars, idVars
  <1>2. BodyHolds' <=> BodyHolds
    BY <1>1 DEF BodyHolds
  <1>3. Mapped' <=> Mapped
    BY <1>1 DEF Mapped, AllCollected, Pending
  <1> QED
    BY <1>1, <1>2, <1>3 DEF WalkInv, BodyKept

LEMMA WalkInvInductive == WalkInv /\ [RequestNext]_requestVars => WalkInv'
  <1> SUFFICES ASSUME WalkInv, [RequestNext]_requestVars
               PROVE  WalkInv'
    OBVIOUS
  <1>1. CASE Collect
    <2>1. ~Mapped /\ DefNext /\ owner' = owner /\ request' = request
      BY <1>1 DEF Collect, bodyVars
    <2>2. owner = None /\ program' = program
      BY <2>1, ProgramStays DEF WalkInv, BodyKept
    <2> QED
      BY <2>1, <2>2 DEF WalkInv
  <1>2. CASE Ask
    BY <1>2, AskKeepsWalkInv
  <1>3. CASE BuildBody
    <2>1. BodyNext /\ UNCHANGED defVars /\ request' = request
      BY <1>3 DEF BuildBody
    <2>2. owner # None
      BY <2>1 DEF BodyNext, AddLocal, LowerExpr, PushScope, PopScope, Descend, PassBy, AtNode, Walking
    <2>3. BodyKept
      BY <2>2 DEF WalkInv
    <2>4. /\ program' = program /\ file' = file /\ unresolved' = unresolved /\ tree' = tree
      BY <2>1 DEF defVars, collectVars, mapVars, idVars
    <2>5. BodyHolds' /\ owner' = owner
      BY <2>1, <2>3, <2>4, WalkKeepsBody DEF BodyKept
    <2>6. Mapped'
      BY <2>3, <2>4 DEF BodyKept, Mapped, AllCollected, Pending
    <2> QED
      BY <2>1, <2>3, <2>4, <2>5, <2>6 DEF WalkInv, BodyKept
  <1>4. CASE BuildResolver \/ CompleteName \/ Reply \/ UNCHANGED requestVars
    <2>1. UNCHANGED <<defVars, bodyVars>> /\ request' = request
      BY <1>4 DEF BuildResolver, CompleteName, Reply, Answer, requestVars
    <2> QED
      BY <2>1, KeptBodyStays
  <1> QED
    BY <1>1, <1>2, <1>3, <1>4 DEF RequestNext

(* A name in a body means the local declared before it in the innermost     *)
(* scope around it (exprs.rs, body_map.rs, resolver.rs:256).                *)
THEOREM LocalsAreLexical == RequestSpec => []LocalsLexical
  <1>1. WalkInv => LocalsLexical
    <2> SUFFICES ASSUME WalkInv, BodyDone, OncePerScope, NEW n \in DOMAIN exprScope, Kind(n) = "name"
                 PROVE  LET l == LocalFrom(tree[n].name, exprScope[n], n)
                            seen == {d \in DOMAIN tree : Visible(d, n)}
                        IN IF l = None THEN seen = {}
                           ELSE /\ locals[l].node \in seen
                                /\ \A d \in seen : ScopeOf(d) <= ScopeOf(locals[l].node)
      BY DEF LocalsLexical
    <2>1. BodyHolds
      BY DEF WalkInv, BodyKept, BodyDone
    <2> QED
      BY <2>1, LexicalAtEnd
  <1> QED
    BY <1>1, StartsInWalkInv, WalkInvInductive, PTL DEF RequestSpec

(* What the code does, scope by scope: resolve_local looks in the scope of  *)
(* the use, and then in the one around it (resolver.rs:256).                *)
GoesOutwards ==
    owner # None =>
        \A s \in 1 .. Len(bodyScopes) : \A name : \A offset :
            LocalFrom(name, s, offset) =
                IF Offers(s, name, offset) THEN bodyScopes[s].byName[name]
                ELSE IF bodyScopes[s].parent = NoBodyScope THEN None
                ELSE LocalFrom(name, bodyScopes[s].parent, offset)

LEMMA AroundStep ==
    ASSUME BodyHolds, NEW z \in 1 .. Len(bodyScopes)
    PROVE  /\ bodyScopes[z].parent = NoBodyScope => ScopesAround(z) = {z}
           /\ bodyScopes[z].parent # NoBodyScope =>
                /\ bodyScopes[z].parent \in 1 .. Len(bodyScopes) /\ bodyScopes[z].parent < z
                /\ ScopesAround(z) = {z} \cup ScopesAround(bodyScopes[z].parent)
  <1> DEFINE S == bodyScopes
             p == S[z].parent
  <1>1. /\ Body(tree, owner) /\ Framed(tree, owner, at, S) /\ Standing(tree, owner, at, current, S)
        /\ IsSeq(S) /\ Len(S) \in Nat /\ Tree(tree)
    BY IsSeqBounds DEF BodyHolds, BodyInv, Framed, Body
  <1>2. z \in ScopesAround(z)
    BY <1>1 DEF ScopesAround
  <1>3. CASE z = 1
    <2>1. p = NoBodyScope
      BY <1>1, <1>3 DEF Framed
    <2>2. ScopesAround(z) \subseteq 1 .. 1
      BY <1>3 DEF ScopesAround
    <2> QED
      BY <1>2, <1>3, <2>1, <2>2
  <1>4. CASE z # 1
    <2>1. /\ p \in 1 .. z - 1 /\ p \in 1 .. Len(S) /\ S[z].node \in DOMAIN tree
          /\ ScopeIn(tree, owner, S[z].node) = S[p].node /\ InBodyOf(tree, owner, S[z].node)
      BY <1>1, <1>4, FrameNodes
    <2>2. p # NoBodyScope /\ p < z
      BY <2>1 DEF NoBodyScope
    <2>3. CoversIn(tree, S[p].node, S[z].node)
      BY <1>1, <2>1, ScopeIs
    <2>4. ASSUME NEW s \in ScopesAround(z), s # z
          PROVE  s \in ScopesAround(p)
      <3>1. s \in 1 .. z /\ \A k \in s + 1 .. z : S[k].parent >= s
        BY DEF ScopesAround
      <3>2. z \in s + 1 .. z
        BY <1>1, <2>4, <3>1
      <3>3. p >= s
        BY <3>1, <3>2
      <3>4. s \in 1 .. p /\ s + 1 .. p \subseteq s + 1 .. z
        BY <2>1, <3>1, <3>3
      <3> QED
        BY <3>1, <3>4 DEF ScopesAround
    <2>5. ASSUME NEW s \in ScopesAround(p)
          PROVE  s \in ScopesAround(z)
      <3>1. s \in 1 .. p /\ CoversIn(tree, S[s].node, S[p].node)
        BY <2>1, AroundScope
      <3>2. s \in 1 .. z /\ s \in 1 .. Len(S)
        BY <2>1, <3>1
      <3>3. /\ S[s].node \in DOMAIN tree /\ S[s].node \in Nat /\ S[p].node \in DOMAIN tree
            /\ S[p].node \in Nat /\ S[z].node \in Nat
            /\ EndIn(tree, S[s].node) \in Nat /\ EndIn(tree, S[p].node) \in Nat
        BY <1>1, <2>1, <3>2, FrameNodes
      <3>4. EndIn(tree, S[p].node) <= EndIn(tree, S[s].node)
        BY <1>1, <3>1, <3>3, EndNests
      <3>5. CoversIn(tree, S[s].node, S[z].node)
        BY <2>3, <3>1, <3>3, <3>4 DEF CoversIn
      <3> QED
        BY <3>2, <3>5, AroundScope
    <2> QED
      BY <1>2, <2>1, <2>2, <2>4, <2>5
  <1> QED
    BY <1>3, <1>4

LEMMA LocalFromStep ==
    ASSUME BodyHolds, NEW z \in 1 .. Len(bodyScopes), NEW name, NEW offset
    PROVE  LocalFrom(name, z, offset) =
             IF Offers(z, name, offset) THEN bodyScopes[z].byName[name]
             ELSE IF bodyScopes[z].parent = NoBodyScope THEN None
             ELSE LocalFrom(name, bodyScopes[z].parent, offset)
  <1> DEFINE Found(s) == {r \in ScopesAround(s) : Offers(r, name, offset)}
             p == bodyScopes[z].parent
  <1>1. /\ p = NoBodyScope => ScopesAround(z) = {z}
        /\ p # NoBodyScope => /\ p \in 1 .. Len(bodyScopes) /\ p < z
                              /\ ScopesAround(z) = {z} \cup ScopesAround(p)
    BY AroundStep
  <1>2. \A s \in Found(z) : s <= z /\ s \in Nat
    BY DEF ScopesAround
  <1>3. Found(z) # {} => /\ Max(Found(z)) \in Found(z) /\ \A s \in Found(z) : s <= Max(Found(z))
                         /\ LocalFrom(name, z, offset) = bodyScopes[Max(Found(z))].byName[name]
    BY FoundFrom
  <1>4. Found(z) = {} => LocalFrom(name, z, offset) = None
    BY FoundFrom
  <1>5. CASE Offers(z, name, offset)
    <2>1. z \in Found(z)
      BY <1>1, <1>5
    <2>2. Max(Found(z)) \in Found(z) /\ z <= Max(Found(z))
      BY <1>3, <2>1
    <2>3. Max(Found(z)) = z
      <3> DEFINE m == Max(Found(z))
      <3>1. m <= z /\ m \in Nat /\ z <= m
        BY <1>2, <2>2
      <3> HIDE DEF m
      <3>2. m = z
        BY <3>1
      <3> QED
        BY <3>2 DEF m
    <2> QED
      BY <1>3, <1>5, <2>1, <2>3
  <1>6. CASE ~Offers(z, name, offset) /\ p = NoBodyScope
    BY <1>1, <1>4, <1>6
  <1>7. CASE ~Offers(z, name, offset) /\ p # NoBodyScope
    <2>1. Found(z) = Found(p)
      BY <1>1, <1>7
    <2>2. LocalFrom(name, z, offset) = LocalFrom(name, p, offset)
      BY <2>1 DEF LocalFrom
    <2> QED
      BY <1>7, <2>2
  <1> QED
    BY <1>5, <1>6, <1>7

THEOREM LocalsResolveOutwards == RequestSpec => []GoesOutwards
  <1>1. WalkInv => GoesOutwards
    BY LocalFromStep DEF WalkInv, BodyKept, GoesOutwards
  <1> QED
    BY <1>1, StartsInWalkInv, WalkInvInductive, PTL DEF RequestSpec

-----------------------------------------------------------------------------
(* The map: it is made as DefCollector says, and is not touched any more.   *)
MapHolds ==
    /\ MapInv(scopes, defs)
    /\ ~Mapped => IInv /\ Collected /\ DInv

LEMMA StartsMapped == RequestInit => MapHolds
  <1>1. RequestInit => IInv /\ Collected /\ DInv
    BY StartsCollected, StartsInDInv, StartsInIInv DEF RequestInit, IdsInit
  <1> QED
    BY <1>1 DEF MapHolds, DInv

LEMMA SameMap ==
    ASSUME UNCHANGED <<program, file, unresolved>>
    PROVE  Mapped' <=> Mapped
  BY DEF Mapped, AllCollected, Pending

LEMMA MapHoldsInductive == MapHolds /\ [RequestNext]_requestVars => MapHolds'
  <1> SUFFICES ASSUME MapHolds, [RequestNext]_requestVars
               PROVE  MapHolds'
    OBVIOUS
  <1>1. CASE Ask
    <2>1. UNCHANGED <<scopes, defs, program, file, unresolved>> /\ Mapped
      BY <1>1 DEF Ask, mapVars, collectVars
    <2>2. Mapped'
      BY <2>1, SameMap
    <2> QED
      BY <2>1, <2>2 DEF MapHolds
  <1>2. CASE ~Ask /\ Mapped
    <2>1. UNCHANGED defVars
      BY <1>2 DEF RequestNext, Collect, BuildBody, BuildResolver, CompleteName, Reply, Answer, requestVars
    <2>2. UNCHANGED <<scopes, defs, program, file, unresolved>>
      BY <2>1 DEF defVars, mapVars, collectVars
    <2>3. Mapped'
      BY <1>2, <2>2, SameMap
    <2> QED
      BY <2>2, <2>3 DEF MapHolds
  <1>3. CASE ~Ask /\ ~Mapped
    <2>1. [DefNext]_defVars
      BY <1>3 DEF RequestNext, Collect, BuildBody, BuildResolver, CompleteName, Reply, Answer, requestVars
    <2>2. IInv /\ Collected /\ DInv
      BY <1>3 DEF MapHolds
    <2>3. IInv' /\ Collected' /\ DInv'
      BY <2>1, <2>2, StepImplementsIds, IInvInductive, DInvInductive
    <2> QED
      BY <2>3 DEF MapHolds, DInv
  <1> QED
    BY <1>1, <1>2, <1>3

(* For each request, too, the definitions and the scopes agree. *)
LEMMA ScopesOfMap ==
    ASSUME MapInv(scopes, defs)
    PROVE  /\ IsSeq(scopes) /\ Len(scopes) \in Nat /\ DOMAIN scopes = 1 .. Len(scopes)
           /\ \A s \in 1 .. Len(scopes) :
                /\ scopes[s].parent \in 0 .. s - 1
                /\ scopes[s].parent # NoScope =>
                     /\ scopes[s].parent \in 1 .. Len(scopes)
                     /\ \A k \in scopes[s].parent + 1 .. s : scopes[k].parent >= scopes[s].parent
  <1>1. IsSeq(scopes) /\ Len(scopes) \in Nat /\ DOMAIN scopes = 1 .. Len(scopes)
    BY IsSeqBounds DEF MapInv, ScopesTyped
  <1>2. ASSUME NEW s \in 1 .. Len(scopes)
        PROVE  /\ scopes[s].parent \in 0 .. s - 1
               /\ scopes[s].parent # NoScope =>
                     /\ scopes[s].parent \in 1 .. Len(scopes)
                     /\ \A k \in scopes[s].parent + 1 .. s : scopes[k].parent >= scopes[s].parent
    BY <1>1 DEF MapInv, Nested, NoScope
  <1> QED
    BY <1>1, <1>2

(* What the code does, scope by scope: resolve_def looks in the scope of    *)
(* the container with its bases or imports, and then in the one around it   *)
(* (resolver.rs:182).                                                       *)
GoesOutwardsInMap ==
    \A s \in 1 .. Len(scopes) : \A name :
        OutwardsFrom(s, name) =
            Or(FromScope(s, name),
               IF scopes[s].parent = NoScope THEN Nothing ELSE OutwardsFrom(scopes[s].parent, name))

LEMMA MapAroundStep ==
    ASSUME MapInv(scopes, defs), NEW z \in 1 .. Len(scopes)
    PROVE  MapScopesAround(z) =
             {z} \cup IF scopes[z].parent = NoScope THEN {} ELSE MapScopesAround(scopes[z].parent)
  <1> DEFINE p == scopes[z].parent
  <1>1. p \in 0 .. z - 1 /\ (p # NoScope => \A k \in p + 1 .. z : scopes[k].parent >= p)
    BY ScopesOfMap
  <1>2. \A k \in 1 .. z : scopes[k].parent \in Int
    <2>1. \A k \in 1 .. z : k \in 1 .. Len(scopes)
      BY ScopesOfMap
    <2> QED
      BY <2>1, ScopesOfMap
  <1>3. z \in MapScopesAround(z)
    BY DEF MapScopesAround
  <1>4. ASSUME NEW s \in MapScopesAround(z), s # z
        PROVE  p # NoScope /\ s \in MapScopesAround(p)
    <2>1. s \in 1 .. z /\ \A k \in s + 1 .. z : scopes[k].parent >= s
      BY DEF MapScopesAround
    <2>2. z \in s + 1 .. z
      BY <1>4, <2>1
    <2>3. p >= s
      BY <2>1, <2>2
    <2>4. s \in 1 .. p /\ s + 1 .. p \subseteq s + 1 .. z
      BY <1>1, <2>1, <2>3
    <2> QED
      BY <2>1, <2>4 DEF MapScopesAround, NoScope
  <1>5. ASSUME p # NoScope, NEW s \in MapScopesAround(p)
        PROVE  s \in MapScopesAround(z)
    <2>1. s \in 1 .. p /\ \A k \in s + 1 .. p : scopes[k].parent >= s
      BY DEF MapScopesAround
    <2>2. s \in 1 .. z
      BY <1>1, <2>1
    <2>3. ASSUME NEW k \in s + 1 .. z
          PROVE  scopes[k].parent >= s
      <3>1. CASE k \in s + 1 .. p
        BY <2>1, <3>1
      <3>2. CASE k \in p + 1 .. z
        <4>1. scopes[k].parent >= p /\ k \in 1 .. z
          BY <1>1, <1>5, <2>1, <3>2
        <4>2. scopes[k].parent \in Int
          BY <1>2, <4>1
        <4> QED
          BY <1>1, <2>1, <4>1, <4>2
      <3> QED
        BY <1>1, <2>1, <3>1, <3>2
    <2> QED
      BY <2>2, <2>3 DEF MapScopesAround
  <1> QED
    BY <1>3, <1>4, <1>5

(* What is found from a scope: that of the innermost scope with a meaning. *)
LEMMA FoundInMap ==
    ASSUME NEW z \in Nat, NEW name
    PROVE  LET found == {s \in MapScopesAround(z) : FromScope(s, name) # Nothing}
           IN /\ found = {} => OutwardsFrom(z, name) = Nothing
              /\ \A s \in found : (\A r \in found : r <= s) => OutwardsFrom(z, name) = FromScope(s, name)
              /\ found # {} => \E s \in found : \A r \in found : r <= s
  <1> DEFINE found == {s \in MapScopesAround(z) : FromScope(s, name) # Nothing}
  <1>1. found \in SUBSET (0 .. z) /\ \A s \in found : s \in Nat
    BY DEF MapScopesAround
  <1>2. OutwardsFrom(z, name) = IF found = {} THEN Nothing ELSE FromScope(Max(found), name)
    BY DEF OutwardsFrom
  <1> HIDE DEF found
  <1>3. found # {} => Max(found) \in found /\ \A s \in found : s <= Max(found)
    BY <1>1, MaxIs
  <1>4. ASSUME NEW s \in found, \A r \in found : r <= s
        PROVE  OutwardsFrom(z, name) = FromScope(s, name)
    <2>1. Max(found) \in found /\ s <= Max(found)
      BY <1>3
    <2>2. Max(found) <= s /\ Max(found) \in Nat /\ s \in Nat
      BY <1>1, <1>4, <2>1
    <2>3. Max(found) = s
      BY <2>1, <2>2
    <2> QED
      BY <1>2, <2>3
  <1>5. /\ found = {} => OutwardsFrom(z, name) = Nothing
        /\ \A s \in found : (\A r \in found : r <= s) => OutwardsFrom(z, name) = FromScope(s, name)
        /\ found # {} => \E s \in found : \A r \in found : r <= s
    BY <1>2, <1>3, <1>4
  <1> QED
    BY <1>5 DEF found

LEMMA OutwardsStep ==
    ASSUME MapInv(scopes, defs), NEW z \in 1 .. Len(scopes), NEW name
    PROVE  OutwardsFrom(z, name) =
             Or(FromScope(z, name),
                IF scopes[z].parent = NoScope THEN Nothing ELSE OutwardsFrom(scopes[z].parent, name))
  <1> DEFINE p == scopes[z].parent
             Found(s) == {r \in MapScopesAround(s) : FromScope(r, name) # Nothing}
  <1>1. p \in 0 .. z - 1 /\ z \in Nat /\ p \in Nat
    BY ScopesOfMap
  <1>2. MapScopesAround(z) = {z} \cup IF p = NoScope THEN {} ELSE MapScopesAround(p)
    BY MapAroundStep
  <1>3. \A s \in MapScopesAround(z) : s <= z
    BY DEF MapScopesAround
  <1>4. CASE FromScope(z, name) # Nothing
    <2>1. z \in Found(z) /\ \A r \in Found(z) : r <= z
      BY <1>2, <1>3, <1>4
    <2>2. OutwardsFrom(z, name) = FromScope(z, name)
      BY <1>1, <2>1, FoundInMap
    <2> QED
      BY <1>4, <2>2 DEF Or
  <1>5. CASE FromScope(z, name) = Nothing /\ p = NoScope
    <2>1. Found(z) = {}
      BY <1>2, <1>5
    <2>2. OutwardsFrom(z, name) = Nothing
      BY <1>1, <2>1, FoundInMap
    <2> QED
      BY <1>5, <2>2 DEF Or
  <1>6. CASE FromScope(z, name) = Nothing /\ p # NoScope
    <2>1. Found(z) = Found(p)
      BY <1>2, <1>6
    <2>2. OutwardsFrom(z, name) = OutwardsFrom(p, name)
      BY <2>1 DEF OutwardsFrom
    <2> QED
      BY <1>6, <2>2 DEF Or
  <1> QED
    BY <1>4, <1>5, <1>6

THEOREM NamesResolveOutwards == RequestSpec => []GoesOutwardsInMap
  <1>1. MapHolds => GoesOutwardsInMap
    BY OutwardsStep DEF MapHolds, GoesOutwardsInMap
  <1> QED
    BY <1>1, StartsMapped, MapHoldsInductive, PTL DEF RequestSpec

-----------------------------------------------------------------------------
(* What completion offers.  The scopes looked in are that of the cursor and *)
(* the one around it.                                                       *)
LEMMA EntryMeans ==
    ASSUME MapInv(scopes, defs), NEW s \in 1 .. Len(scopes), NEW name \in DOMAIN scopes[s].byName
    PROVE  LET def == scopes[s].byName[name].defs[1]
           IN /\ InScope(s, name) # Nothing /\ MeansDef(InScope(s, name), def)
              /\ FromScope(s, name) = InScope(s, name)
              /\ def \in DOMAIN defs /\ defs[def].scope = s
  <1> DEFINE entry == scopes[s].byName[name]
             def == entry.defs[1]
             res == Meaning(entry)
  <1>1. IsSeq(entry.defs) /\ entry.defs # <<>>
    BY DEF MapInv, ScopesTyped, IsMapScope
  <1>2. DOMAIN entry.defs = 1 .. Len(entry.defs) /\ Len(entry.defs) \in Nat
    BY <1>1, IsSeqBounds
  <1>3. 1 \in DOMAIN entry.defs
    <2>1. Len(entry.defs) # 0
      <3>1. entry.defs \in Seq(ToSet(entry.defs))
        BY <1>1 DEF IsSeq
      <3> QED
        BY <1>1, <3>1
    <2> QED
      BY <1>2, <2>1
  <1>4. def \in ToSet(entry.defs)
    BY <1>3 DEF ToSet
  <1>5. def \in DOMAIN defs /\ defs[def].scope = s
    BY <1>4 DEF MapInv, ListsDefined
  <1>6. InScope(s, name) = res
    BY DEF InScope
  <1>7. res # Nothing /\ MeansDef(res, def)
    <2>1. CASE entry.namespace = "type"
      <3>1. res = [typ |-> DefType(def)]
        BY <2>1 DEF Meaning
      <3> HIDE DEF res, def
      <3>2. DOMAIN res = {"typ"} /\ res.typ = DefType(def) /\ DOMAIN Nothing = {"nothing"}
        BY <3>1 DEF Nothing
      <3> QED
        BY <3>2 DEF MeansDef, Has
    <2>2. CASE entry.namespace = "variable"
      <3>1. res = [var |-> def]
        BY <2>2 DEF Meaning
      <3> HIDE DEF res, def
      <3>2. DOMAIN res = {"var"} /\ res.var = def /\ DOMAIN Nothing = {"nothing"}
        BY <3>1 DEF Nothing
      <3> QED
        BY <3>2 DEF MeansDef, Has
    <2>3. CASE entry.namespace \notin {"type", "variable"}
      <3> DEFINE list == [k \in DOMAIN entry.defs |-> DefCallable(entry.defs[k], 0)]
      <3>1. res = [callables |-> list]
        BY <2>3 DEF Meaning
      <3>2. 1 \in DOMAIN list /\ list[1] = DefCallable(def, 0)
        BY <1>3
      <3> HIDE DEF res, def, list
      <3>3. DOMAIN res = {"callables"} /\ res.callables = list /\ DOMAIN Nothing = {"nothing"}
        BY <3>1 DEF Nothing
      <3> QED
        BY <3>2, <3>3 DEF MeansDef, Has
    <2> QED
      BY <2>1, <2>2, <2>3
  <1>8. FromScope(s, name) = InScope(s, name)
    BY <1>6, <1>7 DEF FromScope, Or
  <1> QED
    BY <1>5, <1>6, <1>7, <1>8 DEF def, entry

LEMMA NoLocalBeyondBodies == \A name : LocalMeaning(name, NoBodyScope, 0) = Nothing
  <1>1. ScopesAround(NoBodyScope) = {}
    <2>1. 1 .. 0 = {}
      OBVIOUS
    <2> QED
      BY <2>1, Zenon DEF ScopesAround, NoBodyScope
  <1> QED
    BY <1>1 DEF LocalMeaning, LocalFrom

(* What a scope offers is what the name means from there, unless it is      *)
(* hidden.                                                                  *)
LEMMA OfferedMeans ==
    ASSUME MapInv(scopes, defs), NEW c \in DOMAIN defs, NEW start \in 1 .. Len(scopes),
           defs[c].child = start, scopes[start].owner = c, NEW i \in ScopeItems(start),
           ~(/\ c.kind \in WithBases /\ defs[i.def].scope # start
             /\ i.name \in {"this", "super"} \/ InBases(c, i.name) # Nothing)
    PROVE  MeansDef(OutwardsFrom(start, i.name), i.def)
  <1> DEFINE outer == scopes[start].parent
             Own(s) == {ItemOf(name, scopes[s].byName[name].defs[1]) : name \in DOMAIN scopes[s].byName}
  <1>1. /\ outer \in 0 .. start - 1
        /\ outer # NoScope => /\ outer \in 1 .. Len(scopes)
                              /\ \A k \in outer + 1 .. start : scopes[k].parent >= outer
    BY ScopesOfMap, Zenon
  <1>2. i \in Own(start) \/ (outer # NoScope /\ i \in Own(outer) /\ i.name \notin DOMAIN scopes[start].byName)
    BY Zenon DEF ScopeItems
  <1>3. CASE i \in Own(start)
    <2>1. PICK name \in DOMAIN scopes[start].byName :
             i = ItemOf(name, scopes[start].byName[name].defs[1])
      BY <1>3
    <2>2. i.name = name /\ i.def = scopes[start].byName[name].defs[1]
      BY <2>1 DEF ItemOf
    <2>3. LET def == scopes[start].byName[name].defs[1]
          IN /\ InScope(start, name) # Nothing /\ MeansDef(InScope(start, name), def)
             /\ FromScope(start, name) = InScope(start, name)
      BY EntryMeans
    <2>4. OutwardsFrom(start, name) = FromScope(start, name)
      BY <2>3, OutwardsStep DEF Or
    <2> QED
      BY ONLY <2>2, <2>3, <2>4
  <1>4. CASE outer # NoScope /\ i \in Own(outer) /\ i.name \notin DOMAIN scopes[start].byName
    <2>1. PICK name \in DOMAIN scopes[outer].byName :
             i = ItemOf(name, scopes[outer].byName[name].defs[1])
      BY ONLY <1>4
    <2>2. i.name = name /\ i.def = scopes[outer].byName[name].defs[1]
      BY <2>1 DEF ItemOf
    <2>3. outer \in 1 .. Len(scopes)
      BY ONLY <1>1, <1>4, SMTT(30)
    <2> HIDE DEF outer
    <2>4. /\ InScope(outer, name) # Nothing /\ MeansDef(InScope(outer, name), i.def)
          /\ FromScope(outer, name) = InScope(outer, name) /\ defs[i.def].scope = outer
      <3>1. LET def == scopes[outer].byName[name].defs[1]
            IN /\ InScope(outer, name) # Nothing /\ MeansDef(InScope(outer, name), def)
               /\ FromScope(outer, name) = InScope(outer, name) /\ defs[def].scope = outer
        BY <2>3, EntryMeans
      <3> QED
        BY ONLY <2>2, <3>1
    <2>5. outer # start
      BY <1>1
    <2>6. InScope(start, name) = Nothing
      BY <1>4, <2>2 DEF InScope
    <2>7. c.kind # "file"
      BY <1>4 DEF MapInv, OwnsChild, outer, NoScope
    <2>8. BeyondScope(c, name) = Nothing
      <3>1. CASE c.kind \in WithBases
        <4>1. name \notin {"this", "super"} /\ InBases(c, name) = Nothing
          BY <2>2, <2>4, <2>5, <3>1
        <4> QED
          BY <2>7, <3>1, <4>1 DEF BeyondScope, WithBases
      <3>2. CASE c.kind \notin WithBases
        BY <2>7, <3>2 DEF BeyondScope
      <3> QED
        BY <3>1, <3>2
    <2>9. FromScope(start, name) = Nothing
      BY <2>6, <2>8 DEF FromScope, Or
    <2>10. OutwardsFrom(start, name) = OutwardsFrom(outer, name)
      BY <1>4, <2>9, OutwardsStep DEF Or, outer
    <2>11. OutwardsFrom(outer, name) = FromScope(outer, name)
      BY <2>3, <2>4, OutwardsStep DEF Or
    <2> QED
      BY <2>2, <2>4, <2>10, <2>11
  <1> QED
    BY <1>2, <1>3, <1>4, Zenon

(* The answer is what is offered where the cursor is, which is in the map.  *)
OfferInv ==
    /\ stage # "idle" => Mapped
    /\ stage \in {"ready", "answered"} => Holder \in DOMAIN defs
    /\ (stage = "answered" /\ CompletesName) => answer.items = ExprItems(Cursor)

LEMMA SameCursor ==
    ASSUME UNCHANGED <<defVars, bodyVars, request>>
    PROVE  /\ Holder' = Holder /\ (Holder \in DOMAIN defs)' = (Holder \in DOMAIN defs)
           /\ (CompletesName' <=> CompletesName) /\ ExprItems(Cursor)' = ExprItems(Cursor)
           /\ (Mapped' <=> Mapped)
  <1>1. UNCHANGED <<tree, program, file, unresolved, scopes, defs, astIds, owner, locals, request>>
    BY DEF defVars, idVars, mapVars, collectVars, bodyVars
  <1>2. Cursor' = Cursor
    BY <1>1 DEF Cursor
  <1>3. \A f, n : Outermost(f, n)' = Outermost(f, n)
    BY <1>1 DEF Outermost, ItemsAround
  <1>4. \A f, n : ContainerNode(f, n)' = ContainerNode(f, n)
    BY <1>3 DEF ContainerNode
  <1>5. \A f, n : ContainerAt(f, n)' = ContainerAt(f, n)
    BY <1>1, <1>4 DEF ContainerAt
  <1>6. Holder' = Holder /\ (Holder \in DOMAIN defs)' = (Holder \in DOMAIN defs)
    BY <1>1, <1>2, <1>5 DEF Holder
  <1>7. \A n : AccessAt(n)' = AccessAt(n)
    BY <1>1 DEF AccessAt, Gaps, IsAccess, Covers, End, Kind, Up
  <1>8. CompletesName' <=> CompletesName
    BY <1>1, <1>2, <1>7 DEF CompletesName
  <1>9. InBody' <=> InBody
    BY <1>1, <1>2, <1>4 DEF InBody
  <1>10. \A n : LocalItems(n)' = LocalItems(n)
    BY <1>1, <1>9 DEF LocalItems
  <1>11. \A s : ScopeItems(s)' = ScopeItems(s)
    BY <1>1 DEF ScopeItems
  <1>12. StartScope' = StartScope
    BY <1>1, <1>6 DEF StartScope
  <1>13. ExprItems(Cursor)' = ExprItems(Cursor)
    BY <1>2, <1>10, <1>11, <1>12 DEF ExprItems
  <1> QED
    BY <1>1, <1>6, <1>8, <1>13, SameMap

LEMMA OfferInvInductive == OfferInv /\ [RequestNext]_requestVars => OfferInv'
  <1> SUFFICES ASSUME OfferInv, [RequestNext]_requestVars
               PROVE  OfferInv'
    OBVIOUS
  <1>1. CASE Collect
    <2>1. stage = "idle" /\ stage' = "idle"
      BY <1>1 DEF Collect, OfferInv
    <2> QED
      BY <2>1 DEF OfferInv
  <1>2. CASE Ask
    <2>1. stage' \in {"building", "panicked"} /\ Mapped /\ UNCHANGED <<program, file, unresolved>>
      BY <1>2 DEF Ask, mapVars, collectVars
    <2> QED
      BY <2>1, SameMap DEF OfferInv
  <1>3. CASE BuildBody
    <2>1. stage = "building" /\ stage' = stage /\ UNCHANGED <<program, file, unresolved>>
      BY <1>3 DEF BuildBody, defVars, mapVars, collectVars
    <2> QED
      BY <2>1, SameMap DEF OfferInv
  <1>4. CASE BuildResolver
    <2>1. stage = "building" /\ UNCHANGED <<defVars, bodyVars, request>>
          /\ stage' = IF Holder \in DOMAIN defs THEN "ready" ELSE "panicked"
      BY <1>4 DEF BuildResolver
    <2> QED
      BY <2>1, SameCursor DEF OfferInv
  <1>5. CASE CompleteName
    <2>1. stage = "ready" /\ UNCHANGED <<defVars, bodyVars, request>> /\ stage' = "answered"
          /\ answer' = [sites |-> <<>>, items |-> ExprItems(Cursor)]
      BY <1>5 DEF CompleteName, Answer
    <2>2. answer'.items = ExprItems(Cursor)
      BY <2>1
    <2> QED
      BY <2>1, <2>2, SameCursor DEF OfferInv
  <1>6. CASE Reply
    <2>1. stage = "ready" /\ UNCHANGED <<defVars, bodyVars, request>> /\ ~CompletesName
          /\ stage' \in {"answered", "failed"}
      BY <1>6 DEF Reply
    <2> QED
      BY <2>1, SameCursor DEF OfferInv
  <1>7. CASE UNCHANGED requestVars
    <2>1. UNCHANGED <<defVars, bodyVars, request>> /\ stage' = stage /\ answer' = answer
      BY <1>7 DEF requestVars
    <2> QED
      BY <2>1, SameCursor DEF OfferInv
  <1> QED
    BY <1>1, <1>2, <1>3, <1>4, <1>5, <1>6, <1>7 DEF RequestNext

(* Completion offers what a name means where it is invoked, but for what a  *)
(* builtin or a member of a base hides (completion.rs:337).                 *)
THEOREM OffersWhatNamesMean == RequestSpec => []OfferedIsMeant
  <1>1. MapHolds /\ OfferInv => OfferedIsMeant
    <2> SUFFICES ASSUME MapHolds, OfferInv, Answered({"completion"}), AccessAt(Cursor) = None,
                        Here.container \in DOMAIN defs, NEW i \in answer.items,
                        i.def # Unowned, ~Hidden(i)
                 PROVE  MeansDef(ResolveName(Here, i.name, NoBodyScope, 0), i.def)
      BY DEF OfferedIsMeant
    <2>1. MapInv(scopes, defs) /\ Holder \in DOMAIN defs /\ i \in ExprItems(Cursor)
      BY DEF MapHolds, OfferInv, Answered, CompletesName
    <2>2. i \in ScopeItems(StartScope)
      BY <2>1 DEF ExprItems, LocalItems, ItemOf
    <2> DEFINE c == Here.container
               start == StartScope
    <2>3. start \in 1 .. Len(scopes) /\ scopes[start].owner = c /\ defs[c].child = start
      <3>1. CASE defs[Holder].child # NoScope
        <4>1. start = defs[Holder].child /\ c = Holder
          BY <3>1 DEF StartScope, Here
        <4> QED
          BY <2>1, <3>1, <4>1 DEF MapInv, OwnsChild
      <3>2. CASE defs[Holder].child = NoScope
        <4>1. start = defs[Holder].scope /\ c = scopes[start].owner
          BY <3>2 DEF StartScope, Here, R, ResolverFor
        <4> QED
          BY <2>1, <4>1 DEF MapInv, OwnersHave
      <3> QED
        BY <3>1, <3>2
    <2>4. /\ ~IsPrimitiveName(i.name) /\ GlobalMeaning(i.name) = Nothing
          /\ ~(/\ c.kind \in WithBases /\ defs[i.def].scope # start
               /\ i.name \in {"this", "super"} \/ InBases(c, i.name) # Nothing)
      BY <2>3 DEF Hidden
    <2>5. MeansDef(OutwardsFrom(start, i.name), i.def)
      BY <2>1, <2>2, <2>3, <2>4, OfferedMeans
    <2>6. ResolveName(Here, i.name, NoBodyScope, 0) = OutwardsFrom(start, i.name)
      BY <2>3, <2>4, NoLocalBeyondBodies DEF ResolveName, ResolveDef, Or
    <2> QED
      BY <2>5, <2>6
  <1>2. RequestInit => OfferInv
    BY DEF RequestInit, OfferInv
  <1> QED
    BY <1>1, <1>2, StartsMapped, MapHoldsInductive, OfferInvInductive, PTL DEF RequestSpec

-----------------------------------------------------------------------------
(* What the map leaves out.  A node is in its parent, and in what that is   *)
(* in.                                                                      *)
LEMMA AncestorStep ==
    ASSUME NEW t, Tree(t), NEW n \in DOMAIN t
    PROVE  Ancestors(t, n) = IF t[n].up = 0 THEN {} ELSE {t[n].up} \cup Ancestors(t, t[n].up)
  <1> DEFINE p == t[n].up
  <1>1. /\ n \in Nat \ {0} /\ p \in 0 .. n - 1 /\ n <= Len(t) /\ Len(t) \in Nat
        /\ \A k \in 1 .. n : t[k].up \in 0 .. k - 1
        /\ \A k \in p + 1 .. n - 1 : t[k].up >= p
    BY DEF Tree
  <1>2. ASSUME NEW m \in Ancestors(t, n)
        PROVE  p # 0 /\ (m = p \/ m \in Ancestors(t, p))
    <2>1. m \in 1 .. n - 1 /\ \A k \in m + 1 .. n : t[k].up >= m
      BY DEF Ancestors
    <2>2. p >= m
      BY <1>1, <2>1
    <2> QED
      BY <1>1, <2>1, <2>2 DEF Ancestors
  <1>3. ASSUME p # 0
        PROVE  p \in Ancestors(t, n) /\ \A m \in Ancestors(t, p) : m \in Ancestors(t, n)
    <2>1. \A k \in p + 1 .. n : t[k].up >= p /\ t[k].up \in Nat
      BY <1>1
    <2>2. p \in Ancestors(t, n)
      BY <1>1, <1>3, <2>1 DEF Ancestors
    <2>3. ASSUME NEW m \in Ancestors(t, p)
          PROVE  m \in Ancestors(t, n)
      <3>1. m \in 1 .. p - 1 /\ \A k \in m + 1 .. p : t[k].up >= m
        BY DEF Ancestors
      <3>2. \A k \in m + 1 .. n : t[k].up >= m
        BY <1>1, <2>1, <3>1
      <3> QED
        BY <1>1, <3>1, <3>2 DEF Ancestors
    <2> QED
      BY <2>2, <2>3
  <1> QED
    BY <1>2, <1>3

(* The nodes that have ids are those below nothing but items and bodies. *)
Sound(t, n) ==
    t[n].kind \in Supported /\ \A k \in Ancestors(t, n) : t[k].kind \in Supported

LEMMA IdsAreSound ==
    ASSUME NEW t, Tree(t), NEW N, Closed(t, N), NEW n \in DOMAIN t
    PROVE  n \in N <=> Sound(t, n)
  <1> DEFINE T == {k \in DOMAIN t : ~(k \in N <=> Sound(t, k))}
  <1>1. DOMAIN t \subseteq Nat \ {0} /\ T \in SUBSET Nat
    BY DEF Tree
  <1>2. ASSUME T # {}
        PROVE  FALSE
    <2>1. PICK m \in T : \A k \in T : m <= k
      <3> HIDE DEF T
      <3> QED
        BY <1>1, <1>2, LeastOf
    <2>2. m \in DOMAIN t /\ t[m].up \in 0 .. m - 1 /\ (t[m].up = 0 \/ t[m].up \in DOMAIN t) /\ m \in Nat
      BY DEF Tree
    <2>3. m \in N <=> t[m].kind \in Supported /\ t[m].up \in N
      BY <2>2 DEF Closed
    <2>4. CASE t[m].up = 0
      BY <2>2, <2>3, <2>4, AncestorStep DEF Sound, Closed
    <2>5. CASE t[m].up # 0
      <3>1. t[m].up \notin T
        BY <2>1, <2>2
      <3>2. t[m].up \in N <=> Sound(t, t[m].up)
        BY <2>2, <2>5, <3>1
      <3>3. Ancestors(t, m) = {t[m].up} \cup Ancestors(t, t[m].up)
        BY <2>2, <2>5, AncestorStep
      <3>4. Sound(t, m) <=> t[m].kind \in Supported /\ Sound(t, t[m].up)
        BY <3>3 DEF Sound
      <3> QED
        BY <2>2, <2>3, <3>2, <3>4
    <2> QED
      BY <2>4, <2>5
  <1> QED
    BY <1>2

LEMMA ItemsAreSound ==
    ASSUME NEW f, Tree(program[f]), NEW N, Closed(program[f], N),
           NEW m \in DOMAIN program[f], program[f][m].kind \in Items
    PROVE  m \in N <=> ~Misplaced(f, m)
  BY IdsAreSound DEF Sound, Misplaced, Supported

(* An item with an id is at the top, in a body there, or in the one body of *)
(* a container.                                                             *)
LEMMA WhereItemsAre ==
    ASSUME NEW t \in Trees, Tree(t), NEW N, Closed(t, N), NEW m \in N \ {0}, t[m].kind \in Items,
           t[m].up # 0
    PROVE  /\ t[m].up \in DOMAIN t /\ t[t[m].up].kind = "body" /\ t[m].kind # "import"
           /\ PlaceIn(t, m) = t[t[m].up].up
           /\ PlaceIn(t, m) # 0 =>
                /\ PlaceIn(t, m) \in DOMAIN t /\ t[PlaceIn(t, m)].kind \in Containers
                /\ \A k \in DOMAIN t : t[k].kind = "body" /\ t[k].up = PlaceIn(t, m) => k = t[m].up
  <1> DEFINE b == t[m].up
  <1>1. m \in DOMAIN t /\ b \in N /\ b \in DOMAIN t
    BY DEF Closed
  <1>2. t[b].kind \in Supported /\ t[b].up \in N
    BY <1>1 DEF Closed
  <1>3. t[b].kind = "body" /\ t[m].kind # "import"
    BY <1>1, <1>2, GrammarAssumption
  <1>4. PlaceIn(t, m) = t[b].up
    BY <1>3 DEF PlaceIn
  <1>5. ASSUME t[b].up # 0
        PROVE  /\ t[b].up \in DOMAIN t /\ t[t[b].up].kind \in Containers
               /\ \A k \in DOMAIN t : t[k].kind = "body" /\ t[k].up = t[b].up => k = b
    <2>1. t[b].up \in DOMAIN t /\ t[t[b].up].kind \in Supported
      BY <1>2, <1>5 DEF Closed
    <2> HIDE DEF b
    <2> QED
      BY <1>1, <1>3, <1>5, <2>1, GrammarAssumption
  <1> QED
    BY <1>1, <1>3, <1>4, <1>5

LEMMA KeptUnlessOmitted ==
    ASSUME NEW f, program[f] \in Trees, Tree(program[f]), NEW N, Closed(program[f], N),
           NEW m \in N \ {0}, program[f][m].kind \in Items
    PROVE  KeptIn(program[f], N, m) <=> ~Omitted(f, m)
  <1> DEFINE t == program[f]
             b == t[m].up
             c == PlaceIn(t, m)
             Whole == t[m].kind = "udvt" => "type" \in DOMAIN t[m]
  <1>1. m \in DOMAIN t /\ ~Misplaced(f, m)
    BY ItemsAreSound DEF Closed
  <1>2. t[m].kind # "body" /\ \A x \in Items : x # "body"
    BY DEF Items, Containers, Functions
  <1>3. KeptIn(t, N, m) <=>
          /\ Whole
          /\ \/ b = 0
             \/ t[m].kind \in MemberKinds /\ c # 0 /\ t[c].up = 0 /\ t[c].kind \in Containers
    BY DEF KeptIn
  <1>4. Omitted(f, m) <=>
          \/ \E k \in Ancestors(t, m) \cup {m} : InnerContainer(f, k) \/ LooseBody(f, k)
          \/ t[m].kind = "enum" /\ b # 0
          \/ ~Whole
    BY <1>1 DEF Omitted
  <1>5. CASE b = 0
    <2>1. Ancestors(t, m) = {}
      BY <1>1, <1>5, AncestorStep
    <2>2. ~InnerContainer(f, m) /\ ~LooseBody(f, m)
      BY <1>2, <1>5 DEF InnerContainer, LooseBody
    <2> QED
      BY <1>3, <1>4, <1>5, <2>1, <2>2
  <1>6. CASE b # 0
    <2>1. /\ b \in DOMAIN t /\ t[b].kind = "body" /\ t[m].kind # "import" /\ c = t[b].up
          /\ c # 0 => c \in DOMAIN t /\ t[c].kind \in Containers
      BY <1>6, WhereItemsAre
    <2>2. Ancestors(t, m) = {b} \cup Ancestors(t, b)
      BY <1>1, <1>6, AncestorStep
    <2>3. CASE c = 0
      <3>1. LooseBody(f, b)
        BY <2>1, <2>3 DEF LooseBody
      <3> QED
        BY <1>3, <1>4, <1>6, <2>2, <2>3, <3>1
    <2>4. CASE c # 0
      <3>1. Ancestors(t, b) = {c} \cup Ancestors(t, c) /\ c \in DOMAIN t /\ t[c].kind \in Containers
        BY <2>1, <2>4, AncestorStep
      <3>2. CASE t[c].up = 0
        <4>1. Ancestors(t, m) = {b, c}
          BY <2>2, <3>1, <3>2, AncestorStep
        <4>2. "body" \notin Containers /\ t[c].kind # "body"
          BY <3>1 DEF Containers
        <4>3. ~InnerContainer(f, b) /\ ~InnerContainer(f, c) /\ (InnerContainer(f, m) <=> t[m].kind \in Containers)
          BY <1>6, <2>1, <3>2, <4>2 DEF InnerContainer
        <4>4. ~LooseBody(f, m) /\ ~LooseBody(f, b) /\ ~LooseBody(f, c)
          BY <1>2, <2>1, <2>4, <4>2 DEF LooseBody
        <4>5. Omitted(f, m) <=> t[m].kind \in Containers \/ t[m].kind = "enum" \/ ~Whole
          BY <1>4, <1>6, <4>1, <4>3, <4>4
        <4>6. t[m].kind \in MemberKinds <=> ~(t[m].kind \in Containers \/ t[m].kind = "enum")
          BY <2>1 DEF MemberKinds
        <4> QED
          BY <1>3, <1>6, <2>4, <3>1, <3>2, <4>5, <4>6
      <3>3. CASE t[c].up # 0
        <4>1. InnerContainer(f, c)
          BY <3>1, <3>3 DEF InnerContainer
        <4> QED
          BY <1>3, <1>4, <1>6, <2>2, <3>1, <3>3, <4>1
      <3> QED
        BY <3>2, <3>3
    <2> QED
      BY <2>3, <2>4
  <1> QED
    BY <1>5, <1>6

(* Two items the map does not leave out are in one place if they have the   *)
(* same parent, and only then.                                              *)
LEMMA SamePlace ==
    ASSUME NEW t \in Trees, Tree(t), NEW N, Closed(t, N), NEW k, NEW m, KeptIn(t, N, k), KeptIn(t, N, m),
           k # 0, m # 0
    PROVE  PlaceIn(t, k) = PlaceIn(t, m) <=> t[k].up = t[m].up
  <1>1. k \in N \ {0} /\ m \in N \ {0} /\ t[k].kind \in Items /\ t[m].kind \in Items
    BY DEF KeptIn, MemberKinds
  <1>2. \A n : KeptIn(t, N, n) => (t[n].up = 0 <=> PlaceIn(t, n) = 0)
    BY DEF KeptIn, PlaceIn
  <1>3. ASSUME PlaceIn(t, k) = PlaceIn(t, m), t[k].up # 0
        PROVE  t[k].up = t[m].up
    <2>1. t[m].up # 0 /\ PlaceIn(t, m) # 0
      BY <1>2, <1>3
    <2>2. /\ t[k].up \in DOMAIN t /\ t[t[k].up].kind = "body"
          /\ PlaceIn(t, k) = t[t[k].up].up
      BY <1>1, <1>3, WhereItemsAre
    <2>3. \A n \in DOMAIN t : t[n].kind = "body" /\ t[n].up = PlaceIn(t, m) => n = t[m].up
      BY <1>1, <2>1, WhereItemsAre
    <2> QED
      BY <1>3, <2>2, <2>3
  <1>4. t[k].up = t[m].up => PlaceIn(t, k) = PlaceIn(t, m)
    BY DEF PlaceIn
  <1> QED
    BY <1>2, <1>3, <1>4

LEMMA TakenByRivals ==
    ASSUME NEW f, program[f] \in Trees, Tree(program[f]), NEW N, Closed(program[f], N),
           NEW m, m # 0, KeptIn(program[f], N, m)
    PROVE  TakenIn(program[f], N, m) <=> Taken(f, m)
  <1> DEFINE t == program[f]
  <1>1. m \in DOMAIN t /\ DOMAIN t = 1 .. Len(t) /\ Len(t) \in Nat
    BY DEF KeptIn, Closed, Tree
  <1>2. ASSUME NEW k \in 1 .. m - 1
        PROVE  k \in RivalsIn(t, N, m) <=> k \in Rivals(f, m)
    <2>1. k \in DOMAIN t /\ k < m /\ k # 0
      BY <1>1
    <2>2. /\ k \in RivalsIn(t, N, m) <=> SameNameIn(t, N, k, m)
          /\ k \in Rivals(f, m) <=> /\ t[k].up = t[m].up /\ t[k].name = t[m].name
                                    /\ t[k].kind \in Items \ Nameless /\ ~Omitted(f, k)
      BY <2>1 DEF RivalsIn, Rivals
    <2>3. KeptIn(t, N, k) <=> t[k].kind \in Items /\ ~Omitted(f, k)
      <3>1. KeptIn(t, N, k) => k \in N /\ t[k].kind \in Items
        BY DEF KeptIn, MemberKinds
      <3>2. t[k].kind \in Items /\ ~Omitted(f, k) => k \in N
        BY <2>1, ItemsAreSound DEF Omitted
      <3>3. k \in N /\ t[k].kind \in Items => (KeptIn(t, N, k) <=> ~Omitted(f, k))
        BY <2>1, KeptUnlessOmitted
      <3> QED
        BY <3>1, <3>2, <3>3
    <2>4. KeptIn(t, N, k) => (PlaceIn(t, k) = PlaceIn(t, m) <=> t[k].up = t[m].up)
      BY <2>1, SamePlace
    <2> QED
      BY <2>2, <2>3, <2>4 DEF SameNameIn, Unnamed, Nameless
  <1>3. RivalsIn(t, N, m) \subseteq 1 .. m - 1 /\ Rivals(f, m) \subseteq 1 .. m - 1
    BY <1>1 DEF RivalsIn, Rivals
  <1>4. RivalsIn(t, N, m) = Rivals(f, m)
    BY <1>2, <1>3
  <1>5. \A k : NamespaceOf(f, k) = SpaceIn(t, k)
    BY DEF NamespaceOf, SpaceIn
  <1> DEFINE T == Rivals(f, m)
             Clash(k) == SpaceIn(t, k) # SpaceIn(t, m) \/ SpaceIn(t, m) \in NoOverloads
  <1>6. TakenIn(t, N, m) <=> t[m].kind \notin Nameless /\ \E k \in T : (\A j \in T : k <= j) /\ Clash(k)
    BY <1>4 DEF TakenIn, Unnamed, Nameless
  <1>7. Taken(f, m) <=> t[m].kind \notin Nameless /\ T # {} /\ Clash(Min(T))
    BY <1>5 DEF Taken, NoOverloads
  <1>8. T # {} => Min(T) \in T /\ (\A j \in T : Min(T) <= j)
    <2>1. T \in SUBSET Nat
      BY <1>3
    <2> HIDE DEF T
    <2> QED
      BY <2>1, MinIs
  <1>9. \A k \in T : (\A j \in T : k <= j) => k = Min(T)
    <2>1. T \subseteq Nat
      BY <1>3
    <2> HIDE DEF T
    <2> SUFFICES ASSUME NEW k \in T, \A j \in T : k <= j
                 PROVE  k = Min(T)
      OBVIOUS
    <2>2. Min(T) \in T /\ Min(T) <= k /\ k <= Min(T)
      BY <1>8
    <2>3. Min(T) \in Nat /\ k \in Nat
      BY <2>1, <2>2
    <2> QED
      BY <2>2, <2>3
  <1> HIDE DEF T, Clash
  <1> QED
    BY <1>6, <1>7, <1>8, <1>9

(* The files are mapped as FilesAreMapped says when requests are made. *)
FilesHold ==
    /\ program \in Programs
    /\ Mapped => FilesMapped /\ file = Len(program) + 1
    /\ ~Mapped => MapsFiles

LEMMA StartsInFilesHold == RequestInit => FilesHold
  <1> SUFFICES ASSUME RequestInit
               PROVE  FilesHold
    OBVIOUS
  <1>1. program \in Programs /\ file = 1 /\ MapsFiles
    BY StartsInMapsFiles DEF RequestInit, DefInit
  <1>2. ~Mapped
    BY <1>1, FilesAreTrees DEF Mapped, AllCollected
  <1> QED
    BY <1>1, <1>2 DEF FilesHold

LEMMA FilesHoldInductive == MapHolds /\ FilesHold /\ [RequestNext]_requestVars => FilesHold'
  <1> SUFFICES ASSUME MapHolds, FilesHold, [RequestNext]_requestVars
               PROVE  FilesHold'
    OBVIOUS
  <1>1. CASE Mapped
    <2>1. UNCHANGED <<program, file, unresolved, astIds, defs>>
      BY <1>1 DEF RequestNext, Collect, Ask, BuildBody, BuildResolver, CompleteName, Reply, Answer, requestVars,
                  Fail, defVars, mapVars, collectVars
    <2>2. file \in Nat /\ Mapped'
      BY <1>1, <2>1, SameMap, FilesAreTrees DEF FilesHold
    <2>3. FilesMapped'
      BY <1>1, <2>1, <2>2, FilesStayMapped DEF FilesHold
    <2> QED
      BY <1>1, <2>1, <2>2, <2>3 DEF FilesHold
  <1>2. CASE ~Mapped
    <2>1. [DefNext]_defVars
      BY <1>2 DEF RequestNext, Collect, Ask, BuildBody, BuildResolver, CompleteName, Reply, Answer, requestVars
    <2>2. IInv /\ Collected /\ DInv /\ MapsFiles
      BY <1>2 DEF MapHolds, FilesHold
    <2>3. MapsFiles' /\ DInv'
      BY <2>1, <2>2, MapsFilesInductive, DInvInductive
    <2>4. program' = program
      BY <2>1, ProgramStays DEF defVars, collectVars
    <2>5. Mapped' => file' = Len(program') + 1
      BY <2>3, <2>4, FilesAreTrees DEF DInv, Progress, Mapped, AllCollected, FilesHold
    <2> QED
      BY <2>3, <2>4, <2>5 DEF FilesHold, MapsFiles
  <1> QED
    BY <1>1, <1>2

(* Where a request is: it goes on while what it is about is found. *)
Wanted == Identified(request.file, Cursor)
StageInv ==
    /\ request.file \in DOMAIN program
    /\ stage # "idle" => Mapped /\ Cursor \in DOMAIN program[request.file]
    /\ stage \in {"building", "ready", "answered", "failed"} => Wanted
    /\ stage \in {"ready", "answered", "failed"} => Holder \in DOMAIN defs
    /\ stage = "panicked" => ~Wanted \/ Holder \notin DOMAIN defs

LEMMA SameWanted ==
    ASSUME UNCHANGED <<defVars, bodyVars, request>>
    PROVE  /\ Holder' = Holder /\ (Holder \in DOMAIN defs)' = (Holder \in DOMAIN defs)
           /\ (Wanted' <=> Wanted) /\ Cursor' = Cursor /\ program' = program /\ (Mapped' <=> Mapped)
  <1>1. UNCHANGED <<program, astIds>>
    BY DEF defVars, collectVars
  <1>2. Cursor' = Cursor
    BY DEF Cursor
  <1>3. \A f, n : Outermost(f, n)' = Outermost(f, n)
    BY <1>1 DEF Outermost, ItemsAround
  <1>4. Wanted' <=> Wanted
    BY <1>1, <1>2, <1>3 DEF Wanted, Identified
  <1> QED
    BY <1>1, <1>2, <1>4, SameCursor

LEMMA AskKeepsStageInv ==
    ASSUME StageInv, Ask
    PROVE  StageInv'
  <1>0. PICK f \in DOMAIN program : \E n \in DOMAIN program[f] :
          /\ \E method \in Methods : request' = [method |-> method, file |-> f, node |-> n]
          /\ stage' = IF Identified(f, n) THEN "building" ELSE "panicked"
    BY DEF Ask
  <1>1. PICK n \in DOMAIN program[f] :
          /\ request'.file = f /\ request'.node = n
          /\ stage' = IF Identified(f, n) THEN "building" ELSE "panicked"
    BY <1>0
  <1>2. UNCHANGED <<program, file, unresolved, astIds>> /\ Mapped
    BY DEF Ask, mapVars, collectVars
  <1>3. Mapped' /\ Cursor' = n
    BY <1>1, <1>2, SameMap DEF Cursor
  <1>4. \A g, k : Outermost(g, k)' = Outermost(g, k)
    BY <1>2 DEF Outermost, ItemsAround
  <1>5. Wanted' <=> Identified(f, n)
    BY <1>1, <1>2, <1>3, <1>4 DEF Wanted, Identified
  <1> QED
    BY <1>1, <1>2, <1>3, <1>5 DEF StageInv

LEMMA StageInvInductive == StageInv /\ [RequestNext]_requestVars => StageInv'
  <1> SUFFICES ASSUME StageInv, [RequestNext]_requestVars
               PROVE  StageInv'
    OBVIOUS
  <1>1. CASE Collect
    <2>1. stage = "idle" /\ stage' = "idle" /\ program' = program /\ request' = request
      BY <1>1, ProgramStays DEF Collect, StageInv
    <2> QED
      BY <2>1 DEF StageInv
  <1>2. CASE Ask
    BY <1>2, AskKeepsStageInv
  <1>3. CASE BuildBody
    <2>1. stage = "building" /\ stage' = stage /\ UNCHANGED <<program, file, unresolved, astIds, request>>
      BY <1>3 DEF BuildBody, defVars, mapVars, collectVars
    <2>2. Cursor' = Cursor /\ \A f, n : Outermost(f, n)' = Outermost(f, n)
      BY <2>1 DEF Cursor, Outermost, ItemsAround
    <2>3. Wanted' <=> Wanted
      BY <2>1, <2>2 DEF Wanted, Identified
    <2> QED
      BY <2>1, <2>2, <2>3, SameMap DEF StageInv
  <1>4. CASE BuildResolver
    <2>1. stage = "building" /\ UNCHANGED <<defVars, bodyVars, request>>
          /\ stage' = IF Holder \in DOMAIN defs THEN "ready" ELSE "panicked"
      BY <1>4 DEF BuildResolver
    <2> QED
      BY <2>1, SameWanted DEF StageInv
  <1>5. CASE CompleteName \/ Reply \/ UNCHANGED requestVars
    <2>1. /\ UNCHANGED <<defVars, bodyVars, request>>
          /\ stage' = stage \/ (stage = "ready" /\ stage' \in {"answered", "failed"})
      BY <1>5 DEF CompleteName, Reply, Answer, requestVars
    <2> QED
      BY <2>1, SameWanted DEF StageInv
  <1> QED
    BY <1>1, <1>2, <1>3, <1>4, <1>5 DEF RequestNext

(* The container of a request is found unless the text leaves it out. *)
LEMMA FoundUnlessLeftOut ==
    ASSUME FilesHold, Mapped, NEW f \in DOMAIN program, NEW n \in DOMAIN program[f]
    PROVE  LET c == ContainerNode(f, n)
           IN Identified(f, n) /\ ContainerAt(f, n) \in DOMAIN defs
              <=> ~ \/ \E m \in Outermost(f, n) : Misplaced(f, m)
                    \/ c # 0 /\ (Omitted(f, c) \/ Taken(f, c))
  <1> DEFINE t == program[f]
             c == ContainerNode(f, n)
             N == DOMAIN astIds[f]
  <1>1. t \in Trees /\ Tree(t) /\ f \in 1 .. Len(program) /\ Len(program) \in Nat
    BY FilesAreTrees DEF FilesHold
  <1>2. FileMapped(f, t, astIds[f])
    BY <1>1 DEF FilesHold, FilesMapped
  <1>3. Closed(t, N) /\ FileDef(f) \in DOMAIN defs
    BY <1>2 DEF FileMapped
  <1>4. \A m \in Outermost(f, n) : m \in DOMAIN t /\ t[m].kind \in Items
    BY <1>1 DEF Outermost, ItemsAround, Ancestors, Tree
  <1>5. Identified(f, n) <=> ~ \E m \in Outermost(f, n) : Misplaced(f, m)
    BY <1>1, <1>3, <1>4, ItemsAreSound DEF Identified
  <1>6. CASE c = 0
    BY <1>3, <1>5, <1>6 DEF ContainerAt
  <1>7. CASE c # 0
    <2>1. c \in Outermost(f, n) /\ c \in DOMAIN t /\ t[c].kind \in Items
      BY <1>1, <1>4, <1>7, ContainerNodeIs
    <2>2. CASE Identified(f, n)
      <3>1. c \in N
        BY <2>1, <2>2 DEF Identified
      <3>2. ContainerAt(f, n) = DefIn(f, t, astIds[f], c)
        BY <1>7 DEF ContainerAt, DefIn
      <3>3. ContainerAt(f, n) \in DOMAIN defs <=> KeptIn(t, N, c) /\ ~TakenIn(t, N, c)
        BY <1>2, <2>1, <3>1, <3>2 DEF FileMapped
      <3>4. KeptIn(t, N, c) <=> ~Omitted(f, c)
        BY <1>1, <1>3, <1>7, <2>1, <3>1, KeptUnlessOmitted
      <3>5. KeptIn(t, N, c) => (TakenIn(t, N, c) <=> Taken(f, c))
        BY <1>1, <1>3, <1>7, TakenByRivals
      <3> QED
        BY <1>5, <1>7, <2>2, <3>3, <3>4, <3>5
    <2> QED
      BY <1>5, <2>2
  <1> QED
    BY <1>6, <1>7

(* A request panics just when the cursor is in a definition that the map    *)
(* leaves out, which the text alone tells (resolver.rs:182, db.rs:33).      *)
THEOREM PanicsNarrowly == RequestSpec => []BuildPanicsNarrow
  <1>1. FilesHold /\ StageInv => BuildPanicsNarrow
    <2> SUFFICES ASSUME FilesHold, StageInv, stage \in {"ready", "answered", "failed", "panicked"}
                 PROVE  LET f == request.file
                            n == ContainerNode(f, Cursor)
                        IN stage = "panicked" <=>
                              \/ \E m \in Outermost(f, Cursor) : Misplaced(f, m)
                              \/ n # 0 /\ (Omitted(f, n) \/ Taken(f, n))
      BY DEF BuildPanicsNarrow
    <2>1. Mapped /\ request.file \in DOMAIN program /\ Cursor \in DOMAIN program[request.file]
      BY DEF StageInv
    <2>2. stage = "panicked" <=> ~(Wanted /\ Holder \in DOMAIN defs)
      BY DEF StageInv
    <2> QED
      BY <2>1, <2>2, FoundUnlessLeftOut DEF Wanted, Holder
  <1>2. RequestInit => StageInv
    <2> SUFFICES ASSUME RequestInit
                 PROVE  StageInv
      OBVIOUS
    <2>1. program \in Programs /\ request.file = 1 /\ stage = "idle"
      BY DEF RequestInit, DefInit, NoRequest
    <2> QED
      BY <2>1, FilesAreTrees DEF StageInv
  <1> QED
    BY <1>1, <1>2, StartsMapped, StartsInFilesHold, MapHoldsInductive, FilesHoldInductive, StageInvInductive, PTL
       DEF RequestSpec
=============================================================================
