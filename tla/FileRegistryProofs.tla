------------------------- MODULE FileRegistryProofs -------------------------
(***************************************************************************)
(* Proofs about discovery (PackageGraph) and the registry (FileRegistry),  *)
(* for any worlds.                                                         *)
(***************************************************************************)
EXTENDS FileRegistry, FiniteSetTheorems, SequenceTheorems, TLAPS

-----------------------------------------------------------------------------
(* Numbers, sets and sequences. *)

LEMMA Least ==
    ASSUME NEW T \in SUBSET Nat, T # {}
    PROVE  \E n \in T : \A m \in T : n <= m
  <1> DEFINE F == {1 .. n : n \in T}
             R == StrictSubsetOrdering(Nat)
  <1>1. F \subseteq FiniteSubsetsOf(Nat) /\ F # {}
    <2> SUFFICES ASSUME NEW n \in T
                 PROVE  IsFiniteSet(1 .. n) /\ 1 .. n \in SUBSET Nat
      BY DEF FiniteSubsetsOf
    <2> QED
      BY FS_Interval
  <1>2. IsWellFoundedOn(R, FiniteSubsetsOf(Nat))
    BY FS_StrictSubsetOrderingWellFounded
  <1>3. \E x \in F : \A y \in F : <<y, x>> \notin R
    <2> HIDE DEF F, R
    <2> QED
      BY <1>1, <1>2, WFMin
  <1>4. PICK n \in T : \A y \in F : <<y, 1 .. n>> \notin R
    BY <1>3
  <1>5. ASSUME NEW m \in T, m < n
        PROVE  FALSE
    <2>1. 1 .. m \in F /\ 1 .. m \in SUBSET Nat /\ 1 .. n \in SUBSET Nat
      <3>1. 1 .. m \in F
        OBVIOUS
      <3>2. m \in Nat /\ n \in Nat
        OBVIOUS
      <3> HIDE DEF F, R
      <3>3. 1 .. m \in SUBSET Nat /\ 1 .. n \in SUBSET Nat
        BY <3>2
      <3> QED
        BY <3>1, <3>3
    <2>2. 1 .. m \subseteq 1 .. n /\ n \in 1 .. n /\ n \notin 1 .. m
      BY <1>5
    <2>3. <<1 .. m, 1 .. n>> \in R
      BY <2>1, <2>2 DEF StrictSubsetOrdering
    <2> QED
      BY <1>4, <2>1, <2>3
  <1> QED
    BY <1>5

LEMMA Greatest ==
    ASSUME NEW b \in Nat, NEW T \in SUBSET (0 .. b), T # {}
    PROVE  \E n \in T : \A m \in T : m <= n
  <1> DEFINE U == {b - n : n \in T}
  <1>1. U \in SUBSET Nat /\ U # {}
    <2>1. \A n \in T : n \in 0 .. b /\ b - n \in Nat
      OBVIOUS
    <2>2. PICK n \in T : TRUE
      OBVIOUS
    <2>3. b - n \in U
      OBVIOUS
    <2> QED
      BY <2>1, <2>3
  <1>2. PICK u \in U : \A v \in U : u <= v
    <2> HIDE DEF U
    <2> QED
      BY <1>1, Least
  <1>3. PICK n \in T : u = b - n
    OBVIOUS
  <1>4. \A m \in T : b - m \in U
    OBVIOUS
  <1>5. \A m \in T : m \in 0 .. b
    OBVIOUS
  <1> HIDE DEF U
  <1> QED
    BY <1>2, <1>3, <1>4, <1>5

(* What holds of 0 and is handed on up to b, holds up to b. *)
LEMMA HandedOn ==
    ASSUME NEW b \in Nat, NEW T, 0 \in T,
           \A n \in Nat : n < b /\ n \in T => n + 1 \in T
    PROVE  \A n \in 0 .. b : n \in T
  <1> DEFINE U == {n \in 0 .. b : n \notin T}
  <1> SUFFICES ASSUME U # {}
               PROVE  FALSE
    OBVIOUS
  <1>1. PICK n \in U : \A m \in U : n <= m
    <2>1. U \in SUBSET Nat
      OBVIOUS
    <2> HIDE DEF U
    <2> QED
      BY <2>1, Least
  <1>2. n # 0 /\ n \in 0 .. b /\ n \notin T
    OBVIOUS
  <1>3. n - 1 \in Nat /\ n - 1 < b /\ n - 1 + 1 = n /\ n - 1 < n
    BY <1>2
  <1>4. n - 1 \in T
    BY <1>1, <1>2, <1>3
  <1> QED
    BY <1>2, <1>3, <1>4

LEMMA Joined ==
    ASSUME NEW S, NEW p \in Seq(S), NEW q \in Seq(S), NEW a, Len(p) = a, NEW b, Len(q) = b
    PROVE  /\ p \o q \in [1 .. a + b -> S]
           /\ \A i \in 1 .. a : (p \o q)[i] = p[i]
           /\ \A i \in 1 .. b : (p \o q)[a + i] = q[i]
  <1>1. /\ p \o q \in Seq(S) /\ Len(p \o q) = a + b /\ a \in Nat /\ b \in Nat
        /\ \A i \in 1 .. a + b : (p \o q)[i] = IF i <= a THEN p[i] ELSE q[i - a]
    BY ConcatProperties
  <1>2. p \o q \in [1 .. a + b -> S]
    BY <1>1, LenProperties
  <1>3. \A i \in 1 .. a : i \in 1 .. a + b
    BY <1>1
  <1>4. \A i \in 1 .. b : a + i \in 1 .. a + b /\ ~(a + i <= a) /\ a + i - a = i
    BY <1>1
  <1> QED
    BY <1>1, <1>2, <1>3, <1>4

(* An order of a finite set has every element once. *)
LEMMA OrderHasAll ==
    ASSUME NEW S, IsFiniteSet(S), NEW s \in SetToSeqs(S)
    PROVE  /\ s \in Seq(S) /\ Len(s) = Cardinality(S) /\ Len(s) \in Nat
           /\ \A i, j \in 1 .. Len(s) : s[i] = s[j] => i = j
           /\ \A x \in S : \E i \in 1 .. Len(s) : s[i] = x
  <1> DEFINE n == Cardinality(S)
  <1>1. n \in Nat
    BY FS_CardinalityType
  <1>2. s \in [1 .. n -> S] /\ \A i, j \in 1 .. n : i # j => s[i] # s[j]
    BY DEF SetToSeqs
  <1> HIDE DEF n
  <1>3. s \in Seq(S) /\ Len(s) = n
    BY <1>1, <1>2
  <1>4. s \in Injection(1 .. n, S)
    BY <1>2 DEF Injection, IsInjective
  <1>5. Cardinality(1 .. n) = n
    <2>1. 1 \in Int /\ n \in Int /\ (1 > n => n = 0) /\ n - 1 + 1 = n
      BY <1>1
    <2> QED
      BY <2>1, FS_Interval
  <1>6. s \in Surjection(1 .. n, S)
    BY <1>4, <1>5, FS_Injection DEF n
  <1>7. \A x \in S : \E i \in 1 .. n : s[i] = x
    BY <1>6 DEF Surjection
  <1> QED
    BY <1>1, <1>2, <1>3, <1>7 DEF n

(* A finite set can be put in the order of a rank. *)
LEMMA RankedOrder ==
    ASSUME NEW S, IsFiniteSet(S), NEW rank \in [S -> Nat]
    PROVE  \E s \in SetToSeqs(S) : \A i, j \in DOMAIN s : i < j => rank[s[i]] <= rank[s[j]]
  <1> DEFINE InOrder(s) == \A i, j \in DOMAIN s : i < j => rank[s[i]] <= rank[s[j]]
             T == {n \in Nat : \A U \in SUBSET S : Cardinality(U) = n =>
                                  \E s \in SetToSeqs(U) : InOrder(s)}
  <1>1. 0 \in T
    <2> SUFFICES ASSUME NEW U \in SUBSET S, Cardinality(U) = 0
                 PROVE  \E s \in SetToSeqs(U) : InOrder(s)
      OBVIOUS
    <2>1. U = {}
      BY FS_Subset, FS_EmptySet
    <2> DEFINE s == [i \in 1 .. 0 |-> 0]
    <2>2. DOMAIN s = {}
      OBVIOUS
    <2>3. s \in [1 .. Cardinality(U) -> U]
      BY <2>2
    <2> HIDE DEF s
    <2>4. s \in SetToSeqs(U)
      BY <2>2, <2>3 DEF SetToSeqs
    <2> QED
      BY <2>2, <2>4
  <1>2. ASSUME NEW n \in Nat, n \in T
        PROVE  n + 1 \in T
    <2> SUFFICES ASSUME NEW U \in SUBSET S, Cardinality(U) = n + 1
                 PROVE  \E s \in SetToSeqs(U) : InOrder(s)
      OBVIOUS
    <2>1. IsFiniteSet(U) /\ U # {}
      BY FS_Subset, FS_EmptySet
    <2>2. PICK x \in U : \A y \in U : rank[x] <= rank[y]
      <3> DEFINE R == {rank[y] : y \in U}
      <3>1. R \in SUBSET Nat /\ R # {}
        BY <2>1
      <3> HIDE DEF R
      <3>2. PICK r \in R : \A q \in R : r <= q
        BY <3>1, Least
      <3> QED
        BY <3>2 DEF R
    <2>3. Cardinality(U \ {x}) = n
      <3>1. Cardinality(U \ {x}) = Cardinality(U) - 1
        BY <2>1, FS_RemoveElement
      <3> QED
        BY <3>1
    <2>4. PICK s \in SetToSeqs(U \ {x}) : InOrder(s)
      BY <1>2, <2>3
    <2>5. /\ s \in [1 .. n -> U \ {x}]
          /\ \A i, j \in 1 .. n : i # j => s[i] # s[j]
      BY <2>3 DEF SetToSeqs
    <2> DEFINE t == [i \in 1 .. n + 1 |-> IF i = 1 THEN x ELSE s[i - 1]]
    <2>6. \A i \in 1 .. n + 1 : i = 1 \/ i - 1 \in 1 .. n
      OBVIOUS
    <2>7. t \in SetToSeqs(U)
      <3>1. t \in [1 .. n + 1 -> U]
        BY <2>5, <2>6
      <3>2. ASSUME NEW i \in 1 .. n + 1, NEW j \in 1 .. n + 1, i # j
            PROVE  t[i] # t[j]
        <4>1. CASE i = 1
          <5>1. j - 1 \in 1 .. n /\ j # 1
            BY <4>1, <3>2, <2>6
          <5> QED
            BY <4>1, <5>1, <2>5
        <4>2. CASE j = 1
          <5>1. i - 1 \in 1 .. n /\ i # 1
            BY <4>2, <3>2, <2>6
          <5> QED
            BY <4>2, <5>1, <2>5
        <4>3. CASE i # 1 /\ j # 1
          <5>1. i - 1 \in 1 .. n /\ j - 1 \in 1 .. n /\ i - 1 # j - 1
            BY <4>3, <3>2
          <5> QED
            BY <4>3, <5>1, <2>5
        <4> QED
          BY <4>1, <4>2, <4>3
      <3> HIDE DEF t
      <3> QED
        BY <3>1, <3>2 DEF SetToSeqs
    <2>8. ASSUME NEW i \in 1 .. n + 1, NEW j \in 1 .. n + 1, i < j
          PROVE  rank[t[i]] <= rank[t[j]]
      <3>1. j - 1 \in 1 .. n /\ j # 1 /\ t[j] = s[j - 1] /\ t[j] \in U
        BY <2>5, <2>6, <2>8
      <3>2. CASE i = 1
        BY <3>1, <3>2, <2>2
      <3>3. CASE i # 1
        <4>1. i - 1 \in 1 .. n /\ i - 1 < j - 1 /\ t[i] = s[i - 1]
          BY <3>3, <2>8
        <4>2. DOMAIN s = 1 .. n
          BY <2>5
        <4> HIDE DEF t
        <4> QED
          BY <3>1, <4>1, <4>2, <2>4
      <3> QED
        BY <3>2, <3>3
    <2>9. DOMAIN t = 1 .. n + 1
      OBVIOUS
    <2> HIDE DEF t
    <2> QED
      BY <2>7, <2>8, <2>9
  <1> HIDE DEF T
  <1>3. Cardinality(S) \in Nat
    BY FS_CardinalityType
  <1>4. Cardinality(S) \in T
    <2>1. Cardinality(S) \in 0 .. Cardinality(S)
      BY <1>3
    <2> QED
      BY <1>1, <1>2, <1>3, <2>1, HandedOn
  <1> QED
    BY <1>4 DEF T

Has(s, x) == \E i \in 1 .. Len(s) : s[i] = x

(* W filters the first b elements of s, step by step, as Without does. *)
Filters(W, s, S, b) ==
    W = [n \in 0 .. b |-> IF n = 0 THEN <<>>
                          ELSE IF s[n] \in S THEN W[n - 1] ELSE Append(W[n - 1], s[n])]

LEMMA FilterExists ==
    ASSUME NEW E, NEW s \in Seq(E), NEW S
    PROVE  \E W \in [0 .. Len(s) -> Seq(E)] : Filters(W, s, S, Len(s))
  <1> DEFINE T == {b \in Nat : b <= Len(s) => \E W \in [0 .. b -> Seq(E)] : Filters(W, s, S, b)}
  <1>1. 0 \in T
    <2> DEFINE W == [n \in 0 .. 0 |-> <<>>]
    <2>1. W \in [0 .. 0 -> Seq(E)] /\ \A n \in 0 .. 0 : n = 0
      OBVIOUS
    <2>2. Filters(W, s, S, 0)
      BY <2>1 DEF Filters
    <2> QED
      BY <2>1, <2>2
  <1>2. ASSUME NEW b \in Nat, b < Len(s), b \in T
        PROVE  b + 1 \in T
    <2>1. PICK V \in [0 .. b -> Seq(E)] : Filters(V, s, S, b)
      BY <1>2
    <2> DEFINE e == s[b + 1]
               last == IF e \in S THEN V[b] ELSE Append(V[b], e)
               W == [n \in 0 .. b + 1 |-> IF n <= b THEN V[n] ELSE last]
    <2>2. e \in E /\ V[b] \in Seq(E)
      BY <1>2
    <2>3. last \in Seq(E)
      BY <2>2
    <2>4. \A n \in 0 .. b + 1 : (n <= b /\ n \in 0 .. b) \/ (n = b + 1 /\ ~(n <= b) /\ n # 0)
      OBVIOUS
    <2>5. \A n \in 0 .. b : V[n] = IF n = 0 THEN <<>>
                                   ELSE IF s[n] \in S THEN V[n - 1] ELSE Append(V[n - 1], s[n])
      BY <2>1 DEF Filters
    <2>6. W \in [0 .. b + 1 -> Seq(E)]
      <3> HIDE DEF last
      <3> QED
        BY <2>3, <2>4
    <2>7. \A n \in 0 .. b : W[n] = V[n]
      OBVIOUS
    <2>8. W[b + 1] = last
      OBVIOUS
    <2>9. ASSUME NEW n \in 0 .. b + 1
          PROVE  W[n] = IF n = 0 THEN <<>>
                        ELSE IF s[n] \in S THEN W[n - 1] ELSE Append(W[n - 1], s[n])
      <3>1. CASE n <= b
        <4>1. n \in 0 .. b /\ (n # 0 => n - 1 \in 0 .. b)
          BY <3>1
        <4> HIDE DEF W
        <4> QED
          BY <4>1, <2>5, <2>7
      <3>2. CASE n = b + 1
        <4>1. n # 0 /\ n - 1 = b /\ b \in 0 .. b
          BY <3>2
        <4>2. W[n - 1] = V[b]
          BY <4>1, <2>7
        <4> HIDE DEF W
        <4> QED
          BY <3>2, <4>1, <4>2, <2>8
      <3> QED
        BY <3>1, <3>2
    <2>10. Filters(W, s, S, b + 1)
      <3>1. W = [n \in 0 .. b + 1 |-> W[n]]
        OBVIOUS
      <3> HIDE DEF W
      <3> QED
        BY <2>9, <3>1 DEF Filters
    <2> HIDE DEF W
    <2> QED
      BY <2>6, <2>10
  <1> HIDE DEF T
  <1>3. Len(s) \in Nat /\ Len(s) \in 0 .. Len(s)
    OBVIOUS
  <1>4. Len(s) \in T
    BY <1>1, <1>2, <1>3, HandedOn
  <1> QED
    BY <1>3, <1>4 DEF T

(* What is left of a sequence are those of its elements that are not in S.  *)
LEMMA WithoutKeepsRest ==
    ASSUME NEW E, NEW s \in Seq(E), NEW S
    PROVE  /\ Without(s, S) \in Seq(E)
           /\ \A x : Has(Without(s, S), x) <=> x \notin S /\ Has(s, x)
  <1> DEFINE W == CHOOSE V : Filters(V, s, S, Len(s))
  <1>1. Without(s, S) = W[Len(s)]
    BY DEF Without, Filters
  <1>2. Filters(W, s, S, Len(s))
    BY FilterExists
  <1> HIDE DEF W
  <1>3. \A n \in 0 .. Len(s) : W[n] = IF n = 0 THEN <<>>
                                     ELSE IF s[n] \in S THEN W[n - 1] ELSE Append(W[n - 1], s[n])
    BY <1>2 DEF Filters
  <1> DEFINE Left(n) == /\ W[n] \in Seq(E)
                        /\ \A x : (\E i \in 1 .. Len(W[n]) : W[n][i] = x)
                                  <=> x \notin S /\ \E k \in 1 .. n : s[k] = x
             T == {n \in Nat : n <= Len(s) => Left(n)}
  <1>4. 0 \in T
    <2> DEFINE w == W[0]
    <2>1. w = <<>>
      BY <1>3
    <2>2. \A k : k \notin 1 .. 0
      OBVIOUS
    <2> HIDE DEF w
    <2>3. w \in Seq(E) /\ Len(w) = 0
      BY <2>1
    <2>4. \A x : (\E i \in 1 .. Len(w) : w[i] = x) <=> x \notin S /\ \E k \in 1 .. 0 : s[k] = x
      BY <2>2, <2>3
    <2> QED
      BY <2>3, <2>4 DEF w
  <1>5. ASSUME NEW n \in Nat, n < Len(s), n \in T
        PROVE  n + 1 \in T
    <2>1. Left(n)
      BY <1>5
    <2>2. W[n + 1] = IF s[n + 1] \in S THEN W[n] ELSE Append(W[n], s[n + 1])
      BY <1>3, <1>5
    <2>3. s[n + 1] \in E
      BY <1>5
    <2>4. \A k : k \in 1 .. n + 1 <=> k \in 1 .. n \/ k = n + 1
      OBVIOUS
    <2> SUFFICES Left(n + 1)
      OBVIOUS
    <2>5. CASE s[n + 1] \in S
      <3>1. W[n + 1] = W[n]
        BY <2>2, <2>5
      <3>2. \A x : x \notin S =>
              ((\E k \in 1 .. n + 1 : s[k] = x) <=> (\E k \in 1 .. n : s[k] = x))
        BY <2>4, <2>5
      <3> QED
        BY <2>1, <3>1, <3>2
    <2>6. CASE s[n + 1] \notin S
      <3> DEFINE w == W[n]
                 e == s[n + 1]
      <3>1. w \in Seq(E) /\ e \in E /\ W[n + 1] = Append(w, e)
        BY <2>1, <2>2, <2>3, <2>6
      <3> HIDE DEF w, e
      <3>2. /\ Append(w, e) \in Seq(E) /\ Len(Append(w, e)) = Len(w) + 1 /\ Len(w) \in Nat
            /\ \A i \in 1 .. Len(w) : Append(w, e)[i] = w[i]
            /\ Append(w, e)[Len(w) + 1] = e
        BY <3>1
      <3>3. \A i : i \in 1 .. Len(w) + 1 <=> i \in 1 .. Len(w) \/ i = Len(w) + 1
        BY <3>2
      <3>4. \A x : (\E i \in 1 .. Len(Append(w, e)) : Append(w, e)[i] = x)
                   <=> (\E i \in 1 .. Len(w) : w[i] = x) \/ x = e
        BY <3>2, <3>3
      <3>5. \A x : (\E i \in 1 .. Len(w) : w[i] = x) <=> x \notin S /\ \E k \in 1 .. n : s[k] = x
        BY <2>1 DEF w
      <3>6. \A x : (\E k \in 1 .. n + 1 : s[k] = x) <=> (\E k \in 1 .. n : s[k] = x) \/ x = e
        BY <2>4 DEF e
      <3>7. e \notin S
        BY <2>6 DEF e
      <3>8. \A x : (\E i \in 1 .. Len(Append(w, e)) : Append(w, e)[i] = x)
                   <=> x \notin S /\ \E k \in 1 .. n + 1 : s[k] = x
        BY <3>4, <3>5, <3>6, <3>7
      <3> QED
        BY <3>1, <3>2, <3>8
    <2> QED
      BY <2>5, <2>6
  <1> HIDE DEF T
  <1>6. Len(s) \in Nat /\ Len(s) \in 0 .. Len(s)
    OBVIOUS
  <1>7. Len(s) \in T
    BY <1>4, <1>5, <1>6, HandedOn
  <1>8. Left(Len(s))
    BY <1>6, <1>7 DEF T
  <1> DEFINE w == Without(s, S)
  <1> HIDE DEF w
  <1>9. /\ w \in Seq(E)
        /\ \A x : (\E i \in 1 .. Len(w) : w[i] = x) <=> x \notin S /\ \E k \in 1 .. Len(s) : s[k] = x
    BY <1>1, <1>8 DEF w
  <1> QED
    BY <1>9 DEF w, Has

-----------------------------------------------------------------------------
(* What packages refer to. *)

LEMMA SameWorld ==
    ASSUME world' = world
    PROVE  /\ \A d : FindPackageRoots(d)' = FindPackageRoots(d)
           /\ \A d : Libraries(d)' = Libraries(d)
           /\ \A d : WorkspacePackages(d)' = WorkspacePackages(d)
           /\ \A d : NodePackages(d)' = NodePackages(d)
           /\ \A d : RefersTo(d)' = RefersTo(d)
  <1>1. \A d : FindPackageRoots(d)' = FindPackageRoots(d)
    BY DEF FindPackageRoots, IsPackage
  <1>2. \A d : Libraries(d)' = Libraries(d)
    BY DEF Libraries, FindPackageRoots, Conf, IsPackage, NoConf, IsDir, Canon
  <1>3. \A d : WorkspacePackages(d)' = WorkspacePackages(d)
    BY DEF WorkspacePackages, Entries, Manifest, Conf, IsPackage, NoConf, IsDir, Canon
  <1>4. \A d : NodePackages(d)' = NodePackages(d)
    BY DEF NodePackages, Manifest, ResolveNodePackage, Conf, IsPackage, NoConf, Canon
  <1>5. \A d : RefersTo(d)' = RefersTo(d)
    BY <1>2, <1>3, <1>4 DEF RefersTo
  <1> QED
    BY <1>1, <1>2, <1>3, <1>4, <1>5

(* What a package refers to are finitely many paths. *)
LEMMA PackageRootsFinite ==
    ASSUME world \in Worlds, NEW top
    PROVE  FindPackageRoots(top) \subseteq Path /\ IsFiniteSet(FindPackageRoots(top))
  <1>1. FindPackageRoots(top) \subseteq DOMAIN world.conf
    BY DEF FindPackageRoots
  <1> QED
    BY <1>1, WorldsAssumption, FS_Subset

LEMMA LibrariesFinite ==
    ASSUME world \in Worlds, NEW d
    PROVE  Libraries(d) \subseteq Path /\ IsFiniteSet(Libraries(d))
  BY PackageRootsFinite, FS_EmptySet DEF Libraries

LEMMA WorkspacePackagesFinite ==
    ASSUME world \in Worlds, NEW d
    PROVE  WorkspacePackages(d) \subseteq Path /\ IsFiniteSet(WorkspacePackages(d))
  <1>1. WorkspacePackages(d) \subseteq world.dirs
    BY DEF WorkspacePackages, IsDir
  <1> QED
    BY <1>1, WorldsAssumption, FS_Subset

LEMMA NodePackageIsPath ==
    ASSUME world \in Worlds, NEW owner \in Path, NEW name
    PROVE  ResolveNodePackage(owner, name) \in Path \cup {None}
  <1> DEFINE Candidate(n) == SubSeq(owner, 1, n) \o <<"node_modules", name>>
             found == {n \in 0 .. Len(owner) : Conf(Canon(Candidate(n))).json}
  <1>1. \A p : Conf(p).json => p \in Path
    BY WorldsAssumption DEF Conf, IsPackage, NoConf
  <1>2. CASE found = {}
    BY <1>2 DEF ResolveNodePackage
  <1>3. CASE found # {}
    <2>1. Len(owner) \in Nat /\ found \in SUBSET (0 .. Len(owner))
      BY DEF Path
    <2>2. \E n \in found : \A m \in found : m <= n
      <3> HIDE DEF found
      <3> QED
        BY <1>3, <2>1, Greatest
    <2> DEFINE nearest == CHOOSE n \in found : \A m \in found : m <= n
    <2>3. nearest \in found
      <3> HIDE DEF found
      <3> QED
        BY <2>2
    <2>4. Conf(Canon(Candidate(nearest))).json
      BY <2>3
    <2>5. ResolveNodePackage(owner, name) = Canon(Candidate(nearest))
      BY <1>3 DEF ResolveNodePackage
    <2> QED
      BY <1>1, <2>4, <2>5
  <1> QED
    BY <1>2, <1>3

LEMMA NodePackagesArePaths ==
    ASSUME world \in Worlds, NEW d \in Path
    PROVE  NodePackages(d) \in Seq(Path)
  <1> DEFINE dependencies == Manifest(d).dependencies
             s == [i \in DOMAIN dependencies |-> ResolveNodePackage(d, dependencies[i])]
  <1>1. dependencies \in Seq(STRING)
    <2>1. CASE Conf(d).manifest = None
      <3>1. dependencies = <<>>
        BY <2>1 DEF Manifest
      <3> QED
        BY <3>1
    <2>2. CASE Conf(d).manifest # None
      <3>1. d \in DOMAIN world.conf /\ Conf(d) = world.conf[d]
        BY <2>2 DEF Conf, IsPackage, NoConf
      <3>2. dependencies = world.conf[d].manifest.dependencies
        BY <2>2, <3>1 DEF Manifest
      <3> QED
        BY <2>2, <3>1, <3>2, WorldsAssumption
    <2> QED
      BY <2>1, <2>2
  <1> HIDE DEF dependencies
  <1>2. s \in Seq(Path \cup {None})
    <2>1. DOMAIN dependencies = 1 .. Len(dependencies) /\ Len(dependencies) \in Nat
      BY <1>1
    <2>2. \A i \in 1 .. Len(dependencies) : s[i] \in Path \cup {None}
      BY <2>1, NodePackageIsPath
    <2>3. s \in [1 .. Len(dependencies) -> Path \cup {None}]
      BY <2>1, <2>2
    <2> HIDE DEF s
    <2> QED
      BY <2>1, <2>3
  <1>3. NodePackages(d) = Without(s, {None})
    BY DEF NodePackages, dependencies
  <1> DEFINE t == Without(s, {None})
  <1> HIDE DEF s
  <1>4. t \in Seq(Path \cup {None}) /\ \A x : Has(t, x) => x # None
    BY <1>2, WithoutKeepsRest
  <1> HIDE DEF t
  <1>5. \A i \in 1 .. Len(t) : t[i] # None
    BY <1>4 DEF Has
  <1>6. \A i \in 1 .. Len(t) : t[i] \in Path
    BY <1>4, <1>5
  <1>7. t \in Seq(Path)
    BY <1>4, <1>6
  <1> QED
    BY <1>3, <1>7 DEF t


LEMMA HasIsElement ==
    ASSUME NEW S, NEW s \in Seq(S), NEW x, Has(s, x)
    PROVE  x \in S
  BY DEF Has

LEMMA JoinedHas ==
    ASSUME NEW S, NEW p \in Seq(S), NEW q \in Seq(S)
    PROVE  /\ p \o q \in Seq(S)
           /\ \A x : Has(p \o q, x) <=> Has(p, x) \/ Has(q, x)
  <1> DEFINE r == p \o q
             a == Len(p)
             b == Len(q)
  <1>1. a \in Nat /\ b \in Nat
    OBVIOUS
  <1>2. r \in Seq(S) /\ Len(r) = a + b
    OBVIOUS
  <1>3. (\A i \in 1 .. a : r[i] = p[i]) /\ \A i \in 1 .. b : r[a + i] = q[i]
    <2> HIDE DEF r
    <2> QED
      BY Joined DEF r
  <1> HIDE DEF r, a, b
  <1>4. ASSUME NEW x, Has(p, x)
        PROVE  Has(r, x)
    <2>1. PICK i \in 1 .. a : p[i] = x
      BY <1>4 DEF Has, a
    <2>2. i \in 1 .. a + b /\ r[i] = x
      BY <2>1, <1>1, <1>3
    <2> QED
      BY <2>2, <1>2 DEF Has
  <1>5. ASSUME NEW x, Has(q, x)
        PROVE  Has(r, x)
    <2>1. PICK i \in 1 .. b : q[i] = x
      BY <1>5 DEF Has, b
    <2>2. a + i \in 1 .. a + b /\ r[a + i] = x
      BY <2>1, <1>1, <1>3
    <2> QED
      BY <2>2, <1>2 DEF Has
  <1>6. ASSUME NEW x, Has(r, x)
        PROVE  Has(p, x) \/ Has(q, x)
    <2>1. PICK i \in 1 .. a + b : r[i] = x
      BY <1>6, <1>2 DEF Has
    <2>2. CASE i \in 1 .. a
      BY <2>1, <2>2, <1>3 DEF Has, a
    <2>3. CASE i \notin 1 .. a
      <3>1. i - a \in 1 .. b /\ a + (i - a) = i
        BY <2>1, <2>3, <1>1
      <3>2. q[i - a] = x
        BY <2>1, <3>1, <1>3
      <3> QED
        BY <3>1, <3>2 DEF Has, b
    <2> QED
      BY <2>2, <2>3
  <1> QED
    BY <1>2, <1>4, <1>5, <1>6 DEF r

LEMMA AppendHas ==
    ASSUME NEW S, NEW s \in Seq(S), NEW e \in S
    PROVE  /\ Append(s, e) \in Seq(S) /\ Len(Append(s, e)) = Len(s) + 1 /\ Len(s) \in Nat
           /\ \A i \in 1 .. Len(s) : Append(s, e)[i] = s[i]
           /\ Append(s, e)[Len(s) + 1] = e
           /\ \A x : Has(Append(s, e), x) <=> Has(s, x) \/ x = e
  <1>1. /\ Append(s, e) \in Seq(S) /\ Len(Append(s, e)) = Len(s) + 1 /\ Len(s) \in Nat
        /\ \A i \in 1 .. Len(s) : Append(s, e)[i] = s[i]
        /\ Append(s, e)[Len(s) + 1] = e
    OBVIOUS
  <1>2. \A i : i \in 1 .. Len(s) + 1 <=> i \in 1 .. Len(s) \/ i = Len(s) + 1
    BY <1>1
  <1>3. \A x : Has(Append(s, e), x) <=> Has(s, x) \/ x = e
    BY <1>1, <1>2 DEF Has
  <1> QED
    BY <1>1, <1>3

LEMMA FrontHas ==
    ASSUME NEW S, NEW s \in Seq(S), s # <<>>
    PROVE  /\ Front(s) \in Seq(S) /\ Last(s) \in S
           /\ \A x : Has(s, x) <=> Has(Front(s), x) \/ x = Last(s)
  <1>1. /\ Len(s) \in Nat /\ Len(s) >= 1
        /\ Front(s) \in Seq(S) /\ Len(Front(s)) = Len(s) - 1
        /\ \A i \in 1 .. Len(s) - 1 : Front(s)[i] = s[i]
        /\ Last(s) = s[Len(s)] /\ Last(s) \in S
    <2>1. Len(s) \in Nat /\ Len(s) >= 1
      OBVIOUS
    <2>2. Last(s) = s[Len(s)] /\ Last(s) \in S
      BY <2>1 DEF Last
    <2>3. 1 .. Len(s) - 1 \subseteq 1 .. Len(s)
      BY <2>1
    <2> DEFINE f == [i \in 1 .. Len(s) - 1 |-> s[i]]
    <2>4. Front(s) = f
      BY <2>1 DEF Front
    <2>5. f \in [1 .. Len(s) - 1 -> S]
      BY <2>3
    <2>6. f \in Seq(S) /\ Len(f) = Len(s) - 1
      <3>1. Len(s) - 1 \in Nat
        BY <2>1
      <3> HIDE DEF f
      <3> QED
        BY <2>5, <3>1
    <2> QED
      BY <2>1, <2>2, <2>4, <2>6
  <1>2. \A i : i \in 1 .. Len(s) <=> i \in 1 .. Len(s) - 1 \/ i = Len(s)
    BY <1>1
  <1>3. \A x : Has(s, x) <=> Has(Front(s), x) \/ x = Last(s)
    BY <1>1, <1>2 DEF Has
  <1> QED
    BY <1>1, <1>3

Entry == [root : Path, dependency : BOOLEAN]

LEMMA PackagesHas ==
    ASSUME NEW s \in Seq(Path), NEW dependency \in BOOLEAN
    PROVE  /\ Packages(s, dependency) \in Seq(Entry)
           /\ \A p : Has(Packages(s, dependency), p) => Has(s, p.root)
           /\ dependency => \A p : Has(Packages(s, dependency), p) => p.dependency
           /\ ~dependency => \A p : Has(Packages(s, dependency), p) => ~p.dependency
           /\ \A d : Has(s, d) => \E p : /\ Has(Packages(s, dependency), p)
                                         /\ p.root = d
  <1> DEFINE q == Packages(s, dependency)
  <1>1. Len(s) \in Nat /\ \A i \in 1 .. Len(s) : s[i] \in Path
    OBVIOUS
  <1>2. q = [i \in 1 .. Len(s) |-> Package(s[i], dependency)]
    BY DEF Packages
  <1>3. \A i \in 1 .. Len(s) : Package(s[i], dependency) \in Entry
    BY <1>1 DEF Entry, Package
  <1> HIDE DEF q
  <1>4. q \in [1 .. Len(s) -> Entry]
    BY <1>2, <1>3
  <1>5. q \in Seq(Entry) /\ Len(q) = Len(s)
    BY <1>1, <1>4
  <1>6. \A i \in 1 .. Len(s) : q[i].root = s[i] /\ q[i].dependency = dependency
    BY <1>2 DEF Package
  <1>7. \A p : Has(q, p) => Has(s, p.root) /\ (p.dependency <=> dependency)
    BY <1>5, <1>6 DEF Has
  <1>8. \A d : Has(s, d) => \E p : Has(q, p) /\ p.root = d
    BY <1>5, <1>6 DEF Has
  <1> QED
    BY <1>5, <1>7, <1>8 DEF q

(* An order of a set of paths. *)
LEMMA OrderHas ==
    ASSUME NEW S, S \subseteq Path, IsFiniteSet(S), NEW s \in SetToSeqs(S)
    PROVE  s \in Seq(Path) /\ \A x : Has(s, x) <=> x \in S
  <1>1. s \in Seq(S)
    BY OrderHasAll
  <1>2. s \in Seq(Path)
    BY <1>1
  <1>3. \A x \in S : Has(s, x)
    BY OrderHasAll DEF Has
  <1> QED
    BY <1>1, <1>2, <1>3, HasIsElement

-----------------------------------------------------------------------------
(* Discovery. *)

LEMMA EmptyHas ==
    ASSUME NEW S, NEW s \in Seq(S), s = <<>>
    PROVE  \A x : ~Has(s, x)
  <1>1. Len(s) = 0 /\ \A i : i \notin 1 .. 0
    OBVIOUS
  <1> QED
    BY <1>1 DEF Has

(* What has been found out about packages in the middle of discovery: what  *)
(* those looked at refer to has been looked at or is in the queue.          *)
Pending(d) == d \in seen \/ \E p : Has(queue, p) /\ p.root = d

Justified(p) ==
    IF p.dependency
    THEN \E d \in seen : p.root \in Libraries(d) \/ Has(NodePackages(d), p.root)
    ELSE p.root \in FindPackageRoots(<<>>) \/ \E d \in seen : p.root \in WorkspacePackages(d)

GraphInv ==
    /\ world \in Worlds
    /\ queue \in Seq(Entry)
    /\ discovered \in Seq(Entry)
    /\ \A d : d \in seen <=> \E p : Has(discovered, p) /\ p.root = d
    /\ \A i, j \in 1 .. Len(discovered) : discovered[i].root = discovered[j].root => i = j
    /\ \A d \in FindPackageRoots(<<>>) : Pending(d)
    /\ \A d \in seen : \A e \in RefersTo(d) : Pending(e)
    /\ \A p : Has(queue, p) \/ Has(discovered, p) => Justified(p)

LEMMA GraphInit ==
    ASSUME Init
    PROVE  GraphInv
  <1>1. world \in Worlds /\ seen = {} /\ discovered = <<>>
    BY DEF Init
  <1>2. PICK order \in SetToSeqs(FindPackageRoots(<<>>)) : queue = Packages(order, FALSE)
    BY DEF Init
  <1>3. order \in Seq(Path) /\ \A x : Has(order, x) <=> x \in FindPackageRoots(<<>>)
    BY <1>1, PackageRootsFinite, OrderHas
  <1>4. /\ queue \in Seq(Entry)
        /\ \A p : Has(queue, p) => Has(order, p.root) /\ ~p.dependency
        /\ \A d : Has(order, d) => \E p : Has(queue, p) /\ p.root = d
    BY <1>2, <1>3, PackagesHas
  <1>5. discovered \in Seq(Entry) /\ \A p : ~Has(discovered, p)
    <2>1. discovered \in Seq(Entry)
      BY <1>1
    <2> QED
      BY <1>1, <2>1, EmptyHas
  <1>6. \A d \in FindPackageRoots(<<>>) : Pending(d)
    BY <1>3, <1>4 DEF Pending
  <1>7. \A p : Has(queue, p) \/ Has(discovered, p) => Justified(p)
    BY <1>3, <1>4, <1>5 DEF Justified
  <1>8. \A i, j \in 1 .. Len(discovered) : discovered[i].root = discovered[j].root => i = j
    <2>1. Len(discovered) = 0
      BY <1>1
    <2> QED
      BY <2>1
  <1> QED
    BY <1>1, <1>4, <1>5, <1>6, <1>7, <1>8 DEF GraphInv

(* Justified stays so when there are more packages. *)
LEMMA StaysJustified ==
    ASSUME world' = world, seen \subseteq seen', NEW p, Justified(p)
    PROVE  Justified(p)'
  <1>1. \A d : /\ Libraries(d)' = Libraries(d) /\ NodePackages(d)' = NodePackages(d)
               /\ WorkspacePackages(d)' = WorkspacePackages(d)
               /\ FindPackageRoots(d)' = FindPackageRoots(d)
    BY SameWorld
  <1>2. \A d : Has(NodePackages(d), p.root)' <=> Has(NodePackages(d), p.root)
    BY <1>1 DEF Has
  <1> QED
    BY <1>1, <1>2 DEF Justified

LEMMA GraphSkip ==
    ASSUME GraphInv, SkipSeen
    PROVE  GraphInv'
  <1>1. /\ queue \in Seq(Entry) /\ queue # <<>> /\ Last(queue).root \in seen
        /\ queue' = Front(queue) /\ world' = world /\ seen' = seen /\ discovered' = discovered
    BY DEF GraphInv, SkipSeen
  <1>2. /\ queue' \in Seq(Entry)
        /\ \A p : Has(queue, p) <=> Has(queue', p) \/ p = Last(queue)
    BY <1>1, FrontHas
  <1>3. \A d : Pending(d) => Pending(d)'
    BY <1>1, <1>2 DEF Pending
  <1>4. \A p : Justified(p) => Justified(p)'
    BY <1>1, StaysJustified
  <1>5. \A d : FindPackageRoots(d)' = FindPackageRoots(d) /\ RefersTo(d)' = RefersTo(d)
    BY <1>1, SameWorld
  <1>6. (\A d \in FindPackageRoots(<<>>) : Pending(d))'
    BY <1>3, <1>5 DEF GraphInv
  <1>7. (\A d \in seen : \A e \in RefersTo(d) : Pending(e))'
    BY <1>1, <1>3, <1>5 DEF GraphInv
  <1>8. (\A p : Has(queue, p) \/ Has(discovered, p) => Justified(p))'
    BY <1>1, <1>2, <1>4 DEF GraphInv
  <1>9. /\ (world \in Worlds)' /\ (discovered \in Seq(Entry))'
        /\ (\A d : d \in seen <=> \E p : Has(discovered, p) /\ p.root = d)'
        /\ (\A i, j \in 1 .. Len(discovered) : discovered[i].root = discovered[j].root => i = j)'
    BY <1>1 DEF GraphInv
  <1> QED
    BY <1>2, <1>6, <1>7, <1>8, <1>9 DEF GraphInv

LEMMA GraphExpand ==
    ASSUME GraphInv, Expand
    PROVE  GraphInv'
  <1>0. PICK package, d, S, npm : /\ package = Last(queue) /\ d = package.root
                                  /\ S = seen \cup {d} /\ npm = Without(NodePackages(d), S)
    OBVIOUS
  <1>1. /\ queue \in Seq(Entry) /\ discovered \in Seq(Entry) /\ world \in Worlds
        /\ queue # <<>> /\ d \notin seen
        /\ world' = world /\ seen' = S /\ discovered' = Append(discovered, package)
    BY <1>0 DEF GraphInv, Expand
  <1>2. PICK libraries \in SetToSeqs(LibrariesOf(package)),
             local \in SetToSeqs(WorkspacePackages(d) \ S) :
             queue' = Front(queue) \o Packages(libraries, TRUE)
                      \o Packages(local, FALSE) \o Packages(npm, TRUE)
    BY <1>0 DEF Expand, LibraryIsDependency
  <1>3. /\ package \in Entry /\ Front(queue) \in Seq(Entry)
        /\ \A p : Has(queue, p) <=> Has(Front(queue), p) \/ p = package
    BY <1>0, <1>1, FrontHas
  <1>4. d \in Path
    BY <1>0, <1>3 DEF Entry
  <1>5. libraries \in Seq(Path) /\ \A x : Has(libraries, x) <=> x \in Libraries(d)
    BY <1>0, <1>1, <1>2, LibrariesFinite, OrderHas DEF LibrariesOf
  <1>6. local \in Seq(Path) /\ \A x : Has(local, x) <=> x \in WorkspacePackages(d) \ S
    <2> DEFINE W == WorkspacePackages(d) \ S
    <2>1. W \subseteq Path /\ IsFiniteSet(W)
      BY <1>1, WorkspacePackagesFinite, FS_Subset
    <2> HIDE DEF W
    <2> QED
      BY <1>2, <2>1, OrderHas DEF W
  <1>7. NodePackages(d) \in Seq(Path)
    BY <1>1, <1>4, NodePackagesArePaths
  <1>8. npm \in Seq(Path) /\ \A x : Has(npm, x) <=> x \notin S /\ Has(NodePackages(d), x)
    BY <1>0, <1>7, WithoutKeepsRest
  <1>12. PICK a, b, c, f : /\ a = Packages(libraries, TRUE) /\ b = Packages(local, FALSE)
                           /\ c = Packages(npm, TRUE) /\ f = Front(queue)
                           /\ queue' = f \o a \o b \o c
    BY <1>2
  <1>9. /\ a \in Seq(Entry)
        /\ \A p : Has(a, p) => p.root \in Libraries(d) /\ p.dependency
        /\ \A e \in Libraries(d) : \E p : Has(a, p) /\ p.root = e
    <2>1. /\ a \in Seq(Entry)
          /\ \A p : Has(a, p) => Has(libraries, p.root) /\ p.dependency
          /\ \A e : Has(libraries, e) => \E p : Has(a, p) /\ p.root = e
      BY <1>5, <1>12, PackagesHas
    <2> QED
      BY <1>5, <2>1
  <1>10. /\ b \in Seq(Entry)
         /\ \A p : Has(b, p) => p.root \in WorkspacePackages(d) /\ ~p.dependency
         /\ \A e \in WorkspacePackages(d) \ S : \E p : Has(b, p) /\ p.root = e
    <2>1. /\ b \in Seq(Entry)
          /\ \A p : Has(b, p) => Has(local, p.root) /\ ~p.dependency
          /\ \A e : Has(local, e) => \E p : Has(b, p) /\ p.root = e
      BY <1>6, <1>12, PackagesHas
    <2> QED
      BY <1>6, <2>1
  <1>11. /\ c \in Seq(Entry)
         /\ \A p : Has(c, p) => Has(NodePackages(d), p.root) /\ p.dependency
         /\ \A e : e \notin S /\ Has(NodePackages(d), e) => \E p : Has(c, p) /\ p.root = e
    <2>1. /\ c \in Seq(Entry)
          /\ \A p : Has(c, p) => Has(npm, p.root) /\ p.dependency
          /\ \A e : Has(npm, e) => \E p : Has(c, p) /\ p.root = e
      BY <1>8, <1>12, PackagesHas
    <2> QED
      BY <1>8, <2>1
  <1>13. /\ queue' \in Seq(Entry)
         /\ \A p : Has(queue', p) <=> Has(f, p) \/ Has(a, p) \/ Has(b, p) \/ Has(c, p)
    <2>1. PICK fa : fa = f \o a
      OBVIOUS
    <2>2. PICK fab : fab = fa \o b
      OBVIOUS
    <2>3. fa \in Seq(Entry) /\ \A p : Has(fa, p) <=> Has(f, p) \/ Has(a, p)
      BY <1>3, <1>9, <1>12, <2>1, JoinedHas
    <2>4. fab \in Seq(Entry) /\ \A p : Has(fab, p) <=> Has(fa, p) \/ Has(b, p)
      BY <2>2, <2>3, <1>10, JoinedHas
    <2>5. queue' = fab \o c
      BY <1>12, <2>1, <2>2
    <2>6. queue' \in Seq(Entry) /\ \A p : Has(queue', p) <=> Has(fab, p) \/ Has(c, p)
      BY <2>4, <2>5, <1>11, JoinedHas
    <2> QED
      BY <2>3, <2>4, <2>6
  <1>14. \A e : Pending(e) => Pending(e)'
    BY <1>0, <1>1, <1>3, <1>12, <1>13 DEF Pending
  <1>15. \A e \in Libraries(d) : Pending(e)'
    BY <1>9, <1>13 DEF Pending
  <1>16. \A e \in WorkspacePackages(d) : Pending(e)'
    BY <1>0, <1>1, <1>10, <1>13 DEF Pending
  <1>17. \A e : Has(NodePackages(d), e) => Pending(e)'
    BY <1>0, <1>1, <1>11, <1>13 DEF Pending
  <1>18. \A e \in RefersTo(d) : Pending(e)'
    <2>1. DOMAIN NodePackages(d) = 1 .. Len(NodePackages(d))
      BY <1>7
    <2>2. ASSUME NEW e \in RefersTo(d)
          PROVE  e \in Libraries(d) \/ e \in WorkspacePackages(d) \/ Has(NodePackages(d), e)
      BY <2>1 DEF RefersTo, Has
    <2> QED
      BY <1>15, <1>16, <1>17, <2>2
  <1>19. \A e : FindPackageRoots(e)' = FindPackageRoots(e) /\ RefersTo(e)' = RefersTo(e)
    BY <1>1, SameWorld
  <1>20. (\A e \in FindPackageRoots(<<>>) : Pending(e))'
    BY <1>14, <1>19 DEF GraphInv
  <1>21. (\A q \in seen : \A e \in RefersTo(q) : Pending(e))'
    <2>1. \A q \in seen : \A e \in RefersTo(q) : Pending(e)
      BY DEF GraphInv
    <2> QED
      BY <1>0, <1>1, <1>14, <1>18, <1>19, <2>1
  <1>22. \A p : Justified(p) => Justified(p)'
    <2>1. seen \subseteq seen'
      BY <1>0, <1>1
    <2> QED
      BY <1>1, <2>1, StaysJustified
  <1>23. /\ Has(discovered', package) /\ discovered' \in Seq(Entry)
         /\ \A p : Has(discovered', p) <=> Has(discovered, p) \/ p = package
         /\ Len(discovered') = Len(discovered) + 1 /\ Len(discovered) \in Nat
         /\ \A i \in 1 .. Len(discovered) : discovered'[i] = discovered[i]
         /\ discovered'[Len(discovered) + 1] = package
    BY <1>1, <1>3, AppendHas
  <1>24. \A p : Has(a, p) \/ Has(b, p) \/ Has(c, p) => Justified(p)'
    <2>1. /\ Libraries(d)' = Libraries(d) /\ WorkspacePackages(d)' = WorkspacePackages(d)
          /\ NodePackages(d)' = NodePackages(d) /\ d \in seen'
      BY <1>0, <1>1, SameWorld
    <2>2. \A p : Has(a, p) => Justified(p)'
      BY <1>9, <2>1 DEF Justified
    <2>3. \A p : Has(b, p) => Justified(p)'
      BY <1>10, <2>1 DEF Justified
    <2>4. \A p : Has(c, p) => Justified(p)'
      BY <1>11, <2>1 DEF Justified, Has
    <2> QED
      BY <2>2, <2>3, <2>4
  <1>25. (\A p : Has(queue, p) \/ Has(discovered, p) => Justified(p))'
    <2>1. \A p : Has(queue, p) \/ Has(discovered, p) => Justified(p)
      BY DEF GraphInv
    <2>2. \A p : Has(queue', p) => Justified(p)'
      BY <1>3, <1>12, <1>13, <1>22, <1>24, <2>1
    <2>3. \A p : Has(discovered', p) => Justified(p)'
      BY <1>3, <1>22, <1>23, <2>1
    <2> QED
      BY <2>2, <2>3
  <1>26. (\A e : e \in seen <=> \E p : Has(discovered, p) /\ p.root = e)'
    <2>1. \A e : e \in seen <=> \E p : Has(discovered, p) /\ p.root = e
      BY DEF GraphInv
    <2> QED
      BY <1>0, <1>1, <1>23, <2>1
  <1>27. (\A i, j \in 1 .. Len(discovered) : discovered[i].root = discovered[j].root => i = j)'
    <2>1. \A i, j \in 1 .. Len(discovered) : discovered[i].root = discovered[j].root => i = j
      BY DEF GraphInv
    <2>2. \A i \in 1 .. Len(discovered) : discovered[i].root # d
      BY <1>1 DEF GraphInv, Has
    <2>3. \A i : i \in 1 .. Len(discovered) + 1 <=> i \in 1 .. Len(discovered) \/ i = Len(discovered) + 1
      BY <1>23
    <2> QED
      BY <1>0, <1>23, <2>1, <2>2, <2>3
  <1> QED
    BY <1>1, <1>13, <1>20, <1>21, <1>23, <1>25, <1>26, <1>27 DEF GraphInv


LEMMA GraphKept ==
    ASSUME GraphInv, UNCHANGED graph
    PROVE  GraphInv'
  <1>1. world' = world /\ queue' = queue /\ seen' = seen /\ discovered' = discovered
    BY DEF graph
  <1>2. \A d : Pending(d) => Pending(d)'
    BY <1>1 DEF Pending
  <1>3. \A p : Justified(p) => Justified(p)'
    BY <1>1, StaysJustified
  <1>4. \A d : FindPackageRoots(d)' = FindPackageRoots(d) /\ RefersTo(d)' = RefersTo(d)
    BY <1>1, SameWorld
  <1> QED
    BY <1>1, <1>2, <1>3, <1>4 DEF GraphInv

(* The steps of the registry by what they change of discovery. *)
LEMMA DiscoverySteps ==
    ASSUME RegistryNext \/ UNCHANGED vars
    PROVE  Discovering \/ UNCHANGED discoveryVars
  <1> DEFINE Left == UNCHANGED discoveryVars
  <1>1. Load => Left
    BY DEF Load
  <1>2. Edit => Left
    BY DEF Edit, Open, ApplyChanges, Create
  <1>3. Query => Left
    BY DEF Query, MeetCycle, Keep, CollectDefMap
  <1>4. UNCHANGED vars => Left
    BY DEF vars
  <1> HIDE DEF Left
  <1>5. Discovering \/ Left
    BY <1>1, <1>2, <1>3, <1>4 DEF RegistryNext
  <1> QED
    BY <1>5 DEF Left

(* Discovery keeps what it has found out, and every step of the server      *)
(* after it leaves the graph alone.                                         *)
THEOREM GraphAlways == RegistrySpec => []GraphInv
  <1>1. RegistryInit => GraphInv
    BY GraphInit DEF RegistryInit
  <1>2. GraphInv /\ [RegistryNext]_vars => GraphInv'
    <2> SUFFICES ASSUME GraphInv, RegistryNext \/ UNCHANGED vars
                 PROVE  GraphInv'
      OBVIOUS
    <2>1. CASE Discover
      <3>1. CASE SkipSeen
        BY <3>1, GraphSkip
      <3>2. CASE Expand
        BY <3>2, GraphExpand
      <3>3. CASE AddPackage
        BY <3>3, GraphKept DEF AddPackage
      <3> QED
        BY <2>1, <3>1, <3>2, <3>3 DEF Discover
    <2>2. CASE UNCHANGED discoveryVars
      BY <2>2, GraphKept DEF discoveryVars
    <2> QED
      BY <2>1, <2>2, DiscoverySteps DEF Discovering
  <1> QED
    BY <1>1, <1>2, PTL DEF RegistrySpec

LEMMA GraphImpliesAllDiscovered ==
    ASSUME GraphInv
    PROVE  AllDiscovered
  <1>1. PICK found : found = {discovered[i].root : i \in DOMAIN discovered}
    OBVIOUS
  <1>2. PICK n \in Nat : n = Len(discovered) /\ DOMAIN discovered = 1 .. n
    <2>1. discovered \in Seq(Entry)
      BY DEF GraphInv
    <2> QED
      BY <2>1
  <1>3. found = seen
    BY <1>1, <1>2 DEF GraphInv, Has
  <1>4. Cardinality(found) = n
    <2> DEFINE f == [i \in 1 .. n |-> discovered[i].root]
    <2>1. f \in Bijection(1 .. n, found)
      <3>1. f \in [1 .. n -> found] /\ \A x \in found : \E i \in 1 .. n : f[i] = x
        BY <1>1, <1>2
      <3>2. \A i, j \in 1 .. n : f[i] = f[j] => i = j
        BY <1>2 DEF GraphInv
      <3> HIDE DEF f
      <3> QED
        BY <3>1, <3>2 DEF Bijection, Injection, Surjection, IsInjective
    <2> HIDE DEF f
    <2>2. ExistsBijection(1 .. n, found)
      BY <2>1 DEF ExistsBijection
    <2> QED
      BY <1>2, <2>2, FS_CountingElements
  <1>5. ASSUME queue = <<>>
        PROVE  \A d : Pending(d) => d \in found
    <2>1. queue \in Seq(Entry)
      BY DEF GraphInv
    <2> QED
      BY <1>3, <1>5, <2>1, EmptyHas DEF Pending
  <1>6. queue = <<>> => /\ FindPackageRoots(<<>>) \subseteq found
                        /\ \A d \in found : RefersTo(d) \subseteq found
    BY <1>3, <1>5 DEF GraphInv
  <1> QED
    BY <1>1, <1>2, <1>4, <1>6 DEF AllDiscovered

(* When the work list is empty, every package there is a way to over        *)
(* workspaces, libraries and dependencies is in the package graph, and it   *)
(* is never there twice, whatever is on disk and in whatever order          *)
(* directories are read (discover_package_graph).                           *)
THEOREM DiscoveryComplete == RegistrySpec => []AllDiscovered
  BY GraphAlways, GraphImpliesAllDiscovered, PTL

LEMMA GraphImpliesJustified ==
    ASSUME GraphInv
    PROVE  DependencyJustified
  <1>1. PICK n \in Nat : n = Len(discovered) /\ DOMAIN discovered = 1 .. n
    <2>1. discovered \in Seq(Entry)
      BY DEF GraphInv
    <2> QED
      BY <2>1
  <1>2. {discovered[j].root : j \in DOMAIN discovered} = seen
    BY <1>1 DEF GraphInv, Has
  <1>3. \A p : Has(discovered, p) => Justified(p)
    BY DEF GraphInv
  <1>4. seen \subseteq Path
    <2>1. \A p : Has(discovered, p) => p \in Entry
      BY HasIsElement DEF GraphInv
    <2> QED
      BY <2>1 DEF GraphInv, Entry
  <1>5. \A d \in seen : NodePackages(d) \in Seq(Path)
    BY <1>4, NodePackagesArePaths DEF GraphInv
  <1>6. ASSUME NEW i \in DOMAIN discovered
        PROVE  LET p == discovered[i]
               IN  IF p.dependency
                   THEN \E d \in seen : p.root \in Libraries(d)
                            \/ \E j \in DOMAIN NodePackages(d) : p.root = NodePackages(d)[j]
                   ELSE p.root \in FindPackageRoots(<<>>) \/ \E d \in seen : p.root \in WorkspacePackages(d)
    <2>1. PICK p : p = discovered[i]
      OBVIOUS
    <2>2. Justified(p)
      BY <1>1, <1>3, <2>1 DEF Has
    <2>3. \A d \in seen : Has(NodePackages(d), p.root) =>
                             \E j \in DOMAIN NodePackages(d) : p.root = NodePackages(d)[j]
      BY <1>5 DEF Has
    <2> QED
      BY <2>1, <2>2, <2>3 DEF Justified
  <1> QED
    BY <1>2, <1>6 DEF DependencyJustified

(* A package is in the graph as a dependency only if one in the graph has   *)
(* it in its libraries or dependencies, and as a local one only if it is    *)
(* among the workspace's own.                                               *)
THEOREM PackagesJustified == RegistrySpec => []DependencyJustified
  BY GraphAlways, GraphImpliesJustified, PTL

-----------------------------------------------------------------------------
(* Source roots. *)

(* Sequences whose elements have no set of their own in the model. *)
IsSeq(s) == s \in Seq(ToSet(s))

LEMMA SeqIsSeq ==
    ASSUME NEW S, NEW s \in Seq(S)
    PROVE  IsSeq(s)
  <1>1. \A i \in 1 .. Len(s) : s[i] \in ToSet(s)
    BY DEF ToSet
  <1> QED
    BY <1>1 DEF IsSeq

LEMMA IsSeqBounds ==
    ASSUME NEW s, IsSeq(s)
    PROVE  Len(s) \in Nat /\ DOMAIN s = 1 .. Len(s)
  <1> DEFINE S == ToSet(s)
  <1>1. s \in Seq(S)
    BY DEF IsSeq
  <1> HIDE DEF S
  <1> QED
    BY <1>1

LEMMA Appended ==
    ASSUME NEW s, IsSeq(s), NEW x, NEW t, t = Append(s, x)
    PROVE  /\ IsSeq(t) /\ Len(s) \in Nat /\ Len(t) = Len(s) + 1
           /\ \A k \in 1 .. Len(s) : t[k] = s[k]
           /\ t[Len(s) + 1] = x
           /\ \A k \in 1 .. Len(t) : k \in 1 .. Len(s) \/ k = Len(s) + 1
  <1> DEFINE S == ToSet(s) \cup {x}
  <1>1. s \in Seq(ToSet(s))
    BY DEF IsSeq
  <1>2. \A i \in 1 .. Len(s) : s[i] \in S /\ x \in S
    BY <1>1
  <1>3. s \in Seq(S) /\ x \in S
    BY <1>1, <1>2
  <1> HIDE DEF S
  <1>4. /\ t \in Seq(S) /\ Len(s) \in Nat /\ Len(t) = Len(s) + 1
        /\ \A k \in 1 .. Len(s) : t[k] = s[k]
        /\ t[Len(s) + 1] = x
    BY <1>3, AppendHas
  <1>5. IsSeq(t)
    BY <1>4, SeqIsSeq
  <1> QED
    BY <1>4, <1>5


LEMMA FunctionIsSeq ==
    ASSUME NEW S, NEW n \in Nat, NEW f \in [1 .. n -> S]
    PROVE  f \in Seq(S) /\ Len(f) = n
  OBVIOUS

(* Prefixes. *)
LEMMA PrefixSubSeq ==
    ASSUME NEW S, NEW t \in Seq(S), NEW n \in 0 .. Len(t)
    PROVE  /\ Len(SubSeq(t, 1, n)) = n
           /\ \A i \in 1 .. n : SubSeq(t, 1, n)[i] = t[i]
           /\ DOMAIN SubSeq(t, 1, n) = 1 .. n
  <1>1. n \in Nat /\ Len(t) \in Nat /\ \A i \in 1 .. n : i \in 1 .. Len(t)
    OBVIOUS
  <1>2. SubSeq(t, 1, n) = [i \in 1 .. n |-> t[i]]
    BY <1>1
  <1>3. [i \in 1 .. n |-> t[i]] \in [1 .. n -> S]
    BY <1>1
  <1>4. [i \in 1 .. n |-> t[i]] \in Seq(S) /\ Len([i \in 1 .. n |-> t[i]]) = n
    <2> DEFINE f == [i \in 1 .. n |-> t[i]]
    <2>1. f \in [1 .. n -> S]
      BY <1>3
    <2> HIDE DEF f
    <2>2. f \in Seq(S) /\ Len(f) = n
      BY <1>1, <2>1
    <2> QED
      BY <2>2 DEF f
  <1> QED
    BY <1>2, <1>4

LEMMA PrefixIsElements ==
    ASSUME NEW S, NEW s \in Seq(S), NEW t \in Seq(S)
    PROVE  IsPrefix(s, t) <=> Len(s) <= Len(t) /\ \A i \in 1 .. Len(s) : s[i] = t[i]
  <1>1. SubSeq(s, 1, Len(s)) = s
    BY SubSeqFull
  <1>2. Len(s) \in Nat /\ Len(t) \in Nat
    OBVIOUS
  <1>3. CASE Len(s) <= Len(t)
    <2> DEFINE u == SubSeq(t, 1, Len(s))
    <2>1. Len(s) \in 0 .. Len(t)
      BY <1>2, <1>3
    <2>2. Len(u) = Len(s) /\ DOMAIN u = 1 .. Len(s) /\ \A i \in 1 .. Len(s) : u[i] = t[i]
      BY <2>1, PrefixSubSeq
    <2>3. u \in Seq(S)
      <3>1. \A i \in 1 .. Len(s) : t[i] \in S
        BY <1>2, <1>3
      <3> QED
        BY <3>1, <1>2, SubSeqProperties
    <2> HIDE DEF u
    <2>4. s = u <=> \A i \in 1 .. Len(s) : s[i] = t[i]
      <3>1. s = [i \in 1 .. Len(s) |-> s[i]] /\ u = [i \in 1 .. Len(s) |-> u[i]]
        BY <2>2, <2>3
      <3> QED
        BY <3>1, <2>2
    <2> QED
      BY <1>1, <1>3, <2>4 DEF IsPrefix, u
  <1>4. CASE ~(Len(s) <= Len(t))
    BY <1>4 DEF IsPrefix
  <1> QED
    BY <1>3, <1>4

LEMMA EqualPrefix ==
    ASSUME NEW S, NEW s \in Seq(S), NEW t \in Seq(S), IsPrefix(s, t), Len(t) <= Len(s)
    PROVE  s = t
  <1>1. Len(s) = Len(t) /\ \A i \in 1 .. Len(s) : s[i] = t[i]
    BY PrefixIsElements
  <1> QED
    BY <1>1

(* Of two prefixes of a path, the shorter is one of the longer. *)
LEMMA PrefixOfPrefix ==
    ASSUME NEW S, NEW s \in Seq(S), NEW t \in Seq(S), NEW u \in Seq(S),
           IsPrefix(s, u), IsPrefix(t, u), Len(s) <= Len(t)
    PROVE  IsPrefix(s, t)
  <1>1. \A i \in 1 .. Len(s) : s[i] = u[i]
    BY PrefixIsElements
  <1>2. \A i \in 1 .. Len(t) : t[i] = u[i]
    BY PrefixIsElements
  <1>3. \A i \in 1 .. Len(s) : i \in 1 .. Len(t)
    OBVIOUS
  <1> QED
    BY <1>1, <1>2, <1>3, PrefixIsElements

(* In a sorted sequence of paths none comes before one it is a prefix of. *)
LEMMA SortedOrders ==
    ASSUME NEW s, Sorted(s), NEW i \in DOMAIN s, NEW j \in DOMAIN s, i < j,
           s[i] \in Path, s[j] \in Path
    PROVE  ~IsPrefix(s[j], s[i])
  <1> SUFFICES ASSUME IsPrefix(s[j], s[i])
               PROVE  FALSE
    OBVIOUS
  <1>1. PICK p \in Seq(STRING), q \in Seq(STRING) : p = s[i] /\ q = s[j]
    BY DEF Path
  <1>2. Before(p, q)
    BY <1>1 DEF Sorted
  <1>3. Len(q) <= Len(p) /\ \A k \in 1 .. Len(q) : q[k] = p[k]
    BY <1>1, PrefixIsElements
  <1>4. PICK n \in 0 .. Len(p) : n < Len(q) /\ (n = Len(p) \/ NameBefore(p[n + 1], q[n + 1]))
    BY <1>2 DEF Before
  <1>5. n + 1 \in 1 .. Len(q) /\ n # Len(p)
    BY <1>3, <1>4
  <1>6. NameBefore(p[n + 1], p[n + 1])
    BY <1>3, <1>4, <1>5
  <1>7. PICK a, b \in DOMAIN NameOrder : a < b /\ NameOrder[a] = NameOrder[b]
    BY <1>6 DEF NameBefore
  <1>8. a = b /\ a \in Nat
    BY <1>7, NamesAssumption
  <1> QED
    BY <1>7, <1>8


SourceRoot == [root : Path, package : Nat, files : SUBSET world.sol]

(* What a link leads to that is a source directory. *)
ThroughLink(d) == \E x : Has(discovered, x) /\ \E p \in SourceDirs(x) : Canon(p) # p /\ Canon(p) = d

(* Of a package's source roots a later one does not lie around an earlier,  *)
(* unless one of them is found through a link.                              *)
LayoutInv ==
    /\ world \in Worlds
    /\ IsSeq(discovered)
    /\ IsSeq(packages)
    /\ roots \in Seq(SourceRoot)
    /\ \A r \in 1 .. Len(roots) : roots[r].package <= Len(packages)
    /\ \A q, r \in 1 .. Len(roots) :
           q < r /\ roots[q].package = roots[r].package /\ IsPrefix(roots[r].root, roots[q].root)
               => ThroughLink(roots[q].root) \/ ThroughLink(roots[r].root)

LEMMA LayoutInit ==
    ASSUME Init
    PROVE  LayoutInv
  <1>1. world \in Worlds /\ discovered = <<>> /\ packages = <<>> /\ roots = <<>>
    BY DEF Init
  <1>2. roots \in Seq(SourceRoot) /\ Len(roots) = 0
    BY <1>1
  <1>3. packages \in Seq({}) /\ discovered \in Seq({})
    BY <1>1
  <1>4. IsSeq(packages) /\ IsSeq(discovered)
    BY <1>3, SeqIsSeq
  <1> QED
    BY <1>1, <1>2, <1>4 DEF LayoutInv

LEMMA LinksStay ==
    ASSUME world' = world, \A x : Has(discovered, x) => Has(discovered', x)
    PROVE  \A d : ThroughLink(d) => ThroughLink(d)'
  <1>1. \A x : SourceDirs(x)' = SourceDirs(x)
    BY DEF SourceDirs, Conf, IsPackage, NoConf, IsDir, Canon
  <1>2. \A p : Canon(p)' = Canon(p)
    BY DEF Canon
  <1>3. ASSUME NEW d, ThroughLink(d)
        PROVE  ThroughLink(d)'
    <2>1. PICK x : Has(discovered, x) /\ \E p \in SourceDirs(x) : Canon(p) # p /\ Canon(p) = d
      BY <1>3 DEF ThroughLink
    <2>2. Has(discovered', x) /\ \E p \in SourceDirs(x)' : Canon(p)' # p /\ Canon(p)' = d
      BY <1>1, <1>2, <2>1
    <2> QED
      BY <2>2 DEF ThroughLink, Has
  <1> QED
    BY <1>3

LEMMA LayoutKept ==
    ASSUME LayoutInv, world' = world, packages' = packages, roots' = roots,
           IsSeq(discovered'), \A x : Has(discovered, x) => Has(discovered', x)
    PROVE  LayoutInv'
  <1>1. \A d : ThroughLink(d) => ThroughLink(d)'
    BY LinksStay
  <1>2. ASSUME NEW q \in 1 .. Len(roots'), NEW r \in 1 .. Len(roots'),
               q < r, roots'[q].package = roots'[r].package, IsPrefix(roots'[r].root, roots'[q].root)
        PROVE  ThroughLink(roots[q].root)' \/ ThroughLink(roots[r].root)'
    <2>1. PICK d, e : d = roots[q].root /\ e = roots[r].root
      OBVIOUS
    <2>2. ThroughLink(d) \/ ThroughLink(e)
      BY <1>2, <2>1 DEF LayoutInv
    <2>3. ThroughLink(d)' \/ ThroughLink(e)'
      BY <1>1, <2>2
    <2>4. d = roots'[q].root /\ e = roots'[r].root
      BY <2>1
    <2> QED
      BY <2>3, <2>4 DEF ThroughLink
  <1> QED
    BY <1>2 DEF LayoutInv, SourceRoot, IsSeq

LEMMA FewAreFinite ==
    ASSUME NEW a, NEW b, NEW c, NEW d, NEW e, NEW f, NEW g
    PROVE  IsFiniteSet({a, b, c, d, e, f, g})
  <1> DEFINE S == {} \cup {a}
             T == S \cup {b} \cup {c}
             U == T \cup {d} \cup {e}
             V == U \cup {f} \cup {g}
  <1>1. IsFiniteSet(S)
    BY FS_EmptySet, FS_AddElement
  <1>2. IsFiniteSet(T)
    <2> HIDE DEF S
    <2>1. IsFiniteSet(S \cup {b})
      BY <1>1, FS_AddElement
    <2> QED
      BY <2>1, FS_AddElement
  <1>3. IsFiniteSet(U)
    <2> HIDE DEF T
    <2>1. IsFiniteSet(T \cup {d})
      BY <1>2, FS_AddElement
    <2> QED
      BY <2>1, FS_AddElement
  <1>4. IsFiniteSet(V)
    <2> HIDE DEF U
    <2>1. IsFiniteSet(U \cup {f})
      BY <1>3, FS_AddElement
    <2> QED
      BY <2>1, FS_AddElement
  <1>5. V = {a, b, c, d, e, f, g}
    OBVIOUS
  <1> QED
    BY <1>4, <1>5

(* A package has at most a handful of source directories, all of which lead *)
(* to a directory.                                                          *)
LEMMA SourceDirsFinite ==
    ASSUME NEW package
    PROVE  IsFiniteSet(SourceDirs(package)) /\ \A p \in SourceDirs(package) : Canon(p) \in world.dirs
  <1> DEFINE d == package.root
             F == Conf(d).foundry
             H == Conf(d).hardhat
             T == {d \o F.src, d \o <<"contracts">>, d \o <<"test">>, d \o <<"script">>,
                   d \o H.sources, d \o H.tests, d}
  <1>1. IsFiniteSet(T)
    BY FewAreFinite
  <1>2. SourceDirs(package) \subseteq T
    BY DEF SourceDirs
  <1>3. \A p \in SourceDirs(package) : Canon(p) \in world.dirs
    BY DEF SourceDirs, IsDir
  <1> HIDE DEF T
  <1> QED
    BY <1>1, <1>2, <1>3, FS_Subset

LEMMA LayoutAdd ==
    ASSUME LayoutInv, AddPackage
    PROVE  LayoutInv'
  <1>1. PICK package, n : package = discovered[next] /\ n = Len(packages)
    OBVIOUS
  <1>2. world' = world /\ discovered' = discovered /\ n \in Nat /\ Has(discovered, package)
    <2>1. world' = world /\ discovered' = discovered /\ next \in DOMAIN discovered
      BY DEF AddPackage, graph
    <2> QED
      BY <1>1, <2>1, IsSeqBounds DEF LayoutInv, Has
  <1> DEFINE D == {p \in SourceDirs(package) : CollectSolFiles(Canon(p)) # {}}
  <1>3. CASE UNCHANGED <<packages, roots>>
    <2>1. IsSeq(discovered') /\ \A x : Has(discovered, x) => Has(discovered', x)
      BY <1>2 DEF LayoutInv
    <2> QED
      BY <1>2, <1>3, <2>1, LayoutKept
  <1>4. CASE ~UNCHANGED <<packages, roots>>
    <2>1. packages' = Append(packages, [root |-> package.root, remappings |-> Remappings(package.root)])
      BY <1>1, <1>4 DEF AddPackage
    <2>2. PICK dirs \in SetToSeqs(D) :
            /\ Sorted(dirs)
            /\ roots' = roots \o [i \in 1 .. Len(dirs) |->
                                     [root |-> Canon(dirs[i]), package |-> n + 1,
                                      files |-> CollectSolFiles(Canon(dirs[i]))]]
      BY <1>1, <1>4 DEF AddPackage
    <2>3. PICK added : added = [i \in 1 .. Len(dirs) |->
                                  [root |-> Canon(dirs[i]), package |-> n + 1,
                                   files |-> CollectSolFiles(Canon(dirs[i]))]]
      OBVIOUS
    <2>4. roots' = roots \o added
      BY <2>3, <2>2
    <2>5. /\ DOMAIN dirs = 1 .. Len(dirs) /\ Len(dirs) \in Nat
          /\ \A i \in 1 .. Len(dirs) : dirs[i] \in SourceDirs(package) /\ Canon(dirs[i]) \in Path
      <3>1. IsFiniteSet(D) /\ \A p \in D : p \in SourceDirs(package) /\ Canon(p) \in Path
        BY SourceDirsFinite, WorldsAssumption, FS_Subset DEF LayoutInv
      <3> HIDE DEF D
      <3>2. dirs \in Seq(D) /\ Len(dirs) \in Nat
        BY <3>1, OrderHasAll
      <3> QED
        BY <3>1, <3>2
    <2>6. ASSUME NEW i \in 1 .. Len(dirs), NEW j \in 1 .. Len(dirs), i < j,
                 IsPrefix(Canon(dirs[j]), Canon(dirs[i]))
          PROVE  ThroughLink(Canon(dirs[i])) \/ ThroughLink(Canon(dirs[j]))
      <3>1. Canon(dirs[i]) # dirs[i] \/ Canon(dirs[j]) # dirs[j]
        BY <2>2, <2>6, <2>5, SortedOrders
      <3> QED
        BY <1>2, <2>5, <3>1 DEF ThroughLink
    <2>7. \A i \in 1 .. Len(dirs) : /\ added[i].root = Canon(dirs[i]) /\ added[i].package = n + 1
                                    /\ added[i] \in SourceRoot
      <3>1. \A dir : CollectSolFiles(dir) \in SUBSET world.sol
        BY DEF CollectSolFiles
      <3>2. n + 1 \in Nat /\ \A i \in 1 .. Len(dirs) : Canon(dirs[i]) \in Path
        BY <1>2, <2>5
      <3> QED
        BY <2>3, <3>1, <3>2 DEF SourceRoot
    <2>8. added \in Seq(SourceRoot) /\ Len(added) = Len(dirs)
      <3>1. added \in [1 .. Len(dirs) -> SourceRoot]
        BY <2>3, <2>7
      <3> QED
        BY <2>5, <3>1
    <2>9. PICK a, b : a = Len(roots) /\ b = Len(dirs)
      OBVIOUS
    <2>10. /\ a \in Nat /\ b \in Nat /\ roots \in Seq(SourceRoot)
           /\ roots' \in Seq(SourceRoot) /\ Len(roots') = a + b
           /\ \A i \in 1 .. a : roots'[i] = roots[i]
           /\ \A i \in 1 .. b : roots'[a + i] = added[i]
      <3>1. a \in Nat /\ b \in Nat /\ roots \in Seq(SourceRoot)
        BY <2>5, <2>9 DEF LayoutInv
      <3>2. roots' \in Seq(SourceRoot) /\ Len(roots') = a + b
        <4>1. roots \o added \in Seq(SourceRoot) /\ Len(roots \o added) = Len(roots) + Len(added)
          BY <3>1, <2>8, ConcatProperties
        <4> QED
          BY <4>1, <2>4, <2>8, <2>9
      <3>3. /\ \A i \in 1 .. a : roots'[i] = roots[i]
            /\ \A i \in 1 .. b : roots'[a + i] = added[i]
        BY <3>1, <2>4, <2>8, <2>9, Joined
      <3> QED
        BY <3>1, <3>2, <3>3
    <2>11. IsSeq(packages') /\ Len(packages') = n + 1
      <3>1. PICK q, x : q = packages' /\ q = Append(packages, x)
        BY <2>1
      <3>2. IsSeq(packages)
        BY DEF LayoutInv
      <3>3. IsSeq(q) /\ Len(q) = Len(packages) + 1
        BY <3>1, <3>2, Appended
      <3> QED
        BY <1>1, <3>1, <3>3
    <2>12. ASSUME NEW r \in 1 .. a + b
           PROVE  (r \in 1 .. a /\ roots'[r] = roots[r])
                  \/ \E i \in 1 .. b : r = a + i /\ roots'[r] = added[i]
      <3>1. CASE r \in 1 .. a
        BY <2>10, <3>1
      <3>2. CASE r \notin 1 .. a
        <4>1. PICK i \in 1 .. b : r = a + i
          <5>1. r - a \in 1 .. b /\ r = a + (r - a)
            BY <2>10, <3>2
          <5> QED
            BY <5>1
        <4>2. roots'[a + i] = added[i]
          BY <2>10
        <4> QED
          BY <4>1, <4>2
      <3> QED
        BY <3>1, <3>2
    <2>13. \A r \in 1 .. a : roots[r].package <= n /\ roots[r].package \in Nat
      <3>1. \A r \in 1 .. a : roots[r] \in SourceRoot /\ roots[r].package <= Len(packages)
        BY <2>9, <2>10 DEF LayoutInv
      <3> QED
        BY <1>1, <3>1 DEF SourceRoot
    <2>14. \A r \in 1 .. a + b : roots'[r].package <= n + 1
      <3>1. \A i \in 1 .. b : added[i].package = n + 1
        BY <2>7, <2>9
      <3>2. \A r \in 1 .. a : roots[r].package <= n + 1
        BY <1>2, <2>13
      <3> QED
        BY <1>2, <2>12, <3>1, <3>2
    <2>15. ASSUME NEW q \in 1 .. a + b, NEW r \in 1 .. a + b,
                  q < r, roots'[q].package = roots'[r].package,
                  IsPrefix(roots'[r].root, roots'[q].root)
           PROVE  ThroughLink(roots'[q].root) \/ ThroughLink(roots'[r].root)
      <3>1. CASE r \in 1 .. a
        <4>1. q \in 1 .. a
          BY <2>10, <2>15, <3>1
        <4>2. roots'[r] = roots[r] /\ roots'[q] = roots[q]
          BY <2>10, <3>1, <4>1
        <4> QED
          BY <2>9, <2>15, <3>1, <4>1, <4>2 DEF LayoutInv
      <3>2. CASE r \notin 1 .. a
        <4>1. PICK j \in 1 .. b : r = a + j /\ roots'[r] = added[j]
          BY <3>2, <2>12
        <4>2. CASE q \in 1 .. a
          <5>1. roots'[q].package <= n /\ roots'[q].package \in Nat
            BY <4>2, <2>10, <2>13
          <5>2. roots'[r].package = n + 1
            BY <4>1, <2>7, <2>9
          <5> QED
            BY <1>2, <2>15, <5>1, <5>2
        <4>3. CASE q \notin 1 .. a
          <5>1. PICK i \in 1 .. b : q = a + i /\ roots'[q] = added[i]
            BY <4>3, <2>12
          <5>2. i < j /\ ~(j <= i)
            BY <2>10, <2>15, <4>1, <5>1
          <5>3. roots'[q].root = Canon(dirs[i]) /\ roots'[r].root = Canon(dirs[j])
            BY <2>7, <2>9, <4>1, <5>1
          <5>4. i \in 1 .. Len(dirs) /\ j \in 1 .. Len(dirs)
            BY <2>9
          <5>5. ThroughLink(Canon(dirs[i])) \/ ThroughLink(Canon(dirs[j]))
            BY <2>15, <2>6, <5>2, <5>3, <5>4
          <5> QED
            BY <5>3, <5>5
        <4> QED
          BY <4>2, <4>3
      <3> QED
        BY <3>1, <3>2
    <2>16. SourceRoot' = SourceRoot
      BY <1>2 DEF SourceRoot
    <2>17. \A d : ThroughLink(d) => ThroughLink(d)'
      BY <1>2, LinksStay
    <2>18. ASSUME NEW q \in 1 .. Len(roots'), NEW r \in 1 .. Len(roots'),
                  q < r, roots'[q].package = roots'[r].package,
                  IsPrefix(roots'[r].root, roots'[q].root)
           PROVE  ThroughLink(roots[q].root)' \/ ThroughLink(roots[r].root)'
      <3>1. PICK d, e : d = roots'[q].root /\ e = roots'[r].root
        OBVIOUS
      <3>2. q \in 1 .. a + b /\ r \in 1 .. a + b
        BY <2>10
      <3>3. ThroughLink(d) \/ ThroughLink(e)
        BY <2>15, <2>18, <3>1, <3>2
      <3>4. ThroughLink(d)' \/ ThroughLink(e)'
        BY <2>17, <3>3
      <3> QED
        BY <3>1, <3>4 DEF ThroughLink
    <2>19. IsSeq(discovered')
      BY <1>2 DEF LayoutInv
    <2> QED
      BY <1>2, <2>10, <2>11, <2>14, <2>16, <2>18, <2>19 DEF LayoutInv
  <1> QED
    BY <1>3, <1>4


LEMMA MaxIsGreatest ==
    ASSUME NEW b \in Nat, NEW T \in SUBSET (0 .. b), T # {}
    PROVE  Max(T) \in T /\ \A n \in T : n <= Max(T)
  <1>1. PICK m \in T : \A n \in T : n <= m
    BY Greatest
  <1>2. \A n \in T : n \in Nat
    OBVIOUS
  <1>3. \A n \in T : m >= n
    BY <1>1, <1>2
  <1>4. Max(T) \in T /\ \A n \in T : Max(T) >= n
    BY <1>3 DEF Max
  <1> QED
    BY <1>2, <1>4

LEMMA InRootOrderOrders ==
    ASSUME NEW S, IsFiniteSet(S), \A x \in S : x.root \in Nat
    PROVE  /\ InRootOrder(S) \in Seq(S)
           /\ \A i, j \in 1 .. Len(InRootOrder(S)) :
                  i < j => /\ InRootOrder(S)[i] # InRootOrder(S)[j]
                           /\ InRootOrder(S)[i].root <= InRootOrder(S)[j].root
           /\ \A x \in S : Has(InRootOrder(S), x)
  <1> DEFINE rank == [x \in S |-> x.root]
             InOrder(s) == \A i, j \in DOMAIN s : i < j => s[i].root <= s[j].root
  <1>1. rank \in [S -> Nat]
    OBVIOUS
  <1>2. PICK s \in SetToSeqs(S) : \A i, j \in DOMAIN s : i < j => rank[s[i]] <= rank[s[j]]
    <2> HIDE DEF rank
    <2> QED
      BY <1>1, RankedOrder
  <1>3. InOrder(s)
    <2>1. s \in Seq(S)
      BY OrderHasAll
    <2>2. \A i \in DOMAIN s : s[i] \in S /\ rank[s[i]] = s[i].root
      BY <2>1
    <2> HIDE DEF rank
    <2> QED
      BY <1>2, <2>2
  <1>4. InRootOrder(S) = CHOOSE t \in SetToSeqs(S) : InOrder(t)
    BY DEF InRootOrder
  <1> HIDE DEF InOrder
  <1>5. InRootOrder(S) \in SetToSeqs(S) /\ InOrder(InRootOrder(S))
    BY <1>3, <1>4
  <1>6. PICK t \in SetToSeqs(S) : t = InRootOrder(S)
    BY <1>5
  <1>7. /\ t \in Seq(S) /\ Len(t) \in Nat /\ DOMAIN t = 1 .. Len(t)
        /\ \A i, j \in 1 .. Len(t) : t[i] = t[j] => i = j
        /\ \A x \in S : Has(t, x)
    BY OrderHasAll DEF Has
  <1>8. \A i, j \in 1 .. Len(t) : i < j => t[i] # t[j] /\ t[i].root <= t[j].root
    BY <1>5, <1>6, <1>7 DEF InOrder
  <1> QED
    BY <1>6, <1>7, <1>8

-----------------------------------------------------------------------------
(* The files that are registered. *)

IsInput(x) == x = [path |-> x.path, root |-> x.root, text |-> x.text,
                   onDisk |-> x.onDisk, atStart |-> x.atStart]

Around(path) == {r \in Root : IsPrefix(roots[r].root, path)}

(* The source roots around are one package's, none found through a link.    *)
LinkedAround(path) == \E d : ThroughLink(d) /\ IsPrefix(d, path)
Alone(path) == /\ ~LinkedAround(path)
               /\ Cardinality({roots[r].package : r \in Around(path)}) = 1

InputInv(i) ==
    /\ IsInput(inputs[i])
    /\ inputs[i].path \in FilePaths(world)
    /\ inputs[i].root \in Root
    /\ inputs[i].onDisk => inputs[i].path \in disk
    /\ ~inputs[i].atStart /\ Alone(inputs[i].path) => inputs[i].root = Max(Around(inputs[i].path))
    /\ inputs[i].path \in DOMAIN file
    /\ i <= file[inputs[i].path]

(* Two inputs for a file come from loading source roots that lie in each    *)
(* other; the last input for a path is the registered one.                  *)
FilesInv ==
    /\ IsSeq(inputs)
    /\ \A i \in 1 .. Len(inputs) : InputInv(i)
    /\ \A p \in DOMAIN file : file[p] \in 1 .. Len(inputs) /\ inputs[file[p]].path = p
    /\ \A i, j \in 1 .. Len(inputs) :
           i < j /\ inputs[i].path = inputs[j].path =>
               /\ inputs[i].root < inputs[j].root
               /\ inputs[i].path \in roots[inputs[i].root].files
               /\ inputs[i].path \in roots[inputs[j].root].files

(* Before loading there are no files; from then on, a source root's list    *)
(* has all of its files.                                                    *)
RegistryInv ==
    /\ FilesInv
    /\ status = "discovering" => inputs = <<>> /\ disk = world.sol
    /\ status # "discovering" => /\ DOMAIN rootFiles = Root
                                 /\ \A r \in Root : rootFiles[r] = {i \in 1 .. Len(inputs) : inputs[i].root = r}

LEMMA RegistryInitially ==
    ASSUME RegistryInit
    PROVE  RegistryInv
  <1>1. inputs = <<>> /\ file = <<>> /\ disk = world.sol /\ status = "discovering"
    BY DEF RegistryInit
  <1>2. inputs \in Seq({}) /\ Len(inputs) = 0 /\ DOMAIN file = {}
    BY <1>1
  <1>3. IsSeq(inputs)
    BY <1>2, SeqIsSeq
  <1>4. \A i : i \notin 1 .. Len(inputs)
    BY <1>2
  <1>5. FilesInv
    BY <1>2, <1>3, <1>4 DEF FilesInv
  <1> QED
    BY <1>1, <1>5 DEF RegistryInv

(* While packages are discovered there is nothing to keep in step. *)
LEMMA RegistryDiscovering ==
    ASSUME RegistryInv, status = "discovering", world' = world,
           UNCHANGED <<disk, registry, status>>
    PROVE  RegistryInv'
  <1>1. /\ inputs = <<>> /\ inputs' = <<>> /\ file' = file /\ disk' = world.sol
        /\ status' = "discovering" /\ DOMAIN file \subseteq {}
    <2>1. inputs = <<>> /\ file' = file /\ disk' = world.sol /\ inputs' = inputs /\ status' = status
      BY DEF RegistryInv, registry
    <2>2. \A n : n \notin 1 .. Len(inputs)
      BY <2>1
    <2>3. \A p \in DOMAIN file : file[p] \in 1 .. Len(inputs)
      BY DEF RegistryInv, FilesInv
    <2> QED
      BY <2>1, <2>2, <2>3
  <1>2. IsSeq(inputs') /\ \A i : i \notin 1 .. Len(inputs')
    <2>1. inputs' = inputs /\ Len(inputs') = 0
      BY <1>1
    <2> QED
      BY <2>1 DEF RegistryInv, FilesInv
  <1>3. FilesInv'
    BY <1>1, <1>2 DEF FilesInv
  <1> QED
    BY <1>1, <1>3 DEF RegistryInv


LEMMA RootBounds ==
    ASSUME LayoutInv
    PROVE  /\ Len(roots) \in Nat /\ Root = 1 .. Len(roots)
           /\ \A r \in Root : roots[r].root \in Path /\ roots[r].files \subseteq world.sol
  <1>1. roots \in Seq(SourceRoot)
    BY DEF LayoutInv
  <1>2. /\ Len(roots) \in Nat /\ Root = 1 .. Len(roots)
        /\ \A r \in 1 .. Len(roots) : roots[r] \in SourceRoot
    BY <1>1 DEF Root
  <1>3. \A x \in SourceRoot : x.root \in Path /\ x.files \subseteq world.sol
    BY DEF SourceRoot
  <1> QED
    BY <1>2, <1>3

LEMMA SameLayout ==
    ASSUME UNCHANGED discoveryVars
    PROVE  /\ world' = world /\ roots' = roots /\ packages' = packages /\ Root' = Root
           /\ \A p : Around(p)' = Around(p) /\ Alone(p)' = Alone(p)
           /\ \A p : Canon(p)' = Canon(p)
  <1>1. world' = world /\ roots' = roots /\ packages' = packages
    BY DEF discoveryVars, graph, layout
  <1>2. Root' = Root
    BY <1>1 DEF Root
  <1>3. \A p : Around(p)' = Around(p)
    BY <1>1 DEF Around, Root
  <1>4. \A p : Alone(p)' = Alone(p)
    <2>1. \A x : SourceDirs(x)' = SourceDirs(x)
      BY <1>1 DEF SourceDirs, Conf, IsPackage, NoConf, IsDir, Canon
    <2>2. \A d : ThroughLink(d)' = ThroughLink(d)
      <3>1. discovered' = discovered /\ \A p : Canon(p)' = Canon(p)
        BY <1>1 DEF discoveryVars, graph, Canon
      <3> QED
        BY <2>1, <3>1 DEF ThroughLink, Has
    <2>3. \A p : LinkedAround(p)' = LinkedAround(p)
      BY <2>2 DEF LinkedAround
    <2> QED
      BY <1>1, <2>3 DEF Alone, Around, Root
  <1>5. \A p : Canon(p)' = Canon(p)
    BY <1>1 DEF Canon
  <1> QED
    BY <1>1, <1>2, <1>3, <1>4, <1>5

(* A file's own path is what links make of it. *)
LEMMA FilePathsCanonical ==
    ASSUME world \in Worlds
    PROVE  /\ \A p \in FilePaths(world) : Canon(p) = p
           /\ \A p \in world.paths : Canon(p) \in FilePaths(world)
           /\ world.sol \subseteq FilePaths(world)
  <1>1. ASSUME NEW p \in FilePaths(world)
        PROVE  Canon(p) = p
    <2>1. \A l \in DOMAIN world.link : ~IsPrefix(l, p)
      BY <1>1, PathsAssumption
    <2>2. {l \in DOMAIN world.link : IsPrefix(l, p)} = {}
      BY <2>1
    <2> QED
      BY <2>2 DEF Canon, Resolved
  <1>2. \A p \in world.paths : Canon(p) \in FilePaths(world)
    BY DEF Canon, FilePaths
  <1>3. world.sol \subseteq FilePaths(world)
    BY DEF FilePaths
  <1> QED
    BY <1>1, <1>2, <1>3

LEMMA RegistryLoad ==
    ASSUME RegistryInv, LayoutInv, Load
    PROVE  RegistryInv'
  <1> DEFINE Loaded(x) == [path |-> x[2], root |-> x[1], text |-> world.text[x[2]],
                           onDisk |-> TRUE, atStart |-> TRUE]
             pairs == {y \in Root \X world.sol : y[2] \in roots[y[1]].files}
             S == {Loaded(x) : x \in pairs}
             all == InRootOrder(S)
  <1>1. /\ all = InRootOrder(S)
        /\ inputs' = all
        /\ file' = [path \in {all[i].path : i \in DOMAIN all} |->
                       Max({i \in DOMAIN all : all[i].path = path})]
        /\ rootFiles' = [r \in Root |-> {i \in DOMAIN all : all[i].root = r}]
    BY Zenon DEF Load
  <1> HIDE DEF all
  <1>2. status' = "serving" /\ UNCHANGED discoveryVars /\ disk' = disk /\ disk = world.sol /\ world \in Worlds
    BY DEF Load, RegistryInv, LayoutInv
  <1>3. IsFiniteSet(S)
    <2>1. IsFiniteSet(Root)
      BY RootBounds, FS_Interval
    <2>2. IsFiniteSet(world.sol)
      BY <1>2, WorldsAssumption
    <2>3. IsFiniteSet(pairs)
      <3>1. IsFiniteSet(Root \X world.sol)
        BY <2>1, <2>2, FS_Product
      <3> QED
        BY <3>1, FS_Subset
    <2> HIDE DEF pairs
    <2> DEFINE f == [x \in pairs |-> Loaded(x)]
    <2>4. f \in Surjection(pairs, S)
      BY DEF Surjection
    <2> HIDE DEF f, S
    <2> QED
      BY <2>3, <2>4, FS_Surjection
  <1>4. ASSUME NEW x \in S
        PROVE  /\ x.root \in Root /\ x.root \in Nat /\ x.path \in world.sol
               /\ x.path \in roots[x.root].files /\ IsInput(x)
               /\ x.onDisk /\ x.atStart
               /\ x.text = world.text[x.path]
    <2>1. PICK y \in pairs : x = Loaded(y)
      OBVIOUS
    <2>2. y[1] \in Root /\ y[2] \in world.sol /\ y[2] \in roots[y[1]].files
      OBVIOUS
    <2>3. y[1] \in Nat
      BY <2>2, RootBounds
    <2>4. x.path = y[2] /\ x.root = y[1] /\ x.text = world.text[y[2]] /\ x.onDisk /\ x.atStart
      BY <2>1
    <2>5. IsInput(x)
      BY <2>1 DEF IsInput
    <2> QED
      BY <2>2, <2>3, <2>4, <2>5
  <1>5. \A x, y \in S : x.path = y.path /\ x.root = y.root => x = y
    <2> SUFFICES ASSUME NEW x \in S, NEW y \in S, x.path = y.path, x.root = y.root
                 PROVE  x = y
      OBVIOUS
    <2>1. PICK u \in pairs : x = Loaded(u)
      OBVIOUS
    <2>2. PICK v \in pairs : y = Loaded(v)
      OBVIOUS
    <2>3. u[1] = v[1] /\ u[2] = v[2]
      BY <2>1, <2>2
    <2> QED
      BY <2>1, <2>2, <2>3
  <1> HIDE DEF S
  <1>6. /\ all \in Seq(S) /\ Len(all) \in Nat /\ DOMAIN all = 1 .. Len(all)
        /\ \A i, j \in 1 .. Len(all) : i < j => all[i] # all[j] /\ all[i].root <= all[j].root
    <2>1. all \in Seq(S) /\ \A i, j \in 1 .. Len(all) : i < j => all[i] # all[j] /\ all[i].root <= all[j].root
      BY <1>1, <1>3, <1>4, InRootOrderOrders
    <2> QED
      BY <2>1
  <1>7. \A i \in 1 .. Len(all) : all[i] \in S
    BY <1>6
  <1>8. ASSUME NEW i \in 1 .. Len(all)
        PROVE  /\ all[i].path \in DOMAIN file'
               /\ file'[all[i].path] \in 1 .. Len(all)
               /\ all[file'[all[i].path]].path = all[i].path
               /\ i <= file'[all[i].path]
    <2> DEFINE Of == {k \in DOMAIN all : all[k].path = all[i].path}
    <2>1. all[i].path \in DOMAIN file' /\ file'[all[i].path] = Max(Of)
      BY <1>1, <1>6
    <2>2. i \in Of /\ Of \in SUBSET (0 .. Len(all)) /\ Of # {} /\ Of \subseteq 1 .. Len(all)
      BY <1>6
    <2>3. \A k \in Of : all[k].path = all[i].path
      OBVIOUS
    <2> HIDE DEF Of
    <2>4. Max(Of) \in Of /\ i <= Max(Of)
      BY <1>6, <2>2, MaxIsGreatest
    <2> QED
      BY <2>1, <2>2, <2>3, <2>4
  <1>9. ASSUME NEW i \in 1 .. Len(all), NEW j \in 1 .. Len(all), i < j, all[i].path = all[j].path
        PROVE  all[i].root < all[j].root
    <2>1. all[i] # all[j] /\ all[i].root <= all[j].root
      BY <1>6, <1>9
    <2>2. all[i].root # all[j].root
      BY <2>1, <1>5, <1>7, <1>9
    <2>3. all[i].root \in Nat /\ all[j].root \in Nat
      BY <1>4, <1>7
    <2> QED
      BY <2>1, <2>2, <2>3
  <1>10. /\ world' = world /\ roots' = roots /\ Root' = Root
    BY <1>2, SameLayout
  <1>11. IsSeq(inputs')
    BY <1>1, <1>6, SeqIsSeq
  <1>12. \A i \in 1 .. Len(all) :
             /\ IsInput(all[i]) /\ all[i].path \in FilePaths(world) /\ all[i].root \in Root
             /\ all[i].path \in disk /\ all[i].atStart
             /\ all[i].path \in roots[all[i].root].files
    BY <1>2, <1>4, <1>7, FilePathsCanonical
  <1>13. \A p \in DOMAIN file' : file'[p] \in 1 .. Len(all) /\ all[file'[p]].path = p
    <2>1. \A p \in DOMAIN file' : \E i \in 1 .. Len(all) : p = all[i].path
      BY <1>1, <1>6
    <2> QED
      BY <1>8, <2>1
  <1>14. FilesInv'
    <2>1. \A i \in 1 .. Len(inputs') : InputInv(i)'
      BY <1>1, <1>2, <1>8, <1>10, <1>12 DEF InputInv
    <2>2. \A p \in DOMAIN file' : file'[p] \in 1 .. Len(inputs') /\ inputs'[file'[p]].path = p
      BY <1>1, <1>13
    <2>3. \A i, j \in 1 .. Len(inputs') :
              i < j /\ inputs'[i].path = inputs'[j].path =>
                  /\ inputs'[i].root < inputs'[j].root
                  /\ inputs'[i].path \in roots'[inputs'[i].root].files
                  /\ inputs'[i].path \in roots'[inputs'[j].root].files
      <3>1. \A i, j \in 1 .. Len(all) :
                i < j /\ all[i].path = all[j].path =>
                    /\ all[i].root < all[j].root
                    /\ all[i].path \in roots[all[i].root].files
                    /\ all[i].path \in roots[all[j].root].files
        BY <1>9, <1>12
      <3> QED
        BY <1>1, <1>10, <3>1
    <2> QED
      BY <1>11, <2>1, <2>2, <2>3 DEF FilesInv
  <1>15. DOMAIN rootFiles' = Root /\ \A r \in Root : rootFiles'[r] = {i \in 1 .. Len(all) : all[i].root = r}
    BY <1>1, <1>6
  <1> QED
    <2>1. inputs' = all /\ status' = "serving" /\ Root' = Root
      BY <1>1, <1>2, <1>10
    <2> QED
      BY <1>14, <1>15, <2>1 DEF RegistryInv


Retext(s, i, text) == [s EXCEPT ![i].text = text]

LEMMA TextReplaced ==
    ASSUME NEW s, IsSeq(s), NEW i \in 1 .. Len(s), NEW text, \A k \in 1 .. Len(s) : IsInput(s[k]),
           NEW t, t = Retext(s, i, text)
    PROVE  /\ IsSeq(t) /\ Len(t) = Len(s)
           /\ \A k \in 1 .. Len(s) : /\ IsInput(t[k]) /\ t[k].path = s[k].path /\ t[k].root = s[k].root
                                     /\ t[k].onDisk = s[k].onDisk /\ t[k].atStart = s[k].atStart
           /\ t[i].text = text
           /\ \A k \in 1 .. Len(s) : k # i => t[k] = s[k]
  <1>1. PICK x : x = s[i]
    OBVIOUS
  <1>2. PICK y : y = [path |-> x.path, root |-> x.root, text |-> text,
                      onDisk |-> x.onDisk, atStart |-> x.atStart]
    OBVIOUS
  <1>3. x = [path |-> x.path, root |-> x.root, text |-> x.text,
             onDisk |-> x.onDisk, atStart |-> x.atStart]
    BY <1>1 DEF IsInput
  <1>4. [x EXCEPT !.text = text] = y
    <2>1. PICK a, b, c, d, e : a = x.path /\ b = x.root /\ c = x.text /\ d = x.onDisk /\ e = x.atStart
      OBVIOUS
    <2>2. x = [path |-> a, root |-> b, text |-> c, onDisk |-> d, atStart |-> e]
      BY <1>3, <2>1
    <2>3. y = [path |-> a, root |-> b, text |-> text, onDisk |-> d, atStart |-> e]
      BY <1>2, <2>1
    <2> QED
      BY ONLY <2>2, <2>3
  <1>5. /\ y.path = x.path /\ y.root = x.root /\ y.text = text
        /\ y.onDisk = x.onDisk /\ y.atStart = x.atStart
    BY <1>2
  <1>6. IsInput(y)
    BY <1>2, <1>5 DEF IsInput
  <1>7. Len(s) \in Nat /\ DOMAIN s = 1 .. Len(s)
    BY IsSeqBounds
  <1>8. t = [k \in 1 .. Len(s) |-> IF k = i THEN y ELSE s[k]]
    BY <1>1, <1>4, <1>7 DEF Retext
  <1>9. \A k \in 1 .. Len(s) : t[k] = IF k = i THEN y ELSE s[k]
    BY <1>8
  <1>10. IsSeq(t) /\ Len(t) = Len(s)
    <2> DEFINE T == ToSet(s) \cup {y}
    <2>1. s \in Seq(ToSet(s))
      BY DEF IsSeq
    <2>2. \A k \in 1 .. Len(s) : s[k] \in T /\ y \in T
      BY <2>1
    <2> HIDE DEF T
    <2>3. t \in [1 .. Len(s) -> T]
      BY <1>8, <2>2
    <2>4. t \in Seq(T) /\ Len(t) = Len(s)
      BY <1>7, <2>3, FunctionIsSeq
    <2> QED
      BY <2>4, SeqIsSeq
  <1> QED
    BY <1>1, <1>5, <1>6, <1>9, <1>10

LEMMA RegistrySetText ==
    ASSUME RegistryInv, status # "discovering", UNCHANGED <<discoveryVars, disk, status>>,
           NEW i \in 1 .. Len(inputs), NEW text, SetText(i, text)
    PROVE  RegistryInv'
  <1>1. PICK t : t = inputs' /\ t = Retext(inputs, i, text)
    BY DEF SetText, Retext
  <1>2. file' = file /\ rootFiles' = rootFiles /\ disk' = disk /\ status' = status
    BY DEF SetText
  <1>3. /\ IsSeq(t) /\ Len(t) = Len(inputs)
        /\ \A k \in 1 .. Len(inputs) : /\ IsInput(t[k]) /\ t[k].path = inputs[k].path
                                       /\ t[k].root = inputs[k].root
                                       /\ t[k].onDisk = inputs[k].onDisk /\ t[k].atStart = inputs[k].atStart
    <2>1. IsSeq(inputs) /\ \A k \in 1 .. Len(inputs) : IsInput(inputs[k])
      BY DEF RegistryInv, FilesInv, InputInv
    <2> QED
      BY <1>1, <2>1, TextReplaced
  <1>4. /\ world' = world /\ roots' = roots /\ Root' = Root
        /\ \A p : Around(p)' = Around(p) /\ Alone(p)' = Alone(p)
    BY SameLayout
  <1>5. ASSUME NEW k \in 1 .. Len(inputs)
        PROVE  InputInv(k)'
    <2>1. /\ inputs[k].path \in FilePaths(world) /\ inputs[k].root \in Root
          /\ inputs[k].onDisk => inputs[k].path \in disk
          /\ inputs[k].path \in DOMAIN file /\ k <= file[inputs[k].path]
          /\ ~inputs[k].atStart /\ Alone(inputs[k].path) => inputs[k].root = Max(Around(inputs[k].path))
      BY DEF RegistryInv, FilesInv, InputInv
    <2>2. PICK p : p = inputs[k].path /\ p = inputs'[k].path
      BY <1>1, <1>3
    <2>3. ~inputs'[k].atStart /\ Alone(p)' => inputs'[k].root = Max(Around(p)')
      BY <1>1, <1>3, <1>4, <2>1, <2>2
    <2>4. /\ p \in FilePaths(world') /\ inputs'[k].root \in Root'
          /\ inputs'[k].onDisk => p \in disk'
          /\ p \in DOMAIN file' /\ k <= file'[p] /\ IsInput(inputs'[k])
      BY <1>1, <1>2, <1>3, <1>4, <2>1, <2>2
    <2> QED
      BY <2>2, <2>3, <2>4 DEF InputInv
  <1>6. \A p \in DOMAIN file' : file'[p] \in 1 .. Len(inputs') /\ inputs'[file'[p]].path = p
    <2>1. \A p \in DOMAIN file : file[p] \in 1 .. Len(inputs) /\ inputs[file[p]].path = p
      BY DEF RegistryInv, FilesInv
    <2> QED
      BY <1>1, <1>2, <1>3, <2>1
  <1>7. \A j, k \in 1 .. Len(inputs') :
            j < k /\ inputs'[j].path = inputs'[k].path =>
                /\ inputs'[j].root < inputs'[k].root
                /\ inputs'[j].path \in roots'[inputs'[j].root].files
                /\ inputs'[j].path \in roots'[inputs'[k].root].files
    <2>1. \A j, k \in 1 .. Len(inputs) :
              j < k /\ inputs[j].path = inputs[k].path =>
                  /\ inputs[j].root < inputs[k].root
                  /\ inputs[j].path \in roots[inputs[j].root].files
                  /\ inputs[j].path \in roots[inputs[k].root].files
      BY DEF RegistryInv, FilesInv
    <2> QED
      BY <1>1, <1>3, <1>4, <2>1
  <1>8. FilesInv'
    BY <1>1, <1>3, <1>5, <1>6, <1>7 DEF FilesInv
  <1>9. DOMAIN rootFiles' = Root' /\ \A r \in Root' : rootFiles'[r] = {k \in 1 .. Len(inputs') : inputs'[k].root = r}
    <2>1. DOMAIN rootFiles = Root /\ \A r \in Root : rootFiles[r] = {k \in 1 .. Len(inputs) : inputs[k].root = r}
      BY DEF RegistryInv
    <2> QED
      BY <1>1, <1>2, <1>3, <1>4, <2>1
  <1> QED
    BY <1>2, <1>8, <1>9 DEF RegistryInv


(* A new file goes into a source root around it; if all of these belong to  *)
(* one package the innermost is the last.                                   *)
LEMMA InnermostRoot ==
    ASSUME LayoutInv, NEW path \in Path, SourceRootForPath(path) # None
    PROVE  /\ SourceRootForPath(path) \in Root
           /\ Alone(path) => SourceRootForPath(path) = Max(Around(path))
  <1> DEFINE Depth(r) == Len(roots[r].root)
             deepest == {r \in Around(path) : \A q \in Around(path) : Depth(q) <= Depth(r)}
  <1>1. PICK n \in Nat : n = Len(roots) /\ Root = 1 .. n
    BY RootBounds
  <1>2. /\ Around(path) # {} /\ Around(path) \subseteq Root
        /\ SourceRootForPath(path) = Max(deepest)
    BY DEF SourceRootForPath, Around
  <1>3. /\ Around(path) \in SUBSET (0 .. n)
        /\ \A r \in Around(path) : r \in 1 .. n /\ roots[r].root \in Path /\ IsPrefix(roots[r].root, path)
    BY <1>1, RootBounds DEF Around
  <1>4. \A r \in Around(path) : Depth(r) \in 0 .. Len(path)
    <2>1. \A p \in Path : Len(p) \in Nat
      BY DEF Path
    <2> QED
      BY <1>3, <2>1 DEF IsPrefix
  <1>5. PICK m \in Around(path) : \A q \in Around(path) : Depth(q) <= Depth(m)
    <2> DEFINE D == {Depth(r) : r \in Around(path)}
    <2>1. Len(path) \in Nat /\ D \in SUBSET (0 .. Len(path)) /\ D # {}
      <3>1. Len(path) \in Nat
        BY DEF Path
      <3>2. D \in SUBSET (0 .. Len(path))
        BY <1>4
      <3>3. D # {}
        BY <1>2
      <3> QED
        BY <3>1, <3>2, <3>3
    <2> HIDE DEF D
    <2>2. PICK d \in D : \A e \in D : e <= d
      BY <2>1, Greatest
    <2> QED
      BY <2>2 DEF D
  <1>6. deepest # {} /\ deepest \in SUBSET (0 .. n) /\ deepest \subseteq Around(path)
    BY <1>3, <1>5
  <1>7. \A r \in deepest : \A q \in Around(path) : Depth(q) <= Depth(r)
    OBVIOUS
  <1>8. ASSUME NEW r \in Around(path), \A q \in Around(path) : Depth(q) <= Depth(r)
        PROVE  r \in deepest
    BY <1>8
  <1> HIDE DEF deepest
  <1>9. Max(deepest) \in deepest /\ \A r \in deepest : r <= Max(deepest)
    BY <1>6, MaxIsGreatest
  <1>10. ASSUME Alone(path)
         PROVE  Max(deepest) = Max(Around(path))
    <2>1. PICK l : l = Max(Around(path)) /\ l \in Around(path) /\ \A q \in Around(path) : q <= l
      BY <1>2, <1>3, MaxIsGreatest
    <2>2. \A q \in Around(path) : roots[q].package = roots[l].package
      <3> DEFINE P == {roots[r].package : r \in Around(path)}
      <3>1. IsFiniteSet(P)
        <4> DEFINE f == [r \in Around(path) |-> roots[r].package]
        <4>1. IsFiniteSet(Around(path))
          <5>1. IsFiniteSet(0 .. n)
            BY <1>1, FS_Interval
          <5> QED
            BY <1>3, <5>1, FS_Subset
        <4>2. f \in Surjection(Around(path), P)
          BY DEF Surjection
        <4> HIDE DEF f, P
        <4> QED
          BY <4>1, <4>2, FS_Surjection
      <3>2. Cardinality(P) = 1
        BY <1>10 DEF Alone
      <3>3. PICK x : P = {x}
        <4> HIDE DEF P
        <4> QED
          BY <3>1, <3>2, FS_Singleton
      <3>4. \A q \in Around(path) : roots[q].package \in P
        OBVIOUS
      <3> HIDE DEF P
      <3> QED
        BY <2>1, <3>3, <3>4
    <2>3. ASSUME NEW q \in Around(path), ~(Depth(q) <= Depth(l))
          PROVE  FALSE
      <3>1. q < l
        BY <1>3, <2>1, <2>3
      <3>2. ~IsPrefix(roots[l].root, roots[q].root)
        <4>1. \A r \in Around(path) : ~ThroughLink(roots[r].root)
          BY <1>3, <1>10 DEF Alone, LinkedAround
        <4> QED
          BY <1>1, <1>3, <2>1, <2>2, <3>1, <4>1 DEF LayoutInv
      <3>3. Depth(l) <= Depth(q)
        BY <1>4, <2>1, <2>3
      <3>4. /\ roots[l].root \in Seq(STRING) /\ roots[q].root \in Seq(STRING) /\ path \in Seq(STRING)
            /\ IsPrefix(roots[l].root, path) /\ IsPrefix(roots[q].root, path)
        BY <1>3, <2>1 DEF Path
      <3>5. IsPrefix(roots[l].root, roots[q].root)
        BY <3>3, <3>4, PrefixOfPrefix
      <3> QED
        BY <3>2, <3>5
    <2>4. l \in deepest
      BY <1>8, <2>1, <2>3
    <2>5. Max(deepest) \in Around(path) /\ l <= Max(deepest) /\ Max(deepest) <= l
      BY <1>6, <1>9, <2>1, <2>4
    <2> QED
      BY <1>3, <2>1, <2>5
  <1> QED
    BY <1>2, <1>6, <1>9, <1>10

LEMMA RegistryInsert ==
    ASSUME RegistryInv, LayoutInv, status # "discovering", UNCHANGED <<discoveryVars, disk, status>>,
           NEW path \in FilePaths(world), path \notin DOMAIN file, NEW text,
           NEW r0, r0 = SourceRootForPath(path), r0 # None,
           InsertFile(path, text, r0)
    PROVE  RegistryInv'
  <1>1. PICK n, x : /\ n = Len(inputs)
                    /\ x = [path |-> path, root |-> r0, text |-> text,
                            onDisk |-> path \in disk, atStart |-> FALSE]
    OBVIOUS
  <1>2. PICK t : t = inputs' /\ t = Append(inputs, x)
    BY <1>1 DEF InsertFile
  <1>3. disk' = disk /\ status' = status
    OBVIOUS
  <1>4. /\ IsSeq(t) /\ n \in Nat /\ Len(t) = n + 1
        /\ \A k \in 1 .. n : t[k] = inputs[k]
        /\ t[n + 1] = x
        /\ \A k \in 1 .. n + 1 : k \in 1 .. n \/ k = n + 1
    <2>1. IsSeq(inputs)
      BY DEF RegistryInv, FilesInv
    <2>2. /\ IsSeq(t) /\ Len(inputs) \in Nat /\ Len(t) = Len(inputs) + 1
          /\ \A k \in 1 .. Len(inputs) : t[k] = inputs[k]
          /\ t[Len(inputs) + 1] = x
          /\ \A k \in 1 .. Len(t) : k \in 1 .. Len(inputs) \/ k = Len(inputs) + 1
      BY <1>2, <2>1, Appended
    <2>3. n = Len(inputs)
      BY <1>1
    <2> QED
      BY <2>2, <2>3
  <1>5. /\ DOMAIN file' = DOMAIN file \cup {path}
        /\ file'[path] = n + 1
        /\ \A p \in DOMAIN file : file'[p] = file[p]
    BY <1>1 DEF InsertFile
  <1>6. /\ world' = world /\ roots' = roots /\ Root' = Root
        /\ \A p : Around(p)' = Around(p) /\ Alone(p)' = Alone(p)
    BY SameLayout
  <1>7. path \in Path
    BY PathsAssumption DEF LayoutInv
  <1>8. r0 \in Root /\ (Alone(path) => r0 = Max(Around(path)))
    BY <1>7, InnermostRoot
  <1>9. /\ x.path = path /\ x.root = r0 /\ ~x.atStart /\ IsInput(x)
        /\ x.onDisk => path \in disk
    BY <1>1 DEF IsInput
  <1>10. InputInv(n + 1)'
    <2>1. ~inputs'[n + 1].atStart /\ Alone(path)' => inputs'[n + 1].root = Max(Around(path)')
      BY <1>2, <1>4, <1>6, <1>8, <1>9
    <2>2. /\ path \in FilePaths(world') /\ inputs'[n + 1].root \in Root'
          /\ inputs'[n + 1].onDisk => path \in disk'
          /\ path \in DOMAIN file' /\ n + 1 <= file'[path]
          /\ IsInput(inputs'[n + 1]) /\ inputs'[n + 1].path = path
      BY <1>2, <1>3, <1>4, <1>5, <1>6, <1>8, <1>9
    <2> QED
      BY <2>1, <2>2 DEF InputInv
  <1>11. ASSUME NEW k \in 1 .. n
         PROVE  InputInv(k)'
    <2>1. InputInv(k)
      BY <1>1 DEF RegistryInv, FilesInv
    <2>2. PICK p : p = inputs[k].path /\ p = inputs'[k].path
      BY <1>2, <1>4
    <2>3. ~inputs'[k].atStart /\ Alone(p)' => inputs'[k].root = Max(Around(p)')
      BY <1>2, <1>4, <1>6, <2>1, <2>2 DEF InputInv
    <2>4. /\ p \in FilePaths(world') /\ inputs'[k].root \in Root'
          /\ inputs'[k].onDisk => p \in disk'
          /\ p \in DOMAIN file' /\ k <= file'[p] /\ IsInput(inputs'[k])
      BY <1>2, <1>3, <1>4, <1>5, <1>6, <2>1, <2>2 DEF InputInv
    <2> QED
      BY <2>2, <2>3, <2>4 DEF InputInv
  <1>12. \A p \in DOMAIN file' : file'[p] \in 1 .. n + 1 /\ t[file'[p]].path = p
    <2>1. \A p \in DOMAIN file : file[p] \in 1 .. n /\ inputs[file[p]].path = p
      BY <1>1 DEF RegistryInv, FilesInv
    <2>2. n + 1 \in 1 .. n + 1 /\ \A k \in 1 .. n : k \in 1 .. n + 1
      BY <1>4
    <2>3. ASSUME NEW p \in DOMAIN file'
          PROVE  file'[p] \in 1 .. n + 1 /\ t[file'[p]].path = p
      <3>1. CASE p = path
        BY <3>1, <2>2, <1>4, <1>5, <1>9
      <3>2. CASE p # path
        <4>1. p \in DOMAIN file /\ file'[p] = file[p]
          BY <3>2, <1>5
        <4> QED
          BY <4>1, <2>1, <2>2, <1>4
      <3> QED
        BY <3>1, <3>2
    <2> QED
      BY <2>3
  <1>13. \A k \in 1 .. n : inputs[k].path # path
    BY <1>1 DEF RegistryInv, FilesInv, InputInv
  <1>14. \A j, k \in 1 .. n + 1 :
            j < k /\ t[j].path = t[k].path =>
                /\ t[j].root < t[k].root
                /\ t[j].path \in roots[t[j].root].files
                /\ t[j].path \in roots[t[k].root].files
    <2>1. \A j, k \in 1 .. n :
              j < k /\ inputs[j].path = inputs[k].path =>
                  /\ inputs[j].root < inputs[k].root
                  /\ inputs[j].path \in roots[inputs[j].root].files
                  /\ inputs[j].path \in roots[inputs[k].root].files
      BY <1>1 DEF RegistryInv, FilesInv
    <2>2. ASSUME NEW j \in 1 .. n + 1, NEW k \in 1 .. n + 1, j < k, t[j].path = t[k].path
          PROVE  j \in 1 .. n /\ k \in 1 .. n
      <3>1. j \in 1 .. n
        BY <1>4, <2>2
      <3>2. t[j].path # path
        BY <1>4, <1>13, <3>1
      <3>3. k # n + 1
        BY <1>4, <1>9, <2>2, <3>2
      <3> QED
        BY <1>4, <3>1, <3>3
    <2> QED
      BY <1>4, <2>1, <2>2
  <1>15. FilesInv'
    <2>1. \A k \in 1 .. Len(inputs') : InputInv(k)'
      BY <1>2, <1>4, <1>10, <1>11
    <2>2. IsSeq(inputs')
      BY <1>2, <1>4
    <2>3. \A p \in DOMAIN file' : file'[p] \in 1 .. Len(inputs') /\ inputs'[file'[p]].path = p
      BY <1>2, <1>4, <1>12
    <2>4. \A j, k \in 1 .. Len(inputs') :
              j < k /\ inputs'[j].path = inputs'[k].path =>
                  /\ inputs'[j].root < inputs'[k].root
                  /\ inputs'[j].path \in roots'[inputs'[j].root].files
                  /\ inputs'[j].path \in roots'[inputs'[k].root].files
      BY <1>2, <1>4, <1>6, <1>14
    <2> QED
      BY <2>1, <2>2, <2>3, <2>4 DEF FilesInv
  <1>16. DOMAIN rootFiles = Root /\ \A r \in Root : rootFiles[r] = {k \in 1 .. n : inputs[k].root = r}
    BY <1>1 DEF RegistryInv
  <1>17. /\ DOMAIN rootFiles' = Root
         /\ \A r \in Root : rootFiles'[r] = IF r = r0 THEN rootFiles[r] \cup {n + 1} ELSE rootFiles[r]
    BY <1>1, <1>16 DEF InsertFile
  <1>18. ASSUME NEW r \in Root
         PROVE  rootFiles'[r] = {k \in 1 .. n + 1 : t[k].root = r}
    <2>1. CASE r = r0
      BY <2>1, <1>4, <1>9, <1>16, <1>17
    <2>2. CASE r # r0
      BY <2>2, <1>4, <1>9, <1>16, <1>17
    <2> QED
      BY <2>1, <2>2
  <1> QED
    BY <1>2, <1>3, <1>4, <1>6, <1>15, <1>17, <1>18 DEF RegistryInv


LEMMA RegistryCreate ==
    ASSUME RegistryInv, status # "discovering", UNCHANGED <<discoveryVars, registry, status>>,
           disk \subseteq disk'
    PROVE  RegistryInv'
  <1>1. inputs' = inputs /\ file' = file /\ rootFiles' = rootFiles /\ status' = status
    BY DEF registry
  <1>2. /\ world' = world /\ roots' = roots /\ Root' = Root
        /\ \A p : Around(p)' = Around(p) /\ Alone(p)' = Alone(p)
    BY SameLayout
  <1>3. ASSUME NEW k \in 1 .. Len(inputs)
        PROVE  InputInv(k)'
    <2>1. InputInv(k)
      BY DEF RegistryInv, FilesInv
    <2>2. PICK p : p = inputs[k].path
      OBVIOUS
    <2>3. ~inputs'[k].atStart /\ Alone(p)' => inputs'[k].root = Max(Around(p)')
      BY <1>1, <1>2, <2>1, <2>2 DEF InputInv
    <2>4. /\ p \in FilePaths(world') /\ inputs'[k].root \in Root'
          /\ inputs'[k].onDisk => p \in disk'
          /\ p \in DOMAIN file' /\ k <= file'[p] /\ IsInput(inputs'[k])
          /\ p = inputs'[k].path
      BY <1>1, <1>2, <2>1, <2>2 DEF InputInv
    <2> QED
      BY <2>3, <2>4 DEF InputInv
  <1>4. FilesInv'
    BY <1>1, <1>2, <1>3 DEF RegistryInv, FilesInv
  <1> QED
    BY <1>1, <1>2, <1>4 DEF RegistryInv

LEMMA RegistryKept ==
    ASSUME RegistryInv, UNCHANGED <<discoveryVars, disk, registry>>,
           status' = status \/ (status # "discovering" /\ status' # "discovering")
    PROVE  RegistryInv'
  <1>1. inputs' = inputs /\ file' = file /\ rootFiles' = rootFiles /\ disk' = disk
    BY DEF registry
  <1>2. /\ world' = world /\ roots' = roots /\ Root' = Root
        /\ \A p : Around(p)' = Around(p) /\ Alone(p)' = Alone(p)
    BY SameLayout
  <1>3. ASSUME NEW k \in 1 .. Len(inputs)
        PROVE  InputInv(k)'
    <2>1. InputInv(k)
      BY DEF RegistryInv, FilesInv
    <2>2. PICK p : p = inputs[k].path
      OBVIOUS
    <2>3. ~inputs'[k].atStart /\ Alone(p)' => inputs'[k].root = Max(Around(p)')
      BY <1>1, <1>2, <2>1, <2>2 DEF InputInv
    <2>4. /\ p \in FilePaths(world') /\ inputs'[k].root \in Root'
          /\ inputs'[k].onDisk => p \in disk'
          /\ p \in DOMAIN file' /\ k <= file'[p] /\ IsInput(inputs'[k])
          /\ p = inputs'[k].path
      BY <1>1, <1>2, <2>1, <2>2 DEF InputInv
    <2> QED
      BY <2>3, <2>4 DEF InputInv
  <1>4. FilesInv'
    BY <1>1, <1>2, <1>3 DEF RegistryInv, FilesInv
  <1> QED
    BY <1>1, <1>2, <1>4 DEF RegistryInv

(* The steps of the registry once discovery is over. *)
LEMMA EditSteps ==
    ASSUME RegistryInv, LayoutInv, Edit
    PROVE  \/ \E i \in 1 .. Len(inputs) : \E text : /\ SetText(i, text)
                                                    /\ UNCHANGED <<discoveryVars, disk, status>>
           \/ \E path \in FilePaths(world) : \E text :
                  /\ path \notin DOMAIN file /\ SourceRootForPath(path) # None
                  /\ InsertFile(path, text, SourceRootForPath(path))
                  /\ UNCHANGED <<discoveryVars, disk, status>>
           \/ UNCHANGED <<discoveryVars, registry, queries, disk, status>>
           \/ /\ disk \subseteq disk'
              /\ UNCHANGED <<discoveryVars, registry, queries, status>>
  <1>1. PICK as \in world.paths : \/ \E text \in world.texts : Open(as, text) \/ ApplyChanges(as, text)
                                  \/ Create(as)
    BY DEF Edit
  <1>2. PICK path : path = Canon(as) /\ path \in FilePaths(world) /\ NormalizePath(as) = path
    BY FilePathsCanonical DEF LayoutInv, NormalizePath
  <1>3. \A p \in DOMAIN file : file[p] \in 1 .. Len(inputs)
    BY DEF RegistryInv, FilesInv
  <1>4. ASSUME NEW text, Open(as, text)
        PROVE  \/ path \in DOMAIN file /\ SetText(file[path], text) /\ UNCHANGED <<discoveryVars, disk, status>>
               \/ /\ path \notin DOMAIN file /\ SourceRootForPath(path) # None
                  /\ InsertFile(path, text, SourceRootForPath(path))
                  /\ UNCHANGED <<discoveryVars, disk, status>>
               \/ UNCHANGED <<discoveryVars, registry, queries, disk, status>>
    BY <1>2, <1>4 DEF Open
  <1>5. ASSUME NEW text, ApplyChanges(as, text)
        PROVE  path \in DOMAIN file /\ SetText(file[path], text) /\ UNCHANGED <<discoveryVars, disk, status>>
    BY <1>2, <1>5 DEF ApplyChanges
  <1>6. CASE Create(as)
    BY <1>6 DEF Create
  <1>7. CASE \E text \in world.texts : Open(as, text) \/ ApplyChanges(as, text)
    <2>1. PICK text \in world.texts : Open(as, text) \/ ApplyChanges(as, text)
      BY <1>7
    <2> QED
      BY <1>2, <1>3, <1>4, <1>5, <2>1
  <1> QED
    BY <1>1, <1>6, <1>7

LEMMA EditServing ==
    ASSUME Edit
    PROVE  status = "serving"
  BY DEF Edit, Open, ApplyChanges, Create, Writing, Serving

LEMMA LayoutNextKeeps ==
    ASSUME LayoutInv, RegistryNext \/ UNCHANGED vars
    PROVE  LayoutInv'
  <1>1. CASE UNCHANGED discoveryVars
    <2>1. IsSeq(discovered') /\ \A x : Has(discovered, x) => Has(discovered', x)
      BY <1>1 DEF LayoutInv, discoveryVars, graph
    <2> QED
      BY <1>1, <2>1, SameLayout, LayoutKept
  <1>2. CASE AddPackage
    BY <1>2, LayoutAdd
  <1>3. CASE SkipSeen \/ Expand
    <2>1. world' = world /\ packages' = packages /\ roots' = roots
      BY <1>3 DEF SkipSeen, Expand, layout
    <2>2. discovered' = discovered \/ discovered' = Append(discovered, Last(queue))
      BY <1>3 DEF SkipSeen, Expand
    <2>3. IsSeq(discovered') /\ \A x : Has(discovered, x) => Has(discovered', x)
      <3>1. IsSeq(discovered)
        BY DEF LayoutInv
      <3>2. CASE discovered' = discovered
        BY <3>1, <3>2
      <3>3. CASE discovered' = Append(discovered, Last(queue))
        <4>1. PICK t, e : t = discovered' /\ t = Append(discovered, e)
          BY <3>3
        <4>2. /\ IsSeq(t) /\ Len(discovered) \in Nat /\ Len(t) = Len(discovered) + 1
              /\ \A k \in 1 .. Len(discovered) : t[k] = discovered[k]
          <5>1. IsSeq(t)
            BY <3>1, <4>1, Appended
          <5>2. Len(t) = Len(discovered) + 1
            BY <3>1, <4>1, Appended
          <5>3. Len(discovered) \in Nat
            BY <3>1, IsSeqBounds
          <5>4. \A k \in 1 .. Len(discovered) : t[k] = discovered[k]
            BY <3>1, <4>1, Appended
          <5> QED
            BY <5>1, <5>2, <5>3, <5>4
        <4>3. \A x : Has(discovered, x) => Has(t, x)
          <5>1. \A k \in 1 .. Len(discovered) : k \in 1 .. Len(t)
            BY <4>2
          <5> QED
            BY <4>2, <5>1 DEF Has
        <4> QED
          BY <4>1, <4>2, <4>3
      <3> QED
        BY <2>2, <3>2, <3>3
    <2> QED
      BY <2>1, <2>3, LayoutKept
  <1> QED
    BY <1>1, <1>2, <1>3, DiscoverySteps DEF Discovering, Discover

LEMMA RegistryNextKeeps ==
    ASSUME LayoutInv, RegistryInv, RegistryNext \/ UNCHANGED vars
    PROVE  RegistryInv'
  <1>2. CASE Discovering
    <2>1. world' = world
      BY <1>2 DEF Discovering, Discover, SkipSeen, Expand, AddPackage, graph
    <2> QED
      BY <1>2, <2>1, RegistryDiscovering DEF Discovering
  <1>3. CASE Load
    BY <1>3, RegistryLoad
  <1>4. CASE Edit
    <2>1. status # "discovering"
      BY <1>4, EditServing
    <2>2. CASE \E i \in 1 .. Len(inputs) : \E text : /\ SetText(i, text)
                                                     /\ UNCHANGED <<discoveryVars, disk, status>>
      BY <2>1, <2>2, RegistrySetText
    <2>3. CASE \E path \in FilePaths(world) : \E text :
                  /\ path \notin DOMAIN file /\ SourceRootForPath(path) # None
                  /\ InsertFile(path, text, SourceRootForPath(path))
                  /\ UNCHANGED <<discoveryVars, disk, status>>
      BY <2>1, <2>3, RegistryInsert
    <2>4. CASE UNCHANGED <<discoveryVars, registry, queries, disk, status>>
      BY <2>4, RegistryKept
    <2>5. CASE disk \subseteq disk' /\ UNCHANGED <<discoveryVars, registry, queries, status>>
      BY <2>1, <2>5, RegistryCreate
    <2> QED
      BY <1>4, <2>2, <2>3, <2>4, <2>5, EditSteps
  <1>5. CASE Query
    <2>1. UNCHANGED <<discoveryVars, disk, registry>>
      BY <1>5 DEF Query, MeetCycle, Keep, CollectDefMap
    <2>2. status' = status \/ (status # "discovering" /\ status' # "discovering")
      BY <1>5 DEF Query, MeetCycle, Keep, CollectDefMap, Serving
    <2> QED
      BY <2>1, <2>2, RegistryKept
  <1>6. CASE UNCHANGED vars
    BY <1>6, RegistryKept DEF vars
  <1> QED
    BY <1>2, <1>3, <1>4, <1>5, <1>6 DEF RegistryNext

(* The layout of the source roots and the registry of the files in them. *)
THEOREM RegistryAlways == RegistrySpec => [](LayoutInv /\ RegistryInv)
  <1>1. RegistryInit => LayoutInv /\ RegistryInv
    BY LayoutInit, RegistryInitially DEF RegistryInit
  <1>2. LayoutInv /\ RegistryInv /\ [RegistryNext]_vars => (LayoutInv /\ RegistryInv)'
    BY LayoutNextKeeps, RegistryNextKeeps
  <1> QED
    BY <1>1, <1>2, PTL DEF RegistrySpec

LEMMA RegistryImpliesOneInput ==
    ASSUME LayoutInv, RegistryInv
    PROVE  OneInput
  <1>1. DOMAIN inputs = 1 .. Len(inputs) /\ Len(inputs) \in Nat
    BY IsSeqBounds DEF RegistryInv, FilesInv
  <1>2. \A i \in DOMAIN inputs : InputInv(i)
    BY <1>1 DEF RegistryInv, FilesInv
  <1>3. \A i \in DOMAIN inputs : Canon(inputs[i].path) = inputs[i].path
    BY <1>2, FilePathsCanonical DEF InputInv, LayoutInv
  <1>4. ASSUME NEW i \in DOMAIN inputs, NEW j \in DOMAIN inputs,
               i < j, Canon(inputs[i].path) = Canon(inputs[j].path)
        PROVE  /\ inputs[i].root < inputs[j].root
               /\ inputs[i].path \in roots[inputs[i].root].files \cap roots[inputs[j].root].files
               /\ file[inputs[i].path] # i
    <2>1. inputs[i].path = inputs[j].path
      BY <1>3, <1>4
    <2>2. file[inputs[j].path] \in 1 .. Len(inputs) /\ j <= file[inputs[j].path]
      BY <1>2 DEF InputInv, RegistryInv, FilesInv
    <2> QED
      BY <1>1, <1>4, <2>1, <2>2 DEF RegistryInv, FilesInv
  <1> QED
    BY <1>4 DEF OneInput

(* However files are loaded, opened and changed, and by whatever link the   *)
(* editor calls them, no file has a second input behind the registered one, *)
(* but for those that source roots inside each other load.                  *)
THEOREM FilesHaveOneInput == RegistrySpec => []OneInput
  BY RegistryAlways, RegistryImpliesOneInput, PTL

LEMMA RegistryImpliesAgrees ==
    ASSUME LayoutInv, RegistryInv
    PROVE  OpenAgreesWithLoad
  <1>1. DOMAIN inputs = 1 .. Len(inputs)
    BY IsSeqBounds DEF RegistryInv, FilesInv
  <1>2. \A i \in DOMAIN inputs : InputInv(i)
    BY <1>1 DEF RegistryInv, FilesInv
  <1>3. \A path : LinkedAround(path) => LinkAround(path)
    <2>1. DOMAIN discovered = 1 .. Len(discovered)
      BY IsSeqBounds DEF LayoutInv
    <2> QED
      BY <2>1 DEF LinkedAround, LinkAround, ThroughLink, Has
  <1> QED
    BY <1>2, <1>3 DEF OpenAgreesWithLoad, InputInv, Alone, Around

(* A new file is put into the source root that loading would give it, if    *)
(* those around it belong to one package and no source directory around it  *)
(* is a link: the innermost one is then the one discovered last.  A link    *)
(* has its place by its own name, so that what it leads to may come before  *)
(* a source root around it.                                                 *)
THEOREM OpenedWhereLoaded == RegistrySpec => []OpenAgreesWithLoad
  BY RegistryAlways, RegistryImpliesAgrees, PTL

-----------------------------------------------------------------------------
(* Maps. *)

(* What an import of a path leads to. *)
At(p) == IF p \in disk /\ p \in DOMAIN file THEN file[p] ELSE None

Leads(t, r) ==
    LET now == ResolveToFile(t.from, t.import)
    IN  t.to # now => /\ t.to = None
                      /\ inputs[now].root # r \/ ~inputs[now].onDisk

Imports(targets, i) == {t.import : t \in {u \in targets : u.from = i}}

(* A map is made from the files of its source root as they are. *)
Current(r) ==
    /\ memo[r].files = rootFiles[r]
    /\ \A t \in memo[r].targets : t.from \in rootFiles[r]
    /\ \A i \in rootFiles[r] : Imports(memo[r].targets, i) = inputs[i].text
    /\ \A t \in memo[r].targets : Leads(t, r)

(* Maps that are not outdated are current, and one that is verified has     *)
(* only asked for such maps.                                                *)
QueryInv ==
    /\ status = "discovering" => verified = {}
    /\ status # "discovering" =>
           /\ DOMAIN memo = Root
           /\ verified \subseteq Root \ outdated
           /\ \A r \in Root \ outdated : Current(r)
           /\ \A r \in verified : AskedFor(r) \subseteq verified
    /\ PanicsNarrow

LEMMA ResolvesTo ==
    ASSUME NEW i, NEW m
    PROVE  ResolveToFile(i, m) = At(Canon(ImportedPath(i, m)))
  BY DEF ResolveToFile, At

LEMMA AtRegistered ==
    ASSUME FilesInv, NEW p, At(p) # None
    PROVE  At(p) \in 1 .. Len(inputs) /\ inputs[At(p)].path = p
  BY DEF At, FilesInv

LEMMA SamePathImported ==
    ASSUME UNCHANGED discoveryVars, NEW i, inputs'[i].path = inputs[i].path, inputs'[i].root = inputs[i].root,
           NEW m
    PROVE  Canon(ImportedPath(i, m))' = Canon(ImportedPath(i, m))
  <1>1. packages' = packages /\ roots' = roots /\ world' = world
    BY SameLayout
  <1>2. ImportedPath(i, m)' = ImportedPath(i, m)
    BY <1>1 DEF ImportedPath
  <1> QED
    BY <1>1, <1>2 DEF Canon

(* A map stays current when the files of its source root stay, and what its *)
(* imports may lead to besides is in other source roots or was not on disk. *)
LEMMA CurrentKept ==
    ASSUME FilesInv, UNCHANGED discoveryVars, NEW r, Current(r), memo'[r] = memo[r],
           rootFiles'[r] = rootFiles[r], rootFiles[r] \subseteq 1 .. Len(inputs),
           \A i \in 1 .. Len(inputs) : /\ inputs'[i].path = inputs[i].path
                                       /\ inputs'[i].root = inputs[i].root
                                       /\ inputs'[i].onDisk = inputs[i].onDisk,
           \A i \in rootFiles[r] : inputs'[i].text = inputs[i].text,
           \A p : \/ At(p)' = At(p)
                  \/ At(p) = None /\ (inputs'[At(p)'].root # r \/ ~inputs'[At(p)'].onDisk)
    PROVE  Current(r)'
  <1>1. ASSUME NEW t \in memo[r].targets
        PROVE  Leads(t, r)'
    <2>1. t.from \in 1 .. Len(inputs) /\ Leads(t, r)
      BY DEF Current
    <2>2. PICK p : p = Canon(ImportedPath(t.from, t.import)) /\ p = Canon(ImportedPath(t.from, t.import))'
      BY <2>1, SamePathImported
    <2>3. ResolveToFile(t.from, t.import) = At(p)
      BY <2>2, ResolvesTo
    <2>4. ResolveToFile(t.from, t.import)' = At(p)'
      BY <2>2 DEF ResolveToFile, At
    <2>5. PICK a, b : a = At(p) /\ b = At(p)'
      OBVIOUS
    <2>6. t.to # a => t.to = None /\ (inputs[a].root # r \/ ~inputs[a].onDisk)
      BY <2>1, <2>3, <2>5 DEF Leads
    <2>7. t.to # b => t.to = None /\ (inputs'[b].root # r \/ ~inputs'[b].onDisk)
      <3>1. CASE b = a
        <4>1. CASE a = None
          BY <3>1, <4>1, <2>6
        <4>2. CASE a # None
          <5>1. a \in 1 .. Len(inputs)
            BY <4>2, <2>5, AtRegistered
          <5>2. inputs'[a].root = inputs[a].root /\ inputs'[a].onDisk = inputs[a].onDisk
            BY <5>1
          <5> QED
            BY <3>1, <5>2, <2>6
        <4> QED
          BY <4>1, <4>2
      <3>2. CASE a = None /\ (inputs'[b].root # r \/ ~inputs'[b].onDisk)
        BY <3>2, <2>6
      <3> QED
        BY <3>1, <3>2, <2>5
    <2> QED
      BY <2>4, <2>5, <2>7 DEF Leads
  <1>2. \A i \in rootFiles[r] : Imports(memo[r].targets, i) = inputs'[i].text
    BY DEF Current
  <1> QED
    BY <1>1, <1>2 DEF Current

LEMMA CurrentMade ==
    ASSUME UNCHANGED <<discoveryVars, disk, registry>>, NEW r, memo'[r] = Map(r)
    PROVE  Current(r)' /\ memo'[r].targets = Targets(r)
  <1>1. /\ inputs' = inputs /\ file' = file /\ rootFiles' = rootFiles /\ disk' = disk
        /\ memo'[r].files = rootFiles[r] /\ memo'[r].targets = Targets(r)
    BY DEF registry, Map
  <1>2. \A t : t \in Targets(r) <=> \E i \in rootFiles[r] : \E m \in inputs[i].text :
                                        t = [from |-> i, import |-> m, to |-> ResolveToFile(i, m)]
    BY DEF Targets
  <1>3. \A i, m : ResolveToFile(i, m)' = ResolveToFile(i, m)
    <2>1. \A i, m : Canon(ImportedPath(i, m))' = Canon(ImportedPath(i, m))
      BY <1>1, SamePathImported
    <2> QED
      BY <1>1, <2>1 DEF ResolveToFile
  <1>4. \A t \in Targets(r) : t.from \in rootFiles[r] /\ t.to = ResolveToFile(t.from, t.import)
    BY <1>2
  <1>5. ASSUME NEW i \in rootFiles[r]
        PROVE  Imports(Targets(r), i) = inputs[i].text
    <2>1. ASSUME NEW m \in inputs[i].text
          PROVE  m \in Imports(Targets(r), i)
      <3>1. PICK t : t = [from |-> i, import |-> m, to |-> ResolveToFile(i, m)]
        OBVIOUS
      <3>2. t \in Targets(r) /\ t.from = i /\ t.import = m
        BY <1>2, <3>1
      <3> QED
        BY <3>2 DEF Imports
    <2>2. ASSUME NEW t \in Targets(r), t.from = i
          PROVE  t.import \in inputs[i].text
      BY <1>2, <2>2
    <2> QED
      BY <2>1, <2>2 DEF Imports
  <1>6. ASSUME NEW t \in Targets(r)
        PROVE  Leads(t, r)'
    BY <1>3, <1>4, <1>6 DEF Leads
  <1> QED
    BY <1>1, <1>4, <1>5, <1>6 DEF Current


LEMMA ServingNarrow ==
    ASSUME status = "serving" \/ status = "discovering"
    PROVE  PanicsNarrow
  BY DEF PanicsNarrow

LEMMA RootFilesListed ==
    ASSUME RegistryInv, status # "discovering", NEW r \in Root
    PROVE  rootFiles[r] = {i \in 1 .. Len(inputs) : inputs[i].root = r}
  BY DEF RegistryInv

LEMMA QueryInitially ==
    ASSUME RegistryInit
    PROVE  QueryInv
  BY ServingNarrow DEF RegistryInit, QueryInv

LEMMA QueryDiscovering ==
    ASSUME QueryInv, status = "discovering", UNCHANGED <<queries, status>>
    PROVE  QueryInv'
  <1>1. verified' = {} /\ status' = "discovering"
    BY DEF QueryInv, queries
  <1>2. PanicsNarrow'
    BY <1>1 DEF PanicsNarrow
  <1> QED
    BY <1>1, <1>2 DEF QueryInv

LEMMA QueryLoad ==
    ASSUME Load
    PROVE  QueryInv'
  <1>1. status' = "serving" /\ verified' = {} /\ outdated' = Root
    BY Zenon DEF Load
  <1>2. memo' = [r \in Root |-> None] /\ UNCHANGED discoveryVars
    BY Zenon DEF Load
  <1>3. Root' = Root
    BY <1>2, SameLayout
  <1>4. PanicsNarrow'
    BY <1>1 DEF PanicsNarrow
  <1>5. DOMAIN memo' = Root'
    BY <1>2, <1>3
  <1>6. verified' \subseteq Root' \ outdated' /\ Root' \ outdated' = {}
    BY <1>1, <1>3
  <1>7. \A r \in verified' : FALSE
    BY <1>1
  <1> QED
    BY <1>1, <1>4, <1>5, <1>6, <1>7, Zenon DEF QueryInv

(* The maps that a change does not outdate stay current. *)
LEMMA QuerySetText ==
    ASSUME QueryInv, RegistryInv, status = "serving", UNCHANGED <<discoveryVars, disk, status>>,
           NEW i \in 1 .. Len(inputs), NEW text, SetText(i, text)
    PROVE  QueryInv'
  <1>1. /\ file' = file /\ rootFiles' = rootFiles /\ memo' = memo /\ verified' = {}
        /\ disk' = disk /\ status' = "serving"
        /\ outdated' = outdated \cup {r \in Root : i \in rootFiles[r] /\ inputs[i].text # text}
    BY DEF SetText
  <1>2. PICK t : t = inputs' /\ t = Retext(inputs, i, text)
    BY DEF SetText, Retext
  <1>3. /\ Len(t) = Len(inputs)
        /\ \A k \in 1 .. Len(inputs) : /\ t[k].path = inputs[k].path /\ t[k].root = inputs[k].root
                                       /\ t[k].onDisk = inputs[k].onDisk
        /\ t[i].text = text
        /\ \A k \in 1 .. Len(inputs) : k # i => t[k] = inputs[k]
    <2>1. IsSeq(inputs) /\ \A k \in 1 .. Len(inputs) : IsInput(inputs[k])
      BY DEF RegistryInv, FilesInv, InputInv
    <2> QED
      BY <1>2, <2>1, TextReplaced
  <1>4. Root' = Root
    BY SameLayout
  <1>5. ASSUME NEW r \in Root, r \notin outdated'
        PROVE  Current(r)'
    <2>1. Current(r)
      BY <1>1, <1>5 DEF QueryInv
    <2>2. rootFiles[r] \subseteq 1 .. Len(inputs)
      BY RootFilesListed
    <2>3. \A k \in rootFiles[r] : inputs'[k].text = inputs[k].text
      <3>1. i \in rootFiles[r] => inputs[i].text = text
        BY <1>1, <1>5
      <3> QED
        BY <1>2, <1>3, <2>2, <3>1
    <2>4. \A p : At(p)' = At(p)
      BY <1>1 DEF At
    <2>5. \A k \in 1 .. Len(inputs) : /\ inputs'[k].path = inputs[k].path /\ inputs'[k].root = inputs[k].root
                                      /\ inputs'[k].onDisk = inputs[k].onDisk
      BY <1>2, <1>3
    <2>6. FilesInv /\ memo'[r] = memo[r] /\ rootFiles'[r] = rootFiles[r]
      BY <1>1 DEF RegistryInv
    <2> QED
      BY <2>1, <2>2, <2>3, <2>4, <2>5, <2>6, CurrentKept
  <1>6. PanicsNarrow'
    BY <1>1 DEF PanicsNarrow
  <1> QED
    BY <1>1, <1>4, <1>5, <1>6 DEF QueryInv

LEMMA QueryInsert ==
    ASSUME QueryInv, RegistryInv, status = "serving", UNCHANGED <<discoveryVars, disk, status>>,
           NEW path, path \notin DOMAIN file, NEW text, NEW r0, InsertFile(path, text, r0)
    PROVE  QueryInv'
  <1>1. PICK n, x : /\ n = Len(inputs)
                    /\ x = [path |-> path, root |-> r0, text |-> text,
                            onDisk |-> path \in disk, atStart |-> FALSE]
    OBVIOUS
  <1>2. inputs' = Append(inputs, x)
    BY <1>1 DEF InsertFile
  <1>3. /\ memo' = memo /\ verified' = {} /\ disk' = disk /\ status' = "serving"
        /\ outdated' = outdated \cup {r0}
    BY DEF InsertFile
  <1>4. x.root = r0
    BY <1>1
  <1>5. n \in Nat /\ inputs'[n + 1] = x /\ \A k \in 1 .. n : inputs'[k] = inputs[k]
    <2>1. IsSeq(inputs)
      BY DEF RegistryInv, FilesInv
    <2>2. /\ Len(inputs) \in Nat
          /\ \A k \in 1 .. Len(inputs) : inputs'[k] = inputs[k]
          /\ inputs'[Len(inputs) + 1] = x
      <3>1. PICK t : t = inputs'
        OBVIOUS
      <3>2. t = Append(inputs, x)
        BY <1>2, <3>1
      <3>3. /\ Len(inputs) \in Nat
            /\ \A k \in 1 .. Len(inputs) : t[k] = inputs[k]
            /\ t[Len(inputs) + 1] = x
        BY <2>1, <3>2, Appended
      <3> QED
        BY <3>1, <3>3
    <2>3. n = Len(inputs)
      BY <1>1
    <2> QED
      BY <2>2, <2>3
  <1>6. /\ DOMAIN file' = DOMAIN file \cup {path}
        /\ file'[path] = n + 1
        /\ \A p \in DOMAIN file : file'[p] = file[p]
    BY <1>1 DEF InsertFile
  <1>7. Root' = Root
    BY SameLayout
  <1>8. ASSUME NEW r \in Root, r \notin outdated'
        PROVE  Current(r)'
    <2>1. Current(r) /\ r # r0
      BY <1>3, <1>8 DEF QueryInv
    <2>2. rootFiles[r] \subseteq 1 .. Len(inputs) /\ r \in DOMAIN rootFiles
      BY RootFilesListed DEF RegistryInv
    <2>3. rootFiles'[r] = rootFiles[r]
      BY <2>1, <2>2 DEF InsertFile
    <2>4. ASSUME NEW p
          PROVE  \/ At(p)' = At(p)
                 \/ At(p) = None /\ (inputs'[At(p)'].root # r \/ ~inputs'[At(p)'].onDisk)
      <3>1. CASE p = path /\ p \in disk
        <4>1. At(p) = None
          BY <3>1 DEF At
        <4>2. At(p)' = n + 1
          BY <3>1, <1>3, <1>6 DEF At
        <4> QED
          BY <4>1, <4>2, <1>4, <1>5, <2>1
      <3>2. CASE p # path
        BY <3>2, <1>3, <1>6 DEF At
      <3>3. CASE p \notin disk
        BY <3>3, <1>3 DEF At
      <3> QED
        BY <3>1, <3>2, <3>3
    <2>5. \A k \in 1 .. Len(inputs) : inputs'[k] = inputs[k]
      BY <1>1, <1>5
    <2>6. FilesInv /\ memo'[r] = memo[r]
      BY <1>3 DEF RegistryInv
    <2> QED
      BY <2>1, <2>2, <2>3, <2>4, <2>5, <2>6, CurrentKept
  <1>9. PanicsNarrow'
    BY <1>3 DEF PanicsNarrow
  <1> QED
    BY <1>3, <1>7, <1>8, <1>9 DEF QueryInv

LEMMA QueryCreate ==
    ASSUME QueryInv, RegistryInv, status = "serving", disk \subseteq disk',
           UNCHANGED <<discoveryVars, registry, queries, status>>
    PROVE  QueryInv'
  <1>1. /\ inputs' = inputs /\ file' = file /\ rootFiles' = rootFiles
        /\ memo' = memo /\ verified' = verified /\ outdated' = outdated /\ status' = "serving"
    BY DEF registry, queries
  <1>2. Root' = Root
    BY SameLayout
  <1>3. ASSUME NEW r \in Root, r \notin outdated
        PROVE  Current(r)'
    <2>1. Current(r)
      BY <1>3 DEF QueryInv
    <2>2. rootFiles[r] \subseteq 1 .. Len(inputs)
      BY RootFilesListed
    <2>3. ASSUME NEW p
          PROVE  \/ At(p)' = At(p)
                 \/ At(p) = None /\ (inputs'[At(p)'].root # r \/ ~inputs'[At(p)'].onDisk)
      <3>1. CASE p \in disk \/ p \notin disk' \/ p \notin DOMAIN file
        BY <3>1, <1>1 DEF At
      <3>2. CASE p \notin disk /\ p \in disk' /\ p \in DOMAIN file
        <4>1. At(p) = None /\ At(p)' = file[p]
          BY <3>2, <1>1 DEF At
        <4>2. file[p] \in 1 .. Len(inputs) /\ inputs[file[p]].path = p
          BY <3>2 DEF RegistryInv, FilesInv
        <4>3. ~inputs[file[p]].onDisk
          BY <3>2, <4>2 DEF RegistryInv, FilesInv, InputInv
        <4> QED
          BY <1>1, <4>1, <4>3
      <3> QED
        BY <3>1, <3>2
    <2>4. FilesInv /\ memo'[r] = memo[r] /\ rootFiles'[r] = rootFiles[r]
      BY <1>1 DEF RegistryInv
    <2> QED
      BY <1>1, <2>1, <2>2, <2>3, <2>4, CurrentKept
  <1>4. \A r \in verified : AskedFor(r)' = AskedFor(r)
    BY <1>1 DEF AskedFor, RootsOf
  <1>5. PanicsNarrow'
    BY <1>1 DEF PanicsNarrow
  <1> QED
    BY <1>1, <1>2, <1>3, <1>4, <1>5 DEF QueryInv


(* Nothing of what maps depend on changes. *)
LEMMA QuerySame ==
    ASSUME UNCHANGED <<discoveryVars, disk, registry>>
    PROVE  /\ Root' = Root
           /\ \A r : Targets(r)' = Targets(r) /\ AsksFor(r)' = AsksFor(r)
           /\ \A targets : RootsOf(targets)' = RootsOf(targets)
           /\ \A p : At(p)' = At(p)
  <1>1. inputs' = inputs /\ file' = file /\ rootFiles' = rootFiles /\ disk' = disk
    BY DEF registry
  <1>2. Root' = Root
    BY SameLayout
  <1>3. \A i, m : ResolveToFile(i, m)' = ResolveToFile(i, m)
    <2>1. \A i, m : Canon(ImportedPath(i, m))' = Canon(ImportedPath(i, m))
      BY <1>1, SamePathImported
    <2> QED
      BY <1>1, <2>1 DEF ResolveToFile
  <1>4. \A r : Targets(r)' = Targets(r)
    <2>1. ASSUME NEW r, NEW t
          PROVE  t \in Targets(r)' <=> t \in Targets(r)
      BY <1>1, <1>3 DEF Targets
    <2> QED
      BY <2>1
  <1>5. \A targets : RootsOf(targets)' = RootsOf(targets)
    BY <1>1 DEF RootsOf
  <1>6. \A r : AsksFor(r)' = AsksFor(r)
    BY <1>4, <1>5 DEF AsksFor
  <1>7. \A p : At(p)' = At(p)
    BY <1>1 DEF At
  <1> QED
    BY <1>2, <1>4, <1>5, <1>6, <1>7

LEMMA CurrentSame ==
    ASSUME RegistryInv, status # "discovering", UNCHANGED <<discoveryVars, disk, registry>>,
           NEW r \in Root, Current(r), memo'[r] = memo[r]
    PROVE  Current(r)'
  <1>1. inputs' = inputs /\ rootFiles' = rootFiles /\ FilesInv
    BY DEF registry, RegistryInv
  <1>2. rootFiles[r] \subseteq 1 .. Len(inputs)
    BY RootFilesListed
  <1>3. \A p : At(p)' = At(p)
    BY QuerySame
  <1> QED
    BY <1>1, <1>2, <1>3, CurrentKept

(* A panic is the end. *)
LEMMA QueryKept ==
    ASSUME QueryInv, RegistryInv, UNCHANGED vars
    PROVE  QueryInv'
  <1>1. /\ UNCHANGED <<discoveryVars, disk, registry>>
        /\ memo' = memo /\ verified' = verified /\ outdated' = outdated /\ status' = status
    BY DEF vars, queries
  <1>2. Root' = Root /\ \A r : AsksFor(r)' = AsksFor(r)
    BY <1>1, QuerySame
  <1>3. PanicsNarrow'
    BY <1>1, <1>2 DEF QueryInv, PanicsNarrow
  <1>4. status # "discovering" => \A r \in Root \ outdated : Current(r)'
    BY <1>1, CurrentSame DEF QueryInv
  <1>5. \A r : AskedFor(r)' = AskedFor(r)
    BY <1>1, QuerySame DEF AskedFor
  <1> QED
    BY <1>1, <1>2, <1>3, <1>4, <1>5 DEF QueryInv

LEMMA QueryKeep ==
    ASSUME QueryInv, RegistryInv, NEW r \in Root, Keep(r)
    PROVE  QueryInv'
  <1>1. /\ UNCHANGED <<discoveryVars, disk, registry>>
        /\ memo' = memo /\ verified' = verified \cup {r} /\ outdated' = outdated
        /\ status = "serving" /\ status' = "serving"
        /\ r \notin outdated /\ AskedFor(r) \subseteq verified
    BY DEF Keep, Serving
  <1>2. Root' = Root
    BY <1>1, QuerySame
  <1>3. PanicsNarrow'
    BY <1>1 DEF PanicsNarrow
  <1>4. \A q \in Root \ outdated : Current(q)'
    BY <1>1, CurrentSame DEF QueryInv
  <1>5. \A q : AskedFor(q)' = AskedFor(q)
    BY <1>1, QuerySame DEF AskedFor
  <1> QED
    BY <1>1, <1>2, <1>3, <1>4, <1>5 DEF QueryInv

(* Every file that imports of r lead to is in a map that is current. *)
LEMMA AlwaysUnwraps ==
    ASSUME QueryInv, RegistryInv, status = "serving", NEW r \in Root, AsksFor(r) \subseteq verified
    PROVE  Unwraps(r)
  <1> SUFFICES ASSUME NEW t \in Targets(r), t.to # None
               PROVE  t.to \in IF inputs[t.to].root = r THEN rootFiles[r]
                               ELSE memo[inputs[t.to].root].files
    BY DEF Unwraps
  <1>1. PICK i, m : t = [from |-> i, import |-> m, to |-> ResolveToFile(i, m)]
    BY DEF Targets
  <1>2. t.to = At(Canon(ImportedPath(i, m)))
    BY <1>1, ResolvesTo
  <1>3. t.to \in 1 .. Len(inputs)
    BY <1>2, AtRegistered DEF RegistryInv
  <1>4. inputs[t.to].root \in Root
    BY <1>3 DEF RegistryInv, FilesInv, InputInv
  <1>5. t.to \in rootFiles[inputs[t.to].root]
    BY <1>3, <1>4, RootFilesListed
  <1>6. CASE inputs[t.to].root # r
    <2>1. inputs[t.to].root \in RootsOf(Targets(r))
      BY DEF RootsOf
    <2>2. inputs[t.to].root \in verified
      BY <1>6, <2>1 DEF AsksFor
    <2>3. Current(inputs[t.to].root)
      BY <2>2 DEF QueryInv
    <2> QED
      BY <1>5, <1>6, <2>3 DEF Current
  <1> QED
    BY <1>5, <1>6

LEMMA QueryCollect ==
    ASSUME QueryInv, RegistryInv, NEW r \in Root, CollectDefMap(r)
    PROVE  QueryInv'
  <1>1. /\ UNCHANGED <<discoveryVars, disk, registry>> /\ status = "serving"
        /\ r \in outdated /\ AsksFor(r) \subseteq verified
    BY DEF CollectDefMap, Serving
  <1>2. Unwraps(r)
    BY <1>1, AlwaysUnwraps
  <1>3. /\ memo' = [memo EXCEPT ![r] = Map(r)] /\ verified' = verified \cup {r}
        /\ outdated' = (outdated \ {r})
                       \cup IF memo[r] = Map(r) THEN {} ELSE {q \in Root : r \in AskedFor(q)}
        /\ status' = "serving"
    BY <1>1, <1>2 DEF CollectDefMap
  <1>4. /\ DOMAIN memo = Root /\ verified \subseteq Root \ outdated
        /\ \A q \in Root \ outdated : Current(q)
        /\ \A q \in verified : AskedFor(q) \subseteq verified
    BY <1>1 DEF QueryInv
  <1>5. Root' = Root /\ (\A q : AsksFor(q)' = AsksFor(q)) /\ \A targets : RootsOf(targets)' = RootsOf(targets)
    BY <1>1, QuerySame
  <1>6. memo'[r] = Map(r) /\ DOMAIN memo' = Root /\ \A q \in Root : q # r => memo'[q] = memo[q]
    BY <1>3, <1>4
  <1>7. ASSUME NEW q \in Root \ outdated'
        PROVE  Current(q)'
    <2>1. CASE q = r
      BY <2>1, <1>1, <1>6, CurrentMade
    <2>2. CASE q # r
      <3>1. q \notin outdated
        BY <2>2, <1>3, <1>7
      <3>2. Current(q)
        BY <3>1, <1>4, <1>7
      <3> QED
        BY <2>2, <3>2, <1>1, <1>6, <1>7, CurrentSame
    <2> QED
      BY <2>1, <2>2
  <1>8. \A q : q # r /\ q \in Root => AskedFor(q)' = AskedFor(q)
    BY <1>5, <1>6 DEF AskedFor
  <1>9. AskedFor(r)' \subseteq AsksFor(r)
    <2>1. memo'[r].targets = Targets(r)
      BY <1>6 DEF Map
    <2> QED
      BY <1>5, <2>1 DEF AskedFor, AsksFor
  <1>10. r \notin verified
    BY <1>1, <1>4
  <1>11. verified' \subseteq Root \ outdated'
    <2>1. \A q \in verified : r \notin AskedFor(q)
      BY <1>4, <1>10
    <2>2. r \notin AskedFor(r)
      BY DEF AskedFor
    <2> QED
      BY <1>3, <1>4, <2>1, <2>2
  <1>12. \A q \in verified' : AskedFor(q)' \subseteq verified'
    <2>1. \A q \in verified : AskedFor(q)' \subseteq verified
      BY <1>4, <1>8, <1>10
    <2>2. AskedFor(r)' \subseteq verified
      BY <1>1, <1>9
    <2> QED
      BY <1>3, <2>1, <2>2
  <1>13. PanicsNarrow'
    BY <1>3 DEF PanicsNarrow
  <1> QED
    BY <1>3, <1>5, <1>6, <1>7, <1>11, <1>12, <1>13 DEF QueryInv

(* A map that is not outdated asks for no other maps than one made now.     *)
LEMMA AskedAgain ==
    ASSUME NEW r, Current(r)
    PROVE  AskedFor(r) \subseteq AsksFor(r)
  <1> SUFFICES ASSUME NEW q \in AskedFor(r)
               PROVE  q \in AsksFor(r)
    OBVIOUS
  <1>1. q \in RootsOf(memo[r].targets) /\ q # r
    BY DEF AskedFor
  <1>2. PICK t \in memo[r].targets : t.to # None /\ q = inputs[t.to].root
    BY <1>1 DEF RootsOf
  <1>3. t.to = ResolveToFile(t.from, t.import) /\ t.from \in rootFiles[r]
    BY <1>2 DEF Current, Leads
  <1>4. t.import \in inputs[t.from].text
    <2>1. t.import \in Imports(memo[r].targets, t.from)
      BY DEF Imports
    <2> QED
      BY <1>3, <2>1 DEF Current
  <1>5. PICK u : u = [from |-> t.from, import |-> t.import, to |-> t.to]
    OBVIOUS
  <1>6. u \in Targets(r)
    BY <1>3, <1>4, <1>5 DEF Targets
  <1>7. u.to # None /\ q = inputs[u.to].root
    BY <1>2, <1>5
  <1>8. q \in RootsOf(Targets(r))
    BY <1>6, <1>7 DEF RootsOf
  <1> QED
    BY <1>1, <1>8 DEF AsksFor

LEMMA QueryCycle ==
    ASSUME QueryInv, RegistryInv, MeetCycle
    PROVE  QueryInv'
  <1>1. /\ UNCHANGED <<discoveryVars, disk, registry>>
        /\ memo' = memo /\ verified' = verified /\ outdated' = outdated
        /\ status = "serving" /\ status' = "cycle"
    BY DEF MeetCycle, Serving, queries
  <1>2. PICK S \in SUBSET (Root \ verified) : S # {} /\ \A r \in S : Below(r) \cap S # {}
    BY DEF MeetCycle
  <1>3. Root' = Root /\ \A r : AsksFor(r)' = AsksFor(r)
    BY <1>1, QuerySame
  <1>4. \A r \in Root : Below(r) \subseteq AsksFor(r)
    <2>1. \A r \in Root \ outdated : Current(r)
      BY <1>1 DEF QueryInv
    <2> QED
      BY <2>1, AskedAgain DEF Below
  <1>5. S \in SUBSET Root /\ \A r \in S : AsksFor(r) \cap S # {}
    BY <1>2, <1>4
  <1>6. PanicsNarrow'
    BY <1>1, <1>2, <1>3, <1>5 DEF PanicsNarrow
  <1>7. \A r \in Root \ outdated : Current(r)'
    BY <1>1, CurrentSame DEF QueryInv
  <1>8. \A r : AskedFor(r)' = AskedFor(r)
    BY <1>1, QuerySame DEF AskedFor
  <1> QED
    BY <1>1, <1>3, <1>6, <1>7, <1>8 DEF QueryInv


LEMMA QueryNextKeeps ==
    ASSUME LayoutInv, RegistryInv, QueryInv, RegistryNext \/ UNCHANGED vars
    PROVE  QueryInv'
  <1>1. CASE Discovering
    BY <1>1, QueryDiscovering DEF Discovering
  <1>2. CASE Load
    BY <1>2, QueryLoad
  <1>3. CASE Edit
    <2>1. status = "serving"
      BY <1>3, EditServing
    <2>2. CASE \E i \in 1 .. Len(inputs) : \E text : /\ SetText(i, text)
                                                     /\ UNCHANGED <<discoveryVars, disk, status>>
      BY <2>1, <2>2, QuerySetText
    <2>3. CASE \E path \in FilePaths(world) : \E text :
                  /\ path \notin DOMAIN file /\ SourceRootForPath(path) # None
                  /\ InsertFile(path, text, SourceRootForPath(path))
                  /\ UNCHANGED <<discoveryVars, disk, status>>
      BY <2>1, <2>3, QueryInsert
    <2>4. CASE UNCHANGED <<discoveryVars, registry, queries, disk, status>>
      <3>1. disk \subseteq disk'
        BY <2>4
      <3> QED
        BY <2>1, <2>4, <3>1, QueryCreate
    <2>5. CASE disk \subseteq disk' /\ UNCHANGED <<discoveryVars, registry, queries, status>>
      BY <2>1, <2>5, QueryCreate
    <2> QED
      BY <1>3, <2>2, <2>3, <2>4, <2>5, EditSteps
  <1>4. CASE Query
    BY <1>4, QueryCycle, QueryKeep, QueryCollect DEF Query
  <1>5. CASE UNCHANGED vars
    BY <1>5, QueryKept
  <1> QED
    BY <1>1, <1>2, <1>3, <1>4, <1>5 DEF RegistryNext

(* Maps that are not outdated are current, after every step of the server.  *)
THEOREM QueryAlways == RegistrySpec => []QueryInv
  <1>1. RegistryInit => QueryInv
    BY QueryInitially
  <1>2. LayoutInv /\ RegistryInv /\ QueryInv /\ [RegistryNext]_vars => QueryInv'
    BY QueryNextKeeps
  <1> QED
    BY <1>1, <1>2, RegistryAlways, PTL DEF RegistrySpec

LEMMA QueryImpliesCurrent ==
    ASSUME QueryInv
    PROVE  MapsCurrent
  <1> SUFFICES ASSUME NEW r \in verified
               PROVE  /\ memo[r].files = rootFiles[r]
                      /\ \A i \in rootFiles[r] :
                             {t.import : t \in {u \in memo[r].targets : u.from = i}} = inputs[i].text
                      /\ \A t \in memo[r].targets :
                             LET now == ResolveToFile(t.from, t.import)
                             IN  t.to # now => /\ t.to = None
                                               /\ inputs[now].root # r \/ ~inputs[now].onDisk
    BY DEF MapsCurrent
  <1>1. Current(r)
    BY DEF QueryInv
  <1> QED
    BY <1>1 DEF Current, Imports, Leads

(* A verified map is made from its source root's files as they are, and its *)
(* imports lead where resolve_import would lead now, but for files that are *)
(* new in other source roots or were opened before they were on disk: salsa *)
(* tracks neither the registry nor the disk, and need not.                  *)
THEOREM VerifiedMapsCurrent == RegistrySpec => []MapsCurrent
  BY QueryAlways, QueryImpliesCurrent, PTL

(* root_def_map never fails to find a file in the map it unwraps it from,   *)
(* and the query only comes to depend on itself if, as the files are at     *)
(* that moment, imports lead in a ring from source root to source root.     *)
THEOREM QueryPanicsNarrow == RegistrySpec => []PanicsNarrow
  <1>1. QueryInv => PanicsNarrow
    BY DEF QueryInv
  <1> QED
    BY <1>1, QueryAlways, PTL
=============================================================================
