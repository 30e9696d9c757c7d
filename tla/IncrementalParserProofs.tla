----------------------- MODULE IncrementalParserProofs -----------------------
(***************************************************************************)
(* For every alphabet, set of files and bound: the parser's untracked      *)
(* cache stays in step with the text, a memo salsa returns is a parse from *)
(* scratch, and IncrementalParser implements AstService.                   *)
(***************************************************************************)
EXTENDS IncrementalParser, TLAPS, FiniteSetTheorems, SequenceTheorems

(* A function from 1 .. n is a sequence of length n. *)
LEMMA FunctionIsSeq ==
    ASSUME NEW S, NEW n \in Nat, NEW t \in [1 .. n -> S]
    PROVE  t \in Seq(S) /\ Len(t) = n
  OBVIOUS

(* Every text is a sequence of bytes no longer than the bound. *)
LEMMA TextIsSeq ==
    ASSUME NEW len \in Nat, NEW t \in TextUpTo(len)
    PROVE  t \in Seq(Byte) /\ Len(t) \in 0 .. len /\ t \in [1 .. Len(t) -> Byte]
  BY DEF TextUpTo

(* Replacing a range of a sequence leaves a sequence, longer by what was    *)
(* inserted and shorter by what was removed.                                *)
LEMMA SpliceType ==
    ASSUME NEW S, NEW s \in Seq(S), NEW ins \in Seq(S),
           NEW from \in Nat, NEW to \in Nat, from <= to, to <= Len(s)
    PROVE  /\ Len(s) - (to - from) + Len(ins) \in Nat
           /\ Splice(s, from, to, ins) \in [1 .. (Len(s) - (to - from) + Len(ins)) -> S]
  <1> DEFINE n == Len(s) - (to - from) + Len(ins)
  <1>1. n \in Nat
    OBVIOUS
  <1>2. ASSUME NEW i \in 1 .. n
        PROVE  (IF i <= from THEN s[i]
                ELSE IF i <= from + Len(ins) THEN ins[i - from]
                ELSE s[i - Len(ins) + (to - from)]) \in S
    <2>1. CASE i <= from
      BY <2>1
    <2>2. CASE i > from /\ i <= from + Len(ins)
      <3>1. i - from \in 1 .. Len(ins)
        BY <2>2
      <3> QED BY <2>2, <3>1
    <2>3. CASE i > from + Len(ins)
      <3>1. i - Len(ins) + (to - from) \in 1 .. Len(s)
        BY <2>3
      <3> QED BY <2>3, <3>1
    <2> QED BY <2>1, <2>2, <2>3
  <1> QED BY <1>1, <1>2 DEF Splice

(* An edit the parser is told of keeps an old tree in step with the text.   *)
LEMMA EditKeepsInSync ==
    ASSUME NEW t \in Seq(Byte), NEW tree, tree.cells \in Seq(Cell), InSync(tree, t),
           NEW start \in Nat, NEW oldEnd \in Nat, start <= oldEnd, oldEnd <= Len(t),
           NEW ins \in Seq(Byte)
    PROVE  LET new  == Splice(t, start, oldEnd, ins)
               tree2 == Edit(tree, InputEdit(t, new, start, oldEnd, ins))
           IN  /\ tree2.cells \in Seq(Cell)
               /\ InSync(tree2, new)
  <1> DEFINE new   == Splice(t, start, oldEnd, ins)
             marks == [i \in 1 .. Len(ins) |-> Dirty]
             cells == Splice(tree.cells, start, oldEnd, marks)
             n     == Len(t) - (oldEnd - start) + Len(ins)
             edit  == InputEdit(t, new, start, oldEnd, ins)
  <1>1. Len(tree.cells) = Len(t)
    BY DEF InSync
  <1>2. marks \in Seq(Cell) /\ Len(marks) = Len(ins)
    <2>1. marks \in [1 .. Len(ins) -> Cell]
      BY DEF Cell
    <2> QED BY <2>1, FunctionIsSeq
  <1>3. cells \in [1 .. n -> Cell] /\ cells \in Seq(Cell) /\ Len(cells) = n
    <2> HIDE DEF marks
    <2>1. oldEnd <= Len(tree.cells)
      BY <1>1
    <2>2. cells \in [1 .. (Len(tree.cells) - (oldEnd - start) + Len(marks)) -> Cell]
      BY <2>1, <1>2, SpliceType
    <2>3. cells \in [1 .. n -> Cell]
      BY <2>2, <1>1, <1>2
    <2>4. n \in Nat
      OBVIOUS
    <2> HIDE DEF cells, n
    <2> QED BY <2>3, <2>4, FunctionIsSeq
  <1>4. new \in [1 .. n -> Byte] /\ Len(new) = n
    <2>1. new \in [1 .. n -> Byte]
      BY SpliceType
    <2>2. n \in Nat
      OBVIOUS
    <2> HIDE DEF new, n
    <2> QED BY <2>1, <2>2, FunctionIsSeq
  <1>5. Edit(tree, edit).cells = cells
    <2>1. edit.start = start /\ edit.oldEnd = oldEnd /\ edit.newEnd - edit.start = Len(ins)
      BY DEF InputEdit
    <2> HIDE DEF edit
    <2> QED BY <2>1 DEF Edit
  <1>6. ASSUME NEW i \in 1 .. n
        PROVE  cells[i] \in {Dirty, new[i]}
    <2>1. CASE i <= start
      <3>1. cells[i] = tree.cells[i] /\ new[i] = t[i]
        BY <1>1, <1>2, <2>1 DEF Splice
      <3> QED BY <2>1, <3>1 DEF InSync
    <2>2. CASE i > start /\ i <= start + Len(ins)
      BY <1>1, <1>2, <2>2 DEF Splice
    <2>3. CASE i > start + Len(ins)
      <3> DEFINE j == i - Len(ins) + (oldEnd - start)
      <3>1. j \in 1 .. Len(t)
        BY <2>3
      <3>2. cells[i] = tree.cells[j] /\ new[i] = t[j]
        BY <1>1, <1>2, <2>3 DEF Splice
      <3> QED BY <3>1, <3>2 DEF InSync
    <2> QED BY <2>1, <2>2, <2>3
  <1> HIDE DEF cells, new, edit, n
  <1>7. InSync(Edit(tree, edit), new)
    BY <1>3, <1>4, <1>5, <1>6 DEF InSync
  <1> QED BY <1>3, <1>5, <1>7 DEF new, edit

(* A tree re-parsed from an old tree in step with the text is the tree of a *)
(* parse from scratch.                                                      *)
LEMMA ReparseIsFresh ==
    ASSUME NEW len \in Nat, NEW t \in TextUpTo(len), NEW old, InSync(old, t)
    PROVE  Reparse(old, t) = Fresh(t)
  <1>1. t \in [1 .. Len(t) -> Byte]
    BY TextIsSeq
  <1>2. \A i \in 1 .. Len(t) : i <= Len(old.cells) /\ old.cells[i] # Dirty => old.cells[i] = t[i]
    BY DEF InSync
  <1>3. [i \in 1 .. Len(t) |-> IF i <= Len(old.cells) /\ old.cells[i] # Dirty
                               THEN old.cells[i] ELSE t[i]] = t
    BY <1>1, <1>2
  <1> QED BY <1>3 DEF Reparse, Fresh

(* A tree parsed from scratch is in step with its text. *)
LEMMA FreshInSync ==
    ASSUME NEW len \in Nat, NEW t \in TextUpTo(len)
    PROVE  Fresh(t).cells \in Seq(Cell) /\ InSync(Fresh(t), t)
  BY TextIsSeq DEF Fresh, InSync, Cell

(* A text that an edit within the bounds is applied to remains a text.      *)
LEMMA SplicedText ==
    ASSUME NEW t \in Seq(Byte), NEW ins \in Seq(Byte), NEW from \in Nat, NEW to \in Nat,
           from <= to, to <= Len(t), Len(t) - (to - from) + Len(ins) <= MaxLen
    PROVE  Splice(t, from, to, ins) \in Text
  <1> DEFINE n == Len(t) - (to - from) + Len(ins)
  <1>1. Splice(t, from, to, ins) \in [1 .. n -> Byte]
    BY SpliceType
  <1>2. n \in 0 .. MaxLen
    BY MaxLenAssumption
  <1> QED BY <1>1, <1>2 DEF Text, TextUpTo

LEMMA EditedText ==
    ASSUME NEW t \in Text, NEW e \in Edits(t)
    PROVE  /\ t \in Seq(Byte) /\ e[3] \in Seq(Byte)
           /\ e[1] \in Nat /\ e[2] \in Nat /\ e[1] <= e[2] /\ e[2] <= Len(t)
           /\ Splice(t, e[1], e[2], e[3]) \in Text
  <1>1. t \in Seq(Byte)
    BY MaxLenAssumption, TextIsSeq DEF Text
  <1>2. e[3] \in Seq(Byte)
    BY MaxInsAssumption, TextIsSeq DEF Edits
  <1>3. /\ e[1] \in Nat /\ e[2] \in Nat /\ e[1] <= e[2] /\ e[2] <= Len(t)
        /\ Len(t) - (e[2] - e[1]) + Len(e[3]) <= MaxLen
    BY MaxLenAssumption DEF Edits
  <1>4. Splice(t, e[1], e[2], e[3]) \in Text
    BY <1>1, <1>2, <1>3, SplicedText
  <1> QED BY <1>1, <1>2, <1>3, <1>4

-----------------------------------------------------------------------------
(* The inductive invariant.  The cache is only trusted by the next parse,   *)
(* and the memo only until the next write, so that each needs the other:    *)
(* a memo is right because the cache it was parsed from was in step.        *)
IInv == TypeOK /\ CacheInSync /\ MemoInSync

LEMMA InitIInv == Init => IInv
  BY DEF Init, IInv, TypeOK, CacheInSync, MemoInSync, MemoIsCurrent

LEMMA UpdateIInv ==
    ASSUME IInv, NEW f \in File, NEW e \in Edits(text[f]), Update(f, e[1], e[2], e[3])
    PROVE  IInv'
  <1> DEFINE new  == Splice(text[f], e[1], e[2], e[3])
             edit == InputEdit(text[f], new, e[1], e[2], e[3])
             tree == Edit(cache[f], edit)
  <1>1. text[f] \in Text
    BY DEF IInv, TypeOK
  <1>2. new \in Text
    BY <1>1, EditedText
  <1>3. ASSUME cache[f] # NoTree
        PROVE  tree.cells \in Seq(Cell) /\ InSync(tree, new)
    <2>1. cache[f].cells \in Seq(Cell) /\ InSync(cache[f], text[f])
      BY <1>3 DEF IInv, TypeOK, CacheInSync
    <2> QED BY <1>1, <2>1, EditedText, EditKeepsInSync
  <1>4. text' = [text EXCEPT ![f] = new] /\ stale' = stale \cup {f} /\ memo' = memo
    BY DEF Update, SetText
  <1>5. cache' = IF cache[f] = NoTree THEN cache ELSE [cache EXCEPT ![f] = tree]
    BY DEF Update, EditCache
  <1> HIDE DEF new, edit, tree
  <1>6. TypeOK'
    BY <1>2, <1>3, <1>4, <1>5 DEF IInv, TypeOK
  <1>7. CacheInSync'
    BY <1>3, <1>4, <1>5 DEF IInv, TypeOK, CacheInSync
  <1>8. MemoInSync'
    BY <1>4 DEF IInv, TypeOK, MemoInSync, MemoIsCurrent
  <1> QED BY <1>6, <1>7, <1>8 DEF IInv

LEMMA ResetIInv ==
    ASSUME IInv, NEW f \in File, NEW t \in Text, Reset(f, t)
    PROVE  IInv'
  <1>1. /\ text' = [text EXCEPT ![f] = t] /\ stale' = stale \cup {f} /\ memo' = memo
        /\ cache' = [cache EXCEPT ![f] = NoTree]
    BY DEF Reset, SetText, Invalidate
  <1>2. TypeOK'
    BY <1>1 DEF IInv, TypeOK
  <1>3. CacheInSync'
    BY <1>1 DEF IInv, TypeOK, CacheInSync
  <1>4. MemoInSync'
    BY <1>1 DEF IInv, TypeOK, MemoInSync, MemoIsCurrent
  <1> QED BY <1>2, <1>3, <1>4 DEF IInv

(* The tree the parse query builds, from a cached tree or from nothing, is  *)
(* that of a parse from scratch.                                            *)
LEMMA NewTreeIsFresh ==
    ASSUME IInv, NEW f \in File
    PROVE  NewTree(f) = Fresh(text[f])
  <1>1. text[f] \in TextUpTo(MaxLen)
    BY DEF IInv, TypeOK, Text
  <1>2. cache[f] # NoTree => InSync(cache[f], text[f])
    BY DEF IInv, CacheInSync
  <1> QED BY <1>1, <1>2, MaxLenAssumption, ReparseIsFresh DEF NewTree

LEMMA ParseIInv ==
    ASSUME IInv, NEW f \in File, Parse(f)
    PROVE  IInv'
  <1>1. CASE MemoIsCurrent(f)
    BY <1>1 DEF Parse, IInv, TypeOK, CacheInSync, MemoInSync, MemoIsCurrent
  <1>2. CASE ~MemoIsCurrent(f)
    <2> DEFINE tree == Fresh(text[f])
    <2>1. /\ cache' = [cache EXCEPT ![f] = tree]
          /\ memo' = [memo EXCEPT ![f] = [source |-> text[f], tree |-> tree]]
          /\ stale' = stale \ {f} /\ text' = text
      BY <1>2, NewTreeIsFresh DEF Parse
    <2>2. text[f] \in Text /\ text[f] \in TextUpTo(MaxLen)
      BY DEF IInv, TypeOK, Text
    <2>3. tree.cells \in Seq(Cell) /\ InSync(tree, text[f])
      BY <2>2, MaxLenAssumption, FreshInSync
    <2> HIDE DEF tree
    <2>4. TypeOK'
      BY <2>1, <2>2, <2>3 DEF IInv, TypeOK
    <2>5. CacheInSync'
      BY <2>1, <2>3 DEF IInv, TypeOK, CacheInSync
    <2>6. MemoInSync'
      BY <2>1 DEF IInv, TypeOK, MemoInSync, MemoIsCurrent, tree
    <2> QED BY <2>4, <2>5, <2>6 DEF IInv
  <1> QED BY <1>1, <1>2

LEMMA NextIInv == IInv /\ [Next]_vars => IInv'
  <1> SUFFICES ASSUME IInv, [Next]_vars PROVE IInv'
    OBVIOUS
  <1>1. CASE UNCHANGED vars
    BY <1>1 DEF vars, IInv, TypeOK, CacheInSync, MemoInSync, MemoIsCurrent
  <1>2. CASE Next
    <2>1. PICK f \in File : Change(f) \/ Replace(f) \/ Parse(f)
      BY <1>2 DEF Next
    <2> QED BY <2>1, UpdateIInv, ResetIInv, ParseIInv DEF Change, Replace
  <1> QED BY <1>1, <1>2

(* IInv is an invariant, and with it each of its parts. *)
THEOREM Invariance == Spec => []IInv
  BY InitIInv, NextIInv, PTL DEF Spec

(* Types hold in every reachable state. *)
THEOREM TypeCorrect == Spec => []TypeOK
  <1>1. IInv => TypeOK
    BY DEF IInv
  <1> QED BY <1>1, Invariance, PTL

(* root_db.rs: the untracked trees are "kept in sync with salsa by the      *)
(* Incremental parser", whatever the edits, their order and their lengths.  *)
THEOREM CacheSafe == Spec => []CacheInSync
  <1>1. IInv => CacheInSync
    BY DEF IInv
  <1> QED BY <1>1, Invariance, PTL

(* A memo salsa would return is always that of a parse from scratch. *)
THEOREM MemoSafe == Spec => []MemoInSync
  <1>1. IInv => MemoInSync
    BY DEF IInv
  <1> QED BY <1>1, Invariance, PTL

-----------------------------------------------------------------------------
(* Rows and columns *)

LEMMA Least ==
    ASSUME NEW T \in SUBSET Nat, T # {}
    PROVE  \E n \in T : \A m \in T : n <= m
  <1> DEFINE F == {1 .. n : n \in T}
             R == StrictSubsetOrdering(Nat)
  <1>1. F \subseteq FiniteSubsetsOf(Nat) /\ F # {}
    <2> SUFFICES ASSUME NEW n \in T
                 PROVE  IsFiniteSet(1 .. n) /\ 1 .. n \in SUBSET Nat
      BY DEF FiniteSubsetsOf
    <2> QED
      BY FS_Interval
  <1>2. IsWellFoundedOn(R, FiniteSubsetsOf(Nat))
    BY FS_StrictSubsetOrderingWellFounded
  <1>3. \E x \in F : \A y \in F : <<y, x>> \notin R
    <2> HIDE DEF F, R
    <2> QED
      BY <1>1, <1>2, WFMin
  <1>4. PICK n \in T : \A y \in F : <<y, 1 .. n>> \notin R
    BY <1>3
  <1>5. ASSUME NEW m \in T, m < n
        PROVE  FALSE
    <2>1. 1 .. m \in F /\ 1 .. m \in SUBSET Nat /\ 1 .. n \in SUBSET Nat
      <3>1. 1 .. m \in F
        OBVIOUS
      <3>2. m \in Nat /\ n \in Nat
        OBVIOUS
      <3> HIDE DEF F, R
      <3>3. 1 .. m \in SUBSET Nat /\ 1 .. n \in SUBSET Nat
        BY <3>2
      <3> QED
        BY <3>1, <3>3
    <2>2. 1 .. m \subseteq 1 .. n /\ n \in 1 .. n /\ n \notin 1 .. m
      BY <1>5
    <2>3. <<1 .. m, 1 .. n>> \in R
      BY <2>1, <2>2 DEF StrictSubsetOrdering
    <2> QED
      BY <1>4, <2>1, <2>3
  <1> QED
    BY <1>5

(* The line place b of t is on starts at n. *)
StartsLine(t, b, n) == (n = 0 \/ t[n] = NL) /\ \A i \in (n + 1) .. b : t[i] # NL

(* Every place is on one line, which starts where LineStart says. *)
LEMMA LineStartIs ==
    ASSUME NEW t, NEW b \in Nat
    PROVE  /\ LineStart(t, b) \in 0 .. b /\ StartsLine(t, b, LineStart(t, b))
           /\ \A n \in 0 .. b : StartsLine(t, b, n) => n = LineStart(t, b)
  <1> DEFINE D == {d \in Nat : d <= b /\ (b - d = 0 \/ t[b - d] = NL)}
  <1>1. D \in SUBSET Nat /\ b \in D
    OBVIOUS
  <1>2. PICK d \in D : \A e \in D : d <= e
    <2> HIDE DEF D
    <2> QED
      BY <1>1, Least
  <1>3. b - d \in 0 .. b /\ (b - d = 0 \/ t[b - d] = NL)
    OBVIOUS
  <1>4. ASSUME NEW i \in (b - d + 1) .. b PROVE t[i] # NL
    <2>1. b - i \in Nat /\ b - i <= b /\ b - (b - i) = i /\ ~(d <= b - i)
      BY <1>3
    <2> QED
      BY <1>2, <2>1
  <1> HIDE DEF D
  <1>5. \E n \in 0 .. b : (n = 0 \/ t[n] = NL) /\ \A i \in (n + 1) .. b : t[i] # NL
    BY <1>3, <1>4
  <1>6. LineStart(t, b) \in 0 .. b /\ StartsLine(t, b, LineStart(t, b))
    BY <1>5 DEF LineStart, StartsLine
  <1>7. ASSUME NEW n \in 0 .. b, NEW m \in 0 .. b, StartsLine(t, b, n), StartsLine(t, b, m), m < n
        PROVE  FALSE
    BY <1>7 DEF StartsLine
  <1>8. ASSUME NEW n \in 0 .. b, StartsLine(t, b, n) PROVE n = LineStart(t, b)
    <2>1. LineStart(t, b) \in Int /\ n \in Int
      BY <1>6
    <2> QED
      BY <1>6, <1>7, <1>8, <2>1
  <1> QED
    BY <1>6, <1>8

(* The line feeds of t after a, up to b. *)
LinesIn(t, a, b) == {i \in (a + 1) .. b : t[i] = NL}

(* What is counted is finite. *)
LEMMA LinesFinite ==
    ASSUME NEW t, NEW a \in Nat, NEW b \in Nat
    PROVE  IsFiniteSet(LinesIn(t, a, b)) /\ Cardinality(LinesIn(t, a, b)) \in Nat
  <1>1. IsFiniteSet((a + 1) .. b)
    <2>1. a + 1 \in Int /\ b \in Int
      OBVIOUS
    <2> QED
      BY <2>1, FS_Interval
  <1>2. LinesIn(t, a, b) \subseteq (a + 1) .. b
    BY DEF LinesIn
  <1> QED
    BY <1>1, <1>2, FS_Subset, FS_CardinalityType

(* The row and the column byte_to_point computes. *)
LEMMA RowIs ==
    ASSUME NEW t, NEW b \in Nat
    PROVE  /\ PointOf(t, b).row = Cardinality(LinesIn(t, 0, b))
           /\ PointOf(t, b).column = b - LineStart(t, b)
  BY DEF PointOf, LinesIn

(* The row of b is that of a and the line feeds in between. *)
LEMMA RowsSplit ==
    ASSUME NEW t, NEW a \in Nat, NEW b \in Nat, a <= b
    PROVE  PointOf(t, b).row = PointOf(t, a).row + Cardinality(LinesIn(t, a, b))
  <1> DEFINE A == LinesIn(t, 0, a)
             B == LinesIn(t, a, b)
  <1>1. LinesIn(t, 0, b) = A \cup B
    <2>1. \A i \in Int : i \in (0 + 1) .. b <=> i \in (0 + 1) .. a \/ i \in (a + 1) .. b
      OBVIOUS
    <2> QED
      BY <2>1 DEF LinesIn
  <1>2. A \cap B = {}
    <2>1. \A i \in Int : ~(i \in (0 + 1) .. a /\ i \in (a + 1) .. b)
      OBVIOUS
    <2> QED
      BY <2>1 DEF LinesIn
  <1>3. /\ IsFiniteSet(A) /\ Cardinality(A) \in Nat
        /\ IsFiniteSet(B) /\ Cardinality(B) \in Nat
    BY LinesFinite
  <1> HIDE DEF A, B
  <1>4. Cardinality(A \cup B) = Cardinality(A) + Cardinality(B) - Cardinality(A \cap B)
    BY <1>3, FS_Union
  <1>5. Cardinality(A \cap B) = 0
    BY <1>2, FS_EmptySet
  <1>6. Cardinality(A \cup B) = Cardinality(A) + Cardinality(B)
    BY <1>3, <1>4, <1>5
  <1>7. PointOf(t, b).row = Cardinality(A \cup B) /\ PointOf(t, a).row = Cardinality(A)
    BY <1>1, RowIs DEF A
  <1> QED
    BY <1>6, <1>7 DEF B

(* The n bytes of t after a are those of u after c. *)
SameAfter(t, a, u, c, n) == \A k \in 1 .. n : u[c + k] = t[a + k]

(* There are as many line feeds in both. *)
LEMMA SameLines ==
    ASSUME NEW t, NEW a \in Nat, NEW u, NEW c \in Nat, NEW n \in Nat, SameAfter(t, a, u, c, n)
    PROVE  Cardinality(LinesIn(t, a, a + n)) = Cardinality(LinesIn(u, c, c + n))
  <1> DEFINE S == LinesIn(t, a, a + n)
             T == LinesIn(u, c, c + n)
             f == [i \in S |-> i - a + c]
  <1>1. S \subseteq Int /\ T \subseteq Int
    BY DEF LinesIn
  <1>2. ASSUME NEW i \in S PROVE i - a + c \in T
    <2>1. i \in (a + 1) .. (a + n) /\ t[i] = NL
      BY DEF LinesIn
    <2>2. i - a \in 1 .. n /\ a + (i - a) = i /\ c + (i - a) = i - a + c
      BY <2>1
    <2>3. u[c + (i - a)] = t[a + (i - a)]
      BY <2>2 DEF SameAfter
    <2>4. i - a + c \in (c + 1) .. (c + n)
      BY <2>2
    <2> QED
      BY <2>1, <2>2, <2>3, <2>4 DEF LinesIn
  <1>3. ASSUME NEW j \in T PROVE \E i \in S : i - a + c = j
    <2>1. j \in (c + 1) .. (c + n) /\ u[j] = NL
      BY DEF LinesIn
    <2>2. j - c \in 1 .. n /\ c + (j - c) = j /\ a + (j - c) = j - c + a
      BY <2>1
    <2>3. u[c + (j - c)] = t[a + (j - c)]
      BY <2>2 DEF SameAfter
    <2>4. j - c + a \in (a + 1) .. (a + n) /\ j - c + a - a + c = j
      BY <2>2
    <2> QED
      BY <2>1, <2>2, <2>3, <2>4 DEF LinesIn
  <1>4. IsFiniteSet(S) /\ IsFiniteSet(T)
    <2>1. a + n \in Nat /\ c + n \in Nat
      OBVIOUS
    <2> QED
      BY <2>1, LinesFinite
  <1> HIDE DEF S, T
  <1>5. f \in [S -> T]
    BY <1>2
  <1>6. \A i, j \in S : f[i] = f[j] => i = j
    BY <1>1
  <1>7. \A j \in T : \E i \in S : f[i] = j
    <2> TAKE j \in T
    <2>1. PICK i \in S : i - a + c = j
      BY <1>3
    <2>2. f[i] = i - a + c
      OBVIOUS
    <2> QED
      BY <2>1, <2>2
  <1> HIDE DEF f
  <1>8. f \in Bijection(S, T)
    BY <1>5, <1>6, <1>7 DEF Bijection, Injection, Surjection, IsInjective
  <1> QED
    BY <1>4, <1>8, FS_Bijection DEF ExistsBijection, S, T

(* The end of a text, counted from the end of its changed part. *)
LEMMA ShiftedEnd ==
    ASSUME NEW t, NEW a \in Nat, NEW u, NEW c \in Nat, NEW n \in Nat, SameAfter(t, a, u, c, n)
    PROVE  Shift(PointOf(t, a + n), PointOf(t, a), PointOf(u, c)) = PointOf(u, c + n)
  <1> DEFINE lines == Cardinality(LinesIn(t, a, a + n))
             p == PointOf(t, a + n)
             from == PointOf(t, a)
             to == PointOf(u, c)
             end == PointOf(u, c + n)
  <1>1. /\ a + n \in Nat /\ c + n \in Nat /\ a <= a + n /\ c <= c + n
    OBVIOUS
  <1>2. lines \in Nat /\ from.row \in Nat /\ to.row \in Nat
    BY <1>1, LinesFinite, RowIs
  <1>3. p.row = from.row + lines /\ end.row = to.row + lines
    BY <1>1, RowsSplit, SameLines
  <1>4. /\ p.column = (a + n) - LineStart(t, a + n) /\ from.column = a - LineStart(t, a)
        /\ to.column = c - LineStart(u, c) /\ end.column = (c + n) - LineStart(u, c + n)
    BY <1>1, RowIs
  <1>5. /\ LineStart(t, a) \in 0 .. a /\ StartsLine(t, a, LineStart(t, a))
        /\ LineStart(u, c) \in 0 .. c /\ StartsLine(u, c, LineStart(u, c))
        /\ LineStart(t, a + n) \in 0 .. (a + n) /\ StartsLine(t, a + n, LineStart(t, a + n))
    BY <1>1, LineStartIs
  <1>6. \A m \in 0 .. (a + n) : StartsLine(t, a + n, m) => m = LineStart(t, a + n)
    BY <1>1, LineStartIs
  <1>7. \A m \in 0 .. (c + n) : StartsLine(u, c + n, m) => m = LineStart(u, c + n)
    BY <1>1, LineStartIs
  <1>8. LinesIn(t, a, a + n) = {} <=> p.row = from.row
    <2>1. lines = 0 <=> LinesIn(t, a, a + n) = {}
      BY <1>1, LinesFinite, FS_EmptySet
    <2> HIDE DEF lines, p, from
    <2> QED
      BY <1>2, <1>3, <2>1
  <1> HIDE DEF lines, p, from, to, end
  <1>9. CASE p.row = from.row
    <2>1. \A i \in (a + 1) .. (a + n) : t[i] # NL
      BY <1>8, <1>9 DEF LinesIn
    <2>2. \A i \in (c + 1) .. (c + n) : u[i] # NL
      <3> TAKE i \in (c + 1) .. (c + n)
      <3>1. i - c \in 1 .. n /\ c + (i - c) = i /\ a + (i - c) \in (a + 1) .. (a + n)
        OBVIOUS
      <3>2. u[c + (i - c)] = t[a + (i - c)]
        BY <3>1 DEF SameAfter
      <3> QED
        BY <2>1, <3>1, <3>2
    <2>3. StartsLine(t, a + n, LineStart(t, a))
      <3>1. \A i \in (LineStart(t, a) + 1) .. (a + n) :
               i \in (LineStart(t, a) + 1) .. a \/ i \in (a + 1) .. (a + n)
        BY <1>5
      <3> QED
        BY <1>5, <2>1, <3>1 DEF StartsLine
    <2>4. StartsLine(u, c + n, LineStart(u, c))
      <3>1. \A i \in (LineStart(u, c) + 1) .. (c + n) :
               i \in (LineStart(u, c) + 1) .. c \/ i \in (c + 1) .. (c + n)
        BY <1>5
      <3> QED
        BY <1>5, <2>2, <3>1 DEF StartsLine
    <2>5. LineStart(t, a) \in 0 .. (a + n) /\ LineStart(u, c) \in 0 .. (c + n)
      BY <1>5
    <2>6. LineStart(t, a + n) = LineStart(t, a) /\ LineStart(u, c + n) = LineStart(u, c)
      BY <1>6, <1>7, <2>3, <2>4, <2>5
    <2>7. end.column = to.column + (p.column - from.column)
      BY <1>4, <1>5, <2>6
    <2>8. end.row = to.row + (p.row - from.row)
      BY <1>2, <1>3
    <2> QED
      BY <1>9, <2>7, <2>8 DEF Shift, p, from, to, end, PointOf
  <1>10. CASE p.row # from.row
    <2> DEFINE m == LineStart(t, a + n)
    <2>1. PICK i \in (a + 1) .. (a + n) : t[i] = NL
      BY <1>8, <1>10 DEF LinesIn
    <2>2. m \in (a + 1) .. (a + n) /\ t[m] = NL
      <3>1. ~(i \in (m + 1) .. (a + n))
        BY <1>5, <2>1 DEF StartsLine
      <3>2. m >= i /\ m # 0
        BY <1>5, <3>1
      <3> QED
        BY <1>5, <3>2 DEF StartsLine
    <2>3. m - a \in 1 .. n /\ a + (m - a) = m /\ c + (m - a) = m - a + c
      BY <2>2
    <2>4. u[m - a + c] = NL
      BY <2>2, <2>3 DEF SameAfter
    <2>5. \A j \in (m - a + c + 1) .. (c + n) : u[j] # NL
      <3> TAKE j \in (m - a + c + 1) .. (c + n)
      <3>1. j - c \in 1 .. n /\ c + (j - c) = j /\ a + (j - c) \in (m + 1) .. (a + n)
        BY <2>3, <2>2
      <3>2. u[c + (j - c)] = t[a + (j - c)]
        BY <3>1 DEF SameAfter
      <3>3. t[a + (j - c)] # NL
        BY <1>5, <3>1 DEF StartsLine
      <3> QED
        BY <3>1, <3>2, <3>3
    <2>6. StartsLine(u, c + n, m - a + c)
      BY <2>4, <2>5 DEF StartsLine
    <2>7. m - a + c \in 0 .. (c + n)
      BY <2>3
    <2>8. LineStart(u, c + n) = m - a + c
      BY <1>7, <2>6, <2>7
    <2>9. end.column = p.column
      BY <1>4, <1>5, <2>8
    <2>10. end.row = to.row + (p.row - from.row)
      BY <1>2, <1>3
    <2> QED
      BY <1>10, <2>9, <2>10 DEF Shift, p, from, to, end, PointOf
  <1> QED
    BY <1>9, <1>10

(* The points of an InputEdit move the end of a tree to the end of the text *)
(* the edit makes.                                                          *)
LEMMA EditKeepsExtent ==
    ASSUME NEW t \in Seq(Byte), NEW tree, tree.extent = PointOf(t, Len(t)),
           NEW start \in Nat, NEW oldEnd \in Nat, start <= oldEnd, oldEnd <= Len(t),
           NEW ins \in Seq(Byte)
    PROVE  LET new == Splice(t, start, oldEnd, ins)
           IN  Edit(tree, InputEdit(t, new, start, oldEnd, ins)).extent = PointOf(new, Len(new))
  <1> DEFINE new  == Splice(t, start, oldEnd, ins)
             edit == InputEdit(t, new, start, oldEnd, ins)
             n    == Len(t) - oldEnd
             c    == start + Len(ins)
  <1>1. /\ n \in Nat /\ c \in Nat /\ oldEnd + n = Len(t) /\ Len(t) \in Nat /\ Len(ins) \in Nat
        /\ Len(t) - (oldEnd - start) + Len(ins) = c + n
    OBVIOUS
  <1>2. Len(new) = c + n
    <2>1. new \in [1 .. (Len(t) - (oldEnd - start) + Len(ins)) -> Byte]
      BY SpliceType
    <2>2. new \in [1 .. (c + n) -> Byte] /\ c + n \in Nat
      BY <1>1, <2>1
    <2> HIDE DEF new, c, n
    <2> QED
      BY <2>2, FunctionIsSeq
  <1>3. SameAfter(t, oldEnd, new, c, n)
    <2> SUFFICES ASSUME NEW k \in 1 .. n PROVE new[c + k] = t[oldEnd + k]
      BY DEF SameAfter
    <2>1. /\ c + k \in 1 .. (Len(t) - (oldEnd - start) + Len(ins))
          /\ ~(c + k <= start) /\ ~(c + k <= start + Len(ins))
          /\ c + k - Len(ins) + (oldEnd - start) = oldEnd + k
      BY <1>1
    <2>2. PICK i \in 1 .. (Len(t) - (oldEnd - start) + Len(ins)) :
             /\ i = c + k /\ ~(i <= start) /\ ~(i <= start + Len(ins))
             /\ i - Len(ins) + (oldEnd - start) = oldEnd + k
      BY <2>1
    <2>3. new[i] = t[i - Len(ins) + (oldEnd - start)]
      <3> HIDE DEF c, n
      <3> QED
        BY <2>2 DEF Splice
    <2> HIDE DEF new, c, n
    <2> QED
      BY <2>2, <2>3
  <1>4. /\ Edit(tree, edit).extent = Shift(tree.extent, PointOf(t, oldEnd), PointOf(new, c))
    BY DEF Edit, InputEdit
  <1> HIDE DEF new, edit, n, c
  <1>5. Shift(PointOf(t, oldEnd + n), PointOf(t, oldEnd), PointOf(new, c)) = PointOf(new, c + n)
    BY <1>1, <1>3, ShiftedEnd
  <1> QED
    BY <1>1, <1>2, <1>4, <1>5 DEF new, edit

(* Every step keeps the end of a cached tree at the end of its text. *)
LEMMA ExtentStep ==
    ASSUME IInv, ExtentInSync, [Next]_vars
    PROVE  ExtentInSync'
  <1>1. CASE UNCHANGED vars
    BY <1>1 DEF vars, ExtentInSync
  <1>2. ASSUME NEW f \in File, NEW e \in Edits(text[f]), Update(f, e[1], e[2], e[3])
        PROVE  ExtentInSync'
    <2> DEFINE new  == Splice(text[f], e[1], e[2], e[3])
               edit == InputEdit(text[f], new, e[1], e[2], e[3])
               tree == Edit(cache[f], edit)
    <2>1. text[f] \in Text
      BY DEF IInv, TypeOK
    <2>2. cache[f] # NoTree => tree.extent = PointOf(new, Len(new))
      BY <2>1, EditedText, EditKeepsExtent DEF ExtentInSync
    <2>3. text' = [text EXCEPT ![f] = new]
      BY <1>2 DEF Update, SetText
    <2>4. cache' = IF cache[f] = NoTree THEN cache ELSE [cache EXCEPT ![f] = tree]
      BY <1>2 DEF Update, EditCache
    <2> HIDE DEF new, edit, tree
    <2> QED
      BY <2>2, <2>3, <2>4 DEF IInv, TypeOK, ExtentInSync
  <1>3. ASSUME NEW f \in File, NEW t \in Text, Reset(f, t)
        PROVE  ExtentInSync'
    <2>1. text' = [text EXCEPT ![f] = t] /\ cache' = [cache EXCEPT ![f] = NoTree]
      BY <1>3 DEF Reset, SetText, Invalidate
    <2> QED
      BY <2>1 DEF IInv, TypeOK, ExtentInSync
  <1>4. ASSUME NEW f \in File, Parse(f)
        PROVE  ExtentInSync'
    <2>1. CASE MemoIsCurrent(f)
      BY <1>4, <2>1 DEF Parse, ExtentInSync
    <2>2. CASE ~MemoIsCurrent(f)
      <3>1. cache' = [cache EXCEPT ![f] = NewTree(f)] /\ text' = text
        BY <1>4, <2>2 DEF Parse
      <3>2. NewTree(f).extent = PointOf(text[f], Len(text[f]))
        BY DEF NewTree, Fresh, Reparse
      <3> QED
        BY <3>1, <3>2 DEF IInv, TypeOK, ExtentInSync
    <2> QED
      BY <2>1, <2>2
  <1>5. CASE Next
    <2>1. PICK f \in File : Change(f) \/ Replace(f) \/ Parse(f)
      BY <1>5 DEF Next
    <2> QED
      BY <2>1, <1>2, <1>3, <1>4 DEF Change, Replace
  <1> QED
    BY <1>1, <1>5

(* The rows and columns update takes from the rope before and the rope      *)
(* after an edit keep the end of the cached tree at the end of the text.    *)
THEOREM ExtentSafe == Spec => []ExtentInSync
  <1>1. Init => IInv /\ ExtentInSync
    <2>1. Init => ExtentInSync
      BY DEF Init, ExtentInSync
    <2> QED
      BY <2>1, InitIInv
  <1>2. IInv /\ ExtentInSync /\ [Next]_vars => (IInv /\ ExtentInSync)'
    BY NextIInv, ExtentStep
  <1> QED
    BY <1>1, <1>2, PTL DEF Spec

-----------------------------------------------------------------------------
(* Refinement: every write is a Write of the abstract service, every parse  *)
(* query an Ask.                                                            *)

LEMMA TextIsBytes == Text \subseteq Seq(Byte)
  BY MaxLenAssumption, TextIsSeq DEF Text

LEMMA SameFresh == \A t : Service!Fresh(t) = Fresh(t)
  <1>1. \A t, b : Service!LineStart(t, b) = LineStart(t, b)
    BY Zenon DEF Service!LineStart, LineStart
  <1>2. \A t, b : Service!PointOf(t, b) = PointOf(t, b)
    <2>1. \A S : Service!Cardinality(S) = Cardinality(S)
      BY Zenon DEF Service!Cardinality, Cardinality
    <2> QED BY <1>1, <2>1 DEF Service!PointOf, PointOf
  <1> QED BY <1>2, Zenon DEF Service!Fresh, Fresh

LEMMA StepRefines ==
    ASSUME IInv, [Next]_vars
    PROVE  [Service!Next]_(Service!vars)
  <1>1. CASE UNCHANGED vars
    BY <1>1 DEF vars, Service!vars
  <1>2. ASSUME NEW f \in File, NEW e \in Edits(text[f]), Update(f, e[1], e[2], e[3])
        PROVE  Service!Write(f)
    <2>1. text[f] \in Text
      BY DEF IInv, TypeOK
    <2>2. Splice(text[f], e[1], e[2], e[3]) \in Text
      BY <2>1, EditedText
    <2>3. Splice(text[f], e[1], e[2], e[3]) \in Seq(Byte)
      BY <2>2, TextIsBytes
    <2>4. text' = [text EXCEPT ![f] = Splice(text[f], e[1], e[2], e[3])] /\ UNCHANGED answer
      BY <1>2 DEF Update, SetText
    <2> QED BY <2>3, <2>4 DEF IInv, TypeOK, Service!Write
  <1>3. ASSUME NEW f \in File, NEW t \in Text, Reset(f, t)
        PROVE  Service!Write(f)
    <2>1. t \in Seq(Byte)
      BY TextIsBytes
    <2> QED BY <1>3, <2>1 DEF IInv, TypeOK, Reset, SetText, Service!Write
  <1>4. ASSUME NEW f \in File, Parse(f)
        PROVE  Service!Ask(f)
    <2>1. CASE MemoIsCurrent(f)
      <3>1. memo[f] = [source |-> text[f], tree |-> Fresh(text[f])]
        BY <2>1 DEF IInv, MemoInSync
      <3> QED BY <1>4, <2>1, <3>1, SameFresh DEF Parse, Answer, Service!Ask
    <2>2. CASE ~MemoIsCurrent(f)
      BY <1>4, <2>2, NewTreeIsFresh, SameFresh DEF Parse, Answer, Service!Ask
    <2> QED BY <2>1, <2>2
  <1>5. CASE Next
    <2>1. PICK f \in File : Change(f) \/ Replace(f) \/ Parse(f)
      BY <1>5 DEF Next
    <2> QED BY <2>1, <1>2, <1>3, <1>4 DEF Service!Next, Change, Replace
  <1> QED BY <1>1, <1>5

(* The incremental parser implements the abstract service: no caller can    *)
(* tell its answers from those of a parser with no cache at all.            *)
THEOREM Refinement == Spec => ServiceSpec
  <1>1. Init => Service!Init
    BY TextIsBytes DEF Init, Service!Init
  <1> QED BY <1>1, Invariance, StepRefines, PTL DEF Spec, Service!Spec, ServiceSpec
=============================================================================
