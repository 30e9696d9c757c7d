---------------------------- MODULE LspServerProofs ----------------------------
(***************************************************************************)
(* Proofs about Rope and LspServer, for any files, characters, texts and   *)
(* bounds: the three ways of counting in a text agree, the server's texts  *)
(* follow the editor's, and where it can panic.                            *)
(***************************************************************************)
EXTENDS LspServer, FiniteSetTheorems, SequenceTheorems, TLAPS

(***************************************************************************)
(* Rope                                                                    *)
(***************************************************************************)

(* Every set of numbers that is not empty has a least one, and a greatest   *)
(* one if it is bounded.                                                    *)
LEMMA Least ==
    ASSUME NEW T \in SUBSET Nat, T # {}
    PROVE  \E n \in T : \A m \in T : n <= m
  <1> DEFINE F == {1 .. n : n \in T}
             R == StrictSubsetOrdering(Nat)
  <1>1. F \subseteq FiniteSubsetsOf(Nat) /\ F # {}
    <2> SUFFICES ASSUME NEW n \in T
                 PROVE  IsFiniteSet(1 .. n) /\ 1 .. n \in SUBSET Nat
      BY DEF FiniteSubsetsOf
    <2> QED
      BY FS_Interval
  <1>2. IsWellFoundedOn(R, FiniteSubsetsOf(Nat))
    BY FS_StrictSubsetOrderingWellFounded
  <1>3. \E x \in F : \A y \in F : <<y, x>> \notin R
    <2> HIDE DEF F, R
    <2> QED
      BY <1>1, <1>2, WFMin
  <1>4. PICK n \in T : \A y \in F : <<y, 1 .. n>> \notin R
    BY <1>3
  <1>5. ASSUME NEW m \in T, m < n
        PROVE  FALSE
    <2>1. 1 .. m \in F /\ 1 .. m \in SUBSET Nat /\ 1 .. n \in SUBSET Nat
      <3>1. 1 .. m \in F
        OBVIOUS
      <3>2. m \in Nat /\ n \in Nat
        OBVIOUS
      <3> HIDE DEF F, R
      <3>3. 1 .. m \in SUBSET Nat /\ 1 .. n \in SUBSET Nat
        BY <3>2
      <3> QED
        BY <3>1, <3>3
    <2>2. 1 .. m \subseteq 1 .. n /\ n \in 1 .. n /\ n \notin 1 .. m
      BY <1>5
    <2>3. <<1 .. m, 1 .. n>> \in R
      BY <2>1, <2>2 DEF StrictSubsetOrdering
    <2> QED
      BY <1>4, <2>1, <2>3
  <1> QED
    BY <1>5

LEMMA Greatest ==
    ASSUME NEW b \in Nat, NEW T \in SUBSET (0 .. b), T # {}
    PROVE  \E n \in T : \A m \in T : m <= n
  <1> DEFINE U == {b - n : n \in T}
  <1>1. U \in SUBSET Nat /\ U # {}
    <2>1. \A n \in T : n \in 0 .. b /\ b - n \in Nat
      OBVIOUS
    <2>2. PICK n \in T : TRUE
      OBVIOUS
    <2>3. b - n \in U
      OBVIOUS
    <2> QED
      BY <2>1, <2>3
  <1>2. PICK u \in U : \A v \in U : u <= v
    <2> HIDE DEF U
    <2> QED
      BY <1>1, Least
  <1>3. PICK n \in T : u = b - n
    OBVIOUS
  <1>4. \A m \in T : b - m \in U
    OBVIOUS
  <1>5. \A m \in T : m \in 0 .. b
    OBVIOUS
  <1> HIDE DEF U
  <1> QED
    BY <1>2, <1>3, <1>4, <1>5

(* A part of a finite set has fewer elements, unless it is the whole.       *)
LEMMA Fewer ==
    ASSUME NEW S, IsFiniteSet(S), NEW T \in SUBSET S
    PROVE  /\ IsFiniteSet(T) /\ Cardinality(T) \in Nat /\ Cardinality(S) \in Nat
           /\ Cardinality(T) <= Cardinality(S)
           /\ \A x \in S : x \notin T => Cardinality(T) < Cardinality(S)
  <1>1. IsFiniteSet(T) /\ Cardinality(T) <= Cardinality(S)
        /\ (Cardinality(S) = Cardinality(T) => S = T)
    BY FS_Subset
  <1>2. Cardinality(T) \in Nat /\ Cardinality(S) \in Nat
    BY <1>1, FS_CardinalityType
  <1> QED
    BY <1>1, <1>2

LEMMA Intervals == \A i, j \in Int : IsFiniteSet(i .. j)
  BY FS_Interval

-----------------------------------------------------------------------------
(* Columns and lines. *)

(* The further into a line, the more code units. *)
LEMMA UnitsGrow ==
    ASSUME NEW r \in Seq(Char), NEW from \in Nat, NEW a \in Nat, NEW b \in Nat,
           from <= a, a <= b, b <= Len(r)
    PROVE  /\ Utf16Units(r, from, a) \in Nat /\ Utf16Units(r, from, b) \in Nat
           /\ Utf16Units(r, from, a) <= Utf16Units(r, from, b)
           /\ a < b => Utf16Units(r, from, a) < Utf16Units(r, from, b)
  <1> DEFINE S(to) == {x \in ((from + 1) .. to) \X (1 .. 2) : x[2] <= Utf16Len[r[x[1]]]}
  <1>1. IsFiniteSet(S(b))
    <2>1. IsFiniteSet((from + 1) .. b) /\ IsFiniteSet(1 .. 2)
      <3>1. from + 1 \in Int /\ b \in Int /\ 1 \in Int /\ 2 \in Int
        OBVIOUS
      <3> DEFINE first == from + 1
      <3> HIDE DEF first
      <3>2. IsFiniteSet(first .. b) /\ IsFiniteSet(1 .. 2)
        BY <3>1, Intervals DEF first
      <3> QED
        BY <3>2 DEF first
    <2>2. IsFiniteSet(((from + 1) .. b) \X (1 .. 2))
      BY <2>1, FS_Product
    <2> QED
      BY <2>2, FS_Subset
  <1>2. S(a) \in SUBSET S(b)
    OBVIOUS
  <1>3. ASSUME a < b
        PROVE  <<b, 1>> \in S(b) /\ <<b, 1>> \notin S(a)
    <2>1. r[b] \in Char /\ Utf16Len[r[b]] \in 1 .. 2
      BY <1>3, CharAssumption
    <2> QED
      BY <1>3, <2>1
  <1>4. Utf16Units(r, from, a) = Cardinality(S(a)) /\ Utf16Units(r, from, b) = Cardinality(S(b))
    BY DEF Utf16Units
  <1> HIDE DEF S
  <1> QED
    BY <1>1, <1>2, <1>3, <1>4, Fewer

(* The lines that start before a place. *)
LinesBefore(r, n) == {m \in LineStarts(r) : m < n}

LEMMA Starts ==
    ASSUME NEW r \in Seq(Char)
    PROVE  /\ LineStarts(r) \in SUBSET (0 .. Len(r)) /\ 0 \in LineStarts(r)
           /\ IsFiniteSet(LineStarts(r)) /\ Cardinality(LineStarts(r)) \in Nat
  <1>1. LineStarts(r) \in SUBSET (0 .. Len(r)) /\ 0 \in LineStarts(r)
    BY DEF LineStarts
  <1>2. IsFiniteSet(0 .. Len(r))
    BY Intervals
  <1> QED
    BY <1>1, <1>2, FS_Subset, FS_CardinalityType

(* A line is found by the number of lines before it. *)
LEMMA LineIsFound ==
    ASSUME NEW r \in Seq(Char), NEW n \in LineStarts(r)
    PROVE  LineToChar(r, Cardinality(LinesBefore(r, n))) = n
  <1>1. \A m \in LineStarts(r) :
            Cardinality(LinesBefore(r, m)) = Cardinality(LinesBefore(r, n)) => m = n
    <2> SUFFICES ASSUME NEW a \in LineStarts(r), NEW b \in LineStarts(r), a < b
                 PROVE  Cardinality(LinesBefore(r, a)) # Cardinality(LinesBefore(r, b))
      <3>1. \A m \in LineStarts(r) : m \in Int
        BY Starts
      <3> QED
        BY <3>1
    <2>1. IsFiniteSet(LinesBefore(r, b))
      BY Starts, FS_Subset DEF LinesBefore
    <2>2. LinesBefore(r, a) \in SUBSET LinesBefore(r, b)
      BY Starts DEF LinesBefore
    <2>3. a \in LinesBefore(r, b) /\ a \notin LinesBefore(r, a)
      BY Starts DEF LinesBefore
    <2>4. Cardinality(LinesBefore(r, a)) < Cardinality(LinesBefore(r, b))
      BY <2>1, <2>2, <2>3, Fewer
    <2>5. Cardinality(LinesBefore(r, a)) \in Nat /\ Cardinality(LinesBefore(r, b)) \in Nat
      BY <2>1, <2>2, Fewer
    <2> QED
      BY <2>4, <2>5
  <1> QED
    BY <1>1 DEF LineToChar, LinesBefore

(* The line of a place: where it starts, its number, and where it ends.     *)
LineOf(r, idx, start) ==
    /\ start \in LineStarts(r) /\ start <= idx
    /\ \A m \in LineStarts(r) : m <= idx => m <= start

LEMMA LineExists ==
    ASSUME NEW r \in Seq(Char), NEW idx \in 0 .. Len(r)
    PROVE  \E start \in LineStarts(r) : LineOf(r, idx, start)
  <1> DEFINE T == {n \in LineStarts(r) : n <= idx}
  <1>1. T \in SUBSET (0 .. Len(r)) /\ T # {}
    BY Starts
  <1>2. \E n \in T : \A m \in T : m <= n
    <2> HIDE DEF T
    <2>1. Len(r) \in Nat
      OBVIOUS
    <2> QED
      BY <1>1, <2>1, Greatest
  <1> QED
    BY <1>2 DEF LineOf

LEMMA LineOfPlace ==
    ASSUME NEW r \in Seq(Char), NEW idx \in 0 .. Len(r), NEW start, LineOf(r, idx, start)
    PROVE  LET line == Cardinality(LinesBefore(r, start))
           IN  /\ start \in 0 .. idx /\ line \in Nat /\ line < Cardinality(LineStarts(r))
               /\ LineToChar(r, line) = start
               /\ PositionAt(r, idx) = [line |-> line, character |-> Utf16Units(r, start, idx)]
               /\ LineEnd(r, line) \in idx .. Len(r)
  <1> DEFINE line == Cardinality(LinesBefore(r, start))
             starts == {n \in LineStarts(r) : n <= idx}
  <1>1. start \in LineStarts(r) /\ start \in 0 .. idx
    BY Starts DEF LineOf
  <1>2. starts = LinesBefore(r, start) \cup {start} /\ start \notin LinesBefore(r, start)
    BY <1>1, Starts DEF LineOf, LinesBefore
  <1>3. IsFiniteSet(starts) /\ IsFiniteSet(LinesBefore(r, start))
    BY Starts, FS_Subset DEF LinesBefore
  <1>4. line \in Nat /\ Cardinality(starts) = line + 1
    BY <1>2, <1>3, FS_AddElement, FS_CardinalityType
  <1>5. Cardinality(starts) <= Cardinality(LineStarts(r))
    BY Starts, Fewer
  <1>6. LineToChar(r, line) = start
    BY <1>1, LineIsFound
  <1>7. (CHOOSE n \in starts : \A m \in starts : m <= n) = start
    <2>1. \A n \in starts : n \in Int
      BY Starts
    <2>2. start \in starts /\ \A m \in starts : m <= start
      BY <1>1 DEF LineOf
    <2> HIDE DEF starts
    <2>3. \A n \in starts : (\A m \in starts : m <= n) => n = start
      BY <2>1, <2>2
    <2> QED
      BY <2>2, <2>3
  <1>8. PositionAt(r, idx) = [line |-> line, character |-> Utf16Units(r, start, idx)]
    <2>1. Cardinality(starts) - 1 = line
      BY <1>4
    <2>2. PositionAt(r, idx)
            = [line |-> Cardinality(starts) - 1,
               character |-> Utf16Units(r, CHOOSE n \in starts : \A m \in starts : m <= n, idx)]
      BY DEF PositionAt
    <2> HIDE DEF starts, line
    <2> QED
      BY <1>7, <2>1, <2>2
  <1>9. LineEnd(r, line) \in idx .. Len(r)
    <2>1. CASE line + 1 = Cardinality(LineStarts(r))
      BY <2>1 DEF LineEnd
    <2>2. CASE line + 1 # Cardinality(LineStarts(r))
      <3> DEFINE after == {n \in LineStarts(r) : idx < n}
      <3>1. after # {}
        <4>1. after = {} => starts = LineStarts(r)
          BY Starts
        <4> QED
          BY <4>1, <1>4, <2>2
      <3>2. after \in SUBSET Nat
        BY Starts
      <3>3. PICK n \in after : \A m \in after : n <= m
        <4> HIDE DEF after
        <4> QED
          BY <3>1, <3>2, Least
      <3>4. n \in LineStarts(r) /\ n \in idx .. Len(r)
        BY <3>3, Starts
      <3>5. LinesBefore(r, n) = starts
        <4>1. \A m \in LineStarts(r) : m \in Nat
          BY Starts
        <4>2. n \in Nat /\ idx < n /\ \A m \in LineStarts(r) : idx < m => n <= m
          BY <3>3, <4>1
        <4>3. \A m \in LineStarts(r) : m < n <=> m <= idx
          BY <4>1, <4>2
        <4> QED
          BY <4>3 DEF LinesBefore
      <3>6. LineToChar(r, line + 1) = n
        BY <3>4, <3>5, <1>4, LineIsFound
      <3> QED
        BY <2>2, <3>4, <3>6 DEF LineEnd
    <2> QED
      BY <2>1, <2>2
  <1> HIDE DEF starts
  <1> QED
    BY <1>1, <1>4, <1>5, <1>6, <1>8, <1>9, Starts

(* Whatever the widths of the characters and the number of lines, the       *)
(* server finds every position the editor can send of a text it has, and    *)
(* finds the place the editor means: to_rope_idx is the inverse of the      *)
(* protocol's positions, and no two places have one position.               *)
THEOREM PositionIsFound ==
    ASSUME NEW r \in Seq(Char), NEW idx \in 0 .. Len(r)
    PROVE  /\ IsPosition(r, PositionAt(r, idx))
           /\ ToRopeIdx(r, PositionAt(r, idx)) = idx
           /\ \A j \in 0 .. Len(r) : PositionAt(r, j) = PositionAt(r, idx) => j = idx
  <1>1. PICK start : LineOf(r, idx, start)
    BY LineExists
  <1> DEFINE line == Cardinality(LinesBefore(r, start))
             end == LineEnd(r, line)
             pos == PositionAt(r, idx)
  <1>2. /\ start \in 0 .. idx /\ line \in Nat /\ line < Cardinality(LineStarts(r))
        /\ LineToChar(r, line) = start
        /\ pos = [line |-> line, character |-> Utf16Units(r, start, idx)]
        /\ end \in idx .. Len(r)
    BY <1>1, LineOfPlace
  <1>3. pos.line = line /\ pos.character = Utf16Units(r, start, idx)
    BY <1>2
  <1> HIDE DEF line, end, pos
  <1>4. IsPosition(r, pos)
    <2>1. Utf16Units(r, start, idx) <= Utf16Units(r, start, end)
      BY <1>2, UnitsGrow
    <2> QED
      BY <1>2, <1>3, <2>1 DEF IsPosition, end
  <1>5. /\ Utf16Units(r, start, idx) <= pos.character
        /\ idx < end => Utf16Units(r, start, idx + 1) > pos.character
    <2>1. Utf16Units(r, start, idx) \in Nat
      BY <1>2, UnitsGrow
    <2>2. idx < end => Utf16Units(r, start, idx + 1) > Utf16Units(r, start, idx)
      <3> SUFFICES ASSUME idx < end
                   PROVE  Utf16Units(r, start, idx + 1) > Utf16Units(r, start, idx)
        OBVIOUS
      <3>1. idx + 1 \in Nat /\ idx + 1 <= Len(r) /\ start \in Nat /\ start <= idx
        BY <1>2
      <3> QED
        BY <3>1, UnitsGrow
    <2> QED
      BY <1>3, <2>1, <2>2
  <1>6. ASSUME NEW n \in start .. end,
               Utf16Units(r, start, n) <= pos.character,
               n < end => Utf16Units(r, start, n + 1) > pos.character
        PROVE  n = idx
    <2>0. n \in Nat /\ start \in Nat /\ n <= Len(r) /\ start <= n
      BY <1>2
    <2>1. CASE n < idx
      <3>1. n < end /\ n + 1 \in Nat /\ start <= n + 1 /\ n + 1 <= idx
        BY <2>0, <2>1, <1>2
      <3>2. /\ Utf16Units(r, start, n + 1) <= Utf16Units(r, start, idx)
            /\ Utf16Units(r, start, n + 1) \in Nat /\ Utf16Units(r, start, idx) \in Nat
        BY <2>0, <3>1, UnitsGrow
      <3> QED
        BY <1>3, <1>6, <3>1, <3>2
    <2>2. CASE idx < n
      <3>1. /\ Utf16Units(r, start, idx) < Utf16Units(r, start, n)
            /\ Utf16Units(r, start, n) \in Nat /\ Utf16Units(r, start, idx) \in Nat
        BY <1>2, <2>0, <2>2, UnitsGrow
      <3> QED
        BY <1>3, <1>6, <3>1
    <2> QED
      BY <2>0, <2>1, <2>2
  <1>7. ToRopeIdx(r, pos) = idx
    <2>1. LineToChar(r, pos.line) = start /\ LineEnd(r, pos.line) = end
      BY <1>2, <1>3 DEF end
    <2>2. idx \in start .. end
      BY <1>2
    <2> QED
      BY <1>5, <1>6, <2>1, <2>2 DEF ToRopeIdx
  <1>8. ASSUME NEW j \in 0 .. Len(r), PositionAt(r, j) = pos
        PROVE  j = idx
    <2>1. PICK s : LineOf(r, j, s)
      BY LineExists
    <2>2. /\ s \in 0 .. j /\ LineToChar(r, Cardinality(LinesBefore(r, s))) = s
          /\ PositionAt(r, j) = [line |-> Cardinality(LinesBefore(r, s)),
                                 character |-> Utf16Units(r, s, j)]
      BY <2>1, LineOfPlace
    <2>3. Cardinality(LinesBefore(r, s)) = line /\ Utf16Units(r, s, j) = Utf16Units(r, start, idx)
      BY <1>3, <1>8, <2>2
    <2>4. s = start
      BY <1>2, <2>2, <2>3
    <2>5. CASE j < idx
      <3>1. Utf16Units(r, s, j) < Utf16Units(r, s, idx) /\ Utf16Units(r, s, j) \in Nat
        BY <1>2, <2>2, <2>4, <2>5, UnitsGrow
      <3> QED
        BY <2>3, <2>4, <3>1
    <2>6. CASE idx < j
      <3>1. Utf16Units(r, s, idx) < Utf16Units(r, s, j) /\ Utf16Units(r, s, idx) \in Nat
        BY <1>2, <2>2, <2>4, <2>6, UnitsGrow
      <3> QED
        BY <2>3, <2>4, <3>1
    <2> QED
      BY <2>5, <2>6
  <1> QED
    BY <1>4, <1>7, <1>8 DEF pos
-----------------------------------------------------------------------------
(* Bytes. *)

(* What holds of 0 and is handed on up to b, holds up to b. *)
LEMMA HandedOn ==
    ASSUME NEW b \in Nat, NEW T, 0 \in T,
           \A n \in Nat : n < b /\ n \in T => n + 1 \in T
    PROVE  \A n \in 0 .. b : n \in T
  <1> DEFINE U == {n \in 0 .. b : n \notin T}
  <1> SUFFICES ASSUME U # {}
               PROVE  FALSE
    OBVIOUS
  <1>1. PICK n \in U : \A m \in U : n <= m
    <2>1. U \in SUBSET Nat
      OBVIOUS
    <2> HIDE DEF U
    <2> QED
      BY <2>1, Least
  <1>2. n # 0 /\ n \in 0 .. b /\ n \notin T
    OBVIOUS
  <1>3. n - 1 \in Nat /\ n - 1 < b /\ n - 1 + 1 = n /\ n - 1 < n
    BY <1>2
  <1>4. n - 1 \in T
    BY <1>1, <1>2, <1>3
  <1> QED
    BY <1>2, <1>3, <1>4

BytesUpTo(r, to) == {x \in (1 .. to) \X (1 .. 4) : x[2] <= ByteLen[r[x[1]]]}

(* A character adds its length to the bytes before the next. *)
LEMMA NextByte ==
    ASSUME NEW r \in Seq(Char), NEW n \in 0 .. Len(r)
    PROVE  /\ CharToByte(r, 0) = 0 /\ CharToByte(r, n) \in Nat
           /\ n < Len(r) => /\ ByteLen[r[n + 1]] \in 1 .. 4 /\ r[n + 1] \in Char
                            /\ CharToByte(r, n + 1) = CharToByte(r, n) + ByteLen[r[n + 1]]
  <1>1. ASSUME NEW m \in Nat
        PROVE  /\ IsFiniteSet(BytesUpTo(r, m)) /\ Cardinality(BytesUpTo(r, m)) \in Nat
               /\ CharToByte(r, m) = Cardinality(BytesUpTo(r, m))
    <2>1. IsFiniteSet(1 .. m) /\ IsFiniteSet(1 .. 4)
      <3>1. 1 \in Int /\ m \in Int /\ 4 \in Int
        OBVIOUS
      <3> QED
        BY <3>1, Intervals
    <2>2. IsFiniteSet((1 .. m) \X (1 .. 4))
      BY <2>1, FS_Product
    <2>3. IsFiniteSet(BytesUpTo(r, m))
      BY <2>2, FS_Subset DEF BytesUpTo
    <2>4. CharToByte(r, m) = Cardinality(BytesUpTo(r, m))
      BY DEF CharToByte, BytesUpTo
    <2> QED
      BY <2>3, <2>4, FS_CardinalityType
  <1>2. CharToByte(r, 0) = 0
    <2>1. BytesUpTo(r, 0) = {}
      BY DEF BytesUpTo
    <2> QED
      BY <2>1, <1>1, FS_EmptySet
  <1>3. ASSUME n < Len(r)
        PROVE  /\ ByteLen[r[n + 1]] \in 1 .. 4 /\ r[n + 1] \in Char
               /\ CharToByte(r, n + 1) = CharToByte(r, n) + ByteLen[r[n + 1]]
    <2> DEFINE len == ByteLen[r[n + 1]]
               T == {n + 1} \X (1 .. len)
    <2>1. r[n + 1] \in Char /\ len \in 1 .. 4
      BY <1>3, CharAssumption
    <2> HIDE DEF len
    <2>2. IsFiniteSet(T) /\ Cardinality(T) = len
      <3>1. IsFiniteSet({n + 1}) /\ Cardinality({n + 1}) = 1
        BY FS_Singleton
      <3>2. IsFiniteSet(1 .. len) /\ Cardinality(1 .. len) = len
        <4>1. 1 \in Int /\ len \in Int /\ ~(1 > len) /\ len - 1 + 1 = len
          BY <2>1
        <4> QED
          BY <4>1, FS_Interval
      <3>3. IsFiniteSet(T) /\ Cardinality(T) = 1 * len
        <4>1. IsFiniteSet(T) /\ Cardinality(T) = Cardinality({n + 1}) * Cardinality(1 .. len)
          BY <3>1, <3>2, FS_Product, Zenon
        <4> QED
          BY <4>1, <3>1, <3>2, Zenon
      <3>4. \A c : c = 1 * len => c = len
        BY <2>1
      <3> QED
        BY <3>3, <3>4
    <2>3. BytesUpTo(r, n + 1) = BytesUpTo(r, n) \cup T
      <3>1. \A j : j \in 1 .. (n + 1) <=> j \in 1 .. n \/ j = n + 1
        OBVIOUS
      <3>2. \A k : k \in 1 .. len <=> k \in 1 .. 4 /\ k <= len
        BY <2>1
      <3> QED
        BY <3>1, <3>2 DEF len, BytesUpTo
    <2>4. BytesUpTo(r, n) \cap T = {}
      BY DEF BytesUpTo
    <2>5. IsFiniteSet(BytesUpTo(r, n)) /\ Cardinality(BytesUpTo(r, n)) \in Nat
      BY <1>1
    <2> HIDE DEF T, len
    <2>6. Cardinality(BytesUpTo(r, n + 1)) = Cardinality(BytesUpTo(r, n)) + len
      <3>1. Cardinality(BytesUpTo(r, n) \cup T)
            = Cardinality(BytesUpTo(r, n)) + Cardinality(T) - Cardinality(BytesUpTo(r, n) \cap T)
        BY <2>2, <2>5, FS_Union
      <3>2. Cardinality(BytesUpTo(r, n) \cap T) = 0
        BY <2>4, FS_EmptySet
      <3> QED
        <4>1. Cardinality(BytesUpTo(r, n) \cup T) = Cardinality(BytesUpTo(r, n)) + len
          <5> DEFINE x == Cardinality(BytesUpTo(r, n))
                     y == Cardinality(BytesUpTo(r, n) \cup T)
                     z == Cardinality(BytesUpTo(r, n) \cap T)
          <5>1. y = x + len - z /\ z = 0 /\ x \in Nat /\ len \in Nat
            BY <2>1, <2>2, <2>5, <3>1, <3>2
          <5> HIDE DEF x, y, z
          <5>2. y = x + len
            BY <5>1
          <5> QED
            BY <5>2 DEF x, y
        <4> QED
          BY <2>3, <4>1
    <2>7. /\ CharToByte(r, n + 1) = Cardinality(BytesUpTo(r, n + 1))
          /\ CharToByte(r, n) = Cardinality(BytesUpTo(r, n))
      <3>1. n \in Nat /\ n + 1 \in Nat
        OBVIOUS
      <3> QED
        BY <1>1, <3>1
    <2>8. CharToByte(r, n + 1) = CharToByte(r, n) + len
      BY <2>6, <2>7
    <2> QED
      BY <2>1, <2>8 DEF len
  <1>4. n \in Nat
    OBVIOUS
  <1> QED
    BY <1>1, <1>2, <1>3, <1>4

LEMMA BytesGrow ==
    ASSUME NEW r \in Seq(Char), NEW m \in 0 .. Len(r), NEW n \in 0 .. Len(r), m <= n
    PROVE  CharToByte(r, m) <= CharToByte(r, n)
  <1> DEFINE T == {k \in Nat : k <= n - m => CharToByte(r, m) <= CharToByte(r, m + k)}
  <1>1. 0 \in T
    BY NextByte
  <1>2. ASSUME NEW k \in Nat, k < n - m, k \in T
        PROVE  k + 1 \in T
    <2>1. m + k \in 0 .. Len(r) /\ m + k < Len(r) /\ m + (k + 1) = m + k + 1
      BY <1>2
    <2>2. CharToByte(r, m + k + 1) = CharToByte(r, m + k) + ByteLen[r[m + k + 1]]
          /\ ByteLen[r[m + k + 1]] \in 1 .. 4 /\ CharToByte(r, m + k) \in Nat
      BY <2>1, NextByte
    <2>3. CharToByte(r, m) <= CharToByte(r, m + k) /\ CharToByte(r, m) \in Nat
      BY <1>2, NextByte
    <2> QED
      BY <2>1, <2>2, <2>3
  <1> DEFINE c == n - m
  <1>3. c \in Nat /\ c \in 0 .. c /\ m + c = n
    OBVIOUS
  <1> HIDE DEF T
  <1>4. \A k \in Nat : k < c /\ k \in T => k + 1 \in T
    BY <1>2
  <1> HIDE DEF c
  <1>5. c \in T
    BY <1>1, <1>3, <1>4, HandedOn
  <1>6. c <= n - m
    BY DEF c
  <1> QED
    BY <1>3, <1>5, <1>6 DEF T

(* Byte i of r is the k-th of its m-th character. *)
IsByte(r, m, k, i) == /\ m \in 1 .. Len(r) /\ k \in 1 .. ByteLen[r[m]]
                      /\ i = CharToByte(r, m - 1) + k
ByteAt(r, i) == CHOOSE b : \E m, k : IsByte(r, m, k, i) /\ b = <<r[m], k>>

(* Every byte is of one character. *)
LEMMA ByteOf ==
    ASSUME NEW r \in Seq(Char), NEW n \in 0 .. Len(r), NEW i \in 1 .. CharToByte(r, n)
    PROVE  \E m \in 1 .. n : \E k : IsByte(r, m, k, i)
  <1> DEFINE T == {m \in 0 .. n : i <= CharToByte(r, m)}
  <1>1. CharToByte(r, n) \in Nat /\ n \in T
    BY NextByte
  <1>2. PICK m \in T : \A j \in T : m <= j
    <2>1. T \in SUBSET Nat /\ T # {}
      BY <1>1
    <2> HIDE DEF T
    <2> QED
      BY <2>1, Least
  <1>3. m # 0
    BY NextByte
  <1>4. m \in 1 .. n /\ m - 1 \in 0 .. n /\ m - 1 \in 0 .. Len(r) /\ m - 1 < Len(r) /\ m - 1 + 1 = m
    BY <1>3
  <1>5. /\ CharToByte(r, m) = CharToByte(r, m - 1) + ByteLen[r[m]]
        /\ CharToByte(r, m - 1) \in Nat /\ ByteLen[r[m]] \in 1 .. 4
    BY <1>4, NextByte
  <1>6. i > CharToByte(r, m - 1)
    BY <1>2, <1>4, <1>5
  <1>7. i <= CharToByte(r, m)
    OBVIOUS
  <1> DEFINE k == i - CharToByte(r, m - 1)
  <1>8. k \in 1 .. ByteLen[r[m]] /\ i = CharToByte(r, m - 1) + k
    BY <1>5, <1>6, <1>7
  <1>9. m \in 1 .. Len(r)
    BY <1>4
  <1> HIDE DEF k
  <1> QED
    BY <1>4, <1>8, <1>9 DEF IsByte

LEMMA ByteIsIn ==
    ASSUME NEW r \in Seq(Char), NEW m, NEW k, NEW i, IsByte(r, m, k, i)
    PROVE  /\ m \in 1 .. Len(r) /\ k \in 1 .. 4 /\ r[m] \in Char
           /\ CharToByte(r, m - 1) \in Nat /\ CharToByte(r, m) \in Nat /\ i \in Nat
           /\ CharToByte(r, m - 1) < i /\ i <= CharToByte(r, m)
           /\ \A n \in m .. Len(r) : i \in 1 .. CharToByte(r, n)
  <1>1. m \in 1 .. Len(r) /\ k \in 1 .. ByteLen[r[m]] /\ i = CharToByte(r, m - 1) + k
    BY DEF IsByte
  <1>2. m - 1 \in 0 .. Len(r) /\ m - 1 < Len(r) /\ m - 1 + 1 = m /\ m \in 0 .. Len(r)
    BY <1>1
  <1>3. /\ CharToByte(r, m) = CharToByte(r, m - 1) + ByteLen[r[m]]
        /\ CharToByte(r, m - 1) \in Nat /\ ByteLen[r[m]] \in 1 .. 4 /\ r[m] \in Char
    BY <1>2, NextByte
  <1>4. CharToByte(r, m - 1) < i /\ i <= CharToByte(r, m) /\ i \in Nat /\ CharToByte(r, m) \in Nat
    BY <1>1, <1>3
  <1>5. ASSUME NEW n \in m .. Len(r)
        PROVE  i \in 1 .. CharToByte(r, n)
    <2>1. n \in 0 .. Len(r) /\ m <= n
      BY <1>2
    <2>2. CharToByte(r, m) <= CharToByte(r, n) /\ CharToByte(r, n) \in Nat
      BY <1>2, <2>1, BytesGrow, NextByte
    <2> QED
      BY <1>3, <1>4, <2>2
  <1> QED
    BY <1>1, <1>3, <1>4, <1>5

LEMMA ByteIs ==
    ASSUME NEW r \in Seq(Char), NEW m, NEW k, NEW i, IsByte(r, m, k, i)
    PROVE  ByteAt(r, i) = <<r[m], k>> /\ ByteAt(r, i) \in ByteSet
  <1>1. ASSUME NEW m2, NEW k2, IsByte(r, m2, k2, i)
        PROVE  m2 = m /\ k2 = k
    <2>1. ASSUME NEW a, NEW b, NEW ka, NEW kb, IsByte(r, a, ka, i), IsByte(r, b, kb, i), a < b
          PROVE  FALSE
      <3>1. a \in 1 .. Len(r) /\ b \in 1 .. Len(r)
        BY <2>1 DEF IsByte
      <3>2. b - 1 \in a .. Len(r) /\ b - 1 \in 0 .. Len(r)
        BY <2>1, <3>1
      <3>3. i <= CharToByte(r, b - 1)
        BY <2>1, <3>2, ByteIsIn
      <3>4. CharToByte(r, b - 1) < i /\ i \in Nat /\ CharToByte(r, b - 1) \in Nat
        BY <2>1, ByteIsIn
      <3> QED
        BY <3>3, <3>4
    <2>2. m \in 1 .. Len(r) /\ m2 \in 1 .. Len(r)
      BY <1>1 DEF IsByte
    <2>3. m = m2
      <3>1. m < m2 \/ m2 < m \/ m = m2
        BY <2>2
      <3> QED
        BY <1>1, <2>1, <3>1
    <2>4. CharToByte(r, m - 1) \in Nat /\ k \in 1 .. 4 /\ k2 \in 1 .. 4
      BY <1>1, ByteIsIn
    <2> QED
      BY <1>1, <2>3, <2>4 DEF IsByte
  <1>2. ByteAt(r, i) = <<r[m], k>>
    BY <1>1 DEF ByteAt
  <1> QED
    BY <1>2, ByteIsIn DEF ByteSet

LEMMA Joined ==
    ASSUME NEW S, NEW p \in Seq(S), NEW q \in Seq(S), NEW a, Len(p) = a, NEW b, Len(q) = b
    PROVE  /\ p \o q \in [1 .. a + b -> S]
           /\ \A i \in 1 .. a : (p \o q)[i] = p[i]
           /\ \A i \in 1 .. b : (p \o q)[a + i] = q[i]
  <1>1. /\ p \o q \in Seq(S) /\ Len(p \o q) = a + b /\ a \in Nat /\ b \in Nat
        /\ \A i \in 1 .. a + b : (p \o q)[i] = IF i <= a THEN p[i] ELSE q[i - a]
    <2>1. /\ p \o q \in Seq(S) /\ Len(p \o q) = Len(p) + Len(q)
          /\ \A i \in 1 .. Len(p) + Len(q) :
                (p \o q)[i] = IF i <= Len(p) THEN p[i] ELSE q[i - Len(p)]
      BY ConcatProperties, Zenon
    <2>2. Len(p) \in Nat /\ Len(q) \in Nat
      OBVIOUS
    <2> QED
      BY <2>1, <2>2, Zenon
  <1>2. p \o q \in [1 .. a + b -> S]
    BY <1>1, LenProperties
  <1>3. \A i \in 1 .. a : i \in 1 .. a + b
    BY <1>1
  <1>4. \A i \in 1 .. b : a + i \in 1 .. a + b /\ ~(a + i <= a) /\ a + i - a = i
    BY <1>1
  <1> QED
    BY <1>1, <1>2, <1>3, <1>4

CharBytes(c) == [k \in 1 .. ByteLen[c] |-> <<c, k>>]
Encoded(h, r) == h = [n \in 0 .. Len(r) |->
                         IF n = 0 THEN <<>> ELSE h[n - 1] \o CharBytes(r[n])]

(* The bytes of r: as many as its characters have, each of its character.   *)
LEMMA BytesAre ==
    ASSUME NEW r \in Seq(Char)
    PROVE  Bytes(r) = [i \in 1 .. CharToByte(r, Len(r)) |-> ByteAt(r, i)]
  <1> DEFINE B == CHOOSE h : Encoded(h, r)
             g == [n \in 0 .. Len(r) |-> [i \in 1 .. CharToByte(r, n) |-> ByteAt(r, i)]]
  <1>1. Bytes(r) = B[Len(r)]
    BY DEF Bytes, Encoded, CharBytes
  <1>2. ASSUME NEW n \in 1 .. Len(r)
        PROVE  g[n] = g[n - 1] \o CharBytes(r[n])
    <2> DEFINE a == CharToByte(r, n - 1)
               len == ByteLen[r[n]]
               more == [k \in 1 .. len |-> <<r[n], k>>]
               before == [i \in 1 .. a |-> ByteAt(r, i)]
               all == [i \in 1 .. a + len |-> ByteAt(r, i)]
    <2>1. n - 1 \in 0 .. Len(r) /\ n - 1 < Len(r) /\ n - 1 + 1 = n /\ n \in 0 .. Len(r)
      OBVIOUS
    <2>2. a \in Nat /\ len \in 1 .. 4 /\ CharToByte(r, n) = a + len
      BY <2>1, NextByte
    <2>3. g[n - 1] = before /\ g[n] = all
      BY <2>1, <2>2
    <2>4. ASSUME NEW k \in 1 .. len
          PROVE  ByteAt(r, a + k) = <<r[n], k>>
      <3>1. IsByte(r, n, k, a + k)
        BY DEF IsByte
      <3> QED
        BY <3>1, ByteIs
    <2> HIDE DEF a, len, g
    <2>5. before \in [1 .. a -> ByteSet]
      <3>1. ASSUME NEW i \in 1 .. a
            PROVE  ByteAt(r, i) \in ByteSet
        BY <2>1, ByteOf, ByteIs DEF a
      <3> QED
        BY <3>1
    <2>6. more \in [1 .. len -> ByteSet]
      BY <2>2, NextByte, <2>1 DEF ByteSet
    <2>7. len \in Nat
      BY <2>2
    <2>8. /\ before \o more \in [1 .. a + len -> ByteSet]
          /\ \A i \in 1 .. a : (before \o more)[i] = before[i]
          /\ \A i \in 1 .. len : (before \o more)[a + i] = more[i]
      <3>1. a \in Nat
        BY <2>2
      <3> HIDE DEF before, more
      <3>2. before \in Seq(ByteSet) /\ Len(before) = a
        BY <3>1, <2>5
      <3>3. more \in Seq(ByteSet) /\ Len(more) = len
        BY <2>6, <2>7
      <3> QED
        <4>1. before \o more \in [1 .. a + len -> ByteSet]
          BY <3>2, <3>3, Joined
        <4>2. \A i \in 1 .. a : (before \o more)[i] = before[i]
          BY <3>2, <3>3, Joined
        <4>3. \A i \in 1 .. len : (before \o more)[a + i] = more[i]
          BY <3>2, <3>3, Joined
        <4> QED
          BY <4>1, <4>2, <4>3
    <2>9. ASSUME NEW i \in 1 .. a + len
          PROVE  ByteAt(r, i) = (before \o more)[i]
      <3>1. CASE i <= a
        <4>1. i \in 1 .. a /\ before[i] = ByteAt(r, i)
          BY <2>2, <3>1
        <4> HIDE DEF before, more
        <4> QED
          BY <2>8, <4>1
      <3>2. CASE i > a
        <4> DEFINE k == i - a
        <4>1. k \in 1 .. len /\ a + k = i
          BY <2>2, <3>2
        <4> HIDE DEF k
        <4>2. more[k] = ByteAt(r, a + k)
          BY <2>4, <4>1
        <4> HIDE DEF before, more
        <4> QED
          BY <2>8, <4>1, <4>2
      <3> QED
        BY <2>2, <3>1, <3>2
    <2>10. all = before \o more
      <3> HIDE DEF before, more
      <3> QED
        BY <2>8, <2>9
    <2> QED
      BY <2>3, <2>10 DEF len, CharBytes
  <1>3. Encoded(g, r)
    <2>1. g[0] = <<>>
      <3>1. g[0] = [i \in 1 .. 0 |-> ByteAt(r, i)]
        BY NextByte
      <3> QED
        BY <3>1
    <2> HIDE DEF g
    <2>2. \A n \in 0 .. Len(r) : g[n] = IF n = 0 THEN <<>>
                  ELSE g[n - 1] \o CharBytes(r[n])
      <3>1. \A n \in 0 .. Len(r) : n # 0 => n \in 1 .. Len(r)
        OBVIOUS
      <3> QED
        BY <1>2, <2>1, <3>1
    <2>3. g = [n \in 0 .. Len(r) |-> g[n]]
      BY DEF g
    <2> QED
      BY <2>2, <2>3 DEF Encoded
  <1>4. Encoded(B, r)
    <2> HIDE DEF g
    <2> QED
      BY <1>3
  <1> DEFINE T == {n \in Nat : n <= Len(r) => B[n] = g[n]}
  <1> HIDE DEF B, g
  <1>5. 0 \in T
    BY <1>3, <1>4 DEF Encoded
  <1>6. ASSUME NEW n \in Nat, n < Len(r), n \in T
        PROVE  n + 1 \in T
    <2>1. n + 1 \in 0 .. Len(r) /\ n + 1 # 0 /\ n + 1 - 1 = n
      BY <1>6
    <2>2. B[n + 1] = B[n] \o CharBytes(r[n + 1])
      BY <1>4, <2>1 DEF Encoded
    <2>3. g[n + 1] = g[n] \o CharBytes(r[n + 1])
      BY <1>3, <2>1 DEF Encoded
    <2> QED
      <3>1. B[n] = g[n]
        BY <1>6
      <3>2. B[n + 1] = g[n + 1]
        BY <2>2, <2>3, <3>1
      <3> QED
        BY <2>1, <3>2
  <1> HIDE DEF T
  <1>7. Len(r) \in Nat /\ Len(r) \in T
    <2>1. Len(r) \in Nat /\ Len(r) \in 0 .. Len(r)
      OBVIOUS
    <2> QED
      BY <1>5, <1>6, <2>1, HandedOn
  <1>8. B[Len(r)] = g[Len(r)]
    BY <1>7 DEF T
  <1> QED
    BY <1>1, <1>7, <1>8 DEF g

-----------------------------------------------------------------------------
(* Editing a text edits its bytes. *)

(* The bytes before the characters of a text part of which was replaced.    *)
LEMMA ReplacedCounts ==
    ASSUME NEW r \in Seq(Char), NEW ins \in Seq(Char),
           NEW s \in 0 .. Len(r), NEW e \in 0 .. Len(r), s <= e
    PROVE  LET new == Replaced(r, s, e, ins)
           IN  /\ new \in Seq(Char) /\ Len(new) = s + Len(ins) + (Len(r) - e)
               /\ \A m \in 1 .. s : new[m] = r[m]
               /\ \A m \in 1 .. Len(ins) : new[s + m] = ins[m]
               /\ \A m \in 1 .. Len(r) - e : new[s + Len(ins) + m] = r[e + m]
               /\ \A m \in 0 .. s : CharToByte(new, m) = CharToByte(r, m)
               /\ \A m \in 0 .. Len(ins) :
                     CharToByte(new, s + m) = CharToByte(r, s) + CharToByte(ins, m)
               /\ \A m \in 0 .. Len(r) - e :
                     CharToByte(new, s + Len(ins) + m) + CharToByte(r, e)
                     = CharToByte(r, s) + CharToByte(ins, Len(ins)) + CharToByte(r, e + m)
  <1> DEFINE new == Replaced(r, s, e, ins)
             p   == SubSeq(r, 1, s)
             q   == SubSeq(r, e + 1, Len(r))
             n   == Len(ins)
             l   == Len(r) - e
  <1>1. p \in Seq(Char) /\ Len(p) = s /\ \A m \in 1 .. s : p[m] = r[m]
    OBVIOUS
  <1>2. q \in Seq(Char) /\ Len(q) = l /\ \A m \in 1 .. l : q[m] = r[e + m]
    <2>1. e + 1 \in 1 .. Len(r) + 1
      OBVIOUS
    <2>2. q \in Seq(Char) /\ Len(q) = l
      BY <2>1
    <2>3. \A m \in 1 .. l : q[m] = r[e + m]
      BY <2>1
    <2> QED
      BY <2>2, <2>3
  <1>3. new = p \o ins \o q /\ n \in Nat /\ l \in Nat /\ s \in Nat /\ e + l = Len(r)
    BY DEF Replaced
  <1> HIDE DEF p, q
  <1> DEFINE front == p \o ins
  <1>11. front \in Seq(Char) /\ Len(front) = s + n /\ new = front \o q
    <2>1. front \in Seq(Char) /\ Len(front) = Len(p) + Len(ins)
      BY <1>1, ConcatProperties, Zenon
    <2>2. new = front \o q
      BY <1>3
    <2> HIDE DEF front, new
    <2> QED
      BY <2>1, <2>2, <1>1
  <1>4. new \in Seq(Char) /\ Len(new) = s + n + l
    <2> HIDE DEF front, new
    <2>1. front \o q \in Seq(Char)
      BY <1>11, <1>2, ConcatProperties
    <2>2. Len(front \o q) = s + n + l
      <3>1. Len(front \o q) = Len(front) + Len(q)
        BY <1>11, <1>2, ConcatProperties, Zenon
      <3> QED
        BY <3>1, <1>11, <1>2, Zenon
    <2>3. new = front \o q
      BY <1>11
    <2> HIDE DEF n, l
    <2> QED
      BY <2>1, <2>2, <2>3, Zenon
  <1>12. \A m \in 1 .. s + n : new[m] = front[m]
    <2> HIDE DEF front, new
    <2>1. \A m \in 1 .. s + n : (front \o q)[m] = front[m]
      BY <1>11, <1>2, Joined
    <2> QED
      BY <1>11, <2>1
  <1>5. \A m \in 1 .. s : new[m] = r[m]
    <2>1. \A m \in 1 .. s : front[m] = p[m]
      BY <1>1, Joined
    <2> HIDE DEF front, new
    <2>2. \A m \in 1 .. s : m \in 1 .. s + n
      BY <1>3
    <2> QED
      BY <1>1, <1>12, <2>1, <2>2
  <1>6. \A m \in 1 .. n : new[s + m] = ins[m]
    <2>1. \A m \in 1 .. n : front[s + m] = ins[m]
      BY <1>1, Joined
    <2> HIDE DEF front, new
    <2>2. \A m \in 1 .. n : s + m \in 1 .. s + n
      BY <1>3
    <2> QED
      BY <1>12, <2>1, <2>2
  <1>7. \A m \in 1 .. l : new[s + n + m] = r[e + m]
    <2> HIDE DEF front, new
    <2>1. \A m \in 1 .. l : (front \o q)[s + n + m] = q[m]
      BY <1>11, <1>2, Joined
    <2> QED
      BY <1>11, <1>2, <2>1
  <1> HIDE DEF front
  <1> HIDE DEF new
  <1>8. ASSUME NEW m \in 0 .. s
        PROVE  CharToByte(new, m) = CharToByte(r, m)
    <2> DEFINE T == {k \in Nat : k <= s => CharToByte(new, k) = CharToByte(r, k)}
    <2>1. 0 \in T
      BY <1>4, NextByte
    <2>2. ASSUME NEW k \in Nat, k < s, k \in T
          PROVE  k + 1 \in T
      <3>1. k \in 0 .. Len(r) /\ k < Len(r) /\ k \in 0 .. Len(new) /\ k < Len(new) /\ k + 1 \in 1 .. s
        BY <1>3, <1>4, <2>2
      <3>2. /\ CharToByte(r, k + 1) = CharToByte(r, k) + ByteLen[r[k + 1]]
            /\ CharToByte(new, k + 1) = CharToByte(new, k) + ByteLen[new[k + 1]]
        BY <1>4, <3>1, NextByte
      <3>3. CharToByte(new, k) = CharToByte(r, k)
        BY <2>2
      <3> QED
        BY <1>5, <3>1, <3>2, <3>3
    <2> HIDE DEF T
    <2>3. m \in T
      BY <1>3, <2>1, <2>2, HandedOn
    <2> QED
      BY <2>3 DEF T
  <1>9. ASSUME NEW m \in 0 .. n
        PROVE  CharToByte(new, s + m) = CharToByte(r, s) + CharToByte(ins, m)
    <2> DEFINE T == {k \in Nat : k <= n =>
                        CharToByte(new, s + k) = CharToByte(r, s) + CharToByte(ins, k)}
    <2>1. 0 \in T
      BY <1>3, <1>8, NextByte
    <2>2. ASSUME NEW k \in Nat, k < n, k \in T
          PROVE  k + 1 \in T
      <3>1. k \in 0 .. n /\ s + k \in 0 .. Len(new) /\ s + k < Len(new) /\ k + 1 \in 1 .. n
            /\ s + (k + 1) = s + k + 1
        BY <1>3, <1>4, <2>2
      <3>2. /\ CharToByte(ins, k + 1) = CharToByte(ins, k) + ByteLen[ins[k + 1]]
            /\ CharToByte(ins, k) \in Nat /\ ByteLen[ins[k + 1]] \in 1 .. 4
        BY <2>2, <3>1, NextByte
      <3>3. CharToByte(new, s + k + 1) = CharToByte(new, s + k) + ByteLen[new[s + k + 1]]
        BY <1>4, <3>1, NextByte
      <3>4. CharToByte(new, s + k) = CharToByte(r, s) + CharToByte(ins, k)
        BY <2>2
      <3>5. new[s + k + 1] = ins[k + 1]
        BY <1>6, <3>1
      <3>6. CharToByte(r, s) \in Nat
        BY NextByte
      <3>7. CharToByte(new, s + (k + 1)) = CharToByte(r, s) + CharToByte(ins, k + 1)
        <4> DEFINE a == CharToByte(r, s)
                   b == CharToByte(ins, k)
                   w == ByteLen[ins[k + 1]]
        <4>1. CharToByte(new, s + (k + 1)) = a + b + w /\ CharToByte(ins, k + 1) = b + w
          BY <3>1, <3>2, <3>3, <3>4, <3>5
        <4>2. a \in Nat /\ b \in Nat /\ w \in Nat
          BY <3>2, <3>6
        <4> HIDE DEF a, b, w
        <4>3. a + b + w = a + (b + w)
          BY <4>2
        <4> QED
          BY <4>1, <4>3 DEF a
      <3> QED
        BY <3>7
    <2> HIDE DEF T
    <2>3. m \in T
      BY <1>3, <2>1, <2>2, HandedOn
    <2> QED
      BY <2>3 DEF T
  <1>10. ASSUME NEW m \in 0 .. l
         PROVE  CharToByte(new, s + n + m) + CharToByte(r, e)
                = CharToByte(r, s) + CharToByte(ins, n) + CharToByte(r, e + m)
    <2> DEFINE T == {k \in Nat : k <= l =>
                        CharToByte(new, s + n + k) + CharToByte(r, e)
                        = CharToByte(r, s) + CharToByte(ins, n) + CharToByte(r, e + k)}
    <2>1. 0 \in T
      <3>1. CharToByte(new, s + n) = CharToByte(r, s) + CharToByte(ins, n)
        BY <1>3, <1>9
      <3>2. s + n + 0 = s + n /\ e + 0 = e
        BY <1>3
      <3> QED
        BY <3>1, <3>2
    <2>2. ASSUME NEW k \in Nat, k < l, k \in T
          PROVE  k + 1 \in T
      <3>1. /\ e + k \in 0 .. Len(r) /\ e + k < Len(r) /\ k + 1 \in 1 .. l
            /\ s + n + k \in 0 .. Len(new) /\ s + n + k < Len(new)
            /\ s + n + (k + 1) = s + n + k + 1 /\ e + (k + 1) = e + k + 1
        BY <1>3, <1>4, <2>2
      <3>2. /\ CharToByte(r, e + k + 1) = CharToByte(r, e + k) + ByteLen[r[e + k + 1]]
            /\ CharToByte(r, e + k) \in Nat /\ ByteLen[r[e + k + 1]] \in 1 .. 4
        BY <3>1, NextByte
      <3>3. /\ CharToByte(new, s + n + k + 1) = CharToByte(new, s + n + k) + ByteLen[new[s + n + k + 1]]
            /\ CharToByte(new, s + n + k) \in Nat
        BY <1>4, <3>1, NextByte
      <3>4. CharToByte(new, s + n + k) + CharToByte(r, e)
            = CharToByte(r, s) + CharToByte(ins, n) + CharToByte(r, e + k)
        BY <2>2
      <3>5. new[s + n + k + 1] = r[e + k + 1]
        <4>1. new[s + n + (k + 1)] = r[e + (k + 1)]
          BY <1>7, <3>1
        <4> QED
          BY <3>1, <4>1
      <3>6. CharToByte(r, s) \in Nat /\ CharToByte(r, e) \in Nat /\ CharToByte(ins, n) \in Nat
        BY <1>3, NextByte
      <3>7. CharToByte(new, s + n + k + 1) + CharToByte(r, e)
            = CharToByte(r, s) + CharToByte(ins, n) + CharToByte(r, e + k + 1)
        <4> DEFINE w == ByteLen[r[e + k + 1]]
                   x == CharToByte(new, s + n + k)
                   y == CharToByte(r, e + k)
                   z == CharToByte(r, e)
                   a == CharToByte(r, s)
                   b == CharToByte(ins, n)
        <4>1. CharToByte(r, e + k + 1) = y + w /\ CharToByte(new, s + n + k + 1) = x + w
          BY <3>2, <3>3, <3>5
        <4>2. w \in Nat /\ x \in Nat /\ y \in Nat /\ z \in Nat /\ a \in Nat /\ b \in Nat
          <5>1. w \in Nat
            BY <3>2
          <5>2. x \in Nat /\ y \in Nat
            BY <3>2, <3>3
          <5>3. z \in Nat /\ a \in Nat /\ b \in Nat
            BY <3>6
          <5> HIDE DEF w, x, y, z, a, b
          <5> QED
            BY <5>1, <5>2, <5>3
        <4>3. x + z = a + b + y
          BY <3>4
        <4> HIDE DEF w, x, y, z, a, b
        <4>4. x + w + z = a + b + (y + w)
          BY <4>2, <4>3
        <4> QED
          BY <4>1, <4>4 DEF z, a, b
      <3> QED
        BY <3>1, <3>7
    <2> HIDE DEF T
    <2>3. m \in T
      BY <1>3, <2>1, <2>2, HandedOn
    <2> QED
      BY <2>3 DEF T
  <1> QED
    BY <1>4, <1>5, <1>6, <1>7, <1>8, <1>9, <1>10 DEF new

(* The bytes of a text: a sequence in which character m starts at byte      *)
(* CharToByte(r, m - 1).                                                    *)
LEMMA BytesOf ==
    ASSUME NEW r \in Seq(Char)
    PROVE  /\ Bytes(r) \in [1 .. CharToByte(r, Len(r)) -> ByteSet]
           /\ Bytes(r) \in Seq(ByteSet) /\ Len(Bytes(r)) = CharToByte(r, Len(r))
           /\ \A m, k, i : IsByte(r, m, k, i) => /\ i \in 1 .. CharToByte(r, Len(r))
                                                /\ Bytes(r)[i] = <<r[m], k>>
  <1> DEFINE n == CharToByte(r, Len(r))
  <1>1. Bytes(r) = [i \in 1 .. n |-> ByteAt(r, i)]
    BY BytesAre
  <1>2. n \in Nat
    BY NextByte
  <1>3. ASSUME NEW i \in 1 .. n
        PROVE  ByteAt(r, i) \in ByteSet
    <2>1. Len(r) \in 0 .. Len(r)
      OBVIOUS
    <2> QED
      BY <2>1, ByteOf, ByteIs
  <1>4. ASSUME NEW m, NEW k, NEW i, IsByte(r, m, k, i)
        PROVE  i \in 1 .. n /\ ByteAt(r, i) = <<r[m], k>>
    <2>1. Len(r) \in m .. Len(r)
      BY <1>4 DEF IsByte
    <2> QED
      BY <1>4, <2>1, ByteIsIn, ByteIs
  <1> HIDE DEF n
  <1>5. Bytes(r) \in [1 .. n -> ByteSet]
    BY <1>1, <1>3
  <1>6. Bytes(r) \in Seq(ByteSet) /\ Len(Bytes(r)) = n
    BY <1>2, <1>5
  <1>7. \A m, k, i : IsByte(r, m, k, i) => i \in 1 .. n /\ Bytes(r)[i] = <<r[m], k>>
    BY <1>1, <1>4
  <1> QED
    BY <1>5, <1>6, <1>7 DEF n

LEMMA OffsetsIn ==
    ASSUME NEW r \in Seq(Char), NEW s \in 0 .. Len(r), NEW e \in 0 .. Len(r), s <= e
    PROVE  /\ CharToByte(r, s) \in Nat /\ CharToByte(r, e) \in Nat
           /\ CharToByte(r, s) <= CharToByte(r, e) /\ CharToByte(r, e) <= Len(Bytes(r))
  <1>1. Len(r) \in 0 .. Len(r) /\ e <= Len(r)
    OBVIOUS
  <1> QED
    BY <1>1, BytesOf, BytesGrow, NextByte

(* Characters replaced in a text are bytes replaced in its encoding: between *)
(* the offsets of the two places, by the bytes of what is inserted.         *)
THEOREM BytesReplaced ==
    ASSUME NEW r \in Seq(Char), NEW ins \in Seq(Char),
           NEW s \in 0 .. Len(r), NEW e \in 0 .. Len(r), s <= e
    PROVE  LET old  == Bytes(r)
               more == Bytes(ins)
               from == CharToByte(r, s)
               to   == CharToByte(r, e)
           IN  Bytes(Replaced(r, s, e, ins)) =
                  [i \in 1 .. (Len(old) - (to - from) + Len(more)) |->
                      IF i <= from THEN old[i]
                      ELSE IF i <= from + Len(more) THEN more[i - from]
                      ELSE old[i - Len(more) + (to - from)]]
  <1> DEFINE new  == Replaced(r, s, e, ins)
             old  == Bytes(r)
             more == Bytes(ins)
             from == CharToByte(r, s)
             to   == CharToByte(r, e)
             n    == Len(ins)
             l    == Len(r) - e
             len  == CharToByte(ins, n)
             all  == Len(old) - (to - from) + Len(more)
             at   == [i \in 1 .. all |->
                         IF i <= from THEN old[i]
                         ELSE IF i <= from + Len(more) THEN more[i - from]
                         ELSE old[i - Len(more) + (to - from)]]
  <1>1. /\ new \in Seq(Char) /\ Len(new) = s + n + l
        /\ \A m \in 1 .. s : new[m] = r[m]
        /\ \A m \in 1 .. n : new[s + m] = ins[m]
        /\ \A m \in 1 .. l : new[s + n + m] = r[e + m]
        /\ \A m \in 0 .. s : CharToByte(new, m) = CharToByte(r, m)
        /\ \A m \in 0 .. n : CharToByte(new, s + m) = from + CharToByte(ins, m)
        /\ \A m \in 0 .. l : CharToByte(new, s + n + m) + to = from + len + CharToByte(r, e + m)
    BY ReplacedCounts
  <1>2. /\ n \in Nat /\ l \in Nat /\ s \in Nat /\ e \in Nat /\ e + l = Len(r) /\ Len(r) \in Nat
        /\ s <= Len(r) /\ l \in 0 .. l /\ n \in 0 .. n /\ Len(new) \in 0 .. Len(new)
    BY <1>1
  <1>3. from \in Nat /\ to \in Nat /\ from <= to /\ len \in Nat
    BY <1>2, OffsetsIn, NextByte
  <1> HIDE DEF new, from, to
  <1>4. Len(old) = CharToByte(r, Len(r)) /\ Len(more) = len /\ Len(old) \in Nat
    BY <1>2, BytesOf, NextByte
  <1>5. CharToByte(new, Len(new)) = all
    <2>1. CharToByte(new, s + n + l) + to = from + len + CharToByte(r, e + l)
      BY <1>1, <1>2
    <2>2. CharToByte(new, Len(new)) + to = from + Len(more) + Len(old)
      BY <1>1, <1>2, <1>4, <2>1
    <2>3. CharToByte(new, Len(new)) \in Nat
      BY <1>1, <1>2, NextByte
    <2>4. \A x, a, b, c, d \in Nat : x + a = b + c + d => x = d - (a - b) + c
      OBVIOUS
    <2>5. Len(more) \in Nat
      BY <1>3, <1>4
    <2> HIDE DEF old, more
    <2> QED
      BY <1>3, <1>4, <2>2, <2>3, <2>4, <2>5
  <1> HIDE DEF len
  <1>6. ASSUME NEW i \in 1 .. all
        PROVE  Bytes(new)[i] = at[i]
    <2> PICK m \in 1 .. Len(new) : \E k : IsByte(new, m, k, i)
      BY <1>1, <1>2, <1>5, ByteOf
    <2>1. PICK k : IsByte(new, m, k, i)
      OBVIOUS
    <2>2. /\ Bytes(new)[i] = <<new[m], k>> /\ k \in 1 .. ByteLen[new[m]]
          /\ i = CharToByte(new, m - 1) + k
      <3>1. new \in Seq(Char)
        BY <1>1
      <3>2. Bytes(new)[i] = <<new[m], k>>
        BY <2>1, <3>1, BytesOf
      <3> QED
        BY <2>1, <3>2 DEF IsByte
    <2>3. k \in Nat \ {0}
      <3>1. new \in Seq(Char)
        BY <1>1
      <3>2. k \in 1 .. 4
        BY <2>1, <3>1, ByteIsIn
      <3> QED
        BY <3>2
    <2>4. CASE m \in 1 .. s
      <3>1. m - 1 \in 0 .. s /\ m \in 1 .. Len(r) /\ s \in m .. Len(r)
        BY <2>4, <1>2
      <3>2. IsByte(r, m, k, i) /\ new[m] = r[m]
        <4>1. new[m] = r[m] /\ CharToByte(new, m - 1) = CharToByte(r, m - 1)
          BY <1>1, <2>4, <3>1
        <4>2. k \in 1 .. ByteLen[new[m]] /\ i = CharToByte(new, m - 1) + k
          BY <2>2 DEF IsByte
        <4> HIDE DEF new
        <4> QED
          BY <4>1, <4>2, <3>1 DEF IsByte
      <3>3. i <= from /\ old[i] = <<r[m], k>>
        <4>1. i \in 1 .. CharToByte(r, s)
          BY <3>1, <3>2, ByteIsIn
        <4>2. old[i] = <<r[m], k>>
          BY <3>2, BytesOf
        <4> QED
          BY <4>1, <4>2 DEF from
      <3> QED
        BY <2>2, <3>2, <3>3
    <2>5. CASE m \in s + 1 .. s + n
      <3> DEFINE j == m - s
      <3>1. j \in 1 .. n /\ j - 1 \in 0 .. n /\ m = s + j /\ m - 1 = s + (j - 1) /\ n \in j .. n
        BY <2>5, <1>2
      <3> HIDE DEF j
      <3>2. CharToByte(ins, j - 1) \in Nat
        BY <3>1, NextByte
      <3>3. new[m] = ins[j] /\ i - from = CharToByte(ins, j - 1) + k
        <4>1. CharToByte(new, m - 1) = from + CharToByte(ins, j - 1) /\ new[m] = ins[j]
          BY <1>1, <3>1
        <4>2. i = from + CharToByte(ins, j - 1) + k
          BY <2>2, <4>1
        <4>3. \A a, b, c \in Nat : (a + b + c) - a = b + c
          OBVIOUS
        <4>4. i - from = CharToByte(ins, j - 1) + k
          BY <1>3, <2>3, <3>2, <4>2, <4>3
        <4> QED
          BY <4>1, <4>4
      <3>4. IsByte(ins, j, k, i - from)
        BY <2>2, <3>1, <3>3 DEF IsByte
      <3>5. i - from \in 1 .. len /\ more[i - from] = <<ins[j], k>>
        BY <3>4, BytesOf DEF len
      <3>6. ~(i <= from) /\ i <= from + Len(more)
        BY <1>3, <1>4, <3>5
      <3> QED
        BY <2>2, <3>3, <3>5, <3>6
    <2>6. CASE m \in s + n + 1 .. s + n + l
      <3> DEFINE j == m - (s + n)
                 x == i - Len(more) + (to - from)
      <3>1. /\ j \in 1 .. l /\ j - 1 \in 0 .. l /\ m = s + n + j /\ m - 1 = s + n + (j - 1)
            /\ e + j \in 1 .. Len(r) /\ e + j - 1 = e + (j - 1)
            /\ e + (j - 1) \in 0 .. Len(r) /\ e <= e + (j - 1)
        BY <2>6, <1>2
      <3> HIDE DEF j
      <3>2. CharToByte(r, e + (j - 1)) \in Nat /\ to <= CharToByte(r, e + (j - 1))
        BY <3>1, NextByte, BytesGrow DEF to
      <3>3. CharToByte(new, m - 1) + to = from + len + CharToByte(r, e + (j - 1))
        BY <1>1, <3>1
      <3>4. CharToByte(new, m - 1) \in Nat
        <4>1. m - 1 \in 0 .. Len(new)
          BY <1>2
        <4> QED
          BY <4>1, <1>1, NextByte
      <3>5. x = CharToByte(r, e + (j - 1)) + k /\ i > from + Len(more)
        <4> DEFINE c == CharToByte(new, m - 1)
                   d == CharToByte(r, e + (j - 1))
                   p == Len(more)
        <4>1. c \in Nat /\ d \in Nat /\ to <= d /\ c + to = from + p + d /\ p \in Nat /\ i = c + k
          BY <1>3, <1>4, <2>2, <3>2, <3>3, <3>4
        <4> HIDE DEF c, d, p, more
        <4>2. i - p + (to - from) = d + k
          BY <1>3, <2>3, <4>1
        <4>3. i > from + p
          BY <1>3, <2>3, <4>1
        <4> QED
          BY <4>2, <4>3 DEF c, d, p
      <3> HIDE DEF x
      <3>6. new[m] = r[e + j]
        BY <1>1, <3>1
      <3>7. IsByte(r, e + j, k, x)
        <4>1. k \in 1 .. ByteLen[new[m]]
          BY <2>2 DEF IsByte
        <4>2. x = CharToByte(r, (e + j) - 1) + k
          BY <3>1, <3>5
        <4> HIDE DEF new
        <4> QED
          BY <4>1, <4>2, <3>1, <3>6 DEF IsByte
      <3>8. old[x] = <<r[e + j], k>>
        BY <3>7, BytesOf
      <3>9. ~(i <= from) /\ ~(i <= from + Len(more))
        BY <1>3, <1>4, <3>5
      <3> QED
        BY <2>2, <3>6, <3>8, <3>9 DEF x
    <2> QED
      BY <1>1, <1>2, <2>4, <2>5, <2>6
  <1>7. Bytes(new) \in [1 .. all -> ByteSet]
    BY <1>1, <1>5, BytesOf
  <1> HIDE DEF all, old, more
  <1>8. Bytes(new) = at
    BY <1>6, <1>7
  <1> QED
    BY <1>8 DEF all, old, more, new, from, to

(***************************************************************************)
(* LspServer                                                               *)
(***************************************************************************)

Changes == [range : Ranges \cup {Whole}, text : Seq(Char)]
Messages == [kind : {"didOpen"}, file : File, text : Seq(Char)]
            \cup [kind : {"didClose"}, file : File]
            \cup [kind : {"didChange"}, file : File, changes : Seq(Changes)]
            \cup [kind : {"request"}, file : File, position : Positions,
                  asked : [doc : Seq(Char), index : Nat]]

(* The range of a change is that of two places in d. *)
Fits(d, change) ==
    change.range # Whole =>
        \E s, e \in 0 .. Len(d) : /\ s <= e
                                  /\ change.range.start = PositionAt(d, s)
                                  /\ change.range.end = PositionAt(d, e)

(* The changes lead from d to e, each in the text the one before it left.   *)
Walk(u, d, changes) ==
    /\ u \in [0 .. Len(changes) -> Seq(Char)] /\ u[0] = d
    /\ \A k \in 1 .. Len(changes) : Fits(u[k - 1], changes[k])
                                    /\ u[k] = Made(u[k - 1], changes[k])
Leads(d, changes, e) == \E u : Walk(u, d, changes) /\ u[Len(changes)] = e

(* What a message means for file f, in which the server has d then: e is    *)
(* its text afterwards, and the message was meant for d.                    *)
Means(f, d, msg, e) ==
    /\ msg.file # f => e = d
    /\ msg.file = f =>
          /\ msg.kind = "didOpen" => e = msg.text
          /\ msg.kind = "didClose" => e = d
          /\ msg.kind = "didChange" => Leads(d, msg.changes, e)
          /\ msg.kind = "request" => /\ e = d /\ msg.asked.doc = d
                                     /\ msg.asked.index \in 0 .. Len(d)
                                     /\ msg.position = PositionAt(d, msg.asked.index)

(* The messages lead from d to e. *)
Path(v, f, d, msgs) ==
    /\ v \in [0 .. Len(msgs) -> Seq(Char)] /\ v[0] = d
    /\ \A k \in 1 .. Len(msgs) : Means(f, v[k - 1], msgs[k], v[k])
Follows(f, d, msgs, e) == \E v : Path(v, f, d, msgs) /\ v[Len(msgs)] = e

(* A file the server does not know is first heard of when it is opened.     *)
Opens(f, msg) == msg.file = f /\ msg.kind = "didOpen"
Introduced(f) ==
    f \notin known =>
        /\ \A k \in 1 .. Len(inbox) : inbox[k].file = f => \E j \in 1 .. k : Opens(f, inbox[j])
        /\ f \in opened => \E j \in 1 .. Len(inbox) : Opens(f, inbox[j])

(* What is under way leads from the server's text to the editor's.          *)
InStep(f) ==
    \E d, e \in Seq(Char) :
        /\ IF f = current THEN Leads(rope[f], todo, d) ELSE d = rope[f]
        /\ Follows(f, d, inbox, e)
        /\ f \in opened => e = doc[f]

Typed ==
    /\ doc \in [File -> Seq(Char)] /\ rope \in [File -> Seq(Char)]
    /\ opened \subseteq File /\ known \subseteq Rooted
    /\ inbox \in Seq(Messages) /\ todo \in Seq(Changes)
    /\ todo # <<>> => current \in known

IInv == Typed /\ \A f \in Rooted : Introduced(f) /\ InStep(f)

-----------------------------------------------------------------------------
(* Changes. *)

LEMMA ReplacedIsText ==
    ASSUME NEW d \in Seq(Char), NEW s \in 0 .. Len(d), NEW e \in 0 .. Len(d), NEW ins \in Seq(Char)
    PROVE  Replaced(d, s, e, ins) \in Seq(Char)
  <1>1. SubSeq(d, 1, s) \in Seq(Char) /\ SubSeq(d, e + 1, Len(d)) \in Seq(Char)
    OBVIOUS
  <1> QED
    BY <1>1 DEF Replaced

LEMMA PlaceOf ==
    ASSUME NEW d \in Seq(Char), NEW i \in 0 .. Len(d)
    PROVE  /\ PositionAt(d, i) \in Positions
           /\ IndexOf(d, PositionAt(d, i)) = i
  <1>1. IndexOf(d, PositionAt(d, i)) = i
    BY PositionIsFound DEF IndexOf
  <1>2. PICK start : LineOf(d, i, start)
    BY LineExists
  <1>3. /\ start \in 0 .. i /\ Cardinality(LinesBefore(d, start)) \in Nat
        /\ PositionAt(d, i) = [line |-> Cardinality(LinesBefore(d, start)),
                               character |-> Utf16Units(d, start, i)]
    BY <1>2, LineOfPlace
  <1>4. Utf16Units(d, start, i) \in Nat
    BY <1>3, UnitsGrow
  <1> QED
    BY <1>1, <1>3, <1>4 DEF Positions

(* A change that fits makes of the text what was meant: the server finds    *)
(* the places, and they are the places that were meant.                     *)
LEMMA FittingChange ==
    ASSUME NEW d \in Seq(Char), NEW change \in Changes, Fits(d, change)
    PROVE  /\ Made(d, change) \in Seq(Char)
           /\ change.range = Whole => Made(d, change) = change.text
           /\ change.range # Whole =>
                /\ IsPosition(d, change.range.start) /\ IsPosition(d, change.range.end)
                /\ Made(d, change) = Replaced(d, ToRopeIdx(d, change.range.start),
                                              ToRopeIdx(d, change.range.end), change.text)
                /\ ToRopeIdx(d, change.range.start) \in 0 .. Len(d)
                /\ ToRopeIdx(d, change.range.end) \in 0 .. Len(d)
                /\ ToRopeIdx(d, change.range.start) <= ToRopeIdx(d, change.range.end)
  <1>1. change.text \in Seq(Char)
    BY DEF Changes
  <1>2. CASE change.range = Whole
    BY <1>1, <1>2 DEF Made
  <1>3. CASE change.range # Whole
    <2>1. PICK s \in 0 .. Len(d), e \in 0 .. Len(d) :
              /\ s <= e /\ change.range.start = PositionAt(d, s)
              /\ change.range.end = PositionAt(d, e)
      BY <1>3 DEF Fits
    <2>2. /\ IndexOf(d, change.range.start) = s /\ IndexOf(d, change.range.end) = e
          /\ ToRopeIdx(d, change.range.start) = s /\ ToRopeIdx(d, change.range.end) = e
          /\ IsPosition(d, change.range.start) /\ IsPosition(d, change.range.end)
      BY <2>1, PlaceOf, PositionIsFound
    <2>3. Made(d, change) = Replaced(d, s, e, change.text)
      BY <1>3, <2>2 DEF Made
    <2> QED
      BY <1>1, <1>3, <2>1, <2>2, <2>3, ReplacedIsText
  <1> QED
    BY <1>2, <1>3

(* The changes the editor makes fit its buffer, and make of it what they are *)
(* said to make.                                                            *)
LEMMA EditorFits ==
    ASSUME NEW d \in Seq(Char), NEW c \in ChangesOf(d)
    PROVE  /\ Event(c) \in Changes /\ Fits(d, Event(c))
           /\ Made(d, Event(c)) = c.after /\ c.after \in Seq(Char)
  <1>1. CASE \E t \in OpenTexts : c = [range |-> Whole, text |-> t, after |-> t]
    <2>1. PICK t \in OpenTexts : c = [range |-> Whole, text |-> t, after |-> t]
      BY <1>1
    <2>2. Event(c) = [range |-> Whole, text |-> t] /\ c.after = t /\ t \in Seq(Char)
      BY <2>1, TextsAssumption DEF Event
    <2> QED
      BY <2>2 DEF Changes, Fits, Made
  <1>2. CASE \E s, e \in 0 .. Len(d), ins \in Inserts : s <= e /\
                c = [range |-> [start |-> PositionAt(d, s), end |-> PositionAt(d, e)],
                     text |-> ins, after |-> Replaced(d, s, e, ins)]
    <2>1. PICK s \in 0 .. Len(d), e \in 0 .. Len(d), ins \in Inserts : s <= e /\
                c = [range |-> [start |-> PositionAt(d, s), end |-> PositionAt(d, e)],
                     text |-> ins, after |-> Replaced(d, s, e, ins)]
      BY <1>2
    <2> DEFINE range == [start |-> PositionAt(d, s), end |-> PositionAt(d, e)]
    <2>2. /\ range \in Ranges /\ range.start = PositionAt(d, s) /\ range.end = PositionAt(d, e)
          /\ range # Whole
      BY PlaceOf, WholeAssumption DEF Ranges
    <2> HIDE DEF range
    <2>3. Event(c) = [range |-> range, text |-> ins] /\ c.after = Replaced(d, s, e, ins)
      BY <2>1 DEF Event, range
    <2>4. ins \in Seq(Char)
      BY TextsAssumption
    <2>5. Event(c) \in Changes /\ Event(c).range = range /\ Event(c).text = ins
      BY <2>2, <2>3, <2>4 DEF Changes
    <2>6. Made(d, Event(c)) = Replaced(d, s, e, ins)
      BY <2>2, <2>5, PlaceOf DEF Made
    <2>7. Fits(d, Event(c))
      BY <2>1, <2>2, <2>5 DEF Fits
    <2> QED
      BY <2>3, <2>4, <2>5, <2>6, <2>7, ReplacedIsText
  <1> QED
    BY <1>1, <1>2 DEF ChangesOf

-----------------------------------------------------------------------------
(* Walks along changes, and paths along messages. *)

LEMMA HeadAndTail ==
    ASSUME NEW S, NEW q \in Seq(S), q # <<>>
    PROVE  /\ Len(q) \in Nat \ {0} /\ Head(q) \in S /\ Head(q) = q[1] /\ 1 \in 1 .. Len(q)
           /\ Tail(q) \in Seq(S) /\ Len(Tail(q)) = Len(q) - 1
           /\ \A k \in 1 .. Len(q) - 1 : Tail(q)[k] = q[k + 1] /\ k + 1 \in 1 .. Len(q)
  OBVIOUS

LEMMA WalkNone ==
    ASSUME NEW d \in Seq(Char)
    PROVE  Leads(d, <<>>, d)
  <1> DEFINE u == [k \in 0 .. 0 |-> d]
  <1>1. Walk(u, d, <<>>) /\ u[Len(<<>>)] = d
    BY DEF Walk
  <1> QED
    BY <1>1 DEF Leads

LEMMA WalkNowhere ==
    ASSUME NEW d, NEW e, Leads(d, <<>>, e)
    PROVE  d = e
  BY DEF Leads, Walk

LEMMA WalkFirst ==
    ASSUME NEW d, NEW e, NEW changes \in Seq(Changes), changes # <<>>, Leads(d, changes, e)
    PROVE  /\ Fits(d, Head(changes))
           /\ Leads(Made(d, Head(changes)), Tail(changes), e)
  <1>1. PICK u : Walk(u, d, changes) /\ u[Len(changes)] = e
    BY DEF Leads
  <1> DEFINE n == Len(changes) - 1
             v == [k \in 0 .. n |-> u[k + 1]]
  <1>2. /\ Len(changes) \in Nat \ {0} /\ Head(changes) = changes[1] /\ 1 \in 1 .. Len(changes)
        /\ Len(Tail(changes)) = n /\ n \in Nat
        /\ \A k \in 1 .. n : Tail(changes)[k] = changes[k + 1] /\ k + 1 \in 1 .. Len(changes)
    BY HeadAndTail
  <1>3. Fits(d, Head(changes)) /\ u[1] = Made(d, Head(changes))
    BY <1>1, <1>2 DEF Walk
  <1>4. v \in [0 .. n -> Seq(Char)] /\ v[0] = u[1] /\ v[n] = e
    <2>1. \A k \in 0 .. n : k + 1 \in 0 .. Len(changes)
      BY <1>2
    <2>2. \A k \in 0 .. n : u[k + 1] \in Seq(Char)
      BY <1>1, <2>1 DEF Walk
    <2>3. 0 \in 0 .. n /\ n \in 0 .. n /\ n + 1 = Len(changes)
      BY <1>2
    <2> HIDE DEF n
    <2> QED
      BY <1>1, <2>2, <2>3
  <1>5. ASSUME NEW k \in 1 .. n
        PROVE  Fits(v[k - 1], Tail(changes)[k]) /\ v[k] = Made(v[k - 1], Tail(changes)[k])
    <2>1. k - 1 \in 0 .. n /\ k \in 0 .. n /\ k - 1 + 1 = k
      BY <1>2
    <2>2. v[k - 1] = u[k] /\ v[k] = u[k + 1]
      BY <2>1
    <2>3. k + 1 \in 1 .. Len(changes) /\ k + 1 - 1 = k
      BY <1>2
    <2> QED
      BY <1>1, <1>2, <2>2, <2>3 DEF Walk
  <1> HIDE DEF v, n
  <1> QED
    BY <1>2, <1>3, <1>4, <1>5 DEF Leads, Walk

LEMMA WalkOne ==
    ASSUME NEW d \in Seq(Char), NEW c \in Changes, Fits(d, c)
    PROVE  Leads(d, <<c>>, Made(d, c))
  <1> DEFINE u == [k \in 0 .. 1 |-> IF k = 0 THEN d ELSE Made(d, c)]
  <1>1. Made(d, c) \in Seq(Char)
    BY FittingChange
  <1>2. Walk(u, d, <<c>>) /\ u[Len(<<c>>)] = Made(d, c)
    BY <1>1 DEF Walk
  <1> QED
    BY <1>2 DEF Leads

LEMMA WalkTwo ==
    ASSUME NEW d \in Seq(Char), NEW c1 \in Changes, NEW c2 \in Changes,
           Fits(d, c1), Fits(Made(d, c1), c2)
    PROVE  Leads(d, <<c1, c2>>, Made(Made(d, c1), c2))
  <1> DEFINE d1 == Made(d, c1)
             d2 == Made(d1, c2)
             u == [k \in 0 .. 2 |-> IF k = 0 THEN d ELSE IF k = 1 THEN d1 ELSE d2]
  <1>1. d1 \in Seq(Char)
    BY FittingChange
  <1> HIDE DEF d1
  <1>2. d2 \in Seq(Char)
    BY <1>1, FittingChange DEF d1
  <1>3. d1 = Made(d, c1) /\ d2 = Made(d1, c2) /\ Fits(d, c1) /\ Fits(d1, c2)
    BY DEF d1
  <1> HIDE DEF d2
  <1>4. /\ u \in [0 .. 2 -> Seq(Char)] /\ u[0] = d /\ u[1] = d1 /\ u[2] = d2
        /\ Len(<<c1, c2>>) = 2 /\ <<c1, c2>>[1] = c1 /\ <<c1, c2>>[2] = c2
    BY <1>1, <1>2
  <1> HIDE DEF u
  <1>5. \A k \in 1 .. 2 : (k = 1 /\ k - 1 = 0) \/ (k = 2 /\ k - 1 = 1)
    OBVIOUS
  <1>6. Walk(u, d, <<c1, c2>>)
    BY <1>3, <1>4, <1>5 DEF Walk
  <1> QED
    BY <1>4, <1>6 DEF Leads, d1, d2

(* The recursion of Replayed comes to where the walk does. *)
LEMMA WalkIsReplayed ==
    ASSUME NEW d, NEW e, NEW changes \in Seq(Changes), Leads(d, changes, e)
    PROVE  Replayed(d, changes) = e
  <1>1. PICK u : Walk(u, d, changes) /\ u[Len(changes)] = e
    BY DEF Leads
  <1> DEFINE Good(g) == g = [k \in 0 .. Len(changes) |->
                                IF k = 0 THEN d ELSE Made(g[k - 1], changes[k])]
             D == CHOOSE g : Good(g)
  <1>2. Replayed(d, changes) = D[Len(changes)]
    BY DEF Replayed
  <1>3. Good(D)
    <2>1. Good(u)
      <3>1. \A k \in 0 .. Len(changes) : u[k] = IF k = 0 THEN d ELSE Made(u[k - 1], changes[k])
        BY <1>1 DEF Walk
      <3> QED
        BY <1>1, <3>1 DEF Walk
    <2> HIDE DEF Good
    <2> QED
      BY <2>1
  <1> HIDE DEF D
  <1> DEFINE T == {k \in 0 .. Len(changes) : D[k] # u[k]}
  <1>4. T = {}
    <2> SUFFICES ASSUME T # {}
                 PROVE  FALSE
      OBVIOUS
    <2>1. PICK k \in T : \A m \in T : k <= m
      <3>1. T \in SUBSET Nat
        OBVIOUS
      <3> HIDE DEF T
      <3> QED
        BY <3>1, Least
    <2>2. CASE k = 0
      BY <1>1, <1>3, <2>2 DEF Walk
    <2>3. CASE k # 0
      <3>1. k \in 1 .. Len(changes) /\ k - 1 \in 0 .. Len(changes) /\ k - 1 < k
        BY <2>3
      <3>2. D[k - 1] = u[k - 1]
        BY <2>1, <3>1
      <3>3. u[k] = Made(u[k - 1], changes[k])
        BY <1>1, <3>1 DEF Walk
      <3>4. D[k] = Made(D[k - 1], changes[k])
        BY <1>3, <2>3
      <3> QED
        BY <3>2, <3>3, <3>4
    <2> QED
      BY <2>2, <2>3
  <1>5. D[Len(changes)] = u[Len(changes)]
    BY <1>4
  <1> QED
    BY <1>1, <1>2, <1>5

LEMMA PathNone ==
    ASSUME NEW f, NEW d \in Seq(Char)
    PROVE  Follows(f, d, <<>>, d)
  <1> DEFINE v == [k \in 0 .. 0 |-> d]
  <1>1. Path(v, f, d, <<>>) /\ v[Len(<<>>)] = d
    BY DEF Path
  <1> QED
    BY <1>1 DEF Follows

LEMMA PathFirst ==
    ASSUME NEW f, NEW d, NEW e, NEW msgs \in Seq(Messages), msgs # <<>>, Follows(f, d, msgs, e)
    PROVE  \E d2 \in Seq(Char) : Means(f, d, Head(msgs), d2) /\ Follows(f, d2, Tail(msgs), e)
  <1>1. PICK u : Path(u, f, d, msgs) /\ u[Len(msgs)] = e
    BY DEF Follows
  <1> DEFINE n == Len(msgs) - 1
             v == [k \in 0 .. n |-> u[k + 1]]
  <1>2. /\ Len(msgs) \in Nat \ {0} /\ Head(msgs) = msgs[1] /\ 1 \in 1 .. Len(msgs)
        /\ Len(Tail(msgs)) = n /\ n \in Nat
        /\ \A k \in 1 .. n : Tail(msgs)[k] = msgs[k + 1] /\ k + 1 \in 1 .. Len(msgs)
    BY HeadAndTail
  <1>3. Means(f, d, Head(msgs), u[1])
    BY <1>1, <1>2 DEF Path
  <1>4. v \in [0 .. n -> Seq(Char)] /\ v[0] = u[1] /\ v[n] = e
    <2>1. \A k \in 0 .. n : k + 1 \in 0 .. Len(msgs)
      BY <1>2
    <2>2. \A k \in 0 .. n : u[k + 1] \in Seq(Char)
      BY <1>1, <2>1 DEF Path
    <2>3. 0 \in 0 .. n /\ n \in 0 .. n /\ n + 1 = Len(msgs)
      BY <1>2
    <2> HIDE DEF n
    <2> QED
      BY <1>1, <2>2, <2>3
  <1>5. ASSUME NEW k \in 1 .. n
        PROVE  Means(f, v[k - 1], Tail(msgs)[k], v[k])
    <2>1. k - 1 \in 0 .. n /\ k \in 0 .. n /\ k - 1 + 1 = k
      BY <1>2
    <2>2. v[k - 1] = u[k] /\ v[k] = u[k + 1]
      BY <2>1
    <2>3. k + 1 \in 1 .. Len(msgs) /\ k + 1 - 1 = k
      BY <1>2
    <2> QED
      BY <1>1, <1>2, <2>2, <2>3 DEF Path
  <1>6. u[1] \in Seq(Char) /\ u[1] = v[0]
    <2>1. 0 \in 0 .. n
      BY <1>2
    <2> QED
      BY <2>1, <1>4
  <1> HIDE DEF v, n
  <1>7. Follows(f, u[1], Tail(msgs), e)
    BY <1>2, <1>4, <1>5, <1>6 DEF Follows, Path
  <1> QED
    BY <1>3, <1>6, <1>7

LEMMA PathGrows ==
    ASSUME NEW f, NEW d, NEW e, NEW msgs \in Seq(Messages), Follows(f, d, msgs, e),
           NEW msg \in Messages, NEW e2 \in Seq(Char), Means(f, e, msg, e2)
    PROVE  Follows(f, d, Append(msgs, msg), e2)
  <1>1. PICK u : Path(u, f, d, msgs) /\ u[Len(msgs)] = e
    BY DEF Follows
  <1> DEFINE n == Len(msgs)
             more == Append(msgs, msg)
             v == [k \in 0 .. n + 1 |-> IF k = n + 1 THEN e2 ELSE u[k]]
  <1>2. /\ n \in Nat /\ Len(more) = n + 1 /\ more[n + 1] = msg
        /\ \A k \in 1 .. n : more[k] = msgs[k]
    OBVIOUS
  <1> HIDE DEF more
  <1>3. v \in [0 .. n + 1 -> Seq(Char)] /\ v[0] = d /\ v[n + 1] = e2
    <2>1. \A k \in 0 .. n + 1 : k # n + 1 => k \in 0 .. n
      BY <1>2
    <2>2. \A k \in 0 .. n : u[k] \in Seq(Char)
      BY <1>1 DEF Path
    <2>3. 0 \in 0 .. n + 1 /\ 0 # n + 1 /\ n + 1 \in 0 .. n + 1 /\ u[0] = d
      BY <1>1, <1>2 DEF Path
    <2> HIDE DEF n
    <2> QED
      BY <2>1, <2>2, <2>3
  <1>4. ASSUME NEW k \in 1 .. n + 1
        PROVE  Means(f, v[k - 1], more[k], v[k])
    <2>1. CASE k \in 1 .. n
      <3>1. v[k - 1] = u[k - 1] /\ v[k] = u[k]
        BY <2>1, <1>2
      <3> QED
        BY <2>1, <3>1, <1>1, <1>2 DEF Path
    <2>2. CASE k = n + 1
      <3>1. v[k - 1] = u[n] /\ v[k] = e2
        BY <2>2, <1>2
      <3> QED
        BY <2>2, <3>1, <1>1, <1>2
    <2> QED
      BY <2>1, <2>2, <1>2
  <1> HIDE DEF v, n
  <1> QED
    BY <1>2, <1>3, <1>4 DEF Follows, Path, more

(* What a message is meant to do is what it does. *)
LEMMA MeantIsDone ==
    ASSUME NEW f, NEW d, NEW e, NEW msg \in Messages, Means(f, d, msg, e)
    PROVE  After(d, f, msg) = e
  <1>1. CASE msg.file # f
    BY <1>1 DEF Means, After
  <1>2. CASE msg.file = f /\ msg.kind = "didOpen"
    BY <1>2 DEF Means, After
  <1>3. CASE msg.file = f /\ msg.kind = "didChange"
    <2>1. msg.changes \in Seq(Changes)
      BY <1>3 DEF Messages
    <2>2. Replayed(d, msg.changes) = e
      BY <1>3, <2>1, WalkIsReplayed DEF Means
    <2> QED
      BY <1>3, <2>2 DEF After
  <1>4. CASE msg.file = f /\ msg.kind \in {"didClose", "request"}
    BY <1>4 DEF Means, After
  <1>5. msg.kind \in {"didOpen", "didClose", "didChange", "request"}
    BY DEF Messages
  <1> QED
    BY <1>1, <1>2, <1>3, <1>4, <1>5

(* The text expected of the server is the one what is under way leads to.   *)
LEMMA UpcomingIsLedTo ==
    ASSUME Typed, NEW f, NEW d, NEW e,
           IF f = current THEN Leads(rope[f], todo, d) ELSE d = rope[f],
           Follows(f, d, inbox, e)
    PROVE  Upcoming(f) = e
  <1>1. PICK u : Path(u, f, d, inbox) /\ u[Len(inbox)] = e
    BY DEF Follows
  <1>2. (IF f = current THEN Replayed(rope[f], todo) ELSE rope[f]) = d
    BY WalkIsReplayed DEF Typed
  <1> DEFINE Good(g) == g = [k \in 0 .. Len(inbox) |->
                                IF k = 0 THEN IF f = current THEN Replayed(rope[f], todo) ELSE rope[f]
                                ELSE After(g[k - 1], f, inbox[k])]
             D == CHOOSE g : Good(g)
  <1>3. Upcoming(f) = D[Len(inbox)]
    BY DEF Upcoming
  <1>4. ASSUME NEW k \in 1 .. Len(inbox)
        PROVE  u[k] = After(u[k - 1], f, inbox[k])
    <2>1. inbox[k] \in Messages
      BY DEF Typed
    <2> QED
      BY <1>1, <2>1, MeantIsDone DEF Path
  <1>5. Good(D)
    <2>1. Good(u)
      <3>1. \A k \in 0 .. Len(inbox) : u[k] = IF k = 0 THEN d ELSE After(u[k - 1], f, inbox[k])
        BY <1>1, <1>4 DEF Path
      <3> QED
        BY <1>1, <1>2, <3>1 DEF Path
    <2> HIDE DEF Good
    <2> QED
      BY <2>1
  <1> HIDE DEF D
  <1> DEFINE T == {k \in 0 .. Len(inbox) : D[k] # u[k]}
  <1>6. T = {}
    <2> SUFFICES ASSUME T # {}
                 PROVE  FALSE
      OBVIOUS
    <2>1. PICK k \in T : \A m \in T : k <= m
      <3>1. T \in SUBSET Nat
        OBVIOUS
      <3> HIDE DEF T
      <3> QED
        BY <3>1, Least
    <2>2. CASE k = 0
      BY <1>1, <1>2, <1>5, <2>2 DEF Path
    <2>3. CASE k # 0
      <3>1. k \in 1 .. Len(inbox) /\ k - 1 \in 0 .. Len(inbox) /\ k - 1 < k
        BY <2>3
      <3>2. D[k - 1] = u[k - 1]
        BY <2>1, <3>1
      <3>3. D[k] = After(D[k - 1], f, inbox[k])
        BY <1>5, <2>3
      <3> QED
        BY <1>4, <3>1, <3>2, <3>3
    <2> QED
      BY <2>2, <2>3
  <1>7. D[Len(inbox)] = u[Len(inbox)]
    <2>1. Len(inbox) \in 0 .. Len(inbox)
      BY DEF Typed
    <2> QED
      BY <1>6, <2>1
  <1> QED
    BY <1>1, <1>3, <1>7

LEMMA InvMirrors == IInv => Mirror
  <1> SUFFICES ASSUME IInv, NEW f \in opened \cap Rooted
               PROVE  Upcoming(f) = doc[f]
    BY DEF Mirror
  <1>1. InStep(f) /\ Typed
    BY DEF IInv
  <1>2. PICK d \in Seq(Char), e \in Seq(Char) :
            /\ IF f = current THEN Leads(rope[f], todo, d) ELSE d = rope[f]
            /\ Follows(f, d, inbox, e)
            /\ f \in opened => e = doc[f]
    BY <1>1 DEF InStep
  <1> QED
    BY <1>1, <1>2, UpcomingIsLedTo

LEMMA StartsInIInv == Init => IInv
  <1> SUFFICES ASSUME Init
               PROVE  IInv
    OBVIOUS
  <1>1. \A f \in Loaded : Disk[f] \in Seq(Char) /\ f \in Rooted
    BY TextsAssumption, FileAssumption
  <1>2. doc \in [File -> Seq(Char)] /\ rope \in [File -> Seq(Char)]
    BY <1>1 DEF Init
  <1>3. Typed
    BY <1>1, <1>2 DEF Init, Typed
  <1>4. ASSUME NEW f \in Rooted
        PROVE  Introduced(f) /\ InStep(f)
    <2>1. inbox = <<>> /\ todo = <<>> /\ opened = {} /\ Len(inbox) = 0
      BY DEF Init
    <2>2. rope[f] \in Seq(Char)
      BY <1>3, FileAssumption DEF Typed
    <2>3. Leads(rope[f], todo, rope[f]) /\ Follows(f, rope[f], inbox, rope[f])
      BY <2>1, <2>2, WalkNone, PathNone
    <2> QED
      BY <2>1, <2>2, <2>3 DEF Introduced, InStep
  <1> QED
    BY <1>3, <1>4 DEF IInv

-----------------------------------------------------------------------------
(* The editor's steps. *)

(* The editor sends a message that is meant for the text the server will    *)
(* then have, and leads it to the editor's.                                 *)
LEMMA SendKeeps ==
    ASSUME IInv, NEW msg \in Messages, Send(msg),
           doc' \in [File -> Seq(Char)], opened' \subseteq File,
           \A f \in Rooted : f \in opened' \ opened => Opens(f, msg),
           msg.file \in Rooted => msg.file \in opened \/ Opens(msg.file, msg),
           \A f \in Rooted : \A d \in Seq(Char) :
               (f \in opened => d = doc[f])
               => \E e \in Seq(Char) : Means(f, d, msg, e) /\ (f \in opened' => e = doc'[f])
    PROVE  IInv'
  <1>1. /\ inbox' = Append(inbox, msg) /\ rope' = rope /\ known' = known /\ todo' = todo
        /\ current' = current
    BY DEF Send, server
  <1>2. inbox \in Seq(Messages) /\ Len(inbox) \in Nat
    BY DEF IInv, Typed
  <1>3. /\ inbox' \in Seq(Messages) /\ Len(inbox') = Len(inbox) + 1
        /\ inbox'[Len(inbox) + 1] = msg
        /\ \A k \in 1 .. Len(inbox) : inbox'[k] = inbox[k]
    BY <1>1, <1>2
  <1>4. Typed'
    BY <1>1, <1>3 DEF IInv, Typed
  <1>5. ASSUME NEW f \in Rooted
        PROVE  Introduced(f)'
    <2> SUFFICES ASSUME f \notin known
                 PROVE  /\ \A k \in 1 .. Len(inbox') : inbox'[k].file = f =>
                               \E j \in 1 .. k : Opens(f, inbox'[j])
                        /\ f \in opened' => \E j \in 1 .. Len(inbox') : Opens(f, inbox'[j])
      BY <1>1 DEF Introduced, Opens
    <2>1. /\ \A k \in 1 .. Len(inbox) : inbox[k].file = f => \E j \in 1 .. k : Opens(f, inbox[j])
          /\ f \in opened => \E j \in 1 .. Len(inbox) : Opens(f, inbox[j])
      BY DEF IInv, Introduced
    <2> DEFINE n == Len(inbox) + 1
    <2>2. /\ n \in 1 .. n /\ n \in Nat /\ \A k \in 1 .. n : k \in 1 .. Len(inbox) \/ k = n
          /\ \A k \in 1 .. Len(inbox) : k \in 1 .. n /\ 1 .. k \subseteq 1 .. Len(inbox)
      BY <1>2
    <2>3. f \in opened \/ Opens(f, msg) => \E j \in 1 .. n : Opens(f, inbox'[j])
      BY <1>3, <2>1, <2>2
    <2>4. \A k \in 1 .. n : inbox'[k].file = f => \E j \in 1 .. k : Opens(f, inbox'[j])
      <3> SUFFICES ASSUME NEW k \in 1 .. n, inbox'[k].file = f
                   PROVE  \E j \in 1 .. k : Opens(f, inbox'[j])
        OBVIOUS
      <3>1. CASE k \in 1 .. Len(inbox)
        BY <3>1, <1>3, <2>1, <2>2
      <3>2. CASE k = n
        BY <3>2, <1>3, <2>3
      <3> QED
        BY <3>1, <3>2, <2>2
    <2> QED
      BY <1>3, <2>3, <2>4
  <1>6. ASSUME NEW f \in Rooted
        PROVE  InStep(f)'
    <2>1. PICK d \in Seq(Char), e \in Seq(Char) :
              /\ IF f = current THEN Leads(rope[f], todo, d) ELSE d = rope[f]
              /\ Follows(f, d, inbox, e)
              /\ f \in opened => e = doc[f]
      BY DEF IInv, InStep
    <2>2. PICK e2 \in Seq(Char) : Means(f, e, msg, e2) /\ (f \in opened' => e2 = doc'[f])
      BY <2>1
    <2>3. Follows(f, d, inbox', e2)
      BY <1>1, <1>2, <2>1, <2>2, PathGrows
    <2> QED
      BY <1>1, <2>1, <2>2, <2>3 DEF InStep
  <1> QED
    BY <1>4, <1>5, <1>6 DEF IInv

LEMMA EditorOpenKeeps ==
    ASSUME IInv, NEW f \in File, EditorOpen(f)
    PROVE  IInv'
  <1>1. PICK t \in OpenTexts : /\ doc' = [doc EXCEPT ![f] = t]
                               /\ Send([kind |-> "didOpen", file |-> f, text |-> t])
    BY DEF EditorOpen
  <1>2. t \in Seq(Char) /\ opened' = opened \cup {f} /\ f \notin opened
    BY TextsAssumption DEF EditorOpen
  <1> DEFINE msg == [kind |-> "didOpen", file |-> f, text |-> t]
  <1>3. msg \in Messages /\ msg.kind = "didOpen" /\ msg.file = f /\ msg.text = t
    BY <1>2 DEF Messages
  <1> HIDE DEF msg
  <1>4. Send(msg)
    BY <1>1 DEF msg
  <1>5. doc \in [File -> Seq(Char)] /\ opened \subseteq File
    BY DEF IInv, Typed
  <1>6. doc' \in [File -> Seq(Char)] /\ opened' \subseteq File
    BY <1>1, <1>2, <1>5
  <1>7. ASSUME NEW g \in Rooted, NEW d \in Seq(Char), g \in opened => d = doc[g]
        PROVE  \E e \in Seq(Char) : Means(g, d, msg, e) /\ (g \in opened' => e = doc'[g])
    <2>1. CASE g = f
      <3>1. Means(g, d, msg, t) /\ doc'[g] = t
        BY <1>1, <1>3, <1>5, <2>1 DEF Means
      <3> QED
        BY <1>2, <3>1
    <2>2. CASE g # f
      <3>1. Means(g, d, msg, d) /\ doc'[g] = doc[g]
        BY <1>1, <1>3, <1>5, <2>2, FileAssumption DEF Means
      <3> QED
        BY <1>2, <1>7, <2>2, <3>1
    <2> QED
      BY <2>1, <2>2
  <1>8. /\ \A g \in Rooted : g \in opened' \ opened => Opens(g, msg)
        /\ msg.file \in Rooted => msg.file \in opened \/ Opens(msg.file, msg)
    BY <1>2, <1>3 DEF Opens
  <1> QED
    BY <1>3, <1>4, <1>6, <1>7, <1>8, SendKeeps

(* A message that changes no buffer and opens none. *)
LEMMA QuietMessageKeeps ==
    ASSUME IInv, NEW msg \in Messages, Send(msg), doc' = doc, opened' \subseteq opened,
           msg.file \in opened,
           \A d \in Seq(Char) : d = doc[msg.file] => Means(msg.file, d, msg, d)
    PROVE  IInv'
  <1>1. doc \in [File -> Seq(Char)] /\ opened \subseteq File
    BY DEF IInv, Typed
  <1>2. ASSUME NEW g \in Rooted, NEW d \in Seq(Char), g \in opened => d = doc[g]
        PROVE  \E e \in Seq(Char) : Means(g, d, msg, e) /\ (g \in opened' => e = doc'[g])
    <2>1. Means(g, d, msg, d)
      <3>1. CASE g = msg.file
        BY <3>1, <1>2
      <3>2. CASE g # msg.file
        BY <3>2 DEF Means
      <3> QED
        BY <3>1, <3>2
    <2> QED
      BY <1>2, <2>1
  <1>3. \A g \in Rooted : g \in opened' \ opened => Opens(g, msg)
    OBVIOUS
  <1>4. doc' \in [File -> Seq(Char)] /\ opened' \subseteq File
    BY <1>1
  <1> QED
    BY <1>2, <1>3, <1>4, SendKeeps

LEMMA EditorCloseKeeps ==
    ASSUME IInv, NEW f \in File, EditorClose(f)
    PROVE  IInv'
  <1> DEFINE msg == [kind |-> "didClose", file |-> f]
  <1>1. msg \in Messages /\ msg.kind = "didClose" /\ msg.file = f
    BY DEF Messages
  <1>2. Send(msg) /\ doc' = doc /\ opened' = opened \ {f} /\ f \in opened
    BY DEF EditorClose
  <1> HIDE DEF msg
  <1>3. \A d \in Seq(Char) : Means(f, d, msg, d)
    BY <1>1 DEF Means
  <1> QED
    BY <1>1, <1>2, <1>3, QuietMessageKeeps

LEMMA EditorAskKeeps ==
    ASSUME IInv, NEW f \in File, EditorAsk(f)
    PROVE  IInv'
  <1>1. PICK i \in 0 .. Len(doc[f]) :
            Send([kind |-> "request", file |-> f, position |-> PositionAt(doc[f], i),
                  asked |-> [doc |-> doc[f], index |-> i]])
    BY DEF EditorAsk
  <1>2. doc[f] \in Seq(Char)
    BY DEF IInv, Typed
  <1> DEFINE msg == [kind |-> "request", file |-> f, position |-> PositionAt(doc[f], i),
                     asked |-> [doc |-> doc[f], index |-> i]]
  <1>3. PositionAt(doc[f], i) \in Positions /\ i \in Nat
    BY <1>2, PlaceOf
  <1>4. /\ msg \in Messages /\ msg.kind = "request" /\ msg.file = f
        /\ msg.position = PositionAt(doc[f], i) /\ msg.asked.doc = doc[f] /\ msg.asked.index = i
    BY <1>2, <1>3 DEF Messages
  <1>5. Send(msg) /\ doc' = doc /\ opened' = opened /\ f \in opened
    BY <1>1 DEF EditorAsk
  <1> HIDE DEF msg
  <1>6. \A d \in Seq(Char) : d = doc[f] => Means(f, d, msg, d)
    BY <1>4 DEF Means
  <1> QED
    BY <1>4, <1>5, <1>6, QuietMessageKeeps

(* A batch that leads from a buffer to what the editor makes of it. *)
LEMMA SendChangesKeeps ==
    ASSUME IInv, NEW f \in opened, NEW batch \in Seq(Changes), NEW d \in Seq(Char),
           SendChanges(f, batch, d), opened' = opened, Leads(doc[f], batch, d)
    PROVE  IInv'
  <1> DEFINE msg == [kind |-> "didChange", file |-> f, changes |-> batch]
  <1>1. doc \in [File -> Seq(Char)] /\ opened \subseteq File
    BY DEF IInv, Typed
  <1>2. msg \in Messages /\ msg.kind = "didChange" /\ msg.file = f /\ msg.changes = batch
    BY <1>1 DEF Messages
  <1>3. Send(msg) /\ doc' = [doc EXCEPT ![f] = d]
    BY DEF SendChanges
  <1> HIDE DEF msg
  <1>4. doc' \in [File -> Seq(Char)] /\ opened' \subseteq File
    BY <1>1, <1>3
  <1>5. ASSUME NEW g \in Rooted, NEW d0 \in Seq(Char), g \in opened => d0 = doc[g]
        PROVE  \E e \in Seq(Char) : Means(g, d0, msg, e) /\ (g \in opened' => e = doc'[g])
    <2>1. CASE g = f
      <3>1. Leads(d0, batch, d)
        BY <1>5, <2>1
      <3>2. Means(g, d0, msg, d)
        BY <1>2, <2>1, <3>1 DEF Means
      <3>3. doc'[g] = d
        BY <1>1, <1>3, <2>1
      <3> QED
        BY <3>2, <3>3
    <2>2. CASE g # f
      <3>1. Means(g, d0, msg, d0) /\ doc'[g] = doc[g]
        BY <1>1, <1>2, <1>3, <2>2, FileAssumption DEF Means
      <3> QED
        BY <1>5, <3>1
    <2> QED
      BY <2>1, <2>2
  <1> QED
    BY <1>2, <1>3, <1>4, <1>5, SendKeeps

LEMMA EditorChangeKeeps ==
    ASSUME IInv, NEW f \in File, EditorChange(f)
    PROVE  IInv'
  <1>1. f \in opened /\ opened' = opened /\ doc[f] \in Seq(Char)
    BY DEF EditorChange, IInv, Typed
  <1>2. PICK c1 \in ChangesOf(doc[f]) :
            \/ SendChanges(f, <<Event(c1)>>, c1.after)
            \/ \E c2 \in ChangesOf(c1.after) :
                  SendChanges(f, <<Event(c1), Event(c2)>>, c2.after)
    BY DEF EditorChange
  <1>3. /\ Event(c1) \in Changes /\ Fits(doc[f], Event(c1))
        /\ Made(doc[f], Event(c1)) = c1.after /\ c1.after \in Seq(Char)
    BY <1>1, EditorFits
  <1>4. CASE SendChanges(f, <<Event(c1)>>, c1.after)
    <2>1. Leads(doc[f], <<Event(c1)>>, c1.after)
      BY <1>1, <1>3, WalkOne
    <2>2. <<Event(c1)>> \in Seq(Changes)
      BY <1>3
    <2> QED
      BY <1>1, <1>3, <1>4, <2>1, <2>2, SendChangesKeeps
  <1>5. CASE \E c2 \in ChangesOf(c1.after) :
                SendChanges(f, <<Event(c1), Event(c2)>>, c2.after)
    <2>1. PICK c2 \in ChangesOf(c1.after) :
              SendChanges(f, <<Event(c1), Event(c2)>>, c2.after)
      BY <1>5
    <2>2. /\ Event(c2) \in Changes /\ Fits(c1.after, Event(c2))
          /\ Made(c1.after, Event(c2)) = c2.after /\ c2.after \in Seq(Char)
      BY <1>3, EditorFits
    <2>3. Leads(doc[f], <<Event(c1), Event(c2)>>, c2.after)
      BY <1>1, <1>3, <2>2, WalkTwo
    <2>4. <<Event(c1), Event(c2)>> \in Seq(Changes)
      BY <1>3, <2>2
    <2> QED
      BY <1>1, <2>1, <2>2, <2>3, <2>4, SendChangesKeeps
  <1> QED
    BY <1>2, <1>4, <1>5

-----------------------------------------------------------------------------
(* The server's steps. *)

(* A message about a file that is in a source root and not yet known opens it. *)
LEMMA FirstOpens ==
    ASSUME IInv, inbox # <<>>, Head(inbox).file \in Rooted \ known
    PROVE  Head(inbox).kind = "didOpen"
  <1>1. Introduced(Head(inbox).file)
    BY DEF IInv
  <1>2. 1 \in 1 .. Len(inbox) /\ Head(inbox) = inbox[1]
    BY HeadAndTail DEF IInv, Typed
  <1>3. \E j \in 1 .. 1 : Opens(Head(inbox).file, inbox[j])
    BY <1>1, <1>2 DEF Introduced
  <1> QED
    BY <1>2, <1>3 DEF Opens

(* The server takes a message and does to its texts what the message means. *)
LEMMA TakeKeeps ==
    ASSUME IInv, todo = <<>>, inbox # <<>>, inbox' = Tail(inbox), doc' = doc, opened' = opened,
           rope' \in [File -> Seq(Char)], known' \subseteq Rooted, todo' \in Seq(Changes),
           todo' # <<>> => current' \in known', known \subseteq known',
           \A f \in Rooted : Opens(f, Head(inbox)) => f \in known',
           \A f \in Rooted : \A d \in Seq(Char) :
               Means(f, rope[f], Head(inbox), d)
               => IF f = current' THEN Leads(rope'[f], todo', d) ELSE d = rope'[f]
    PROVE  IInv'
  <1>1. /\ inbox \in Seq(Messages) /\ Len(inbox) \in Nat \ {0} /\ Head(inbox) = inbox[1]
        /\ inbox' \in Seq(Messages) /\ Len(inbox') = Len(inbox) - 1
        /\ \A k \in 1 .. Len(inbox) - 1 : inbox'[k] = inbox[k + 1] /\ k + 1 \in 1 .. Len(inbox)
    BY HeadAndTail DEF IInv, Typed
  <1>2. Typed'
    BY <1>1 DEF IInv, Typed
  <1>3. ASSUME NEW f \in Rooted
        PROVE  Introduced(f)'
    <2> SUFFICES ASSUME f \notin known'
                 PROVE  /\ \A k \in 1 .. Len(inbox') : inbox'[k].file = f =>
                               \E j \in 1 .. k : Opens(f, inbox'[j])
                        /\ f \in opened' => \E j \in 1 .. Len(inbox') : Opens(f, inbox'[j])
      BY DEF Introduced, Opens
    <2>1. /\ \A k \in 1 .. Len(inbox) : inbox[k].file = f => \E j \in 1 .. k : Opens(f, inbox[j])
          /\ f \in opened => \E j \in 1 .. Len(inbox) : Opens(f, inbox[j])
      BY DEF IInv, Introduced
    <2>2. ASSUME NEW k \in 1 .. Len(inbox) - 1, \E j \in 1 .. k + 1 : Opens(f, inbox[j])
          PROVE  \E j \in 1 .. k : Opens(f, inbox'[j])
      <3>1. PICK j \in 1 .. k + 1 : Opens(f, inbox[j])
        BY <2>2
      <3>2. j # 1
        BY <3>1, <1>1
      <3>3. j - 1 \in 1 .. k /\ j - 1 \in 1 .. Len(inbox) - 1 /\ j - 1 + 1 = j
        BY <1>1, <3>1, <3>2
      <3>4. inbox'[j - 1] = inbox[j]
        BY <1>1, <3>3
      <3> QED
        BY <3>1, <3>3, <3>4
    <2>3. \A k \in 1 .. Len(inbox') : inbox'[k].file = f => \E j \in 1 .. k : Opens(f, inbox'[j])
      BY <1>1, <2>1, <2>2
    <2>4. f \in opened => \E j \in 1 .. Len(inbox') : Opens(f, inbox'[j])
      <3> SUFFICES ASSUME f \in opened
                   PROVE  \E j \in 1 .. Len(inbox') : Opens(f, inbox'[j])
        OBVIOUS
      <3>1. PICK j \in 1 .. Len(inbox) : Opens(f, inbox[j])
        BY <2>1
      <3>2. j # 1
        BY <3>1, <1>1
      <3>3. Len(inbox) - 1 \in 1 .. Len(inbox) - 1 /\ j \in 1 .. Len(inbox) - 1 + 1
        BY <1>1, <3>2
      <3> QED
        BY <1>1, <2>2, <3>1, <3>3
    <2> QED
      BY <2>3, <2>4
  <1>4. ASSUME NEW f \in Rooted
        PROVE  InStep(f)'
    <2>1. PICK d \in Seq(Char), e \in Seq(Char) :
              /\ IF f = current THEN Leads(rope[f], todo, d) ELSE d = rope[f]
              /\ Follows(f, d, inbox, e)
              /\ f \in opened => e = doc[f]
      BY DEF IInv, InStep
    <2>2. d = rope[f]
      BY <2>1, WalkNowhere
    <2>3. PICK d2 \in Seq(Char) : Means(f, d, Head(inbox), d2) /\ Follows(f, d2, inbox', e)
      BY <1>1, <2>1, PathFirst
    <2>4. IF f = current' THEN Leads(rope'[f], todo', d2) ELSE d2 = rope'[f]
      BY <2>2, <2>3
    <2> QED
      BY <2>1, <2>3, <2>4 DEF InStep
  <1> QED
    BY <1>2, <1>3, <1>4 DEF IInv

(* One about a text: it stays, or becomes the text of a message that opens it. *)
LEMMA TakeTextKeeps ==
    ASSUME IInv, todo = <<>>, inbox # <<>>, inbox' = Tail(inbox), doc' = doc, opened' = opened,
           rope' \in [File -> Seq(Char)], known' \subseteq Rooted, todo' = <<>>,
           known \subseteq known',
           \A f \in Rooted : Opens(f, Head(inbox)) => f \in known',
           \A f \in Rooted : \A d \in Seq(Char) :
               Means(f, rope[f], Head(inbox), d) => d = rope'[f]
    PROVE  IInv'
  <1>1. \A f \in Rooted : rope'[f] \in Seq(Char) /\ Leads(rope'[f], todo', rope'[f])
    BY WalkNone, FileAssumption
  <1> QED
    BY <1>1, TakeKeeps

LEMMA OpenKeeps ==
    ASSUME IInv, Open
    PROVE  IInv'
  <1> DEFINE f == Head(inbox).file
             r == Head(inbox).text
  <1>1. /\ todo = <<>> /\ inbox # <<>> /\ inbox' = Tail(inbox) /\ doc' = doc /\ opened' = opened
        /\ Head(inbox).kind = "didOpen" /\ todo' = <<>>
    BY DEF Open, Receive, editor
  <1>2. /\ Head(inbox) \in Messages /\ rope \in [File -> Seq(Char)] /\ known \subseteq Rooted
    BY <1>1, HeadAndTail DEF IInv, Typed
  <1>3. f \in File /\ r \in Seq(Char)
    BY <1>1, <1>2 DEF Messages
  <1>4. CASE f \in known \/ f \in Rooted
    <2>1. rope' = [rope EXCEPT ![f] = r] /\ known' = known \cup {f} /\ f \in Rooted
      BY <1>2, <1>4 DEF Open, Reset, SetRope
    <2>2. rope' \in [File -> Seq(Char)] /\ known' \subseteq Rooted /\ known \subseteq known'
      BY <1>2, <1>3, <2>1
    <2>3. \A g \in Rooted : Opens(g, Head(inbox)) => g \in known'
      BY <2>1 DEF Opens
    <2>4. ASSUME NEW g \in Rooted, NEW d \in Seq(Char), Means(g, rope[g], Head(inbox), d)
          PROVE  d = rope'[g]
      <3>1. CASE g = f
        BY <1>1, <1>2, <2>1, <2>4, <3>1, FileAssumption DEF Means
      <3>2. CASE g # f
        BY <1>1, <1>2, <2>1, <2>4, <3>2, FileAssumption DEF Means
      <3> QED
        BY <3>1, <3>2
    <2> QED
      BY <1>1, <2>2, <2>3, <2>4, TakeTextKeeps
  <1>5. CASE f \notin Rooted
    <2>1. rope' = rope /\ known' = known
      BY <1>2, <1>5 DEF Open
    <2>2. \A g \in Rooted : ~Opens(g, Head(inbox))
      BY <1>5 DEF Opens
    <2>3. \A g \in Rooted : \A d \in Seq(Char) :
              Means(g, rope[g], Head(inbox), d) => d = rope'[g]
      BY <1>5, <2>1 DEF Means
    <2> QED
      BY <1>1, <1>2, <2>1, <2>2, <2>3, TakeTextKeeps
  <1> QED
    BY <1>4, <1>5

LEMMA BeginChangesKeeps ==
    ASSUME IInv, BeginChanges
    PROVE  IInv'
  <1> DEFINE f == Head(inbox).file
  <1>1. /\ todo = <<>> /\ inbox # <<>> /\ inbox' = Tail(inbox) /\ doc' = doc /\ opened' = opened
        /\ Head(inbox).kind = "didChange" /\ rope' = rope /\ known' = known
    BY DEF BeginChanges, Receive, editor
  <1>2. /\ Head(inbox) \in Messages /\ rope \in [File -> Seq(Char)] /\ known \subseteq Rooted
    BY <1>1, HeadAndTail DEF IInv, Typed
  <1>3. \A g : ~Opens(g, Head(inbox))
    BY <1>1 DEF Opens
  <1>4. CASE f \in known
    <2>1. todo' = Head(inbox).changes /\ current' = f /\ todo' \in Seq(Changes)
      BY <1>1, <1>2, <1>4 DEF BeginChanges, Messages
    <2>2. ASSUME NEW g \in Rooted, NEW d \in Seq(Char), Means(g, rope[g], Head(inbox), d)
          PROVE  IF g = current' THEN Leads(rope'[g], todo', d) ELSE d = rope'[g]
      BY <1>1, <2>1, <2>2 DEF Means
    <2> QED
      BY <1>1, <1>2, <1>3, <1>4, <2>1, <2>2, TakeKeeps
  <1>5. CASE f \notin known
    <2>1. todo' = <<>> /\ f \notin Rooted
      BY <1>1, <1>5, FirstOpens DEF BeginChanges
    <2>2. \A g \in Rooted : \A d \in Seq(Char) :
              Means(g, rope[g], Head(inbox), d) => d = rope'[g]
      BY <1>1, <2>1 DEF Means
    <2> QED
      BY <1>1, <1>2, <1>3, <2>1, <2>2, TakeTextKeeps
  <1> QED
    BY <1>4, <1>5

(* Messages that leave the texts alone. *)
LEMMA QuietTakeKeeps ==
    ASSUME IInv, NEW kind \in {"didClose", "request"}, Receive(kind),
           rope' = rope, known' = known, todo' = todo
    PROVE  IInv'
  <1>1. /\ todo = <<>> /\ inbox # <<>> /\ inbox' = Tail(inbox) /\ doc' = doc /\ opened' = opened
        /\ Head(inbox).kind = kind
    BY DEF Receive, editor
  <1>2. rope \in [File -> Seq(Char)] /\ known \subseteq Rooted
    BY DEF IInv, Typed
  <1>3. \A g : ~Opens(g, Head(inbox))
    BY <1>1 DEF Opens
  <1>4. \A g \in Rooted : \A d \in Seq(Char) :
            Means(g, rope[g], Head(inbox), d) => d = rope'[g]
    BY <1>1 DEF Means
  <1> QED
    BY <1>1, <1>2, <1>3, <1>4, TakeTextKeeps

LEMMA IgnoreKeeps ==
    ASSUME IInv, Ignore
    PROVE  IInv'
  BY QuietTakeKeeps DEF Ignore, server

LEMMA RequestKeeps ==
    ASSUME IInv, Request
    PROVE  IInv'
  <1>1. Receive("request") /\ rope' = rope /\ known' = known /\ todo' = todo
    BY DEF Request, Panic
  <1> QED
    BY <1>1, QuietTakeKeeps

(* The change that is due fits the text it is made to. *)
LEMMA DueFits ==
    ASSUME IInv, todo # <<>>
    PROVE  Head(todo) \in Changes /\ current \in known /\ Fits(rope[current], Head(todo))
  <1>1. todo \in Seq(Changes) /\ current \in known /\ InStep(current)
    BY DEF IInv, Typed
  <1>2. PICK d : Leads(rope[current], todo, d)
    BY <1>1 DEF InStep
  <1> QED
    BY <1>1, <1>2, WalkFirst, HeadAndTail

(* A round of the loop finds both places, and makes what was meant of the text. *)
LEMMA AppliesWhatIsMeant ==
    ASSUME IInv, ApplyChange
    PROVE  /\ rope' = [rope EXCEPT ![current] = Made(rope[current], Head(todo))]
           /\ Made(rope[current], Head(todo)) \in Seq(Char)
           /\ todo' = Tail(todo) /\ UNCHANGED <<editor, inbox, alive, known, current>>
  <1>1. /\ todo # <<>> /\ Head(todo) \in Changes /\ current \in known
        /\ Fits(rope[current], Head(todo)) /\ rope[current] \in Seq(Char)
    <2>1. todo # <<>>
      BY DEF ApplyChange
    <2> QED
      BY <2>1, DueFits, FileAssumption DEF IInv, Typed
  <1> DEFINE d == rope[current]
             change == Head(todo)
  <1>2. /\ Made(d, change) \in Seq(Char)
        /\ change.range = Whole => Made(d, change) = change.text
        /\ change.range # Whole =>
             /\ IsPosition(d, change.range.start) /\ IsPosition(d, change.range.end)
             /\ Made(d, change) = Replaced(d, ToRopeIdx(d, change.range.start),
                                           ToRopeIdx(d, change.range.end), change.text)
    BY <1>1, FittingChange
  <1>3. CASE change.range = Whole
    BY <1>2, <1>3 DEF ApplyChange, Reset, SetRope
  <1>4. CASE change.range # Whole
    BY <1>2, <1>4 DEF ApplyChange, SetRope
  <1> QED
    BY <1>2, <1>3, <1>4

LEMMA ApplyChangeKeeps ==
    ASSUME IInv, ApplyChange
    PROVE  IInv'
  <1>1. /\ todo # <<>> /\ todo \in Seq(Changes) /\ current \in known
        /\ rope \in [File -> Seq(Char)] /\ known \subseteq Rooted
    BY DEF ApplyChange, IInv, Typed
  <1>2. /\ rope' = [rope EXCEPT ![current] = Made(rope[current], Head(todo))]
        /\ Made(rope[current], Head(todo)) \in Seq(Char) /\ todo' = Tail(todo)
        /\ doc' = doc /\ opened' = opened /\ inbox' = inbox /\ known' = known
        /\ current' = current
    BY AppliesWhatIsMeant DEF editor
  <1>3. rope' \in [File -> Seq(Char)] /\ todo' \in Seq(Changes)
    BY <1>1, <1>2, HeadAndTail
  <1>4. Typed'
    BY <1>1, <1>2, <1>3 DEF IInv, Typed
  <1>5. ASSUME NEW f \in Rooted
        PROVE  Introduced(f)' /\ InStep(f)'
    <2>1. Introduced(f)'
      BY <1>2 DEF IInv, Introduced, Opens
    <2>2. PICK d \in Seq(Char), e \in Seq(Char) :
              /\ IF f = current THEN Leads(rope[f], todo, d) ELSE d = rope[f]
              /\ Follows(f, d, inbox, e)
              /\ f \in opened => e = doc[f]
      BY DEF IInv, InStep
    <2>3. IF f = current THEN Leads(rope'[f], todo', d) ELSE d = rope'[f]
      <3>1. CASE f = current
        BY <1>1, <1>2, <2>2, <3>1, WalkFirst, FileAssumption
      <3>2. CASE f # current
        BY <1>1, <1>2, <2>2, <3>2, FileAssumption
      <3> QED
        BY <3>1, <3>2
    <2> QED
      BY <1>2, <2>1, <2>2, <2>3 DEF InStep
  <1> QED
    BY <1>4, <1>5 DEF IInv

LEMMA StepsKeepIInv == IInv /\ [Next]_vars => IInv'
  <1> SUFFICES ASSUME IInv, [Next]_vars
               PROVE  IInv'
    OBVIOUS
  <1>1. CASE Editor
    BY <1>1, EditorOpenKeeps, EditorCloseKeeps, EditorChangeKeeps, EditorAskKeeps DEF Editor
  <1>2. CASE Server
    BY <1>2, OpenKeeps, BeginChangesKeeps, ApplyChangeKeeps, IgnoreKeeps, RequestKeeps DEF Server
  <1>3. CASE UNCHANGED vars
    <2>1. /\ doc' = doc /\ opened' = opened /\ inbox' = inbox /\ rope' = rope /\ known' = known
          /\ todo' = todo /\ current' = current
      BY <1>3 DEF vars, editor, server
    <2>2. Typed'
      BY <2>1 DEF IInv, Typed
    <2>3. \A f \in Rooted : Introduced(f)' /\ InStep(f)'
      BY <2>1 DEF IInv, Introduced, Opens, InStep
    <2> QED
      BY <2>2, <2>3 DEF IInv
  <1> QED
    BY <1>1, <1>2, <1>3 DEF Next

-----------------------------------------------------------------------------
(* A request about a file of the workspace was asked of the very text the   *)
(* server has when it comes to it.                                          *)
LEMMA AskedOfRope ==
    ASSUME IInv, todo = <<>>, inbox # <<>>,
           Head(inbox).kind = "request", Head(inbox).file \in Rooted
    PROVE  LET f   == Head(inbox).file
               msg == Head(inbox)
           IN  /\ f \in known /\ rope[f] \in Seq(Char) /\ msg.asked.doc = rope[f]
               /\ msg.asked.index \in 0 .. Len(rope[f])
               /\ msg.position = PositionAt(rope[f], msg.asked.index)
  <1> DEFINE f == Head(inbox).file
  <1>1. f \in known /\ rope[f] \in Seq(Char) /\ inbox \in Seq(Messages) /\ InStep(f)
    BY FirstOpens, FileAssumption DEF IInv, Typed
  <1>2. PICK d \in Seq(Char), e \in Seq(Char) :
            /\ IF f = current THEN Leads(rope[f], todo, d) ELSE d = rope[f]
            /\ Follows(f, d, inbox, e)
    BY <1>1 DEF InStep
  <1>3. d = rope[f]
    BY <1>2, WalkNowhere
  <1>4. PICK d2 : Means(f, d, Head(inbox), d2)
    BY <1>1, <1>2, PathFirst
  <1> QED
    BY <1>1, <1>3, <1>4 DEF Means

LEMMA AlwaysIInv == Spec => []IInv
  <1>1. Init /\ [][Next]_vars => []IInv
    BY StartsInIInv, StepsKeepIInv, PTL
  <1> QED
    BY <1>1, PTL DEF Spec

(* What the server knows and what is under way to it are of the kinds the   *)
(* code takes for granted: only files of source roots get inputs, and a     *)
(* batch of changes is applied to a file the server knows.                  *)
THEOREM TextsTyped == Spec => []Typed
  <1>1. IInv => Typed
    BY DEF IInv
  <1> QED
    BY <1>1, AlwaysIInv, PTL

(* The server's texts follow the editor's: in every state that can be       *)
(* reached, the server's text of an open file of the workspace, with the    *)
(* changes under way made to it, is the editor's buffer.                    *)
THEOREM TextsMirrored == Spec => []Mirror
  BY AlwaysIInv, InvMirrors, PTL

(* No step of the server makes it panic but a request about a file outside  *)
(* every source root: apply_changes finds the places of every change, and   *)
(* convert those of every request about a file of the workspace.            *)
THEOREM PanicsOnlyOutside == Spec => PanicsOutsideOnly
  <1>1. IInv /\ [Next]_vars =>
            [alive /\ ~alive' => /\ todo = <<>> /\ Head(inbox).kind = "request"
                                 /\ Head(inbox).file \notin Rooted]_vars
    <2> SUFFICES ASSUME IInv, Next, alive, ~alive'
                 PROVE  /\ todo = <<>> /\ Head(inbox).kind = "request"
                        /\ Head(inbox).file \notin Rooted
      OBVIOUS
    <2>1. ~Editor
      BY DEF Editor, EditorOpen, EditorClose, EditorChange, EditorAsk, SendChanges, Send, server
    <2>2. ~ApplyChange
      BY AppliesWhatIsMeant
    <2>3. ~Open /\ ~BeginChanges /\ ~Ignore
      BY DEF Open, BeginChanges, Ignore, server
    <2>4. Request
      BY <2>1, <2>2, <2>3 DEF Next, Server
    <2>5. todo = <<>> /\ inbox # <<>> /\ Head(inbox).kind = "request"
      BY <2>4 DEF Request, Receive
    <2>6. ~Converts(Head(inbox).file, Head(inbox).position)
      BY <2>4 DEF Request
    <2>7. ASSUME Head(inbox).file \in Rooted
          PROVE  Converts(Head(inbox).file, Head(inbox).position)
      BY <2>5, <2>7, AskedOfRope, PositionIsFound DEF Converts
    <2> QED
      BY <2>5, <2>6, <2>7
  <1> QED
    BY <1>1, AlwaysIInv, PTL DEF Spec, PanicsOutsideOnly

-----------------------------------------------------------------------------
(* The syntax layer: what is proved of it alone, with the bytes of a rope   *)
(* for its text.                                                            *)
Alone == INSTANCE IncrementalParserProofs WITH
             text <- Texts, Byte <- ByteSet, NL <- LFByte,
             MaxLen <- 4 * MaxDoc, MaxIns <- 4 * MaxDoc

LEMMA AloneAssumptions ==
    /\ 4 * MaxDoc \in Nat /\ Dirty \notin ByteSet /\ LFByte \in ByteSet
  <1>1. LF \in Char /\ 1 \in 1 .. 4
    BY CharAssumption
  <1> QED
    BY <1>1, FileAssumption, DirtyAssumption DEF ByteSet, LFByte

LEMMA SameOperators ==
    /\ Alone!Cell = Parser!Cell
    /\ \A s, from, to, ins : Alone!Splice(s, from, to, ins) = Parser!Splice(s, from, to, ins)
    /\ \A t : Alone!Fresh(t) = Parser!Fresh(t) /\ Syntax!Fresh(t) = Parser!Fresh(t)
    /\ \A tree, t : Alone!InSync(tree, t) <=> Parser!InSync(tree, t)
    /\ \A tree, t : Alone!Reparse(tree, t) = Parser!Reparse(tree, t)
    /\ \A tree, old, new, s, e, ins :
          Alone!Edit(tree, Alone!InputEdit(old, new, s, e, ins))
          = Parser!Edit(tree, Parser!InputEdit(old, new, s, e, ins))
  <1>1. Alone!Cell = Parser!Cell
    BY Zenon DEF Alone!Cell, Parser!Cell
  <1>2. \A s, from, to, ins : Alone!Splice(s, from, to, ins) = Parser!Splice(s, from, to, ins)
    BY Zenon DEF Alone!Splice, Parser!Splice
  <1>3. \A t, b : /\ Alone!LineStart(t, b) = Parser!LineStart(t, b)
                  /\ Syntax!LineStart(t, b) = Parser!LineStart(t, b)
    BY Zenon DEF Alone!LineStart, Parser!LineStart, Syntax!LineStart
  <1>4. \A t, b : Alone!PointOf(t, b) = Parser!PointOf(t, b) /\ Syntax!PointOf(t, b) = Parser!PointOf(t, b)
    <2>1. \A S : /\ Alone!Cardinality(S) = Parser!Cardinality(S)
                 /\ Syntax!Cardinality(S) = Parser!Cardinality(S)
      BY Zenon DEF Alone!Cardinality, Parser!Cardinality, Syntax!Cardinality
    <2> QED
      BY <1>3, <2>1 DEF Alone!PointOf, Parser!PointOf, Syntax!PointOf
  <1>5. \A t : Alone!Fresh(t) = Parser!Fresh(t) /\ Syntax!Fresh(t) = Parser!Fresh(t)
    BY <1>4, Zenon DEF Alone!Fresh, Parser!Fresh, Syntax!Fresh
  <1>6. \A tree, t : Alone!InSync(tree, t) <=> Parser!InSync(tree, t)
    BY Zenon DEF Alone!InSync, Parser!InSync
  <1>7. \A tree, t : Alone!Reparse(tree, t) = Parser!Reparse(tree, t)
    BY <1>4, Zenon DEF Alone!Reparse, Parser!Reparse
  <1>8. \A old, new, s, e, ins :
            Alone!InputEdit(old, new, s, e, ins) = Parser!InputEdit(old, new, s, e, ins)
    BY <1>4, Zenon DEF Alone!InputEdit, Parser!InputEdit
  <1>9. \A tree, edit : Alone!Edit(tree, edit) = Parser!Edit(tree, edit)
    <2>1. \A p, from, to : Alone!Shift(p, from, to) = Parser!Shift(p, from, to)
      BY Zenon DEF Alone!Shift, Parser!Shift
    <2> QED
      BY <1>2, <2>1, Zenon DEF Alone!Edit, Parser!Edit
  <1> QED
    BY <1>1, <1>2, <1>5, <1>6, <1>7, <1>8, <1>9, Zenon

(* A change of a rope is the edit of its tree that the server makes of it.  *)
LEMMA EditedInSync ==
    ASSUME NEW r \in Seq(Char), NEW ins \in Seq(Char),
           NEW s \in 0 .. Len(r), NEW e \in 0 .. Len(r), s <= e,
           NEW tree, tree.cells \in Seq(Parser!Cell), Parser!InSync(tree, Bytes(r))
    PROVE  LET new   == Bytes(Replaced(r, s, e, ins))
               tree2 == Parser!Edit(tree, Parser!InputEdit(Bytes(r), new, CharToByte(r, s),
                                              CharToByte(r, e), Bytes(ins)))
           IN  tree2.cells \in Seq(Parser!Cell) /\ Parser!InSync(tree2, new)
  <1> DEFINE old == Bytes(r)
             more == Bytes(ins)
             from == CharToByte(r, s)
             to == CharToByte(r, e)
             new == Bytes(Replaced(r, s, e, ins))
  <1>1. /\ old \in Seq(ByteSet) /\ more \in Seq(ByteSet) /\ from \in Nat /\ to \in Nat
        /\ from <= to /\ to <= Len(old)
    BY BytesOf, OffsetsIn
  <1>2. new = Alone!Splice(old, from, to, more)
    BY BytesReplaced DEF Alone!Splice
  <1> HIDE DEF old, more, from, to, new
  <1>3. tree.cells \in Seq(Alone!Cell) /\ Alone!InSync(tree, old)
    BY SameOperators DEF old
  <1> DEFINE tree2 == Alone!Edit(tree, Alone!InputEdit(old, new, from, to, more))
  <1>4. tree2.cells \in Seq(Alone!Cell) /\ Alone!InSync(tree2, new)
    BY <1>1, <1>2, <1>3, AloneAssumptions, Alone!EditKeepsInSync
  <1>5. tree2 = Parser!Edit(tree, Parser!InputEdit(old, new, from, to, more))
    BY SameOperators
  <1> HIDE DEF tree2
  <1>6. tree2.cells \in Seq(Parser!Cell) /\ Parser!InSync(tree2, new)
    BY <1>4, SameOperators
  <1> QED
    BY <1>5, <1>6 DEF old, more, from, to, new

LEMMA BytesAreText ==
    ASSUME NEW r \in Seq(Char)
    PROVE  Bytes(r) \in Alone!TextUpTo(Len(Bytes(r))) /\ Len(Bytes(r)) \in Nat
  <1>1. /\ Bytes(r) \in [1 .. Len(Bytes(r)) -> ByteSet] /\ Len(Bytes(r)) \in Nat
        /\ Len(Bytes(r)) \in 0 .. Len(Bytes(r))
    BY BytesOf
  <1> QED
    BY <1>1 DEF Alone!TextUpTo

LEMMA ParsedIsFresh ==
    ASSUME NEW r \in Seq(Char)
    PROVE  /\ \A old : Parser!InSync(old, Bytes(r))
                       => Parser!Reparse(old, Bytes(r)) = Parser!Fresh(Bytes(r))
           /\ Parser!Fresh(Bytes(r)).cells \in Seq(Parser!Cell)
           /\ Parser!InSync(Parser!Fresh(Bytes(r)), Bytes(r))
  <1> DEFINE t == Bytes(r)
  <1>1. t \in Alone!TextUpTo(Len(t)) /\ Len(t) \in Nat
    BY BytesAreText
  <1> HIDE DEF t
  <1>2. \A old : Alone!InSync(old, t) => Alone!Reparse(old, t) = Alone!Fresh(t)
    BY <1>1, AloneAssumptions, Alone!ReparseIsFresh
  <1>3. Alone!Fresh(t).cells \in Seq(Alone!Cell) /\ Alone!InSync(Alone!Fresh(t), t)
    BY <1>1, AloneAssumptions, Alone!FreshInSync
  <1>4. \A old : Parser!InSync(old, t) => Parser!Reparse(old, t) = Parser!Fresh(t)
    BY <1>2, SameOperators
  <1>5. Parser!Fresh(t).cells \in Seq(Parser!Cell) /\ Parser!InSync(Parser!Fresh(t), t)
    BY <1>3, SameOperators
  <1> QED
    BY <1>4, <1>5 DEF t

(* Trees are in step with the ropes, and the last response is of what was asked. *)
TreesInStep ==
    \A f \in File :
        /\ cache[f] # NoTree => /\ f \in known /\ cache[f].cells \in Seq(Parser!Cell)
                               /\ Parser!InSync(cache[f], Bytes(rope[f]))
        /\ Parser!MemoIsCurrent(f) =>
               memo[f] = [source |-> Bytes(rope[f]), tree |-> Parser!Fresh(Bytes(rope[f]))]
SInv == /\ DOMAIN cache = File /\ DOMAIN memo = File /\ stale \subseteq File
        /\ TreesInStep /\ AnswersAsked

LEMMA StartsInSInv == Init => SInv
  BY DEF Init, SInv, TreesInStep, AnswersAsked, Parser!MemoIsCurrent

LEMMA SameSyntaxKeeps ==
    ASSUME SInv, rope' = rope, known' = known, reply' = reply, UNCHANGED syntax
    PROVE  SInv'
  BY DEF SInv, TreesInStep, AnswersAsked, Parser!MemoIsCurrent, syntax

(* A rope is written, and with it the cache. *)
LEMMA WriteKeeps ==
    ASSUME IInv, SInv, NEW f \in File, NEW r \in Seq(Char), SetRope(f, r), reply' = reply,
           known \subseteq known', DOMAIN cache' = File,
           \A g \in File \ {f} : cache'[g] = cache[g],
           cache'[f] # NoTree => /\ f \in known' /\ cache'[f].cells \in Seq(Parser!Cell)
                                /\ Parser!InSync(cache'[f], Bytes(r))
    PROVE  SInv'
  <1>1. /\ rope' = [rope EXCEPT ![f] = r] /\ stale' = stale \cup {f} /\ memo' = memo
        /\ rope \in [File -> Seq(Char)]
    BY DEF SetRope, IInv, Typed
  <1>2. rope'[f] = r /\ \A g \in File \ {f} : rope'[g] = rope[g]
    BY <1>1
  <1>3. AnswersAsked'
    BY DEF SInv, AnswersAsked
  <1>4. ASSUME NEW g \in File
        PROVE  /\ cache'[g] # NoTree => /\ g \in known' /\ cache'[g].cells \in Seq(Parser!Cell)
                                        /\ Parser!InSync(cache'[g], Bytes(rope'[g]))
               /\ memo'[g] # NoTree /\ g \notin stale' =>
                      memo'[g] = [source |-> Bytes(rope'[g]), tree |-> Parser!Fresh(Bytes(rope'[g]))]
    <2>1. CASE g = f
      BY <1>1, <1>2, <2>1
    <2>2. CASE g # f
      <3>1. cache'[g] = cache[g] /\ rope'[g] = rope[g] /\ memo'[g] = memo[g]
            /\ (g \in stale' <=> g \in stale)
        BY <1>1, <1>2, <2>2
      <3>2. /\ cache[g] # NoTree => /\ g \in known /\ cache[g].cells \in Seq(Parser!Cell)
                                    /\ Parser!InSync(cache[g], Bytes(rope[g]))
            /\ memo[g] # NoTree /\ g \notin stale =>
                  memo[g] = [source |-> Bytes(rope[g]), tree |-> Parser!Fresh(Bytes(rope[g]))]
        BY DEF SInv, TreesInStep, Parser!MemoIsCurrent
      <3> QED
        BY <3>1, <3>2
    <2> QED
      BY <2>1, <2>2
  <1>5. TreesInStep'
    BY <1>4 DEF TreesInStep, Parser!MemoIsCurrent
  <1> QED
    BY <1>1, <1>3, <1>5 DEF SInv

LEMMA OpenKeepsSyntax ==
    ASSUME IInv, SInv, Open
    PROVE  SInv'
  <1> DEFINE f == Head(inbox).file
             r == Head(inbox).text
  <1>1. inbox # <<>> /\ Head(inbox).kind = "didOpen" /\ reply' = reply
    BY DEF Open, Receive
  <1>2. Head(inbox) \in Messages
    BY <1>1, HeadAndTail DEF IInv, Typed
  <1>3. f \in File /\ r \in Seq(Char)
    BY <1>1, <1>2 DEF Messages
  <1>4. CASE f \in known
    <2>1. SetRope(f, r) /\ cache' = [cache EXCEPT ![f] = NoTree] /\ known' = known
      BY <1>4 DEF Open, Reset, Parser!Invalidate
    <2>2. DOMAIN cache' = File /\ cache'[f] = NoTree /\ \A g \in File \ {f} : cache'[g] = cache[g]
      BY <1>3, <2>1 DEF SInv
    <2> QED
      BY <1>1, <1>3, <2>1, <2>2, WriteKeeps
  <1>5. CASE f \notin known /\ f \in Rooted
    <2>1. SetRope(f, r) /\ cache' = cache /\ known' = known \cup {f}
      BY <1>5 DEF Open
    <2>2. cache[f] = NoTree /\ DOMAIN cache' = File /\ known \subseteq known'
      BY <1>3, <1>5, <2>1 DEF SInv, TreesInStep
    <2> QED
      BY <1>1, <1>3, <2>1, <2>2, WriteKeeps
  <1>6. CASE f \notin known /\ f \notin Rooted
    <2>1. rope' = rope /\ known' = known /\ UNCHANGED syntax
      BY <1>6 DEF Open
    <2> QED
      BY <1>1, <2>1, SameSyntaxKeeps
  <1> QED
    BY <1>4, <1>5, <1>6

LEMMA ApplyChangeKeepsSyntax ==
    ASSUME IInv, SInv, ApplyChange
    PROVE  SInv'
  <1> DEFINE f == current
             change == Head(todo)
  <1>1. /\ todo # <<>> /\ change \in Changes /\ f \in known /\ Fits(rope[f], change)
        /\ f \in File /\ rope[f] \in Seq(Char) /\ change.text \in Seq(Char)
    <2>1. todo # <<>>
      BY DEF ApplyChange
    <2>2. change \in Changes /\ f \in known /\ Fits(rope[f], change)
      BY <2>1, DueFits
    <2>3. f \in File /\ rope[f] \in Seq(Char) /\ change.text \in Seq(Char)
      BY <2>2, FileAssumption DEF IInv, Typed, Changes
    <2> QED
      BY <2>1, <2>2, <2>3
  <1>2. known' = known
    BY AppliesWhatIsMeant
  <1>3. CASE change.range = Whole
    <2>1. SetRope(f, change.text) /\ cache' = [cache EXCEPT ![f] = NoTree] /\ reply' = reply
      BY <1>3 DEF ApplyChange, Reset, Parser!Invalidate
    <2>2. DOMAIN cache' = File /\ cache'[f] = NoTree /\ \A g \in File \ {f} : cache'[g] = cache[g]
      BY <1>1, <2>1 DEF SInv
    <2> QED
      BY <1>1, <1>2, <2>1, <2>2, WriteKeeps
  <1>4. CASE change.range # Whole
    <2> DEFINE s == ToRopeIdx(rope[f], change.range.start)
               e == ToRopeIdx(rope[f], change.range.end)
               new == Replaced(rope[f], s, e, change.text)
               edit == Parser!InputEdit(Bytes(rope[f]), Bytes(new), CharToByte(rope[f], s),
                                        CharToByte(rope[f], e), Bytes(change.text))
               tree == Parser!Edit(cache[f], edit)
    <2>1. /\ IsPosition(rope[f], change.range.start) /\ IsPosition(rope[f], change.range.end)
          /\ s \in 0 .. Len(rope[f]) /\ e \in 0 .. Len(rope[f]) /\ s <= e
      BY <1>1, <1>4, FittingChange
    <2>2. SetRope(f, new) /\ Parser!EditCache(f, edit) /\ reply' = reply
      BY <1>4, <2>1 DEF ApplyChange
    <2> HIDE DEF s, e
    <2>3. new \in Seq(Char)
      BY <1>1, <2>1, ReplacedIsText
    <2>4. ASSUME cache[f] # NoTree
          PROVE  tree.cells \in Seq(Parser!Cell) /\ Parser!InSync(tree, Bytes(new))
      <3>1. cache[f].cells \in Seq(Parser!Cell) /\ Parser!InSync(cache[f], Bytes(rope[f]))
        BY <1>1, <2>4 DEF SInv, TreesInStep
      <3> QED
        BY <1>1, <2>1, <3>1, EditedInSync
    <2>5. cache' = IF cache[f] = NoTree THEN cache ELSE [cache EXCEPT ![f] = tree]
      BY <2>2 DEF Parser!EditCache
    <2> HIDE DEF new, edit, tree
    <2>6. /\ DOMAIN cache' = File /\ \A g \in File \ {f} : cache'[g] = cache[g]
          /\ cache'[f] = IF cache[f] = NoTree THEN NoTree ELSE tree
      BY <1>1, <2>5 DEF SInv
    <2> QED
      BY <1>1, <1>2, <2>2, <2>3, <2>4, <2>6, WriteKeeps
  <1> QED
    BY <1>3, <1>4

(* What the parse query answers and leaves. *)
LEMMA Parsed ==
    ASSUME IInv, SInv, NEW f \in known, Parser!Parse(f)
    PROVE  LET t == Bytes(rope[f])
           IN  /\ answer' = [file |-> f, source |-> t, tree |-> Parser!Fresh(t)]
               /\ \/ UNCHANGED <<cache, memo, stale>>
                  \/ /\ cache' = [cache EXCEPT ![f] = Parser!Fresh(t)]
                     /\ memo' = [memo EXCEPT ![f] = [source |-> t, tree |-> Parser!Fresh(t)]]
                     /\ stale' = stale \ {f}
  <1> DEFINE t == Bytes(rope[f])
  <1>1. f \in File /\ rope[f] \in Seq(Char) /\ Texts[f] = t
    BY FileAssumption DEF IInv, Typed, Texts
  <1>2. Parser!NewTree(f) = Parser!Fresh(t)
    <2>1. cache[f] # NoTree => Parser!InSync(cache[f], t)
      BY <1>1 DEF SInv, TreesInStep
    <2> QED
      BY <1>1, <2>1, ParsedIsFresh DEF Parser!NewTree
  <1>3. CASE Parser!MemoIsCurrent(f)
    <2>1. memo[f] = [source |-> t, tree |-> Parser!Fresh(t)]
      BY <1>1, <1>3 DEF SInv, TreesInStep
    <2> QED
      BY <1>3, <2>1 DEF Parser!Parse, Parser!Answer
  <1>4. CASE ~Parser!MemoIsCurrent(f)
    BY <1>1, <1>2, <1>4 DEF Parser!Parse, Parser!Answer
  <1> QED
    BY <1>3, <1>4

LEMMA RequestKeepsSyntax ==
    ASSUME IInv, SInv, Request
    PROVE  SInv'
  <1> DEFINE msg == Head(inbox)
             f == msg.file
             t == Bytes(rope[f])
  <1>1. todo = <<>> /\ inbox # <<>> /\ msg.kind = "request"
    BY DEF Request, Receive
  <1>2. CASE ~Converts(f, msg.position)
    BY <1>2, SameSyntaxKeeps DEF Request, Panic
  <1>3. CASE Converts(f, msg.position)
    <2>1. f \in known /\ f \in Rooted /\ f \in File /\ rope[f] \in Seq(Char)
      BY <1>3, FileAssumption DEF Converts, IInv, Typed
    <2>2. /\ rope' = rope /\ known' = known /\ Parser!Parse(f)
          /\ \/ reply' = [asked |-> msg.asked, offset |-> Convert(f, msg.position),
                          source |-> answer'.source, tree |-> answer'.tree]
             \/ reply' = reply
      BY <1>3 DEF Request
    <2>3. /\ answer' = [file |-> f, source |-> t, tree |-> Parser!Fresh(t)]
          /\ \/ UNCHANGED <<cache, memo, stale>>
             \/ /\ cache' = [cache EXCEPT ![f] = Parser!Fresh(t)]
                /\ memo' = [memo EXCEPT ![f] = [source |-> t, tree |-> Parser!Fresh(t)]]
                /\ stale' = stale \ {f}
      BY <2>1, <2>2, Parsed
    <2>4. /\ msg.asked.doc = rope[f] /\ msg.asked.index \in 0 .. Len(rope[f])
          /\ msg.position = PositionAt(rope[f], msg.asked.index)
      BY <1>1, <2>1, AskedOfRope
    <2>5. Convert(f, msg.position) = CharToByte(msg.asked.doc, msg.asked.index)
      BY <2>1, <2>4, PositionIsFound DEF Convert
    <2>6. AnswersAsked'
      <3>1. CASE reply' = reply
        BY <3>1 DEF SInv, AnswersAsked
      <3>2. CASE reply' = [asked |-> msg.asked, offset |-> Convert(f, msg.position),
                           source |-> answer'.source, tree |-> answer'.tree]
        <4>1. /\ reply'.asked = msg.asked /\ reply'.offset = Convert(f, msg.position)
              /\ reply'.source = t /\ reply'.tree = Parser!Fresh(t)
          BY <2>3, <3>2
        <4> QED
          BY <2>4, <2>5, <4>1 DEF AnswersAsked
      <3> QED
        BY <2>2, <3>1, <3>2
    <2>7. CASE UNCHANGED <<cache, memo, stale>>
      BY <2>2, <2>6, <2>7 DEF SInv, TreesInStep, Parser!MemoIsCurrent
    <2>8. CASE /\ cache' = [cache EXCEPT ![f] = Parser!Fresh(t)]
               /\ memo' = [memo EXCEPT ![f] = [source |-> t, tree |-> Parser!Fresh(t)]]
               /\ stale' = stale \ {f}
      <3>1. /\ Parser!Fresh(t).cells \in Seq(Parser!Cell)
            /\ Parser!InSync(Parser!Fresh(t), t)
        BY <2>1, ParsedIsFresh
      <3> DEFINE tree == Parser!Fresh(t)
                 ast == [source |-> t, tree |-> tree]
      <3>2. ASSUME NEW g \in File
            PROVE  /\ cache'[g] # NoTree => /\ g \in known /\ cache'[g].cells \in Seq(Parser!Cell)
                                            /\ Parser!InSync(cache'[g], Bytes(rope[g]))
                   /\ memo'[g] # NoTree /\ g \notin stale' =>
                         memo'[g] = [source |-> Bytes(rope[g]), tree |-> Parser!Fresh(Bytes(rope[g]))]
        <4>1. CASE g = f
          <5>1. cache'[g] = tree /\ memo'[g] = ast
            BY <2>8, <4>1 DEF SInv
          <5> QED
            BY <2>1, <3>1, <4>1, <5>1
        <4>2. CASE g # f
          <5>1. cache'[g] = cache[g] /\ memo'[g] = memo[g] /\ (g \in stale' <=> g \in stale)
            BY <2>8, <4>2 DEF SInv
          <5>2. /\ cache[g] # NoTree => /\ g \in known /\ cache[g].cells \in Seq(Parser!Cell)
                                        /\ Parser!InSync(cache[g], Bytes(rope[g]))
                /\ memo[g] # NoTree /\ g \notin stale =>
                      memo[g] = [source |-> Bytes(rope[g]), tree |-> Parser!Fresh(Bytes(rope[g]))]
            BY DEF SInv, TreesInStep, Parser!MemoIsCurrent
          <5> QED
            BY <5>1, <5>2
        <4> QED
          BY <4>1, <4>2
      <3>3. TreesInStep'
        BY <2>2, <3>2 DEF TreesInStep, Parser!MemoIsCurrent
      <3> QED
        BY <2>6, <2>8, <3>3 DEF SInv
    <2> QED
      BY <2>3, <2>7, <2>8
  <1> QED
    BY <1>2, <1>3

LEMMA EditorSendsOnly == Editor => UNCHANGED <<reply, server>>
  BY DEF Editor, EditorOpen, EditorClose, EditorChange, EditorAsk, SendChanges, Send

LEMMA StepsKeepSInv == IInv /\ SInv /\ [Next]_vars => SInv'
  <1> SUFFICES ASSUME IInv, SInv, [Next]_vars
               PROVE  SInv'
    OBVIOUS
  <1>1. CASE Editor
    BY <1>1, EditorSendsOnly, SameSyntaxKeeps DEF server
  <1>2. CASE BeginChanges
    BY <1>2, SameSyntaxKeeps DEF BeginChanges
  <1>3. CASE Ignore
    BY <1>3, SameSyntaxKeeps DEF Ignore, server
  <1>4. CASE UNCHANGED vars
    BY <1>4, SameSyntaxKeeps DEF vars, server
  <1> QED
    BY <1>1, <1>2, <1>3, <1>4, OpenKeepsSyntax, ApplyChangeKeepsSyntax, RequestKeepsSyntax
       DEF Next, Server

LEMMA AlwaysSInv == Spec => [](IInv /\ SInv)
  <1>1. Init => IInv /\ SInv
    BY StartsInIInv, StartsInSInv
  <1>2. (IInv /\ SInv) /\ [Next]_vars => (IInv /\ SInv)'
    BY StepsKeepIInv, StepsKeepSInv
  <1> QED
    BY <1>1, <1>2, PTL DEF Spec

(* A response is about the buffer the user saw when asking: its source is   *)
(* that buffer's bytes, its tree that of a parse from scratch, its offset   *)
(* that of the place asked for, whatever the editor has sent before or since. *)
THEOREM ResponsesAsked == Spec => []AnswersAsked
  <1>1. SInv => AnswersAsked
    BY DEF SInv
  <1> QED
    BY <1>1, AlwaysSInv, PTL

-----------------------------------------------------------------------------
(* Refinement: to the syntax layer, a write of a rope is a Write of the     *)
(* abstract service, a request an Ask, and all else nothing.                *)

LEMMA WriteIsWrite ==
    ASSUME IInv, NEW f \in File, NEW r \in Seq(Char), SetRope(f, r)
    PROVE  Syntax!Write(f)
  <1>1. /\ rope' = [rope EXCEPT ![f] = r] /\ answer' = answer /\ rope \in [File -> Seq(Char)]
        /\ Bytes(r) \in Seq(ByteSet)
    BY BytesOf DEF SetRope, IInv, Typed
  <1>2. Texts' = [Texts EXCEPT ![f] = Bytes(r)]
    BY <1>1 DEF Texts
  <1>3. Texts'[f] = Bytes(r)
    BY <1>2 DEF Texts
  <1> QED
    BY <1>1, <1>2, <1>3 DEF Syntax!Write

LEMMA StepRefines ==
    ASSUME IInv, SInv, [Next]_vars
    PROVE  [Syntax!Next]_(Syntax!vars)
  <1>1. rope' = rope /\ answer' = answer => UNCHANGED Syntax!vars
    BY DEF Syntax!vars, Texts
  <1>2. CASE Editor
    BY <1>1, <1>2, EditorSendsOnly DEF server, syntax
  <1>3. CASE BeginChanges \/ Ignore \/ UNCHANGED vars
    BY <1>1, <1>3 DEF BeginChanges, Ignore, vars, server, syntax
  <1>4. CASE Open
    <2>1. inbox # <<>> /\ Head(inbox).kind = "didOpen"
      BY <1>4 DEF Open, Receive
    <2>2. Head(inbox) \in Messages
      BY <2>1, HeadAndTail DEF IInv, Typed
    <2>3. Head(inbox).file \in File /\ Head(inbox).text \in Seq(Char)
      BY <2>1, <2>2 DEF Messages
    <2>4. SetRope(Head(inbox).file, Head(inbox).text) \/ (rope' = rope /\ answer' = answer)
      BY <1>4 DEF Open, Reset, syntax
    <2> QED
      BY <1>1, <2>3, <2>4, WriteIsWrite DEF Syntax!Next
  <1>5. CASE ApplyChange
    <2>1. /\ rope' = [rope EXCEPT ![current] = Made(rope[current], Head(todo))]
          /\ Made(rope[current], Head(todo)) \in Seq(Char) /\ alive' = alive
      BY <1>5, AppliesWhatIsMeant
    <2>2. current \in File
      BY <1>5, FileAssumption DEF ApplyChange, IInv, Typed
    <2>3. \E r : SetRope(current, r)
      BY <1>5, <2>1 DEF ApplyChange, Reset, Panic
    <2>4. SetRope(current, Made(rope[current], Head(todo)))
      BY <2>1, <2>3 DEF SetRope
    <2> QED
      BY <2>1, <2>2, <2>4, WriteIsWrite DEF Syntax!Next
  <1>6. CASE Request
    <2> DEFINE f == Head(inbox).file
    <2>1. CASE Converts(f, Head(inbox).position)
      <3>1. f \in known /\ f \in File /\ rope' = rope /\ Parser!Parse(f)
        BY <1>6, <2>1, FileAssumption DEF Request, Converts, IInv, Typed
      <3>2. /\ answer' = [file |-> f, source |-> Bytes(rope[f]),
                          tree |-> Parser!Fresh(Bytes(rope[f]))]
            /\ Texts' = Texts /\ Texts[f] = Bytes(rope[f])
        BY <3>1, Parsed DEF Texts
      <3>3. Syntax!Ask(f)
        BY <3>2, SameOperators DEF Syntax!Ask
      <3> QED
        BY <3>1, <3>3 DEF Syntax!Next
    <2>2. CASE ~Converts(f, Head(inbox).position)
      BY <1>1, <1>6, <2>2 DEF Request, Panic, syntax
    <2> QED
      BY <2>1, <2>2
  <1> QED
    BY <1>2, <1>3, <1>4, <1>5, <1>6 DEF Next, Server

(* However the editor drives it, the syntax layer implements the abstract   *)
(* service: the trees handed out are those of parses from scratch of the    *)
(* texts of that moment.                                                    *)
THEOREM SyntaxRefines == Spec => SyntaxSpec
  <1>1. Init => Syntax!Init
    <2> SUFFICES ASSUME Init
                 PROVE  Syntax!Init
      OBVIOUS
    <2>1. rope \in [File -> Seq(Char)]
      BY StartsInIInv DEF IInv, Typed
    <2>2. Texts \in [File -> Seq(ByteSet)]
      BY <2>1, BytesOf DEF Texts
    <2> QED
      BY <2>2 DEF Init, Syntax!Init
  <1> QED
    BY <1>1, AlwaysSInv, StepRefines, PTL DEF Spec, Syntax!Spec, SyntaxSpec
=============================================================================
