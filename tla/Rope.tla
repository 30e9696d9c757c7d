-------------------------------- MODULE Rope --------------------------------
(***************************************************************************)
(* The texts of the server (ropes) and the three ways of counting in them: *)
(* characters (rope indices), bytes (the parser) and UTF-16 code units     *)
(* within a line (the editor's positions).                                 *)
(*                                                                         *)
(* A rope is a sequence of characters.  A character is a model value with  *)
(* a length in bytes and in UTF-16 code units.                             *)
(***************************************************************************)
EXTENDS Integers, Sequences, FiniteSets

CONSTANTS
    Char,     \* the characters
    LF,       \* the one that ends a line
    ByteLen,  \* a character's length in UTF-8
    Utf16Len  \* a character's length in UTF-16

ASSUME CharAssumption == /\ LF \in Char
                         /\ ByteLen \in [Char -> 1 .. 4] /\ ByteLen[LF] = 1
                         /\ Utf16Len \in [Char -> 1 .. 2] /\ Utf16Len[LF] = 1

(* A byte is a place in the encoding of a character. *)
Bytes(r) ==
    LET B[n \in 0 .. Len(r)] ==
          IF n = 0 THEN <<>> ELSE B[n - 1] \o [k \in 1 .. ByteLen[r[n]] |-> <<r[n], k>>]
    IN  B[Len(r)]
ByteSet == {<<c, k>> : c \in Char, k \in 1 .. 4}
LFByte == <<LF, 1>>

(* Mutant: a character index taken for a byte offset. *)
CharToByteSame(r, idx) == idx

(* char_to_byte: how many bytes the first idx characters have. *)
CharToByte(r, idx) == Cardinality({x \in (1 .. idx) \X (1 .. 4) : x[2] <= ByteLen[r[x[1]]]})

(* remove, then insert: the characters between two indices replaced by ins. *)
Replaced(r, start, end, ins) == SubSeq(r, 1, start) \o ins \o SubSeq(r, end + 1, Len(r))

(* The code units of the characters of r between the indices from and to. *)
Utf16Units(r, from, to) ==
    Cardinality({x \in ((from + 1) .. to) \X (1 .. 2) : x[2] <= Utf16Len[r[x[1]]]})

(* The character indices at which the lines of r start. *)
LineStarts(r) == {0} \cup {i \in 1 .. Len(r) : r[i] = LF}

(* line_to_char *)
LineToChar(r, line) ==
    CHOOSE n \in LineStarts(r) : Cardinality({m \in LineStarts(r) : m < n}) = line

(* The index after the last character of a line, its line feed included. *)
LineEnd(r, line) == IF line + 1 = Cardinality(LineStarts(r)) THEN Len(r)
                    ELSE LineToChar(r, line + 1)

(* Positions line, utf16_cu_to_char and line_to_char answer without a panic. *)
IsPosition(r, pos) ==
    /\ pos.line < Cardinality(LineStarts(r))
    /\ pos.character <= Utf16Units(r, LineToChar(r, pos.line), LineEnd(r, pos.line))

(* Mutant: the editor's column taken for a number of characters. *)
ToRopeIdxByChars(r, pos) == LineToChar(r, pos.line) + pos.character

(* to_rope_idx: the line's start, and in it the last character that starts  *)
(* no further than the given code unit.                                     *)
ToRopeIdx(r, pos) ==
    LET start == LineToChar(r, pos.line)
    IN  CHOOSE n \in start .. LineEnd(r, pos.line) :
           /\ Utf16Units(r, start, n) <= pos.character
           /\ n < LineEnd(r, pos.line) => Utf16Units(r, start, n + 1) > pos.character

-----------------------------------------------------------------------------
(* What the editor means by a position: the one of the boundary before the  *)
(* character at index idx (external: the Language Server Protocol).         *)
PositionAt(r, idx) ==
    LET starts == {n \in LineStarts(r) : n <= idx}
        start  == CHOOSE n \in starts : \A m \in starts : m <= n
    IN  [line |-> Cardinality(starts) - 1, character |-> Utf16Units(r, start, idx)]
=============================================================================
