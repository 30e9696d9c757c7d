----------------------------- MODULE TreeSitter -----------------------------
(***************************************************************************)
(* Texts, edits and syntax trees, as far as incremental re-parsing is      *)
(* concerned.                                                              *)
(*                                                                         *)
(* A text is a sequence of bytes.  A syntax tree is abstracted to what     *)
(* re-parsing can get wrong: for every byte of the text the tree covers,   *)
(* the byte it was built from, or Dirty when an edit has marked the        *)
(* subtree holding it for re-lexing; and the row and column at which the   *)
(* tree ends.  The tree of a text parsed from scratch is Fresh(text).      *)
(*                                                                         *)
(* Edit and Reparse model the tree-sitter library, which is not part of    *)
(* this repository, from the way the server calls it: Tree::edit shifts    *)
(* what follows the edit and marks the edited range, and a parse that is   *)
(* given an old tree trusts every subtree that is not marked.  The server  *)
(* is responsible for both being told the truth.                           *)
(***************************************************************************)
EXTENDS Integers, Sequences, FiniteSets

CONSTANTS
    Byte,   \* the bytes a text is made of
    NL,     \* the byte that ends a line
    Dirty   \* the mark of a byte to be re-lexed

ASSUME NLAssumption == NL \in Byte
ASSUME DirtyAssumption == Dirty \notin Byte

(* The sequence s with its elements after position from, up to to, replaced *)
(* by ins.  Positions are offsets, as in the code: 0 .. Len(s).             *)
Splice(s, from, to, ins) ==
    [i \in 1 .. (Len(s) - (to - from) + Len(ins)) |->
        IF i <= from THEN s[i]
        ELSE IF i <= from + Len(ins) THEN ins[i - from]
        ELSE s[i - Len(ins) + (to - from)]]

(* byte_to_point: the row, and the offset in that row, of byte offset b.    *)
LineStart(t, b) ==
    CHOOSE n \in 0 .. b : /\ n = 0 \/ t[n] = NL
                          /\ \A i \in (n + 1) .. b : t[i] # NL

PointOf(t, b) ==
    [row    |-> Cardinality({i \in 1 .. b : t[i] = NL}),
     column |-> b - LineStart(t, b)]

Fresh(t) == [cells |-> t, extent |-> PointOf(t, Len(t))]

(* Mutant: the point after the inserted text is looked up in the old rope. *)
InputEditOldPoint(old, new, start, oldEnd, ins) ==
    [start |-> start, oldEnd |-> oldEnd, newEnd |-> start + Len(ins),
     oldEndPoint |-> PointOf(old, oldEnd),
     newEndPoint |-> PointOf(old, oldEnd)]

(* Mutant: new_end_byte does not count the inserted text. *)
InputEditOldEnd(old, new, start, oldEnd, ins) ==
    [start |-> start, oldEnd |-> oldEnd, newEnd |-> oldEnd,
     oldEndPoint |-> PointOf(old, oldEnd),
     newEndPoint |-> PointOf(new, start + Len(ins))]

(* tree_sitter::InputEdit, built for replacing the bytes from start to      *)
(* oldEnd of old by ins, giving new.                                        *)
InputEdit(old, new, start, oldEnd, ins) ==
    [start |-> start, oldEnd |-> oldEnd, newEnd |-> start + Len(ins),
     oldEndPoint |-> PointOf(old, oldEnd),
     newEndPoint |-> PointOf(new, start + Len(ins))]

(* The point at distance p - from of the point to: the column only carries  *)
(* over when p is on the row of from.                                       *)
Shift(p, from, to) ==
    [row    |-> to.row + (p.row - from.row),
     column |-> IF p.row = from.row THEN to.column + (p.column - from.column)
                ELSE p.column]

(* Tree::edit *)
Edit(tree, edit) ==
    [cells  |-> Splice(tree.cells, edit.start, edit.oldEnd,
                       [i \in 1 .. (edit.newEnd - edit.start) |-> Dirty]),
     extent |-> Shift(tree.extent, edit.oldEndPoint, edit.newEndPoint)]

(* Parser::parse_with_options with an old tree *)
Reparse(old, t) ==
    [cells  |-> [i \in 1 .. Len(t) |->
                    IF i <= Len(old.cells) /\ old.cells[i] # Dirty
                    THEN old.cells[i] ELSE t[i]],
     extent |-> PointOf(t, Len(t))]
=============================================================================
