-------------------------- MODULE IncrementalParser --------------------------
(***************************************************************************)
(* Incremental re-parsing (salsa/incremental_parser.rs), the two ways the  *)
(* text of a file is written (update and reset of salsa/db.rs) and the     *)
(* memoised parse query (salsa/root_db.rs).                                *)
(*                                                                         *)
(* The text of a file is a salsa input, and salsa knows which memos depend *)
(* on it.  The parser's cache of old trees is not: the parse query reads   *)
(* it behind salsa's back ("untracked state" in root_db.rs), so nothing    *)
(* but the discipline of update and reset keeps it in step with the text.  *)
(***************************************************************************)
EXTENDS TreeSitter

CONSTANTS
    File,      \* the files of the workspace
    MaxLen,    \* bound: the length of a text, in bytes
    MaxIns,    \* bound: the length of the text one edit inserts
    NoTree,    \* the cache or the memo holds nothing for the file
    NoAnswer   \* no query has been answered yet

ASSUME MaxLenAssumption == MaxLen \in Nat
ASSUME MaxInsAssumption == MaxIns \in Nat

VARIABLES
    text,      \* salsa input: the text of every file
    cache,     \* IncrementalParser.cache: the tree to re-parse from
    memo,      \* salsa's memo of the parse query: a tree and its source
    stale,     \* the files whose text was written since their memo was made
    answer     \* the last Ast handed out by the parse query

vars == <<text, cache, memo, stale, answer>>

TextUpTo(len) == UNION {[1 .. n -> Byte] : n \in 0 .. len}
Text == TextUpTo(MaxLen)

Init == /\ text \in [File -> Text]
        /\ cache = [f \in File |-> NoTree]
        /\ memo = [f \in File |-> NoTree]
        /\ stale = {}
        /\ answer = NoAnswer

(* The setter of a salsa input: the new value, and every memo that read the *)
(* old one is out of date.                                                  *)
SetText(f, t) == /\ text' = [text EXCEPT ![f] = t]
                 /\ stale' = stale \cup {f}

(* Mutant: the old tree is offered to the next parse as it is. *)
EditNothing(f, edit) == UNCHANGED cache

(* IncrementalParser::update *)
EditCache(f, edit) ==
    cache' = IF cache[f] = NoTree THEN cache
             ELSE [cache EXCEPT ![f] = Edit(@, edit)]

(* Mutant: the old tree survives a change of the whole text. *)
InvalidateNothing(f) == UNCHANGED cache

(* IncrementalParser::invalidate *)
Invalidate(f) == cache' = [cache EXCEPT ![f] = NoTree]

(* One ranged change of apply_changes, and SalsaDatabase::update *)
Update(f, start, oldEnd, ins) ==
    LET new == Splice(text[f], start, oldEnd, ins)
    IN  /\ SetText(f, new)
        /\ EditCache(f, InputEdit(text[f], new, start, oldEnd, ins))
        /\ UNCHANGED <<memo, answer>>

(* SalsaDatabase::reset: a file opened, or changed as a whole *)
Reset(f, t) == /\ SetText(f, t)
               /\ Invalidate(f)
               /\ UNCHANGED <<memo, answer>>

(* IncrementalParser::parse: the tree for the text of f *)
NewTree(f) == IF cache[f] = NoTree THEN Fresh(text[f]) ELSE Reparse(cache[f], text[f])

Answer(f, ast) == [file |-> f, source |-> ast.source, tree |-> ast.tree]

MemoIsCurrent(f) == memo[f] # NoTree /\ f \notin stale

(* The parse query: the memo when it is current, else a new parse, which is *)
(* both memoised and left in the parser's cache.                            *)
Parse(f) ==
    \/ /\ MemoIsCurrent(f)
       /\ answer' = Answer(f, memo[f])
       /\ UNCHANGED <<text, cache, memo, stale>>
    \/ /\ ~MemoIsCurrent(f)
       /\ LET ast == [source |-> text[f], tree |-> NewTree(f)]
          IN  /\ cache' = [cache EXCEPT ![f] = ast.tree]
              /\ memo' = [memo EXCEPT ![f] = ast]
              /\ answer' = Answer(f, ast)
       /\ stale' = stale \ {f}
       /\ UNCHANGED text

Edits(t) == {e \in (0 .. MaxLen) \X (0 .. MaxLen) \X TextUpTo(MaxIns) :
                /\ e[1] <= e[2] /\ e[2] <= Len(t)
                /\ Len(t) - (e[2] - e[1]) + Len(e[3]) <= MaxLen}

Change(f) == \E e \in Edits(text[f]) : Update(f, e[1], e[2], e[3])
Replace(f) == \E t \in Text : Reset(f, t)

Next == \E f \in File : Change(f) \/ Replace(f) \/ Parse(f)

Spec == Init /\ [][Next]_vars

-----------------------------------------------------------------------------
(* Properties *)

(* Types: texts stay within Text whatever the edits, trees cover bytes and  *)
(* marks only, and no memo or mark exists of a file that is not there.      *)
Cell == Byte \cup {Dirty}
TypeOK ==
    /\ text \in [File -> Text]
    /\ DOMAIN cache = File /\ DOMAIN memo = File
    /\ \A f \in File : cache[f] # NoTree => cache[f].cells \in Seq(Cell)
    /\ \A f \in File : memo[f] # NoTree => memo[f].source \in Text
    /\ stale \subseteq File

(* The cached tree of a file covers exactly the file's current text: it has *)
(* a cell per byte, and a cell that is not marked for re-lexing was built   *)
(* from the byte that is there now.  This is what root_db.rs means by the   *)
(* untracked data being kept in sync: the next parse trusts such cells.     *)
InSync(tree, t) == /\ Len(tree.cells) = Len(t)
                   /\ \A i \in 1 .. Len(t) : tree.cells[i] \in {Dirty, t[i]}

CacheInSync == \A f \in File : cache[f] # NoTree => InSync(cache[f], text[f])

(* The end of the cached tree in rows and columns is where the text ends:   *)
(* the points update puts in an InputEdit belong to the right ropes, the    *)
(* old one for the range replaced and the new one for its replacement.      *)
ExtentInSync == \A f \in File : cache[f] # NoTree =>
                    cache[f].extent = PointOf(text[f], Len(text[f]))

(* A memo salsa would return is a parse from scratch of the current text,   *)
(* although it was built by re-parsing from a cache salsa does not track.   *)
MemoInSync == \A f \in File : MemoIsCurrent(f) =>
                 memo[f] = [source |-> text[f], tree |-> Fresh(text[f])]

(* Whatever the cache holds, what a caller sees is the abstract service.    *)
Service == INSTANCE AstService
ServiceSpec == Service!Spec
=============================================================================
