----------------------------- MODULE AstService -----------------------------
(***************************************************************************)
(* What the syntax layer of the server promises its callers: the text of a *)
(* file may be replaced at any time, and the tree a caller is given is the *)
(* tree a parse from scratch of the text of that moment would build.       *)
(* Nothing is said of caches or of edits.                                  *)
(***************************************************************************)
EXTENDS TreeSitter

CONSTANTS
    File,     \* the files of the workspace
    NoAnswer  \* no query has been answered yet

VARIABLES
    text,     \* the text of every file
    answer    \* the last tree handed out, and the file it was asked for

vars == <<text, answer>>

Init == /\ text \in [File -> Seq(Byte)]
        /\ answer = NoAnswer

Write(f) == /\ text'[f] \in Seq(Byte)
            /\ text' = [text EXCEPT ![f] = text'[f]]
            /\ UNCHANGED answer

Ask(f) == /\ answer' = [file |-> f, source |-> text[f], tree |-> Fresh(text[f])]
          /\ UNCHANGED text

Next == \E f \in File : Write(f) \/ Ask(f)

Spec == Init /\ [][Next]_vars
=============================================================================
