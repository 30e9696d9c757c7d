---------------------------- MODULE WorkspaceLoad ----------------------------
(***************************************************************************)
(* What load_workspace promises its caller: one answer, which holds the    *)
(* source roots of one discovery, all of them and in order, each with      *)
(* those of its files that could be read.  Nothing is said of threads or   *)
(* messages.                                                               *)
(***************************************************************************)
EXTENDS Integers, Sequences

CONSTANTS
    Path,      \* the paths of Solidity files
    Layouts    \* what discovery may find: for each source root, its files

VARIABLES
    status,    \* whether load_workspace is running or has returned
    roots      \* what it has returned

vars == <<status, roots>>

(* files are some of the first n of all, in the same order. *)
SomeOf(files, all, n) ==
    \E m \in [1 .. Len(files) -> 1 .. n] :
        /\ \A i \in 1 .. Len(files) : files[i] = all[m[i]]
        /\ \A i, j \in 1 .. Len(files) : i < j => m[i] < m[j]

(* What may be loaded of one source root, and of all. *)
LoadOf(bundle, r, l) == /\ bundle.kind = "bundle" /\ bundle.root = r
                        /\ SomeOf(bundle.files, l[r], Len(l[r]))
LoadsOf(bundles, l) == /\ Len(bundles) = Len(l)
                       /\ \A r \in 1 .. Len(l) : LoadOf(bundles[r], r, l)

Init == status = "loading" /\ roots = <<>>

Load == /\ status = "loading" /\ status' = "returned"
        /\ \E l \in Layouts : LoadsOf(roots', l)

Spec == Init /\ [][Load]_vars
=============================================================================
