--------------------------- MODULE ImportResolver ---------------------------
(***************************************************************************)
(* Import resolution of a source root (Collector::resolve_imports and      *)
(* resolve of ir/def_map.rs): a depth-first walk over the import graph     *)
(* that copies scopes, names and global using directives from imported to  *)
(* importing files, and has to come to terms with import cycles.           *)
(*                                                                         *)
(* The recursion is a stack of frames.  Every file defines one symbol and  *)
(* has one global using directive of its own, both named after the file.   *)
(* A vector of scopes is kept as the set of the files the scopes are of:   *)
(* its order only decides between symbols of the same name.  The vector of *)
(* a file's unresolved imports only ever loses elements: it is kept as the *)
(* set of the positions left, and walked in their order.                   *)
(***************************************************************************)
EXTENDS Naturals, SequencesExt

CONSTANTS
    File,        \* the files of the source root
    Foreign,     \* files of other roots, whose own DefMaps are complete
    Missing,     \* an import path that resolves to no file
    Graphs       \* the import directives the files may consist of

(* An import directive: of everything (a namespace import brings as little  *)
(* as a named one that finds nothing), or of a symbol.                      *)
Imports == [kind : {"full"}, dep : File \cup Foreign \cup {Missing}]
           \cup [kind : {"named"}, dep : File \cup Foreign \cup {Missing},
                 symbol : File \cup Foreign]

ASSUME GraphsAssumption == /\ File \cap Foreign = {} /\ Missing \notin File \cup Foreign
                                /\ \A g \in Graphs : g \in [File -> Seq(Imports)]

VARIABLES
    imports,     \* the directives of every file, as lowered
    unresolved,  \* unresolved_imports: the files left, and which of their directives
    stack,       \* the calls of resolve under way, the innermost last
    chain,       \* the set handed down through them
    imported,    \* FileData.imported_scopes
    names,       \* the names in a file's own scope
    usings,      \* the global using directives in a file's own scope
    panicked     \* the assertion of resolve_imports has failed

scopes == <<imported, names, usings>>
vars == <<imports, unresolved, stack, chain, scopes, panicked>>

(* A call of resolve: the directives it took from the map, those it has     *)
(* still to look at, the imports it resolved, the cycle it found.           *)
Frame(f) == [file |-> f, taken |-> unresolved[f], todo |-> unresolved[f],
             resolved |-> {}, cycle |-> {}]

Init == /\ imports \in Graphs
        /\ unresolved = [f \in {g \in File : imports[g] # <<>>} |-> DOMAIN imports[f]]
        /\ stack = <<>>
        /\ chain = {}
        /\ imported = [f \in File |-> {}]
        /\ names = [f \in File |-> {f}]
        /\ usings = [f \in File |-> {f}]
        /\ panicked = FALSE

Unresolved == DOMAIN unresolved

(* Mutant: a file's directives are copied, not taken. *)
TakeCopy(f) == UNCHANGED unresolved

(* mem::take leaves a file's entry behind, empty. *)
Take(f) == unresolved' = [unresolved EXCEPT ![f] = {}]

-----------------------------------------------------------------------------
(* What an importing file sees of a file: names in its own scope, then in   *)
(* the scopes it has imported.                                              *)
Names(g) == IF g \in File THEN names[g] ELSE {g}
ImportedBy(g) == IF g \in File THEN imported[g] ELSE {}
Usings(g) == IF g \in File THEN usings[g] ELSE {g}
Visible(g) == Names(g) \cup UNION {Names(h) : h \in ImportedBy(g)}

(* Mutant: a named import brings the whole file. *)
ExtendAlways(f, import) ==
    /\ imported' = [imported EXCEPT ![f] = @ \cup {import.dep} \cup ImportedBy(import.dep)]
    /\ names' = IF import.kind = "named" /\ import.symbol \in Visible(import.dep)
                THEN [names EXCEPT ![f] = @ \cup {import.symbol}] ELSE names
    /\ usings' = [usings EXCEPT ![f] = @ \cup Usings(import.dep)]

(* Mutant: a name is only looked up in the imported file's own scope. *)
ExtendOwnNames(f, import) ==
    /\ imported' = IF import.kind = "full"
                   THEN [imported EXCEPT ![f] = @ \cup {import.dep} \cup ImportedBy(import.dep)]
                   ELSE imported
    /\ names' = IF import.kind = "named" /\ import.symbol \in Names(import.dep)
                THEN [names EXCEPT ![f] = @ \cup {import.symbol}] ELSE names
    /\ usings' = [usings EXCEPT ![f] = @ \cup Usings(import.dep)]

(* extend_scope, and extend_global_usings at its end *)
Extend(f, import) ==
    /\ imported' = IF import.kind = "full"
                   THEN [imported EXCEPT ![f] = @ \cup {import.dep} \cup ImportedBy(import.dep)]
                   ELSE imported
    /\ names' = IF import.kind = "named" /\ import.symbol \in Visible(import.dep)
                THEN [names EXCEPT ![f] = @ \cup {import.symbol}] ELSE names
    /\ usings' = [usings EXCEPT ![f] = @ \cup Usings(import.dep)]

-----------------------------------------------------------------------------
Top == stack[Len(stack)]
First(todo) == CHOOSE k \in todo : \A l \in todo : k <= l
At(frame) == imports[frame.file][First(frame.todo)]
Import == At(Top)
Below == Front(stack)

(* The top frame is done with its first directive. *)
Done(frame) == [frame EXCEPT !.todo = @ \ {First(@)}]

(* resolve_imports: any unresolved file may come first out of the hash map. *)
Start(f) ==
    /\ stack = <<>> /\ ~panicked /\ f \in Unresolved
    /\ chain' = {f}
    /\ stack' = <<Frame(f)>>
    /\ Take(f)
    /\ UNCHANGED <<imports, scopes, panicked>>

HasImport == stack # <<>> /\ Top.todo # {} /\ ~panicked

(* resolve_to_file finds nothing *)
SkipMissing ==
    /\ HasImport /\ Import.dep = Missing
    /\ stack' = Append(Below, Done(Top))
    /\ UNCHANGED <<imports, unresolved, chain, scopes, panicked>>

(* A file of another root, or one of this root that is resolved already *)
CopyResolved ==
    /\ HasImport /\ Import.dep \in (File \cup Foreign) \ Unresolved
    /\ Extend(Top.file, Import)
    /\ stack' = Append(Below, [Done(Top) EXCEPT !.resolved = @ \cup {Import.dep}])
    /\ UNCHANGED <<imports, unresolved, chain, panicked>>

(* A file not met before in this chain: resolve it first *)
Descend ==
    /\ HasImport /\ Import.dep \in Unresolved \ chain
    /\ chain' = chain \cup {Import.dep}
    /\ stack' = Append(stack, Frame(Import.dep))
    /\ Take(Import.dep)
    /\ UNCHANGED <<imports, scopes, panicked>>

(* A file in the chain: nothing is copied, and the call is part of a cycle *)
MeetCycle ==
    /\ HasImport /\ Import.dep \in Unresolved \cap chain
    /\ stack' = Append(Below, [Done(Top) EXCEPT !.cycle = @ \cup {Import.dep}])
    /\ UNCHANGED <<imports, unresolved, chain, scopes, panicked>>

(* Mutant: a file is also held up by the cycles it closes itself. *)
RemainingAll(frame) == frame.cycle

(* Resolver::resolve: the cycles a call is part of go on without its file. *)
Remaining(frame) == frame.cycle \ {frame.file}

Finish(f) == /\ unresolved' = [g \in Unresolved \ {f} |-> unresolved[g]]
             /\ chain' = chain \ {f}
PutBack(frame) == /\ unresolved' = [unresolved EXCEPT ![frame.file] =
                         {k \in frame.taken : imports[frame.file][k].dep \notin frame.resolved}]
                  /\ UNCHANGED chain

(* Mutant: a file that is part of a cycle is not put back. *)
LeaveForgetting(frame) == Finish(frame.file)

(* Mutant: a finished file is not removed from the map. *)
LeaveUnfinished(frame) ==
    IF Remaining(frame) = {} THEN UNCHANGED <<unresolved, chain>> ELSE PutBack(frame)

(* The end of a call: with no cycle left the file is finished, else it      *)
(* keeps the directives it has not resolved.                                *)
Leave(frame) == IF Remaining(frame) = {} THEN Finish(frame.file) ELSE PutBack(frame)

(* The caller merges the cycles, and copies from the file either way. *)
Return ==
    /\ stack # <<>> /\ Top.todo = {} /\ ~panicked
    /\ Leave(Top)
    /\ LET left == Remaining(Top)
           caller == Below[Len(Below)]
       IN  \/ /\ Len(stack) = 1
              /\ panicked' = (left # {})
              /\ stack' = <<>>
              /\ UNCHANGED scopes
           \/ /\ Len(stack) > 1
              /\ Extend(caller.file, At(caller))
              /\ stack' = Append(Front(Below),
                    [Done(caller) EXCEPT !.cycle = @ \cup left,
                                         !.resolved = IF left = {} THEN @ \cup {Top.file} ELSE @])
              /\ UNCHANGED panicked
    /\ UNCHANGED imports

Next == \/ \E f \in File : Start(f)
        \/ SkipMissing \/ CopyResolved \/ Descend \/ MeetCycle \/ Return

Spec == Init /\ [][Next]_vars /\ WF_vars(Next)

-----------------------------------------------------------------------------
(* Properties *)

Finished == stack = <<>> /\ Unresolved = {} /\ ~panicked

(* Types, and how map, stack and chain belong together: a file is being     *)
(* resolved at most once, then it is in the chain and its entry is empty;   *)
(* what is left of an entry are directives of that file.                    *)
Files == File \cup Foreign
OnStack == {stack[k].file : k \in DOMAIN stack}
TypeOK ==
    /\ Unresolved \subseteq {f \in File : imports[f] # <<>>}
    /\ \A f \in Unresolved : unresolved[f] \subseteq DOMAIN imports[f]
    /\ imported \in [File -> SUBSET Files] /\ names \in [File -> SUBSET Files]
    /\ usings \in [File -> SUBSET Files] /\ panicked \in BOOLEAN
    /\ \A k, l \in DOMAIN stack : stack[k].file = stack[l].file => k = l
    /\ OnStack \subseteq Unresolved \cap chain
    /\ \A f \in OnStack : unresolved[f] = {}

(* The import graph.  Closed(kinds) are the sets of files that no import of *)
(* these kinds leaves, Reach(f, closed) is the least of them with f in it:  *)
(* what f leads to, itself included.                                        *)
Closed(kinds) ==
    {S \in SUBSET Files : \A f \in S \cap File : \A i \in ToSet(imports[f]) :
        i.kind \in kinds /\ i.dep # Missing => i.dep \in S}
Reach(f, closed) == {g \in Files : \A S \in closed : f \in S => g \in S}
Ring(f, closed) == {g \in File : g \in Reach(f, closed) /\ f \in Reach(g, closed)}
Acyclic == LET closed == Closed({"full", "named"})
           IN  \A f \in File : Ring(f, closed) = {f}

(* At no moment does a file see a scope that no chain of imports of         *)
(* everything leads to, or a global using directive of a file that no chain *)
(* of imports leads to.                                                     *)
Sound == LET full == Closed({"full"})
             any  == Closed({"full", "named"})
         IN  \A f \in File : /\ imported[f] \subseteq Reach(f, full)
                             /\ usings[f] \subseteq Reach(f, any)

(* Unless it panics, resolution leaves every file with all the scopes and   *)
(* all the global using directives its imports lead to, around cycles too   *)
(* and whichever file the walk starts from: the files of a cycle share one  *)
(* global scope, as the comment above resolve_imports has it.               *)
Complete ==
    Finished => LET full == Closed({"full"})
                    any  == Closed({"full", "named"})
                IN  \A f \in File : /\ {f} \cup imported[f] = Reach(f, full)
                                    /\ usings[f] = Reach(f, any)

(* Without cycles of several files, a named import finds a symbol that the  *)
(* imported file, another than its own, defines, imports by name itself, or *)
(* sees through imports of everything.                                      *)
Offers(g, closed) == UNION {Names(h) : h \in Reach(g, closed)}
NamesFound ==
    Finished /\ Acyclic =>
        LET full == Closed({"full"})
        IN  \A f \in File : \A i \in ToSet(imports[f]) :
                i.kind = "named" /\ i.dep \notin {Missing, f} /\ i.symbol \in Offers(i.dep, full)
                    => i.symbol \in names[f]

(* The assertion can only fail over a file of which two directives lead to  *)
(* one and the same ring of files: import graphs without cycles, and rings  *)
(* that no file has two ways into, are resolved whichever file the walk     *)
(* starts from.                                                             *)
LeadsTo(i, closed) == IF i.dep = Missing THEN {} ELSE Reach(i.dep, closed)
TwoWaysIntoARing ==
    LET any == Closed({"full", "named"})
    IN  \E f \in File : \E k, l \in DOMAIN imports[f] :
           /\ k # l
           /\ \E g \in LeadsTo(imports[f][k], any) \cap LeadsTo(imports[f][l], any) :
                 Ring(g, any) \notin {{}, {g}}
PanicsNarrow == panicked => TwoWaysIntoARing

(* Resolution comes to an end. *)
Terminates == <>(Finished \/ panicked)

(* "Solidity also supports cyclic imports" (comment above resolve_imports): *)
(* the walk copes with every import graph, as its assertion claims.         *)
CyclesResolved == ~panicked
=============================================================================
