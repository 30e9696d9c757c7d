---------------------------- MODULE FileRegistry ----------------------------
(***************************************************************************)
(* The registry of files (salsa/files.rs), from the source roots discovery *)
(* finds, and the queries that depend on it: root_def_map of a source root *)
(* resolves the imports of its files to files (resolve_to_file,            *)
(* resolve_import) and asks for the maps of the source roots these are in. *)
(*                                                                         *)
(* The registry's maps and the disk are not inputs of salsa: a map is made *)
(* again only when the files of its source root, one of their item trees   *)
(* or a map it asked for has changed.                                      *)
(*                                                                         *)
(* The text of a file is the set of its imports.  An edit that leaves them *)
(* alone stands for all that leave the item tree alone.                    *)
(***************************************************************************)
EXTENDS PackageGraph

CONSTANTS
    MaxWrites  \* bound: changes to files after loading

ASSUME MaxWritesAssumption == MaxWrites \in Nat

(* A world also says                                                        *)
(*   text    what the files on disk import                                  *)
(*   paths   bound: the paths the editor opens                              *)
(*   texts   bound: the texts it may give a file                            *)

(* The paths files go by lie below no link.                                 *)
FilePaths(w) == w.sol \cup {Resolved(w.link, p) : p \in w.paths}
ASSUME PathsAssumption ==
    \A w \in Worlds : \A p \in FilePaths(w) :
        p \in Path /\ \A l \in DOMAIN w.link : ~IsPrefix(l, p)

VARIABLES
    disk,      \* the Solidity files on disk
    inputs,    \* the File inputs, in the order of their creation
    file,      \* Files.file: the input registered for a path
    rootFiles, \* SourceRoot.files, as sets
    memo,      \* salsa's memo of root_def_map, for every source root
    outdated,  \* those with a change in what their memo was made from
    verified,  \* those verified since the last write
    status,    \* "discovering", "serving", or why the server has panicked
    writes

registry == <<inputs, file, rootFiles>>
queries == <<memo, outdated, verified>>
vars == <<discoveryVars, disk, registry, queries, status, writes>>

Root == DOMAIN roots
Discovering == /\ status = "discovering" /\ Discover
               /\ UNCHANGED <<disk, registry, queries, status, writes>>

-----------------------------------------------------------------------------
(* Files::new.  The files of a source root are registered in no known       *)
(* order, those of a later one after those of an earlier.                   *)
InRootOrder(S) == CHOOSE s \in SetToSeqs(S) :
                     \A i, j \in DOMAIN s : i < j => s[i].root <= s[j].root

Load ==
    /\ status = "discovering" /\ Discovered
    /\ LET all == InRootOrder({[path |-> x[2], root |-> x[1], text |-> world.text[x[2]],
                                onDisk |-> TRUE, atStart |-> TRUE] :
                                    x \in {y \in Root \X world.sol : y[2] \in roots[y[1]].files}})
           Of(path) == {i \in DOMAIN all : all[i].path = path}
       IN  /\ inputs' = all
           /\ file' = [path \in {all[i].path : i \in DOMAIN all} |-> Max(Of(path))]
           /\ rootFiles' = [r \in Root |-> {i \in DOMAIN all : all[i].root = r}]
    /\ memo' = [r \in Root |-> None] /\ outdated' = Root /\ verified' = {}
    /\ status' = "serving"
    /\ UNCHANGED <<discoveryVars, disk, writes>>

-----------------------------------------------------------------------------
(* The editor's changes *)

(* Mutant: the first source root around the path. *)
SourceRootFirst(path) ==
    LET around == {r \in Root : IsPrefix(roots[r].root, path)}
    IN  IF around = {} THEN None ELSE Min(around)

(* The innermost source root around a path, the last of those equally deep. *)
SourceRootForPath(path) ==
    LET around == {r \in Root : IsPrefix(roots[r].root, path)}
        Depth(r) == Len(roots[r].root)
        deepest == {r \in around : \A q \in around : Depth(q) <= Depth(r)}
    IN  IF around = {} THEN None ELSE Max(deepest)

(* A new revision, in which nothing is verified yet. *)
SetText(i, text) ==
    /\ inputs' = [inputs EXCEPT ![i].text = text]
    /\ outdated' = outdated \cup {r \in Root : i \in rootFiles[r] /\ inputs[i].text # text}
    /\ verified' = {}
    /\ UNCHANGED <<file, rootFiles, memo>>

(* Mutant: the source root's list of files is left as it is. *)
InsertFileOnly(path, text, r) ==
    /\ inputs' = Append(inputs, [path |-> path, root |-> r, text |-> text,
                                 onDisk |-> path \in disk, atStart |-> FALSE])
    /\ file' = [p \in DOMAIN file \cup {path} |-> IF p = path THEN Len(inputs) + 1 ELSE file[p]]
    /\ verified' = {}
    /\ UNCHANGED <<rootFiles, outdated, memo>>

InsertFile(path, text, r) ==
    /\ inputs' = Append(inputs, [path |-> path, root |-> r, text |-> text,
                                 onDisk |-> path \in disk, atStart |-> FALSE])
    /\ file' = [p \in DOMAIN file \cup {path} |-> IF p = path THEN Len(inputs) + 1 ELSE file[p]]
    /\ rootFiles' = [rootFiles EXCEPT ![r] = @ \cup {Len(inputs) + 1}]
    /\ outdated' = outdated \cup {r}
    /\ verified' = {}
    /\ UNCHANGED memo

Serving == status = "serving"
Writing == Serving /\ writes < MaxWrites /\ writes' = writes + 1

(* Mutant: a path is taken as the editor writes it. *)
NormalizeNothing(as) == as

NormalizePath(as) == Canon(as)

(* Files of no source root are left out. *)
Open(as, text) ==
    LET path == NormalizePath(as) IN
    /\ Writing
    /\ \/ path \in DOMAIN file /\ SetText(file[path], text)
       \/ /\ path \notin DOMAIN file /\ SourceRootForPath(path) # None
          /\ InsertFile(path, text, SourceRootForPath(path))
       \/ /\ path \notin DOMAIN file /\ SourceRootForPath(path) = None
          /\ UNCHANGED <<registry, queries>>
    /\ UNCHANGED <<discoveryVars, disk, status>>

ApplyChanges(as, text) ==
    /\ Writing
    /\ NormalizePath(as) \in DOMAIN file /\ SetText(file[NormalizePath(as)], text)
    /\ UNCHANGED <<discoveryVars, disk, status>>

(* A file appears on disk, behind the server's back. *)
Create(path) ==
    /\ Writing
    /\ Canon(path) \notin disk /\ disk' = disk \cup {Canon(path)}
    /\ UNCHANGED <<discoveryVars, registry, queries, status>>

-----------------------------------------------------------------------------
(* resolve_import: relative to the importing file, through the remapping    *)
(* with the longest prefix, or beside the file.                             *)
ImportedFrom(directory, package, import) ==
    LET known == package.remappings
        matching == {k \in DOMAIN known : IsPrefix(known[k].prefix, import.path)}
        best == Min({k \in matching : \A l \in matching :
                        Len(known[l].prefix) <= Len(known[k].prefix)})
        rest == SubSeq(import.path, Len(known[best].prefix) + 1, Len(import.path))
    IN  IF import.relative
        THEN SubSeq(directory, 1, Len(directory) - import.up) \o import.path
        ELSE IF matching = {} THEN directory \o import.path
        ELSE (IF known[best].absolute THEN <<>> ELSE package.root) \o known[best].target \o rest
ImportedPath(i, import) ==
    ImportedFrom(Front(inputs[i].path), packages[roots[inputs[i].root].package], import)

(* Only what is on disk has a canonical path. *)
ResolveToFile(i, import) ==
    LET path == Canon(ImportedPath(i, import))
    IN  IF path \in disk /\ path \in DOMAIN file THEN file[path] ELSE None

(* What a map is made from, and what of it the others can tell apart. *)
Targets(r) == UNION {{[from |-> i, import |-> m, to |-> ResolveToFile(i, m)] :
                         m \in inputs[i].text} : i \in rootFiles[r]}
Map(r) == [files |-> rootFiles[r], targets |-> Targets(r)]
RootsOf(targets) == {inputs[t.to].root : t \in {u \in targets : u.to # None}}
AsksFor(r) == RootsOf(Targets(r)) \ {r}
AskedFor(r) == IF memo[r] = None THEN {} ELSE RootsOf(memo[r].targets) \ {r}

(* Every file a map takes scopes from is in its own map's, or in the other. *)
Unwraps(r) ==
    \A t \in Targets(r) : t.to # None =>
        t.to \in IF inputs[t.to].root = r THEN rootFiles[r] ELSE memo[inputs[t.to].root].files

(* The map of r is asked for when those below it are verified: a query      *)
(* that has others to verify first is a sequence of these steps.            *)
Keep(r) ==
    /\ Serving /\ r \notin verified \cup outdated /\ AskedFor(r) \subseteq verified
    /\ verified' = verified \cup {r}
    /\ UNCHANGED <<discoveryVars, disk, registry, memo, outdated, status, writes>>

CollectDefMap(r) ==
    /\ Serving /\ r \in outdated /\ AsksFor(r) \subseteq verified
    /\ IF Unwraps(r)
       THEN /\ memo' = [memo EXCEPT ![r] = Map(r)]
            /\ outdated' = (outdated \ {r})
                           \cup IF memo[r] = Map(r) THEN {} ELSE {q \in Root : r \in AskedFor(q)}
            /\ verified' = verified \cup {r}
            /\ UNCHANGED status
       ELSE status' = "unwrap" /\ UNCHANGED queries
    /\ UNCHANGED <<discoveryVars, disk, registry, writes>>

(* salsa panics when a query comes to depend on itself. *)
Below(r) == IF r \in outdated THEN AsksFor(r) ELSE AskedFor(r)
MeetCycle ==
    /\ Serving
    /\ \E S \in SUBSET (Root \ verified) : S # {} /\ \A r \in S : Below(r) \cap S # {}
    /\ status' = "cycle"
    /\ UNCHANGED <<discoveryVars, disk, registry, queries, writes>>

Query == MeetCycle \/ \E r \in Root : Keep(r) \/ CollectDefMap(r)

Edit == \E path \in world.paths : \/ \E text \in world.texts : Open(path, text) \/ ApplyChanges(path, text)
                                  \/ Create(path)

RegistryInit == /\ Init
                /\ disk = world.sol
                /\ inputs = <<>> /\ file = <<>> /\ rootFiles = <<>>
                /\ memo = <<>> /\ outdated = {} /\ verified = {}
                /\ status = "discovering" /\ writes = 0

RegistryNext == Discovering \/ Load \/ Edit \/ Query

RegistrySpec == RegistryInit /\ [][RegistryNext]_vars
-----------------------------------------------------------------------------
(* Properties *)

(* One input for a file, by whatever path the editor calls it: an edit of   *)
(* it reaches the map its source root is made from.  Only source roots that *)
(* lie in each other make two, when loaded; the later one's is registered.  *)
OneInput ==
    \A i, j \in DOMAIN inputs :
        i < j /\ Canon(inputs[i].path) = Canon(inputs[j].path) =>
            /\ inputs[i].root < inputs[j].root
            /\ inputs[i].path \in roots[inputs[i].root].files \cap roots[inputs[j].root].files
            /\ file[inputs[i].path] # i

(* A new file is put into the source root it will be in after a restart.    *)
(* When source roots of several packages lie in each other, or one is found *)
(* through a link, a restart may also prefer an outer one: their order is   *)
(* that of the packages, and that of the links' own names.                  *)
LinkAround(path) == \E k \in DOMAIN discovered : \E p \in SourceDirs(discovered[k]) :
                        Canon(p) # p /\ IsPrefix(Canon(p), path)
OpenAgreesWithLoad ==
    \A i \in DOMAIN inputs :
        LET around == {r \in Root : IsPrefix(roots[r].root, inputs[i].path)}
        IN  /\ ~inputs[i].atStart /\ ~LinkAround(inputs[i].path)
            /\ Cardinality({roots[r].package : r \in around}) = 1
            => inputs[i].root = Max(around)

(* A map that salsa returns is one made from the present files of its       *)
(* source root, and its imports lead where they would lead now, although    *)
(* neither the registry nor the disk is tracked.  What may be missed is a   *)
(* file in another source root that was not there before, and one opened    *)
(* before it was on disk.                                                   *)
MapsCurrent ==
    \A r \in verified :
        /\ memo[r].files = rootFiles[r]
        /\ \A i \in rootFiles[r] : {t.import : t \in {u \in memo[r].targets : u.from = i}} = inputs[i].text
        /\ \A t \in memo[r].targets :
              LET now == ResolveToFile(t.from, t.import)
              IN  t.to # now => /\ t.to = None
                                /\ inputs[now].root # r \/ ~inputs[now].onDisk

(* Queries never miss an entry they unwrap, and only panic if imports lead  *)
(* in a ring from source root to source root.                               *)
PanicsNarrow ==
    /\ status # "unwrap"
    /\ status = "cycle" => \E S \in SUBSET Root : S # {} /\ \A r \in S : AsksFor(r) \cap S # {}
=============================================================================
