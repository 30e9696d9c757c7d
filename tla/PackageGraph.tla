---------------------------- MODULE PackageGraph ----------------------------
(***************************************************************************)
(* Discovery of the workspace (workspace.rs): packages are followed from   *)
(* the workspace's own through manifests and library directories, with a   *)
(* work list; then every package is turned into source roots.              *)
(*                                                                         *)
(* A path is the sequence of its names, from the workspace's root.  What   *)
(* is on disk is a record (see Worlds); reading and parsing of the         *)
(* configuration files is part of it, their syntax is not modelled.        *)
(***************************************************************************)
EXTENDS Naturals, SequencesExt

CONSTANTS
    Worlds,  \* what may be on disk: a set of records with
             \*   dirs     the directories
             \*   link     symbolic links to directories, and their targets
             \*   conf     the configuration of the directories that have one
             \*   sol      the Solidity files
             \*   ignored  directories the walk over files leaves out
    NameOrder,  \* names of source directories, as strings are ordered
    None

Path == Seq(STRING)

ASSUME WorldsAssumption ==
    \A w \in Worlds :
        /\ w.dirs \subseteq Path /\ IsFiniteSet(w.dirs)
        /\ w.sol \subseteq Path /\ IsFiniteSet(w.sol)
        /\ DOMAIN w.conf \subseteq Path /\ IsFiniteSet(DOMAIN w.conf)
        /\ \A d \in DOMAIN w.conf : w.conf[d].manifest # None =>
                                     w.conf[d].manifest.dependencies \in Seq(STRING)

ASSUME NamesAssumption ==
    /\ NameOrder \in Seq(STRING)
    /\ \A i, j \in DOMAIN NameOrder : NameOrder[i] = NameOrder[j] => i = j
    /\ {"contracts", "script", "test"} \subseteq Range(NameOrder)
    /\ \A w \in Worlds : \A d \in DOMAIN w.conf :
          LET foundry == w.conf[d].foundry
              hardhat == w.conf[d].hardhat
          IN  /\ foundry # None => Range(foundry.src) \subseteq Range(NameOrder)
              /\ hardhat # None => Range(hardhat.sources \o hardhat.tests) \subseteq Range(NameOrder)

VARIABLES
    world,
    queue,       \* packages still to look at, the next one last
    seen,        \* roots of packages taken from the queue
    discovered,  \* the package graph, in the order of discovery
    next,        \* the first of these not yet turned into source roots
    packages,    \* Workspace.packages
    roots        \* the source roots discovered

graph == <<world, queue, seen, discovered>>
layout == <<next, packages, roots>>
discoveryVars == <<graph, layout>>

-----------------------------------------------------------------------------
(* Paths.  normalize_path replaces a link by its target. *)

Resolved(link, p) ==
    LET links == {l \in DOMAIN link : IsPrefix(l, p)}
    IN  IF links = {} THEN p
        ELSE LET l == CHOOSE l \in links : TRUE
             IN  link[l] \o SubSeq(p, Len(l) + 1, Len(p))
Canon(p) == Resolved(world.link, p)

IsDir(p) == Canon(p) \in world.dirs
Entries(d) == {e \in world.dirs \cup DOMAIN world.link : e # <<>> /\ Front(e) = d}

IsPackage(d) == d \in DOMAIN world.conf
NoConf == [foundry |-> None, hardhat |-> None, json |-> FALSE, manifest |-> None, txt |-> <<>>]
Conf(d) == IF IsPackage(d) THEN world.conf[d] ELSE NoConf

(* Packages below a directory: the walk neither enters a package nor one of *)
(* PRUNED_DIRS.                                                             *)
PrunedDirs == {".git", "node_modules", "out", "artifacts", "cache"}
FindPackageRoots(top) ==
    {d \in DOMAIN world.conf :
        /\ IsPrefix(top, d)
        /\ \A i \in (Len(top) + 1) .. Len(d) : d[i] \notin PrunedDirs
        /\ \A i \in Len(top) .. (Len(d) - 1) : ~IsPackage(SubSeq(d, 1, i))}

-----------------------------------------------------------------------------
(* What a package refers to *)

Libraries(d) == IF Conf(d).foundry # None /\ IsDir(d \o <<"lib">>)
                THEN FindPackageRoots(Canon(d \o <<"lib">>)) ELSE {}

Manifest(d) == IF Conf(d).manifest # None THEN Conf(d).manifest
               ELSE [workspaces |-> {}, dependencies |-> <<>>]

(* A pattern names a directory, or all those right below one. *)
WorkspacePackages(d) ==
    LET Of(pattern) == IF pattern.star THEN Entries(Canon(d \o pattern.dir)) ELSE {d \o pattern.dir}
    IN  {Canon(p) : p \in {q \in UNION {Of(pattern) : pattern \in Manifest(d).workspaces} : IsDir(q)}}

(* In the nearest node_modules on the way up that has it. *)
ResolveNodePackage(owner, name) ==
    LET Candidate(n) == SubSeq(owner, 1, n) \o <<"node_modules", name>>
        found == {n \in 0 .. Len(owner) : Conf(Canon(Candidate(n))).json}
    IN  IF found = {} THEN None
        ELSE Canon(Candidate(CHOOSE n \in found : \A m \in found : m <= n))

(* The elements of s that are not in S, in their order. *)
Without(s, S) ==
    LET W[n \in 0 .. Len(s)] == IF n = 0 THEN <<>>
                                ELSE IF s[n] \in S THEN W[n - 1] ELSE Append(W[n - 1], s[n])
    IN  W[Len(s)]

NodePackages(d) ==
    Without([i \in DOMAIN Manifest(d).dependencies |->
                ResolveNodePackage(d, Manifest(d).dependencies[i])], {None})

-----------------------------------------------------------------------------
(* discover_package_graph.  The entries of a directory come in any order.   *)

Package(d, dependency) == [root |-> d, dependency |-> dependency]
Packages(s, dependency) == [i \in 1 .. Len(s) |-> Package(s[i], dependency)]

Init ==
    /\ world \in Worlds
    /\ \E order \in SetToSeqs(FindPackageRoots(<<>>)) : queue = Packages(order, FALSE)
    /\ seen = {} /\ discovered = <<>>
    /\ next = 1 /\ packages = <<>> /\ roots = <<>>

SkipSeen ==
    /\ queue # <<>> /\ Last(queue).root \in seen
    /\ queue' = Front(queue)
    /\ UNCHANGED <<world, seen, discovered, layout>>

(* Mutant: libraries of libraries are left to the outer ones. *)
LibrariesNotNested(package) == IF package.dependency THEN {} ELSE Libraries(package.root)

LibrariesOf(package) == Libraries(package.root)

(* Mutant: the packages of a library directory are taken for local ones. *)
LibraryIsLocal == FALSE

LibraryIsDependency == TRUE

Expand ==
    /\ queue # <<>> /\ Last(queue).root \notin seen
    /\ LET d == Last(queue).root
       IN  /\ seen' = seen \cup {d}
           /\ discovered' = Append(discovered, Last(queue))
           /\ \E libraries \in SetToSeqs(LibrariesOf(Last(queue))),
                 local \in SetToSeqs(WorkspacePackages(d) \ (seen \cup {d})) :
                 queue' = Front(queue)
                          \o Packages(libraries, LibraryIsDependency)
                          \o Packages(local, FALSE)
                          \o Packages(Without(NodePackages(d), seen \cup {d}), TRUE)
    /\ UNCHANGED <<world, layout>>

-----------------------------------------------------------------------------
(* package_layout and add_package *)

(* By the names the layout has for them, which may be those of links.       *)
(* Tests and scripts are left out of dependencies; a dependency without a   *)
(* known layout is searched as a whole.                                     *)
SourceDirs(package) ==
    LET d == package.root
        dev == ~package.dependency
        foundry == IF Conf(d).foundry = None THEN {}
                   ELSE {Conf(d).foundry.src, <<"contracts">>}
                        \cup IF dev THEN {<<"test">>, <<"script">>} ELSE {}
        hardhat == IF Conf(d).hardhat = None THEN {}
                   ELSE {Conf(d).hardhat.sources} \cup IF dev THEN {Conf(d).hardhat.tests} ELSE {}
        found == {d \o p : p \in {q \in foundry \cup hardhat : IsDir(d \o q)}}
        default == IF dev THEN d \o <<"contracts">> ELSE d
    IN  IF found # {} THEN found ELSE IF IsDir(default) THEN {default} ELSE {}

(* Paths are compared name by name; a directory comes before those below.   *)
NameBefore(x, y) == \E i, j \in DOMAIN NameOrder : i < j /\ NameOrder[i] = x /\ NameOrder[j] = y
Before(p, q) == \E n \in 0 .. Len(p) : /\ n < Len(q) /\ \A i \in 1 .. n : p[i] = q[i]
                                       /\ n = Len(p) \/ NameBefore(p[n + 1], q[n + 1])
Sorted(s) == \A i, j \in DOMAIN s : i < j => Before(s[i], s[j])

CollectSolFiles(dir) ==
    {f \in world.sol : /\ IsPrefix(dir, f)
                       /\ ~\E e \in world.ignored : IsStrictPrefix(dir, e) /\ IsPrefix(e, f)}

Absolute(prefix, target) == [prefix |-> prefix, target |-> target, absolute |-> TRUE]

(* By precedence among those with the same prefix. *)
Remappings(d) ==
    LET foundry == IF Conf(d).foundry = None THEN <<>>
                   ELSE IF Conf(d).txt # <<>> THEN Conf(d).txt ELSE Conf(d).foundry.remappings
        named == SelectSeq(Manifest(d).dependencies, LAMBDA n : ResolveNodePackage(d, n) # None)
    IN  foundry \o Conf(d).txt
        \o [i \in DOMAIN named |-> Absolute(<<named[i]>>, ResolveNodePackage(d, named[i]))]

(* The directories are sorted by the names they go by and normalized then:  *)
(* what a link leads to keeps the place of the link, and two directories    *)
(* that turn out to be one are both kept.                                   *)
AddPackage ==
    /\ queue = <<>> /\ next \in DOMAIN discovered
    /\ LET package == discovered[next]
           withFiles == {p \in SourceDirs(package) : CollectSolFiles(Canon(p)) # {}}
       IN  IF withFiles = {} \/ \E i \in DOMAIN packages : packages[i].root = package.root
           THEN UNCHANGED <<packages, roots>>
           ELSE /\ packages' = Append(packages, [root |-> package.root,
                                                 remappings |-> Remappings(package.root)])
                /\ \E dirs \in {s \in SetToSeqs(withFiles) : Sorted(s)} :
                      roots' = roots \o [i \in 1 .. Len(dirs) |->
                                   [root |-> Canon(dirs[i]), package |-> Len(packages) + 1,
                                    files |-> CollectSolFiles(Canon(dirs[i]))]]
    /\ next' = next + 1
    /\ UNCHANGED graph

Discover == SkipSeen \/ Expand \/ AddPackage
Discovered == queue = <<>> /\ next > Len(discovered)

-----------------------------------------------------------------------------
(* Properties *)

(* Discovery ends with exactly one entry for every package there is a way   *)
(* to, over workspaces, libraries and dependencies, rings of packages that  *)
(* depend on each other included.                                           *)
RefersTo(d) == Libraries(d) \cup WorkspacePackages(d)
               \cup {NodePackages(d)[i] : i \in DOMAIN NodePackages(d)}
AllDiscovered ==
    LET found == {discovered[i].root : i \in DOMAIN discovered}
    IN  /\ Cardinality(found) = Len(discovered)
        /\ queue = <<>> => /\ FindPackageRoots(<<>>) \subseteq found
                           /\ \A d \in found : RefersTo(d) \subseteq found

(* A package only counts as a dependency if some package in the graph has   *)
(* it in its libraries or dependencies, and as a local one if it is among   *)
(* the workspace's own; which of the two prevails when both refer to it is  *)
(* left to the order of the walk.                                           *)
DependencyJustified ==
    \A i \in DOMAIN discovered :
        LET p == discovered[i]
            by == {discovered[j].root : j \in DOMAIN discovered}
        IN  IF p.dependency
            THEN \E d \in by : p.root \in Libraries(d)
                               \/ \E j \in DOMAIN NodePackages(d) : p.root = NodePackages(d)[j]
            ELSE p.root \in FindPackageRoots(<<>>) \/ \E d \in by : p.root \in WorkspacePackages(d)
=============================================================================
