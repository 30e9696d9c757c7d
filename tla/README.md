# Formal model of the SolRepr language server

TLA+ specifications of the Solidity language server in `src/lsp_server`, the
TLC configurations that check them on small instances, and TLAPS proofs of
their main theorems. Paths below are relative to `src/lsp_server/src/` unless
they start with `src/`.

## 1. The system

SolRepr is one process that talks the Language Server Protocol over standard
input and output with the VS Code extension of `src/extension`. At start it
loads a workspace; then one loop handles messages, one at a time. Texts are
inputs of a salsa database, everything derived from them is a memoised query.

| Component | State | Operations | Talks to |
|---|---|---|---|
| Main loop (`lsp.rs`) | the database, the sender | `run`, `handle_request`, `handle_notification` | editor (messages), database (calls) |
| Process start (`main.rs`) | none | handshake, capabilities (incremental synchronisation), join of I/O threads | editor |
| Text synchronisation (`salsa/db.rs`, `utilities.rs`) | `File.text` inputs (ropes), registry | `open`, `apply_changes`, `update`, `reset`, `convert` | main loop, parser, registry |
| Incremental parsing (`salsa/incremental_parser.rs`, `parse` in `salsa/root_db.rs`) | cache of old trees, not tracked by salsa; memos of `parse` | `update`, `invalidate`, `parse` | text synchronisation, tree-sitter |
| Workspace loading (`loader.rs`) | thread, bounded channel, collected bundles | `discover`, `send_workspace`, `send_source_root_bundles`, `load_workspace` | file system, main loop (blocking) |
| Workspace discovery (`workspace.rs`) | work list of packages, seen set | `discover_package_graph`, layouts, file collection | file system |
| File registry (`salsa/files.rs`) | path to input, input to source root | `new`, `insert_file`, `source_root_for_path`, `resolve_to_file` | text synchronisation, import resolution |
| Syntax trees and ids (`ast/`) | id maps of a file | `AstIdMap::new`, lookups | all analyses |
| Item trees (`ir/item_tree.rs`) | none (pure) | `Lowerer::lower` | definition collection |
| Definition collection (`ir/def_map.rs`) | scopes, definitions | `collect_top`, `collect_def`, ... | import resolution |
| Import resolution (`ir/def_map.rs`) | `unresolved_imports`, chain, scopes | `resolve_imports`, `resolve`, `extend_scope`, `extend_global_usings` | registry, maps of other roots (queries) |
| Inheritance linearization (`hir/resolver.rs`, `salsa/hir_db.rs`) | memos of `bases` | `c3_linearize`, `c3_merge` | itself, through salsa |
| Name resolution (`hir/resolver.rs`) | none (pure) | `resolve_*`, `lookup_*`, `resolve_overload` | definition maps, linearization |
| HIR lowering (`hir/body_map.rs`, `exprs.rs`, `item_data.rs`) | scopes of a body | `build`, `walk_block` | name resolution |
| Types (`hir/types.rs`, `builtins.rs`) | none (pure) | `converts_to`, ... | name resolution |
| HIR queries (`salsa/hir_db.rs`, `interned_db.rs`) | memos | queries, using index | all analyses |
| Capabilities (`capabilities/`) | none | hover, definition, completion, views | database |
| Extension (`src/extension/src/extension.ts`) | the client, the server process | `activate`, `deactivate`, view requests | server |

Hard to test, and what each component's correctness comes to:

* **Ordering of edits and answers.** The editor does not wait. Every position
  it sends is one of *its* buffer at that moment. Right means: the server's
  text, with what is under way applied, is always the buffer, and an answer is
  about the buffer the user saw.
* **Three ways of counting.** UTF-16 units (editor), characters (rope), bytes
  (parser). Right means: conversions meet at every boundary between characters.
* **State behind salsa's back.** The cache of trees. Right means: whatever the
  history, a caller gets the tree of a parse from scratch.
* **Threads.** The loader against the main thread, over a channel that fills
  up. Right means: one discovery's result, whole and in order, and no deadlock.
* **Import cycles.** Resolution order comes from a hash map. Right means: the
  result does not depend on it, and the walk ends.
* **Recursion through queries.** The linearization asks for those of the bases.
  Right means: no duplicates, the order of the bases kept, no panic.
* **Registration.** Overlapping roots, new files, files outside. Right means:
  one input per path, and the queries that read the registry are re-run.
* **Discovery.** A graph of packages walked in work-list order. Right means: a
  result that does not depend on the order.

`PROJECT.json` lists the hazards line by line, with the properties that cover
each, or why none does.

## 2. Plan

Core behaviour first; modules are written to be proved about (constants with
named assumptions, one action per operation), and those a proof may reach
declare no RECURSIVE operator.

Done:

1. `AstService` (abstract) and `IncrementalParser` over `TreeSitter`, with
   `IncrementalParserProofs`.
2. `Rope` and `LspServer`, which composes `IncrementalParser` with the main
   loop and the editor, with `LspServerProofs` about both.
3. `ImportResolver`, with `ImportResolverProofs`.
4. `WorkspaceLoad` (abstract) and `Loader`, with `LoaderProofs`.
5. `C3Linearize`, with `C3LinearizeProofs`.
6. `PackageGraph`, and `FileRegistry` on top of it, with `FileRegistryProofs`.
7. `AstIds` and `DefCollector`, with `DefCollectorProofs`: from the text of the files
   of a source root to its map of definitions.
8. `BodyScopes`, `Primitives`, `Types`, `TypeConversion` and `Builtins`, then
   `Names`, `NameResolution` and `Inference`: what names, types and expressions mean.
9. `Requests` and `Analysis`, which compose 7 and 8: hover, definition and completion at
   every node of a program; with `RequestsProofs` about what needs no types.

Next: costs of conversions as lemmas of `Primitives`.
A model of the trees tree-sitter gives to unfinished text would let the unwraps
of `hir/item_data.rs` be placed as those of the resolver are.

## 3. Modules

### TreeSitter, AstService, IncrementalParser

A text is a sequence of bytes. A tree is reduced to what incremental parsing
can get wrong: for each byte, the byte the tree was built from or the mark
`Dirty`, and where the tree ends in rows and columns. `Edit` and `Reparse`
model tree-sitter, which is external, from the way it is called: an edit
shifts what follows it and marks the edited range, and a parse given an old
tree trusts every node that is not marked. `InputEdit` and `Splice` are the
server's own (`salsa/db.rs:208-232`).

`IncrementalParser` has the text inputs, the cache, salsa's memos of `parse`
and which are out of date, and the last answer. `Change` is one ranged change
with its `update`, `Replace` a `reset`, `Parse` the query with both its
outcomes. `AstService` is what callers are promised: replace a text, or be
given `Fresh(text)`. `ServiceSpec` says that the former implements the latter.

### Rope, LspServer

A rope is a sequence of characters with byte and UTF-16 lengths. `ToRopeIdx`
is `to_rope_idx`; `PositionAt` is the protocol's meaning of a position,
defined independently. `LspServer` has the editor (buffers, open set), the
inbox, and the server (ropes, registered files, the changes of a notification
still to apply, the parser). The changes of one `didChange` are separate steps.
The parser is `INSTANCE IncrementalParser` over the bytes of the ropes, and its
operators (`Invalidate`, `EditCache`, `Parse`) are the ones used here. A
panic ends the process (`alive`). What the editor meant is stated without the
server's own arithmetic: `IndexOf` is the boundary that has a position, `Made`
and `Replayed` what changes do to a buffer, `Upcoming` the text the server will
have when all that is under way is handled.

### ImportResolver

`resolve`'s recursion is a stack of frames; the chain is the one set handed
through it. The vectors of unresolved imports only lose elements, so they are
kept as the sets of positions left, walked in their order. `Start` takes any file of the map, since a hash map may yield any.
`Return` ends a call (`Resolver::resolve`, removal or putting back) and makes
its caller go on, copying scopes as `extend_scope` and `extend_global_usings`
do. One symbol and one global using directive a file stand for all of them;
two import paths of one file are one `dep`. An import as a namespace enters
one name and copies nothing else but directives, which is what a named import
that finds nothing does.

### WorkspaceLoad, Loader

The thread's program counter is `phase`, with `root` and `file`; one action
for discovery, for each message sent and each file read (or left out), and
`Receive` for the loop of `load_workspace`. `WorkspaceLoad` is a single step to
a result that holds some of the files of each root, in order.

### C3Linearize

Nested `bases` queries are a stack of frames; salsa's memo and its panic on a
cycle are external. `There` is the vector of lists as the loop sees it: an
emptied list is dropped by `retain_mut`, one empty from the start is not
dropped before the first round is over. `MergeRound`, `MergeUnwrap`,
`MergeStuck` and `MergeDone` are the four ways a round can go.

### PackageGraph, FileRegistry

A path is a sequence of names, a `world` what is on disk: directories, links,
configurations, Solidity files. `PackageGraph` is `discover_workspace`: `queue`
is the work list, taken from its end, and `Expand` what one package adds to it;
`AddPackage` turns packages into source roots. The configuration files' syntax
(JSON, TOML, the text search in a Hardhat configuration) is not modelled: a
world holds what they say. Entries of a directory come in any order; as the
walk for packages is not modelled step by step, it may also interleave what is
below different directories. A link is followed where the code follows it: at the
top of a walk (`lib`, the parent of `/*`, a source directory), not below.

The source directories of a package are sorted by the names they go by and
normalized only in `add_package`. `SourceDirs` therefore has paths as the layout
writes them, `Sorted` compares them name by name, and what a link leads to keeps
the place of the link. Strings have no order in TLA+, so `NameOrder` gives that of
the names of source directories. Directories without files are left out before
sorting, not after, which leaves the order of the others as it is.

`FileRegistry` goes on from there: `Load` is `Files::new`, `Open` and
`ApplyChanges` the editor's messages, `Create` a file that appears on disk.
`CollectDefMap` is `root_def_map` run again, `Keep` salsa finding nothing
changed; one query is a sequence of these, source roots below first, or
`MeetCycle`. What salsa tracks (`outdated`) is the list of a source root's
files, their item trees and the maps asked for; the registry's maps and the
disk it does not. A text is the set of its imports. Files are not deleted, and
unreadable ones are `Loader`'s.

What the code takes for granted of a disk is assumed by name. `WorldsAssumption`:
there are finitely many directories, files and configurations, and a manifest's
dependencies are a list. `NamesAssumption`: `NameOrder` has the names of all
source directories, each once. `PathsAssumption`: a file goes by a path below no link,
since the walk that collects files follows none and an editor's path is
canonicalized (`to_utf8path`).

### AstIds, DefCollector

A syntax tree is the sequence of its named nodes in document order, each with
its parent; the number of a node is also its position in the text, so that
"before" and "inside" are comparisons of numbers. `AstIds` is the walk of
`AstIdMap::new`, one node taken from the queue or entered at a time
(`Visit`, `Enqueue`, `Leave`). `TreesAssumption` says what document order is: a
node comes after its parent, with nothing but what is below the parent in
between. `GrammarAssumption` says where tree-sitter's grammar puts items when
nothing around them is an ERROR: at the top or in a body, and a body in a
container that has no other.

`DefCollector` then takes the files of a program one after the other: lowering
to an item tree (`LowerTop`, `LowerMember`, `PassOver`), one item a step, and
collection (`CollectFile`, `CollectSimple`, `CollectUsing`, `CollectImport`,
`CollectContainer`), one item a step, the members of a container right after
it. What is passed over is as much part of it as what is kept: an enum in a
contract (`ast/ast_nodes.rs:47`), a value type without an underlying type, an
item below a syntax error, a definition whose name is taken. `ResolveImport`
copies scopes as `extend_scope` does, for imports of whole files in post-order;
the order, cycles and other forms are `ImportResolver`'s.

### BodyScopes

`BodyBuilder` for one function or modifier: a cursor over the tree for the
recursion of `walk_block`, with one action for each thing it does at a node
(`AddLocal`, `LowerExpr`, `PushScope`, `PopScope`, `Descend`, `PassBy`).
`ExprOf` says which expression stands for a node, `SemanticExpr` what is found
under the range of a node: the last entry wins, so the name of a called
function means the call. `LocalFrom` is `resolve_local`. The code goes from a
scope to its parent until one offers the name; as scopes are numbered in the
order they are entered, the scopes around one are those before it that no scope
in between is outside of (`ScopesAround`), and the first to offer the name is
the last of them that does. So no recursion is needed, and that the loop comes
to the same is a theorem.

`BodyAssumption` is what tree-sitter's grammar says of the inside of a function:
where parameters, declarations, statements and blocks are, and that an ERROR
may stand among statements. The walk relies on it: what it passes over is closed by an
offset.

### Primitives, Types, TypeConversion, Builtins

`Types` is what types and type keys are, `Cost` is `Type::converts_to`, `KeyCost` adds data locations, `Overload` is
`resolve_overload`. A number literal is its value and scale, a string literal
its length. Numbers stay below 2^30, for TLC's sake, where the code has 256
bits: `FitsUnsigned` and `FitsSigned` are exact there. `Builtins` has the names
and members of `hir/builtins.rs` without their documentation.

### Names, NameResolution, Inference

`Resolver`. `Names` is `resolve_name` and what it rests on: locals, scopes of the
map of definitions, bases, imports and globals. The loop of `resolve_def`
is `OutwardsFrom`, written as `LocalFrom` is. A resolver is a file and the owner of a scope, a resolution a
record whose fields say which variant it is; `Nothing`, `NoType`, `NoKey` and
`NoSignature` are the `None`s. `NameResolution` goes from names to types
(`ResolvePath`, `Lower`, `Signature`, `Infer`), `Inference` from
there to members (`InResolution` to look one up, `Members` to list them), to
functions attached by `using` (`UsingIndex`, `InUsing`) and to whole expressions
(`ResolveExpr`). The linearization of a contract is part of its node, since
`C3Linearize` is about it. Types are written in the nodes, so the lowering of their syntax is not
modelled. `TypeConversion`, `NameResolution` and `Inference` declare recursive
operators, and are for TLC only.

### Requests, Analysis

A request is a method and a node. `Ask` finds the innermost container
(`Context::new`, which panics on an item without an id), `BuildBody` runs
`BodyScopes` if that is a function, `BuildResolver` unwraps the container's
entry, and `Hover`, `Definition`, `CompleteName` or `CompleteMember` answers or
fails. All but the answers that need types is `Requests`, whose `Reply` stands
for any such answer; `Analysis` gives them, and `RequestSpec`
says that it implements `Requests`. The theorems are about `RequestSpec`. An answer is
reduced to the declarations shown or gone to (`sites`) and the names offered
with the definition each stands for (`items`). The cursor is at the start of a
node that is the smallest there.

Definitions called `...Same`, `...Nothing`, `...Always` and the like, preceded
by a comment that starts with "Mutant:", are deliberate mistakes. Each stands
next to the definition it spoils; a check replaces one by the other and TLC
then has to find a property violated. They are not part of any specification.

## 4. Runs

| Run | Instance | Shows |
|---|---|---|
| `IncrementalParser` | one file, texts of up to 4 bytes over a letter and a line feed, inserts of up to 2 | cache, extent and memo in step; refinement of `AstService` |
| `LspServer` | a loaded file and one outside all roots; 4 messages, 2 changes, buffers of up to 2 characters of 1, 2 and 4 bytes | `Mirror`, `AnswersAsked`, no panic but for files outside, refinement of `AstService` |
| `LspServerConverges` | a loaded and a new file, 3 messages | the server catches up |
| `LspServerOutside` | as `LspServer`, 2 messages | violation: see findings |
| `ImportResolver` | 3 files with up to 2 imports each of every kind of target, 4 files of which one has 2, 1 file of another root | `Sound`, `Complete`, `NamesFound`, `PanicsNarrow`, `Terminates` |
| `ImportResolverCycles` | the same | violation: see findings |
| `Loader` | no root to 3 roots, channel of 2 | order, completeness, refinement of `WorkspaceLoad`, no deadlock |
| `C3Linearize` | 5 contracts and a library, 1056 hierarchies | `Linear`, `KeepsOrder`, `NotGivenUp`, `PanicsNarrow`, `Answered` |
| `FileRegistry` | a monorepo with links, a Foundry project with libraries in libraries, source roots in each other, dependencies in a ring, source directories that are links; 3 writes | `AllDiscovered`, `DependencyJustified`, `OneInput`, `OpenAgreesWithLoad`, `MapsCurrent`, `PanicsNarrow` |
| `Analysis` | 233 programs of one or two files: every pair of kinds of definitions under one name at the top of a file or in a contract, bodies of up to three statements with blocks, loops, tries and tuples, two overloads for each of a dozen arguments, inheritance, `using`, imports; every method at every node | `IdsUnique`, `DefsMatchScopes`, `LocalsLexical`, `OverloadCheapest`, `DotItemsResolve`, `BuildPanicsNarrow`, `HoverAgrees`, `OfferedIsMeant`, refinement of `RequestSpec` |
| `C3LinearizeOrder`, `C3LinearizeLibrary` | the same | violations: see findings |

Why the bounds suffice. Parser: files do not interact (the cache is a map), an
edit may delete, insert or both, at the start, in the middle and at the end,
on either side of a line feed, and 4 bytes hold two lines with a byte on each
side. Server: two changes are enough for one to build on another, in one
batch, in two, or with a close and open between; the characters differ in every
pair of the three lengths. Imports: three files make every pattern of entering
a ring (self-import, ring of two entered from outside, ring of three, two
imports into one ring), and the fourth two ways that meet only inside it; that
one file imports another twice, or itself by name, is tried for one of the
three, as any of them may be where the walk starts. Loader: 5 messages through
a channel of 2 block the thread; the code's capacity of 100 is a parameter of
the proofs.
Linearization: a diamond takes four contracts, a conflict of orders five.
Registry: a stale map takes an import of a missing file, the query, and the
file's appearance on disk and in the editor: three writes, with queries
anywhere between; each workspace has two or more source roots and shows one
way in which they lie or import. Analysis: a name clash is between two
definitions, ids collide between two containers or two members, shadowing takes
a declaration in each of two nested scopes and a use before, between and after
them, an overload is better or worse than one other; members, attached
functions and imports are looked up by rules that do not count how many there
are, so one program for each rule is enough.

`CHECK_DEADLOCK FALSE` stands where a system may stop: the editor may stop
typing and the server panic; the resolver, loader and merge end; the
registry runs out of writes; a panic ends `Analysis`.

Fairness. `LspServer`: weak fairness of the server's actions as a whole, for a
blocking loop that handles whatever is there; none of the editor. `Loader`:
weak fairness of each thread, which the operating system schedules; a thread
blocked on the channel is not enabled. `ImportResolver`, `C3Linearize`: weak
fairness of a running computation.

What `FileRegistry` leaves out of its properties is what the code does not do:
where source roots of different packages lie in each other, a file has an input
for each and edits reach one; a map may miss a file that is new in another
source root, or was opened before it was saved, until something else changes;
source roots that import each other make the query panic; a package that
is both a local one and a dependency counts as the one the order of directory
entries makes it; and a source directory that is a link (`contracts` to
`src/inner`) may come before a source root around what it leads to, so that a file
in it is loaded into the outer root (`src`) but, when new, opened into the inner one
until the next start (`workspace.rs:372`, `salsa/files.rs:57`). No document of the repository promises otherwise.

What `Analysis` shows of the code as it is, and its properties leave out or
place rather than forbid:

* `BuildPanicsNarrow` says where a cursor ends the server: in an enum or
  container inside a contract, a value type without an underlying type, an item
  below a syntax error or in a body of no container, and a definition whose name is taken
  (`hir/resolver.rs:182`, `salsa/db.rs:33`). Nowhere else.
* Locals are lexical in bodies that declare no name twice in a scope; of two the
  later takes the name, and the parameters of all clauses of a `try` share one
  scope.
* Of `super` hover shows the contract and definition goes to its base; of
  `type(C)` hover shows no declaration.
* Completion offers a name that a builtin or a member of a base hides, and on
  the name of a type the functions attached to it, which are not found there.

Findings (details in `PROJECT.json`):

* `LspServerOutside`: `convert` unwraps a file that `open` left out
  (`salsa/db.rs:116`).
* `ImportResolverCycles`: a file with two ways into one ring can fail the assertion
  of `resolve_imports` (`ir/def_map.rs:384`), although cyclic imports are said
  to be supported (`ir/def_map.rs:377`).
* `C3LinearizeOrder`: `c3_merge` is not given the list of the direct bases, so
  "precedence is from right to left" (`hir/resolver.rs:665`) does not always
  hold.
* `C3LinearizeLibrary`: a base without a linearization makes `c3_merge` unwrap
  an empty list (`hir/resolver.rs:683`).

## 5. Proofs

All theorems hold for every value of the constants that satisfies the named
assumptions of the modules.

### IncrementalParserProofs

For any files, byte alphabet and bounds (`NLAssumption`, `DirtyAssumption`,
`MaxLenAssumption`, `MaxInsAssumption`).

| Theorem | Says |
|---|---|
| `TypeCorrect` | texts within their bound, trees of bytes and marks |
| `CacheSafe` | `CacheInSync`: what is not marked in a cached tree is in the text |
| `MemoSafe` | `MemoInSync`: a memo salsa returns is a parse from scratch |
| `ExtentSafe` | `ExtentInSync`: the cached tree ends, in rows and columns, where the text does |
| `Refinement` | `ServiceSpec`: the parser implements `AstService` |

The inductive invariant is `TypeOK /\ CacheInSync /\ MemoInSync`. Neither of
the last two is inductive alone: a memo comes from a tree-sitter parse over the
cached tree, which is one from scratch only if the cache is in step
(`NewTreeIsFresh`), and the cache is then the parsed tree. The two lemmas that
carry it are `EditKeepsInSync` (the `InputEdit` the server computes fits the
splice it performs, before, in and after the edited range) and
`ReparseIsFresh`. `ExtentSafe` rests on `ShiftedEnd`: every place lies on one
line (`LineStartIs`), and what follows the changed part has as many lines, as
far apart, before as after (`SameLines`), so that tree-sitter's shift of the end
is right whether or not a line begins in between. `Refinement` maps texts and answers to themselves: `Change` and
`Replace` are one abstract replacement, a parse is one answer, whether from the
memo or not.

### LoaderProofs

For any capacity of the channel and any layouts of the workspace
(`CapacityAssumption`, `LayoutsAssumption`).

| Theorem | Says |
|---|---|
| `TypeCorrect` | types, and the channel never above its capacity |
| `FlowSafe` | `FlowInOrder`: received and in the channel, a prefix of one discovery's messages |
| `ResultWhole` | `WholeResult`: the result has every root, and the workspace is there when unwrapped |
| `Refinement` | `AtomicLoad`: thread, channel and loop are one atomic load |

`FlowInOrder` is about what was sent and not about what the thread will send
next, so it is not inductive: `Reading` ties the thread's position to the
layout and the files read so far to a selection of the current root's. What
was received and what is in the channel are then reasoned about as one
sequence, which `Receive` leaves alone and a send appends to
(`FlowUnchanged`, `FlowGrows`); `WholeResult` follows since the finishing
message is the last of it.

### C3LinearizeProofs

For any contracts, other types and inheritance lists, cycles included
(`BaseAssumption`).

| Theorem | Says |
|---|---|
| `TypeCorrect` | the calls under way and the memos |
| `LinearSafe` | `Linear`: a linearization starts with its contract and names none twice |
| `OrderSafe` | `KeepsOrder`: it keeps the order of every base's linearization |
| `GivesUpOnlyIfItMust` | `NotGivenUp`: if it leaves an ancestor out, no order of all of them agrees with the bases |
| `PanicsPlaced` | `PanicsNarrow`: the query panics only on contracts that inherit from themselves or from what is no contract |

`Linear` is about finished linearizations. `IInv` adds what holds of one under
way (`Sane`): nothing merged so far is still in a list to merge, so what a
round appends is new; lists hold contracts already linearized, the contract of
a call is not one of them, and no contract has two calls at a time. `OInv` adds
where each base stands in the merge (`Merged`): some list is what remains of
its linearization, and what does not remain has been taken over in order. A
head that `IsGood` accepts is in no tail, so it is the next of every list it is
in; this is the step (`RoundMerged`) that fails without the check of tails.
When the merge gives up, what was taken over stays in order.

`PInv` is about panics: the contract of a call is an ancestor of that of every
call around it, so that meeting one of them again closes a ring of inheritance;
and a list that is empty in the first round came from a base that is no contract
(`Listed`), since a contract's linearization has at least itself. `GInv` is about
giving up: every list is what remains of the linearization of some base
(`Drawn`). Were there an order agreeing with all of them, the first of what
remains would be the head of its list, and in the tail of none (`NoOrder`): so a
merge without a good head has no solution, and one that ends without lists
has taken over everything.

### DefCollectorProofs

For any trees and programs (`TreesAssumption`, `ProgramsAssumption`; what is said
of which items are mapped holds without `GrammarAssumption`).

| Theorem | Says |
|---|---|
| `NodesHaveOwnIds` | `IdsUnique` of the numbering of any tree |
| `CollectorGivesIds` | the collector implements `AstIds`, file after file |
| `DefinitionsHaveOwnIds` | so `IdsUnique` holds throughout the collection of any program |
| `DefinitionsMatchScopes` | `DefsMatchScopes`: definitions and scopes describe the same program, from both ends |
| `ItemsHaveIds` | a finished numbering reaches every node below nothing but items and bodies, and no other |
| `FilesAreMapped` | the definitions of a collected file are those of its items that are where the collector looks and whose names are not taken, no more and no fewer |

An id is a number and the number of its parent, and the numbers are taken from
two kinds of counters: all ids given so far for an item of the file, the ids
under one parent number for any other. Parents of different places in the tree
may have one number (the bodies of all contracts have 0), so that no id says
where its node is; what makes it unique is that every id given lies below the
counter the next of its kind is taken from (`Below`), and that a counter only
grows (`CountPut`). `IInv` adds that a node taken from the queue comes with a
parent number and not an id, and that the node whose children are queued has
one. For the refinement every step of the collector is one of four: a step of
the numbering, `IdsBegin` of the next file's tree once the numbering of this one is done, or
one that leaves its variables alone (`StepImplementsIds`), which needs no more
than that files are collected only when they are numbered (`Collected`).

`DefsMatchScopes` relates two tables that are written apart, and says nothing of
the items to come. `DInv` adds them: how far the walk over the program is
(`Progress`), that an item tree lists an item once (`ItemsListed`, because ids
are unique), that what is left to collect has no definition yet (`ToCollect`),
and whose scope its members go to (`Scoped`). Entering an item then adds to both
tables and overwrites neither; there is one lemma for each way of entering:
with a scope (`MapGetsScope`), a name (`MapGetsNamed`), none
(`MapGetsNameless`), or directives (`MapGetsUsings`). If an item could be
entered twice, a definition would lose the scope its name is in. The map as it
stands (`MapInv`) also keeps what those who read it need: that a scope comes after
the one around it, with only what is inside of that in between (`Nested`), and
that the owner of a scope has it for a child (`OwnersHave`), which goes for
containers whose own name was taken as well.

`DInv` says that nothing is entered that should not be. `FilesAreMapped` also
says that nothing is forgotten, and which of two items of one name is entered,
which needs the other direction at every stage: that a node due an id has one, is queued, or
is a child still to be looked at (`Reached`); that every node that is to be lowered
is in the lists, in document order (`ItemsHeld`); and, while a file is collected
(`Mapping`), that what waits comes after what is done in the same place, that a
scope's names are those of the items done, each with the namespace of the first,
and that the definitions so far are those of the items done whose names were
free. An item taken from the lists is thus the last of its place, and what
`collect_def` finds under its name is what the text says comes first
(`FitsIfFree`, `NamesGrow`). The members of a container follow it before the next
item of the file, so `OnlyOneMoreDone` holds of a container as of any other item.
`FilesMapped` keeps the result for the files before.

### RequestsProofs

For any trees and programs (`TreesAssumption`, `GrammarAssumption`, `BodyAssumption`,
`ProgramsAssumption`), about `RequestSpec`.

| Theorem | Says |
|---|---|
| `LocalsAreLexical` | `LocalsLexical`: a name in a body means the local declared before it in the innermost scope around it |
| `LocalsResolveOutwards` | `LocalFrom` goes outwards scope by scope, as the loop of `resolve_local` does |
| `NamesResolveOutwards` | so does `OutwardsFrom`, as that of `resolve_def` |
| `OffersWhatNamesMean` | `OfferedIsMeant`: what completion offers is what the name means there |
| `PanicsNarrowly` | `BuildPanicsNarrow`: a request panics just when the cursor is in a definition the map leaves out, which the text alone tells |

`LocalsLexical` compares what a finished walk has entered with the text, and
says nothing of a walk under way. `BodyInv` does, of any position of the cursor:
the scopes pushed are the blocks passed, in the order of the text, each with the
innermost one around it for a parent (`Framed`); the cursor is in the current scope
and past all those that begin later (`Standing`); the locals passed are
entered in the innermost scope around them (`Filled`), and so are expressions
(`Placed`). There is one lemma for each way the walk goes on. The hard ones are
those that jump: that passing over a node, by its end, passes over no block
and no declaration (`Clear`, `NothingSkipped`, from `BodyAssumption`), and that
closing a scope by comparing offsets closes no other (`CurrentIsInnermost`,
`PopKeepsBodyInv`). The body is kept from one request to the next, so the
invariant says which file's tree it was built from (`BodyKept`).

That the scopes around a scope are those no scope in between is outside of
(`AroundIsCovering`, `AroundStep`, `MapAroundStep`) rests on `Framed` for bodies
and on `Nested` for the map; the two equations then follow by looking at the
greatest scope that has the name (`LocalFromStep`, `OutwardsStep`).

For `OfferedIsMeant`, a name entered in a scope means, looked up from there, the
first definition entered (`EntryMeans`, from `MapInv`); from a scope inside it the
lookup passes by, unless a base, `this` or `super` stops it (`OfferedMeans`); and
the map does not change from the request to its answer (`OfferInv`).

For `BuildPanicsNarrow`, `FilesMapped` of the finished map (`FilesHold`) says which
items of the text are defined; `StageInv` says that a request goes on just while its
containers have ids and the innermost is defined. What remains is about trees
alone: an item has an id unless something around it is neither an item nor a body
(`ItemsAreSound`, by the least node for which it were otherwise); one with an
id is kept unless it is `Omitted` (`KeptUnlessOmitted`, by `GrammarAssumption`);
and two that are kept share a place just when they share a parent
(`SamePlace`), so that the items a name can be taken by are the `Rivals` of the
text (`TakenByRivals`).

### LspServerProofs

For any files, source roots, texts and number of messages and changes
(`FileAssumption`, `TextsAssumption`, `WholeAssumption`, `DirtyAssumption` and
`CharAssumption`).

| Theorem | Says |
|---|---|
| `PositionIsFound` | `to_rope_idx` finds every position the editor can send of a text, and the place it means; no two places have one position |
| `BytesReplaced` | replacing characters in a rope replaces, in its bytes, those between the offsets of the two places |
| `TextsTyped` | texts, messages and changes under way are what the handlers take for granted |
| `TextsMirrored` | `Mirror`: the server's text with what is under way is the buffer |
| `PanicsOnlyOutside` | `PanicsOutsideOnly`: no panic but over a request on a file outside all roots |
| `ResponsesAsked` | `AnswersAsked`: a response is about the buffer and place the user asked about |
| `SyntaxRefines` | `SyntaxSpec`: driven by this loop, the parser implements `AstService` |

The first two are the conversions `apply_changes` rests on. Both count: code units
of a line, lines before a place, bytes before a character. The first follows
since counts grow from one character to the next, so that the index the code
finds is the only one of its line with that count, and since a line's feed
counts too. The second looks at one byte at a time: a byte is the k-th of the
n-th character (`IsByte`), every place has one such byte (`ByteOf`, `ByteIs`), and
`ReplacedCounts` says where characters go.

`Mirror` computes the last text from the first and says nothing of those in
between, so it is not inductive. `IInv` states the whole way for every file of a
source root (`InStep`): there is a text for every point of what is under way,
from the rope over the changes of the current batch (`Walk`) and over the
messages (`Path`) to the buffer, and each change fits, and each request is
about, the text it will meet. A message sent lengthens a way at its end
(`Follows` of one message more), one handled shortens it at its start; that
is all a step does to it. Files the server has not heard of need `Introduced`:
the first message about one opens it. A panic is then impossible, since a change
that fits has its places in the rope by `PositionIsFound`.

`SInv` adds the syntax layer: a cached tree is in step with the bytes of the
rope, a current memo is a parse from scratch, the last response is right
(`AnswersAsked`). By `BytesReplaced` an edit of the rope is the splice
`IncrementalParserProofs` is about, and its lemmas `EditKeepsInSync` and
`ReparseIsFresh` are used as they stand, through an instance of that module over
the bytes of the ropes. For the refinement, a step that sets a rope is `Write`,
a request answered is `Ask`, and any other a stutter.

### ImportResolverProofs

For any files and import graphs (`GraphsAssumption`).

| Theorem | Says |
|---|---|
| `TypeCorrect` | `TypeOK`: a file is resolved by one call at a time, in the chain, its entry taken |
| `SoundAlways` | `Sound`: no scope and no directive comes from where imports do not lead |
| `PanicsOverTwoWays` | `PanicsNarrow`: the assertion fails only over two ways of one file into a ring |
| `NothingLeftOut` | `Complete`: in the end every file has all its imports lead to, around cycles too, whichever file the walks start from |
| `NamesAreFound` | `NamesFound`: without cycles of several files, an import finds the name it asks for |

`IInv` ties map, stack and chain together (`Calls`): each call's directives are
some of its file's, what is left is some of what it took, and every call but the
innermost waits at the directive that leads to the next. With it `Sound` is
inductive: what a step copies comes along one directive (`ExtendKeepsSound`), and
what a directive leads to its file leads to (`ReachStep`, `ReachTrans`).

`PanicsNarrow` speaks of the end of a walk and needs an invariant of the walk
under the assumption that no file has two ways into a ring (`OneWay`): a call
leads to every call inside it (`CallsLead`), what a call holds as its cycle is
under way outside it (`CyclesUnderWay`), and a file put back and still in the
chain is in a ring that a past directive of some call under way leads to
(`PutBackLedTo`). Meeting such a file again would be a second way into its
ring (`NoSecondWay`); so only files of calls under way are met as cycles,
every cycle ends at its own call, and the outermost call has none left. Two
ways may meet only inside the ring: the property, once stated about two imports
that lead straight into a ring, was corrected when four files refuted it.

`Complete` speaks of the end, after files have been put back and resolved later.
Its invariant (`Gathered`) is stated once for scopes and for using directives:
a file that is resolved has all it leads to; a directive that is not in the map
any more has brought all it leads to; and one that a call under way has passed
has done so too, unless it met a file that has to be resolved later (`HeldUp`).
That a call may end as it does needs one thing more: what it has gathered
includes a piece of the graph that is left, but for the directives to come,
only towards its own file and the files of its cycles (`Piece`). When none of
those remain, nothing leaves the piece, and it is all there is (`EndGathers`,
`ReachWithin`); when some do, the caller inherits the piece with the cycles.
The piece is not the whole of what a file has: an earlier walk may have left it
scopes the present one knows nothing of, which is why the invariant says that
there is a piece and not what it is.

`NamesFound` is about symbols, which, unlike scopes, are copied once and never
again. Over a graph in which every file is a ring of its own the assertion
cannot fail (`NoRings`), a walk meets no file but the one it is at, and nothing
is ever put back (`FoundSoFar`). A file that is resolved then leads to resolved
files only (`ResolvedWithin`), whose names no longer change, so that what a
named import found or rightly did not find stays so (`FoundStays`). Imports of a
file from itself are left out of the property: such a directive is met as a
cycle before the others have been looked at, and copies nothing.

### FileRegistryProofs

For any worlds, that is whatever is on disk, and any number of the editor's
changes (`WorldsAssumption`, `NamesAssumption`, `PathsAssumption`,
`MaxWritesAssumption`).

| Theorem | Says |
|---|---|
| `DiscoveryComplete` | `AllDiscovered`: discovery ends with every package there is a way to, and none twice |
| `PackagesJustified` | `DependencyJustified`: what is local or a dependency is referred to as such |
| `FilesHaveOneInput` | `OneInput`: a second input for a file only where source roots lie in each other |
| `OpenedWhereLoaded` | `OpenAgreesWithLoad`: a new file gets the source root loading would give it, where one package's lie around it and none through a link |
| `VerifiedMapsCurrent` | `MapsCurrent`: a map that is returned is made from the present files, and its imports lead where they would now |
| `QueryPanicsNarrow` | `PanicsNarrow`: no failed unwrap, a cycle only over a ring of source roots |

The invariants follow the phases. `GraphInv` is that of a work list: what
packages looked at refer to has been looked at or is queued, and every entry,
queued ones included, is justified by a package that has been looked at. When
the queue is empty the graph is closed. `LayoutInv` keeps of the sorting in
`package_layout` what the registry needs: of one package, a later source root
lies around an earlier one only if one of the two is found through a link
(`ThroughLink`); for two that are not, the sorted names are those of the source
roots themselves, and no name comes before itself (`SortedOrders`). Hence among
the source roots of a single package around a path, none of them through a link,
the last is the innermost, where `insert_file` puts the file. Across packages
nothing orders them, and a link has its place by its own name, which is why the
property asks for one package and no link.

`RegistryInv` says that the registered input of a path is its last, that a
source root's list has exactly the inputs that name it, and that two inputs of
one path were both loaded. It is there that paths must be canonical: a path
normalized again is itself (`PathsAssumption`), so that the same file cannot be
opened by a path the registry does not know.

`MapsCurrent` is about verified maps only and cannot be inductive: a map that is
kept without being made again was right before. `QueryInv` therefore says of
every map that is not outdated that it is current (`Current`), and of every
verified one that the maps it asked for are verified. The work is in showing
that what salsa does not see does no harm: registering a file or creating one on
disk changes where an import leads only from nowhere to a new file, and if
that file is in the source root itself its list of files has changed, so that the
map is outdated. A file is then found in the map it is unwrapped from because
that map is verified, thus current, and lists all files of its root.

### What is not proved

Model-checked only:

* `OverloadCheapest`, `DotItemsResolve` and `HoverAgrees`: `TypeConversion`,
  `NameResolution` and `Inference` use recursive operators, which the provers
  cannot expand. For the same reason that `AnalysisSpec` implements `RequestSpec`
  is checked by TLC, so that the theorems of `RequestsProofs` hold of it as far as
  that check goes.
* Every liveness property (`Converges`, `Terminates`, `Loaded`, `Answered`):
  TLAPS in this version does not reason about fairness.

The provers cannot use the library's induction theorems, which take an operator
as a parameter. Where a proof needs induction over the length of a text or of
a queue, it is written in terms of sets: a nonempty set of numbers has a least
element (`Least`), and what holds of 0 and is handed on holds up to a bound
(`HandedOn`).

## 6. Not modelled

Wording and layout of responses: what hover writes about a declaration, labels
and snippets of completion, the documentation query. The two debugging views
of the syntax tree and of the HIR. The lowering of type syntax and of literals'
texts; which trees tree-sitter gives to unfinished text, beyond a missing
property and items below an error; constants defined by themselves. Named and
renaming imports outside `ImportResolver`. Edits between
requests of `Analysis`: a request sees one revision, and that the memos of a
revision are those of its texts is salsa's promise, which `IncrementalParser`
and `FileRegistry` check where the code reads state that salsa does not see.
Cancellation and parallelism of salsa, which
this server never uses: all queries run on the main thread, between writes.
`set_packages` is never called. Line breaks other than the line feed: what
counts as one depends on build options of an external crate. Windows paths, and
`normalize_path` of a path whose directory does not exist. Starting and stopping of the server process by the extension.
