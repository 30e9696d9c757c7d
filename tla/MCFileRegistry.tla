--------------------------- MODULE MCFileRegistry ---------------------------
(* Workspaces for FileRegistry. *)
EXTENDS FileRegistry, TLC

NoLinks == <<>>
Star(dir) == [dir |-> dir, star |-> TRUE]
Literal(dir) == [dir |-> dir, star |-> FALSE]
Json(workspaces, dependencies) ==
    [NoConf EXCEPT !.json = TRUE,
                   !.manifest = [workspaces |-> workspaces, dependencies |-> dependencies]]
Hardhat(conf, sources) == [conf EXCEPT !.hardhat = [sources |-> sources, tests |-> <<"test">>]]
Foundry(conf, src, remappings) ==
    [conf EXCEPT !.foundry = [src |-> src, remappings |-> remappings]]
Beside(up, path) == [relative |-> TRUE, up |-> up, path |-> path]
Direct(path) == [relative |-> FALSE, up |-> 0, path |-> path]
Remap(prefix, target) == [prefix |-> prefix, target |-> target, absolute |-> FALSE]

(* A monorepo: the workspace's packages depend on each other, through links *)
(* in node_modules, and are found through one.                              *)
A == <<"packages", "a">>
B == <<"packages", "b">>
LinkA == <<"node_modules", "a">>
Monorepo ==
    LET SolA == A \o <<"contracts", "A">>
        SolB == B \o <<"contracts", "B">>
    IN [dirs |-> {<<>>, <<"packages">>, A, A \o <<"contracts">>, B, B \o <<"contracts">>, B \o <<"test">>,
                  <<"node_modules">>},
        link |-> (LinkA :> A) @@ (<<"node_modules", "b">> :> B) @@ (<<"all">> :> <<"packages">>),
        conf |-> (<<>> :> Json({Star(<<"all">>)}, <<>>))
                 @@ (A :> Hardhat(Json({}, <<"b">>), <<"contracts">>))
                 @@ (B :> Hardhat(Json({}, <<"a", "missing">>), <<"contracts">>)),
        sol |-> {SolA, SolB, B \o <<"test", "T">>},
        ignored |-> {<<"node_modules">>},
        text |-> (SolA :> {}) @@ (SolB :> {Direct(<<"a", "contracts", "A">>)})
                 @@ (B \o <<"test", "T">> :> {Beside(1, <<"contracts", "B">>)}),
        paths |-> {SolA, LinkA \o <<"contracts", "A">>, A \o <<"contracts", "N">>, SolB},
        texts |-> {{}, {Direct(<<"a", "contracts", "N">>)}, {Direct(<<"b", "contracts", "B">>), Beside(0, <<"N">>)}}]

(* A Foundry project with libraries, one inside the other, the outer one    *)
(* without a source directory of a known name, in a directory lib is a link *)
(* to.                                                                      *)
L == <<"vendor", "l">>
M == L \o <<"lib", "m">>
FoundryProject ==
    LET S == <<"src", "S">>
        T == <<"test", "T">>
    IN [dirs |-> {<<>>, <<"src">>, <<"test">>, <<"vendor">>, L, L \o <<"lib">>, M, M \o <<"src">>},
        link |-> (<<"lib">> :> <<"vendor">>),
        conf |-> (<<>> :> [Foundry(NoConf, <<"src">>, <<>>) EXCEPT
                              !.txt = <<Remap(<<"l">>, <<"lib", "l">>),
                                        Remap(<<"l", "m">>, <<"lib", "l", "lib", "m", "src">>)>>])
                 @@ (L :> Foundry(NoConf, <<"src">>, <<Remap(<<"m">>, <<"lib", "m", "src">>)>>))
                 @@ (M :> Foundry(NoConf, <<"src">>, <<>>)),
        sol |-> {S, T, L \o <<"L">>, M \o <<"src", "M">>},
        ignored |-> {},
        text |-> (S :> {Direct(<<"l", "m", "M">>)}) @@ (T :> {Beside(1, <<"src", "S">>)})
                 @@ (L \o <<"L">> :> {Direct(<<"m", "M">>)}) @@ (M \o <<"src", "M">> :> {}),
        paths |-> {S, <<"src", "N">>, M \o <<"src", "M">>},
        texts |-> {{}, {Beside(0, <<"N">>)}, {Beside(1, <<"test", "T">>)}}]

(* Hardhat and Foundry in one package, with source directories inside each  *)
(* other, a package of the workspace below another, and a link in a source  *)
(* root, which the walk over files does not follow.                         *)
P == <<"p">>
Q == <<"p", "q">>
Nested ==
    [dirs |-> {<<>>, <<"src">>, <<"src", "test">>, P, Q, Q \o <<"contracts">>},
     link |-> (<<"src", "link">> :> Q \o <<"contracts">>),
     conf |-> (<<>> :> Hardhat(Foundry(Json({Literal(P), Literal(Q)}, <<>>), <<"src">>, <<>>), <<"src", "test">>))
              @@ (P :> Hardhat(Json({}, <<>>), <<>>)) @@ (Q :> Json({}, <<>>)),
     sol |-> {<<"src", "S">>, <<"src", "test", "T">>, Q \o <<"contracts", "Q">>},
     ignored |-> {},
     text |-> (<<"src", "S">> :> {}) @@ (<<"src", "test", "T">> :> {Beside(1, <<"S">>)})
              @@ (Q \o <<"contracts", "Q">> :> {}),
     paths |-> {<<"src", "test", "N">>, <<"src", "N">>, Q \o <<"contracts", "N">>, <<"out", "N">>,
                <<"src", "link", "Q">>},
     texts |-> {{}, {Beside(0, <<"N">>)}}]

(* Dependencies that depend on each other, one of them found in the other's *)
(* node_modules and therefore below its source root; a package without      *)
(* files.                                                                   *)
D == <<"node_modules", "d">>
E == D \o <<"node_modules", "e">>
Ring2 ==
    [dirs |-> {<<>>, <<"contracts">>, D, E, <<"empty">>},
     link |-> NoLinks,
     conf |-> (<<>> :> Json({Literal(<<"empty">>)}, <<"d">>)) @@ (D :> Json({}, <<"e">>))
              @@ (E :> Json({}, <<"d">>)),
     sol |-> {<<"contracts", "C">>, D \o <<"D">>, E \o <<"E">>},
     ignored |-> {},
     text |-> (<<"contracts", "C">> :> {Direct(<<"d", "D">>)}) @@ (D \o <<"D">> :> {Direct(<<"e", "E">>)})
              @@ (E \o <<"E">> :> {}),
     paths |-> {D \o <<"D">>, E \o <<"E">>, <<"contracts", "N">>},
     texts |-> {{}, {Direct(<<"d", "D">>)}, {Direct(<<"e", "E">>)}}]

(* Source directories that are links: one to a directory inside another     *)
(* source directory, which it comes before by its name, and one to another. *)
Linked ==
    LET I == <<"src", "inner", "I">>
    IN [dirs |-> {<<>>, <<"src">>, <<"src", "inner">>, <<"test">>},
        link |-> (<<"contracts">> :> <<"src", "inner">>) @@ (<<"script">> :> <<"src">>),
        conf |-> (<<>> :> Foundry(NoConf, <<"src">>, <<>>)),
        sol |-> {I, <<"src", "S">>, <<"test", "T">>},
        ignored |-> {},
        text |-> (I :> {}) @@ (<<"src", "S">> :> {Direct(<<"inner", "I">>)})
                 @@ (<<"test", "T">> :> {Beside(1, <<"src", "S">>)}),
        paths |-> {<<"contracts", "I">>, <<"src", "inner", "N">>, <<"test", "N">>},
        texts |-> {{}, {Beside(0, <<"N">>)}}]

MCWorlds == {Monorepo, FoundryProject, Nested, Ring2, Linked}

(* Names of source directories, ordered as strings. *)
MCNameOrder == <<"contracts", "script", "src", "test">>
=============================================================================
