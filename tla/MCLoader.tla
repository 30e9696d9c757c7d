------------------------------- MODULE MCLoader -------------------------------
(* Instances of Loader: no root, one with two files, empty and full ones,   *)
(* and more roots than the channel holds messages.                          *)
EXTENDS Loader

CONSTANTS p, q, r

MCLayouts == {<<>>, <<<<p, q, r>>>>, <<<<p>>, <<q, p>>>>, <<<<r, q>>, <<p>>, <<q>>>>}
=============================================================================
