----------------------------- MODULE MCLspServer -----------------------------
(***************************************************************************)
(* Instances of LspServer: an ASCII letter, a character of two bytes and   *)
(* one UTF-16 code unit, one of four bytes and two code units, a line feed.*)
(***************************************************************************)
EXTENDS LspServer, TLC

CONSTANTS a, accent, emoji, lf,   \* characters
          disk, added, outside      \* files

MCByteLen  == (a :> 1) @@ (accent :> 2) @@ (emoji :> 4) @@ (lf :> 1)
MCUtf16Len == (a :> 1) @@ (accent :> 1) @@ (emoji :> 2) @@ (lf :> 1)

MCDisk      == disk :> <<emoji, a>>
MCOpenTexts == {<<accent, lf>>}
MCInserts   == {<<>>, <<emoji>>}
=============================================================================
