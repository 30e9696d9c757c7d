---------------------------- MODULE TypeConversion ----------------------------
(***************************************************************************)
(* What converts to what at which cost, of hir/types.rs, and the choice of *)
(* an overload of hir/resolver.rs.  `inherits` holds the pairs of a        *)
(* contract and a member of its linearization.                             *)
(***************************************************************************)
EXTENDS Types, Sequences, SequencesExt, FiniteSetsExt

(* saturating_add: costs stay far below 255 here. *)
TotalCost(costs) == IF NoCost \in ToSet(costs) THEN NoCost ELSE FoldLeft(+, 0, costs)

DefCost(a, b, inherits) == IF a = b \/ <<a, b>> \in inherits THEN 0 ELSE NoCost

(* Type::converts_to: what a type is made of converts part by part, and    *)
(* the sizes of two arrays must agree.                                     *)
RECURSIVE Cost(_, _, _)
PartsCost(a, b, inherits) ==
    IF Len(a) # Len(b) THEN NoCost
    ELSE TotalCost([k \in DOMAIN a |-> Cost(a[k], b[k], inherits)])

Cost(a, b, inherits) ==
    CASE IsLiteral(a) -> LiteralCost(a, b)
      [] IsPrim(a) /\ IsPrim(b) -> PrimCost(a, b)
      [] BothHave(a, b, "def") -> DefCost(a.def, b.def, inherits)
      [] BothHave(a, b, "error") -> 0
      [] BothHave(a, b, "elem") ->
           IF a.size = b.size THEN Cost(a.elem, b.elem, inherits) ELSE NoCost
      [] BothHave(a, b, "key") ->
           PartsCost(<<a.key, a.mapped>>, <<b.key, b.mapped>>, inherits)
      [] BothHave(a, b, "params") ->
           IF Len(a.params) # Len(b.params) THEN NoCost
           ELSE PartsCost(a.params \o a.ret, b.params \o b.ret, inherits)
      [] BothHave(a, b, "parts") -> PartsCost(a.parts, b.parts, inherits)
      [] OTHER -> NoCost

(* TypeKey::converts_to *)
KeyCost(a, b, inherits) ==
    IF LocConverts(a.loc, b.loc) THEN Cost(a.typ, b.typ, inherits) ELSE NoCost
Converts(a, b, inherits) == KeyCost(a, b, inherits) # NoCost

-----------------------------------------------------------------------------
(* resolve_overload: of the candidates the arguments convert to, the first  *)
(* of the least cost.  A candidate is [params, bound, ...], the first       *)
(* `bound` parameters being given by the receiver.                          *)

CallCost(c, args, inherits) ==
    IF Len(c.params) # Len(args) + c.bound THEN NoCost
    ELSE TotalCost([k \in DOMAIN args |-> KeyCost(args[k], c.params[k + c.bound], inherits)])

(* Mutant: a candidate that costs as much as the best replaces it. *)
CheaperOrEqual(cost, best) == best = NoCost \/ cost <= best

Cheaper(cost, best) == best = NoCost \/ cost < best

(* The place of the candidate that is chosen, 0 if there is none. *)
Overload(candidates, args, inherits) ==
    LET cost == [k \in DOMAIN candidates |-> CallCost(candidates[k], args, inherits)]
        Better(best, k) == IF cost[k] # NoCost /\ Cheaper(cost[k], IF best = 0 THEN NoCost
                                                                   ELSE cost[best])
                           THEN k ELSE best
    IN FoldLeft(Better, 0, [k \in DOMAIN candidates |-> k])
=============================================================================
