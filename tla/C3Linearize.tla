----------------------------- MODULE C3Linearize -----------------------------
(***************************************************************************)
(* The linearization of a contract's bases: the memoised query bases of    *)
(* salsa/hir_db.rs, and c3_linearize and c3_merge of hir/resolver.rs.      *)
(*                                                                         *)
(* The query of a contract asks for the queries of its direct bases; the   *)
(* calls under way are a stack of frames.  Salsa, which is not part of     *)
(* this repository, answers a query from its memo and panics when a query  *)
(* comes to depend on itself.                                              *)
(***************************************************************************)
EXTENDS Integers, Sequences, FiniteSets

CONSTANTS
    Contract,    \* contracts and interfaces
    Other,       \* the other types a base may name: libraries, structs, enums
    Unresolved,  \* a base that names no type
    Hierarchies, \* the inheritance lists the contracts may have
    Asked,       \* bound: the contracts the server asks about
    None

Base == Contract \cup Other \cup {Unresolved}

ASSUME BaseAssumption ==
    /\ Contract \cap Other = {} /\ Unresolved \notin Contract \cup Other
    /\ \A h \in Hierarchies : h \in [Contract -> Seq(Base)]
    /\ Asked \subseteq Contract
    /\ None \notin Seq(Contract)

VARIABLES
    bases,    \* the inheritance list of every contract, as written
    memo,     \* the linearizations salsa has memoised
    stack,    \* the calls of c3_linearize under way, the innermost last
    panicked  \* not at all, over a "cycle", or on an "unwrap"

vars == <<bases, memo, stack, panicked>>

(* A call: the bases it has still to ask about, the linearizations it has   *)
(* got, and its own so far.                                                 *)
Reversed(s) == [i \in 1 .. Len(s) |-> s[Len(s) + 1 - i]]

Frame(c) == [def |-> c, todo |-> Reversed(bases[c]), lists |-> <<>>, out |-> <<c>>]

Init == /\ bases \in Hierarchies
        /\ memo = [c \in Contract |-> None]
        /\ stack = <<>>
        /\ panicked = "no"

Running == stack # <<>> /\ panicked = "no"
Top == stack[Len(stack)]
SetTop(frame) == stack' = [stack EXCEPT ![Len(stack)] = frame]
OnStack == {stack[k].def : k \in DOMAIN stack}

Ask(c) ==
    /\ stack = <<>> /\ panicked = "no" /\ memo[c] = None
    /\ stack' = <<Frame(c)>>
    /\ UNCHANGED <<bases, memo, panicked>>

-----------------------------------------------------------------------------
(* c3_linearize: the bases from right to left *)

AtBase == Running /\ Top.todo # <<>>
NextBase == Head(Top.todo)
GotList(list) == SetTop([Top EXCEPT !.todo = Tail(@), !.lists = Append(@, list)])

(* resolve_base fails *)
SkipBase ==
    /\ AtBase /\ NextBase = Unresolved
    /\ SetTop([Top EXCEPT !.todo = Tail(@)])
    /\ UNCHANGED <<bases, memo, panicked>>

(* The query answers with no contract at all for anything but a contract.   *)
TakeOther ==
    /\ AtBase /\ NextBase \in Other
    /\ GotList(<<>>)
    /\ UNCHANGED <<bases, memo, panicked>>

TakeMemo ==
    /\ AtBase /\ NextBase \in Contract /\ memo[NextBase] # None
    /\ GotList(memo[NextBase])
    /\ UNCHANGED <<bases, memo, panicked>>

Descend ==
    /\ AtBase /\ NextBase \in Contract \ OnStack /\ memo[NextBase] = None
    /\ stack' = Append(stack, Frame(NextBase))
    /\ UNCHANGED <<bases, memo, panicked>>

Panic(why) == panicked' = why /\ stack' = <<>> /\ UNCHANGED <<bases, memo>>

MeetCycle == AtBase /\ NextBase \in OnStack /\ Panic("cycle")

-----------------------------------------------------------------------------
(* c3_merge.  A list that has become empty is dropped, so it is no longer   *)
(* there; one that was empty from the start is, in the first round.         *)

Merging == Running /\ Top.todo = <<>>

(* Mutant: a list that has become empty stays. *)
ThereEmptied(frame) == DOMAIN frame.lists

There(frame) == {k \in DOMAIN frame.lists : frame.lists[k] # <<>> \/ Len(frame.out) = 1}

(* Mutant: the head of a list is good when it is in no other list's head's  *)
(* place, whatever the tails.                                               *)
IsGoodAlways(frame, k) == frame.lists[k] # <<>>

(* Mutant: the heads of the other lists count as their tails do. *)
IsGoodNoSkip(frame, k) ==
    /\ frame.lists[k] # <<>>
    /\ \A l \in DOMAIN frame.lists \ {k} : \A i \in 1 .. Len(frame.lists[l]) :
          frame.lists[l][i] # Head(frame.lists[k])

(* The head of a list is good when it is in the tail of none. *)
IsGood(frame, k) ==
    /\ frame.lists[k] # <<>>
    /\ \A l \in DOMAIN frame.lists : \A i \in 2 .. Len(frame.lists[l]) :
          frame.lists[l][i] # Head(frame.lists[k])
NoneBefore(frame, k) == \A j \in There(frame) : j < k => ~IsGood(frame, j)

(* Mutant: only the list the candidate is from goes on. *)
WithoutOwn(frame, k) ==
    [frame.lists EXCEPT ![k] = Tail(@)]

(* retain: the candidate, which is in no tail, taken out of every list. *)
Without(frame, k) ==
    [l \in DOMAIN frame.lists |->
        IF frame.lists[l] # <<>> /\ Head(frame.lists[l]) = Head(frame.lists[k])
        THEN Tail(frame.lists[l]) ELSE frame.lists[l]]

(* A round of the loop: the first good head is next. *)
MergeRound ==
    /\ Merging
    /\ \E k \in There(Top) :
          /\ IsGood(Top, k) /\ NoneBefore(Top, k)
          /\ \A j \in There(Top) : j < k => Top.lists[j] # <<>>
          /\ SetTop([Top EXCEPT !.lists = Without(Top, k),
                                !.out = Append(@, Head(Top.lists[k]))])
    /\ UNCHANGED <<bases, memo, panicked>>

(* list.first().unwrap() *)
MergeUnwrap ==
    /\ Merging
    /\ \E k \in There(Top) : Top.lists[k] = <<>> /\ NoneBefore(Top, k)
    /\ Panic("unwrap")

Answer == /\ memo' = [memo EXCEPT ![Top.def] = Top.out]
          /\ stack' = SubSeq(stack, 1, Len(stack) - 1)
          /\ UNCHANGED <<bases, panicked>>

(* Mutant: without a candidate, the loop goes round again. *)
MergeStuckLooping ==
    /\ Merging /\ There(Top) # {}
    /\ \A k \in There(Top) : Top.lists[k] # <<>> /\ ~IsGood(Top, k)
    /\ UNCHANGED vars

(* No head is good: the linearization stays as it is. *)
MergeStuck ==
    /\ Merging /\ There(Top) # {}
    /\ \A k \in There(Top) : Top.lists[k] # <<>> /\ ~IsGood(Top, k)
    /\ Answer

MergeDone == Merging /\ There(Top) = {} /\ Answer

Run == \/ SkipBase \/ TakeOther \/ TakeMemo \/ Descend \/ MeetCycle
       \/ MergeRound \/ MergeUnwrap \/ MergeStuck \/ MergeDone

Next == (\E c \in Asked : Ask(c)) \/ Run

(* A query that was begun is gone on with. *)
Spec == Init /\ [][Next]_vars /\ WF_vars(Run)

-----------------------------------------------------------------------------
(* Properties *)

SeqRange(s) == {s[i] : i \in 1 .. Len(s)}
Distinct(s) == \A i, j \in 1 .. Len(s) : s[i] = s[j] => i = j

(* Types; every call under way is of a contract that has no memo yet, and   *)
(* of no other call's.                                                      *)
FrameOK(frame) ==
    /\ frame.def \in Contract /\ memo[frame.def] = None
    /\ frame.todo \in Seq(Base) /\ frame.lists \in Seq(Seq(Contract))
    /\ frame.out \in Seq(Contract) /\ frame.out # <<>>
TypeOK ==
    /\ \A c \in Contract : bases[c] \in Seq(Base)
    /\ memo \in [Contract -> Seq(Contract) \cup {None}]
    /\ panicked \in {"no", "cycle", "unwrap"}
    /\ \A k \in 1 .. Len(stack) : FrameOK(stack[k])
    /\ \A k, l \in 1 .. Len(stack) : stack[k].def = stack[l].def => k = l

Known == {c \in Contract : memo[c] # None}
BasesOf(c) == SeqRange(bases[c]) \cap Contract

(* A linearization starts with the contract, names no contract twice, and   *)
(* every contract it names has itself been linearized.                      *)
Linear == \A c \in Known : /\ memo[c][1] = c
                           /\ Distinct(memo[c])
                           /\ SeqRange(memo[c]) \subseteq Known

(* s keeps the order of t. *)
Keeps(s, t) == \A i, j \in 1 .. Len(s) : \A k, l \in 1 .. Len(t) :
                   s[i] = t[k] /\ s[j] = t[l] /\ k < l => i < j

(* A contract overrides in the order its bases do: what comes first in the  *)
(* linearization of a base comes first in the contract's own.               *)
KeepsOrder == \A c \in Known : \A b \in BasesOf(c) : Keeps(memo[c], memo[b])

(* A merge only gives up when it has to: if a linearization leaves out an   *)
(* ancestor its bases have, no order of them agrees with all the bases.     *)
AllOf(c) == {c} \cup UNION {SeqRange(memo[b]) : b \in BasesOf(c)}
OrdersOf(S) == {s \in [1 .. Cardinality(S) -> S] : Distinct(s)}
NotGivenUp ==
    \A c \in Known :
        SeqRange(memo[c]) = AllOf(c)
        \/ ~\E s \in OrdersOf(AllOf(c)) : \A b \in BasesOf(c) : Keeps(s, memo[b])

(* The query panics only on contracts that inherit from themselves or from  *)
(* something that is no contract.                                           *)
Ancestors(c) == {d \in Contract : \A S \in SUBSET Contract :
    (BasesOf(c) \subseteq S /\ \A e \in S : BasesOf(e) \subseteq S) => d \in S}
PanicsNarrow ==
    /\ panicked = "cycle" => \E c \in Contract : c \in Ancestors(c)
    /\ panicked = "unwrap" => \E c \in Contract : SeqRange(bases[c]) \cap Other # {}

(* A query that was begun ends. *)
Answered == stack # <<>> ~> stack = <<>>

(* "precedence is from right to left in solidity's c3 implementation"       *)
(* (comment in c3_linearize): when the bases' order allows it, a base       *)
(* listed later comes before one listed earlier.                            *)
RightToLeft ==
    \A c \in Known :
        Keeps(memo[c], Reversed(bases[c]))
        \/ ~\E s \in OrdersOf(AllOf(c)) :
               Keeps(s, Reversed(bases[c])) /\ \A b \in BasesOf(c) : Keeps(s, memo[b])

(* c3_merge unwraps the head of every list it is given: it takes for        *)
(* granted that a base has a linearization that is not empty.               *)
ListsHaveHeads == panicked # "unwrap"
=============================================================================
